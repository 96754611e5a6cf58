---------------------------- MODULE DeviceProofs ----------------------------
(***************************************************************************)
(* What runs on one machine, for any number of nodes, addresses,           *)
(* connections, items, uploads, peers and address families: the relay's    *)
(* table, the host's resolver, the reload of config.toml, the folder a     *)
(* share serves, the Linux host's filter, sysctls and peers, and the       *)
(* traffic it reports.                                                     *)
(***************************************************************************)
EXTENDS RelayHub, HostDns, ConfigReload, ShareFiles, LinuxNetwork, Traffic, SequenceTheorems,
        FiniteSetTheorems, WellFoundedInduction, NaturalsInduction, TLAPS

(* The relay's table is consistent.  Each conjunct is inductive only with  *)
(* the types; ForwardsBetweenLive follows from a step out of such a state. *)
HubIInv == HubTypeOK /\ AttributionIsLatest /\ StreamRegistrationsOpen

LEMMA HubStarts == HubInit => HubIInv
BY AddrAssumption
   DEF HubInit, HubIInv, HubTypeOK, AttributionIsLatest, StreamRegistrationsOpen, Addrs

LEMMA HubTypeStep == HubTypeOK /\ [HubNext]_hubVars => HubTypeOK'
<1> SUFFICES ASSUME HubTypeOK, [HubNext]_hubVars PROVE HubTypeOK'
  OBVIOUS
<1> USE AddrAssumption, BoundAssumption DEF HubTypeOK, tableVars
<1>1. ASSUME NEW x \in Addrs, Refused(x) PROVE HubTypeOK'
  BY <1>1 DEF Refused, Admit
<1>2. ASSUME NEW n \in Nodes, NEW exp \in 1..(MaxNow + 1), NEW x \in Addrs,
             Register(n, exp, x)
      PROVE  HubTypeOK'
  BY <1>2 DEF Register, Admit
<1>3. ASSUME NEW m \in Nodes, NEW x \in Addrs, SendExpired(m, x) PROVE HubTypeOK'
  BY <1>3 DEF SendExpired, Admit, Drop
<1>4. ASSUME NEW m \in Nodes, NEW x \in Addrs, Refresh(m, x) PROVE HubTypeOK'
  BY <1>4 DEF Refresh, Admit, Touch
<1>5. ASSUME NEW m \in Nodes, NEW n \in Nodes, NEW x \in Addrs, Send(m, x, n)
      PROVE  HubTypeOK'
  BY <1>5 DEF Send, Admit, Touch
<1>6. ASSUME NEW s \in Streams, StreamOpen(s) PROVE HubTypeOK'
  BY <1>6 DEF StreamOpen
<1>7. ASSUME NEW s \in Streams, StreamClosed(s) PROVE HubTypeOK'
  BY <1>7 DEF StreamClosed, Drop
<1>8. CASE Reap
  BY <1>8 DEF Reap, Drop
<1>9. CASE Tick
  BY <1>9 DEF Tick
<1>10. CASE UNCHANGED hubVars
  BY <1>10 DEF hubVars
<1> QED
  BY <1>1, <1>2, <1>3, <1>4, <1>5, <1>6, <1>7, <1>8, <1>9, <1>10 DEF HubNext

LEMMA AttributionStep == HubIInv /\ [HubNext]_hubVars => AttributionIsLatest'
<1> SUFFICES ASSUME HubIInv, [HubNext]_hubVars PROVE AttributionIsLatest'
  OBVIOUS
<1> USE AddrAssumption DEF HubIInv, HubTypeOK, AttributionIsLatest, tableVars
<1>1. ASSUME NEW x \in Addrs, Refused(x) PROVE AttributionIsLatest'
  BY <1>1 DEF Refused
<1>2. ASSUME NEW n \in Nodes, NEW exp \in 1..(MaxNow + 1), NEW x \in Addrs,
             Register(n, exp, x)
      PROVE  AttributionIsLatest'
  BY <1>2 DEF Register
<1>3. ASSUME NEW m \in Nodes, NEW x \in Addrs, SendExpired(m, x)
      PROVE  AttributionIsLatest'
  BY <1>3 DEF SendExpired, Drop
<1>4. ASSUME NEW m \in Nodes, NEW x \in Addrs, Refresh(m, x)
      PROVE  AttributionIsLatest'
  BY <1>4 DEF Refresh, Touch
<1>5. ASSUME NEW m \in Nodes, NEW n \in Nodes, NEW x \in Addrs, Send(m, x, n)
      PROVE  AttributionIsLatest'
  BY <1>5 DEF Send, Touch
<1>6. ASSUME NEW s \in Streams, StreamOpen(s) PROVE AttributionIsLatest'
  BY <1>6 DEF StreamOpen
<1>7. ASSUME NEW s \in Streams, StreamClosed(s) PROVE AttributionIsLatest'
  BY <1>7 DEF StreamClosed, Drop
<1>8. CASE Reap
  BY <1>8 DEF Reap, Drop
<1>9. CASE Tick
  BY <1>9 DEF Tick
<1>10. CASE UNCHANGED hubVars
  BY <1>10 DEF hubVars
<1> QED
  BY <1>1, <1>2, <1>3, <1>4, <1>5, <1>6, <1>7, <1>8, <1>9, <1>10 DEF HubNext

LEMMA StreamsStep == HubIInv /\ [HubNext]_hubVars => StreamRegistrationsOpen'
<1> SUFFICES ASSUME HubIInv, [HubNext]_hubVars PROVE StreamRegistrationsOpen'
  OBVIOUS
<1> USE AddrAssumption
    DEF HubIInv, HubTypeOK, StreamRegistrationsOpen, tableVars, Addrs
<1>1. ASSUME NEW x \in Addrs, Refused(x) PROVE StreamRegistrationsOpen'
  BY <1>1 DEF Refused
<1>2. ASSUME NEW n \in Nodes, NEW exp \in 1..(MaxNow + 1), NEW x \in Addrs,
             Register(n, exp, x)
      PROVE  StreamRegistrationsOpen'
  BY <1>2 DEF Register, Heard
<1>3. ASSUME NEW m \in Nodes, NEW x \in Addrs, SendExpired(m, x)
      PROVE  StreamRegistrationsOpen'
  BY <1>3 DEF SendExpired, Drop
<1>4. ASSUME NEW m \in Nodes, NEW x \in Addrs, Refresh(m, x)
      PROVE  StreamRegistrationsOpen'
  BY <1>4 DEF Refresh, Touch
<1>5. ASSUME NEW m \in Nodes, NEW n \in Nodes, NEW x \in Addrs, Send(m, x, n)
      PROVE  StreamRegistrationsOpen'
  BY <1>5 DEF Send, Touch
<1>6. ASSUME NEW s \in Streams, StreamOpen(s) PROVE StreamRegistrationsOpen'
  BY <1>6 DEF StreamOpen
<1>7. ASSUME NEW s \in Streams, StreamClosed(s) PROVE StreamRegistrationsOpen'
  BY <1>7 DEF StreamClosed, Drop
<1>8. CASE Reap
  BY <1>8 DEF Reap, Drop
<1>9. CASE Tick
  BY <1>9 DEF Tick
<1>10. CASE UNCHANGED hubVars
  BY <1>10 DEF hubVars
<1> QED
  BY <1>1, <1>2, <1>3, <1>4, <1>5, <1>6, <1>7, <1>8, <1>9, <1>10 DEF HubNext

LEMMA InductiveInvariant == HubSpec => []HubIInv
<1>1. HubIInv /\ [HubNext]_hubVars => HubIInv'
  BY HubTypeStep, AttributionStep, StreamsStep DEF HubIInv
<1> QED
  BY <1>1, HubStarts, PTL DEF HubSpec

(* The bucket table is finite, without which its size says nothing, and    *)
(* only Admit adds to it: at most one key, and only below the limit.       *)
Buckets == IsFiniteSet(sources) /\ BucketsBounded

LEMMA BucketsStep == Buckets /\ [HubNext]_hubVars => Buckets'
<1> SUFFICES ASSUME Buckets, [HubNext]_hubVars PROVE Buckets'
  OBVIOUS
<1> USE BoundAssumption DEF Buckets, BucketsBounded
<1>1. ASSUME NEW x \in Addrs, Admit(x) PROVE Buckets'
  <2>1. CASE IpOf[x] \in sources
    <3>1. sources' = sources
      BY <1>1, <2>1 DEF Admit
    <3> QED
      BY <3>1
  <2>2. CASE IpOf[x] \notin sources
    <3>1. IsFiniteSet(sources') /\ Cardinality(sources') = Cardinality(sources) + 1
      BY <1>1, <2>2, FS_AddElement DEF Admit
    <3>2. Cardinality(sources) < MaxBuckets /\ Cardinality(sources) \in Nat
      BY <1>1, <2>2, FS_CardinalityType DEF Admit
    <3> QED
      BY <3>1, <3>2
  <2> QED
    BY <2>1, <2>2
<1>2. CASE Reap
  <2>1. sources' \subseteq sources
    BY <1>2 DEF Reap
  <2>2. IsFiniteSet(sources') /\ Cardinality(sources') <= Cardinality(sources)
    BY <2>1, FS_Subset
  <2>3. Cardinality(sources) \in Nat /\ Cardinality(sources') \in Nat
    BY <2>2, FS_CardinalityType
  <2> QED
    BY <2>2, <2>3
<1>3. CASE UNCHANGED sources
  BY <1>3
<1>4. Reap \/ UNCHANGED sources \/ \E x \in Addrs : Admit(x)
  BY DEF HubNext, hubVars, Refused, Register, SendExpired, Refresh, Send,
         StreamOpen, StreamClosed, Tick
<1> QED
  BY <1>1, <1>2, <1>3, <1>4

(* The relay's tables are sound at any time: every variable has its type,  *)
(* registrations name the latest node at their address and end with their  *)
(* connection, and the bucket table keeps to MAX_RATE_BUCKETS.             *)
THEOREM HubAlwaysHolds == HubSpec => []HubInv
<1>1. HubInit => Buckets
  BY FS_EmptySet, BoundAssumption DEF HubInit, Buckets, BucketsBounded
<1>2. HubSpec => []Buckets
  BY <1>1, BucketsStep, PTL DEF HubSpec
<1>3. HubIInv /\ Buckets => HubInv
  BY DEF HubIInv, Buckets, HubInv
<1> QED
  BY <1>2, <1>3, InductiveInvariant, PTL

(* Every registration belongs to the node that registered last from its    *)
(* address, whatever order datagrams, connections and reaps come in.       *)
THEOREM AttributionAlwaysLatest == HubSpec => []AttributionIsLatest
<1>1. HubIInv => AttributionIsLatest
  BY DEF HubIInv
<1> QED
  BY <1>1, InductiveInvariant, PTL

(* No registration outlives the WebSocket connection it was made over.     *)
THEOREM StreamRegistrationsAlwaysOpen == HubSpec => []StreamRegistrationsOpen
<1>1. HubIInv => StreamRegistrationsOpen
  BY DEF HubIInv
<1> QED
  BY <1>1, InductiveInvariant, PTL

(* A forwarded packet always goes from the latest node at its source       *)
(* address to the latest node at its destination address, both unexpired.  *)
THEOREM ForwardsAlwaysBetweenLive == HubSpec => ForwardsBetweenLive
<1> DEFINE Good == forward' # forward =>
                     /\ Live(forward'.from) /\ Live(forward'.to)
                     /\ owner[forward'.src] = forward'.from
                     /\ owner[forward'.dst] = forward'.to
<1>1. HubIInv /\ [HubNext]_hubVars => [Good]_hubVars
  <2> SUFFICES ASSUME HubIInv, HubNext, forward' # forward PROVE Good
    OBVIOUS
  <2>1. PICK m \in Nodes, n \in Nodes, x \in Addrs :
          /\ addr[m] = x /\ expires[m] > now
          /\ addr[n] # NoAddr /\ expires[n] > now
          /\ forward' = [from |-> m, to |-> n, src |-> x, dst |-> addr[n]]
    BY DEF HubNext, Refused, Register, SendExpired, Refresh, Send, StreamOpen,
           StreamClosed, Reap, Tick
  <2>2. addr[m] # NoAddr
    BY <2>1, AddrAssumption
  <2> QED
    BY <2>1, <2>2 DEF HubIInv, AttributionIsLatest, Live
<1> QED
  BY <1>1, InductiveInvariant, PTL DEF HubSpec, ForwardsBetweenLive

-----------------------------------------------------------------------------
(* The host's resolver.                                                    *)

(* Between the two steps of a copy the file a person wrote is in the       *)
(* backup; what resolv.conf holds tells which way the copy goes.           *)
Configuring == phase = "create" \/ (phase = "refresh" /\ managed)
HalfWay ==
  half => /\ phase # "rest" /\ backup = users
          /\ IF Configuring THEN resolv \in {"ours", users} ELSE resolv = users
ResolverIInv ==
  /\ UsersFileIsKept /\ HalfWay /\ half \in BOOLEAN /\ users \in {"original", "edited"}

(* What follows a platform call leaves no copy half done.                  *)
LEMMA ReturnEnds ==
  ASSUME NEW ok, NEW m, Return(ok, m)
  PROVE  half' = FALSE
BY DEF Return, Then

LEMMA ConfigureKeeps ==
  ASSUME ResolverIInv, Configuring, Configure, Rest
  PROVE  ResolverIInv'
<1> USE DEF ResolverIInv, UsersFileIsKept, HalfWay, Rest
<1>1. CASE ConfigureByTool \/ ConfigureRefused
  <2>1. half' = FALSE /\ UNCHANGED <<resolv, backup>>
    BY <1>1, ReturnEnds DEF ConfigureByTool, ConfigureRefused
  <2> QED
    BY <2>1
<1>2. CASE CopyAway
  BY <1>2 DEF CopyAway, RefusesFile, Copies, Configuring
<1>3. ASSUME NEW ok \in BOOLEAN, WriteManaged(ok) PROVE ResolverIInv'
  <2>1. half' = FALSE
    BY <1>3, ReturnEnds DEF WriteManaged
  <2>2. half /\ resolv' = (IF ok THEN "ours" ELSE resolv)
        /\ backup' = (IF ~ok /\ resolv # "ours" THEN "none" ELSE backup)
    BY <1>3 DEF WriteManaged
  <2> QED
    BY <2>1, <2>2
<1> QED
  BY <1>1, <1>2, <1>3 DEF Configure

LEMMA RemoveKeeps ==
  ASSUME ResolverIInv, ~Configuring, phase # "rest", NEW m, RemoveSystemDns(m), Rest
  PROVE  ResolverIInv'
<1> USE DEF ResolverIInv, UsersFileIsKept, HalfWay, Rest
<1>1. CASE RemoveByTool(m) \/ RemoveNothing(m) \/ RestoreRefused(m)
  <2>1. half' = FALSE /\ UNCHANGED <<resolv, backup>>
    BY <1>1, ReturnEnds DEF RemoveByTool, RemoveNothing, RestoreRefused
  <2> QED
    BY <2>1
<1>2. CASE CopyBack(m)
  BY <1>2 DEF CopyBack, Configuring
<1>3. CASE DropBackup(m)
  <2>1. half' = FALSE /\ half /\ UNCHANGED resolv
    BY <1>3, ReturnEnds DEF DropBackup
  <2> QED
    BY <2>1
<1> QED
  BY <1>1, <1>2, <1>3 DEF RemoveSystemDns

(* What a person last wrote into resolv.conf is in the file or in the      *)
(* backup beside it, wherever manage_magic_dns(), shutdown_magic_dns() or  *)
(* the down command is killed and whatever was edited in between.          *)
THEOREM UsersFileAlwaysKept == HostDnsSpec => []UsersFileIsKept
<1>1. HostDnsInit => ResolverIInv
  BY DEF HostDnsInit, ResolverIInv, UsersFileIsKept, HalfWay
<1>2. ResolverIInv /\ [HostDnsNext]_hostDnsVars => ResolverIInv'
  <2> SUFFICES ASSUME ResolverIInv, [HostDnsNext]_hostDnsVars
               PROVE  ResolverIInv'
    OBVIOUS
  <2>1. ASSUME UNCHANGED <<resolv, backup, users>>, half' = FALSE PROVE ResolverIInv'
    BY <2>1 DEF ResolverIInv, UsersFileIsKept, HalfWay
  <2>2. CASE UNCHANGED hostDnsVars
    BY <2>2 DEF hostDnsVars, ResolverIInv, UsersFileIsKept, HalfWay, Configuring
  <2>3. CASE Pass \/ BindFails \/ Stop \/ Down
    BY <2>1, <2>3 DEF Pass, BindFails, Stop, Down, Then, Files, Rest
  <2>4. CASE StopIdle \/ StartAgent \/ Publish \/ Renumber \/ ToolChanges
    <3>1. half' = FALSE /\ UNCHANGED <<resolv, backup, users>>
      BY <2>4 DEF StopIdle, StartAgent, Publish, Renumber, ToolChanges, Between, Files, Rest,
                  ResolverIInv, HalfWay
    <3> QED
      BY <2>1, <3>1
  <2>5. CASE CreateUnmanaged
    BY <2>1, <2>5, ReturnEnds DEF CreateUnmanaged, Files, Rest
  <2>6. CASE CreateManaged \/ RefreshManaged
    BY <2>6, ConfigureKeeps DEF CreateManaged, RefreshManaged, Configuring
  <2>7. CASE RemoveStale \/ ShutDown \/ DownRemoves
    BY <2>7, RemoveKeeps DEF RemoveStale, ShutDown, DownRemoves, Configuring
  <2>8. CASE RefreshUnmanaged
    <3>1. CASE RemoveSystemDns(mode)
      BY <2>8, <3>1, RemoveKeeps DEF RefreshUnmanaged, Configuring
    <3>2. CASE Then("rest") /\ Stays /\ Files
      BY <2>1, <2>8, <3>2 DEF RefreshUnmanaged, Then, Files, Rest
    <3> QED
      BY <2>8, <3>1, <3>2 DEF RefreshUnmanaged
  <2>9. CASE EditByHand
    BY <2>9 DEF EditByHand, Between, ResolverIInv, UsersFileIsKept, HalfWay
  <2>10. ASSUME NEW torn \in BOOLEAN, Kill(torn) PROVE ResolverIInv'
    BY <2>10 DEF Kill, Then, RefusesFile, Copies, ResolverIInv, UsersFileIsKept, HalfWay
  <2> QED
    BY <2>2, <2>3, <2>4, <2>5, <2>6, <2>7, <2>8, <2>9, <2>10 DEF HostDnsNext
<1>3. ResolverIInv => UsersFileIsKept
  BY DEF ResolverIInv
<1> QED
  BY <1>1, <1>2, <1>3, PTL DEF HostDnsSpec

-----------------------------------------------------------------------------
(* A reload of configuration.                                              *)

(* The daemon runs with what its snapshot was loaded from, the filter      *)
(* apart, whose latest value both have.                                    *)
SnapshotShape ==
  handle = [settings |-> [f \in Settings |-> handle.settings[f]],
            secret |-> handle.secret, print |-> handle.print]
ReloadIInv ==
  /\ ReloadInv /\ SnapshotShape
  /\ daemon # "down" => logFilter = handle.settings["filter"]
  /\ daemon = "loaded" => handle.print = contents[handle.secret]
  /\ daemon = "running" => inUse.secret = handle.print
  /\ reloadAnswer \notin {"none", "rejected"} => daemon = "running"

LEMMA LoadedShape ==
  /\ LoadedConfig.settings = [f \in Settings |-> Setting(f)]
  /\ LoadedConfig.secret = Reference /\ LoadedConfig.print = contents[Reference]
BY DEF LoadedConfig, Fingerprint

(* What the plan of a reload says about the running daemon.                *)
LEMMA PlanIsTrue ==
  ASSUME ReloadIInv, daemon = "running"
  PROVE  /\ ReloadPlan(LoadedConfig) \in {"restart_required", "safe", "no_change"}
         /\ ReloadPlan(LoadedConfig) \in {"safe", "no_change"} => RunsWith = FreshStart
         /\ ReloadPlan(LoadedConfig) = "no_change" => logFilter = Setting("filter")
         /\ ReloadPlan(LoadedConfig) = "restart_required" =>
              RunsWith # FreshStart \/ handle.secret # Reference
<1> DEFINE S == RestartFields(LoadedConfig)
<1>1. /\ handle.settings["shared"] = inUse.settings["shared"]
      /\ handle.settings["own"] = inUse.settings["own"]
      /\ handle.settings["filter"] = logFilter /\ inUse.secret = handle.print
  BY DEF ReloadIInv, ReloadInv, SnapshotIsActive
<1>2. /\ LoadedConfig.settings["shared"] = Setting("shared")
      /\ LoadedConfig.settings["own"] = Setting("own")
      /\ LoadedConfig.settings["filter"] = Setting("filter")
  BY LoadedShape DEF Settings
<1>3. /\ "shared" \in S <=> Setting("shared") # handle.settings["shared"]
      /\ "own" \in S <=> Setting("own") # handle.settings["own"]
      /\ "secret" \in S <=> <<Reference, contents[Reference]>> # <<handle.secret, handle.print>>
      /\ S \subseteq {"shared", "own", "secret"}
  BY <1>2, LoadedShape DEF RestartFields
<1>4. "filter" \in SafeFields(LoadedConfig) <=> Setting("filter") # handle.settings["filter"]
  BY <1>2 DEF SafeFields
<1> HIDE DEF S
<1>5. S = {} => RunsWith = FreshStart
  BY <1>1, <1>3 DEF RunsWith, FreshStart
<1>6. S # {} => RunsWith # FreshStart \/ handle.secret # Reference
  <2>1. RunsWith = FreshStart => /\ inUse.settings["shared"] = Setting("shared")
                                 /\ inUse.settings["own"] = Setting("own")
                                 /\ inUse.secret = contents[Reference]
    BY DEF RunsWith, FreshStart
  <2> QED
    BY <1>1, <1>3, <2>1
<1> QED
  BY <1>1, <1>4, <1>5, <1>6 DEF ReloadPlan, S

LEMMA ReloadStep ==
  ASSUME TRUE \notin SwapsWhileStarting, ReloadIInv, [ConfigNext]_configVars
  PROVE  ReloadIInv'
<1> USE DEF ReloadIInv
<1>1. CASE UNCHANGED configVars
  BY <1>1 DEF configVars, ReloadInv, ReloadTellsTheTruth, SnapshotIsActive, SnapshotShape, RunsWith,
              FreshStart, Setting, FromEnvironment, Reference
<1>2. CASE LoadConfig
  <2>1. SnapshotShape'
    <3>1. handle' = LoadedConfig
      BY <1>2 DEF LoadConfig
    <3> QED
      BY <3>1 DEF LoadedConfig, SnapshotShape
  <2>2. handle'.settings["filter"] = Setting("filter") /\ handle'.print = contents[handle'.secret]
    BY <1>2, LoadedShape DEF LoadConfig, Settings
  <2> QED
    BY <1>2, <2>1, <2>2 DEF LoadConfig, ReloadInv, ReloadTellsTheTruth, SnapshotIsActive
<1>3. CASE ReadSecrets
  <2>1. SnapshotShape'
    BY <1>3 DEF ReadSecrets, SnapshotShape
  <2>2. reloadAnswer \in {"none", "rejected"} /\ UNCHANGED reloadAnswer
    BY <1>3 DEF ReadSecrets
  <2>3. inUse' = [settings |-> handle.settings, secret |-> contents[handle.secret]]
        /\ UNCHANGED <<handle, logFilter>> /\ daemon' = "running" /\ daemon = "loaded"
    BY <1>3 DEF ReadSecrets
  <2>4. inUse'.settings = handle.settings /\ inUse'.secret = contents[handle.secret]
    BY <2>3
  <2> QED
    BY <2>1, <2>2, <2>3, <2>4 DEF ReloadInv, ReloadTellsTheTruth, SnapshotIsActive
<1>4. CASE ExitDaemon
  BY <1>4 DEF ExitDaemon, ReloadInv, ReloadTellsTheTruth, SnapshotIsActive, SnapshotShape
<1>5. CASE ReloadRejected \/ ReloadFilterFails \/ ReloadRefused
  <2>1. /\ daemon = "running" /\ UNCHANGED <<toml, env, contents, daemon, handle, inUse, logFilter>>
        /\ \/ reloadAnswer' = "rejected"
           \/ reloadAnswer' = ReloadPlan(LoadedConfig) /\ ReloadPlan(LoadedConfig) # "safe"
    BY <1>5 DEF ReloadRejected, ReloadFilterFails, ReloadRefused
  <2>2. SnapshotShape' /\ SnapshotIsActive'
    BY <2>1 DEF ReloadInv, SnapshotShape, SnapshotIsActive
  <2>3. RunsWith' = RunsWith /\ FreshStart' = FreshStart /\ Reference' = Reference
        /\ Setting("filter")' = Setting("filter")
    BY <2>1 DEF RunsWith, FreshStart, Setting, FromEnvironment, Reference
  <2>4. ReloadTellsTheTruth'
    BY <2>1, <2>3, PlanIsTrue DEF ReloadTellsTheTruth
  <2> QED
    BY <2>1, <2>2, <2>4 DEF ReloadInv
<1>6. CASE ReloadSafe
  <2>1. /\ daemon = "running" /\ ReloadPlan(LoadedConfig) = "safe" /\ reloadAnswer' = "safe"
        /\ logFilter' = Setting("filter")
        /\ handle' = [handle EXCEPT !.settings["filter"] = LoadedConfig.settings["filter"]]
        /\ UNCHANGED <<toml, env, contents, daemon, inUse>>
    BY <1>6 DEF ReloadSafe, CommitSafe
  <2>2. LoadedConfig.settings["filter"] = Setting("filter")
    BY LoadedShape DEF Settings
  <2>3. handle' = [settings |-> [handle.settings EXCEPT !["filter"] = Setting("filter")],
                   secret |-> handle.secret, print |-> handle.print]
    BY <2>1, <2>2 DEF SnapshotShape
  <2>4. handle.settings = [f \in Settings |-> handle.settings[f]]
    BY DEF SnapshotShape
  <2>5. /\ handle'.settings["filter"] = Setting("filter")
        /\ \A f \in {"shared", "own", "other"} : handle'.settings[f] = handle.settings[f]
        /\ handle'.secret = handle.secret /\ handle'.print = handle.print
    BY <2>3, <2>4 DEF Settings
  <2>6. handle'.settings = [f \in Settings |-> handle'.settings[f]]
    BY <2>3, <2>4
  <2>7. SnapshotShape'
    BY <2>3, <2>5, <2>6 DEF SnapshotShape
  <2>8. SnapshotIsActive'
    BY <2>1, <2>5 DEF ReloadInv, SnapshotIsActive
  <2>9. RunsWith' = RunsWith /\ FreshStart' = FreshStart /\ Setting("filter")' = Setting("filter")
    BY <2>1 DEF RunsWith, FreshStart, Setting, FromEnvironment, Reference
  <2>10. ReloadTellsTheTruth'
    BY <2>1, <2>9, PlanIsTrue DEF ReloadTellsTheTruth
  <2> QED
    BY <2>1, <2>5, <2>7, <2>8, <2>10 DEF ReloadInv
<1>7. ASSUME ConfigEdited, UNCHANGED <<daemon, handle, inUse, logFilter>>,
             daemon = "loaded" => UNCHANGED contents
      PROVE  ReloadIInv'
  BY <1>7 DEF ConfigEdited, ReloadInv, ReloadTellsTheTruth, SnapshotIsActive, SnapshotShape
<1>8. ASSUME NEW f, NEW v, EditSetting(f, v) \/ EditEnvironment(f, v) PROVE ReloadIInv'
  BY <1>7, <1>8 DEF EditSetting, EditEnvironment
<1>9. ASSUME NEW s \in SecretFiles, EditReference(s) PROVE ReloadIInv'
  BY <1>7, <1>9 DEF EditReference
<1>10. ASSUME NEW s \in SecretFiles, NEW c \in Contents, RotateSecret(s, c) PROVE ReloadIInv'
  BY <1>7, <1>10 DEF RotateSecret
<1> QED
  BY <1>1, <1>2, <1>3, <1>4, <1>5, <1>6, <1>8, <1>9, <1>10 DEF ConfigNext

(* After any sequence of edits and of accepted and refused reloads, the    *)
(* answer of commit_safe_for_service() and reload_plan_for_service() is    *)
(* the truth about the running daemon, if no secret file is replaced       *)
(* between the load at start and the read of the secret.                   *)
THEOREM ReloadAlwaysHolds == TRUE \notin SwapsWhileStarting => (ConfigSpec => []ReloadInv)
<1> SUFFICES ASSUME TRUE \notin SwapsWhileStarting PROVE ConfigSpec => []ReloadInv
  OBVIOUS
<1>1. ConfigInit => ReloadIInv
  <2> SUFFICES ASSUME ConfigInit PROVE ReloadIInv
    OBVIOUS
  <2>1. SnapshotShape
    BY DEF ConfigInit, LoadedConfig, SnapshotShape
  <2> QED
    BY <2>1 DEF ConfigInit, ReloadIInv, ReloadInv, ReloadTellsTheTruth, SnapshotIsActive
<1>2. ReloadIInv /\ [ConfigNext]_configVars => ReloadIInv'
  BY ReloadStep
<1>3. ReloadIInv => ReloadInv
  BY DEF ReloadIInv
<1> QED
  BY <1>1, <1>2, <1>3, PTL DEF ConfigSpec

-----------------------------------------------------------------------------
(* The files of a share.                                                   *)

Inodes == Uploads \cup {Old, Outside}
Stages == {"quiet", "check", "create", "write", "rename", "mkdir", "remove", "unlink",
           "move", "done"}
Rows == [at : Stages, method : Methods, path : Items \cup {Root}, to : Items \cup {Root},
         ro : BOOLEAN, whole : BOOLEAN, inode : Uploads \cup {Old, Folder, Gone}]
FilesType ==
  /\ tree \in [Items -> Inodes \cup {Folder, Gone}]
  /\ bytes \in [Inodes -> [by : Inodes, whole : BOOLEAN]]
  /\ asked \in [Uploads -> Rows]

(* A name of the share itself: no temporary, no link and not behind one.   *)
Names == Items \ Temporaries
Within(i) == i \in Names /\ i \notin Links /\ Parent[i] \notin Links

(* What the checks established still holds at every call that follows.     *)
Targeted(r) ==
  /\ r.at = "check" => r.path \in Names /\ r.to \in Names
  /\ r.at \notin {"quiet", "check", "done"} => Within(r.path)
  /\ r.at \in {"unlink", "move"} => Within(r.to)
StaysInside ==
  /\ \A u \in Uploads : Targeted(asked[u])
  /\ \A i \in Links : tree[i] = Folder
  /\ \A i \in Temporaries : tree[i] \in Uploads \cup {Folder, Gone}
  /\ NothingBeyondLinks

(* An upload's inode is the one it makes: nothing has it before.           *)
Waits(r) == r.at \in {"quiet", "check", "create"}
HoldsFile(r) == r.at \in {"write", "rename"}
Unborn ==
  \A u \in Uploads : Waits(asked[u]) =>
    /\ \A i \in Items : tree[i] # u
    /\ \A v \in Uploads : HoldsFile(asked[v]) => asked[v].inode # u

(* Two uploads with one inode open have met, and what one alone writes is  *)
(* under no file's name until it is whole.                                 *)
Apart ==
  \A u \in Uploads, v \in Uploads :
    /\ u # v /\ HoldsFile(asked[u]) /\ HoldsFile(asked[v]) /\ asked[u].inode = asked[v].inode
    => asked[u].inode \in shared
Alone ==
  \A u \in Uploads :
    LET r == asked[u]
    IN  /\ HoldsFile(r) => r.inode \in Uploads
        /\ r.at = "write" /\ r.inode \notin shared =>
             bytes[r.inode].by = u /\ r.whole /\ \A i \in Names : tree[i] # r.inode
        /\ r.at = "rename" /\ r.inode \notin shared => bytes[r.inode].whole
WholeInv == Unborn /\ Apart /\ Alone /\ TornOnlyWhenShared

FilesIInv == FilesType /\ StaysInside /\ WholeInv

LEMMA Drive ==
  /\ Links \subseteq Items /\ Root \notin Links /\ Temporaries \subseteq Items
  /\ \A i \in Items : /\ Part[i] \in Temporaries /\ Part[i] \notin Links
                      /\ Parent[Part[i]] = Parent[i]
  /\ \A i \in Temporaries : i \notin Links
  /\ Gone \notin Uploads /\ Old \notin Uploads /\ Outside \notin Uploads /\ Folder \notin Uploads
  /\ Gone # Old /\ Gone # Outside /\ Gone # Folder /\ Old # Outside /\ Old # Folder
  /\ Outside # Folder
BY ShareFilesAssumption DEF Temporaries, Folder

(* A request that answers, or moves to another stage.                      *)
LEMMA AnswerRow ==
  ASSUME FilesType, NEW u \in Uploads, Answer(u)
  PROVE  /\ asked' \in [Uploads -> Rows] /\ asked'[u].at = "done" /\ asked'[u].inode = Gone
         /\ \A v \in Uploads \ {u} : asked'[v] = asked[v]
<1> DEFINE row == [Quiet EXCEPT !.at = "done", !.method = asked[u].method]
<1>1. Quiet \in Rows /\ Quiet.inode = Gone
  BY DEF Quiet, Rows, Stages, Methods
<1>2. asked[u].method \in Methods
  BY DEF FilesType, Rows
<1>3. row \in Rows /\ row.at = "done" /\ row.inode = Gone
  BY <1>1, <1>2 DEF Rows, Stages
<1>4. asked' = [asked EXCEPT ![u] = row]
  BY DEF Answer
<1> HIDE DEF row
<1> QED
  BY <1>3, <1>4 DEF FilesType

LEMMA StepRow ==
  ASSUME FilesType, NEW u \in Uploads, NEW at \in Stages, Step(u, at)
  PROVE  /\ asked' \in [Uploads -> Rows] /\ asked'[u].at = at
         /\ asked'[u].inode = asked[u].inode /\ asked'[u].path = asked[u].path
         /\ asked'[u].to = asked[u].to /\ asked'[u].whole = asked[u].whole
         /\ \A v \in Uploads \ {u} : asked'[v] = asked[v]
<1> DEFINE row == [asked[u] EXCEPT !.at = at]
<1>1. asked[u] \in Rows
  BY DEF FilesType
<1>2. row \in Rows /\ row.at = at /\ row.inode = asked[u].inode /\ row.path = asked[u].path
      /\ row.to = asked[u].to /\ row.whole = asked[u].whole
  BY <1>1 DEF Rows
<1>3. asked' = [asked EXCEPT ![u] = row]
  BY DEF Step
<1> HIDE DEF row
<1> QED
  BY <1>2, <1>3 DEF FilesType

LEMMA RequestRow ==
  ASSUME NEW r \in Request
  PROVE  r \in Rows /\ r.at = "check" /\ r.path \in Names /\ r.to \in Names
<1>1. r.whole \in BOOLEAN
  BY ShareFilesAssumption DEF Request
<1> QED
  BY <1>1 DEF Request, Rows, Stages, Names

(* A step that opens no inode, and gives a name only what another had.     *)
LEMMA LittleStep ==
  ASSUME FilesIInv, NEW u \in Uploads, UNCHANGED <<bytes, shared>>,
         asked' \in [Uploads -> Rows], \A v \in Uploads \ {u} : asked'[v] = asked[v],
         ~HoldsFile(asked'[u]), Waits(asked'[u]) => Waits(asked[u]),
         tree' \in [Items -> Inodes \cup {Folder, Gone}],
         \A i \in Temporaries : tree'[i] = tree[i],
         \A i \in Names : \/ tree'[i] \in {Gone, Folder}
                          \/ \E j \in Names : tree'[i] = tree[j]
  PROVE  FilesType' /\ WholeInv'
<1>1. FilesType'
  BY DEF FilesIInv, FilesType
<1>2. Unborn'
  <2> SUFFICES ASSUME NEW v \in Uploads, Waits(asked'[v])
               PROVE  /\ \A i \in Items : tree'[i] # v
                      /\ \A w \in Uploads : HoldsFile(asked'[w]) => asked'[w].inode # v
    BY DEF Unborn
  <2>1. Waits(asked[v])
    OBVIOUS
  <2>2. \A i \in Items : tree[i] # v
    BY <2>1 DEF FilesIInv, WholeInv, Unborn
  <2>3. ASSUME NEW i \in Items PROVE tree'[i] # v
    <3>1. CASE i \in Temporaries
      BY <2>2, <3>1
    <3>2. CASE i \in Names
      BY <2>2, <3>2, Drive DEF Names
    <3> QED
      BY <3>1, <3>2 DEF Names
  <2>4. ASSUME NEW w \in Uploads, HoldsFile(asked'[w]) PROVE asked'[w].inode # v
    BY <2>1, <2>4 DEF FilesIInv, WholeInv, Unborn
  <2> QED
    BY <2>3, <2>4
<1>3. Apart'
  BY DEF FilesIInv, WholeInv, Apart
<1>4. Alone'
  <2> SUFFICES ASSUME NEW v \in Uploads, HoldsFile(asked'[v])
               PROVE  /\ asked'[v].inode \in Uploads
                      /\ asked'[v].at = "write" /\ asked'[v].inode \notin shared' =>
                           /\ bytes'[asked'[v].inode].by = v /\ asked'[v].whole
                           /\ \A i \in Names : tree'[i] # asked'[v].inode
                      /\ asked'[v].at = "rename" /\ asked'[v].inode \notin shared' =>
                           bytes'[asked'[v].inode].whole
    BY DEF Alone, HoldsFile, Names, Temporaries
  <2>1. asked'[v] = asked[v] /\ HoldsFile(asked[v])
    OBVIOUS
  <2>2. asked[v].inode \in Uploads
    BY <2>1 DEF FilesIInv, WholeInv, Alone
  <2>3. ASSUME asked[v].at = "write", asked[v].inode \notin shared
        PROVE  \A i \in Names : tree'[i] # asked[v].inode
    BY <2>2, <2>3, Drive DEF FilesIInv, WholeInv, Alone
  <2> QED
    BY <2>1, <2>2, <2>3 DEF FilesIInv, WholeInv, Alone
<1>5. TornOnlyWhenShared'
  BY DEF FilesIInv, WholeInv, TornOnlyWhenShared, Names
<1> QED
  BY <1>1, <1>2, <1>3, <1>4, <1>5 DEF WholeInv

LEMMA InsideMeans ==
  ASSUME NEW i \in Items, InsideParent(i)
  PROVE  Parent[i] \notin Links
BY Drive DEF InsideParent

(* Where names behind the links stay as they are, and the others get       *)
(* nothing from behind them.                                               *)
LEMMA StaysStep ==
  ASSUME FilesIInv, NEW u \in Uploads, Targeted(asked'[u]), asked'[u].inode # Outside,
         \A v \in Uploads \ {u} : asked'[v] = asked[v],
         \A i \in Items : \/ tree'[i] = tree[i]
                          \/ /\ Within(i)
                             /\ tree'[i] # Outside
                          \/ /\ i \in Temporaries /\ Parent[i] \notin Links
                             /\ tree'[i] \in Uploads \cup {Gone}
  PROVE  StaysInside'
<1>1. \A v \in Uploads : Targeted(asked'[v])
  BY DEF FilesIInv, StaysInside
<1>2. \A i \in Links : tree'[i] = Folder
  BY Drive DEF FilesIInv, StaysInside, Within
<1>3. \A i \in Temporaries : tree'[i] \in Uploads \cup {Folder, Gone}
  BY Drive DEF FilesIInv, StaysInside, Within, Names
<1>4. NothingBeyondLinks'
  <2>1. \A v \in Uploads : asked'[v].inode # Outside
    BY DEF FilesIInv, StaysInside, NothingBeyondLinks
  <2>2. \A i \in Items : Parent[i] \in Links => tree'[i] = tree[i]
    BY DEF Within
  <2>3. \A i \in Items : Parent[i] \notin Links => tree'[i] # Outside
    BY Drive DEF FilesIInv, StaysInside, NothingBeyondLinks
  <2> QED
    BY <2>1, <2>2, <2>3 DEF FilesIInv, StaysInside, NothingBeyondLinks, Temporaries
<1> QED
  BY <1>1, <1>2, <1>3, <1>4 DEF StaysInside, Targeted, Within, Names, Temporaries

(* Arriving, checking and reading touch no file.                           *)
LEMMA ArriveKeeps ==
  ASSUME FilesIInv, NEW u \in Uploads, Arrive(u) \/ Forward(u)
  PROVE  FilesIInv'
<1>1. Waits(asked[u])
  <2>1. asked[u] = Quiet /\ Quiet.at = "quiet"
    BY DEF Arrive, Forward, Quiet
  <2> QED
    BY <2>1 DEF Waits
<1>2. UNCHANGED <<tree, bytes, shared>>
  BY DEF Arrive, Forward
<1>3. PICK row : /\ asked' = [asked EXCEPT ![u] = row]
                 /\ row \in Request \/ \E method \in Methods :
                      row = [Quiet EXCEPT !.at = "done", !.method = method]
  <2>1. CASE Arrive(u)
    BY <2>1 DEF Arrive
  <2>2. CASE Forward(u)
    <3>1. PICK r \in Request, ro \in BOOLEAN, away \in BOOLEAN : asked' = [asked EXCEPT ![u] =
            IF away \/ (ro /\ r.method \in Writing)
            THEN [Quiet EXCEPT !.at = "done", !.method = r.method] ELSE r]
      BY <2>2 DEF Forward
    <3>2. r.method \in Methods
      BY DEF Request
    <3> QED
      BY <3>1, <3>2
  <2> QED
    BY <2>1, <2>2
<1>4. /\ row \in Rows /\ row.inode = Gone
      /\ \/ row.at = "done"
         \/ row.at = "check" /\ row.path \in Names /\ row.to \in Names
  <2>1. CASE row \in Request
    BY <2>1, RequestRow DEF Request
  <2>2. ASSUME NEW method \in Methods, row = [Quiet EXCEPT !.at = "done", !.method = method]
        PROVE  row \in Rows /\ row.inode = Gone /\ row.at = "done"
    <3>1. Quiet \in Rows /\ Quiet.inode = Gone
      BY DEF Quiet, Rows, Stages, Methods
    <3> QED
      BY <2>2, <3>1 DEF Rows, Stages
  <2> QED
    BY <1>3, <2>1, <2>2
<1>5. /\ asked' \in [Uploads -> Rows] /\ asked'[u] = row
      /\ \A v \in Uploads \ {u} : asked'[v] = asked[v]
  BY <1>3, <1>4 DEF FilesIInv, FilesType
<1>6. ~HoldsFile(asked'[u]) /\ Targeted(asked'[u]) /\ asked'[u].inode # Outside
  BY <1>4, <1>5, Drive DEF HoldsFile, Targeted
<1>7. tree' \in [Items -> Inodes \cup {Folder, Gone}] /\ tree' = tree
  BY <1>2 DEF FilesIInv, FilesType
<1>8. StaysInside'
  BY <1>5, <1>6, <1>7, StaysStep
<1>9. FilesType' /\ WholeInv'
  BY <1>1, <1>2, <1>5, <1>6, <1>7, LittleStep
<1> QED
  BY <1>8, <1>9 DEF FilesIInv

LEMMA CheckKeeps ==
  ASSUME FilesIInv, NEW u \in Uploads, Check(u)
  PROVE  FilesIInv'
<1> DEFINE r == asked[u]
<1>1. r.at = "check" /\ r.method \in Writing /\ UNCHANGED <<tree, bytes, shared>>
  BY DEF Check
<1>2. FilesType /\ Waits(r) /\ r.path \in Names /\ r.to \in Names
  BY <1>1 DEF Waits, FilesIInv, StaysInside, Targeted
<1>3. CASE Forbidden(r)
  <2>1. Answer(u)
    BY <1>3 DEF Check
  <2>2. ~HoldsFile(asked'[u]) /\ Targeted(asked'[u]) /\ asked'[u].inode # Outside
    BY <1>2, <2>1, AnswerRow, Drive DEF HoldsFile, Targeted
  <2>3. tree' \in [Items -> Inodes \cup {Folder, Gone}] /\ tree' = tree
    BY <1>1, <1>2 DEF FilesType
  <2>4. StaysInside'
    BY <1>2, <2>1, <2>2, <2>3, AnswerRow, StaysStep
  <2>5. FilesType' /\ WholeInv'
    BY <1>1, <1>2, <2>1, <2>2, <2>3, AnswerRow, LittleStep
  <2> QED
    BY <2>4, <2>5 DEF FilesIInv
<1>4. CASE ~Forbidden(r)
  <2>1. PICK at \in Stages : /\ Step(u, at) /\ at \notin {"quiet", "check", "done", "write", "rename"}
                             /\ at \in {"unlink", "move"} => r.method = "MOVE"
    <3>1. r.method \in {"PUT", "MKCOL", "DELETE", "MOVE"}
      BY <1>1 DEF Writing
    <3>2. CASE r.method = "PUT"
      <4>1. Step(u, "create")
        BY <1>4, <3>2 DEF Check
      <4> QED
        BY <4>1 DEF Stages
    <3>3. CASE r.method = "MKCOL"
      <4>1. Step(u, "mkdir")
        BY <1>4, <3>3 DEF Check
      <4> QED
        BY <4>1 DEF Stages
    <3>4. CASE r.method = "DELETE"
      <4>1. Step(u, "remove")
        BY <1>4, <3>4 DEF Check
      <4> QED
        BY <4>1 DEF Stages
    <3>5. CASE r.method = "MOVE"
      <4>1. Step(u, "unlink") \/ Step(u, "move")
        BY <1>4, <3>5 DEF Check
      <4> QED
        BY <3>5, <4>1 DEF Stages
    <3> QED
      BY <3>1, <3>2, <3>3, <3>4, <3>5
  <2>2. Within(r.path)
    <3>1. child_paths(r.path)
      BY <1>4 DEF Forbidden
    <3> QED
      BY <1>2, <3>1, InsideMeans, Drive DEF child_paths, Within, Names, Exists, FilesIInv,
         StaysInside
  <2>3. r.method = "MOVE" => Within(r.to)
    <3>1. r.method = "MOVE" => child_paths(r.to)
      BY <1>4 DEF Forbidden
    <3> QED
      BY <1>2, <3>1, InsideMeans, Drive DEF child_paths, Within, Names, Exists, FilesIInv,
         StaysInside
  <2>4. /\ asked' \in [Uploads -> Rows] /\ asked'[u].at = at
        /\ asked'[u].inode = r.inode /\ asked'[u].path = r.path /\ asked'[u].to = r.to
        /\ \A v \in Uploads \ {u} : asked'[v] = asked[v]
    BY <1>2, <2>1, StepRow
  <2>5. ~HoldsFile(asked'[u]) /\ Targeted(asked'[u])
    BY <2>1, <2>2, <2>3, <2>4 DEF HoldsFile, Targeted
  <2>6. asked'[u].inode # Outside
    BY <2>4 DEF FilesIInv, StaysInside, NothingBeyondLinks
  <2>7. tree' \in [Items -> Inodes \cup {Folder, Gone}] /\ tree' = tree
    BY <1>1, <1>2 DEF FilesType
  <2>8. StaysInside'
    BY <2>4, <2>5, <2>6, <2>7, StaysStep
  <2>9. FilesType' /\ WholeInv'
    BY <1>1, <1>2, <2>4, <2>5, <2>7, LittleStep
  <2> QED
    BY <2>8, <2>9 DEF FilesIInv
<1> QED
  BY <1>3, <1>4

LEMMA ReadKeeps ==
  ASSUME FilesIInv, NEW u \in Uploads, Read(u)
  PROVE  FilesIInv'
<1> DEFINE r == asked[u]
           found == resolve_request(r.path)
           row1 == [r EXCEPT !.at = "done"]
           row == [row1 EXCEPT !.inode = found]
<1>1. r.at = "check" /\ UNCHANGED <<tree, bytes, shared>>
      /\ asked' = [asked EXCEPT ![u] = row]
  BY DEF Read
<1>2. FilesType /\ r \in Rows /\ r.path \in Names
  BY <1>1 DEF FilesIInv, FilesType, StaysInside, Targeted
<1>3. found \in Uploads \cup {Old, Folder, Gone}
  <2>1. CASE InsideParent(r.path)
    <3>1. Parent[r.path] \notin Links /\ r.path \in Items
      BY <1>2, <2>1, InsideMeans DEF Names
    <3>2. tree[r.path] # Outside /\ tree[r.path] \in Inodes \cup {Folder, Gone}
      BY <1>2, <3>1 DEF FilesIInv, FilesType, StaysInside, NothingBeyondLinks
    <3> QED
      BY <3>2 DEF resolve_request, Inodes
  <2>2. CASE ~InsideParent(r.path)
    BY <2>2 DEF resolve_request
  <2> QED
    BY <2>1, <2>2
<1> HIDE DEF found
<1>4. row1 \in Rows /\ row1.at = "done"
  BY <1>2 DEF Rows, Stages
<1> HIDE DEF row1
<1>5. row \in Rows /\ row.at = "done" /\ row.inode = found
  BY <1>3, <1>4 DEF Rows
<1> HIDE DEF row
<1>6. /\ asked' \in [Uploads -> Rows] /\ asked'[u] = row
      /\ \A v \in Uploads \ {u} : asked'[v] = asked[v]
  BY <1>1, <1>2, <1>5 DEF FilesType
<1>7. ~HoldsFile(asked'[u]) /\ ~Waits(asked'[u]) /\ Targeted(asked'[u]) /\ asked'[u].inode # Outside
  BY <1>3, <1>5, <1>6, Drive DEF HoldsFile, Waits, Targeted
<1>8. tree' \in [Items -> Inodes \cup {Folder, Gone}] /\ tree' = tree
  BY <1>1, <1>2 DEF FilesType
<1>9. StaysInside'
  BY <1>6, <1>7, <1>8, StaysStep
<1>10. FilesType' /\ WholeInv'
  BY <1>1, <1>6, <1>7, <1>8, LittleStep
<1> QED
  BY <1>9, <1>10 DEF FilesIInv

(* MKCOL, DELETE and MOVE move what names have among the names.            *)
LEMMA NamesKeep ==
  ASSUME FilesIInv, NEW u \in Uploads,
         MakeFolder(u) \/ RemovePath(u) \/ Unlink(u) \/ Move(u)
  PROVE  FilesIInv'
<1> DEFINE r == asked[u]
<1>1. FilesType /\ UNCHANGED <<bytes, shared>> /\ Within(r.path) /\ r.path \in Items
  BY DEF MakeFolder, RemovePath, Unlink, Move, FilesIInv, StaysInside, Targeted, Within, Names
<1>2. /\ asked' \in [Uploads -> Rows] /\ ~HoldsFile(asked'[u]) /\ ~Waits(asked'[u])
      /\ Targeted(asked'[u]) /\ asked'[u].inode # Outside
      /\ \A v \in Uploads \ {u} : asked'[v] = asked[v]
  <2>1. CASE Answer(u)
    BY <1>1, <2>1, AnswerRow, Drive DEF HoldsFile, Waits, Targeted
  <2>2. CASE r.at = "unlink" /\ Step(u, "move")
    <3>1. "move" \in Stages
      BY DEF Stages
    <3>2. /\ asked' \in [Uploads -> Rows] /\ asked'[u].at = "move"
          /\ asked'[u].inode = r.inode /\ asked'[u].path = r.path /\ asked'[u].to = r.to
          /\ \A v \in Uploads \ {u} : asked'[v] = asked[v]
      BY <1>1, <2>2, <3>1, StepRow
    <3>3. Within(r.to) /\ r.inode # Outside
      BY <2>2 DEF FilesIInv, StaysInside, Targeted, NothingBeyondLinks
    <3> QED
      BY <1>1, <3>2, <3>3 DEF HoldsFile, Waits, Targeted
  <2> QED
    BY <2>1, <2>2 DEF MakeFolder, RemovePath, Unlink, Move
<1>3. /\ tree' \in [Items -> Inodes \cup {Folder, Gone}]
      /\ \A i \in Items : \/ tree'[i] = tree[i]
                          \/ Within(i) /\ (tree'[i] \in {Gone, Folder} \/ tree'[i] = tree[r.path])
  <2>1. CASE MakeFolder(u)
    BY <1>1, <2>1 DEF MakeFolder, FilesType
  <2>2. CASE RemovePath(u)
    BY <1>1, <2>2 DEF RemovePath, FilesType
  <2>3. CASE Unlink(u)
    <3>1. Within(r.to)
      BY <2>3 DEF Unlink, FilesIInv, StaysInside, Targeted
    <3> QED
      BY <1>1, <2>3, <3>1 DEF Unlink, FilesType, Within, Names
  <2>4. CASE Move(u)
    <3>1. Within(r.to) /\ r.to \in Items
      BY <2>4 DEF Move, FilesIInv, StaysInside, Targeted, Within, Names
    <3>2. tree' = tree \/ tree' = [tree EXCEPT ![r.to] = tree[r.path], ![r.path] = Gone]
      BY <2>4 DEF Move
    <3> QED
      BY <1>1, <3>1, <3>2 DEF FilesType
  <2> QED
    BY <2>1, <2>2, <2>3, <2>4
<1>4. tree[r.path] # Outside
  BY <1>1 DEF Within, FilesIInv, StaysInside, NothingBeyondLinks
<1>5. StaysInside'
  <2>1. \A i \in Items : tree'[i] = tree[i] \/ (Within(i) /\ tree'[i] # Outside)
    BY <1>3, <1>4, Drive
  <2> QED
    BY <1>2, <2>1, StaysStep
<1>6. FilesType' /\ WholeInv'
  <2>1. \A i \in Temporaries : tree'[i] = tree[i]
    BY <1>3, Drive DEF Within, Names
  <2>2. r.path \in Names
    BY <1>1 DEF Within
  <2>3. \A i \in Names : tree'[i] \in {Gone, Folder} \/ \E j \in Names : tree'[i] = tree[j]
    BY <1>3, <2>2 DEF Names
  <2> QED
    BY <1>1, <1>2, <1>3, <2>1, <2>3, LittleStep
<1> QED
  BY <1>5, <1>6 DEF FilesIInv

(* An upload opens its temporary file: its own new inode, or one that is   *)
(* there already, which two have met on.                                   *)
LEMMA CreateKeeps ==
  ASSUME FilesIInv, NEW u \in Uploads, Create(u)
  PROVE  FilesIInv'
<1> DEFINE r == asked[u]
           temporary == Part[r.path]
           taken == Exists(temporary)
           inode == IF taken THEN tree[temporary] ELSE u
<1>1. FilesType /\ r.at = "create" /\ r \in Rows /\ Within(r.path) /\ r.path \in Items
  BY DEF Create, FilesIInv, FilesType, StaysInside, Targeted, Within, Names
<1>2. temporary \in Temporaries /\ temporary \in Items /\ Parent[temporary] \notin Links
  BY <1>1, Drive DEF Within
<1>3. CASE ~InsideParent(r.path) \/ tree[temporary] = Folder
  <2>1. Answer(u) /\ UNCHANGED <<tree, bytes, shared>>
    BY <1>3 DEF Create
  <2>2. ~HoldsFile(asked'[u]) /\ ~Waits(asked'[u]) /\ Targeted(asked'[u]) /\ asked'[u].inode # Outside
    BY <1>1, <2>1, AnswerRow, Drive DEF HoldsFile, Waits, Targeted
  <2>3. tree' \in [Items -> Inodes \cup {Folder, Gone}] /\ tree' = tree
    BY <1>1, <2>1 DEF FilesType
  <2>4. StaysInside'
    BY <1>1, <2>1, <2>2, <2>3, AnswerRow, StaysStep
  <2>5. FilesType' /\ WholeInv'
    BY <1>1, <2>1, <2>2, <2>3, AnswerRow, LittleStep
  <2> QED
    BY <2>4, <2>5 DEF FilesIInv
<1>4. CASE InsideParent(r.path) /\ tree[temporary] # Folder
  <2> DEFINE row1 == [r EXCEPT !.at = "write"]
             row == [row1 EXCEPT !.inode = inode]
  <2>1. /\ tree' = [tree EXCEPT ![temporary] = inode]
        /\ bytes' = [bytes EXCEPT ![inode] = [by |-> u, whole |-> FALSE]]
        /\ asked' = [asked EXCEPT ![u] = row]
        /\ shared' = IF taken \/ ~r.whole THEN shared \cup {inode} ELSE shared
    BY <1>4 DEF Create
  <2>2. inode \in Uploads /\ (taken => inode = tree[temporary]) /\ (~taken => inode = u)
    BY <1>2, <1>4 DEF Exists, FilesIInv, StaysInside
  <2>3. Waits(r)
    BY <1>1 DEF Waits
  <2>4. \A i \in Items : tree[i] # u
    BY <2>3 DEF FilesIInv, WholeInv, Unborn
  <2>5. \A v \in Uploads : HoldsFile(asked[v]) => asked[v].inode # u
    BY <2>3 DEF FilesIInv, WholeInv, Unborn
  <2>6. inode \notin shared' => ~taken /\ r.whole /\ inode = u
    BY <2>1, <2>2
  <2>7. shared \subseteq shared'
    BY <2>1
  <2> HIDE DEF inode, taken
  <2>8. row1 \in Rows /\ row1.at = "write" /\ row1.path = r.path /\ row1.whole = r.whole
    BY <1>1 DEF Rows, Stages
  <2> HIDE DEF row1
  <2>9. /\ row \in Rows /\ row.at = "write" /\ row.inode = inode /\ row.path = r.path
        /\ row.whole = r.whole
    BY <2>2, <2>8 DEF Rows
  <2> HIDE DEF row
  <2>10. /\ asked' \in [Uploads -> Rows] /\ asked'[u] = row
         /\ \A v \in Uploads \ {u} : asked'[v] = asked[v]
    BY <1>1, <2>1, <2>9 DEF FilesType
  <2>11. /\ tree' \in [Items -> Inodes \cup {Folder, Gone}] /\ tree'[temporary] = inode
         /\ \A i \in Items \ {temporary} : tree'[i] = tree[i]
    BY <1>1, <1>2, <2>1, <2>2 DEF FilesType, Inodes
  <2>12. /\ bytes' \in [Inodes -> [by : Inodes, whole : BOOLEAN]]
         /\ bytes'[inode] = [by |-> u, whole |-> FALSE]
         /\ \A n \in Inodes \ {inode} : bytes'[n] = bytes[n]
    BY <1>1, <2>1, <2>2 DEF FilesType, Inodes
  <2>13. FilesType'
    BY <2>10, <2>11, <2>12 DEF FilesType, Inodes
  <2>14. StaysInside'
    <3>1. Targeted(asked'[u]) /\ asked'[u].inode # Outside
      BY <1>1, <2>2, <2>9, <2>10, Drive DEF Targeted
    <3> QED
      BY <1>2, <2>2, <2>10, <2>11, <3>1, StaysStep
  <2>15. Unborn'
    <3> SUFFICES ASSUME NEW v \in Uploads, Waits(asked'[v])
                 PROVE  /\ \A i \in Items : tree'[i] # v
                        /\ \A w \in Uploads : HoldsFile(asked'[w]) => asked'[w].inode # v
      BY DEF Unborn
    <3>1. v # u /\ Waits(asked[v])
      BY <2>9, <2>10 DEF Waits
    <3>2. /\ \A i \in Items : tree[i] # v
          /\ \A w \in Uploads : HoldsFile(asked[w]) => asked[w].inode # v
      BY <3>1 DEF FilesIInv, WholeInv, Unborn
    <3>3. inode # v
      BY <1>2, <2>2, <3>1, <3>2
    <3> QED
      BY <2>9, <2>10, <2>11, <3>2, <3>3
  <2>16. Apart'
    <3> SUFFICES ASSUME NEW v \in Uploads, NEW w \in Uploads, v # w, HoldsFile(asked'[v]),
                        HoldsFile(asked'[w]), asked'[v].inode = asked'[w].inode
                 PROVE  asked'[v].inode \in shared'
      BY DEF Apart
    <3>1. CASE v # u /\ w # u
      BY <2>7, <2>10, <3>1 DEF FilesIInv, WholeInv, Apart
    <3>2. CASE v = u
      <4>1. HoldsFile(asked[w]) /\ asked[w].inode = inode /\ asked'[v].inode = inode
        BY <2>9, <2>10, <3>2
      <4> QED
        BY <2>5, <2>6, <4>1
    <3>3. CASE w = u
      <4>1. HoldsFile(asked[v]) /\ asked[v].inode = inode /\ asked'[v].inode = inode
        BY <2>9, <2>10, <3>3
      <4> QED
        BY <2>5, <2>6, <4>1
    <3> QED
      BY <3>1, <3>2, <3>3
  <2>17. Alone'
    <3> SUFFICES ASSUME NEW v \in Uploads, HoldsFile(asked'[v])
                 PROVE  /\ asked'[v].inode \in Uploads
                        /\ asked'[v].at = "write" /\ asked'[v].inode \notin shared' =>
                             /\ bytes'[asked'[v].inode].by = v /\ asked'[v].whole
                             /\ \A i \in Names : tree'[i] # asked'[v].inode
                        /\ asked'[v].at = "rename" /\ asked'[v].inode \notin shared' =>
                             bytes'[asked'[v].inode].whole
      BY DEF Alone, HoldsFile, Names, Temporaries
    <3>1. CASE v = u
      <4>1. ASSUME inode \notin shared' PROVE \A i \in Names : tree'[i] # inode
        BY <1>2, <2>4, <2>6, <2>11, <4>1 DEF Names
      <4> QED
        BY <2>2, <2>6, <2>9, <2>10, <2>12, <3>1, <4>1
    <3>2. CASE v # u
      <4>1. asked'[v] = asked[v] /\ HoldsFile(asked[v]) /\ asked[v].inode \in Uploads
        BY <2>10, <3>2 DEF FilesIInv, WholeInv, Alone
      <4>2. ASSUME asked[v].inode \notin shared'
            PROVE  /\ bytes'[asked[v].inode] = bytes[asked[v].inode]
                   /\ \A i \in Names : tree'[i] = tree[i]
        <5>1. asked[v].inode # inode
          BY <2>5, <2>6, <4>1, <4>2
        <5> QED
          BY <1>2, <2>11, <2>12, <4>1, <5>1 DEF Names, Inodes
      <4> QED
        BY <2>7, <4>1, <4>2 DEF FilesIInv, WholeInv, Alone
    <3> QED
      BY <3>1, <3>2
  <2>18. TornOnlyWhenShared'
    <3> SUFFICES ASSUME NEW i \in Names, tree'[i] \notin {Gone, Folder} \cup shared'
                 PROVE  bytes'[tree'[i]].whole
      BY DEF TornOnlyWhenShared, Names, Temporaries
    <3>1. tree'[i] = tree[i] /\ i \in Items
      BY <1>2, <2>11 DEF Names
    <3>2. tree[i] \in Inodes /\ tree[i] # inode
      BY <2>4, <2>6, <3>1, <1>1 DEF FilesType
    <3>3. bytes[tree[i]].whole
      BY <2>7, <3>1 DEF FilesIInv, WholeInv, TornOnlyWhenShared, Names
    <3> QED
      BY <2>12, <3>1, <3>2, <3>3
  <2> QED
    BY <2>13, <2>14, <2>15, <2>16, <2>17, <2>18 DEF FilesIInv, WholeInv
<1> QED
  BY <1>3, <1>4

(* An upload that met no other fills an inode no file has yet.             *)
LEMMA WriteKeeps ==
  ASSUME FilesIInv, NEW u \in Uploads, Write(u)
  PROVE  FilesIInv'
<1> DEFINE r == asked[u]
<1>1. FilesType /\ r.at = "write" /\ UNCHANGED <<tree, shared>> /\ Step(u, "rename")
  BY DEF Write, FilesIInv
<1>2. HoldsFile(r) /\ r \in Rows /\ Within(r.path)
  BY <1>1 DEF HoldsFile, FilesType, FilesIInv, StaysInside, Targeted
<1>3. r.inode \in Uploads /\ r.inode \in Inodes
  BY <1>2 DEF FilesIInv, WholeInv, Alone, Inodes
<1>4. /\ asked' \in [Uploads -> Rows] /\ asked'[u].at = "rename"
      /\ asked'[u].inode = r.inode /\ asked'[u].path = r.path
      /\ \A v \in Uploads \ {u} : asked'[v] = asked[v]
  BY <1>1, StepRow DEF Stages
<1>5. PICK whole \in IF bytes[r.inode].by = u THEN {r.whole} ELSE {r.whole, FALSE} :
        bytes' = [bytes EXCEPT ![r.inode] = [by |-> u, whole |-> whole]]
  BY DEF Write
<1>6. whole \in BOOLEAN /\ (bytes[r.inode].by = u => whole = r.whole)
  BY <1>2, <1>5 DEF Rows
<1>7. /\ bytes' \in [Inodes -> [by : Inodes, whole : BOOLEAN]]
      /\ bytes'[r.inode].whole = whole
      /\ \A n \in Inodes \ {r.inode} : bytes'[n] = bytes[n]
  BY <1>1, <1>3, <1>5, <1>6 DEF FilesType, Inodes
<1>8. FilesType'
  BY <1>1, <1>4, <1>7 DEF FilesType, Inodes
<1>9. StaysInside'
  <2>1. Targeted(asked'[u]) /\ asked'[u].inode # Outside
    BY <1>2, <1>3, <1>4, Drive DEF Targeted
  <2> QED
    BY <1>1, <1>4, <2>1, StaysStep
<1>10. Unborn'
  <2> SUFFICES ASSUME NEW v \in Uploads, Waits(asked'[v])
               PROVE  /\ \A i \in Items : tree'[i] # v
                      /\ \A w \in Uploads : HoldsFile(asked'[w]) => asked'[w].inode # v
    BY DEF Unborn
  <2>1. v # u /\ Waits(asked[v])
    BY <1>4 DEF Waits
  <2>2. /\ \A i \in Items : tree[i] # v
        /\ \A w \in Uploads : HoldsFile(asked[w]) => asked[w].inode # v
    BY <2>1 DEF FilesIInv, WholeInv, Unborn
  <2> QED
    BY <1>1, <1>2, <1>4, <2>2
<1>11. Apart'
  <2>1. \A v \in Uploads : asked'[v].inode = asked[v].inode /\ (HoldsFile(asked'[v]) => HoldsFile(asked[v]))
    BY <1>2, <1>4
  <2> QED
    BY <1>1, <2>1 DEF FilesIInv, WholeInv, Apart
<1>12. Alone'
  <2> SUFFICES ASSUME NEW v \in Uploads, HoldsFile(asked'[v])
               PROVE  /\ asked'[v].inode \in Uploads
                      /\ asked'[v].at = "write" /\ asked'[v].inode \notin shared' =>
                           /\ bytes'[asked'[v].inode].by = v /\ asked'[v].whole
                           /\ \A i \in Names : tree'[i] # asked'[v].inode
                      /\ asked'[v].at = "rename" /\ asked'[v].inode \notin shared' =>
                           bytes'[asked'[v].inode].whole
    BY DEF Alone, HoldsFile, Names, Temporaries
  <2>1. CASE v = u
    <3>1. ASSUME r.inode \notin shared PROVE whole
      BY <1>1, <1>6, <3>1 DEF FilesIInv, WholeInv, Alone
    <3> QED
      BY <1>1, <1>3, <1>4, <1>7, <2>1, <3>1
  <2>2. CASE v # u
    <3>1. asked'[v] = asked[v] /\ HoldsFile(asked[v]) /\ asked[v].inode \in Uploads
      BY <1>4, <2>2 DEF FilesIInv, WholeInv, Alone
    <3>2. ASSUME asked[v].inode \notin shared
          PROVE  bytes'[asked[v].inode] = bytes[asked[v].inode]
      <4>1. asked[v].inode # r.inode
        BY <1>2, <2>2, <3>1, <3>2 DEF FilesIInv, WholeInv, Apart
      <4> QED
        BY <1>7, <3>1, <4>1 DEF Inodes
    <3> QED
      BY <1>1, <3>1, <3>2 DEF FilesIInv, WholeInv, Alone
  <2> QED
    BY <2>1, <2>2
<1>13. TornOnlyWhenShared'
  <2> SUFFICES ASSUME NEW i \in Names, tree[i] \notin {Gone, Folder} \cup shared
               PROVE  bytes'[tree[i]].whole
    BY <1>1 DEF TornOnlyWhenShared, Names, Temporaries
  <2>1. tree[i] \in Inodes
    BY <1>1 DEF FilesType, Names
  <2>2. tree[i] # r.inode
    BY <1>1 DEF FilesIInv, WholeInv, Alone
  <2>3. bytes[tree[i]].whole
    BY DEF FilesIInv, WholeInv, TornOnlyWhenShared, Names
  <2> QED
    BY <1>7, <2>1, <2>2, <2>3
<1> QED
  BY <1>8, <1>9, <1>10, <1>11, <1>12, <1>13 DEF FilesIInv, WholeInv

(* The rename gives the file an inode that is whole, or one uploads met on. *)
LEMMA RenameKeeps ==
  ASSUME FilesIInv, NEW u \in Uploads, Rename_(u)
  PROVE  FilesIInv'
<1> DEFINE r == asked[u]
           temporary == Part[r.path]
<1>1. FilesType /\ r.at = "rename" /\ UNCHANGED bytes /\ Answer(u)
  BY DEF Rename_, FilesIInv
<1>2. HoldsFile(r) /\ r \in Rows /\ Within(r.path) /\ r.path \in Items /\ r.path \in Names
  BY <1>1 DEF HoldsFile, FilesType, FilesIInv, StaysInside, Targeted, Within, Names
<1>3. temporary \in Temporaries /\ temporary \in Items /\ Parent[temporary] \notin Links
  BY <1>2, Drive DEF Within
<1>4. /\ asked' \in [Uploads -> Rows] /\ asked'[u].at = "done" /\ asked'[u].inode = Gone
      /\ \A v \in Uploads \ {u} : asked'[v] = asked[v]
  BY <1>1, AnswerRow
<1>5. ~HoldsFile(asked'[u]) /\ ~Waits(asked'[u]) /\ Targeted(asked'[u]) /\ asked'[u].inode # Outside
  BY <1>4, Drive DEF HoldsFile, Waits, Targeted
<1>6. CASE UNCHANGED <<tree, shared>>
  <2>1. tree' \in [Items -> Inodes \cup {Folder, Gone}] /\ tree' = tree
    BY <1>1, <1>6 DEF FilesType
  <2>2. StaysInside'
    BY <1>4, <1>5, <2>1, StaysStep
  <2>3. FilesType' /\ WholeInv'
    BY <1>1, <1>4, <1>5, <1>6, <2>1, LittleStep
  <2> QED
    BY <2>2, <2>3 DEF FilesIInv
<1>7. CASE ~UNCHANGED <<tree, shared>>
  <2> DEFINE inode == tree[temporary]
  <2>1. /\ tree' = [tree EXCEPT ![r.path] = inode, ![temporary] = Gone]
        /\ shared' = shared \cup ({inode} \ {r.inode})
    BY <1>7 DEF Rename_
  <2>2. inode \in Uploads \cup {Folder, Gone}
    BY <1>3 DEF FilesIInv, StaysInside
  <2>3. shared \subseteq shared' /\ (inode \notin shared' => inode = r.inode)
    BY <2>1
  <2> HIDE DEF inode
  <2>4. /\ tree' \in [Items -> Inodes \cup {Folder, Gone}]
        /\ tree'[r.path] = inode /\ tree'[temporary] = Gone
        /\ \A i \in Items \ {r.path, temporary} : tree'[i] = tree[i]
    BY <1>1, <1>2, <1>3, <2>1, <2>2 DEF FilesType, Inodes, Names
  <2>5. FilesType'
    BY <1>1, <1>4, <2>4 DEF FilesType
  <2>6. StaysInside'
    <3>1. inode # Outside
      BY <2>2, Drive
    <3> QED
      BY <1>2, <1>3, <1>4, <1>5, <2>4, <3>1, StaysStep
  <2>7. Unborn'
    <3> SUFFICES ASSUME NEW v \in Uploads, Waits(asked'[v])
                 PROVE  /\ \A i \in Items : tree'[i] # v
                        /\ \A w \in Uploads : HoldsFile(asked'[w]) => asked'[w].inode # v
      BY DEF Unborn
    <3>1. v # u /\ Waits(asked[v])
      BY <1>4, <1>5
    <3>2. /\ \A i \in Items : tree[i] # v
          /\ \A w \in Uploads : HoldsFile(asked[w]) => asked[w].inode # v
      BY <3>1 DEF FilesIInv, WholeInv, Unborn
    <3>3. inode # v /\ Gone # v
      BY <1>3, <3>2, Drive DEF inode
    <3> QED
      BY <1>4, <1>5, <2>4, <3>2, <3>3
  <2>8. Apart'
    BY <1>4, <1>5, <2>3 DEF FilesIInv, WholeInv, Apart
  <2>9. Alone'
    <3> SUFFICES ASSUME NEW v \in Uploads, HoldsFile(asked'[v])
                 PROVE  /\ asked'[v].inode \in Uploads
                        /\ asked'[v].at = "write" /\ asked'[v].inode \notin shared' =>
                             /\ bytes'[asked'[v].inode].by = v /\ asked'[v].whole
                             /\ \A i \in Names : tree'[i] # asked'[v].inode
                        /\ asked'[v].at = "rename" /\ asked'[v].inode \notin shared' =>
                             bytes'[asked'[v].inode].whole
      BY DEF Alone, HoldsFile, Names, Temporaries
    <3>1. v # u /\ asked'[v] = asked[v] /\ HoldsFile(asked[v]) /\ asked[v].inode \in Uploads
      BY <1>4, <1>5 DEF FilesIInv, WholeInv, Alone
    <3>2. ASSUME asked[v].at = "write", asked[v].inode \notin shared'
          PROVE  \A i \in Names : tree'[i] # asked[v].inode
      <4>1. \A i \in Names : tree[i] # asked[v].inode
        BY <2>3, <3>2 DEF FilesIInv, WholeInv, Alone
      <4>2. inode # asked[v].inode
        BY <1>2, <2>3, <3>1, <3>2 DEF FilesIInv, WholeInv, Apart
      <4> QED
        BY <1>3, <2>4, <4>1, <4>2 DEF Names
    <3> QED
      BY <1>1, <2>3, <3>1, <3>2 DEF FilesIInv, WholeInv, Alone
  <2>10. TornOnlyWhenShared'
    <3> SUFFICES ASSUME NEW i \in Names, tree'[i] \notin {Gone, Folder} \cup shared'
                 PROVE  bytes[tree'[i]].whole
      BY <1>1 DEF TornOnlyWhenShared, Names, Temporaries
    <3>1. CASE i = r.path
      BY <1>1, <2>3, <2>4, <3>1 DEF FilesIInv, WholeInv, Alone
    <3>2. CASE i # r.path
      <4>1. tree'[i] = tree[i]
        BY <1>3, <2>4, <3>2 DEF Names
      <4> QED
        BY <2>3, <4>1 DEF FilesIInv, WholeInv, TornOnlyWhenShared, Names
    <3> QED
      BY <3>1, <3>2
  <2> QED
    BY <2>5, <2>6, <2>7, <2>8, <2>9, <2>10 DEF FilesIInv, WholeInv
<1> QED
  BY <1>6, <1>7

(* However many requests reach a share at once and wherever their calls to *)
(* the file system interleave, none reaches behind a link, and what is     *)
(* under a file's own name is a whole upload unless uploads met on one     *)
(* temporary name or a client closed early (serve_put, serve_mkcol,        *)
(* serve_delete, serve_move).                                              *)
THEOREM FilesAlwaysHold == FilesSpec => []FilesInv
<1>1. FilesInit => FilesIInv
  <2> SUFFICES ASSUME FilesInit PROVE FilesIInv
    OBVIOUS
  <2>1. PICK made \in SUBSET {i \in Items : Below(i) # {}}, kept \in Items \ Temporaries :
          /\ Links \subseteq made
          /\ kept \notin made /\ Parent[kept] \in (made \ Links) \cup {Root}
          /\ tree = [i \in Items |-> IF i \in made THEN Folder
                                    ELSE IF i = kept THEN Old
                                    ELSE IF Parent[i] \in Links /\ i \notin Temporaries
                                         THEN Outside ELSE Gone]
    BY DEF FilesInit
  <2>2. /\ asked = [u \in Uploads |-> Quiet] /\ shared = {}
        /\ bytes = [u \in Uploads \cup {Old, Outside} |-> [by |-> u, whole |-> u \notin Uploads]]
    BY DEF FilesInit
  <2>3. Quiet \in Rows /\ Quiet.at = "quiet" /\ Quiet.inode = Gone
    BY DEF Quiet, Rows, Stages, Methods
  <2>4. \A u \in Uploads : asked[u] = Quiet
    BY <2>2
  <2>5. FilesType
    <3>1. tree \in [Items -> Inodes \cup {Folder, Gone}]
      BY <2>1 DEF Inodes
    <3>2. bytes \in [Inodes -> [by : Inodes, whole : BOOLEAN]]
      BY <2>2 DEF Inodes
    <3>3. asked \in [Uploads -> Rows]
      BY <2>2, <2>3
    <3> QED
      BY <3>1, <3>2, <3>3 DEF FilesType
  <2>6. \A i \in Items : Parent[i] \in Links => i \notin made
    BY <2>1, ShareFilesAssumption DEF Below
  <2>7. NothingBeyondLinks
    <3>1. Parent[kept] \notin Links
      BY <2>1, Drive
    <3>2. \A i \in Items : Parent[i] \in Links =>
            tree[i] = IF i \in Temporaries THEN Gone ELSE Outside
      BY <2>1, <2>6, <3>1
    <3>3. \A i \in Items : Parent[i] \notin Links => tree[i] # Outside
      BY <2>1, Drive
    <3>4. \A u \in Uploads : asked[u].inode # Outside
      BY <2>3, <2>4, Drive
    <3> QED
      BY <3>2, <3>3, <3>4 DEF NothingBeyondLinks
  <2>8. StaysInside
    <3>1. \A u \in Uploads : Targeted(asked[u])
      BY <2>3, <2>4 DEF Targeted
    <3>2. \A i \in Links : tree[i] = Folder
      BY <2>1, Drive
    <3>3. \A i \in Temporaries : tree[i] \in Uploads \cup {Folder, Gone}
      BY <2>1, Drive
    <3> QED
      BY <2>7, <3>1, <3>2, <3>3 DEF StaysInside
  <2>9. \A u \in Uploads : ~HoldsFile(asked[u])
    BY <2>3, <2>4 DEF HoldsFile
  <2>10. Unborn
    <3>1. \A i \in Items : tree[i] \in {Folder, Old, Outside, Gone}
      BY <2>1
    <3> QED
      BY <2>9, <3>1, Drive DEF Unborn
  <2>11. Apart /\ Alone
    BY <2>9 DEF Apart, Alone, HoldsFile
  <2>12. TornOnlyWhenShared
    <3>1. \A i \in Items : tree[i] \notin {Gone, Folder} => tree[i] \in {Old, Outside}
      BY <2>1
    <3>2. bytes[Old].whole /\ bytes[Outside].whole
      BY <2>2, Drive
    <3> QED
      BY <3>1, <3>2 DEF TornOnlyWhenShared
  <2> QED
    BY <2>5, <2>8, <2>10, <2>11, <2>12 DEF FilesIInv, WholeInv
<1>2. FilesIInv /\ [FilesNext]_fileVars => FilesIInv'
  <2> SUFFICES ASSUME FilesIInv, [FilesNext]_fileVars
               PROVE  FilesIInv'
    OBVIOUS
  <2>1. CASE UNCHANGED fileVars
    <3>1. UNCHANGED <<tree, bytes, asked, shared>>
      BY <2>1 DEF fileVars
    <3>2. FilesType' /\ StaysInside'
      BY <3>1 DEF FilesIInv, FilesType, StaysInside, NothingBeyondLinks, Targeted, Within, Names,
         Temporaries
    <3>3. Unborn' /\ Apart' /\ Alone' /\ TornOnlyWhenShared'
      BY <3>1 DEF FilesIInv, WholeInv, Unborn, Apart, Alone, TornOnlyWhenShared, Names,
         Temporaries
    <3> QED
      BY <3>2, <3>3 DEF FilesIInv, WholeInv
  <2>2. ASSUME NEW u \in Uploads,
               \/ Arrive(u) \/ Forward(u) \/ Check(u) \/ Read(u) \/ Create(u) \/ Write(u)
               \/ Rename_(u) \/ MakeFolder(u) \/ RemovePath(u) \/ Unlink(u) \/ Move(u)
        PROVE  FilesIInv'
    BY <2>2, ArriveKeeps, CheckKeeps, ReadKeeps, CreateKeeps, WriteKeeps, RenameKeeps, NamesKeep
  <2> QED
    BY <2>1, <2>2 DEF FilesNext
<1>3. FilesIInv => FilesInv
  BY DEF FilesIInv, FilesInv, StaysInside, WholeInv
<1> QED
  BY <1>1, <1>2, <1>3, PTL DEF FilesSpec

-----------------------------------------------------------------------------
(* The Linux host.                                                         *)

(* The commands, by what their argument is.                                *)
PlainVerbs ==
  {"setup", "routes", "aclOff", "aclOn", "unstage", "new", "fill", "jump", "dropLive", "rename",
   "clear", "acceptsOn", "acceptsOff", "rulesOff", "natOn", "down", "exit", "write", "error"}
Commands ==
  (PlainVerbs \X {0}) \cup ({"upsert", "remove"} \X HostPeers)
  \cup ({"enable", "restore"} \X Families) \cup ({"routed"} \X SUBSET Families)
  \cup ({"peers"} \X SUBSET HostPeers)

Chains == [version : Nat, full : BOOLEAN]
Kernels == [peers : SUBSET HostPeers, routes : SUBSET HostPeers, acl : BOOLEAN,
            live : Chains, liveJump : BOOLEAN, staged : Chains, stagedJump : BOOLEAN,
            accepts : BOOLEAN, nat : BOOLEAN, forwarding : [Families -> BOOLEAN]]
Originals == [Families -> {NoOriginal, "on", "off"}]
NodeStates == [peers : SUBSET HostPeers, filter : Nat, originals : Originals,
               routed : SUBSET Families, up : BOOLEAN]
HostType ==
  /\ kernel \in Kernels /\ host0 \in [Families -> BOOLEAN] /\ node \in NodeStates
  /\ saved \in [peers : SUBSET HostPeers, filter : Nat, originals : Originals]
  /\ guarded \in BOOLEAN /\ tainted \in BOOLEAN
  /\ todo \in Seq(Commands) /\ undo \in Seq(Commands)

LEMMA CommandKinds ==
  ASSUME NEW c \in Commands
  PROVE  /\ c = <<c[1], c[2]>>
         /\ c[1] \in PlainVerbs \cup {"upsert", "remove", "enable", "restore", "routed", "peers"}
         /\ c[1] \in PlainVerbs => c[2] = 0
         /\ c[1] \in {"upsert", "remove"} => c[2] \in HostPeers
         /\ c[1] \in {"enable", "restore"} => c[2] \in Families
         /\ c[1] = "routed" => c[2] \in SUBSET Families
         /\ c[1] = "peers" => c[2] \in SUBSET HostPeers
<1>1. CASE c \in PlainVerbs \X {0}
  BY <1>1 DEF PlainVerbs
<1>2. CASE c \in {"upsert", "remove"} \X HostPeers
  BY <1>2 DEF PlainVerbs
<1>3. CASE c \in {"enable", "restore"} \X Families
  BY <1>3 DEF PlainVerbs
<1>4. CASE c \in {"routed"} \X SUBSET Families
  BY <1>4 DEF PlainVerbs
<1>5. CASE c \in {"peers"} \X SUBSET HostPeers
  BY <1>5 DEF PlainVerbs
<1> QED
  BY <1>1, <1>2, <1>3, <1>4, <1>5 DEF Commands

(* What a command does to the peers and routes, to the chains of the       *)
(* allow-list and to the sysctls.                                          *)
Touches == {"setup", "upsert", "remove", "routes", "down"}
Chained == {"unstage", "new", "fill", "jump", "dropLive", "rename", "clear", "down"}

LEMMA EffectPeers ==
  ASSUME NEW k \in Kernels, NEW c \in Commands, c[1] \in Touches
  PROVE  /\ Effect(c, k) \in Kernels /\ Effect(c, k).forwarding = k.forwarding
         /\ Effect(c, k).peers = CASE c[1] = "upsert" -> k.peers \cup {c[2]}
                                   [] c[1] = "remove" -> k.peers \ {c[2]}
                                   [] c[1] = "routes" -> k.peers
                                   [] OTHER -> {}
         /\ Effect(c, k).routes = CASE c[1] = "routes" -> k.peers
                                    [] c[1] \in {"upsert", "remove"} -> k.routes
                                    [] OTHER -> {}
         /\ c[1] # "down" => /\ Effect(c, k).live = k.live /\ Effect(c, k).liveJump = k.liveJump
                             /\ Effect(c, k).staged = k.staged
                             /\ Effect(c, k).stagedJump = k.stagedJump
         /\ c[1] = "down" => ~Effect(c, k).liveJump /\ ~Effect(c, k).stagedJump
<1> USE CommandKinds DEF Kernels
<1>0. NoChain \in Chains
  BY DEF NoChain, Chains
<1>1. CASE c[1] = "setup"
  BY <1>1 DEF Effect
<1>2. CASE c[1] = "upsert"
  BY <1>2 DEF Effect
<1>3. CASE c[1] = "remove"
  BY <1>3 DEF Effect
<1>4. CASE c[1] = "routes"
  BY <1>4 DEF Effect
<1>5. CASE c[1] = "down"
  BY <1>0, <1>5 DEF Effect
<1> QED
  BY <1>1, <1>2, <1>3, <1>4, <1>5 DEF Touches

LEMMA EffectChains ==
  ASSUME NEW k \in Kernels, NEW c \in Commands, c[1] \in Chained, c[1] # "down",
         node \in NodeStates
  PROVE  /\ Effect(c, k) \in Kernels /\ Effect(c, k).forwarding = k.forwarding
         /\ Effect(c, k).peers = k.peers /\ Effect(c, k).routes = k.routes
         /\ c[1] \in {"unstage", "new", "fill", "jump"} =>
              Effect(c, k).live = k.live /\ Effect(c, k).liveJump = k.liveJump
         /\ c[1] \in {"unstage", "rename", "clear"} => ~Effect(c, k).stagedJump
         /\ c[1] = "new" => Effect(c, k).stagedJump = k.stagedJump
         /\ c[1] = "fill" => Effect(c, k).staged.full /\ Effect(c, k).stagedJump = k.stagedJump
         /\ c[1] = "jump" => Effect(c, k).stagedJump /\ Effect(c, k).staged = k.staged
         /\ c[1] = "dropLive" => /\ Effect(c, k).staged = k.staged
                                 /\ Effect(c, k).stagedJump = k.stagedJump
         /\ c[1] = "rename" => /\ Effect(c, k).live = k.staged
                               /\ Effect(c, k).liveJump = k.stagedJump
<1> USE CommandKinds DEF Kernels
<1>0. NoChain \in Chains
  BY DEF NoChain, Chains
<1>1. CASE c[1] = "unstage"
  BY <1>0, <1>1 DEF Effect
<1>2. CASE c[1] = "new"
  <2>1. [version |-> node.filter, full |-> FALSE] \in Chains
    BY DEF NodeStates, Chains
  <2> QED
    BY <1>2, <2>1 DEF Effect
<1>3. CASE c[1] = "fill"
  <2> DEFINE chain == [k.staged EXCEPT !.full = TRUE]
  <2>1. chain \in Chains /\ chain.full
    BY DEF Chains
  <2>2. Effect(c, k) = [k EXCEPT !.staged = chain]
    BY <1>3 DEF Effect
  <2> HIDE DEF chain
  <2> QED
    BY <1>3, <2>1, <2>2
<1>4. CASE c[1] = "jump"
  BY <1>4 DEF Effect
<1>5. CASE c[1] = "dropLive"
  BY <1>0, <1>5 DEF Effect
<1>6. CASE c[1] = "rename"
  BY <1>0, <1>6 DEF Effect
<1>7. CASE c[1] = "clear"
  BY <1>0, <1>7 DEF Effect
<1> QED
  BY <1>1, <1>2, <1>3, <1>4, <1>5, <1>6, <1>7 DEF Chained

LEMMA EffectRest ==
  ASSUME NEW k \in Kernels, NEW c \in Commands, c[1] \notin Touches \cup Chained
  PROVE  /\ Effect(c, k) \in Kernels
         /\ Effect(c, k).peers = k.peers /\ Effect(c, k).routes = k.routes
         /\ Effect(c, k).live = k.live /\ Effect(c, k).liveJump = k.liveJump
         /\ Effect(c, k).staged = k.staged /\ Effect(c, k).stagedJump = k.stagedJump
         /\ c[1] \notin {"enable", "restore"} => Effect(c, k).forwarding = k.forwarding
         /\ \A f \in Families : f # c[2] => Effect(c, k).forwarding[f] = k.forwarding[f]
         /\ c[1] = "enable" => Effect(c, k).forwarding[c[2]] = TRUE
         /\ c[1] = "restore" => Effect(c, k).forwarding[c[2]] =
              IF node.originals[c[2]] = "off" THEN FALSE ELSE k.forwarding[c[2]]
<1> USE CommandKinds DEF Kernels
<1>1. CASE c[1] = "aclOff"
  BY <1>1 DEF Effect
<1>2. CASE c[1] = "aclOn"
  BY <1>2 DEF Effect
<1>3. CASE c[1] = "acceptsOn"
  BY <1>3 DEF Effect
<1>4. CASE c[1] = "acceptsOff"
  BY <1>4 DEF Effect
<1>5. CASE c[1] = "rulesOff"
  BY <1>5 DEF Effect
<1>6. CASE c[1] = "natOn"
  BY <1>6 DEF Effect
<1>7. CASE c[1] = "enable"
  <2> DEFINE on == [k.forwarding EXCEPT ![c[2]] = TRUE]
  <2>1. /\ on \in [Families -> BOOLEAN] /\ on[c[2]] = TRUE
        /\ \A f \in Families : f # c[2] => on[f] = k.forwarding[f]
    BY <1>7
  <2>2. Effect(c, k) = [k EXCEPT !.forwarding = on]
    BY <1>7 DEF Effect
  <2> HIDE DEF on
  <2> QED
    BY <1>7, <2>1, <2>2
<1>8. CASE c[1] = "restore"
  <2> DEFINE off == [k.forwarding EXCEPT ![c[2]] = FALSE]
  <2>1. /\ off \in [Families -> BOOLEAN] /\ off[c[2]] = FALSE
        /\ \A f \in Families : f # c[2] => off[f] = k.forwarding[f]
    BY <1>8
  <2>2. Effect(c, k) = IF node.originals[c[2]] = "off" THEN [k EXCEPT !.forwarding = off] ELSE k
    BY <1>8 DEF Effect
  <2> HIDE DEF off
  <2>3. CASE node.originals[c[2]] = "off"
    <3>1. Effect(c, k) = [k EXCEPT !.forwarding = off]
      BY <2>2, <2>3
    <3> QED
      BY <1>8, <2>1, <2>3, <3>1
  <2>4. CASE node.originals[c[2]] # "off"
    <3>1. Effect(c, k) = k
      BY <2>2, <2>4
    <3> QED
      BY <1>8, <2>4, <3>1
  <2> QED
    BY <2>3, <2>4
<1>9. CASE c[1] \in {"exit", "write", "error", "routed", "peers"}
  BY <1>9 DEF Effect
<1> QED
  BY <1>1, <1>2, <1>3, <1>4, <1>5, <1>6, <1>7, <1>8, <1>9, CommandKinds
     DEF Touches, Chained, PlainVerbs

LEMMA EffectType ==
  ASSUME HostType, NEW c \in Commands
  PROVE  Effect(c, kernel) \in Kernels
BY EffectPeers, EffectChains, EffectRest DEF HostType, Touches

LEMMA EffectForwarding ==
  ASSUME HostType, NEW c \in Commands
  PROVE  /\ c[1] \notin {"enable", "restore"} => Effect(c, kernel).forwarding = kernel.forwarding
         /\ c[1] \in {"enable", "restore"} => \A f \in Families \ {c[2]} :
              Effect(c, kernel).forwarding[f] = kernel.forwarding[f]
         /\ c[1] = "enable" => Effect(c, kernel).forwarding[c[2]] = TRUE
         /\ c[1] = "restore" => Effect(c, kernel).forwarding[c[2]] =
              IF node.originals[c[2]] = "off" THEN FALSE ELSE kernel.forwarding[c[2]]
<1>1. kernel \in Kernels /\ node \in NodeStates
  BY DEF HostType
<1>2. CASE c[1] \in Touches
  BY <1>1, <1>2, EffectPeers DEF Touches
<1>3. CASE c[1] \in Chained /\ c[1] # "down"
  BY <1>1, <1>3, EffectChains DEF Chained
<1>4. CASE c[1] \notin Touches \cup Chained
  BY <1>1, <1>4, EffectRest
<1> QED
  BY <1>2, <1>3, <1>4 DEF Touches

(* What a command does to NodeState.                                       *)
LEMMA NotedFacts ==
  ASSUME HostType, NEW c \in Commands
  PROVE  /\ Noted(c, node) \in NodeStates
         /\ c[1] \in {"down", "exit"} => Noted(c, node) = Reloaded /\ ~Noted(c, node).up
         /\ c[1] \notin {"down", "exit"} =>
              /\ Noted(c, node).up = node.up
              /\ Noted(c, node).peers = IF c[1] = "peers" THEN c[2] ELSE node.peers
         /\ c[1] \notin {"down", "exit", "enable", "restore"} =>
              Noted(c, node).originals = node.originals
         /\ c[1] \in {"enable", "restore"} =>
              /\ \A f \in Families : f # c[2] => Noted(c, node).originals[f] = node.originals[f]
              /\ Noted(c, node).originals[c[2]] =
                   IF c[1] = "restore" THEN NoOriginal
                   ELSE IF node.originals[c[2]] = NoOriginal THEN Found(c[2])
                        ELSE node.originals[c[2]]
<1> USE CommandKinds DEF NodeStates
<1>0. node \in NodeStates /\ node.originals \in Originals
  BY DEF HostType
<1>1. Reloaded \in NodeStates /\ ~Reloaded.up
  BY DEF HostType, Reloaded
<1>2. CASE c[1] \in {"down", "exit"}
  BY <1>1, <1>2 DEF Noted
<1>3. CASE c[1] = "enable"
  <2> DEFINE value == IF node.originals[c[2]] = NoOriginal THEN Found(c[2])
                      ELSE node.originals[c[2]]
             found == [node.originals EXCEPT ![c[2]] = value]
  <2>1. value \in {NoOriginal, "on", "off"}
    BY <1>0, <1>3 DEF Originals, Found
  <2>2. Noted(c, node) = [node EXCEPT !.originals = found]
    BY <1>3 DEF Noted, Enabled
  <2> HIDE DEF value
  <2>3. /\ found \in Originals /\ found[c[2]] = value
        /\ \A f \in Families : f # c[2] => found[f] = node.originals[f]
    BY <1>0, <1>3, <2>1 DEF Originals
  <2> HIDE DEF found
  <2> QED
    BY <1>0, <1>3, <2>2, <2>3 DEF value
<1>4. CASE c[1] = "restore"
  <2> DEFINE found == [node.originals EXCEPT ![c[2]] = NoOriginal]
  <2>1. Noted(c, node) = [node EXCEPT !.originals = found]
    BY <1>4 DEF Noted
  <2>2. /\ found \in Originals /\ found[c[2]] = NoOriginal
        /\ \A f \in Families : f # c[2] => found[f] = node.originals[f]
    BY <1>0, <1>4 DEF Originals
  <2> HIDE DEF found
  <2> QED
    BY <1>0, <1>4, <2>1, <2>2
<1>5. CASE c[1] = "routed"
  BY <1>0, <1>5 DEF Noted
<1>6. CASE c[1] = "peers"
  BY <1>0, <1>6 DEF Noted
<1>7. CASE c[1] \notin {"down", "exit", "enable", "restore", "routed", "peers"}
  <2>1. Noted(c, node) = node
    BY <1>7 DEF Noted
  <2> QED
    BY <1>0, <1>7, <2>1
<1> QED
  BY <1>2, <1>3, <1>4, <1>5, <1>6, <1>7

-----------------------------------------------------------------------------
(* Programs: sequences of commands.                                        *)

Verb(s, i) == s[i][1]
Cmds(s) == {s[i] : i \in 1 .. Len(s)}
Verbs(s) == {Verb(s, i) : i \in 1 .. Len(s)}

LEMMA ConcatIndex ==
  ASSUME NEW s \in Seq(Commands), NEW t \in Seq(Commands)
  PROVE  /\ s \o t \in Seq(Commands) /\ Len(s \o t) = Len(s) + Len(t)
         /\ Len(s) \in Nat /\ Len(t) \in Nat
         /\ \A i \in 1 .. Len(s) : (s \o t)[i] = s[i]
         /\ \A i \in (Len(s) + 1) .. (Len(s) + Len(t)) : (s \o t)[i] = t[i - Len(s)]
         /\ \A j \in 1 .. Len(t) : (s \o t)[Len(s) + j] = t[j]
OBVIOUS

LEMMA ConcatCmds ==
  ASSUME NEW s \in Seq(Commands), NEW t \in Seq(Commands)
  PROVE  /\ Cmds(s \o t) = Cmds(s) \cup Cmds(t) /\ Verbs(s \o t) = Verbs(s) \cup Verbs(t)
<1>1. ASSUME NEW i \in 1 .. Len(s \o t)
      PROVE  \/ i \in 1 .. Len(s) /\ (s \o t)[i] = s[i]
             \/ i - Len(s) \in 1 .. Len(t) /\ (s \o t)[i] = t[i - Len(s)]
  BY ConcatIndex
<1>2. \A i \in 1 .. Len(s) : i \in 1 .. Len(s \o t) /\ (s \o t)[i] = s[i]
  BY ConcatIndex
<1>3. \A j \in 1 .. Len(t) : Len(s) + j \in 1 .. Len(s \o t) /\ (s \o t)[Len(s) + j] = t[j]
  BY ConcatIndex
<1>4. Cmds(s \o t) = Cmds(s) \cup Cmds(t)
  BY <1>1, <1>2, <1>3 DEF Cmds
<1>5. Verbs(s \o t) = Verbs(s) \cup Verbs(t)
  BY <1>1, <1>2, <1>3 DEF Verbs, Verb
<1> QED
  BY <1>4, <1>5

LEMMA PopIndex ==
  ASSUME NEW s \in Seq(Commands), s # <<>>
  PROVE  /\ Head(s) = s[1] /\ Head(s) \in Commands /\ Tail(s) \in Seq(Commands)
         /\ Len(s) \in Nat /\ Len(s) > 0 /\ Len(Tail(s)) = Len(s) - 1
         /\ \A i \in 1 .. Len(Tail(s)) : Tail(s)[i] = s[i + 1]
OBVIOUS

LEMMA PopCmds ==
  ASSUME NEW s \in Seq(Commands), s # <<>>
  PROVE  Cmds(s) = {Head(s)} \cup Cmds(Tail(s))
<1>1. \A i \in 1 .. Len(s) : i = 1 \/ (i - 1 \in 1 .. Len(Tail(s)) /\ s[i] = Tail(s)[i - 1])
  BY PopIndex
<1>2. \A i \in 1 .. Len(Tail(s)) : i + 1 \in 1 .. Len(s) /\ Tail(s)[i] = s[i + 1]
  BY PopIndex
<1>3. 1 \in 1 .. Len(s) /\ s[1] = Head(s)
  BY PopIndex
<1> QED
  BY <1>1, <1>2, <1>3 DEF Cmds

(* The commands for the members of a set come in some order.               *)
LEMMA EachFacts ==
  ASSUME NEW S, IsFiniteSet(S), NEW do, \A x \in S : <<do, x>> \in Commands
  PROVE  /\ Each(S, do) \in Seq(Commands)
         /\ Cmds(Each(S, do)) = {<<do, x>> : x \in S}
         /\ Verbs(Each(S, do)) \subseteq {do}
<1> DEFINE T == {Cmd(do, x) : x \in S}
           g == [x \in S |-> Cmd(do, x)]
           s == SetToSeq(T)
<1>1. g \in Surjection(S, T)
  BY DEF Surjection
<1>2. IsFiniteSet(T)
  BY <1>1, FS_Surjection
<1>3. Cardinality(T) \in Nat /\ ExistsBijection(1 .. Cardinality(T), T)
  BY <1>2, FS_CardinalityType
<1>4. PICK b \in [1 .. Cardinality(T) -> T] : IsInjective(b)
  BY <1>3 DEF ExistsBijection, Bijection, Injection, IsInjective
<1>5. s \in [1 .. Cardinality(T) -> T] /\ IsInjective(s)
  BY <1>4 DEF SetToSeq
<1>6. s \in Injection(1 .. Cardinality(T), T)
  BY <1>5 DEF Injection
<1>7. Cardinality(1 .. Cardinality(T)) = Cardinality(T)
  BY <1>3, FS_Interval
<1>8. s \in Surjection(1 .. Cardinality(T), T)
  BY <1>2, <1>6, <1>7, FS_Injection
<1>9. \A c \in T : \E i \in 1 .. Cardinality(T) : s[i] = c
  BY <1>8 DEF Surjection
<1>10. T \subseteq Commands /\ T = {<<do, x>> : x \in S}
  BY DEF Cmd
<1> HIDE DEF s, T
<1>11. s \in Seq(Commands) /\ Len(s) = Cardinality(T)
  <2>1. PICK n \in Nat : n = Cardinality(T)
    BY <1>3
  <2>2. s \in [1 .. n -> Commands] /\ DOMAIN s = 1 .. n
    BY <1>5, <1>10, <2>1
  <2>3. s \in Seq(Commands)
    BY <2>2, SeqDef
  <2> QED
    BY <2>1, <2>2, <2>3, LenProperties
<1>12. Cmds(s) = T
  BY <1>5, <1>9, <1>11 DEF Cmds
<1>13. Verbs(s) \subseteq {do}
  BY <1>5, <1>10, <1>11 DEF Verbs, Verb
<1> QED
  BY <1>10, <1>11, <1>12, <1>13 DEF Each, s, T

(* install() runs without another command in between: each of its commands *)
(* follows the one before it, and the live chain goes only where the       *)
(* renaming of the new one is next.                                        *)
ChainSteps == {"new", "fill", "jump", "dropLive", "rename"}
Tidy(s) ==
  /\ \A i \in 1 .. Len(s), j \in 1 .. Len(s) : j = i + 1 =>
       /\ Verb(s, j) = "new" => Verb(s, i) = "unstage"
       /\ Verb(s, j) = "fill" => Verb(s, i) = "new"
       /\ Verb(s, j) = "jump" => Verb(s, i) = "fill"
       /\ Verb(s, j) = "dropLive" => Verb(s, i) = "jump"
       /\ Verb(s, j) = "rename" => Verb(s, i) = "dropLive"
  /\ \A i \in 1 .. Len(s) : Verb(s, i) = "dropLive" =>
       i + 1 \in 1 .. Len(s) /\ Verb(s, i + 1) = "rename"
Fresh(s) == Tidy(s) /\ (Len(s) > 0 => Verb(s, 1) \notin ChainSteps)

(* A sysctl is switched on only right before state.json is written.        *)
Quickly == {"enable", "routed", "write"}
Settled(s) ==
  \A i \in 1 .. Len(s) : Verb(s, i) = "enable" =>
    \E k \in 1 .. Len(s) : /\ k > i /\ Verb(s, k) = "write"
                           /\ \A m \in i .. k : Verb(s, m) \in Quickly
Trailing(s) ==
  \A i \in 1 .. Len(s) : Verb(s, i) = "enable" =>
    \A m \in i .. Len(s) : Verb(s, m) \in {"enable", "routed"}

(* The interface is made first, and the routes follow the peers.           *)
Ordered(s) ==
  \A i \in 1 .. Len(s), j \in 1 .. Len(s) : i < j =>
    /\ Verb(s, j) # "setup"
    /\ Verb(s, i) = "routes" => Verb(s, j) \notin {"upsert", "remove"}

LEMMA PlainPrograms ==
  ASSUME NEW s \in Seq(Commands)
  PROVE  /\ Verbs(s) \cap ChainSteps = {} => Fresh(s)
         /\ "enable" \notin Verbs(s) => Settled(s) /\ Trailing(s)
         /\ Verbs(s) \subseteq {"enable", "routed"} => Trailing(s)
         /\ "setup" \notin Verbs(s) /\ ("routes" \notin Verbs(s) \/ Verbs(s) \cap {"upsert", "remove"} = {})
              => Ordered(s)
<1>1. \A i \in 1 .. Len(s) : Verb(s, i) \in Verbs(s)
  BY DEF Verbs
<1>2. ASSUME Verbs(s) \cap ChainSteps = {} PROVE Fresh(s)
  BY <1>1, <1>2 DEF Fresh, Tidy, ChainSteps
<1>3. ASSUME "enable" \notin Verbs(s) PROVE Settled(s) /\ Trailing(s)
  BY <1>1, <1>3 DEF Settled, Trailing
<1>4. ASSUME Verbs(s) \subseteq {"enable", "routed"} PROVE Trailing(s)
  BY <1>1, <1>4 DEF Trailing
<1>5. ASSUME "setup" \notin Verbs(s),
             "routes" \notin Verbs(s) \/ Verbs(s) \cap {"upsert", "remove"} = {}
      PROVE  Ordered(s)
  BY <1>1, <1>5 DEF Ordered
<1> QED
  BY <1>2, <1>3, <1>4, <1>5

LEMMA FreshConcat ==
  ASSUME NEW s \in Seq(Commands), NEW t \in Seq(Commands), Fresh(s), Fresh(t)
  PROVE  Fresh(s \o t)
<1> DEFINE st == s \o t
<1>1. /\ Len(st) = Len(s) + Len(t) /\ Len(s) \in Nat /\ Len(t) \in Nat
      /\ \A i \in 1 .. Len(s) : Verb(st, i) = Verb(s, i)
      /\ \A i \in (Len(s) + 1) .. (Len(s) + Len(t)) : Verb(st, i) = Verb(t, i - Len(s))
  BY ConcatIndex DEF Verb
<1> HIDE DEF st
<1>2. ASSUME NEW i \in 1 .. Len(st), NEW j \in 1 .. Len(st), j = i + 1
      PROVE  /\ Verb(st, j) = "new" => Verb(st, i) = "unstage"
             /\ Verb(st, j) = "fill" => Verb(st, i) = "new"
             /\ Verb(st, j) = "jump" => Verb(st, i) = "fill"
             /\ Verb(st, j) = "dropLive" => Verb(st, i) = "jump"
             /\ Verb(st, j) = "rename" => Verb(st, i) = "dropLive"
  <2>1. CASE j <= Len(s)
    BY <1>1, <1>2, <2>1 DEF Fresh, Tidy
  <2>2. CASE i > Len(s)
    <3>1. i - Len(s) \in 1 .. Len(t) /\ j - Len(s) \in 1 .. Len(t) /\ j - Len(s) = (i - Len(s)) + 1
      BY <1>1, <1>2, <2>2
    <3>2. Verb(st, i) = Verb(t, i - Len(s)) /\ Verb(st, j) = Verb(t, j - Len(s))
      BY <1>1, <1>2, <2>2
    <3> QED
      BY <3>1, <3>2 DEF Fresh, Tidy
  <2>3. CASE i = Len(s)
    <3>1. j - Len(s) = 1 /\ Len(t) > 0 /\ Verb(st, j) = Verb(t, 1)
      BY <1>1, <1>2, <2>3
    <3> QED
      BY <3>1 DEF Fresh, ChainSteps
  <2> QED
    BY <1>1, <1>2, <2>1, <2>2, <2>3
<1>3. ASSUME NEW i \in 1 .. Len(st), Verb(st, i) = "dropLive"
      PROVE  i + 1 \in 1 .. Len(st) /\ Verb(st, i + 1) = "rename"
  <2>1. CASE i <= Len(s)
    <3>1. i \in 1 .. Len(s) /\ Verb(s, i) = "dropLive"
      BY <1>1, <1>3, <2>1
    <3>2. i + 1 \in 1 .. Len(s) /\ Verb(s, i + 1) = "rename"
      BY <3>1 DEF Fresh, Tidy
    <3> QED
      BY <1>1, <3>2
  <2>2. CASE i > Len(s)
    <3>1. i - Len(s) \in 1 .. Len(t) /\ Verb(t, i - Len(s)) = "dropLive"
      BY <1>1, <1>3, <2>2
    <3>2. (i - Len(s)) + 1 \in 1 .. Len(t) /\ Verb(t, (i - Len(s)) + 1) = "rename"
      BY <3>1 DEF Fresh, Tidy
    <3>3. (i - Len(s)) + 1 = (i + 1) - Len(s) /\ i + 1 \in (Len(s) + 1) .. (Len(s) + Len(t))
      BY <1>1, <1>3, <2>2, <3>2
    <3> QED
      BY <1>1, <3>2, <3>3
  <2> QED
    BY <1>1, <2>1, <2>2
<1>4. Len(st) > 0 => Verb(st, 1) \notin ChainSteps
  <2>1. CASE Len(s) > 0
    BY <1>1, <2>1 DEF Fresh
  <2>2. CASE Len(s) = 0
    BY <1>1, <2>2 DEF Fresh
  <2> QED
    BY <1>1, <2>1, <2>2
<1> QED
  BY <1>2, <1>3, <1>4 DEF Fresh, Tidy, st

LEMMA TrailingConcat ==
  ASSUME NEW s \in Seq(Commands), NEW t \in Seq(Commands), Trailing(s), Trailing(t),
         "enable" \notin Verbs(s) \/ Verbs(t) \subseteq {"enable", "routed"}
  PROVE  Trailing(s \o t)
<1> DEFINE st == s \o t
<1>1. /\ Len(st) = Len(s) + Len(t) /\ Len(s) \in Nat /\ Len(t) \in Nat
      /\ \A i \in 1 .. Len(s) : Verb(st, i) = Verb(s, i)
      /\ \A i \in (Len(s) + 1) .. (Len(s) + Len(t)) : Verb(st, i) = Verb(t, i - Len(s))
  BY ConcatIndex DEF Verb
<1> HIDE DEF st
<1>2. ASSUME NEW i \in 1 .. Len(st), Verb(st, i) = "enable", NEW m \in i .. Len(st)
      PROVE  Verb(st, m) \in {"enable", "routed"}
  <2>1. CASE i > Len(s)
    <3>1. /\ i - Len(s) \in 1 .. Len(t) /\ Verb(t, i - Len(s)) = "enable"
          /\ m - Len(s) \in (i - Len(s)) .. Len(t) /\ Verb(st, m) = Verb(t, m - Len(s))
      BY <1>1, <1>2, <2>1
    <3> QED
      BY <3>1 DEF Trailing
  <2>2. CASE i <= Len(s)
    <3>1. i \in 1 .. Len(s) /\ Verb(s, i) = "enable"
      BY <1>1, <1>2, <2>2
    <3>2. "enable" \in Verbs(s)
      BY <3>1 DEF Verbs
    <3>3. CASE m <= Len(s)
      BY <1>1, <1>2, <3>1, <3>3 DEF Trailing
    <3>4. CASE m > Len(s)
      <4>1. m - Len(s) \in 1 .. Len(t) /\ Verb(st, m) = Verb(t, m - Len(s))
        BY <1>1, <1>2, <3>4
      <4> QED
        BY <3>2, <4>1 DEF Verbs
    <3> QED
      BY <1>1, <3>3, <3>4
  <2> QED
    BY <1>1, <2>1, <2>2
<1> QED
  BY <1>2 DEF Trailing, st

LEMMA TrailingWrite ==
  ASSUME NEW s \in Seq(Commands), Trailing(s)
  PROVE  s \o <<Do("write")>> \in Seq(Commands) /\ Settled(s \o <<Do("write")>>)
<1> DEFINE t == <<Do("write")>>
           st == s \o t
<1>0. t \in Seq(Commands) /\ Len(t) = 1 /\ Verb(t, 1) = "write"
  BY DEF Commands, PlainVerbs, Do, Verb
<1> HIDE DEF t
<1>1. /\ Len(st) = Len(s) + 1 /\ Len(s) \in Nat
      /\ \A i \in 1 .. Len(s) : Verb(st, i) = Verb(s, i)
      /\ Verb(st, Len(s) + 1) = "write" /\ st \in Seq(Commands)
  BY <1>0, ConcatIndex DEF Verb
<1> HIDE DEF st
<1>2. ASSUME NEW i \in 1 .. Len(st), Verb(st, i) = "enable"
      PROVE  \E k \in 1 .. Len(st) : /\ k > i /\ Verb(st, k) = "write"
                                     /\ \A m \in i .. k : Verb(st, m) \in Quickly
  <2>1. i \in 1 .. Len(s) /\ Verb(s, i) = "enable"
    BY <1>1, <1>2
  <2>2. \A m \in i .. Len(s) : Verb(st, m) \in {"enable", "routed"}
    BY <1>1, <2>1 DEF Trailing
  <2>3. \A m \in i .. Len(st) : Verb(st, m) \in Quickly
    BY <1>1, <2>1, <2>2 DEF Quickly
  <2> QED
    BY <1>1, <2>1, <2>3
<1> QED
  BY <1>1, <1>2 DEF Settled, st, t

LEMMA SettledConcat ==
  ASSUME NEW s \in Seq(Commands), NEW t \in Seq(Commands), Settled(s), "enable" \notin Verbs(t)
  PROVE  Settled(s \o t)
<1> DEFINE st == s \o t
<1>1. /\ Len(st) = Len(s) + Len(t) /\ Len(s) \in Nat /\ Len(t) \in Nat
      /\ \A i \in 1 .. Len(s) : Verb(st, i) = Verb(s, i)
      /\ \A i \in (Len(s) + 1) .. (Len(s) + Len(t)) : Verb(st, i) = Verb(t, i - Len(s))
  BY ConcatIndex DEF Verb
<1> HIDE DEF st
<1>2. ASSUME NEW i \in 1 .. Len(st), Verb(st, i) = "enable"
      PROVE  \E k \in 1 .. Len(st) : /\ k > i /\ Verb(st, k) = "write"
                                     /\ \A m \in i .. k : Verb(st, m) \in Quickly
  <2>1. i \in 1 .. Len(s) /\ Verb(s, i) = "enable"
    <3>1. ASSUME i > Len(s) PROVE FALSE
      <4>1. i - Len(s) \in 1 .. Len(t) /\ Verb(t, i - Len(s)) = "enable"
        BY <1>1, <1>2, <3>1
      <4> QED
        BY <4>1 DEF Verbs
    <3> QED
      BY <1>1, <1>2, <3>1
  <2>2. PICK k \in 1 .. Len(s) : /\ k > i /\ Verb(s, k) = "write"
                                 /\ \A m \in i .. k : Verb(s, m) \in Quickly
    BY <2>1 DEF Settled
  <2>3. k \in 1 .. Len(st) /\ Verb(st, k) = "write" /\ \A m \in i .. k : Verb(st, m) \in Quickly
    BY <1>1, <2>1, <2>2
  <2> QED
    BY <2>2, <2>3
<1> QED
  BY <1>2 DEF Settled, st

LEMMA OrderedConcat ==
  ASSUME NEW s \in Seq(Commands), NEW t \in Seq(Commands), Ordered(s), Ordered(t),
         "setup" \notin Verbs(t),
         "routes" \notin Verbs(s) \/ Verbs(t) \cap {"upsert", "remove"} = {}
  PROVE  Ordered(s \o t)
<1> DEFINE st == s \o t
<1>1. /\ Len(st) = Len(s) + Len(t) /\ Len(s) \in Nat /\ Len(t) \in Nat
      /\ \A i \in 1 .. Len(s) : Verb(st, i) = Verb(s, i)
      /\ \A i \in (Len(s) + 1) .. (Len(s) + Len(t)) : Verb(st, i) = Verb(t, i - Len(s))
  BY ConcatIndex DEF Verb
<1> HIDE DEF st
<1>2. ASSUME NEW i \in 1 .. Len(st), NEW j \in 1 .. Len(st), i < j
      PROVE  /\ Verb(st, j) # "setup"
             /\ Verb(st, i) = "routes" => Verb(st, j) \notin {"upsert", "remove"}
  <2>1. CASE j <= Len(s)
    BY <1>1, <1>2, <2>1 DEF Ordered
  <2>2. CASE i > Len(s)
    <3>1. /\ i - Len(s) \in 1 .. Len(t) /\ j - Len(s) \in 1 .. Len(t) /\ i - Len(s) < j - Len(s)
          /\ Verb(st, i) = Verb(t, i - Len(s)) /\ Verb(st, j) = Verb(t, j - Len(s))
      BY <1>1, <1>2, <2>2
    <3> QED
      BY <3>1 DEF Ordered
  <2>3. CASE i <= Len(s) /\ j > Len(s)
    <3>1. /\ i \in 1 .. Len(s) /\ Verb(st, i) = Verb(s, i)
          /\ j - Len(s) \in 1 .. Len(t) /\ Verb(st, j) = Verb(t, j - Len(s))
      BY <1>1, <1>2, <2>3
    <3>2. Verb(st, i) \in Verbs(s) /\ Verb(st, j) \in Verbs(t)
      BY <3>1 DEF Verbs
    <3> QED
      BY <3>2
  <2> QED
    BY <1>1, <2>1, <2>2, <2>3
<1> QED
  BY <1>2 DEF Ordered, st

(* What is left of a program after its first command.                      *)
LEMMA PopPrograms ==
  ASSUME NEW s \in Seq(Commands), s # <<>>
  PROVE  /\ Tidy(s) => Tidy(Tail(s))
         /\ Settled(s) => Settled(Tail(s))
         /\ Ordered(s) => Ordered(Tail(s)) /\ "setup" \notin Verbs(Tail(s))
         /\ \A i \in 1 .. Len(Tail(s)) : i + 1 \in 1 .. Len(s) /\ Verb(Tail(s), i) = Verb(s, i + 1)
<1> DEFINE t == Tail(s)
<1>1. /\ Len(s) \in Nat /\ Len(s) > 0 /\ Len(t) = Len(s) - 1
      /\ \A i \in 1 .. Len(t) : i + 1 \in 1 .. Len(s) /\ Verb(t, i) = Verb(s, i + 1)
  BY PopIndex DEF Verb
<1> HIDE DEF t
<1>2. ASSUME Tidy(s) PROVE Tidy(t)
  <2>1. ASSUME NEW i \in 1 .. Len(t), NEW j \in 1 .. Len(t), j = i + 1
        PROVE  /\ Verb(t, j) = "new" => Verb(t, i) = "unstage"
               /\ Verb(t, j) = "fill" => Verb(t, i) = "new"
               /\ Verb(t, j) = "jump" => Verb(t, i) = "fill"
               /\ Verb(t, j) = "dropLive" => Verb(t, i) = "jump"
               /\ Verb(t, j) = "rename" => Verb(t, i) = "dropLive"
    BY <1>1, <1>2, <2>1 DEF Tidy
  <2>2. ASSUME NEW i \in 1 .. Len(t), Verb(t, i) = "dropLive"
        PROVE  i + 1 \in 1 .. Len(t) /\ Verb(t, i + 1) = "rename"
    <3>1. (i + 1) + 1 \in 1 .. Len(s) /\ Verb(s, (i + 1) + 1) = "rename"
      BY <1>1, <1>2, <2>2 DEF Tidy
    <3>2. i + 1 \in 1 .. Len(t)
      BY <1>1, <3>1
    <3> QED
      BY <1>1, <3>1, <3>2
  <2> QED
    BY <2>1, <2>2 DEF Tidy
<1>3. ASSUME Settled(s) PROVE Settled(t)
  <2>1. ASSUME NEW i \in 1 .. Len(t), Verb(t, i) = "enable"
        PROVE  \E k \in 1 .. Len(t) : /\ k > i /\ Verb(t, k) = "write"
                                      /\ \A m \in i .. k : Verb(t, m) \in Quickly
    <3>1. PICK k \in 1 .. Len(s) : /\ k > i + 1 /\ Verb(s, k) = "write"
                                   /\ \A m \in (i + 1) .. k : Verb(s, m) \in Quickly
      BY <1>1, <1>3, <2>1 DEF Settled
    <3>2. k - 1 \in 1 .. Len(t) /\ k - 1 > i /\ Verb(t, k - 1) = "write"
      BY <1>1, <3>1
    <3>3. \A m \in i .. (k - 1) : m \in 1 .. Len(t) /\ m + 1 \in (i + 1) .. k
      BY <1>1, <3>1
    <3>4. \A m \in i .. (k - 1) : Verb(t, m) \in Quickly
      BY <1>1, <3>1, <3>3
    <3> QED
      BY <3>2, <3>4
  <2> QED
    BY <2>1 DEF Settled
<1>4. ASSUME Ordered(s) PROVE Ordered(t) /\ "setup" \notin Verbs(t)
  <2>1. Ordered(t)
    BY <1>1, <1>4 DEF Ordered
  <2>2. \A i \in 1 .. Len(t) : Verb(t, i) # "setup"
    BY <1>1, <1>4 DEF Ordered
  <2> QED
    BY <2>1, <2>2 DEF Verbs
<1> QED
  BY <1>1, <1>2, <1>3, <1>4 DEF t

LEMMA CmdVerb ==
  ASSUME NEW s
  PROVE  /\ \A c \in Cmds(s) : c[1] \in Verbs(s)
         /\ \A i \in 1 .. Len(s) : s[i] \in Cmds(s)
BY DEF Cmds, Verbs, Verb

LEMMA OneCommand ==
  ASSUME NEW c \in Commands
  PROVE  <<c>> \in Seq(Commands) /\ Cmds(<<c>>) = {c} /\ Verbs(<<c>>) = {c[1]}
BY DEF Cmds, Verbs, Verb

LEMMA PlainCommand ==
  ASSUME NEW v \in PlainVerbs \ ChainSteps
  PROVE  /\ Do(v) \in Commands /\ Do(v)[1] = v
         /\ <<Do(v)>> \in Seq(Commands) /\ Cmds(<<Do(v)>>) = {<<v, 0>>}
         /\ Verbs(<<Do(v)>>) = {v} /\ Fresh(<<Do(v)>>)
<1>1. Do(v) \in Commands /\ Do(v)[1] = v /\ Do(v) = <<v, 0>>
  BY DEF Do, Commands
<1>2. <<Do(v)>> \in Seq(Commands) /\ Cmds(<<Do(v)>>) = {<<v, 0>>} /\ Verbs(<<Do(v)>>) = {v}
  BY <1>1, OneCommand
<1> QED
  BY <1>1, <1>2, PlainPrograms

LEMMA InstallFacts ==
  /\ Install \in Seq(Commands) /\ Fresh(Install) /\ Verbs(Install) = {"unstage"} \cup ChainSteps
<1>1. /\ Install \in Seq(Commands) /\ Len(Install) = 6
      /\ Verb(Install, 1) = "unstage" /\ Verb(Install, 2) = "new" /\ Verb(Install, 3) = "fill"
      /\ Verb(Install, 4) = "jump" /\ Verb(Install, 5) = "dropLive" /\ Verb(Install, 6) = "rename"
  BY DEF Install, Do, Commands, PlainVerbs, Verb
<1>2. \A i \in 1 .. 6 : i \in {1, 2, 3, 4, 5, 6}
  OBVIOUS
<1>3. Fresh(Install)
  BY <1>1, <1>2 DEF Fresh, Tidy, ChainSteps
<1>4. Verbs(Install) = {"unstage"} \cup ChainSteps
  BY <1>1, <1>2 DEF Verbs, ChainSteps
<1> QED
  BY <1>1, <1>3, <1>4

(* Two programs one after the other, where neither is in a step of         *)
(* install().                                                              *)
LEMMA Both ==
  ASSUME NEW s \in Seq(Commands), NEW t \in Seq(Commands), Fresh(s), Fresh(t)
  PROVE  /\ s \o t \in Seq(Commands) /\ Fresh(s \o t) /\ Verbs(s \o t) = Verbs(s) \cup Verbs(t)
         /\ Cmds(s \o t) = Cmds(s) \cup Cmds(t)
BY ConcatIndex, ConcatCmds, FreshConcat

LEMMA EachFresh ==
  ASSUME NEW S, IsFiniteSet(S), NEW do, do \notin ChainSteps, \A x \in S : <<do, x>> \in Commands
  PROVE  /\ Each(S, do) \in Seq(Commands) /\ Fresh(Each(S, do))
         /\ Cmds(Each(S, do)) = {<<do, x>> : x \in S}
         /\ Verbs(Each(S, do)) \subseteq {do}
BY EachFacts, PlainPrograms

LEMMA EachPeer ==
  ASSUME NEW S \in SUBSET HostPeers, NEW do \in {"upsert", "remove"}
  PROVE  /\ Each(S, do) \in Seq(Commands) /\ Fresh(Each(S, do))
         /\ Verbs(Each(S, do)) \subseteq {do}
         /\ Cmds(Each(S, do)) = {<<do, x>> : x \in S}
<1>1. IsFiniteSet(S)
  BY LinuxAssumption, FS_Subset
<1>2. \A x \in S : <<do, x>> \in Commands
  BY DEF Commands
<1> QED
  BY <1>1, <1>2, EachFresh DEF ChainSteps

IngressVerbs == {"aclOff", "aclOn"}
LEMMA IngressFacts ==
  /\ ApplyIngress \in Seq(Commands) /\ Fresh(ApplyIngress) /\ Verbs(ApplyIngress) = IngressVerbs
<1>1. /\ ApplyIngress \in Seq(Commands) /\ Len(ApplyIngress) = 2
      /\ Verb(ApplyIngress, 1) = "aclOff" /\ Verb(ApplyIngress, 2) = "aclOn"
  BY DEF ApplyIngress, Do, Commands, PlainVerbs, Verb
<1>2. \A i \in 1 .. 2 : i \in {1, 2}
  OBVIOUS
<1>3. Verbs(ApplyIngress) = IngressVerbs
  BY <1>1, <1>2 DEF Verbs, IngressVerbs
<1> QED
  BY <1>1, <1>3, PlainPrograms DEF IngressVerbs, ChainSteps

RouterVerbs ==
  {"rulesOff", "restore", "clear", "acceptsOn", "natOn", "enable", "routed", "unstage"}
  \cup ChainSteps
LEMMA RouterFacts ==
  ASSUME NEW F \in SUBSET Families
  PROVE  /\ Router(F) \in Seq(Commands) /\ Fresh(Router(F)) /\ Trailing(Router(F))
         /\ Verbs(Router(F)) \subseteq RouterVerbs
         /\ F = {} => "enable" \notin Verbs(Router(F))
<1> USE DEF RouterVerbs
<1> DEFINE off == <<Do("rulesOff")>>
           back == Each(Families \ F, "restore")
           head == off \o back
           cleared == <<Do("clear")>>
           open == <<Do("clear"), Do("acceptsOn")>>
           gate == IF node.filter # 0 THEN Install ELSE open
           nat == <<Do("natOn")>>
           on == Each(F, "enable")
           made == gate \o nat \o on
           middle == IF F = {} THEN cleared ELSE made
           routed == <<Cmd("routed", F)>>
<1>1. Router(F) = head \o middle \o routed
  BY DEF Router
<1>2. off \in Seq(Commands) /\ Fresh(off) /\ Verbs(off) = {"rulesOff"}
  BY PlainCommand DEF PlainVerbs, ChainSteps
<1>3. back \in Seq(Commands) /\ Fresh(back) /\ Verbs(back) \subseteq {"restore"}
  <2>1. \A x \in Families \ F : <<"restore", x>> \in Commands
    BY DEF Commands
  <2>2. IsFiniteSet(Families \ F)
    BY LinuxAssumption, FS_Difference
  <2> QED
    BY <2>1, <2>2, EachFresh DEF ChainSteps
<1> HIDE DEF off, back
<1>4. head \in Seq(Commands) /\ Fresh(head) /\ Verbs(head) \subseteq {"rulesOff", "restore"}
  BY <1>2, <1>3, Both
<1> HIDE DEF head
<1>5. cleared \in Seq(Commands) /\ Fresh(cleared) /\ Verbs(cleared) = {"clear"}
  BY PlainCommand DEF PlainVerbs, ChainSteps
<1>6. open \in Seq(Commands) /\ Fresh(open) /\ Verbs(open) \subseteq {"clear", "acceptsOn"}
  <2>1. /\ open \in Seq(Commands) /\ Len(open) = 2 /\ Verb(open, 1) = "clear"
        /\ Verb(open, 2) = "acceptsOn"
    BY DEF Do, Commands, PlainVerbs, Verb
  <2>2. \A i \in 1 .. 2 : i \in {1, 2}
    OBVIOUS
  <2>3. Verbs(open) \subseteq {"clear", "acceptsOn"}
    BY <2>1, <2>2 DEF Verbs
  <2> QED
    BY <2>1, <2>3, PlainPrograms DEF ChainSteps
<1> HIDE DEF open
<1>7. /\ gate \in Seq(Commands) /\ Fresh(gate)
      /\ Verbs(gate) \subseteq {"clear", "acceptsOn", "unstage"} \cup ChainSteps
  BY <1>6, InstallFacts
<1>8. nat \in Seq(Commands) /\ Fresh(nat) /\ Verbs(nat) = {"natOn"}
  BY PlainCommand DEF PlainVerbs, ChainSteps
<1>9. on \in Seq(Commands) /\ Fresh(on) /\ Verbs(on) \subseteq {"enable"}
  <2>1. \A x \in F : <<"enable", x>> \in Commands
    BY DEF Commands
  <2>2. IsFiniteSet(F)
    BY LinuxAssumption, FS_Subset
  <2> QED
    BY <2>1, <2>2, EachFresh DEF ChainSteps
<1> HIDE DEF gate, nat, on
<1>10. /\ made \in Seq(Commands) /\ Fresh(made) /\ Trailing(made) /\ Verbs(made) \subseteq RouterVerbs
  <2>1. /\ gate \o nat \in Seq(Commands) /\ Fresh(gate \o nat)
        /\ Verbs(gate \o nat) = Verbs(gate) \cup Verbs(nat)
    BY <1>7, <1>8, Both
  <2>2. "enable" \notin Verbs(gate \o nat)
    BY <1>7, <1>8, <2>1 DEF ChainSteps
  <2>3. Trailing(gate \o nat) /\ Trailing(on)
    BY <1>9, <2>1, <2>2, PlainPrograms
  <2>4. /\ made \in Seq(Commands) /\ Fresh(made) /\ Verbs(made) = Verbs(gate \o nat) \cup Verbs(on)
    BY <1>9, <2>1, Both
  <2>5. Trailing(made)
    BY <1>9, <2>1, <2>2, <2>3, TrailingConcat
  <2> QED
    BY <1>7, <1>8, <1>9, <2>1, <2>4, <2>5
<1> HIDE DEF made, cleared
<1>11. /\ middle \in Seq(Commands) /\ Fresh(middle) /\ Trailing(middle)
       /\ Verbs(middle) \subseteq RouterVerbs /\ (F = {} => Verbs(middle) = {"clear"})
  BY <1>5, <1>10, PlainPrograms
<1>12. routed \in Seq(Commands) /\ Fresh(routed) /\ Verbs(routed) = {"routed"}
  <2>1. Cmd("routed", F) \in Commands /\ Cmd("routed", F)[1] = "routed"
    BY DEF Commands, Cmd
  <2>2. routed \in Seq(Commands) /\ Verbs(routed) = {"routed"}
    BY <2>1, OneCommand
  <2> QED
    BY <2>2, PlainPrograms DEF ChainSteps
<1> HIDE DEF middle, routed
<1>13. /\ head \o middle \in Seq(Commands) /\ Fresh(head \o middle)
       /\ Verbs(head \o middle) = Verbs(head) \cup Verbs(middle)
  BY <1>4, <1>11, Both
<1>14. Trailing(head \o middle)
  BY <1>4, <1>11, TrailingConcat, PlainPrograms
<1>15. /\ Router(F) \in Seq(Commands) /\ Fresh(Router(F))
       /\ Verbs(Router(F)) = Verbs(head \o middle) \cup Verbs(routed)
  BY <1>1, <1>12, <1>13, Both
<1>16. Trailing(Router(F))
  BY <1>1, <1>12, <1>13, <1>14, TrailingConcat, PlainPrograms
<1> QED
  BY <1>4, <1>11, <1>12, <1>13, <1>15, <1>16 DEF ChainSteps

(* The programs of the operations.                                         *)
Upserts(s) == {x \in HostPeers : <<"upsert", x>> \in Cmds(s)}
Removes(s) == {x \in HostPeers : <<"remove", x>> \in Cmds(s)}
Good(s) == s \in Seq(Commands) /\ Fresh(s) /\ Settled(s) /\ Ordered(s)

StartProgram(F) == <<Do("setup")>> \o Router(F) \o <<Do("write")>> \o Each(node.peers, "upsert")
                   \o <<Do("routes")>> \o ApplyIngress
LEMMA StartFacts ==
  ASSUME HostType, NEW F \in SUBSET Families
  PROVE  /\ Good(StartProgram(F)) /\ Upserts(StartProgram(F)) = node.peers
         /\ Removes(StartProgram(F)) = {} /\ "peers" \notin Verbs(StartProgram(F))
         /\ <<"routes", 0>> \in Cmds(StartProgram(F)) /\ "setup" \in Verbs(StartProgram(F))
<1> DEFINE setup == <<Do("setup")>>
           router == Router(F)
           write == <<Do("write")>>
           peers == Each(node.peers, "upsert")
           routes == <<Do("routes")>>
           a == setup \o router
           b == a \o write
           c == b \o peers
           d == c \o routes
           e == d \o ApplyIngress
<1>1. /\ setup \in Seq(Commands) /\ Fresh(setup) /\ Verbs(setup) = {"setup"}
      /\ write \in Seq(Commands) /\ Fresh(write) /\ Verbs(write) = {"write"}
      /\ routes \in Seq(Commands) /\ Fresh(routes) /\ Verbs(routes) = {"routes"}
      /\ Cmds(routes) = {<<"routes", 0>>}
  BY PlainCommand DEF PlainVerbs, ChainSteps
<1>2. Ordered(setup)
  BY DEF Ordered
<1>3. /\ router \in Seq(Commands) /\ Fresh(router) /\ Trailing(router)
      /\ Verbs(router) \subseteq RouterVerbs
  BY RouterFacts
<1>4. /\ peers \in Seq(Commands) /\ Fresh(peers) /\ Verbs(peers) \subseteq {"upsert"}
      /\ Cmds(peers) = {<<"upsert", x>> : x \in node.peers}
  <2>1. node.peers \in SUBSET HostPeers
    BY DEF HostType, NodeStates
  <2> QED
    BY <2>1, EachPeer
<1> HIDE DEF setup, router, write, peers, routes
<1>5. /\ a \in Seq(Commands) /\ Fresh(a) /\ Verbs(a) = Verbs(setup) \cup Verbs(router)
      /\ Trailing(a) /\ Ordered(a)
  <2>1. "enable" \notin Verbs(setup) /\ "setup" \notin Verbs(router) /\ "routes" \notin Verbs(router)
        /\ "routes" \notin Verbs(setup)
    BY <1>1, <1>3 DEF RouterVerbs, ChainSteps
  <2>2. Ordered(router) /\ Trailing(setup)
    BY <1>1, <1>3, <2>1, PlainPrograms
  <2> QED
    BY <1>1, <1>2, <1>3, <2>1, <2>2, Both, TrailingConcat, OrderedConcat
<1> HIDE DEF a
<1>6. b \in Seq(Commands) /\ Settled(b)
  BY <1>5, TrailingWrite DEF write
<1>7. Fresh(b) /\ Verbs(b) = Verbs(a) \cup Verbs(write) /\ Ordered(b)
  <2>1. Ordered(write) /\ "setup" \notin Verbs(write) /\ Verbs(write) \cap {"upsert", "remove"} = {}
    BY <1>1, PlainPrograms
  <2> QED
    BY <1>1, <1>5, <2>1, Both, OrderedConcat
<1> HIDE DEF b
<1>8. Verbs(b) \subseteq {"setup", "write"} \cup RouterVerbs
  BY <1>1, <1>3, <1>5, <1>7
<1>9. /\ c \in Seq(Commands) /\ Fresh(c) /\ Verbs(c) = Verbs(b) \cup Verbs(peers)
      /\ Cmds(c) = Cmds(b) \cup Cmds(peers) /\ Settled(c) /\ Ordered(c)
  <2>1. "routes" \notin Verbs(b) /\ "setup" \notin Verbs(peers) /\ "enable" \notin Verbs(peers)
    BY <1>4, <1>8 DEF RouterVerbs, ChainSteps
  <2>2. Ordered(peers)
    BY <1>4, PlainPrograms
  <2> QED
    BY <1>4, <1>6, <1>7, <2>1, <2>2, Both, SettledConcat, OrderedConcat
<1> HIDE DEF c
<1>10. /\ d \in Seq(Commands) /\ Fresh(d) /\ Verbs(d) = Verbs(c) \cup Verbs(routes)
       /\ Cmds(d) = Cmds(c) \cup Cmds(routes) /\ Settled(d) /\ Ordered(d)
  <2>1. /\ "setup" \notin Verbs(routes) /\ "enable" \notin Verbs(routes)
        /\ Verbs(routes) \cap {"upsert", "remove"} = {} /\ Ordered(routes)
    BY <1>1, PlainPrograms
  <2> QED
    BY <1>1, <1>9, <2>1, Both, SettledConcat, OrderedConcat
<1> HIDE DEF d
<1>11. /\ e \in Seq(Commands) /\ Fresh(e) /\ Verbs(e) = Verbs(d) \cup IngressVerbs
       /\ Cmds(e) = Cmds(d) \cup Cmds(ApplyIngress) /\ Settled(e) /\ Ordered(e)
  <2>1. /\ "setup" \notin IngressVerbs /\ "enable" \notin IngressVerbs
        /\ IngressVerbs \cap {"upsert", "remove"} = {}
    BY DEF IngressVerbs
  <2>2. Ordered(ApplyIngress)
    BY <2>1, IngressFacts, PlainPrograms
  <2> QED
    BY <1>10, <2>1, <2>2, IngressFacts, Both, SettledConcat, OrderedConcat
<1>12. StartProgram(F) = e
  BY DEF StartProgram, e, d, c, b, a, setup, router, write, peers, routes
<1>13. \A x : /\ <<"upsert", x>> \in Cmds(e) <=> <<"upsert", x>> \in Cmds(peers)
              /\ <<"remove", x>> \notin Cmds(e)
  <2> TAKE x
  <2>1. \A verb \in {"upsert", "remove"} :
          <<verb, x>> \notin Cmds(b) /\ <<verb, x>> \notin Cmds(routes)
          /\ <<verb, x>> \notin Cmds(ApplyIngress)
    BY <1>1, <1>8, CmdVerb, IngressFacts DEF RouterVerbs, ChainSteps, IngressVerbs
  <2>2. <<"remove", x>> \notin Cmds(peers)
    BY <1>4, CmdVerb
  <2> QED
    BY <1>9, <1>10, <1>11, <2>1, <2>2
<1>14. "peers" \notin Verbs(e) /\ <<"routes", 0>> \in Cmds(e)
  BY <1>1, <1>4, <1>8, <1>9, <1>10, <1>11 DEF RouterVerbs, ChainSteps, IngressVerbs
<1>15. "setup" \in Verbs(e)
  BY <1>1, <1>5, <1>7, <1>9, <1>10, <1>11
<1>16. \A x \in HostPeers : <<"upsert", x>> \in Cmds(peers) <=> x \in node.peers
  BY <1>4
<1>17. node.peers \subseteq HostPeers
  BY DEF HostType, NodeStates
<1> HIDE DEF e
<1>18. Upserts(e) = node.peers /\ Removes(e) = {}
  BY <1>13, <1>16, <1>17 DEF Upserts, Removes
<1> QED
  BY <1>11, <1>12, <1>14, <1>18, <1>15 DEF Good

SyncProgram(P, v) == PeerDiff(node.peers, P) \o <<Do("routes")>> \o ApplyIngress
                     \o ApplyForward(v) \o <<Cmd("peers", P), Do("write")>>
LEMMA SyncFacts ==
  ASSUME HostType, NEW P \in SUBSET HostPeers, NEW v \in Nat
  PROVE  /\ Good(SyncProgram(P, v)) /\ Upserts(SyncProgram(P, v)) = P \ node.peers
         /\ Removes(SyncProgram(P, v)) = node.peers \ P /\ "setup" \notin Verbs(SyncProgram(P, v))
         /\ <<"routes", 0>> \in Cmds(SyncProgram(P, v))
         /\ <<"peers", P>> \in Cmds(SyncProgram(P, v))
         /\ \A Q : <<"peers", Q>> \in Cmds(SyncProgram(P, v)) => Q = P
<1> DEFINE gone == Each(node.peers \ P, "remove")
           new == Each(P \ node.peers, "upsert")
           routes == <<Do("routes")>>
           forwarding == ApplyForward(v)
           final == <<Cmd("peers", P), Do("write")>>
           a == gone \o new
           b == a \o routes
           c == b \o ApplyIngress
           d == c \o forwarding
           e == d \o final
<1>0. node.peers \in SUBSET HostPeers
  BY DEF HostType, NodeStates
<1>1. /\ routes \in Seq(Commands) /\ Fresh(routes) /\ Verbs(routes) = {"routes"}
      /\ Cmds(routes) = {<<"routes", 0>>}
  BY PlainCommand DEF PlainVerbs, ChainSteps
<1>2. /\ gone \in Seq(Commands) /\ Fresh(gone) /\ Verbs(gone) \subseteq {"remove"}
      /\ Cmds(gone) = {<<"remove", x>> : x \in node.peers \ P}
  <2>0. node.peers \ P \in SUBSET HostPeers
    BY <1>0
  <2> QED
    BY <2>0, EachPeer
<1>3. /\ new \in Seq(Commands) /\ Fresh(new) /\ Verbs(new) \subseteq {"upsert"}
      /\ Cmds(new) = {<<"upsert", x>> : x \in P \ node.peers}
  <2>0. P \ node.peers \in SUBSET HostPeers
    BY <1>0
  <2> QED
    BY <2>0, EachPeer
<1>4. /\ forwarding \in Seq(Commands) /\ Fresh(forwarding)
      /\ Verbs(forwarding) \subseteq {"unstage", "acceptsOff"} \cup ChainSteps
  <2>1. CASE node.routed = {} \/ v = 0
    <3>1. forwarding = <<>> /\ forwarding \in Seq(Commands)
      BY <2>1 DEF ApplyForward
    <3>2. Verbs(forwarding) = {}
      BY <3>1 DEF Verbs
    <3> QED
      BY <3>1, <3>2, PlainPrograms
  <2>2. CASE ~(node.routed = {} \/ v = 0)
    <3>1. forwarding = Install \o <<Do("acceptsOff")>>
      BY <2>2 DEF ApplyForward
    <3>2. /\ <<Do("acceptsOff")>> \in Seq(Commands) /\ Fresh(<<Do("acceptsOff")>>)
          /\ Verbs(<<Do("acceptsOff")>>) = {"acceptsOff"}
      BY PlainCommand DEF PlainVerbs, ChainSteps
    <3> QED
      BY <3>1, <3>2, InstallFacts, Both
  <2> QED
    BY <2>1, <2>2
<1>5. /\ final \in Seq(Commands) /\ Fresh(final) /\ Verbs(final) = {"peers", "write"}
      /\ Cmds(final) = {<<"peers", P>>, <<"write", 0>>}
  <2>1. /\ final \in Seq(Commands) /\ Len(final) = 2 /\ final[1] = <<"peers", P>>
        /\ final[2] = <<"write", 0>>
    BY DEF Cmd, Do, Commands, PlainVerbs
  <2>2. \A i \in 1 .. 2 : i \in {1, 2}
    OBVIOUS
  <2> HIDE DEF final
  <2>3. Cmds(final) = {<<"peers", P>>, <<"write", 0>>}
    BY <2>1, <2>2 DEF Cmds
  <2>4. Verbs(final) = {"peers", "write"}
    BY <2>1, <2>2 DEF Verbs, Verb
  <2> QED
    BY <2>1, <2>3, <2>4, PlainPrograms DEF ChainSteps
<1> HIDE DEF gone, new, routes, forwarding, final
<1>6. /\ a \in Seq(Commands) /\ Fresh(a) /\ Verbs(a) = Verbs(gone) \cup Verbs(new)
      /\ Cmds(a) = Cmds(gone) \cup Cmds(new)
  BY <1>2, <1>3, Both
<1>7. Settled(a) /\ Ordered(a)
  BY <1>2, <1>3, <1>6, PlainPrograms
<1> HIDE DEF a
<1>8. /\ b \in Seq(Commands) /\ Fresh(b) /\ Verbs(b) = Verbs(a) \cup Verbs(routes)
      /\ Cmds(b) = Cmds(a) \cup Cmds(routes) /\ Settled(b) /\ Ordered(b)
  <2>1. /\ "setup" \notin Verbs(routes) /\ "enable" \notin Verbs(routes)
        /\ Verbs(routes) \cap {"upsert", "remove"} = {} /\ Ordered(routes)
    BY <1>1, PlainPrograms
  <2> QED
    BY <1>1, <1>6, <1>7, <2>1, Both, SettledConcat, OrderedConcat
<1> HIDE DEF b
<1>9. /\ c \in Seq(Commands) /\ Fresh(c) /\ Verbs(c) = Verbs(b) \cup IngressVerbs
      /\ Cmds(c) = Cmds(b) \cup Cmds(ApplyIngress) /\ Settled(c) /\ Ordered(c)
  <2>1. /\ "setup" \notin IngressVerbs /\ "enable" \notin IngressVerbs
        /\ IngressVerbs \cap {"upsert", "remove"} = {}
    BY DEF IngressVerbs
  <2>2. Ordered(ApplyIngress)
    BY <2>1, IngressFacts, PlainPrograms
  <2> QED
    BY <1>8, <2>1, <2>2, IngressFacts, Both, SettledConcat, OrderedConcat
<1> HIDE DEF c
<1>10. /\ d \in Seq(Commands) /\ Fresh(d) /\ Verbs(d) = Verbs(c) \cup Verbs(forwarding)
       /\ Cmds(d) = Cmds(c) \cup Cmds(forwarding) /\ Settled(d) /\ Ordered(d)
  <2>1. /\ "setup" \notin Verbs(forwarding) /\ "enable" \notin Verbs(forwarding)
        /\ Verbs(forwarding) \cap {"upsert", "remove"} = {} /\ Ordered(forwarding)
    BY <1>4, PlainPrograms DEF ChainSteps
  <2> QED
    BY <1>4, <1>9, <2>1, Both, SettledConcat, OrderedConcat
<1> HIDE DEF d
<1>11. /\ e \in Seq(Commands) /\ Fresh(e) /\ Verbs(e) = Verbs(d) \cup Verbs(final)
       /\ Cmds(e) = Cmds(d) \cup Cmds(final) /\ Settled(e) /\ Ordered(e)
  <2>1. /\ "setup" \notin Verbs(final) /\ "enable" \notin Verbs(final)
        /\ Verbs(final) \cap {"upsert", "remove"} = {} /\ Ordered(final)
    BY <1>5, PlainPrograms
  <2> QED
    BY <1>5, <1>10, <2>1, Both, SettledConcat, OrderedConcat
<1>12. SyncProgram(P, v) = e
  BY DEF SyncProgram, PeerDiff, e, d, c, b, a, gone, new, routes, forwarding, final
<1> HIDE DEF e
<1>13. \A x : \A verb \in {"upsert", "remove", "peers"} :
         <<verb, x>> \notin Cmds(routes) /\ <<verb, x>> \notin Cmds(ApplyIngress)
         /\ <<verb, x>> \notin Cmds(forwarding)
  BY <1>1, <1>4, CmdVerb, IngressFacts DEF ChainSteps, IngressVerbs
<1>14. \A x : /\ <<"upsert", x>> \in Cmds(e) <=> x \in P \ node.peers
              /\ <<"remove", x>> \in Cmds(e) <=> x \in node.peers \ P
              /\ <<"peers", x>> \in Cmds(e) <=> x = P
  <2> TAKE x
  <2>1. /\ <<"upsert", x>> \notin Cmds(final) /\ <<"remove", x>> \notin Cmds(final)
        /\ <<"peers", x>> \in Cmds(final) <=> x = P
    BY <1>5
  <2>2. /\ <<"upsert", x>> \notin Cmds(gone)
        /\ <<"remove", x>> \in Cmds(gone) <=> x \in node.peers \ P
        /\ <<"peers", x>> \notin Cmds(gone)
    BY <1>2
  <2>3. /\ <<"remove", x>> \notin Cmds(new)
        /\ <<"upsert", x>> \in Cmds(new) <=> x \in P \ node.peers
        /\ <<"peers", x>> \notin Cmds(new)
    BY <1>3
  <2> QED
    BY <1>6, <1>8, <1>9, <1>10, <1>11, <1>13, <2>1, <2>2, <2>3
<1>15. "setup" \notin Verbs(e) /\ <<"routes", 0>> \in Cmds(e)
  BY <1>1, <1>2, <1>3, <1>4, <1>5, <1>6, <1>8, <1>9, <1>10, <1>11 DEF ChainSteps, IngressVerbs
<1>16. Upserts(e) = P \ node.peers /\ Removes(e) = node.peers \ P
  BY <1>0, <1>14 DEF Upserts, Removes
<1> QED
  BY <1>11, <1>12, <1>14, <1>15, <1>16 DEF Good

LEMMA RerouteFacts ==
  ASSUME NEW F \in SUBSET Families
  PROVE  LET s == Router(F) \o <<Do("write")>>
         IN  Good(s) /\ Verbs(s) \subseteq {"write"} \cup RouterVerbs
<1> DEFINE t == <<Do("write")>>
           s == Router(F) \o t
<1>1. t \in Seq(Commands) /\ Fresh(t) /\ Verbs(t) = {"write"}
  BY PlainCommand DEF PlainVerbs, ChainSteps
<1>2. Settled(s)
  BY RouterFacts, TrailingWrite
<1> HIDE DEF t
<1>3. /\ s \in Seq(Commands) /\ Fresh(s) /\ Verbs(s) = Verbs(Router(F)) \cup Verbs(t)
  BY <1>1, RouterFacts, Both
<1>4. Verbs(s) \subseteq {"write"} \cup RouterVerbs
  BY <1>1, <1>3, RouterFacts
<1> HIDE DEF s
<1>5. Ordered(s)
  BY <1>3, <1>4, PlainPrograms DEF RouterVerbs, ChainSteps
<1> QED
  BY <1>2, <1>3, <1>4, <1>5 DEF Good, s, t

LEMMA StopFacts ==
  LET s == Router({}) \o <<Do("down")>>
  IN  Good(s) /\ Verbs(s) \subseteq {"down"} \cup RouterVerbs
<1> DEFINE t == <<Do("down")>>
           s == Router({}) \o t
<1>1. t \in Seq(Commands) /\ Fresh(t) /\ Verbs(t) = {"down"}
  BY PlainCommand DEF PlainVerbs, ChainSteps
<1> HIDE DEF t
<1>2. /\ Router({}) \in Seq(Commands) /\ Fresh(Router({})) /\ "enable" \notin Verbs(Router({}))
      /\ Verbs(Router({})) \subseteq RouterVerbs
  BY RouterFacts
<1>3. /\ s \in Seq(Commands) /\ Fresh(s) /\ Verbs(s) = Verbs(Router({})) \cup Verbs(t)
  BY <1>1, <1>2, Both
<1> HIDE DEF s
<1>4. Settled(s) /\ Ordered(s)
  BY <1>1, <1>2, <1>3, PlainPrograms DEF RouterVerbs, ChainSteps
<1> QED
  BY <1>1, <1>2, <1>3, <1>4 DEF Good, s, t

-----------------------------------------------------------------------------
(* The inductive invariant.                                                *)

HeadIs(v) == todo # <<>> /\ Verb(todo, 1) = v

(* The chain that catches packets is a whole one, at each step of a        *)
(* replacement.                                                            *)
ChainsOk ==
  /\ kernel.stagedJump => kernel.staged.full
  /\ HeadIs("new") \/ HeadIs("fill") \/ HeadIs("jump") => ~kernel.stagedJump
  /\ HeadIs("jump") => kernel.staged.full
  /\ HeadIs("dropLive") \/ HeadIs("rename") => kernel.stagedJump
  /\ ~HeadIs("rename") /\ guarded => kernel.liveJump /\ kernel.live.full

(* What is remembered of a sysctl is what it was; state.json lags only     *)
(* while a write is about to happen that nothing comes before.             *)
Remembers(originals) ==
  \A f \in Families :
    /\ originals[f] = NoOriginal => kernel.forwarding[f] = host0[f]
    /\ originals[f] = "on" => host0[f] /\ kernel.forwarding[f]
    /\ originals[f] = "off" => ~host0[f]
WriteIsNext ==
  \E k \in 1 .. Len(todo) : /\ Verb(todo, k) = "write"
                            /\ \A m \in 1 .. k : Verb(todo, m) \in Quickly
ForwardingOk == Remembers(node.originals) /\ (Remembers(saved.originals) \/ WriteIsNext)

(* What the rest of the operation makes of the peers is what NodeState     *)
(* will have.                                                              *)
Heading(target) ==
  /\ \A P : <<"peers", P>> \in Cmds(todo) => P = target
  /\ (\A P \in SUBSET HostPeers : <<"peers", P>> \notin Cmds(todo)) => node.peers = target
  /\ Upserts(todo) \cap Removes(todo) = {}
  /\ (kernel.peers \ Removes(todo)) \cup Upserts(todo) = target
  /\ <<"routes", 0>> \in Cmds(todo) \/ kernel.routes = target
PeersOk ==
  /\ "setup" \in Verbs(todo) =>
       /\ "peers" \notin Verbs(todo) /\ Upserts(todo) = node.peers /\ Removes(todo) = {}
       /\ <<"routes", 0>> \in Cmds(todo)
  /\ node.up /\ ~tainted /\ "setup" \notin Verbs(todo) =>
       \E target \in SUBSET HostPeers : Heading(target)

ProgramOk ==
  /\ Tidy(todo) /\ Settled(todo) /\ Ordered(todo)
  /\ Verbs(undo) \subseteq {"rulesOff", "down", "exit"}
HostIInv == HostType /\ ProgramOk /\ ChainsOk /\ ForwardingOk /\ PeersOk

(* Where the cut is: the renaming of the new chain and the writing of      *)
(* state.json after a sysctl was switched on neither fail nor are cut off. *)
FaultsSpare == (FailAt \cup CrashAt) \cap {"rename", "enable", "routed", "write"} = {}

(* The command a step runs, and what it leaves.                            *)
LEMMA RunFacts ==
  ASSUME HostIInv, Run
  PROVE  /\ todo # <<>> /\ Head(todo) \in Commands /\ Head(todo)[1] = Verb(todo, 1)
         /\ Head(todo) = todo[1] /\ Len(todo) \in Nat /\ Len(todo) > 0
         /\ todo' = Tail(todo) /\ todo' \in Seq(Commands) /\ Len(todo') = Len(todo) - 1
         /\ \A i \in 1 .. Len(todo') : i + 1 \in 1 .. Len(todo) /\ Verb(todo', i) = Verb(todo, i + 1)
         /\ Cmds(todo) = {Head(todo)} \cup Cmds(todo')
         /\ Tidy(todo') /\ Settled(todo') /\ Ordered(todo') /\ "setup" \notin Verbs(todo')
         /\ kernel' = Effect(Head(todo), kernel) /\ node' = Noted(Head(todo), node)
         /\ UNCHANGED host0
<1>1. /\ todo # <<>> /\ todo' = Tail(todo) /\ todo \in Seq(Commands)
      /\ kernel' = Effect(Head(todo), kernel) /\ node' = Noted(Head(todo), node) /\ UNCHANGED host0
  BY DEF Run, Idle, HostIInv, HostType
<1>2. /\ Head(todo) = todo[1] /\ Head(todo) \in Commands /\ todo' \in Seq(Commands)
      /\ Len(todo) \in Nat /\ Len(todo) > 0 /\ Len(todo') = Len(todo) - 1
  BY <1>1, PopIndex
<1>3. Cmds(todo) = {Head(todo)} \cup Cmds(todo')
  BY <1>1, PopCmds
<1>4. /\ Tidy(todo') /\ Settled(todo') /\ Ordered(todo') /\ "setup" \notin Verbs(todo')
      /\ \A i \in 1 .. Len(todo') : i + 1 \in 1 .. Len(todo) /\ Verb(todo', i) = Verb(todo, i + 1)
  BY <1>1, PopPrograms DEF HostIInv, ProgramOk
<1> QED
  BY <1>1, <1>2, <1>3, <1>4 DEF Verb

LEMMA RunType ==
  ASSUME HostIInv, Run
  PROVE  HostType' /\ ProgramOk'
<1> DEFINE c == Head(todo)
<1>1. c \in Commands /\ todo' \in Seq(Commands) /\ HostType
  BY RunFacts DEF HostIInv
<1>2. kernel' \in Kernels
  BY <1>1, RunFacts, EffectType
<1>3. node' \in NodeStates
  BY <1>1, RunFacts, NotedFacts
<1>4. saved' \in [peers : SUBSET HostPeers, filter : Nat, originals : Originals]
  <2>1. Saved(node) \in [peers : SUBSET HostPeers, filter : Nat, originals : Originals]
    BY <1>1 DEF Saved, HostType, NodeStates
  <2> QED
    BY <1>1, <2>1 DEF Run, HostType
<1>5. guarded' \in BOOLEAN /\ tainted' \in BOOLEAN /\ host0' = host0
  BY <1>1 DEF Run, HostType
<1>6. undo' \in Seq(Commands) /\ Verbs(undo') \subseteq {"rulesOff", "down", "exit"}
  <2>1. undo' = undo \/ undo' = <<Do("exit")>>
    BY DEF Run
  <2>2. <<Do("exit")>> \in Seq(Commands) /\ Verbs(<<Do("exit")>>) = {"exit"}
    BY PlainCommand DEF PlainVerbs, ChainSteps
  <2>3. undo \in Seq(Commands) /\ Verbs(undo) \subseteq {"rulesOff", "down", "exit"}
    BY <1>1 DEF HostType, HostIInv, ProgramOk
  <2> QED
    BY <2>1, <2>2, <2>3
<1>7. HostType'
  BY <1>1, <1>2, <1>3, <1>4, <1>5, <1>6 DEF HostType
<1>8. ProgramOk'
  <2>1. Tidy(todo') /\ Settled(todo') /\ Ordered(todo')
    BY RunFacts
  <2> QED
    BY <1>6, <2>1 DEF ProgramOk, Tidy, Settled, Ordered, Verb, Verbs, Quickly
<1> QED
  BY <1>7, <1>8

(* A packet meets a whole chain after every command of install().          *)
LEMMA RunChains ==
  ASSUME HostIInv, Run
  PROVE  ChainsOk'
<1> DEFINE c == Head(todo)
           v == c[1]
<1>1. /\ c \in Commands /\ v = Verb(todo, 1) /\ todo # <<>> /\ kernel' = Effect(c, kernel)
      /\ Len(todo) \in Nat /\ Len(todo) > 0 /\ Len(todo') = Len(todo) - 1
      /\ \A i \in 1 .. Len(todo') : Verb(todo', i) = Verb(todo, i + 1)
  BY RunFacts
<1>2. kernel \in Kernels /\ node \in NodeStates /\ ChainsOk /\ Tidy(todo) /\ guarded \in BOOLEAN
  BY DEF HostIInv, HostType, ProgramOk
<1>3. /\ kernel.stagedJump => kernel.staged.full
      /\ v \in {"new", "fill", "jump"} => ~kernel.stagedJump
      /\ v = "jump" => kernel.staged.full
      /\ v \in {"dropLive", "rename"} => kernel.stagedJump
      /\ v # "rename" /\ guarded => kernel.liveJump /\ kernel.live.full
  BY <1>1, <1>2 DEF ChainsOk, HeadIs
<1>4. guarded' = (CASE v = "rename" -> TRUE [] v \in {"clear", "down"} -> FALSE [] OTHER -> guarded)
  BY DEF Run
<1> DEFINE H(w) == (HeadIs(w))'
<1>5. /\ H("new") => v = "unstage"
      /\ H("fill") => v = "new"
      /\ H("jump") => v = "fill"
      /\ H("dropLive") => v = "jump"
      /\ H("rename") => v = "dropLive"
      /\ v = "dropLive" => H("rename")
  <2>1. \A w : H(w) => Len(todo) > 1 /\ Verb(todo, 2) = w
    <3>1. ASSUME NEW w, H(w) PROVE Len(todo) > 1 /\ Verb(todo, 2) = w
      <4>1. todo' # <<>> /\ Verb(todo', 1) = w /\ todo' \in Seq(Commands)
        BY <3>1, RunFacts DEF HeadIs, Verb
      <4>2. Len(todo') > 0
        BY <4>1
      <4> QED
        BY <1>1, <4>1, <4>2
    <3> QED
      BY <3>1
  <2>2. \A w : Len(todo) > 1 /\ Verb(todo, 2) = w => H(w)
    <3>1. ASSUME NEW w, Len(todo) > 1, Verb(todo, 2) = w PROVE H(w)
      <4>1. 1 \in 1 .. Len(todo') /\ todo' # <<>> /\ Verb(todo', 1) = w
        BY <1>1, <3>1
      <4> QED
        BY <4>1 DEF HeadIs, Verb
    <3> QED
      BY <3>1
  <2>3. Len(todo) > 1 => 1 \in 1 .. Len(todo) /\ 2 \in 1 .. Len(todo) /\ 2 = 1 + 1
    BY <1>1
  <2>4. /\ H("new") => v = "unstage"
        /\ H("fill") => v = "new"
        /\ H("jump") => v = "fill"
        /\ H("dropLive") => v = "jump"
        /\ H("rename") => v = "dropLive"
    BY <1>1, <1>2, <2>1, <2>3 DEF Tidy
  <2>5. v = "dropLive" => 1 + 1 \in 1 .. Len(todo) /\ Verb(todo, 1 + 1) = "rename"
    BY <1>1, <1>2 DEF Tidy
  <2>6. v = "dropLive" => Len(todo) > 1 /\ Verb(todo, 2) = "rename"
    BY <1>1, <2>5
  <2> QED
    BY <2>2, <2>4, <2>6
<1> HIDE DEF H
<1> SUFFICES /\ kernel'.stagedJump => kernel'.staged.full
             /\ H("new") \/ H("fill") \/ H("jump") => ~kernel'.stagedJump
             /\ H("jump") => kernel'.staged.full
             /\ H("dropLive") \/ H("rename") => kernel'.stagedJump
             /\ ~H("rename") /\ guarded' => kernel'.liveJump /\ kernel'.live.full
  BY DEF H, ChainsOk
<1> HIDE DEF c
<1>6. CASE v \in Touches /\ v # "down"
  <2>1. /\ kernel'.live = kernel.live /\ kernel'.liveJump = kernel.liveJump
        /\ kernel'.staged = kernel.staged /\ kernel'.stagedJump = kernel.stagedJump
    BY <1>1, <1>2, <1>6, EffectPeers
  <2> QED
    BY <1>3, <1>4, <1>5, <1>6, <2>1 DEF Touches
<1>7. CASE v = "down"
  <2>1. ~kernel'.liveJump /\ ~kernel'.stagedJump
    BY <1>1, <1>2, <1>7, EffectPeers DEF Touches
  <2> QED
    BY <1>4, <1>5, <1>7, <2>1
<1>8. CASE v \notin Touches \cup Chained
  <2>1. /\ kernel'.live = kernel.live /\ kernel'.liveJump = kernel.liveJump
        /\ kernel'.staged = kernel.staged /\ kernel'.stagedJump = kernel.stagedJump
    BY <1>1, <1>2, <1>8, EffectRest
  <2> QED
    BY <1>3, <1>4, <1>5, <1>8, <2>1 DEF Chained
<1>9. CASE v \in Chained /\ v # "down"
  <2>1. /\ v \in {"unstage", "new", "fill", "jump"} =>
             kernel'.live = kernel.live /\ kernel'.liveJump = kernel.liveJump
        /\ v \in {"unstage", "rename", "clear"} => ~kernel'.stagedJump
        /\ v = "new" => kernel'.stagedJump = kernel.stagedJump
        /\ v = "fill" => kernel'.staged.full /\ kernel'.stagedJump = kernel.stagedJump
        /\ v = "jump" => kernel'.stagedJump /\ kernel'.staged = kernel.staged
        /\ v = "dropLive" => kernel'.staged = kernel.staged /\ kernel'.stagedJump = kernel.stagedJump
        /\ v = "rename" => kernel'.live = kernel.staged /\ kernel'.liveJump = kernel.stagedJump
    BY <1>1, <1>2, <1>9, EffectChains
  <2>2. v \in {"unstage", "new", "fill", "jump", "dropLive", "rename", "clear"}
    BY <1>9 DEF Chained
  <2> QED
    BY <1>3, <1>4, <1>5, <2>1, <2>2
<1> QED
  BY <1>6, <1>7, <1>8, <1>9

(* A sysctl is remembered before it changes, and state.json has it before  *)
(* anything else runs.                                                     *)
LEMMA RunForwarding ==
  ASSUME HostIInv, Run
  PROVE  ForwardingOk'
<1> DEFINE c == Head(todo)
           v == c[1]
           k == kernel.forwarding
           n == node.originals
           m == saved.originals
<1>1. /\ c \in Commands /\ v = Verb(todo, 1) /\ kernel' = Effect(c, kernel)
      /\ node' = Noted(c, node) /\ host0' = host0
      /\ Len(todo) \in Nat /\ Len(todo) > 0 /\ Len(todo') = Len(todo) - 1
      /\ \A i \in 1 .. Len(todo') : i + 1 \in 1 .. Len(todo) /\ Verb(todo', i) = Verb(todo, i + 1)
  BY RunFacts
<1>2. /\ kernel \in Kernels /\ node \in NodeStates /\ HostType /\ Settled(todo)
      /\ n \in Originals /\ m \in Originals /\ k \in [Families -> BOOLEAN]
      /\ host0 \in [Families -> BOOLEAN]
  BY DEF HostIInv, HostType, ProgramOk, NodeStates, Kernels
<1>3. Remembers(n) /\ (Remembers(m) \/ WriteIsNext)
  BY DEF HostIInv, ForwardingOk
<1>4. v \in {"down", "exit", "restore"} => Remembers(m)
  BY <1>1, <1>3 DEF WriteIsNext, Quickly
<1>5. v # "write" => saved' = saved
  BY DEF Run
<1> DEFINE WriteNext == (WriteIsNext)'
           Now(o) == \A f \in Families :
                       /\ o[f] = NoOriginal => kernel'.forwarding[f] = host0[f]
                       /\ o[f] = "on" => host0[f] /\ kernel'.forwarding[f]
                       /\ o[f] = "off" => ~host0[f]
<1>6. (Now(node'.originals) /\ (Now(saved'.originals) \/ WriteNext)) => ForwardingOk'
  BY <1>1 DEF ForwardingOk, Remembers
<1>7. (WriteIsNext /\ v # "write") => WriteNext
  <2> SUFFICES ASSUME WriteIsNext, v # "write" PROVE WriteNext
    OBVIOUS
  <2>1. PICK j \in 1 .. Len(todo) : /\ Verb(todo, j) = "write"
                                    /\ \A i \in 1 .. j : Verb(todo, i) \in Quickly
    BY DEF WriteIsNext
  <2>2. j # 1
    BY <1>1, <2>1
  <2>3. j - 1 \in 1 .. Len(todo') /\ Verb(todo', j - 1) = "write"
    BY <1>1, <2>1, <2>2
  <2>4. \A i \in 1 .. (j - 1) : i \in 1 .. Len(todo') /\ i + 1 \in 1 .. j
    BY <1>1, <2>1, <2>3
  <2>5. \A i \in 1 .. (j - 1) : Verb(todo', i) \in Quickly
    BY <1>1, <2>1, <2>4
  <2> QED
    BY <2>3, <2>5 DEF WriteIsNext, Verb, Quickly
<1>8. v = "enable" => WriteIsNext
  <2> SUFFICES ASSUME v = "enable" PROVE WriteIsNext
    OBVIOUS
  <2>1. 1 \in 1 .. Len(todo) /\ Verb(todo, 1) = "enable"
    BY <1>1
  <2>2. PICK j \in 1 .. Len(todo) : /\ j > 1 /\ Verb(todo, j) = "write"
                                    /\ \A i \in 1 .. j : Verb(todo, i) \in Quickly
    BY <1>2, <2>1 DEF Settled
  <2> QED
    BY <2>2 DEF WriteIsNext
<1> HIDE DEF c, WriteNext
<1>9. CASE v = "enable"
  <2>1. WriteNext
    BY <1>7, <1>8, <1>9
  <2>2. c[2] \in Families
    BY <1>1, <1>9, CommandKinds
  <2>3. /\ kernel'.forwarding[c[2]] = TRUE
        /\ \A f \in Families : f # c[2] => kernel'.forwarding[f] = k[f]
    BY <1>1, <1>2, <1>9, EffectForwarding
  <2>4. /\ \A f \in Families : f # c[2] => node'.originals[f] = n[f]
        /\ node'.originals[c[2]] = IF n[c[2]] = NoOriginal THEN Found(c[2]) ELSE n[c[2]]
    BY <1>1, <1>2, <1>9, NotedFacts
  <2>5. n[c[2]] \in {NoOriginal, "on", "off"} /\ k[c[2]] \in BOOLEAN /\ host0[c[2]] \in BOOLEAN
    BY <1>2, <2>2 DEF Originals
  <2>6. Now(node'.originals)
    <3> SUFFICES ASSUME NEW f \in Families
                 PROVE  /\ node'.originals[f] = NoOriginal => kernel'.forwarding[f] = host0[f]
                        /\ node'.originals[f] = "on" => host0[f] /\ kernel'.forwarding[f]
                        /\ node'.originals[f] = "off" => ~host0[f]
      OBVIOUS
    <3>1. CASE f # c[2]
      BY <1>3, <2>3, <2>4, <3>1 DEF Remembers
    <3>2. CASE f = c[2] /\ n[f] = NoOriginal
      <4>1. k[f] = host0[f]
        BY <1>3, <3>2 DEF Remembers
      <4>2. node'.originals[f] = IF k[f] THEN "on" ELSE "off"
        BY <2>4, <3>2 DEF Found
      <4> QED
        BY <2>3, <2>5, <3>2, <4>1, <4>2 DEF NoOriginal
    <3>3. CASE f = c[2] /\ n[f] # NoOriginal
      BY <1>3, <2>3, <2>4, <2>5, <3>3 DEF Remembers
    <3> QED
      BY <3>1, <3>2, <3>3
  <2> QED
    BY <1>6, <2>1, <2>6
<1>10. CASE v = "restore"
  <2>1. Remembers(m) /\ saved' = saved
    BY <1>4, <1>5, <1>10
  <2>2. c[2] \in Families
    BY <1>1, <1>10, CommandKinds
  <2>3. /\ kernel'.forwarding[c[2]] = IF n[c[2]] = "off" THEN FALSE ELSE k[c[2]]
        /\ \A f \in Families : f # c[2] => kernel'.forwarding[f] = k[f]
    BY <1>1, <1>2, <1>10, EffectForwarding
  <2>4. /\ \A f \in Families : f # c[2] => node'.originals[f] = n[f]
        /\ node'.originals[c[2]] = NoOriginal
    BY <1>1, <1>2, <1>10, NotedFacts
  <2>5. n[c[2]] \in {NoOriginal, "on", "off"} /\ k[c[2]] \in BOOLEAN /\ host0[c[2]] \in BOOLEAN
    BY <1>2, <2>2 DEF Originals
  <2>6. kernel'.forwarding[c[2]] = host0[c[2]]
    <3>1. CASE n[c[2]] = NoOriginal
      BY <1>3, <2>2, <2>3, <3>1 DEF Remembers, NoOriginal
    <3>2. CASE n[c[2]] = "on"
      BY <1>3, <2>2, <2>3, <2>5, <3>2 DEF Remembers
    <3>3. CASE n[c[2]] = "off"
      BY <1>3, <2>2, <2>3, <2>5, <3>3 DEF Remembers
    <3> QED
      BY <2>5, <3>1, <3>2, <3>3
  <2>7. Now(node'.originals)
    BY <1>3, <2>3, <2>4, <2>6 DEF Remembers, NoOriginal
  <2>8. Now(saved.originals)
    BY <2>1, <2>3, <2>6 DEF Remembers
  <2> QED
    BY <1>6, <2>1, <2>7, <2>8
<1>11. CASE v \notin {"enable", "restore"}
  <2>1. kernel'.forwarding = k
    BY <1>1, <1>2, <1>11, EffectForwarding
  <2>2. \A o : Remembers(o) => Now(o)
    BY <2>1 DEF Remembers
  <2>3. CASE v \in {"down", "exit"}
    <3>1. node'.originals = m
      BY <1>1, <1>2, <2>3, NotedFacts DEF Reloaded
    <3> QED
      BY <1>4, <1>5, <1>6, <2>2, <2>3, <3>1
  <2>4. CASE v = "write"
    <3>1. node'.originals = n
      BY <1>1, <1>2, <2>4, NotedFacts
    <3>2. saved'.originals = n
      BY <2>4 DEF Run, Saved, c
    <3> QED
      BY <1>3, <1>6, <2>2, <3>1, <3>2
  <2>5. CASE v \notin {"down", "exit", "write"}
    <3>1. node'.originals = n
      BY <1>1, <1>2, <1>11, <2>5, NotedFacts
    <3> QED
      BY <1>3, <1>5, <1>6, <1>7, <2>2, <2>5, <3>1
  <2> QED
    BY <2>3, <2>4, <2>5
<1> QED
  BY <1>9, <1>10, <1>11

(* Each command brings the interface nearer to the peers in view.          *)
LEMMA RunPeers ==
  ASSUME HostIInv, Run
  PROVE  PeersOk'
<1> DEFINE c == Head(todo)
           v == c[1]
<1>1. /\ c \in Commands /\ c = todo[1] /\ v = Verb(todo, 1) /\ kernel' = Effect(c, kernel)
      /\ node' = Noted(c, node) /\ Cmds(todo) = {c} \cup Cmds(todo')
      /\ "setup" \notin Verbs(todo') /\ todo' \in Seq(Commands) /\ Len(todo) > 0
      /\ Len(todo) \in Nat
  BY RunFacts
<1>2. HostType /\ kernel \in Kernels /\ node \in NodeStates /\ PeersOk
  BY DEF HostIInv, HostType
<1>3. /\ v \notin {"down", "exit"} =>
           node'.up = node.up /\ node'.peers = IF v = "peers" THEN c[2] ELSE node.peers
      /\ v \in {"down", "exit"} => ~node'.up
  BY <1>1, <1>2, NotedFacts
<1>4. v # "setup" => tainted' = tainted
  BY DEF Run
<1>5. v = "setup" <=> "setup" \in Verbs(todo)
  <2>1. v \in Verbs(todo)
    BY <1>1 DEF Verbs
  <2>2. \A d \in Cmds(todo') : d[1] # "setup"
    <3>1. \A i \in 1 .. Len(todo') : Verb(todo', i) # "setup"
      BY <1>1 DEF Verbs, Verb
    <3> QED
      BY <3>1 DEF Cmds, Verb
  <2>3. \A i \in 1 .. Len(todo) : todo[i] \in Cmds(todo)
    BY CmdVerb
  <2>4. \A i \in 1 .. Len(todo) : Verb(todo, i) = "setup" => v = "setup"
    BY <1>1, <2>2, <2>3 DEF Verb
  <2> QED
    BY <2>1, <2>4 DEF Verbs
<1> DEFINE Up2 == {x \in HostPeers : <<"upsert", x>> \in Cmds(todo')}
           Rm2 == {x \in HostPeers : <<"remove", x>> \in Cmds(todo')}
           Toward(target) ==
             /\ \A P : <<"peers", P>> \in Cmds(todo') => P = target
             /\ (\A P \in SUBSET HostPeers : <<"peers", P>> \notin Cmds(todo')) =>
                  node'.peers = target
             /\ Up2 \cap Rm2 = {}
             /\ (kernel'.peers \ Rm2) \cup Up2 = target
             /\ <<"routes", 0>> \in Cmds(todo') \/ kernel'.routes = target
<1>6. SUFFICES ASSUME node'.up, ~tainted'
               PROVE  \E target \in SUBSET HostPeers : Toward(target)
  BY <1>1 DEF PeersOk, Heading, Upserts, Removes, Verbs, Verb, Cmds
<1>7. v \notin {"down", "exit"} /\ node.up /\ c = <<v, c[2]>>
  BY <1>1, <1>3, <1>6, <1>2, CommandKinds DEF NodeStates
<1>8. CASE v = "setup"
  <2>1. /\ "peers" \notin Verbs(todo) /\ Upserts(todo) = node.peers /\ Removes(todo) = {}
        /\ <<"routes", 0>> \in Cmds(todo)
    BY <1>2, <1>5, <1>8 DEF PeersOk
  <2>2. kernel'.peers = {}
    BY <1>1, <1>2, <1>8, EffectPeers DEF Touches
  <2>3. \A P : <<"peers", P>> \notin Cmds(todo')
    BY <1>1, <2>1, CmdVerb
  <2>4. Up2 = node.peers /\ Rm2 = {} /\ <<"routes", 0>> \in Cmds(todo')
    BY <1>1, <1>7, <1>8, <2>1 DEF Upserts, Removes
  <2>5. node'.peers = node.peers /\ node.peers \in SUBSET HostPeers
    BY <1>2, <1>3, <1>7, <1>8 DEF NodeStates
  <2>6. Toward(node.peers)
    BY <2>2, <2>3, <2>4, <2>5
  <2> QED
    BY <2>5, <2>6
<1>9. CASE v # "setup"
  <2>1. PICK target \in SUBSET HostPeers : Heading(target)
    BY <1>2, <1>4, <1>5, <1>6, <1>7, <1>9 DEF PeersOk
  <2>2. /\ \A P : <<"peers", P>> \in Cmds(todo) => P = target
        /\ (\A P \in SUBSET HostPeers : <<"peers", P>> \notin Cmds(todo)) => node.peers = target
        /\ Upserts(todo) \cap Removes(todo) = {}
        /\ (kernel.peers \ Removes(todo)) \cup Upserts(todo) = target
        /\ <<"routes", 0>> \in Cmds(todo) \/ kernel.routes = target
    BY <2>1 DEF Heading
  <2>3. /\ \A P : <<"peers", P>> \in Cmds(todo') => P = target
        /\ (\A P \in SUBSET HostPeers : <<"peers", P>> \notin Cmds(todo')) => node'.peers = target
    <3>1. CASE v = "peers"
      <4>1. c[2] = target
        BY <1>1, <1>7, <2>2, <3>1
      <4> QED
        BY <1>1, <1>3, <2>2, <3>1, <4>1
    <3>2. CASE v # "peers"
      <4>1. \A P : <<"peers", P>> \in Cmds(todo) <=> <<"peers", P>> \in Cmds(todo')
        <5>1. \A P : <<"peers", P>> # c
          BY <3>2
        <5> QED
          BY <1>1, <5>1
      <4>2. node'.peers = node.peers
        BY <1>3, <1>7, <3>2
      <4> QED
        BY <2>2, <4>1, <4>2
    <3> QED
      BY <3>1, <3>2
  <2>4. v \in {"upsert", "remove"} => c[2] \in HostPeers
    BY <1>1, CommandKinds
  <2>5. /\ Upserts(todo) = IF v = "upsert" THEN {c[2]} \cup Up2 ELSE Up2
        /\ Removes(todo) = IF v = "remove" THEN {c[2]} \cup Rm2 ELSE Rm2
    BY <1>1, <1>7, <2>4 DEF Upserts, Removes
  <2> HIDE DEF Up2, Rm2
  <2>6. Up2 \cap Rm2 = {}
    BY <2>2, <2>5
  <2>7. CASE v = "upsert"
    <3>1. kernel'.peers = kernel.peers \cup {c[2]} /\ kernel'.routes = kernel.routes
      BY <1>1, <1>2, <2>7, EffectPeers DEF Touches
    <3>2. (kernel'.peers \ Rm2) \cup Up2 = target
      BY <2>2, <2>5, <2>7, <3>1
    <3>3. <<"routes", 0>> \in Cmds(todo') \/ kernel'.routes = target
      BY <1>1, <1>7, <2>2, <2>7, <3>1
    <3> QED
      BY <2>3, <2>6, <3>2, <3>3
  <2>8. CASE v = "remove"
    <3>1. kernel'.peers = kernel.peers \ {c[2]} /\ kernel'.routes = kernel.routes
      BY <1>1, <1>2, <2>8, EffectPeers DEF Touches
    <3>2. (kernel'.peers \ Rm2) \cup Up2 = target
      BY <2>2, <2>5, <2>8, <3>1
    <3>3. <<"routes", 0>> \in Cmds(todo') \/ kernel'.routes = target
      BY <1>1, <1>7, <2>2, <2>8, <3>1
    <3> QED
      BY <2>3, <2>6, <3>2, <3>3
  <2>9. CASE v = "routes"
    <3>1. kernel'.peers = kernel.peers /\ kernel'.routes = kernel.peers
      BY <1>1, <1>2, <2>9, EffectPeers DEF Touches
    <3>2. \A i \in 1 .. Len(todo') : Verb(todo', i) \notin {"upsert", "remove"}
      <4>1. \A i \in 1 .. Len(todo') : i + 1 \in 1 .. Len(todo) /\ Verb(todo', i) = Verb(todo, i + 1)
        BY RunFacts
      <4>2. Ordered(todo) /\ 1 \in 1 .. Len(todo)
        BY <1>1 DEF HostIInv, ProgramOk
      <4>3. \A i \in 1 .. Len(todo') : 1 < i + 1
        OBVIOUS
      <4> QED
        BY <1>1, <2>9, <4>1, <4>2, <4>3 DEF Ordered
    <3>3. \A d \in Cmds(todo') : d[1] \notin {"upsert", "remove"}
      BY <3>2 DEF Cmds, Verb
    <3>4. Up2 = {} /\ Rm2 = {}
      BY <3>3 DEF Up2, Rm2
    <3>5. kernel.peers = target
      BY <2>2, <2>5, <2>9, <3>4
    <3> QED
      BY <2>3, <2>6, <3>1, <3>4, <3>5
  <2>10. CASE v \notin {"upsert", "remove", "routes"}
    <3>1. kernel'.peers = kernel.peers /\ kernel'.routes = kernel.routes
      <4>1. CASE v \in Chained
        BY <1>1, <1>2, <1>7, <4>1, EffectChains
      <4>2. CASE v \notin Chained
        <5>1. v \notin Touches \cup Chained
          BY <1>7, <1>9, <2>10, <4>2 DEF Touches
        <5> QED
          BY <1>1, <1>2, <5>1, EffectRest
      <4> QED
        BY <4>1, <4>2
    <3>2. (kernel'.peers \ Rm2) \cup Up2 = target
      BY <2>2, <2>5, <2>10, <3>1
    <3>3. <<"routes", 0>> \in Cmds(todo') \/ kernel'.routes = target
      BY <1>1, <1>7, <2>2, <2>10, <3>1
    <3> QED
      BY <2>3, <2>6, <3>2, <3>3
  <2> QED
    BY <2>7, <2>8, <2>9, <2>10
<1> QED
  BY <1>8, <1>9

LEMMA RunKeeps ==
  ASSUME HostIInv, Run
  PROVE  HostIInv'
BY RunType, RunChains, RunForwarding, RunPeers DEF HostIInv

-----------------------------------------------------------------------------
(* Programs that end an operation: no step of install(), nothing about the *)
(* peers, no sysctl.                                                       *)
EndVerbs == {"unstage", "aclOff", "rulesOff", "down", "exit", "error"}

LEMMA FailKeeps ==
  ASSUME HostIInv, Fail, FaultsSpare
  PROVE  HostIInv'
<1> DEFINE c == Head(todo)
           v == c[1]
           first == CASE v \in {"new", "fill", "jump"} -> <<Do("unstage")>>
                      [] v = "aclOn" -> <<Do("aclOff")>> [] OTHER -> <<>>
           final == <<Do("error")>>
<1>1. /\ todo # <<>> /\ todo \in Seq(Commands) /\ v \in FailAt /\ todo' = first \o undo \o final
      /\ tainted' = TRUE /\ UNCHANGED <<kernel, host0, node, saved, undo, guarded>>
  BY DEF Fail, Idle, HostIInv, HostType
<1>2. c = todo[1] /\ v = Verb(todo, 1) /\ Len(todo) > 0 /\ Len(todo) \in Nat
  BY <1>1, PopIndex DEF Verb
<1>3. v \notin {"rename", "enable", "routed", "write"}
  BY <1>1 DEF FaultsSpare
<1>4. first \in Seq(Commands) /\ Verbs(first) \subseteq EndVerbs
  <2>1. /\ <<Do("unstage")>> \in Seq(Commands) /\ Verbs(<<Do("unstage")>>) = {"unstage"}
        /\ <<Do("aclOff")>> \in Seq(Commands) /\ Verbs(<<Do("aclOff")>>) = {"aclOff"}
    BY PlainCommand DEF PlainVerbs, ChainSteps
  <2>2. <<>> \in Seq(Commands) /\ Verbs(<<>>) = {}
    BY DEF Verbs
  <2>3. first \in {<<Do("unstage")>>, <<Do("aclOff")>>, <<>>}
    OBVIOUS
  <2> HIDE DEF first
  <2>4. CASE first = <<Do("unstage")>>
    BY <2>1, <2>4 DEF EndVerbs
  <2>5. CASE first = <<Do("aclOff")>>
    BY <2>1, <2>5 DEF EndVerbs
  <2>6. CASE first = <<>>
    BY <2>2, <2>6 DEF EndVerbs
  <2> QED
    BY <2>3, <2>4, <2>5, <2>6
<1>5. undo \in Seq(Commands) /\ Verbs(undo) \subseteq EndVerbs
  BY DEF HostIInv, HostType, ProgramOk, EndVerbs
<1>6. final \in Seq(Commands) /\ Verbs(final) \subseteq EndVerbs
  BY PlainCommand DEF PlainVerbs, ChainSteps, EndVerbs
<1> HIDE DEF first, final
<1>7. first \o undo \in Seq(Commands) /\ Verbs(first \o undo) \subseteq EndVerbs
  BY <1>4, <1>5, ConcatIndex, ConcatCmds
<1>8. todo' \in Seq(Commands) /\ Verbs(todo') \subseteq EndVerbs
  <2>1. todo' = (first \o undo) \o final
    BY <1>1
  <2> QED
    BY <1>6, <1>7, <2>1, ConcatIndex, ConcatCmds
<1>9. Fresh(todo') /\ Settled(todo') /\ Ordered(todo')
  BY <1>8, PlainPrograms DEF EndVerbs, ChainSteps
<1>10. HostType'
  BY <1>1, <1>8 DEF HostIInv, HostType
<1>11. ProgramOk'
  <2>1. /\ Tidy(todo') /\ Settled(todo') /\ Ordered(todo')
        /\ Verbs(undo') \subseteq {"rulesOff", "down", "exit"}
    BY <1>1, <1>9 DEF HostIInv, ProgramOk, Fresh
  <2> QED
    BY <2>1 DEF ProgramOk, Tidy, Settled, Ordered, Verb, Verbs, Quickly
<1>12. ChainsOk'
  <2>1. \A w \in ChainSteps : ~(HeadIs(w))'
    <3>1. ASSUME NEW w \in ChainSteps, (HeadIs(w))' PROVE FALSE
      <4>1. todo' # <<>> /\ Verb(todo', 1) = w
        BY <3>1 DEF HeadIs, Verb
      <4>2. Len(todo') > 0
        BY <1>8, <4>1
      <4> QED
        BY <1>9, <4>1, <4>2 DEF Fresh
    <3> QED
      BY <3>1
  <2>2. ~HeadIs("rename")
    BY <1>2, <1>3 DEF HeadIs
  <2> QED
    BY <1>1, <2>1, <2>2 DEF HostIInv, ChainsOk, ChainSteps
<1>13. ForwardingOk'
  <2>1. ~WriteIsNext
    BY <1>2, <1>3 DEF WriteIsNext, Quickly
  <2>2. Remembers(node.originals) /\ Remembers(saved.originals)
    BY <2>1 DEF HostIInv, ForwardingOk
  <2> QED
    BY <1>1, <2>2 DEF ForwardingOk, Remembers
<1>14. PeersOk'
  <2>1. "setup" \notin Verbs(todo')
    BY <1>8 DEF EndVerbs
  <2> QED
    BY <1>1, <2>1 DEF PeersOk, Verbs, Verb
<1> QED
  BY <1>10, <1>11, <1>12, <1>13, <1>14 DEF HostIInv

(* An empty program.                                                       *)
LEMMA Empty ==
  /\ <<>> \in Seq(Commands) /\ Verbs(<<>>) = {} /\ Fresh(<<>>) /\ Settled(<<>>) /\ Ordered(<<>>)
  /\ Cmds(<<>>) = {}
<1>1. <<>> \in Seq(Commands) /\ Verbs(<<>>) = {} /\ Cmds(<<>>) = {}
  BY DEF Verbs, Cmds
<1> QED
  BY <1>1, PlainPrograms

LEMMA CrashKeeps ==
  ASSUME HostIInv, Crash, FaultsSpare
  PROVE  HostIInv'
<1>1. /\ todo' = <<>> /\ undo' = <<>> /\ node' = Reloaded
      /\ UNCHANGED <<kernel, host0, saved, guarded, tainted>>
      /\ todo # <<>> => Head(todo)[1] \in CrashAt
  BY DEF Crash, Idle
<1>2. todo # <<>> => /\ Len(todo) > 0 /\ Len(todo) \in Nat
                     /\ Verb(todo, 1) \notin {"rename", "enable", "routed", "write"}
  <2> SUFFICES ASSUME todo # <<>>
               PROVE  /\ Len(todo) > 0 /\ Len(todo) \in Nat
                      /\ Verb(todo, 1) \notin {"rename", "enable", "routed", "write"}
    OBVIOUS
  <2>1. todo \in Seq(Commands)
    BY DEF HostIInv, HostType
  <2>2. Len(todo) > 0 /\ Len(todo) \in Nat /\ Head(todo)[1] = Verb(todo, 1)
    BY <2>1, PopIndex DEF Verb
  <2> QED
    BY <1>1, <2>2 DEF FaultsSpare
<1>3. Reloaded \in NodeStates /\ ~Reloaded.up /\ Reloaded.originals = saved.originals
  BY DEF HostIInv, HostType, Reloaded, NodeStates
<1>4. HostType'
  BY <1>1, <1>3, Empty DEF HostIInv, HostType
<1>5. ProgramOk'
  BY <1>1, Empty DEF ProgramOk, Fresh, Tidy, Settled, Ordered, Verb, Verbs, Quickly
<1>6. ChainsOk'
  <2>1. ~HeadIs("rename")
    BY <1>2 DEF HeadIs
  <2> QED
    BY <1>1, <2>1 DEF HostIInv, ChainsOk, HeadIs
<1>7. ForwardingOk'
  <2>1. ~WriteIsNext
    <3>1. CASE todo = <<>>
      BY <3>1 DEF WriteIsNext
    <3>2. CASE todo # <<>>
      BY <1>2, <3>2 DEF WriteIsNext, Quickly
    <3> QED
      BY <3>1, <3>2
  <2>2. Remembers(saved.originals)
    BY <2>1 DEF HostIInv, ForwardingOk
  <2> QED
    BY <1>1, <1>3, <2>2 DEF ForwardingOk, Remembers
<1>8. PeersOk'
  <2>1. "setup" \notin Verbs(todo') /\ ~node'.up
    BY <1>1, <1>3, Empty
  <2> QED
    BY <2>1 DEF PeersOk, Verbs, Verb
<1> QED
  BY <1>4, <1>5, <1>6, <1>7, <1>8 DEF HostIInv

(* What every operation needs when it begins.                              *)
LEMMA BeginKeeps ==
  ASSUME HostIInv, NEW prog, NEW onError, Begin(prog, onError), Good(prog),
         onError \in Seq(Commands), Verbs(onError) \subseteq {"rulesOff", "down", "exit"},
         node' \in NodeStates, node'.originals = node.originals, PeersOk'
  PROVE  HostIInv'
<1>1. /\ todo = <<>> /\ todo' = prog /\ undo' = onError
      /\ UNCHANGED <<kernel, host0, saved, guarded, tainted>>
  BY DEF Begin, Idle
<1>2. prog \in Seq(Commands) /\ Fresh(prog) /\ Settled(prog) /\ Ordered(prog)
  BY DEF Good
<1>3. HostType'
  BY <1>1, <1>2 DEF HostIInv, HostType
<1>4. ProgramOk'
  <2>1. Tidy(todo') /\ Settled(todo') /\ Ordered(todo') /\ Verbs(undo') \subseteq {"rulesOff", "down", "exit"}
    BY <1>1, <1>2 DEF Fresh
  <2> QED
    BY <2>1 DEF ProgramOk, Tidy, Settled, Ordered, Verb, Verbs, Quickly
<1>5. ChainsOk'
  <2>1. \A w \in ChainSteps : ~(HeadIs(w))'
    <3>1. ASSUME NEW w \in ChainSteps, (HeadIs(w))' PROVE FALSE
      <4>1. todo' # <<>> /\ Verb(todo', 1) = w
        BY <3>1 DEF HeadIs, Verb
      <4>2. Len(prog) > 0 /\ Verb(prog, 1) = w
        BY <1>1, <1>2, <4>1
      <4> QED
        BY <1>2, <4>2 DEF Fresh
    <3> QED
      BY <3>1
  <2>2. ~HeadIs("rename")
    BY <1>1 DEF HeadIs
  <2> QED
    BY <1>1, <2>1, <2>2 DEF HostIInv, ChainsOk, ChainSteps
<1>6. ForwardingOk'
  <2>1. ~WriteIsNext
    BY <1>1 DEF WriteIsNext
  <2>2. Remembers(node.originals) /\ Remembers(saved.originals)
    BY <2>1 DEF HostIInv, ForwardingOk
  <2> QED
    BY <1>1, <2>2 DEF ForwardingOk, Remembers
<1> QED
  BY <1>3, <1>4, <1>5, <1>6 DEF HostIInv

(* Between operations the interface is in step.                            *)
LEMMA IdleInStep ==
  ASSUME HostIInv, todo = <<>>, node.up, ~tainted
  PROVE  kernel.peers = node.peers /\ kernel.routes = node.peers
<1>1. PICK target \in SUBSET HostPeers : Heading(target)
  BY Empty DEF HostIInv, PeersOk
<1>2. Upserts(todo) = {} /\ Removes(todo) = {} /\ Cmds(todo) = {}
  BY Empty DEF Upserts, Removes
<1> QED
  BY <1>1, <1>2 DEF Heading

LEMMA StartKeeps ==
  ASSUME HostIInv, NEW F \in SUBSET Families, NEW failing \in {Do("down"), Do("exit")},
         Start(F, failing)
  PROVE  HostIInv'
<1> DEFINE prog == StartProgram(F)
           onError == <<Do("rulesOff"), failing>>
<1>1. HostType /\ Begin(prog, onError) /\ node' = [node EXCEPT !.up = TRUE]
  BY DEF HostIInv, Start, StartProgram
<1>2. todo' = prog
  BY <1>1 DEF Begin
<1>3. node \in NodeStates /\ node' \in NodeStates /\ node'.originals = node.originals
      /\ node'.peers = node.peers
  BY <1>1 DEF HostType, NodeStates
<1>4. onError \in Seq(Commands) /\ Verbs(onError) \subseteq {"rulesOff", "down", "exit"}
  <2>1. /\ onError \in Seq(Commands) /\ Len(onError) = 2 /\ Verb(onError, 1) = "rulesOff"
        /\ Verb(onError, 2) \in {"down", "exit"}
    BY DEF Do, Commands, PlainVerbs, Verb
  <2>2. \A i \in 1 .. 2 : i \in {1, 2}
    OBVIOUS
  <2> QED
    BY <2>1, <2>2 DEF Verbs
<1>5. /\ Good(prog) /\ Upserts(prog) = node.peers /\ Removes(prog) = {} /\ "peers" \notin Verbs(prog)
      /\ <<"routes", 0>> \in Cmds(prog) /\ "setup" \in Verbs(prog)
  BY <1>1, StartFacts
<1> HIDE DEF prog, onError
<1>6. PeersOk'
  <2>1. /\ "peers" \notin Verbs(todo') /\ Upserts(todo') = node'.peers /\ Removes(todo') = {}
        /\ <<"routes", 0>> \in Cmds(todo') /\ "setup" \in Verbs(todo')
    BY <1>2, <1>3, <1>5
  <2> QED
    BY <2>1 DEF PeersOk, Upserts, Removes, Verbs, Verb, Cmds
<1> QED
  BY <1>1, <1>3, <1>4, <1>5, <1>6, BeginKeeps

LEMMA SyncKeeps ==
  ASSUME HostIInv, NEW P \in SUBSET HostPeers, NEW v \in 0 .. MaxFilter, Sync(P, v)
  PROVE  HostIInv'
<1> DEFINE prog == SyncProgram(P, v)
<1>1. /\ HostType /\ Begin(prog, <<>>) /\ node' = [node EXCEPT !.filter = v] /\ node.up
      /\ v \in Nat
  BY LinuxAssumption DEF HostIInv, Sync, SyncProgram
<1>2. todo = <<>> /\ todo' = prog /\ UNCHANGED <<kernel, tainted>>
  BY <1>1 DEF Begin, Idle
<1>3. /\ node \in NodeStates /\ node' \in NodeStates /\ node'.originals = node.originals
      /\ node'.peers = node.peers
  BY <1>1 DEF HostType, NodeStates
<1>4. /\ Good(prog) /\ Upserts(prog) = P \ node.peers /\ Removes(prog) = node.peers \ P
      /\ "setup" \notin Verbs(prog) /\ <<"routes", 0>> \in Cmds(prog)
      /\ <<"peers", P>> \in Cmds(prog) /\ \A Q : <<"peers", Q>> \in Cmds(prog) => Q = P
  BY <1>1, SyncFacts
<1> HIDE DEF prog
<1>5. PeersOk'
  <2>1. ~tainted => kernel.peers = node.peers
    BY <1>1, <1>2, IdleInStep
  <2>2. /\ Upserts(todo') = P \ node.peers /\ Removes(todo') = node.peers \ P
        /\ "setup" \notin Verbs(todo') /\ <<"routes", 0>> \in Cmds(todo')
        /\ <<"peers", P>> \in Cmds(todo') /\ \A Q : <<"peers", Q>> \in Cmds(todo') => Q = P
    BY <1>2, <1>4
  <2>3. ~tainted => /\ Upserts(todo') \cap Removes(todo') = {}
                    /\ (kernel'.peers \ Removes(todo')) \cup Upserts(todo') = P
    BY <1>2, <2>1, <2>2
  <2>4. ~tainted' => (Heading(P))'
    BY <1>2, <2>2, <2>3 DEF Heading, Upserts, Removes, Cmds
  <2> QED
    BY <2>2, <2>4 DEF PeersOk, Verbs, Verb
<1> QED
  BY <1>1, <1>3, <1>4, <1>5, BeginKeeps, Empty

(* An operation that leaves the peers alone.                               *)
LEMMA PeersStay ==
  ASSUME HostIInv, NEW prog, NEW onError, Begin(prog, onError), UNCHANGED node, node.up,
         Verbs(prog) \cap {"setup", "upsert", "remove", "peers"} = {}
  PROVE  PeersOk'
<1>1. todo = <<>> /\ todo' = prog /\ UNCHANGED <<kernel, tainted, node>>
  BY DEF Begin, Idle
<1>2. ~tainted => kernel.peers = node.peers /\ kernel.routes = node.peers
  BY <1>1, IdleInStep
<1>3. "setup" \notin Verbs(todo') /\ \A d \in Cmds(todo') : d[1] \notin {"upsert", "remove", "peers"}
  BY <1>1, CmdVerb
<1>4. /\ Upserts(todo') = {} /\ Removes(todo') = {} /\ \A P : <<"peers", P>> \notin Cmds(todo')
  BY <1>3 DEF Upserts, Removes
<1>5. ~tainted' => (Heading(node.peers))'
  BY <1>1, <1>2, <1>4 DEF Heading, Upserts, Removes, Cmds
<1>6. node.peers \in SUBSET HostPeers
  BY DEF HostIInv, HostType, NodeStates
<1> QED
  BY <1>1, <1>3, <1>5, <1>6 DEF PeersOk, Verbs, Verb

LEMMA RerouteKeeps ==
  ASSUME HostIInv, NEW F \in SUBSET Families, Reroute(F)
  PROVE  HostIInv'
<1> DEFINE prog == Router(F) \o <<Do("write")>>
           onError == <<Do("rulesOff")>>
<1>1. Begin(prog, onError) /\ UNCHANGED node /\ node.up
  BY DEF Reroute
<1>2. Good(prog) /\ Verbs(prog) \subseteq {"write"} \cup RouterVerbs
  BY RerouteFacts
<1>3. onError \in Seq(Commands) /\ Verbs(onError) \subseteq {"rulesOff", "down", "exit"}
  BY PlainCommand DEF PlainVerbs, ChainSteps
<1> HIDE DEF prog, onError
<1>4. PeersOk'
  BY <1>1, <1>2, PeersStay DEF RouterVerbs, ChainSteps
<1>5. node' \in NodeStates /\ node'.originals = node.originals
  BY <1>1 DEF HostIInv, HostType
<1> QED
  BY <1>1, <1>2, <1>3, <1>4, <1>5, BeginKeeps

LEMMA StopKeeps ==
  ASSUME HostIInv, StopNode
  PROVE  HostIInv'
<1> DEFINE prog == Router({}) \o <<Do("down")>>
<1>1. Begin(prog, <<>>) /\ UNCHANGED node /\ node.up
  BY DEF StopNode
<1>2. Good(prog) /\ Verbs(prog) \subseteq {"down"} \cup RouterVerbs
  BY StopFacts
<1> HIDE DEF prog
<1>3. PeersOk'
  BY <1>1, <1>2, PeersStay DEF RouterVerbs, ChainSteps
<1>4. node' \in NodeStates /\ node'.originals = node.originals
  BY <1>1 DEF HostIInv, HostType
<1> QED
  BY <1>1, <1>2, <1>3, <1>4, BeginKeeps, Empty

(* Whatever command fails and wherever the process stops, as long as the   *)
(* renaming of the new chain and the write that follows a sysctl are       *)
(* spared: an allow-list in force stays a whole one, a family that is not  *)
(* routed has its old sysctl, and the interface has the peers of           *)
(* NodeState (install(), configure_router(), apply_peer_map()).            *)
THEOREM NetworkAlwaysHolds == FaultsSpare => (LinuxSpec => []NetworkInv)
<1> SUFFICES ASSUME FaultsSpare PROVE LinuxSpec => []NetworkInv
  OBVIOUS
<1>1. LinuxInit => HostIInv
  <2> SUFFICES ASSUME LinuxInit PROVE HostIInv
    OBVIOUS
  <2>1. /\ host0 \in [Families -> BOOLEAN]
        /\ kernel = [peers |-> {}, routes |-> {}, acl |-> FALSE, live |-> NoChain,
                     liveJump |-> FALSE, staged |-> NoChain, stagedJump |-> FALSE,
                     accepts |-> FALSE, nat |-> FALSE, forwarding |-> host0]
        /\ node = [peers |-> {}, filter |-> 0, originals |-> [f \in Families |-> NoOriginal],
                   routed |-> {}, up |-> FALSE]
        /\ saved = [peers |-> {}, filter |-> 0, originals |-> [f \in Families |-> NoOriginal]]
        /\ todo = <<>> /\ undo = <<>> /\ guarded = FALSE /\ tainted = FALSE
    BY DEF LinuxInit
  <2>2. NoChain \in Chains
    BY DEF NoChain, Chains
  <2>3. kernel \in Kernels
    BY <2>1, <2>2 DEF Kernels
  <2>4. node \in NodeStates /\ saved \in [peers : SUBSET HostPeers, filter : Nat, originals : Originals]
    BY <2>1 DEF NodeStates, Originals
  <2>5. HostType
    BY <2>1, <2>3, <2>4, Empty DEF HostType
  <2>6. ProgramOk
    BY <2>1, Empty DEF ProgramOk, Fresh
  <2>7. ChainsOk
    BY <2>1 DEF ChainsOk, HeadIs
  <2>8. ForwardingOk
    BY <2>1 DEF ForwardingOk, Remembers, NoOriginal
  <2>9. PeersOk
    BY <2>1, Empty DEF PeersOk
  <2> QED
    BY <2>5, <2>6, <2>7, <2>8, <2>9 DEF HostIInv
<1>2. HostIInv /\ [LinuxNext]_hostVars => HostIInv'
  <2> SUFFICES ASSUME HostIInv, [LinuxNext]_hostVars
               PROVE  HostIInv'
    OBVIOUS
  <2>1. CASE UNCHANGED hostVars
    <3>1. UNCHANGED <<kernel, host0, node, saved, todo, undo, guarded, tainted>>
      BY <2>1 DEF hostVars
    <3>2. HostType' /\ ChainsOk' /\ ForwardingOk'
      BY <3>1 DEF HostIInv, HostType, ChainsOk, HeadIs, ForwardingOk, Remembers, WriteIsNext, Verb,
         Quickly
    <3>3. ProgramOk'
      <4>1. /\ Tidy(todo') /\ Settled(todo') /\ Ordered(todo')
            /\ Verbs(undo') \subseteq {"rulesOff", "down", "exit"}
        BY <3>1 DEF HostIInv, ProgramOk
      <4> QED
        BY <4>1 DEF ProgramOk, Tidy, Settled, Ordered, Verb, Verbs, Quickly
    <3>4. PeersOk'
      <4>1. \A target : Heading(target) => (Heading(target))'
        <5> SUFFICES ASSUME NEW target, Heading(target) PROVE (Heading(target))'
          OBVIOUS
        <5>1. /\ \A P : <<"peers", P>> \in Cmds(todo') => P = target
              /\ (\A P \in SUBSET HostPeers : <<"peers", P>> \notin Cmds(todo')) => node'.peers = target
              /\ Upserts(todo') \cap Removes(todo') = {}
              /\ (kernel'.peers \ Removes(todo')) \cup Upserts(todo') = target
              /\ <<"routes", 0>> \in Cmds(todo') \/ kernel'.routes = target
          BY <3>1 DEF Heading
        <5> QED
          BY <5>1 DEF Heading, Upserts, Removes, Cmds
      <4>2. Verbs(todo') = Verbs(todo) /\ Upserts(todo') = Upserts(todo) /\ Removes(todo') = Removes(todo)
            /\ Cmds(todo') = Cmds(todo) /\ node' = node /\ tainted' = tainted
        BY <3>1
      <4>3. /\ "setup" \in Verbs(todo') =>
                 /\ "peers" \notin Verbs(todo') /\ Upserts(todo') = node'.peers
                 /\ Removes(todo') = {} /\ <<"routes", 0>> \in Cmds(todo')
            /\ node'.up /\ ~tainted' /\ "setup" \notin Verbs(todo') =>
                 \E target \in SUBSET HostPeers : (Heading(target))'
        BY <4>1, <4>2 DEF HostIInv, PeersOk
      <4> QED
        BY <4>3 DEF PeersOk, Upserts, Removes, Verbs, Verb, Cmds
    <3> QED
      BY <3>2, <3>3, <3>4 DEF HostIInv
  <2>2. CASE Run \/ Fail \/ Crash \/ StopNode
    BY <2>2, RunKeeps, FailKeeps, CrashKeeps, StopKeeps
  <2>3. ASSUME NEW F \in SUBSET Families,
               Reroute(F) \/ \E failing \in {Do("down"), Do("exit")} : Start(F, failing)
        PROVE  HostIInv'
    BY <2>3, RerouteKeeps, StartKeeps
  <2>4. ASSUME NEW P \in SUBSET HostPeers, NEW v \in 0 .. MaxFilter, Sync(P, v)
        PROVE  HostIInv'
    BY <2>4, SyncKeeps
  <2> QED
    BY <2>1, <2>2, <2>3, <2>4 DEF LinuxNext
<1>3. HostIInv => NetworkInv
  <2> SUFFICES ASSUME HostIInv PROVE NetworkInv
    OBVIOUS
  <2>1. FilterStaysInForce
    <3>1. guarded => kernel.stagedJump \/ (kernel.liveJump /\ kernel.live.full)
      BY DEF HostIInv, ChainsOk
    <3>2. kernel.stagedJump => kernel.staged.full
      BY DEF HostIInv, ChainsOk
    <3>3. kernel.stagedJump \in BOOLEAN /\ kernel.liveJump \in BOOLEAN
      BY DEF HostIInv, HostType, Kernels
    <3>4. CASE kernel.stagedJump
      BY <3>1, <3>2, <3>4 DEF FilterStaysInForce, InForce
    <3>5. CASE ~kernel.stagedJump
      BY <3>1, <3>5 DEF FilterStaysInForce, InForce
    <3> QED
      BY <3>4, <3>5
  <2>2. ForwardingRestored
    BY DEF HostIInv, ForwardingOk, Remembers, ForwardingRestored
  <2>3. PeersInStep
    BY IdleInStep DEF PeersInStep, Idle
  <2> QED
    BY <2>1, <2>2, <2>3 DEF NetworkInv
<1> QED
  BY <1>1, <1>2, <1>3, PTL DEF LinuxSpec

-----------------------------------------------------------------------------
(* Traffic reports (module Traffic).                                       *)

(* Every nonempty set of numbers has a least element.                      *)
LEMMA LeastNumber ==
  ASSUME NEW T, T \subseteq Nat, T # {}
  PROVE  \E x \in T : \A y \in T : x <= y
<1>1. PICK x \in T : \A y \in T : ~ (<<y, x>> \in OpToRel(<, Nat))
  BY WFMin, NatLessThanWellFounded
<1>2. ASSUME NEW y \in T PROVE x <= y
  <2>1. ~ (y < x)
    BY <1>1, <1>2 DEF OpToRel
  <2> QED
    BY <2>1
<1> QED
  BY <1>2

CapturedRecords == [kind : {"new", "destroy", "drop"}, tuple : Tuples, of : Nat]
FlowEvents == [flow : Nat, kind : {"start", "end", "drop"}, of : Nat]
Converters == [open : [Tuples -> Nat], order : Seq(Tuples), next : Nat]
Conversions ==
  [open : [Tuples -> Nat], order : Seq(Tuples), next : Nat, out : Seq(FlowEvents), dropped : SUBSET Tuples]
SentUploads ==
  [step : {"sent", "checked", "accepted", "off"}, counts : [Counters -> Nat], events : Seq(FlowEvents)]

TrafficTypes ==
  /\ capture \in Seq(CapturedRecords)
  /\ converter \in Converters
  /\ sending = NoUpload \/ sending \in SentUploads
  /\ total \in [Counters -> 0..MaxUnits]
  /\ last \in [Counters -> Nat]
  /\ counted \in [Counters -> Nat]
  /\ reported \in [Counters -> Nat]
  /\ activation \in Nat
  /\ reporting \in BOOLEAN

LEMMA MembersOfRange ==
  ASSUME NEW S, NEW s \in Seq(S)
  PROVE  \A x : x \in Range(s) <=> \E i \in 1..Len(s) : x = s[i]
  BY DEF Range

(* One record converted: a conversion again, of the same activation.       *)
LEMMA ConvertKeeps ==
  ASSUME NEW act, NEW s \in Conversions, NEW r \in CapturedRecords, r.of = act,
         \A i \in 1..Len(s.out) : s.out[i].of = act
  PROVE  /\ Convert(s, r) \in Conversions
         /\ \A i \in 1..Len(Convert(s, r).out) : Convert(s, r).out[i].of = act
<1>1. /\ s.open \in [Tuples -> Nat]
      /\ s.order \in Seq(Tuples)
      /\ s.next \in Nat
      /\ s.out \in Seq(FlowEvents)
      /\ s.dropped \in SUBSET Tuples
      /\ s = [open |-> s.open, order |-> s.order, next |-> s.next, out |-> s.out, dropped |-> s.dropped]
  BY DEF Conversions
<1>2. r.tuple \in Tuples /\ r.of \in Nat /\ r.kind \in {"new", "destroy", "drop"}
  BY DEF CapturedRecords
<1>3. ASSUME NEW e \in FlowEvents, e.of = act
      PROVE  /\ Append(s.out, e) \in Seq(FlowEvents)
             /\ \A i \in 1..Len(Append(s.out, e)) : Append(s.out, e)[i].of = act
  BY <1>1, <1>3
<1>4. CASE r.kind = "new"
  <2> DEFINE full == Cardinality(Opened(s)) >= MAX_OPEN_FLOWS /\ s.order # <<>>
             kept == IF full THEN [s.open EXCEPT ![Head(s.order)] = 0] ELSE s.open
             e == [flow |-> s.next + 1, kind |-> "start", of |-> r.of]
             opened == [kept EXCEPT ![r.tuple] = s.next + 1]
             order == Append(IF full THEN Tail(s.order) ELSE s.order, r.tuple)
  <2>1. Convert(s, r) = [s EXCEPT !.next = @ + 1, !.open = opened,
                                  !.order = order, !.out = Append(@, e)]
    BY <1>4 DEF Convert
  <2>2. e \in FlowEvents /\ e.of = act
    BY <1>1, <1>2 DEF FlowEvents
  <2>3. kept \in [Tuples -> Nat]
    BY <1>1
  <2>4. opened \in [Tuples -> Nat]
    <3> HIDE DEF kept
    <3> QED BY <1>1, <1>2, <2>3
  <2>5. order \in Seq(Tuples)
    <3>1. (IF full THEN Tail(s.order) ELSE s.order) \in Seq(Tuples)
      BY <1>1
    <3> QED
      BY <3>1, <1>2
  <2> HIDE DEF full, kept, e, opened, order
  <2>6. Convert(s, r) = [open |-> opened, order |-> order, next |-> s.next + 1,
                         out |-> Append(s.out, e), dropped |-> s.dropped]
    BY <2>1, <1>1
  <2> DEFINE out == Append(s.out, e)
  <2>7. out \in Seq(FlowEvents) /\ \A i \in 1..Len(out) : out[i].of = act
    BY <1>3, <2>2
  <2> HIDE DEF out
  <2>8. Convert(s, r) = [open |-> opened, order |-> order, next |-> s.next + 1,
                         out |-> out, dropped |-> s.dropped]
    BY <2>6 DEF out
  <2> QED
    BY <1>1, <2>4, <2>5, <2>7, <2>8 DEF Conversions
<1>5. CASE r.kind = "destroy" /\ s.open[r.tuple] = 0
  <2>1. Convert(s, r) = s
    BY <1>5 DEF Convert
  <2> QED
    BY <2>1
<1>6. CASE r.kind = "destroy" /\ s.open[r.tuple] # 0
  <2> DEFINE e == [flow |-> s.open[r.tuple], kind |-> "end", of |-> r.of]
             opened == [s.open EXCEPT ![r.tuple] = 0]
             out == Append(s.out, e)
  <2>1. Convert(s, r) = [s EXCEPT !.open[r.tuple] = 0, !.out = Append(@, e)]
    BY <1>6 DEF Convert
  <2>2. e \in FlowEvents /\ e.of = act
    BY <1>1, <1>2 DEF FlowEvents
  <2>3. opened \in [Tuples -> Nat]
    BY <1>1, <1>2
  <2> HIDE DEF e
  <2>4. Convert(s, r) = [open |-> opened, order |-> s.order, next |-> s.next,
                         out |-> out, dropped |-> s.dropped]
    BY <2>1, <1>1
  <2>5. out \in Seq(FlowEvents) /\ \A i \in 1..Len(out) : out[i].of = act
    BY <1>3, <2>2
  <2> HIDE DEF out, opened
  <2> QED
    BY <1>1, <2>3, <2>4, <2>5 DEF Conversions
<1>7. CASE r.kind = "drop" /\ (r.tuple \in s.dropped \/ Cardinality(s.dropped) >= MAX_DROPS_PER_WINDOW)
  <2>1. Convert(s, r) = s
    BY <1>7 DEF Convert
  <2> QED
    BY <2>1
<1>8. CASE r.kind = "drop" /\ ~(r.tuple \in s.dropped \/ Cardinality(s.dropped) >= MAX_DROPS_PER_WINDOW)
  <2> DEFINE e == [flow |-> s.next + 1, kind |-> "drop", of |-> r.of]
             out == Append(s.out, e)
             dropped == s.dropped \cup {r.tuple}
  <2>1. Convert(s, r) = [s EXCEPT !.next = @ + 1, !.dropped = @ \cup {r.tuple}, !.out = Append(@, e)]
    BY <1>8 DEF Convert
  <2>2. e \in FlowEvents /\ e.of = act
    BY <1>1, <1>2 DEF FlowEvents
  <2> HIDE DEF e
  <2>3. Convert(s, r) = [open |-> s.open, order |-> s.order, next |-> s.next + 1,
                         out |-> out, dropped |-> dropped]
    BY <2>1, <1>1
  <2>4. out \in Seq(FlowEvents) /\ \A i \in 1..Len(out) : out[i].of = act
    BY <1>3, <2>2
  <2>5. dropped \in SUBSET Tuples
    BY <1>1, <1>2
  <2> HIDE DEF out, dropped
  <2> QED
    BY <1>1, <2>3, <2>4, <2>5 DEF Conversions
<1> QED
  BY <1>2, <1>4, <1>5, <1>6, <1>7, <1>8

(* The queue's conversion is a function: it exists for each length.        *)
LEMMA ConvertedSteps ==
  ASSUME capture \in Seq(CapturedRecords)
  PROVE  /\ Converted[0] = [open |-> converter.open, order |-> converter.order,
                            next |-> converter.next, out |-> <<>>, dropped |-> {}]
         /\ \A n \in 1..Len(capture) : Converted[n] = Convert(Converted[n - 1], capture[n])
<1> DEFINE first == [open |-> converter.open, order |-> converter.order,
                     next |-> converter.next, out |-> <<>>, dropped |-> {}]
           Runs(n, g) == g = [k \in 0..n |-> IF k = 0 THEN first ELSE Convert(g[k - 1], capture[k])]
           T == {n \in Nat : ~\E g : Runs(n, g)}
<1>1. T = {}
  <2> SUFFICES ASSUME T # {} PROVE FALSE
    OBVIOUS
  <2>1. PICK n \in T : \A y \in T : n <= y
    <3>1. T \subseteq Nat
      OBVIOUS
    <3> HIDE DEF T
    <3> QED
      BY <3>1, LeastNumber
  <2>2. n \in Nat /\ ~\E g : Runs(n, g)
    OBVIOUS
  <2>3. n # 0
    <3> SUFFICES ASSUME n = 0 PROVE FALSE
      OBVIOUS
    <3> DEFINE g == [k \in 0..0 |-> first]
    <3>1. g = [k \in 0..0 |-> IF k = 0 THEN first ELSE Convert(g[k - 1], capture[k])]
      <4> HIDE DEF first
      <4>1. \A k \in 0..0 : k = 0
        OBVIOUS
      <4> QED
        BY <4>1
    <3> HIDE DEF g, first
    <3>2. Runs(0, g)
      BY <3>1
    <3> QED
      BY <3>2, <2>2
  <2>4. n - 1 \in Nat /\ ~(n - 1 \in T)
    <3> HIDE DEF T, Runs
    <3> QED
      BY <2>1, <2>2, <2>3
  <2>5. PICK g : Runs(n - 1, g)
    BY <2>4
  <2> DEFINE h == [k \in 0..n |-> IF k = n THEN Convert(g[n - 1], capture[n]) ELSE g[k]]
  <2> HIDE DEF first
  <2>6. \A k \in 0..(n - 1) : g[k] = IF k = 0 THEN first ELSE Convert(g[k - 1], capture[k])
    BY <2>5
  <2>7. ASSUME NEW k \in 0..n
        PROVE  h[k] = IF k = 0 THEN first ELSE Convert(h[k - 1], capture[k])
    <3>1. CASE k = n
      <4>1. h[k] = Convert(g[n - 1], capture[n]) /\ h[n - 1] = g[n - 1]
        BY <3>1, <2>2, <2>3
      <4> QED
        BY <4>1, <3>1, <2>3
    <3>2. CASE k # n
      <4>1. k \in 0..(n - 1) /\ h[k] = g[k]
        BY <3>2, <2>2, <2>7
      <4>2. CASE k = 0
        BY <4>1, <4>2, <2>6
      <4>3. CASE k # 0
        <5>1. k - 1 \in 0..n /\ k - 1 # n
          BY <4>1, <4>3, <2>2
        <5>2. h[k - 1] = g[k - 1]
          BY <5>1
        <5> QED
          BY <4>1, <4>3, <5>2, <2>6
      <4> QED
        BY <4>2, <4>3
    <3> QED
      BY <3>1, <3>2
  <2>8. h = [k \in 0..n |-> h[k]]
    OBVIOUS
  <2> HIDE DEF h
  <2>9. Runs(n, h)
    BY <2>7, <2>8
  <2> QED
    BY <2>9, <2>2
<1>2. Len(capture) \in Nat
  OBVIOUS
<1>3. \E g : Runs(Len(capture), g)
  BY <1>1, <1>2
<1>4. Converted = CHOOSE g : Runs(Len(capture), g)
  BY DEF Converted
<1>5. Runs(Len(capture), Converted)
  <2> HIDE DEF Runs
  <2> QED
    BY <1>3, <1>4
<1> HIDE DEF first
<1>6. \A n \in 0..Len(capture) : Converted[n] = IF n = 0 THEN first ELSE Convert(Converted[n - 1], capture[n])
  BY <1>5
<1>7. Converted[0] = first
  BY <1>2, <1>6
<1>8. \A n \in 1..Len(capture) : Converted[n] = Convert(Converted[n - 1], capture[n])
  BY <1>2, <1>6
<1> QED
  BY <1>7, <1>8 DEF first

(* A drained queue: a conversion whose events are of the queue's records.  *)
LEMMA DrainedEvents ==
  ASSUME capture \in Seq(CapturedRecords), converter \in Converters, NEW act,
         \A r \in Range(capture) : r.of = act
  PROVE  /\ Drained \in Conversions
         /\ \A i \in 1..Len(Drained.out) : Drained.out[i].of = act
<1> DEFINE Sound(n) == /\ Converted[n] \in Conversions
                      /\ \A i \in 1..Len(Converted[n].out) : Converted[n].out[i].of = act
           T == {n \in 0..Len(capture) : ~Sound(n)}
<1>1. Len(capture) \in Nat
  OBVIOUS
<1>2. Sound(0)
  <2>1. Converted[0] = [open |-> converter.open, order |-> converter.order,
                        next |-> converter.next, out |-> <<>>, dropped |-> {}]
    BY ConvertedSteps
  <2>2. converter.open \in [Tuples -> Nat] /\ converter.order \in Seq(Tuples) /\ converter.next \in Nat
    BY DEF Converters
  <2> QED
    BY <2>1, <2>2 DEF Conversions
<1>3. ASSUME NEW n \in 1..Len(capture), Sound(n - 1) PROVE Sound(n)
  <2>1. Converted[n] = Convert(Converted[n - 1], capture[n])
    BY ConvertedSteps
  <2>2. capture[n] \in CapturedRecords /\ capture[n].of = act
    BY <1>1, MembersOfRange
  <2> DEFINE s == Converted[n - 1]
             r == capture[n]
  <2>3. s \in Conversions /\ \A i \in 1..Len(s.out) : s.out[i].of = act
    BY <1>3
  <2> HIDE DEF s, r
  <2>4. /\ Convert(s, r) \in Conversions
        /\ \A i \in 1..Len(Convert(s, r).out) : Convert(s, r).out[i].of = act
    BY <2>2, <2>3, ConvertKeeps DEF r
  <2> QED
    BY <2>1, <2>4 DEF s, r
<1> HIDE DEF Sound
<1>4. T = {}
  <2> SUFFICES ASSUME T # {} PROVE FALSE
    OBVIOUS
  <2>1. T \subseteq Nat
    BY <1>1
  <2>2. PICK n \in T : \A y \in T : n <= y
    <3> HIDE DEF T
    <3> QED
      BY <2>1, LeastNumber
  <2>3. n \in 1..Len(capture)
    BY <1>1, <1>2, <2>2
  <2>4. Sound(n - 1)
    BY <1>1, <2>2, <2>3
  <2> QED
    BY <1>3, <2>3, <2>4
<1>5. Sound(Len(capture))
  BY <1>1, <1>4
<1> QED
  BY <1>5 DEF Sound, Drained

(* What an upload that is not stored yet would add to the chain's count,   *)
(* and what the counters read next would.                                  *)
Pending == IF sending.step \in {"sent", "checked"} THEN sending.counts["chain"] ELSE 0
ChainAccounted ==
  "chain" \in Counters =>
    /\ reported["chain"] + Pending <= counted["chain"]
    /\ reporting => /\ last["chain"] <= MaxUnits
                    /\ reported["chain"] + Pending + Delta("chain") <= counted["chain"]

(* The inductive invariant of the reports.                                 *)
TrafficIInv == TrafficTypes /\ NothingCarriedOver /\ ChainAccounted

LEMMA TrafficInitially == TrafficInit => TrafficIInv
<1> SUFFICES ASSUME TrafficInit PROVE TrafficIInv
  OBVIOUS
<1> USE DEF TrafficInit
<1>0. MaxUnits \in Nat
  BY TrafficAssumption
<1>1. converter \in Converters
  BY DEF EmptyConverter, Converters
<1>2. TrafficTypes
  <2>1. Unknown \in Nat
    BY <1>0 DEF Unknown
  <2>2. last \in [Counters -> Nat]
    BY <2>1
  <2>3. total \in [Counters -> 0..MaxUnits]
    BY <1>0
  <2>4. capture \in Seq(CapturedRecords)
    OBVIOUS
  <2> QED
    BY <1>1, <2>2, <2>3, <2>4 DEF TrafficTypes
<1>3. NothingCarriedOver
  BY DEF NothingCarriedOver, Idling, NoUpload, Range
<1>4. ChainAccounted
  BY DEF ChainAccounted, Pending, NoUpload
<1> QED
  BY <1>2, <1>3, <1>4 DEF TrafficIInv

(* The steps, by what they leave alone.                                    *)
LEMMA TrafficKeepsTypes ==
  ASSUME TrafficIInv, TrafficNext
  PROVE  TrafficTypes'
<1> USE DEF TrafficIInv
<1>0. MaxUnits \in Nat /\ Unknown \in Nat
  BY TrafficAssumption DEF Unknown
<1>1. EmptyConverter \in Converters
  BY DEF EmptyConverter, Converters
<1>2. NoUpload.step = "idle" /\ (~Idling => sending \in SentUploads)
  BY DEF NoUpload, Idling, TrafficTypes
<1>3. CASE PutTrafficSettings \/ DeleteRecords
  BY <1>3 DEF PutTrafficSettings, DeleteRecords, TrafficTypes, agentSide, kernelSide
<1>4. CASE RebuildChain
  BY <1>0, <1>4 DEF RebuildChain, TrafficTypes, agentSide
<1>5. ASSUME NEW c \in Counters, Traverse(c) PROVE TrafficTypes'
  <2>1. total[c] + 1 \in 0..MaxUnits /\ counted[c] + 1 \in Nat
    BY <1>0, <1>5 DEF Traverse, TrafficTypes
  <2> QED
    BY <1>5, <2>1 DEF Traverse, TrafficTypes
<1>6. ASSUME NEW t \in Tuples, NEW kind \in {"new", "destroy", "drop"}, KernelRecord(kind, t)
      PROVE  TrafficTypes'
  <2> DEFINE r == [kind |-> kind, tuple |-> t, of |-> activation]
  <2>1. r \in CapturedRecords
    BY DEF CapturedRecords, TrafficTypes
  <2> HIDE DEF r
  <2>2. Pushed(r) \in Seq(CapturedRecords)
    <3>1. (IF Len(capture) >= MAX_QUEUED THEN Tail(capture) ELSE capture) \in Seq(CapturedRecords)
      <4>1. CASE capture = <<>>
        <5>1. ~(Len(capture) >= MAX_QUEUED)
          BY <4>1, TrafficAssumption
        <5> QED
          BY <5>1 DEF TrafficTypes
      <4>2. CASE capture # <<>>
        BY <4>2 DEF TrafficTypes
      <4> QED
        BY <4>1, <4>2
    <3> QED
      BY <3>1, <2>1 DEF Pushed
  <2>3. capture' = IF reporting THEN Pushed(r) ELSE capture
    BY <1>6 DEF KernelRecord, r
  <2>4. capture' \in Seq(CapturedRecords)
    BY <2>2, <2>3 DEF TrafficTypes
  <2> QED
    BY <1>6, <2>4 DEF KernelRecord, TrafficTypes
<1>7. CASE StartReporting
  <2>1. last' \in [Counters -> Nat]
    BY <1>0, <1>7 DEF StartReporting, Baseline, TrafficTypes
  <2> QED
    BY <1>0, <1>1, <1>7, <2>1 DEF StartReporting, TrafficTypes, kernelSide
<1>a. ASSUME Discard PROVE capture' \in Seq(CapturedRecords) /\ last' \in [Counters -> Nat]
  <2>1. capture' = <<>> /\ last' = [c \in Counters |-> Unknown]
    BY <1>a DEF Discard
  <2>2. [c \in Counters |-> Unknown] \in [Counters -> Nat]
    BY <1>0
  <2> QED
    BY <2>1, <2>2
<1>8. CASE StopReporting
  BY <1>1, <1>8, <1>a DEF StopReporting, Discard, TrafficTypes, kernelSide
<1>9. CASE LearnOptIn
  BY <1>9 DEF LearnOptIn, TrafficTypes, kernelSide
<1>10. CASE SendCounts
  <2>1. [c \in Counters |-> Delta(c)] \in [Counters -> Nat]
    BY <1>0 DEF Delta, TrafficTypes
  <2>2. sending' \in SentUploads
    BY <1>10, <2>1 DEF SendCounts, SentUploads
  <2>3. last' \in [Counters -> Nat]
    BY <1>0, <1>10 DEF SendCounts, TrafficTypes
  <2> QED
    BY <1>10, <2>2, <2>3 DEF SendCounts, TrafficTypes, kernelSide
<1>11. CASE SendEvents
  <2>0. \A r \in Range(capture) : r.of = activation
    BY DEF NothingCarriedOver
  <2>1. Drained \in Conversions
    BY <2>0, DrainedEvents DEF TrafficTypes
  <2>2. /\ Drained.open \in [Tuples -> Nat]
        /\ Drained.order \in Seq(Tuples)
        /\ Drained.next \in Nat
        /\ Drained.out \in Seq(FlowEvents)
    BY <2>1 DEF Conversions
  <2> DEFINE n == IF Len(Drained.out) < MAX_BATCH THEN Len(Drained.out) ELSE MAX_BATCH
  <2>3. n \in Nat /\ n <= Len(Drained.out)
    BY <2>2, TrafficAssumption
  <2>4. SubSeq(Drained.out, 1, n) \in Seq(FlowEvents)
    <3> HIDE DEF n
    <3> QED
      BY <2>2, <2>3
  <2>5. sending' = NoUpload \/ sending' \in SentUploads
    BY <1>11, <2>4 DEF SendEvents, SentUploads
  <2>6. converter' \in Converters
    BY <1>11, <2>2 DEF SendEvents, Converters
  <2>7. capture' \in Seq(CapturedRecords)
    BY <1>11 DEF SendEvents
  <2> QED
    BY <1>11, <2>5, <2>6, <2>7 DEF SendEvents, TrafficTypes, kernelSide
<1>12. CASE IngestCheck
  <2>1. sending \in SentUploads
    BY <1>2, <1>12 DEF IngestCheck, Idling
  <2>2. sending' \in SentUploads
    BY <2>1, <1>12 DEF IngestCheck, Refuse, SentUploads
  <2> QED
    BY <1>12, <2>2 DEF IngestCheck, TrafficTypes, agentSide, kernelSide
<1>13. CASE IngestCommit
  <2>1. sending \in SentUploads
    BY <1>2, <1>13 DEF IngestCommit, Idling
  <2>2. sending' \in SentUploads
    BY <2>1, <1>13 DEF IngestCommit, Refuse, SentUploads
  <2>3. sending.counts \in [Counters -> Nat]
    BY <2>1 DEF SentUploads
  <2>4. reported' \in [Counters -> Nat]
    <3> DEFINE sums == [c \in Counters |-> reported[c] + sending.counts[c]]
    <3>1. reported \in [Counters -> Nat]
      BY DEF TrafficTypes
    <3>2. \A c \in Counters : reported[c] + sending.counts[c] \in Nat
      BY <2>3, <3>1
    <3>3. sums \in [Counters -> Nat]
      BY <3>2
    <3>4. reported' = sums \/ reported' = reported
      BY <1>13 DEF IngestCommit
    <3> QED
      BY <3>1, <3>3, <3>4
  <2> QED
    BY <1>13, <2>2, <2>4 DEF IngestCommit, TrafficTypes, agentSide, kernelSide
<1>14. CASE UploadAnswered
  <2>1. CASE sending.step = "off"
    BY <1>1, <1>14, <1>a, <2>1 DEF UploadAnswered, Discard, TrafficTypes, kernelSide
  <2>2. CASE sending.step # "off"
    BY <1>14, <2>2 DEF UploadAnswered, TrafficTypes, kernelSide
  <2> QED
    BY <2>1, <2>2
<1>15. CASE UploadLost
  BY <1>15 DEF UploadLost, TrafficTypes, agentSide, kernelSide
<1> QED
  BY <1>3, <1>4, <1>5, <1>6, <1>7, <1>8, <1>9, <1>10, <1>11, <1>12, <1>13, <1>14, <1>15 DEF TrafficNext

(* Nothing of before the activation is queued or in flight.                *)
LEMMA TrafficCarriesNothingOver ==
  ASSUME TrafficIInv, TrafficNext
  PROVE  NothingCarriedOver'
<1> USE DEF TrafficIInv
<1>0. TrafficTypes'
  BY TrafficKeepsTypes
<1>1. Range(<<>>) = {}
  BY DEF Range
<1>2. NoUpload.step = "idle" /\ (~Idling => sending \in SentUploads)
  BY DEF NoUpload, Idling, TrafficTypes
<1>3. CASE PutTrafficSettings \/ DeleteRecords \/ RebuildChain \/ LearnOptIn
  BY <1>3 DEF PutTrafficSettings, DeleteRecords, RebuildChain, LearnOptIn, NothingCarriedOver, Idling,
              agentSide, kernelSide
<1>4. ASSUME NEW c \in Counters, Traverse(c) PROVE NothingCarriedOver'
  BY <1>4 DEF Traverse, NothingCarriedOver, Idling
<1>5. ASSUME NEW t \in Tuples, NEW kind \in {"new", "destroy", "drop"}, KernelRecord(kind, t)
      PROVE  NothingCarriedOver'
  <2> DEFINE r == [kind |-> kind, tuple |-> t, of |-> activation]
             base == IF Len(capture) >= MAX_QUEUED THEN Tail(capture) ELSE capture
  <2>1. capture' = IF reporting THEN Append(base, r) ELSE capture
    BY <1>5 DEF KernelRecord, Pushed
  <2>2. r.of = activation /\ r \in CapturedRecords
    BY DEF CapturedRecords, TrafficTypes
  <2>3. base \in Seq(CapturedRecords) /\ \A i \in 1..Len(base) : \E j \in 1..Len(capture) : base[i] = capture[j]
    <3>1. CASE capture = <<>>
      <4>1. ~(Len(capture) >= MAX_QUEUED)
        BY <3>1, TrafficAssumption
      <4>2. base = capture
        BY <4>1
      <4> QED
        BY <3>1, <4>2
    <3>2. CASE capture # <<>>
      <4>1. capture \in Seq(CapturedRecords)
        BY DEF TrafficTypes
      <4>2. /\ Tail(capture) \in Seq(CapturedRecords)
            /\ Len(Tail(capture)) = Len(capture) - 1
            /\ \A i \in 1..Len(Tail(capture)) : Tail(capture)[i] = capture[i + 1]
        BY <3>2, <4>1
      <4>3. Len(capture) \in Nat
        BY <4>1
      <4>4. \A i \in 1..Len(Tail(capture)) : i + 1 \in 1..Len(capture)
        BY <4>2, <4>3
      <4> QED
        BY <4>1, <4>2, <4>4
    <3> QED
      BY <3>1, <3>2
  <2> HIDE DEF r, base
  <2>4. ASSUME reporting, NEW x \in Range(capture') PROVE x.of = activation
    <3>1. capture' = Append(base, r)
      BY <2>1, <2>4
    <3>2. PICK i \in 1..Len(Append(base, r)) : x = Append(base, r)[i]
      <4> DEFINE s == Append(base, r)
      <4>1. s \in Seq(CapturedRecords)
        BY <2>2, <2>3
      <4>2. x \in Range(s)
        BY <3>1, <2>4
      <4> HIDE DEF s
      <4>3. \E i \in 1..Len(s) : x = s[i]
        BY <4>1, <4>2, MembersOfRange
      <4> QED
        BY <4>3 DEF s
    <3>3. CASE i = Len(base) + 1
      BY <3>2, <3>3, <2>2, <2>3
    <3>4. CASE i # Len(base) + 1
      <4>1. i \in 1..Len(base) /\ x = base[i]
        BY <3>2, <3>4, <2>2, <2>3
      <4>2. PICK j \in 1..Len(capture) : x = capture[j]
        BY <4>1, <2>3
      <4>3. x \in Range(capture)
        BY <4>2, MembersOfRange DEF TrafficTypes
      <4> QED
        BY <4>3 DEF NothingCarriedOver
    <3> QED
      BY <3>3, <3>4
  <2>5. /\ reporting' = reporting
        /\ activation' = activation
        /\ sending' = sending
    BY <1>5 DEF KernelRecord
  <2>6. \A x \in Range(capture') : reporting' /\ x.of = activation'
    <3>1. CASE reporting
      BY <2>4, <2>5, <3>1
    <3>2. CASE ~reporting
      BY <2>1, <2>5, <3>2 DEF NothingCarriedOver
    <3> QED
      BY <3>1, <3>2
  <2> QED
    BY <2>5, <2>6 DEF NothingCarriedOver, Idling
<1>6. CASE StartReporting
  BY <1>1, <1>6 DEF StartReporting, NothingCarriedOver, Idling
<1>7. CASE StopReporting
  BY <1>1, <1>7 DEF StopReporting, Discard, NothingCarriedOver, Idling
<1>8. CASE SendCounts
  BY <1>1, <1>8 DEF SendCounts, NothingCarriedOver, Idling, kernelSide
<1>9. CASE SendEvents
  <2>0. \A r \in Range(capture) : r.of = activation
    BY DEF NothingCarriedOver
  <2>1. Drained \in Conversions /\ \A i \in 1..Len(Drained.out) : Drained.out[i].of = activation
    BY <2>0, DrainedEvents DEF TrafficTypes
  <2> DEFINE out == Drained.out
             n == IF Len(out) < MAX_BATCH THEN Len(out) ELSE MAX_BATCH
  <2>2. out \in Seq(FlowEvents)
    BY <2>1 DEF Conversions
  <2>3. n \in Nat /\ n <= Len(out)
    BY <2>2, TrafficAssumption
  <2>4. capture' = <<>> /\ activation' = activation /\ reporting' = reporting
    BY <1>9 DEF SendEvents
  <2>5. sending' = NoUpload \/ sending'.events = SubSeq(out, 1, n)
    BY <1>9 DEF SendEvents
  <2>6. \A i \in 1..Len(out) : out[i].of = activation
    BY <2>1
  <2> HIDE DEF n, out
  <2>7. ASSUME NEW e \in Range(SubSeq(out, 1, n)) PROVE e.of = activation
    <3>1. /\ SubSeq(out, 1, n) \in Seq(FlowEvents)
          /\ Len(SubSeq(out, 1, n)) = n
          /\ \A i \in 1..n : SubSeq(out, 1, n)[i] = out[i]
      BY <2>2, <2>3
    <3>2. PICK i \in 1..n : e = out[i]
      <4> DEFINE s == SubSeq(out, 1, n)
      <4>1. s \in Seq(FlowEvents) /\ e \in Range(s)
        BY <3>1, <2>7
      <4> HIDE DEF s
      <4>2. \E i \in 1..Len(s) : e = s[i]
        BY <4>1, MembersOfRange
      <4> QED
        BY <3>1, <4>2 DEF s
    <3> QED
      BY <3>2, <2>2, <2>3, <2>6
  <2>8. (sending'.step = "idle") \/ \A e \in Range(sending'.events) : e.of = activation'
    BY <1>2, <2>4, <2>5, <2>7
  <2> QED
    BY <1>1, <2>4, <2>8 DEF NothingCarriedOver, Idling
<1>10. CASE IngestCheck
  <2>1. sending \in SentUploads /\ ~Idling
    BY <1>2, <1>10 DEF IngestCheck, Idling
  <2>2. sending'.events = sending.events
    BY <2>1, <1>10 DEF IngestCheck, Refuse, SentUploads
  <2> QED
    BY <2>1, <2>2, <1>10 DEF IngestCheck, NothingCarriedOver, agentSide
<1>11. CASE IngestCommit
  <2>1. sending \in SentUploads /\ ~Idling
    BY <1>2, <1>11 DEF IngestCommit, Idling
  <2>2. sending'.events = sending.events
    BY <2>1, <1>11 DEF IngestCommit, Refuse, SentUploads
  <2> QED
    BY <2>1, <2>2, <1>11 DEF IngestCommit, NothingCarriedOver, agentSide
<1>12. CASE UploadAnswered
  BY <1>1, <1>2, <1>12 DEF UploadAnswered, Discard, NothingCarriedOver, Idling
<1>13. CASE UploadLost
  BY <1>2, <1>13 DEF UploadLost, NothingCarriedOver, Idling, agentSide
<1> QED
  BY <1>3, <1>4, <1>5, <1>6, <1>7, <1>8, <1>9, <1>10, <1>11, <1>12, <1>13 DEF TrafficNext

(* The chain's units are accounted for once.                               *)
LEMMA TrafficKeepsAccount ==
  ASSUME TrafficIInv, TrafficNext
  PROVE  ChainAccounted'
<1> USE DEF TrafficIInv
<1>0. MaxUnits \in Nat /\ Unknown = MaxUnits + 1
  BY TrafficAssumption DEF Unknown
<1> SUFFICES ASSUME "chain" \in Counters
             PROVE  /\ reported'["chain"] + Pending' <= counted'["chain"]
                    /\ reporting' => /\ last'["chain"] <= MaxUnits
                                     /\ reported'["chain"] + Pending' + Delta("chain")' <= counted'["chain"]
  BY DEF ChainAccounted
<1>1. /\ total["chain"] \in 0..MaxUnits
      /\ last["chain"] \in Nat
      /\ counted["chain"] \in Nat
      /\ reported["chain"] \in Nat
  BY DEF TrafficTypes
<1>2. NoUpload.step = "idle" /\ (~Idling => sending \in SentUploads)
  BY DEF NoUpload, Idling, TrafficTypes
<1>3. Pending \in Nat /\ (sending.step \in {"idle", "accepted", "off"} => Pending = 0)
  BY <1>2 DEF Pending, SentUploads, Idling
<1>4. Delta("chain") \in Nat
  BY <1>0, <1>1 DEF Delta
<1>5. /\ reported["chain"] + Pending <= counted["chain"]
      /\ reporting => /\ last["chain"] <= MaxUnits
                      /\ reported["chain"] + Pending + Delta("chain") <= counted["chain"]
  BY DEF ChainAccounted
<1>6. reporting => Delta("chain") = IF total["chain"] >= last["chain"] THEN total["chain"] - last["chain"]
                                    ELSE total["chain"]
  BY <1>0, <1>1, <1>5 DEF Delta
<1>7. CASE PutTrafficSettings \/ DeleteRecords \/ LearnOptIn
  BY <1>5, <1>7 DEF PutTrafficSettings, DeleteRecords, LearnOptIn, Pending, Delta, agentSide, kernelSide
<1>8. CASE RebuildChain
  <2>1. total'["chain"] = 0 /\ last' = last /\ Pending' = Pending
    BY <1>8 DEF RebuildChain, agentSide, Pending, TrafficTypes
  <2>2. Delta("chain")' = 0
    <3>1. Delta("chain")' = IF last["chain"] # Unknown /\ 0 >= last["chain"] THEN 0 - last["chain"] ELSE 0
      BY <2>1 DEF Delta
    <3> QED
      BY <3>1, <1>1
  <2> QED
    BY <1>1, <1>3, <1>5, <1>8, <2>1, <2>2 DEF RebuildChain, agentSide
<1>9. ASSUME NEW c \in Counters, Traverse(c)
      PROVE  /\ reported'["chain"] + Pending' <= counted'["chain"]
             /\ reporting' => /\ last'["chain"] <= MaxUnits
                              /\ reported'["chain"] + Pending' + Delta("chain")' <= counted'["chain"]
  <2>1. Pending' = Pending /\ last' = last /\ reported' = reported /\ reporting' = reporting
    BY <1>9 DEF Traverse, Pending
  <2>2. CASE c # "chain"
    <3>1. total'["chain"] = total["chain"] /\ counted'["chain"] = counted["chain"]
      BY <1>9, <2>2 DEF Traverse, TrafficTypes
    <3>2. Delta("chain")' = Delta("chain")
      BY <3>1, <2>1 DEF Delta
    <3> QED
      BY <1>5, <2>1, <3>1, <3>2
  <2>3. CASE c = "chain"
    <3>1. /\ total'["chain"] = total["chain"] + 1
          /\ counted'["chain"] = IF reporting THEN counted["chain"] + 1 ELSE counted["chain"]
      BY <1>9, <2>3 DEF Traverse, TrafficTypes
    <3>2. reporting => Delta("chain")' <= Delta("chain") + 1 /\ Delta("chain")' \in Nat
      <4>1. reporting => Delta("chain")' = IF total["chain"] + 1 >= last["chain"] THEN total["chain"] + 1 - last["chain"]
                                           ELSE total["chain"] + 1
        BY <1>0, <1>1, <1>5, <2>1, <3>1 DEF Delta
      <4> QED
        BY <4>1, <1>1, <1>6
    <3> QED
      BY <1>1, <1>3, <1>4, <1>5, <2>1, <3>1, <3>2
  <2> QED
    BY <2>2, <2>3
<1>10. ASSUME NEW t \in Tuples, NEW kind \in {"new", "destroy", "drop"}, KernelRecord(kind, t)
       PROVE  /\ reported'["chain"] + Pending' <= counted'["chain"]
              /\ reporting' => /\ last'["chain"] <= MaxUnits
                               /\ reported'["chain"] + Pending' + Delta("chain")' <= counted'["chain"]
  BY <1>5, <1>10 DEF KernelRecord, Pending, Delta
<1>11. CASE StartReporting
  <2>1. /\ last'["chain"] = total["chain"]
        /\ total' = total
        /\ reported'["chain"] = 0
        /\ counted'["chain"] = 0
    BY <1>11 DEF StartReporting, Baseline, kernelSide
  <2>2. Pending' = 0
    BY <1>11 DEF StartReporting, Idling, Pending
  <2>3. Delta("chain")' = 0
    BY <1>0, <1>1, <2>1 DEF Delta
  <2> QED
    BY <1>1, <2>1, <2>2, <2>3
<1>12. CASE StopReporting
  BY <1>5, <1>12 DEF StopReporting, Discard, Pending
<1>13. CASE SendCounts
  <2>1. Pending = 0
    BY <1>3, <1>13 DEF SendCounts, Idling
  <2>2. Pending' = Delta("chain")
    BY <1>13 DEF SendCounts, Pending
  <2>3. last' = total /\ total' = total /\ reported' = reported /\ counted' = counted /\ reporting
    BY <1>13 DEF SendCounts, kernelSide
  <2>4. Delta("chain")' = 0
    BY <1>0, <1>1, <2>3 DEF Delta
  <2> QED
    BY <1>1, <1>4, <1>5, <2>1, <2>2, <2>3, <2>4
<1>14. CASE SendEvents
  <2>1. Pending = 0
    BY <1>3, <1>14 DEF SendEvents, Idling
  <2>2. Pending' = 0
    <3>1. CASE sending' = NoUpload
      BY <1>2, <3>1 DEF Pending
    <3>2. CASE sending' # NoUpload
      <4>1. sending'.counts = [c \in Counters |-> 0]
        BY <1>14, <3>2 DEF SendEvents
      <4> QED
        BY <4>1 DEF Pending
    <3> QED
      BY <3>1, <3>2
  <2>3. Delta("chain")' = Delta("chain")
    BY <1>14 DEF SendEvents, Delta, kernelSide
  <2> QED
    BY <1>5, <1>14, <2>1, <2>2, <2>3 DEF SendEvents
<1>15. CASE IngestCheck
  <2>1. sending \in SentUploads
    BY <1>2, <1>15 DEF IngestCheck, Idling
  <2>2. sending'.counts = sending.counts /\ sending'.step \in {"checked", "off"}
    BY <2>1, <1>15 DEF IngestCheck, Refuse, SentUploads
  <2>3. Pending' \in Nat /\ Pending' <= Pending
    <3>1. Pending = sending.counts["chain"]
      BY <1>15 DEF IngestCheck, Pending
    <3> QED
      BY <1>3, <2>2, <3>1 DEF Pending
  <2>4. Delta("chain")' = Delta("chain")
    BY <1>15 DEF IngestCheck, Delta, agentSide, kernelSide
  <2> QED
    BY <1>1, <1>3, <1>4, <1>5, <1>15, <2>3, <2>4 DEF IngestCheck, agentSide
<1>16. CASE IngestCommit
  <2>1. sending \in SentUploads
    BY <1>2, <1>16 DEF IngestCommit, Idling
  <2>2. Pending = sending.counts["chain"]
    BY <1>16 DEF IngestCommit, Pending
  <2>3. sending'.step \in {"accepted", "off"}
    BY <2>1, <1>16 DEF IngestCommit, Refuse, SentUploads
  <2>4. Pending' = 0
    BY <2>3 DEF Pending
  <2>5. reported'["chain"] \in Nat /\ reported'["chain"] <= reported["chain"] + Pending
    BY <1>1, <1>3, <1>16, <2>2 DEF IngestCommit
  <2>6. Delta("chain")' = Delta("chain")
    BY <1>16 DEF IngestCommit, Delta, agentSide, kernelSide
  <2> QED
    BY <1>1, <1>3, <1>4, <1>5, <1>16, <2>4, <2>5, <2>6 DEF IngestCommit, agentSide
<1>17. CASE UploadAnswered
  <2>1. Pending = 0 /\ Pending' = 0
    BY <1>2, <1>3, <1>17 DEF UploadAnswered, Pending
  <2>2. CASE sending.step = "off"
    BY <1>5, <1>17, <2>1, <2>2 DEF UploadAnswered, Discard
  <2>3. CASE sending.step # "off"
    <3>1. Delta("chain")' = Delta("chain")
      BY <1>17, <2>3 DEF UploadAnswered, Delta, kernelSide
    <3> QED
      BY <1>5, <1>17, <2>1, <2>3, <3>1 DEF UploadAnswered
  <2> QED
    BY <2>2, <2>3
<1>18. CASE UploadLost
  <2>1. Pending' = 0
    BY <1>2, <1>18 DEF UploadLost, Pending
  <2>2. Delta("chain")' = Delta("chain")
    BY <1>18 DEF UploadLost, Delta, agentSide, kernelSide
  <2> QED
    BY <1>1, <1>3, <1>4, <1>5, <1>18, <2>1, <2>2 DEF UploadLost, agentSide
<1> QED
  BY <1>7, <1>8, <1>9, <1>10, <1>11, <1>12, <1>13, <1>14, <1>15, <1>16, <1>17, <1>18 DEF TrafficNext

LEMMA TrafficAlwaysIInv ==
  TrafficSpec => []TrafficIInv
<1>1. TrafficIInv /\ [TrafficNext]_trafficVars => TrafficIInv'
  <2> SUFFICES ASSUME TrafficIInv, [TrafficNext]_trafficVars PROVE TrafficIInv'
    OBVIOUS
  <2>1. CASE TrafficNext
    BY <2>1, TrafficKeepsTypes, TrafficCarriesNothingOver, TrafficKeepsAccount DEF TrafficIInv
  <2>2. CASE UNCHANGED trafficVars
    BY <2>2 DEF trafficVars, TrafficIInv, TrafficTypes, NothingCarriedOver, Idling, ChainAccounted, Pending,
                Delta
  <2> QED
    BY <2>1, <2>2
<1> QED
  BY <1>1, TrafficInitially, PTL DEF TrafficSpec

(* Traffic reports at any time, for any number of connections, records,    *)
(* uploads, losses and switches: what is sent was captured since reporting *)
(* last started, the buckets of an activation never exceed what its chain  *)
(* counted, and nothing is stored while the organisation has opted out.    *)
THEOREM TrafficAlwaysHolds ==
  TrafficSpec => TrafficHolds
<1>1. TrafficIInv => NothingCarriedOver /\ ChainNeverOverReported
  <2> SUFFICES ASSUME TrafficIInv, "chain" \in Counters PROVE reported["chain"] <= counted["chain"]
    BY DEF TrafficIInv, ChainNeverOverReported
  <2>1. Pending \in Nat
    BY DEF Pending, TrafficIInv, TrafficTypes, NoUpload, SentUploads
  <2> QED
    BY <2>1 DEF TrafficIInv, TrafficTypes, ChainAccounted
<1> DEFINE Stored == (~optIn) => flowRows' \subseteq flowRows /\ \A c \in Counters : reported'[c] <= reported[c]
<1>2. TrafficIInv /\ [TrafficNext]_trafficVars => [Stored]_trafficVars
  <2> SUFFICES ASSUME TrafficIInv, TrafficNext, ~optIn
               PROVE  flowRows' \subseteq flowRows /\ \A c \in Counters : reported'[c] <= reported[c]
    OBVIOUS
  <2>1. reported \in [Counters -> Nat]
    BY DEF TrafficIInv, TrafficTypes
  <2>2. CASE StartReporting
    BY <2>1, <2>2 DEF StartReporting
  <2>3. CASE DeleteRecords
    BY <2>1, <2>3 DEF DeleteRecords
  <2>4. CASE IngestCommit
    BY <2>1, <2>4 DEF IngestCommit, StillOptedIn
  <2>5. CASE ~StartReporting /\ ~DeleteRecords /\ ~IngestCommit
    <3>1. flowRows' = flowRows /\ reported' = reported
      BY <2>5 DEF TrafficNext, PutTrafficSettings, RebuildChain, Traverse, KernelRecord, StopReporting,
                  LearnOptIn, SendCounts, SendEvents, IngestCheck, UploadAnswered, UploadLost
    <3> QED
      BY <2>1, <3>1
  <2> QED
    BY <2>2, <2>3, <2>4, <2>5
<1> HIDE DEF Stored
<1>3. TrafficSpec => [][Stored]_trafficVars
  BY <1>2, TrafficAlwaysIInv, PTL DEF TrafficSpec
<1> QED
  BY <1>1, <1>3, TrafficAlwaysIInv, PTL DEF TrafficHolds, OptOutStopsIngest, Stored
=============================================================================
