------------------------------ MODULE MCDevice ------------------------------
(***************************************************************************)
(* Instances of what runs on one host: the kernel's peers, routes and      *)
(* filters, traffic records, the file server, the host's DNS settings and  *)
(* a reload of configuration on a device, and the relay on its server.     *)
(*                                                                         *)
(* The components share no state at this level, so `focus` picks, once and *)
(* for all, the one whose steps a behaviour shows; the others stay as they *)
(* started.                                                                *)
(***************************************************************************)
EXTENDS LinuxNetwork, Traffic, ShareFiles, HostDns, ConfigReload, RelayHub, TLC

CONSTANTS udp1, w1, w2, ip1, ip2, ip3

VARIABLE focus

deviceVars == <<hostVars, trafficVars, fileVars, hostDnsVars, configVars, hubVars, focus>>

DeviceInit ==
  /\ focus \in {"linux", "traffic", "files", "resolver", "config", "relay"}
  /\ focus # "linux" => host0 = [f \in Families |-> FALSE]
  /\ focus # "resolver" => managed = FALSE /\ tool = CHOOSE t \in Tools : TRUE
  /\ LinuxInit /\ TrafficInit /\ FilesInit /\ HostDnsInit /\ ConfigInit /\ HubInit
  /\ focus # "files" => tree["a"] = Old /\ tree["d"] = Folder

DeviceNext ==
  \/ /\ focus = "linux" /\ LinuxNext
     /\ UNCHANGED <<trafficVars, fileVars, hostDnsVars, configVars, hubVars, focus>>
  \/ /\ focus = "traffic" /\ TrafficNext
     /\ UNCHANGED <<hostVars, fileVars, hostDnsVars, configVars, hubVars, focus>>
  \/ /\ focus = "files" /\ FilesNext
     /\ UNCHANGED <<hostVars, trafficVars, hostDnsVars, configVars, hubVars, focus>>
  \/ /\ focus = "resolver" /\ HostDnsNext
     /\ UNCHANGED <<hostVars, trafficVars, fileVars, configVars, hubVars, focus>>
  \/ /\ focus = "config" /\ ConfigNext
     /\ UNCHANGED <<hostVars, trafficVars, fileVars, hostDnsVars, hubVars, focus>>
  \/ /\ focus = "relay" /\ HubNext
     /\ UNCHANGED <<hostVars, trafficVars, fileVars, hostDnsVars, configVars, focus>>

DeviceSpec == DeviceInit /\ [][DeviceNext]_deviceVars
-----------------------------------------------------------------------------
(* A drive with two files, a folder and a link out of it, each name with    *)
(* the temporary name an upload to it is written under.                    *)
DrivePaths == {"a", "b", "ap", "d", "dp", "dx", "dxp", "l", "lp", "ly", "lyp"}
DriveParent ==
  [i \in DrivePaths |-> IF i \in {"dx", "dxp"} THEN "d" ELSE IF i \in {"ly", "lyp"} THEN "l" ELSE Root]
DrivePart ==
  [i \in DrivePaths |-> CASE i \in {"a", "b", "ap"} -> "ap" [] i \in {"d", "dp"} -> "dp"
                          [] i \in {"dx", "dxp"} -> "dxp" [] i \in {"l", "lp"} -> "lp" [] OTHER -> "lyp"]

(* A UDP address and two WebSocket connections behind three IPs.           *)
AddrIps == udp1 :> ip1 @@ w1 :> ip2 @@ w2 :> ip3
=============================================================================
