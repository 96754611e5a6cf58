----------------------------- MODULE MCServers ------------------------------
(***************************************************************************)
(* Instances of what the coordinator keeps in its database under           *)
(* concurrent requests: enrolment, the agent gateway's ledger, hardware    *)
(* pins, routes, the audit chain, the documents and the schema itself.     *)
(*                                                                         *)
(* The components share no state at this level, so `focus` picks, once and *)
(* for all, the one whose steps a behaviour shows; the others stay as they *)
(* started.                                                                *)
(***************************************************************************)
EXTENDS Enrolment, AgentGateway, PostureHardware, Routes, AuditChain, Documents, Schema

VARIABLE focus

serversVars == <<enrolVars, agwVars, hwVars, routeVars, auditVars, documentVars, schemaVars, focus>>

ServersInit ==
  /\ focus \in {"enrolment", "gateway", "hardware", "routes", "audit", "documents", "schema"}
  /\ EnrolInit /\ AgwInit /\ HardwareInit /\ RoutesInit /\ AuditInit /\ DocsInit /\ SchemaInit
  /\ focus # "gateway" => agKey.quota = CHOOSE q \in RequestQuotas : TRUE
  /\ focus # "schema" => backend = "sqlite" /\ userVersion = 0

ServersNext ==
  \/ /\ focus = "enrolment" /\ EnrolNext
     /\ UNCHANGED <<agwVars, hwVars, routeVars, auditVars, documentVars, schemaVars, focus>>
  \/ /\ focus = "gateway" /\ AgwNext
     /\ UNCHANGED <<enrolVars, hwVars, routeVars, auditVars, documentVars, schemaVars, focus>>
  \/ /\ focus = "hardware" /\ HardwareNext
     /\ UNCHANGED <<enrolVars, agwVars, routeVars, auditVars, documentVars, schemaVars, focus>>
  \/ /\ focus = "routes" /\ RoutesNext
     /\ UNCHANGED <<enrolVars, agwVars, hwVars, auditVars, documentVars, schemaVars, focus>>
  \/ /\ focus = "audit" /\ AuditNext
     /\ UNCHANGED <<enrolVars, agwVars, hwVars, routeVars, documentVars, schemaVars, focus>>
  \/ /\ focus = "documents" /\ DocsNext
     /\ UNCHANGED <<enrolVars, agwVars, hwVars, routeVars, auditVars, schemaVars, focus>>
  \/ /\ focus = "schema" /\ SchemaNext
     /\ UNCHANGED <<enrolVars, agwVars, hwVars, routeVars, auditVars, documentVars, focus>>

ServersSpec == ServersInit /\ [][ServersNext]_serversVars

(* Devices that enrol, and requests, are interchangeable.                  *)
ServersSymmetry == Permutations(Names) \cup Permutations(Requests)
(* Two disjoint prefixes and one that holds both.                          *)
NestedPrefixes == {{1}, {2}, {1, 2}}
(* Three devices of an old database, two of them with the same name.       *)
NamesBefore == <<"a", "b", "a">>
=============================================================================
