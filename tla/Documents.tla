----------------------------- MODULE Documents -----------------------------
(***************************************************************************)
(* The control documents of one organisation (access policy, DNS, network  *)
(* resources) and the requests that publish them directly: put_acl and     *)
(* put_dns (blaktail-coord/src/lib.rs, their Admin API twins in admin.rs)  *)
(* and the resource writers (resources.rs).                                *)
(*                                                                         *)
(* The store is PostgreSQL at READ COMMITTED.  bump_control_revision takes *)
(* the lock of the organisation's row, so a transaction that bumps before  *)
(* it reads is one step here; put_dns reads before it locks and is two.    *)
(* (On SQLite the pool has one connection and transactions never overlap.) *)
(* A rollback publishes an earlier document: it is one more choice of the  *)
(* document.  Validators only refuse.                                      *)
(***************************************************************************)
EXTENDS Integers

CONSTANTS
  Procs,          \* requests in flight
  Surfaces,       \* the documents: a subset of policy, dns, resources
  Docs,           \* contents a document may have
  InitialDoc,     \* the content of every document at first
  KeepRevisions,  \* KEEP_REVISIONS of dns_workspace.rs
  MaxControl      \* bound on the control revision

ASSUME DocAssumption ==
  /\ Surfaces \subseteq {"policy", "dns", "resources"}
  /\ InitialDoc \in Docs
ASSUME KeepAssumption == KeepRevisions \in Nat \ {0} /\ MaxControl \in Nat

VARIABLES
  doc,            \* doc[s]: the published content
  rev,            \* rev[s]: its revision
  hist,           \* org_dns_revisions: content by revision
  control,        \* orgs.control_revision
  match,          \* match[p]: the policy whose etag p will send as If-Match
  fetched,        \* fetched[p]: the revision it was read at, 0: no If-Match
  reading         \* reading[p]: the DNS revision p's transaction read, 0: none

docVars == <<doc, rev, hist, control>>
putVars == <<match, fetched, reading>>
documentVars == <<docVars, putVars>>

DocsInit ==
  /\ doc = [s \in Surfaces |-> InitialDoc]
  /\ rev = [s \in Surfaces |-> 1]
  /\ hist = [r \in {} |-> InitialDoc]
  /\ control = 0
  /\ match = [p \in Procs |-> InitialDoc]
  /\ fetched = [p \in Procs |-> 0]
  /\ reading = [p \in Procs |-> 0]

(* bump_control_revision().                                                *)
Bump == control < MaxControl /\ control' = control + 1

-----------------------------------------------------------------------------
(* GET of the policy: its etag is a hash of the content alone.             *)
FetchAcl(p) ==
  /\ "policy" \in Surfaces
  /\ match' = [match EXCEPT ![p] = doc["policy"]]
  /\ fetched' = [fetched EXCEPT ![p] = rev["policy"]]
  /\ UNCHANGED <<docVars, reading>>

(* put_acl(): lock, compare the etag if one was sent, publish_acl_tx().    *)
PutAcl(p, d) ==
  /\ "policy" \in Surfaces
  /\ Bump
  /\ fetched[p] = 0 \/ match[p] = doc["policy"]
  /\ doc' = [doc EXCEPT !["policy"] = d]
  /\ rev' = [rev EXCEPT !["policy"] = @ + 1]
  /\ fetched' = [fetched EXCEPT ![p] = 0]
  /\ UNCHANGED <<hist, match, reading>>

(* ... and 412 otherwise; the transaction is rolled back.                  *)
RefuseAcl(p) ==
  /\ "policy" \in Surfaces
  /\ fetched[p] # 0 /\ match[p] # doc["policy"]
  /\ fetched' = [fetched EXCEPT ![p] = 0]
  /\ UNCHANGED <<docVars, match, reading>>

(* put_dns() up to its first write: the current row is read, and an etag   *)
(* that was sent is compared with it, without a lock.                      *)
ReadDns(p) ==
  /\ "dns" \in Surfaces
  /\ reading[p] = 0
  /\ reading' = [reading EXCEPT ![p] = rev["dns"]]
  /\ UNCHANGED <<docVars, match, fetched>>

(* Mutant: the history row is replaced when its key exists already.        *)
RecordRevisionUpsert(r, d) ==
  hist' = [k \in {i \in DOMAIN hist \cup {r} : i + KeepRevisions > r} |->
             IF k = r THEN d ELSE hist[k]]

(* Mutant: the history gets the document that is being replaced.           *)
RecordRevisionSwapped(r, d) ==
  /\ r \notin DOMAIN hist
  /\ hist' = [k \in {i \in DOMAIN hist \cup {r} : i + KeepRevisions > r} |->
                IF k = r THEN doc["dns"] ELSE hist[k]]

(* record_revision(): a duplicate (org_id, revision) fails the transaction *)
(* (it is the table's primary key); old rows are pruned.                   *)
RecordRevision(r, d) ==
  /\ r \notin DOMAIN hist
  /\ hist' = [k \in {i \in DOMAIN hist \cup {r} : i + KeepRevisions > r} |->
                IF k = r THEN d ELSE hist[k]]

(* put_dns() from write_org_dns_tx() to the commit.  The UPDATE waits for  *)
(* the row lock but does not look at dns_revision again.                   *)
WriteDns(p, d) ==
  /\ "dns" \in Surfaces
  /\ reading[p] # 0
  /\ doc' = [doc EXCEPT !["dns"] = d]
  /\ rev' = [rev EXCEPT !["dns"] = reading[p] + 1]
  /\ RecordRevision(reading[p] + 1, d)
  /\ Bump
  /\ reading' = [reading EXCEPT ![p] = 0]
  /\ UNCHANGED <<match, fetched>>

(* The request is refused or fails and its transaction is rolled back.     *)
FailDns(p) ==
  /\ reading[p] # 0
  /\ reading' = [reading EXCEPT ![p] = 0]
  /\ UNCHANGED <<docVars, match, fetched>>

(* create, update and delete of resources.rs lock first, then compare the  *)
(* resource's etag and write.                                              *)
WriteResources(d) ==
  /\ "resources" \in Surfaces
  /\ Bump
  /\ doc' = [doc EXCEPT !["resources"] = d]
  /\ rev' = [rev EXCEPT !["resources"] = @ + 1]
  /\ UNCHANGED <<hist, putVars>>

Writes ==
  \/ \E p \in Procs : ReadDns(p) \/ FailDns(p)
  \/ \E p \in Procs, d \in Docs : PutAcl(p, d) \/ WriteDns(p, d)
  \/ \E d \in Docs : WriteResources(d)

DocsNext ==
  \/ Writes
  \/ \E p \in Procs : FetchAcl(p) \/ RefuseAcl(p)

DocsSpec == DocsInit /\ [][DocsNext]_documentVars

-----------------------------------------------------------------------------
(* Every variable has its type.                                            *)
DocsTypeOK ==
  /\ doc \in [Surfaces -> Docs]
  /\ rev \in [Surfaces -> Nat \ {0}]
  /\ DOMAIN hist \subseteq Nat
  /\ \A r \in DOMAIN hist : hist[r] \in Docs
  /\ control \in Nat
  /\ match \in [Procs -> Docs]
  /\ fetched \in [Procs -> Nat]
  /\ reading \in [Procs -> Nat]

(* The kept history ends with the document in force, so a reader who diffs *)
(* against it or rolls back (put_dns "rollback_to") works from what is     *)
(* published.                                                              *)
HistoryEndsWithCurrent ==
  rev["dns"] # 1 => /\ rev["dns"] \in DOMAIN hist
                    /\ hist[rev["dns"]] = doc["dns"]

(* "Each successful publish increments revision": a DNS publish builds on  *)
(* the revision in force, so none is overwritten by a request that did not *)
(* see it, although put_dns reads before it locks.                         *)
DnsBuildsOnLatest ==
  [][doc'["dns"] # doc["dns"] \/ rev'["dns"] # rev["dns"] =>
       rev'["dns"] = rev["dns"] + 1]_documentVars

(* The DNS document and its history agree at any time.                     *)
DocsInv == DocsTypeOK /\ HistoryEndsWithCurrent
=============================================================================
