----------------------------- MODULE AuditChain -----------------------------
(***************************************************************************)
(* One organisation's audit log: rows chained by hash under the            *)
(* organisation's row lock, purged by age, verified and exported in pages  *)
(* while writers go on (blaktail-coord/src/audit_log.rs; append_audit and  *)
(* purge_expired_audit in lib.rs).                                         *)
(*                                                                         *)
(* A hash is the tuple it is computed over (SHA-256 is taken to be         *)
(* injective).  Verifier and exporter read outside any transaction, so     *)
(* each of their SELECTs is a step of its own; they do not disturb each    *)
(* other, so a behaviour has one verification or one export.  Tamper is    *)
(* somebody with write access to the table, which is what the chain is     *)
(* there to show.                                                          *)
(***************************************************************************)
EXTENDS Naturals, FiniteSets, FiniteSetsExt, Sequences, SequencesExt

CONSTANTS
  EventIds,         \* event ids, numbers because exports order by them
  VERIFY_PAGE, EXPORT_PAGE, MAX_EXPORT_ROWS, RETENTION,
  MaxAuditClock,    \* bound on the clock
  MaxTampers        \* bound on tampering

ASSUME AuditAssumption ==
  /\ EventIds \subseteq Nat /\ RETENTION \in Nat \ {0}
  /\ {VERIFY_PAGE, EXPORT_PAGE, MAX_EXPORT_ROWS} \subseteq Nat \ {0} /\ MaxAuditClock \in Nat

VARIABLES
  composed,         \* writers between now() and the lock: event -> created_at
  log,              \* audit_events: sequence number -> row
  head,             \* orgs.audit_chain_seq, audit_chain_head
  written,          \* every row ever committed, in chain order (history)
  verifier, exporter,
  auditClock, tampers

auditVars == <<composed, log, head, written, verifier, exporter, auditClock, tampers>>

NoHash == << >>
Unused == [step |-> "idle"]

AuditInit ==
  /\ composed = << >> /\ log = << >> /\ written = << >>
  /\ head = [seq |-> 0, hash |-> NoHash]
  /\ verifier = Unused /\ exporter = Unused
  /\ auditClock = 0 /\ tampers = 0

Forget(f, S) == [x \in DOMAIN f \ S |-> f[x]]
With(f, x, v) == [y \in DOMAIN f \cup {x} |-> IF y = x THEN v ELSE f[y]]

-----------------------------------------------------------------------------
ChainHash(prev, seq, body) == <<prev, seq, body>>

(* append_audit(): the entry is dated before the organisation is locked.   *)
Compose(e) ==
  /\ e \notin DOMAIN composed /\ \A k \in DOMAIN written : written[k].body.id # e
  /\ composed' = With(composed, e, auditClock)
  /\ UNCHANGED <<log, head, written, verifier, exporter, auditClock, tampers>>

(* insert_chained(): sequence number, head and row change in one           *)
(* transaction that holds the organisation's row lock from its first       *)
(* statement on.                                                           *)
InsertChained(e) ==
  LET seq == head.seq + 1
      body == [id |-> e, at |-> composed[e]]
      row == [body |-> body, prev |-> head.hash, hash |-> ChainHash(head.hash, seq, body)]
  IN /\ log' = With(log, seq, row) /\ written' = Append(written, row)
     /\ head' = [seq |-> seq, hash |-> row.hash]

AppendAudit(e) ==
  /\ e \in DOMAIN composed
  /\ InsertChained(e)
  /\ composed' = Forget(composed, {e})
  /\ UNCHANGED <<verifier, exporter, auditClock, tampers>>

(* purge_expired_audit(): by date, not by place in the chain.              *)
Expired(rows) == {k \in DOMAIN rows : rows[k].body.at + RETENTION < auditClock}

-----------------------------------------------------------------------------
(* verify_chain(): the head first, then the rows page by page.             *)
VerifyHead ==
  /\ verifier.step = "idle" /\ exporter.step = "idle"
  /\ verifier' = [step |-> "reading", head |-> head, read |-> << >>, ok |-> TRUE]
  /\ UNCHANGED <<composed, log, head, written, exporter, auditClock, tampers>>

(* Mutant: links between rows are not compared.                            *)
ChecksUnlinked(rows, k) ==
  /\ rows[k].hash = ChainHash(rows[k].prev, k, rows[k].body)
  /\ k - 1 \in DOMAIN rows \/ \A j \in DOMAIN rows : k <= j

(* What a row must satisfy: its own hash and, unless it is the first one   *)
(* read, the link to the row before it.                                    *)
Checks(rows, k) ==
  /\ rows[k].hash = ChainHash(rows[k].prev, k, rows[k].body)
  /\ \/ k - 1 \in DOMAIN rows /\ rows[k].prev = rows[k - 1].hash
     \/ \A j \in DOMAIN rows : k <= j

(* The rows after those that were read.                                    *)
Ahead == {k \in DOMAIN log : \A j \in DOMAIN verifier.read : j < k}

VerifyPage ==
  LET page == {k \in Ahead : Cardinality({j \in Ahead : j < k}) < VERIFY_PAGE}
      all == [k \in DOMAIN verifier.read \cup page |->
                IF k \in page THEN log[k] ELSE verifier.read[k]]
  IN /\ verifier.step = "reading" /\ page # {}
     /\ verifier' = [verifier EXCEPT !.read = all, !.ok = @ /\ \A k \in page : Checks(all, k)]
     /\ UNCHANGED <<composed, log, head, written, exporter, auditClock, tampers>>

(* The newest row read must be the head's.                                 *)
EndsAtHead(rows, h) ==
  DOMAIN rows # {} => /\ h.seq \in DOMAIN rows /\ rows[h.seq].hash = h.hash
                      /\ \A k \in DOMAIN rows : k <= h.seq

VerifyEnd ==
  /\ verifier.step = "reading" /\ Ahead = {}
  /\ verifier' = [verifier EXCEPT !.step = "done", !.ok = @ /\ EndsAtHead(verifier.read, verifier.head)]
  /\ UNCHANGED <<composed, log, head, written, exporter, auditClock, tampers>>

-----------------------------------------------------------------------------
(* Listing and export: newest first, by (created_at, id).                  *)
Newer(a, b) == a.at > b.at \/ (a.at = b.at /\ a.id > b.id)
Descending(events) == \A i, j \in DOMAIN events : i < j => Newer(events[i], events[j])
Listing(bodies) ==
  CHOOSE events \in [1..Cardinality(bodies) -> bodies] : Range(events) = bodies /\ Descending(events)

(* Mutant: the cursor names a time only.                                   *)
BeforeTime(body, cursor) == cursor = NoHash \/ body.at < cursor.at

(* query_events(): the `before` cursor.                                    *)
Before(body, cursor) == cursor = NoHash \/ Newer(cursor, body)

(* export(): what is too old is purged first.                              *)
ExportStart ==
  /\ exporter.step = "idle" /\ verifier.step = "idle"
  /\ log' = Forget(log, Expired(log))
  /\ exporter' = [step |-> "paging", cursor |-> NoHash, events |-> << >>,
                  must |-> {log'[k].body : k \in DOMAIN log'}]
  /\ UNCHANGED <<composed, head, written, verifier, auditClock, tampers>>

(* collect_export(): pages until one is short or the cap is passed; then   *)
(* the export writes an audit row of its own (AppendAudit).                *)
ExportPage ==
  LET ahead == {b \in {log[k].body : k \in DOMAIN log} : Before(b, exporter.cursor)}
      page == {b \in ahead : Cardinality({o \in ahead : Newer(o, b)}) < EXPORT_PAGE}
      all == exporter.events \o Listing(page)
      over == Len(all) > MAX_EXPORT_ROWS
  IN /\ exporter.step = "paging"
     /\ exporter' =
          [exporter EXCEPT !.events = IF over THEN SubSeq(all, 1, MAX_EXPORT_ROWS) ELSE all,
             !.cursor = IF page = {} THEN @ ELSE Last(all),
             !.step = IF over \/ Cardinality(page) < EXPORT_PAGE THEN "done" ELSE "paging"]
     /\ UNCHANGED <<composed, log, head, written, verifier, auditClock, tampers>>

(* list_audit(): the purge of whoever else reads the log; what it removes  *)
(* a running export need not show.                                         *)
Purge ==
  /\ Expired(log) # {}
  /\ log' = Forget(log, Expired(log))
  /\ exporter' = IF exporter.step = "paging"
                 THEN [exporter EXCEPT !.must = @ \ {log[k].body : k \in Expired(log)}]
                 ELSE exporter
  /\ UNCHANGED <<composed, head, written, verifier, auditClock, tampers>>

-----------------------------------------------------------------------------
(* A row is removed, or edited with or without its own hash made to match; *)
(* not while an export runs, whose completeness is about an honest log.    *)
Tamper(k) ==
  /\ k \in DOMAIN log /\ tampers < MaxTampers /\ exporter.step # "paging"
  /\ tampers' = tampers + 1
  /\ \/ log' = Forget(log, {k})
     \/ \E at \in 0..MaxAuditClock, rehash \in BOOLEAN :
          LET body == [log[k].body EXCEPT !.at = at]
          IN /\ body # log[k].body
             /\ log' = [log EXCEPT ![k] =
                  [@ EXCEPT !.body = body,
                            !.hash = IF rehash THEN ChainHash(log[k].prev, k, body) ELSE @]]
  /\ UNCHANGED <<composed, head, written, verifier, exporter, auditClock>>

AuditTick ==
  /\ auditClock < MaxAuditClock /\ auditClock' = auditClock + 1
  /\ UNCHANGED <<composed, log, head, written, verifier, exporter, tampers>>

AuditNext ==
  \/ \E e \in EventIds : Compose(e) \/ AppendAudit(e)
  \/ VerifyHead \/ VerifyPage \/ VerifyEnd
  \/ ExportStart \/ ExportPage \/ Purge
  \/ \E k \in DOMAIN log : Tamper(k)
  \/ AuditTick

-----------------------------------------------------------------------------
AuditTypeOK ==
  /\ DOMAIN log \subseteq 1..head.seq /\ head.seq = Len(written)
  /\ DOMAIN composed \subseteq EventIds
  /\ verifier.step \in {"idle", "reading", "done"}
  /\ exporter.step \in {"idle", "paging", "done"}

(* What was committed is one chain without forks, ending in the            *)
(* organisation's head, whatever order writers dated and committed in.     *)
ChainNeverForks ==
  /\ \A k \in DOMAIN written :
       /\ written[k].prev = IF k = 1 THEN NoHash ELSE written[k - 1].hash
       /\ written[k].hash = ChainHash(written[k].prev, k, written[k].body)
  /\ head.hash = IF written = << >> THEN NoHash ELSE Last(written).hash

(* A report of an intact chain is true: the rows it verified are the ones  *)
(* committed, without a gap, up to the head it read, although rows are     *)
(* appended, purged and tampered with between its pages.                   *)
IntactMeansUntouched ==
  verifier.step = "done" /\ verifier.ok =>
    \A k \in DOMAIN verifier.read :
      /\ verifier.read[k] = written[k]
      /\ k..verifier.head.seq \subseteq DOMAIN verifier.read

(* An export names no event twice and, when it was not cut off at the cap, *)
(* every event that was there from its start to its end, although events   *)
(* are appended and purged between pages and may share their second.       *)
ExportComplete ==
  exporter.step = "done" =>
    /\ IsInjective(exporter.events)
    /\ Len(exporter.events) < MAX_EXPORT_ROWS
         => exporter.must \subseteq {exporter.events[i] : i \in DOMAIN exporter.events}

AuditSpec == AuditInit /\ [][AuditNext]_auditVars

(* The chain and what a verification of it says.                           *)
AuditInv == AuditTypeOK /\ ChainNeverForks /\ IntactMeansUntouched
=============================================================================
