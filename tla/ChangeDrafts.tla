---------------------------- MODULE ChangeDrafts ----------------------------
(***************************************************************************)
(* Change drafts of one organisation (blaktail-coord/src/change_drafts.rs) *)
(* beside the direct publishes of module Documents.  A request is a chain  *)
(* of database statements; pc[e] is the statement editor e's request comes *)
(* to next.  A request that fails leaves no trace but for expire_drafts(). *)
(***************************************************************************)
EXTENDS Documents, FiniteSets

CONSTANTS
  Editors,     \* draft requests in flight
  Drafts,      \* draft ids
  NoDoc,       \* a surface the draft does not touch; no draft
  Proposals,   \* payloads an editor may put in a draft
  MaxOpen,     \* MAX_OPEN_DRAFTS
  MaxVersion,  \* bound on a draft's version
  Opens        \* the <<policy, resources>> contents under which a path opens

Payloads == [Surfaces -> Docs \cup {NoDoc}]
Touched(p) == {s \in Surfaces : p[s] # NoDoc}

ASSUME DraftAssumption ==
  /\ Surfaces = {"policy", "dns", "resources"}
  /\ NoDoc \notin Docs \cup Drafts
  /\ Proposals \subseteq Payloads
  /\ \A p \in Proposals : Touched(p) # {}
  /\ MaxOpen \in Nat \ {0} /\ MaxVersion \in Nat
  /\ Opens \subseteq Docs \X Docs

VARIABLES
  status,      \* status[d]; "none" before it is created
  version,     \* version[d]
  payload,     \* payload[d][s]: the proposed document
  base,        \* base[d][s]: the live etag it is based on
  lapsed,      \* drafts whose expires_at has passed
  pc,          \* pc[e]: where e's request is
  target,      \* target[e]: its draft
  ver,         \* ver[e]: the version the draft had when it was loaded
  want,        \* want[e]: the payload it works with
  basis,       \* basis[e]: the base it works with
  confirm,     \* confirm[e]: whether the request confirms the risks
  before       \* before[e]: the <<policy, resources>> its preview has read

draftVars == <<status, version, payload, base, lapsed>>
workVars == <<target, ver, want, basis, confirm, before>>
vars == <<documentVars, draftVars, pc, workVars>>

NoEtag == <<0, NoDoc>>
Etags == Nat \X (Docs \cup {NoDoc})

Stages == {"idle", "insert", "update_live", "update", "rebase_live", "rebase",
           "discard", "preview", "overview", "apply", "commit", "reload"}

Init ==
  /\ DocsInit
  /\ status = [d \in Drafts |-> "none"]
  /\ version = [d \in Drafts |-> 0]
  /\ payload = [d \in Drafts |-> [s \in Surfaces |-> NoDoc]]
  /\ base = [d \in Drafts |-> [s \in Surfaces |-> NoEtag]]
  /\ lapsed = {}
  /\ pc = [e \in Editors |-> "idle"]
  /\ target = [e \in Editors |-> NoDoc]
  /\ ver = [e \in Editors |-> 0]
  /\ want = [e \in Editors |-> [s \in Surfaces |-> NoDoc]]
  /\ basis = [e \in Editors |-> [s \in Surfaces |-> NoEtag]]
  /\ confirm = [e \in Editors |-> "no"]
  /\ before = [e \in Editors |-> <<NoDoc, NoDoc>>]

(* live_tx(): the policy's etag hashes its content, the DNS etag revision  *)
(* and content, the resources' etag the ids and revisions.  Its reads of   *)
(* the three documents are one step here: no request relates one of them   *)
(* to another, and the transaction that publishes reads under the lock.    *)
Etag(s) == <<IF s = "policy" THEN 0 ELSE rev[s], doc[s]>>

(* expire_drafts(): every request that reads drafts runs it first.         *)
Expired ==
  [d \in Drafts |-> IF status[d] = "open" /\ d \in lapsed THEN "expired"
                    ELSE status[d]]

Goto(e, stage) == pc' = [pc EXCEPT ![e] = stage]

(* What a request worked with is gone once its last write is done.         *)
Finish(e, stage) ==
  /\ Goto(e, stage)
  /\ target' = [target EXCEPT ![e] = NoDoc]
  /\ ver' = [ver EXCEPT ![e] = 0]
  /\ want' = [want EXCEPT ![e] = [s \in Surfaces |-> NoDoc]]
  /\ basis' = [basis EXCEPT ![e] = [s \in Surfaces |-> NoEtag]]
  /\ confirm' = [confirm EXCEPT ![e] = "no"]
  /\ before' = [before EXCEPT ![e] = <<NoDoc, NoDoc>>]

-----------------------------------------------------------------------------
(* create(): the limit is checked before the transaction that inserts.     *)
CountOpen(e, chosen) ==
  /\ pc[e] = "idle"
  /\ status' = Expired
  /\ Cardinality({d \in Drafts : Expired[d] = "open"}) < MaxOpen
  /\ want' = [want EXCEPT ![e] = chosen]
  /\ Goto(e, "insert")
  /\ UNCHANGED <<documentVars, version, payload, base, lapsed,
                 target, ver, basis, confirm, before>>

(* The draft starts as a copy of the surfaces that were chosen.            *)
Insert(e, d) ==
  /\ pc[e] = "insert"
  /\ status[d] = "none"
  /\ status' = [status EXCEPT ![d] = "open"]
  /\ version' = [version EXCEPT ![d] = 1]
  /\ payload' = [payload EXCEPT ![d] =
       [s \in Surfaces |-> IF want[e][s] = NoDoc THEN NoDoc ELSE doc[s]]]
  /\ base' = [base EXCEPT ![d] =
       [s \in Surfaces |-> IF want[e][s] = NoDoc THEN NoEtag ELSE Etag(s)]]
  /\ Finish(e, "reload")
  /\ UNCHANGED <<documentVars, lapsed>>

-----------------------------------------------------------------------------
(* load_draft(), ensure_open() and ensure_version() (the version the       *)
(* client sent is the one found, or the request fails): what follows works *)
(* on a copy.                                                              *)
Load(e, d, stage) ==
  /\ pc[e] = "idle"
  /\ status' = Expired
  /\ Expired[d] = "open"
  /\ target' = [target EXCEPT ![e] = d]
  /\ ver' = [ver EXCEPT ![e] = version[d]]
  /\ basis' = [basis EXCEPT ![e] = base[d]]
  /\ Goto(e, stage)
  /\ UNCHANGED <<documentVars, version, payload, base, lapsed, before>>

LoadForUpdate(e, d, new) ==
  /\ Load(e, d, "update_live")
  /\ want' = [want EXCEPT ![e] = new]
  /\ UNCHANGED confirm

LoadFor(e, d, stage) ==
  /\ stage \in {"rebase_live", "discard"}
  /\ Load(e, d, stage)
  /\ want' = [want EXCEPT ![e] = payload[d]]
  /\ UNCHANGED confirm

LoadForPublish(e, d, sure) ==
  /\ Load(e, d, "preview")
  /\ want' = [want EXCEPT ![e] = payload[d]]
  /\ confirm' = [confirm EXCEPT ![e] = sure]

(* update() and rebase() read the live etags: update for the surfaces it   *)
(* adds, rebase for all.                                                   *)
ReadLive(e) ==
  /\ pc[e] \in {"update_live", "rebase_live"}
  /\ basis' = [basis EXCEPT ![e] =
       [s \in Surfaces |->
          IF want[e][s] = NoDoc THEN NoEtag
          ELSE IF pc[e] = "update_live" /\ basis[e][s] # NoEtag THEN basis[e][s]
          ELSE Etag(s)]]
  /\ Goto(e, IF pc[e] = "update_live" THEN "update" ELSE "rebase")
  /\ UNCHANGED <<documentVars, draftVars, target, ver, want, confirm, before>>

(* Mutant: the UPDATE's WHERE clause lacks "AND version=$".                *)
UnmovedIgnoresVersion(e) == status[target[e]] = "open"

(* WHERE status='open' AND version=$: the draft is still what was loaded.  *)
Unmoved(e) == status[target[e]] = "open" /\ version[target[e]] = ver[e]

BumpVersion(e) ==
  /\ version[target[e]] < MaxVersion
  /\ version' = [version EXCEPT ![target[e]] = @ + 1]

WriteUpdate(e) ==
  /\ pc[e] = "update"
  /\ Unmoved(e)
  /\ payload' = [payload EXCEPT ![target[e]] = want[e]]
  /\ base' = [base EXCEPT ![target[e]] = basis[e]]
  /\ BumpVersion(e)
  /\ Finish(e, "reload")
  /\ UNCHANGED <<documentVars, status, lapsed>>

WriteRebase(e) ==
  /\ pc[e] = "rebase"
  /\ Unmoved(e)
  /\ base' = [base EXCEPT ![target[e]] = basis[e]]
  /\ BumpVersion(e)
  /\ Finish(e, "reload")
  /\ UNCHANGED <<documentVars, status, payload, lapsed>>

Discard(e) ==
  /\ pc[e] = "discard"
  /\ Unmoved(e)
  /\ status' = [status EXCEPT ![target[e]] = "discarded"]
  /\ BumpVersion(e)
  /\ Finish(e, "reload")
  /\ UNCHANGED <<documentVars, payload, base, lapsed>>

-----------------------------------------------------------------------------
(* stale_surfaces() is empty.                                              *)
Fresh(e) == \A s \in Touched(want[e]) : basis[e][s] = Etag(s)

(* What the documents become when the draft is applied.                    *)
Applied(e) ==
  [s \in Surfaces |-> IF want[e][s] = NoDoc THEN doc[s] ELSE want[e][s]]

(* compute_preview(): live() reads the documents and what is stale in the  *)
(* draft (publish() refuses it then) ...                                   *)
ReadBefore(e) ==
  /\ pc[e] = "preview"
  /\ Fresh(e)
  /\ before' = [before EXCEPT ![e] = <<doc["policy"], NoDoc>>]
  /\ Goto(e, "overview")
  /\ UNCHANGED <<documentVars, draftVars, target, ver, want, basis, confirm>>

(* Mutant: the resources are read after the draft is applied.              *)
ReadOverviewApplied(e) ==
  /\ pc[e] = "overview"
  /\ before' = [before EXCEPT ![e] = <<before[e][1], Applied(e)["resources"]>>]
  /\ Goto(e, "apply")
  /\ UNCHANGED <<documentVars, draftVars, target, ver, want, basis, confirm>>

(* ... overview_conn() reads the resources on a connection of its own ...  *)
ReadOverview(e) ==
  /\ pc[e] = "overview"
  /\ before' = [before EXCEPT ![e] = <<before[e][1], doc["resources"]>>]
  /\ Goto(e, "apply")
  /\ UNCHANGED <<documentVars, draftVars, target, ver, want, basis, confirm>>

(* The paths after the draft: a policy it does not touch is the one read   *)
(* before.                                                                 *)
After(e) ==
  <<IF want[e]["policy"] = NoDoc THEN before[e][1] ELSE want[e]["policy"],
    Applied(e)["resources"]>>

(* ... and the draft is applied and rolled back.  A path that it adds must *)
(* be confirmed (risks(), access_widened).                                 *)
ApplyAndRollBack(e) ==
  /\ pc[e] = "apply"
  /\ before[e] \notin Opens /\ After(e) \in Opens => confirm[e] = "yes"
  /\ Goto(e, "commit")
  /\ UNCHANGED <<documentVars, draftVars, workVars>>

(* publish(): its transaction.  apply_tx() locks the organisation's row,   *)
(* checks the base again and writes what changes; the draft is closed only *)
(* if it is still the one that was loaded.                                 *)
Publish(e) ==
  /\ pc[e] = "commit"
  /\ Bump
  /\ Fresh(e)
  /\ doc' = Applied(e)
  /\ rev' = [s \in Surfaces |-> rev[s] + IF Applied(e)[s] = doc[s] THEN 0 ELSE 1]
  /\ IF Applied(e)["dns"] = doc["dns"] THEN UNCHANGED hist
     ELSE RecordRevision(rev["dns"] + 1, want[e]["dns"])
  /\ Unmoved(e)
  /\ status' = [status EXCEPT ![target[e]] = "published"]
  /\ BumpVersion(e)
  /\ Finish(e, "reload")
  /\ UNCHANGED <<putVars, payload, base, lapsed>>

-----------------------------------------------------------------------------
(* The answer to a request that changed a draft loads it once more; list() *)
(* and get_one() are nothing else.                                         *)
Reload(e) ==
  /\ pc[e] \in {"reload", "idle"}
  /\ status' = Expired
  /\ Finish(e, "idle")
  /\ UNCHANGED <<documentVars, version, payload, base, lapsed>>

(* 409, 412, a validator's refusal, an unconfirmed risk, or the client is  *)
(* gone: any open transaction is rolled back.                              *)
Refuse(e) ==
  /\ pc[e] \notin {"idle", "reload"}
  /\ Finish(e, "idle")
  /\ UNCHANGED <<documentVars, draftVars>>

(* DRAFT_TTL_SECS pass.                                                    *)
Lapse(d) ==
  /\ status[d] = "open"
  /\ lapsed' = lapsed \cup {d}
  /\ UNCHANGED <<documentVars, status, version, payload, base, pc, workVars>>

Next ==
  \/ \E e \in Editors, chosen \in Proposals : CountOpen(e, chosen)
  \/ \E e \in Editors, d \in Drafts :
       \/ Insert(e, d)
       \/ \E new \in Proposals : LoadForUpdate(e, d, new)
       \/ \E stage \in {"rebase_live", "discard"} : LoadFor(e, d, stage)
       \/ \E sure \in {"yes", "no"} : LoadForPublish(e, d, sure)
  \/ \E e \in Editors :
       \/ ReadLive(e) \/ WriteUpdate(e) \/ WriteRebase(e) \/ Discard(e)
       \/ ReadBefore(e) \/ ReadOverview(e) \/ ApplyAndRollBack(e)
       \/ Publish(e)
       \/ Reload(e) \/ Refuse(e)
  \/ \E d \in Drafts : Lapse(d)
  \/ Writes /\ UNCHANGED <<draftVars, pc, workVars>>

Spec == Init /\ [][Next]_vars

-----------------------------------------------------------------------------
(* Every variable has its type.                                            *)
TypeOK ==
  /\ DocsTypeOK
  /\ status \in [Drafts -> {"none", "open", "published", "discarded", "expired"}]
  /\ version \in [Drafts -> Nat]
  /\ payload \in [Drafts -> Payloads]
  /\ base \in [Drafts -> [Surfaces -> Etags]]
  /\ lapsed \subseteq Drafts
  /\ pc \in [Editors -> Stages]
  /\ target \in [Editors -> Drafts \cup {NoDoc}]
  /\ ver \in [Editors -> Nat]
  /\ want \in [Editors -> Payloads]
  /\ basis \in [Editors -> [Surfaces -> Etags]]
  /\ confirm \in [Editors -> {"yes", "no"}]
  /\ before \in [Editors -> (Docs \cup {NoDoc}) \X (Docs \cup {NoDoc})]

(* publish() puts in force exactly the draft as it is stored: every surface *)
(* it touches becomes the stored document, replacing the very document the *)
(* draft is based on, and nothing else moves, whatever was edited, rebased *)
(* or published since the request loaded it.                               *)
PublishesTheStoredDraft ==
  [][\A d \in Drafts :
       status[d] # "published" /\ status'[d] = "published" =>
         \A s \in Surfaces :
           IF payload[d][s] = NoDoc
           THEN doc'[s] = doc[s] /\ rev'[s] = rev[s]
           ELSE doc'[s] = payload[d][s] /\ base[d][s] = Etag(s)]_vars

(* A draft that is published, discarded or expired never changes again     *)
(* (ensure_open: "can no longer change"), also not by a request that       *)
(* loaded it while it was open.                                            *)
ClosedIsFinal ==
  [][\A d \in Drafts :
       status[d] \in {"published", "discarded", "expired"} =>
         /\ status'[d] = status[d] /\ version'[d] = version[d]
         /\ payload'[d] = payload[d] /\ base'[d] = base[d]]_vars

Opening(e) ==
  /\ pc[e] = "commit" /\ pc'[e] = "reload"
  /\ <<doc["policy"], doc["resources"]>> \notin Opens
  /\ <<doc'["policy"], doc'["resources"]>> \in Opens

(* A draft that touches both the policy and the resources opens no path    *)
(* that was not confirmed, although the risks are computed before the      *)
(* transaction that publishes.                                             *)
WholeDraftsAreConfirmed ==
  [][\A e \in Editors :
       Opening(e) /\ {"policy", "resources"} \subseteq Touched(want[e]) =>
         confirm[e] = "yes"]_vars

(* Publishing and closing a draft, whoever edits it meanwhile (publish(),  *)
(* ensure_open()).                                                         *)
DraftsHold == []TypeOK /\ PublishesTheStoredDraft /\ ClosedIsFinal
=============================================================================
