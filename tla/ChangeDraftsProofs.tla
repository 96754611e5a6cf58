------------------------- MODULE ChangeDraftsProofs -------------------------
(***************************************************************************)
(* Change drafts and the document stores of module Documents they write,   *)
(* for any number of editors, drafts, direct writers, documents, requests  *)
(* and proposals.                                                          *)
(***************************************************************************)
EXTENDS ChangeDrafts, TLAPS

-----------------------------------------------------------------------------
(* The DNS history of module Documents.                                    *)
(* No put_dns is more than KeepRevisions publishes behind: the row it is   *)
(* about to insert has not been pruned.                                    *)
Prompt ==
  \A p \in Procs : reading[p] # 0 => rev["dns"] <= reading[p] + KeepRevisions

(* The history has no gap between the current revision and the pruned ones *)
(* (revision 1 is the document from before there was a history).           *)
HistoryIsDense ==
  \A r \in Nat : 1 < r /\ r <= rev["dns"] /\ rev["dns"] < r + KeepRevisions
                   => r \in DOMAIN hist

(* A request has read a revision that was in force.                        *)
ReadingIsOld == \A p \in Procs : reading[p] <= rev["dns"]

DnsInv == DocsTypeOK /\ HistoryIsDense /\ ReadingIsOld

-----------------------------------------------------------------------------
LEMMA DocsInitTypeOK == DocsInit => DocsTypeOK
BY DocAssumption, KeepAssumption DEF DocsInit, DocsTypeOK

(* What is recorded keeps the type of the history.                         *)
LEMMA RecordTypeOK ==
  ASSUME NEW r \in Nat, NEW d \in Docs, DocsTypeOK, RecordRevision(r, d)
  PROVE  /\ DOMAIN hist' \subseteq Nat
         /\ \A k \in DOMAIN hist' : hist'[k] \in Docs
<1> DEFINE D == {i \in DOMAIN hist \cup {r} : i + KeepRevisions > r}
<1>1. hist' = [k \in D |-> IF k = r THEN d ELSE hist[k]]
  BY DEF RecordRevision
<1>2. D \subseteq Nat
  BY DEF DocsTypeOK
<1>3. \A k \in D : k # r => k \in DOMAIN hist
  OBVIOUS
<1> QED
  BY <1>1, <1>2, <1>3 DEF DocsTypeOK

(* The recorded revision ends the history.                                 *)
LEMMA RecordedIsKept ==
  ASSUME NEW r \in Nat, NEW d \in Docs, RecordRevision(r, d)
  PROVE  r \in DOMAIN hist' /\ hist'[r] = d
<1> DEFINE D == {i \in DOMAIN hist \cup {r} : i + KeepRevisions > r}
<1>1. hist' = [k \in D |-> IF k = r THEN d ELSE hist[k]]
  BY DEF RecordRevision
<1>2. r \in D
  BY KeepAssumption
<1> QED
  BY <1>1, <1>2

LEMMA DocsStepTypeOK == DocsTypeOK /\ [DocsNext]_documentVars => DocsTypeOK'
<1> SUFFICES ASSUME DocsTypeOK, [DocsNext]_documentVars PROVE DocsTypeOK'
  OBVIOUS
<1>1. ASSUME NEW p \in Procs, FetchAcl(p) PROVE DocsTypeOK'
  BY <1>1 DEF FetchAcl, DocsTypeOK, docVars
<1>2. ASSUME NEW p \in Procs, NEW d \in Docs, PutAcl(p, d) PROVE DocsTypeOK'
  BY <1>2 DEF PutAcl, Bump, DocsTypeOK
<1>3. ASSUME NEW p \in Procs, RefuseAcl(p) PROVE DocsTypeOK'
  BY <1>3 DEF RefuseAcl, DocsTypeOK, docVars
<1>4. ASSUME NEW p \in Procs, ReadDns(p) PROVE DocsTypeOK'
  BY <1>4 DEF ReadDns, DocsTypeOK, docVars
<1>5. ASSUME NEW p \in Procs, NEW d \in Docs, WriteDns(p, d) PROVE DocsTypeOK'
  <2>1. reading[p] + 1 \in Nat \ {0}
    BY DEF DocsTypeOK
  <2>2. DOMAIN hist' \subseteq Nat /\ \A k \in DOMAIN hist' : hist'[k] \in Docs
    BY <1>5, <2>1, RecordTypeOK DEF WriteDns
  <2> QED
    BY <1>5, <2>1, <2>2 DEF WriteDns, Bump, DocsTypeOK
<1>6. ASSUME NEW p \in Procs, FailDns(p) PROVE DocsTypeOK'
  BY <1>6 DEF FailDns, DocsTypeOK, docVars
<1>7. ASSUME NEW d \in Docs, WriteResources(d) PROVE DocsTypeOK'
  BY <1>7 DEF WriteResources, Bump, DocsTypeOK, putVars
<1>8. CASE UNCHANGED documentVars
  BY <1>8 DEF documentVars, docVars, putVars, DocsTypeOK
<1> QED
  BY <1>1, <1>2, <1>3, <1>4, <1>5, <1>6, <1>7, <1>8 DEF DocsNext, Writes

(* Every variable of Documents keeps its type.                             *)
THEOREM DocsTypeCorrect == DocsSpec => []DocsTypeOK
BY DocsInitTypeOK, DocsStepTypeOK, PTL DEF DocsSpec

-----------------------------------------------------------------------------
(* What record_revision() leaves in org_dns_revisions ends with the        *)
(* document in force, so a rollback restores what was published.           *)
THEOREM HistoryAlwaysEndsWithCurrent ==
  ASSUME "dns" \in Surfaces PROVE DocsSpec => []HistoryEndsWithCurrent
<1>1. DocsInit => HistoryEndsWithCurrent
  BY DEF DocsInit, HistoryEndsWithCurrent
<1>2. DocsTypeOK /\ HistoryEndsWithCurrent /\ [DocsNext]_documentVars
        => HistoryEndsWithCurrent'
  <2> SUFFICES ASSUME DocsTypeOK, HistoryEndsWithCurrent,
                      [DocsNext]_documentVars
               PROVE  HistoryEndsWithCurrent'
    OBVIOUS
  <2>1. ASSUME NEW p \in Procs, NEW d \in Docs, WriteDns(p, d)
        PROVE HistoryEndsWithCurrent'
    <3>1. reading[p] + 1 \in Nat
      BY DEF DocsTypeOK
    <3>2. rev'["dns"] \in DOMAIN hist' /\ hist'[rev'["dns"]] = doc'["dns"]
      BY <2>1, <3>1, RecordedIsKept DEF WriteDns, DocsTypeOK
    <3> QED
      BY <3>2 DEF HistoryEndsWithCurrent
  <2>2. ASSUME hist' = hist, doc'["dns"] = doc["dns"], rev'["dns"] = rev["dns"]
        PROVE HistoryEndsWithCurrent'
    BY <2>2 DEF HistoryEndsWithCurrent
  <2>3. ASSUME NEW p \in Procs, NEW d \in Docs, PutAcl(p, d)
        PROVE HistoryEndsWithCurrent'
    BY <2>2, <2>3 DEF PutAcl, DocsTypeOK
  <2>4. ASSUME NEW d \in Docs, WriteResources(d) PROVE HistoryEndsWithCurrent'
    BY <2>2, <2>4 DEF WriteResources, DocsTypeOK
  <2> QED
    BY <2>1, <2>2, <2>3, <2>4
    DEF DocsNext, Writes, FetchAcl, RefuseAcl, ReadDns, FailDns,
        documentVars, docVars
<1> QED
  BY <1>1, <1>2, DocsInitTypeOK, DocsStepTypeOK, PTL DEF DocsSpec

-----------------------------------------------------------------------------
(* A put_dns whose read is out of date finds the row it would insert.      *)
LEMMA WriteDnsReadLatest ==
  ASSUME DnsInv, Prompt, NEW p \in Procs, NEW d \in Docs, WriteDns(p, d),
         "dns" \in Surfaces
  PROVE  reading[p] = rev["dns"]
<1>1. reading[p] \in Nat /\ rev["dns"] \in Nat /\ reading[p] <= rev["dns"]
  BY DEF DnsInv, DocsTypeOK, ReadingIsOld
<1>2. reading[p] # 0 /\ reading[p] + 1 \notin DOMAIN hist
  BY DEF WriteDns, RecordRevision
<1>3. rev["dns"] <= reading[p] + KeepRevisions
  BY <1>2 DEF Prompt
<1>4. KeepRevisions \in Nat
  BY KeepAssumption
<1>5. ~ (reading[p] + 1 <= rev["dns"])
  BY <1>1, <1>2, <1>3, <1>4 DEF DnsInv, HistoryIsDense
<1> QED
  BY <1>1, <1>5

(* As long as no request falls more than KEEP_REVISIONS publishes behind,  *)
(* the primary key of org_dns_revisions makes every DNS publish build on   *)
(* the revision in force, although put_dns reads before it locks.          *)
THEOREM DnsAlwaysBuildsOnLatest ==
  ASSUME "dns" \in Surfaces PROVE DocsSpec /\ []Prompt => DnsBuildsOnLatest
<1> DEFINE A == doc'["dns"] # doc["dns"] \/ rev'["dns"] # rev["dns"] =>
                  rev'["dns"] = rev["dns"] + 1
<1>1. DocsInit => DnsInv
  BY DocsInitTypeOK DEF DocsInit, DnsInv, HistoryIsDense, ReadingIsOld
<1>2. DnsInv /\ Prompt /\ [DocsNext]_documentVars => DnsInv' /\ A
  <2> SUFFICES ASSUME DnsInv, Prompt, [DocsNext]_documentVars
               PROVE  DnsInv' /\ A
    OBVIOUS
  <2>0. DocsTypeOK' /\ DocsTypeOK
    BY DocsStepTypeOK DEF DnsInv
  <2>1. ASSUME NEW p \in Procs, NEW d \in Docs, WriteDns(p, d)
        PROVE HistoryIsDense' /\ ReadingIsOld' /\ A
    <3>1. reading[p] = rev["dns"] /\ rev["dns"] \in Nat
      BY <2>0, <2>1, WriteDnsReadLatest DEF DocsTypeOK
    <3>2. rev'["dns"] = rev["dns"] + 1
      BY <2>0, <2>1, <3>1 DEF WriteDns, DocsTypeOK
    <3>3. ReadingIsOld'
      BY <2>0, <2>1, <3>1, <3>2 DEF WriteDns, DocsTypeOK, DnsInv, ReadingIsOld
    <3>4. HistoryIsDense'
      <4> SUFFICES ASSUME NEW r \in Nat, 1 < r, r <= rev'["dns"],
                          rev'["dns"] < r + KeepRevisions
                   PROVE  r \in DOMAIN hist'
        BY DEF HistoryIsDense
      <4>1. r \in DOMAIN hist \cup {rev["dns"] + 1}
        BY <3>1, <3>2, KeepAssumption DEF DnsInv, HistoryIsDense
      <4>2. DOMAIN hist' = {i \in DOMAIN hist \cup {rev["dns"] + 1} :
                              i + KeepRevisions > rev["dns"] + 1}
        BY <2>1, <3>1 DEF WriteDns, RecordRevision
      <4> QED
        BY <3>1, <3>2, <4>1, <4>2, KeepAssumption
    <3> QED
      BY <3>2, <3>3, <3>4
  <2>2. ASSUME hist' = hist, doc'["dns"] = doc["dns"], rev'["dns"] = rev["dns"],
               \A p \in Procs : reading'[p] \in {0, reading[p], rev["dns"]}
        PROVE HistoryIsDense' /\ ReadingIsOld' /\ A
    BY <2>0, <2>2 DEF DnsInv, HistoryIsDense, ReadingIsOld, DocsTypeOK
  <2>3. ASSUME NEW p \in Procs, NEW d \in Docs, PutAcl(p, d)
        PROVE HistoryIsDense' /\ ReadingIsOld' /\ A
    BY <2>0, <2>2, <2>3 DEF PutAcl, DocsTypeOK
  <2>4. ASSUME NEW d \in Docs, WriteResources(d)
        PROVE HistoryIsDense' /\ ReadingIsOld' /\ A
    BY <2>0, <2>2, <2>4 DEF WriteResources, DocsTypeOK, putVars
  <2>5. ASSUME NEW p \in Procs, ReadDns(p)
        PROVE HistoryIsDense' /\ ReadingIsOld' /\ A
    BY <2>0, <2>2, <2>5 DEF ReadDns, DocsTypeOK, docVars
  <2>6. ASSUME NEW p \in Procs, FailDns(p)
        PROVE HistoryIsDense' /\ ReadingIsOld' /\ A
    BY <2>0, <2>2, <2>6 DEF FailDns, DocsTypeOK, docVars
  <2>7. ASSUME NEW p \in Procs, FetchAcl(p) \/ RefuseAcl(p)
        PROVE HistoryIsDense' /\ ReadingIsOld' /\ A
    BY <2>0, <2>2, <2>7 DEF FetchAcl, RefuseAcl, DocsTypeOK, docVars
  <2>8. ASSUME UNCHANGED documentVars
        PROVE HistoryIsDense' /\ ReadingIsOld' /\ A
    BY <2>0, <2>2, <2>8 DEF documentVars, docVars, putVars, DocsTypeOK
  <2>9. HistoryIsDense' /\ ReadingIsOld' /\ A
    BY <2>1, <2>3, <2>4, <2>5, <2>6, <2>7, <2>8 DEF DocsNext, Writes
  <2> QED
    BY <2>0, <2>9 DEF DnsInv
<1> QED
  BY <1>1, <1>2, PTL DEF DocsSpec, DnsBuildsOnLatest

(* Both at once: types and history of the documents.                       *)
THEOREM DocsAlwaysHold == ASSUME "dns" \in Surfaces PROVE DocsSpec => []DocsInv
BY DocsTypeCorrect, HistoryAlwaysEndsWithCurrent, PTL DEF DocsInv

-----------------------------------------------------------------------------
(* Change drafts.                                                          *)
-----------------------------------------------------------------------------
(* Types.                                                                  *)

LEMMA ExpiredType == TypeOK => Expired \in
  [Drafts -> {"none", "open", "published", "discarded", "expired"}]
BY DEF TypeOK, Expired

LEMMA EtagType ==
  ASSUME DocsTypeOK, NEW s \in Surfaces PROVE Etag(s) \in Etags
BY DEF DocsTypeOK, Etag, Etags

LEMMA NoEtagType == NoEtag \in Etags
BY DEF NoEtag, Etags

(* Finish() keeps the type of everything a request works with.             *)
LEMMA FinishTypeOK ==
  ASSUME TypeOK, NEW e \in Editors, NEW stage \in Stages, Finish(e, stage)
  PROVE  /\ pc' \in [Editors -> Stages]
         /\ target' \in [Editors -> Drafts \cup {NoDoc}]
         /\ ver' \in [Editors -> Nat]
         /\ want' \in [Editors -> Payloads]
         /\ basis' \in [Editors -> [Surfaces -> Etags]]
         /\ confirm' \in [Editors -> {"yes", "no"}]
         /\ before' \in [Editors -> (Docs \cup {NoDoc}) \X (Docs \cup {NoDoc})]
<1>1. [s \in Surfaces |-> NoDoc] \in Payloads
  BY DEF Payloads
<1>2. [s \in Surfaces |-> NoEtag] \in [Surfaces -> Etags]
  BY NoEtagType
<1>3. <<NoDoc, NoDoc>> \in (Docs \cup {NoDoc}) \X (Docs \cup {NoDoc})
  OBVIOUS
<1>4. /\ pc' \in [Editors -> Stages]
      /\ target' \in [Editors -> Drafts \cup {NoDoc}]
      /\ ver' \in [Editors -> Nat]
      /\ confirm' \in [Editors -> {"yes", "no"}]
  BY DEF Finish, Goto, TypeOK
<1>5. want' \in [Editors -> Payloads]
  BY <1>1 DEF Finish, TypeOK
<1>6. basis' \in [Editors -> [Surfaces -> Etags]]
  BY <1>2 DEF Finish, TypeOK
<1>7. before' \in [Editors -> (Docs \cup {NoDoc}) \X (Docs \cup {NoDoc})]
  BY <1>3 DEF Finish, TypeOK
<1> QED
  BY <1>4, <1>5, <1>6, <1>7

LEMMA InitTypeOK == Init => TypeOK
<1> SUFFICES ASSUME Init PROVE TypeOK
  OBVIOUS
<1>1. DocsTypeOK
  BY DocsInitTypeOK DEF Init
<1>2. [s \in Surfaces |-> NoDoc] \in Payloads
  BY DEF Payloads
<1>3. [s \in Surfaces |-> NoEtag] \in [Surfaces -> Etags]
  BY NoEtagType
<1>4. payload \in [Drafts -> Payloads] /\ want \in [Editors -> Payloads]
  BY <1>2 DEF Init
<1>5. /\ base \in [Drafts -> [Surfaces -> Etags]]
      /\ basis \in [Editors -> [Surfaces -> Etags]]
  BY <1>3 DEF Init
<1> QED
  BY <1>1, <1>4, <1>5 DEF Init, TypeOK, Stages

(* What a request loads has its type.                                      *)
LEMMA LoadTypeOK ==
  ASSUME TypeOK, NEW e \in Editors, NEW d \in Drafts, NEW stage \in Stages,
         Load(e, d, stage)
  PROVE  /\ status' \in [Drafts -> {"none", "open", "published", "discarded",
                                    "expired"}]
         /\ target' \in [Editors -> Drafts \cup {NoDoc}]
         /\ ver' \in [Editors -> Nat]
         /\ basis' \in [Editors -> [Surfaces -> Etags]]
         /\ pc' \in [Editors -> Stages]
         /\ UNCHANGED <<documentVars, version, payload, base, lapsed, before>>
BY ExpiredType DEF Load, Goto, TypeOK

LEMMA DocsUnchanged == DocsTypeOK /\ UNCHANGED documentVars => DocsTypeOK'
BY DEF DocsTypeOK, documentVars, docVars, putVars

LEMMA AppliedType ==
  ASSUME TypeOK, NEW e \in Editors PROVE Applied(e) \in [Surfaces -> Docs]
<1>1. doc \in [Surfaces -> Docs] /\ want[e] \in [Surfaces -> Docs \cup {NoDoc}]
  BY DEF TypeOK, DocsTypeOK, Payloads
<1> QED
  BY <1>1 DEF Applied

LEMMA StepTypeOK == TypeOK /\ [Next]_vars => TypeOK'
<1> SUFFICES ASSUME TypeOK, [Next]_vars PROVE TypeOK'
  OBVIOUS
<1>0. DocsTypeOK
  BY DEF TypeOK
<1>1. ASSUME NEW e \in Editors, NEW chosen \in Proposals, CountOpen(e, chosen)
      PROVE TypeOK'
  <2>1. chosen \in Payloads
    BY DraftAssumption
  <2>2. status' \in [Drafts -> {"none", "open", "published", "discarded", "expired"}]
    BY <1>1, ExpiredType DEF CountOpen
  <2>3. DocsTypeOK'
    BY <1>0, <1>1, DocsUnchanged DEF CountOpen
  <2> QED
    BY <1>1, <2>1, <2>2, <2>3 DEF CountOpen, Goto, TypeOK, Stages
<1>2. ASSUME NEW e \in Editors, NEW d \in Drafts, Insert(e, d) PROVE TypeOK'
  <2>1. [s \in Surfaces |-> IF want[e][s] = NoDoc THEN NoDoc ELSE doc[s]]
          \in Payloads
    BY <1>0 DEF Payloads, DocsTypeOK
  <2>2. [s \in Surfaces |-> IF want[e][s] = NoDoc THEN NoEtag ELSE Etag(s)]
          \in [Surfaces -> Etags]
    BY <1>0, EtagType, NoEtagType
  <2>3. DocsTypeOK'
    BY <1>0, <1>2, DocsUnchanged DEF Insert
  <2>4. "reload" \in Stages
    BY DEF Stages
  <2>5. payload' \in [Drafts -> Payloads] /\ base' \in [Drafts -> [Surfaces -> Etags]]
    BY <1>2, <2>1, <2>2 DEF Insert, TypeOK
  <2> QED
    BY <1>2, <2>3, <2>4, <2>5, FinishTypeOK DEF Insert, TypeOK
<1>3. ASSUME NEW e \in Editors, NEW d \in Drafts, NEW new \in Proposals,
             LoadForUpdate(e, d, new)
      PROVE TypeOK'
  <2>1. new \in Payloads /\ "update_live" \in Stages
    BY DraftAssumption DEF Stages
  <2>2. DocsTypeOK'
    BY <1>0, <1>3, <2>1, LoadTypeOK, DocsUnchanged DEF LoadForUpdate
  <2> QED
    BY <1>3, <2>1, <2>2, LoadTypeOK DEF LoadForUpdate, TypeOK
<1>4. ASSUME NEW e \in Editors, NEW d \in Drafts,
             NEW stage \in {"rebase_live", "discard"}, LoadFor(e, d, stage)
      PROVE TypeOK'
  <2>1. payload[d] \in Payloads /\ stage \in Stages
    BY DEF TypeOK, Stages
  <2>2. DocsTypeOK'
    BY <1>0, <1>4, <2>1, LoadTypeOK, DocsUnchanged DEF LoadFor
  <2> QED
    BY <1>4, <2>1, <2>2, LoadTypeOK DEF LoadFor, TypeOK
<1>5. ASSUME NEW e \in Editors, NEW d \in Drafts, NEW sure \in {"yes", "no"},
             LoadForPublish(e, d, sure)
      PROVE TypeOK'
  <2>1. payload[d] \in Payloads /\ "preview" \in Stages
    BY DEF TypeOK, Stages
  <2>2. DocsTypeOK'
    BY <1>0, <1>5, <2>1, LoadTypeOK, DocsUnchanged DEF LoadForPublish
  <2> QED
    BY <1>5, <2>1, <2>2, LoadTypeOK DEF LoadForPublish, TypeOK
<1>6. ASSUME NEW e \in Editors, ReadLive(e) PROVE TypeOK'
  <2> DEFINE b == [s \in Surfaces |->
          IF want[e][s] = NoDoc THEN NoEtag
          ELSE IF pc[e] = "update_live" /\ basis[e][s] # NoEtag THEN basis[e][s]
          ELSE Etag(s)]
  <2>1. b \in [Surfaces -> Etags]
    BY <1>0, EtagType, NoEtagType DEF TypeOK
  <2>2. basis' = [basis EXCEPT ![e] = b]
    BY <1>6 DEF ReadLive
  <2>3. DocsTypeOK'
    BY <1>0, <1>6, DocsUnchanged DEF ReadLive
  <2>4. pc' \in [Editors -> Stages]
    BY <1>6 DEF ReadLive, Goto, TypeOK, Stages
  <2> HIDE DEF b
  <2> QED
    BY <1>6, <2>1, <2>2, <2>3, <2>4 DEF ReadLive, TypeOK, draftVars
<1>8. ASSUME NEW e \in Editors, BumpVersion(e) PROVE version' \in [Drafts -> Nat]
  <2>1. version \in [Drafts -> Nat]
    BY DEF TypeOK
  <2>2. version' = [version EXCEPT ![target[e]] = version[target[e]] + 1]
    BY <1>8 DEF BumpVersion
  <2>3. CASE target[e] \in Drafts
    BY <2>1, <2>2, <2>3
  <2>4. CASE target[e] \notin Drafts
    BY <2>1, <2>2, <2>4
  <2> QED
    BY <2>3, <2>4
<1>9. ASSUME NEW e \in Editors, WriteUpdate(e) PROVE TypeOK'
  <2>1. want[e] \in Payloads /\ basis[e] \in [Surfaces -> Etags]
    BY DEF TypeOK
  <2>2. payload' \in [Drafts -> Payloads] /\ base' \in [Drafts -> [Surfaces -> Etags]]
    BY <1>9, <2>1 DEF WriteUpdate, TypeOK
  <2>3. "reload" \in Stages /\ DocsTypeOK'
    BY <1>0, <1>9, DocsUnchanged DEF WriteUpdate, Stages
  <2> QED
    BY <1>8, <1>9, <2>2, <2>3, FinishTypeOK DEF WriteUpdate, TypeOK
<1>10. ASSUME NEW e \in Editors, WriteRebase(e) PROVE TypeOK'
  <2>1. basis[e] \in [Surfaces -> Etags]
    BY DEF TypeOK
  <2>2. base' \in [Drafts -> [Surfaces -> Etags]]
    BY <1>10, <2>1 DEF WriteRebase, TypeOK
  <2>3. "reload" \in Stages /\ DocsTypeOK'
    BY <1>0, <1>10, DocsUnchanged DEF WriteRebase, Stages
  <2> QED
    BY <1>8, <1>10, <2>2, <2>3, FinishTypeOK DEF WriteRebase, TypeOK
<1>11. ASSUME NEW e \in Editors, Discard(e) PROVE TypeOK'
  <2>1. "reload" \in Stages /\ DocsTypeOK'
    BY <1>0, <1>11, DocsUnchanged DEF Discard, Stages
  <2>2. status' \in [Drafts -> {"none", "open", "published", "discarded", "expired"}]
    BY <1>11 DEF Discard, TypeOK
  <2> QED
    BY <1>8, <1>11, <2>1, <2>2, FinishTypeOK DEF Discard, TypeOK
<1>12. ASSUME NEW e \in Editors, ReadBefore(e) PROVE TypeOK'
  <2>1. DocsTypeOK'
    BY <1>0, <1>12, DocsUnchanged DEF ReadBefore
  <2>2. <<doc["policy"], NoDoc>> \in (Docs \cup {NoDoc}) \X (Docs \cup {NoDoc})
    BY <1>0, DraftAssumption DEF DocsTypeOK
  <2> QED
    BY <1>12, <2>1, <2>2 DEF ReadBefore, Goto, TypeOK, Stages, draftVars
<1>13. ASSUME NEW e \in Editors, ReadOverview(e) PROVE TypeOK'
  <2>1. DocsTypeOK'
    BY <1>0, <1>13, DocsUnchanged DEF ReadOverview
  <2>2. <<before[e][1], doc["resources"]>>
          \in (Docs \cup {NoDoc}) \X (Docs \cup {NoDoc})
    BY <1>0, DraftAssumption DEF DocsTypeOK, TypeOK
  <2> QED
    BY <1>13, <2>1, <2>2 DEF ReadOverview, Goto, TypeOK, Stages, draftVars
<1>14. ASSUME NEW e \in Editors, ApplyAndRollBack(e) PROVE TypeOK'
  <2>1. DocsTypeOK'
    BY <1>0, <1>14, DocsUnchanged DEF ApplyAndRollBack
  <2> QED
    BY <1>14, <2>1
    DEF ApplyAndRollBack, Goto, TypeOK, Stages, draftVars, workVars
<1>15. ASSUME NEW e \in Editors, Publish(e) PROVE TypeOK'
  <2>1. Applied(e) \in [Surfaces -> Docs] /\ want[e]["dns"] \in Docs \cup {NoDoc}
    BY AppliedType, DraftAssumption DEF TypeOK, Payloads
  <2>2. doc' \in [Surfaces -> Docs]
    BY <1>15, <2>1 DEF Publish
  <2>3. rev' \in [Surfaces -> Nat \ {0}]
    <3>1. \A s \in Surfaces :
            rev[s] + (IF Applied(e)[s] = doc[s] THEN 0 ELSE 1) \in Nat \ {0}
      BY <1>0 DEF DocsTypeOK
    <3> QED
      BY <1>15, <3>1 DEF Publish
  <2>4. DOMAIN hist' \subseteq Nat /\ \A r \in DOMAIN hist' : hist'[r] \in Docs
    <3>1. CASE Applied(e)["dns"] = doc["dns"]
      BY <1>0, <1>15, <3>1 DEF Publish, DocsTypeOK
    <3>2. CASE Applied(e)["dns"] # doc["dns"]
      <4>1. want[e]["dns"] \in Docs
        BY <2>1, <3>2, DraftAssumption DEF Applied
      <4>2. rev["dns"] + 1 \in Nat
        BY <1>0, DraftAssumption DEF DocsTypeOK
      <4> QED
        BY <1>0, <1>15, <3>2, <4>1, <4>2, RecordTypeOK DEF Publish
    <3> QED
      BY <3>1, <3>2
  <2>5. DocsTypeOK'
    BY <1>0, <1>15, <2>2, <2>3, <2>4 DEF Publish, Bump, putVars, DocsTypeOK
  <2>6. status' \in [Drafts -> {"none", "open", "published", "discarded", "expired"}]
    BY <1>15 DEF Publish, TypeOK
  <2>7. "reload" \in Stages
    BY DEF Stages
  <2> QED
    BY <1>8, <1>15, <2>5, <2>6, <2>7, FinishTypeOK DEF Publish, TypeOK
<1>16. ASSUME NEW e \in Editors, Reload(e) PROVE TypeOK'
  <2>1. "idle" \in Stages /\ DocsTypeOK'
    BY <1>0, <1>16, DocsUnchanged DEF Reload, Stages
  <2> QED
    BY <1>16, <2>1, FinishTypeOK, ExpiredType DEF Reload, TypeOK
<1>17. ASSUME NEW e \in Editors, Refuse(e) PROVE TypeOK'
  <2>1. "idle" \in Stages /\ DocsTypeOK'
    BY <1>0, <1>17, DocsUnchanged DEF Refuse, Stages
  <2> QED
    BY <1>17, <2>1, FinishTypeOK DEF Refuse, TypeOK, draftVars
<1>18. ASSUME NEW d \in Drafts, Lapse(d) PROVE TypeOK'
  <2>1. DocsTypeOK'
    BY <1>0, <1>18, DocsUnchanged DEF Lapse
  <2> QED
    BY <1>18, <2>1 DEF Lapse, TypeOK, workVars
<1>19. ASSUME Writes, UNCHANGED <<draftVars, pc, workVars>> PROVE TypeOK'
  <2>1. DocsTypeOK'
    BY <1>0, <1>19, DocsStepTypeOK DEF DocsNext
  <2> QED
    BY <1>19, <2>1 DEF TypeOK, draftVars, workVars
<1>20. CASE UNCHANGED vars
  <2>1. DocsTypeOK'
    BY <1>0, <1>20, DocsUnchanged DEF vars
  <2> QED
    BY <1>20, <2>1 DEF TypeOK, vars, draftVars, workVars
<1> QED
  BY <1>1, <1>2, <1>3, <1>4, <1>5, <1>6, <1>9, <1>10, <1>11, <1>12, <1>13,
     <1>14, <1>15, <1>16, <1>17, <1>18, <1>19, <1>20 DEF Next

(* Every variable of ChangeDrafts keeps its type.                          *)
THEOREM TypeCorrect == Spec => []TypeOK
BY InitTypeOK, StepTypeOK, PTL DEF Spec

-----------------------------------------------------------------------------
(* What a step may do to a draft, to a request that publishes, and to the  *)
(* resources.                                                              *)

Publishing == {"preview", "overview", "apply", "commit"}

(* A draft that exists keeps its payload and base or gets a higher         *)
(* version; a closed one keeps everything.                                 *)
DraftStep(d) ==
  /\ status[d] # "none" =>
       /\ status'[d] # "none"
       /\ version'[d] >= version[d]
       /\ version'[d] = version[d] => payload'[d] = payload[d] /\ base'[d] = base[d]
  /\ status[d] \in {"published", "discarded", "expired"} =>
       /\ status'[d] = status[d] /\ version'[d] = version[d]
       /\ payload'[d] = payload[d] /\ base'[d] = base[d]

Kept(x) ==
  /\ pc'[x] = pc[x] /\ target'[x] = target[x] /\ ver'[x] = ver[x]
  /\ want'[x] = want[x] /\ basis'[x] = basis[x] /\ confirm'[x] = confirm[x]
  /\ before'[x] = before[x]

(* A publishing request stands still or takes one of its own steps.        *)
EditorStep(x) ==
  pc'[x] \in Publishing =>
    \/ Kept(x)
    \/ ReadBefore(x)
    \/ ReadOverview(x)
    \/ ApplyAndRollBack(x)
    \/ \E d \in Drafts, sure \in {"yes", "no"} : LoadForPublish(x, d, sure)

ResourcesStep ==
  \/ rev'["resources"] = rev["resources"] /\ doc'["resources"] = doc["resources"]
  \/ rev'["resources"] > rev["resources"]

(* Only publish() leaves "commit" for "reload" or publishes a draft.       *)
PublishStep ==
  /\ \A x \in Editors : pc[x] = "commit" /\ pc'[x] = "reload" => Publish(x)
  /\ \A d \in Drafts : status[d] # "published" /\ status'[d] = "published" =>
       \E x \in Editors : Publish(x) /\ target[x] = d

Effects ==
  /\ \A d \in Drafts : DraftStep(d)
  /\ \A x \in Editors : EditorStep(x)
  /\ ResourcesStep
  /\ PublishStep

(* Finish() ends a request and leaves the others alone.                    *)
LEMMA FinishKeeps ==
  ASSUME TypeOK, NEW e \in Editors, NEW stage \in {"idle", "reload"},
         Finish(e, stage)
  PROVE  /\ \A x \in Editors \ {e} : Kept(x)
         /\ pc'[e] = stage
         /\ \A x \in Editors : EditorStep(x)
<1>1. \A x \in Editors \ {e} : Kept(x)
  BY DEF TypeOK, Finish, Goto, Kept
<1>2. pc'[e] = stage
  BY DEF TypeOK, Finish, Goto
<1> QED
  BY <1>1, <1>2 DEF EditorStep, Publishing

(* The requests other than e are left alone.                               *)
LEMMA OthersKept ==
  ASSUME TypeOK, NEW e \in Editors, NEW stage, Goto(e, stage),
         target' = target \/ (\E d : target' = [target EXCEPT ![e] = d]),
         ver' = ver \/ (\E v : ver' = [ver EXCEPT ![e] = v]),
         want' = want \/ (\E w : want' = [want EXCEPT ![e] = w]),
         basis' = basis \/ (\E b : basis' = [basis EXCEPT ![e] = b]),
         confirm' = confirm \/ (\E c : confirm' = [confirm EXCEPT ![e] = c]),
         before' = before \/ (\E b : before' = [before EXCEPT ![e] = b])
  PROVE  /\ \A x \in Editors \ {e} : Kept(x)
         /\ pc'[e] = stage
<1> SUFFICES ASSUME NEW x \in Editors, x # e PROVE Kept(x)
  BY DEF Goto, TypeOK
<1>1. pc'[x] = pc[x]
  BY DEF Goto, TypeOK
<1>2. target'[x] = target[x]
  BY DEF TypeOK
<1>3. ver'[x] = ver[x]
  BY DEF TypeOK
<1>4. want'[x] = want[x]
  BY DEF TypeOK
<1>5. basis'[x] = basis[x]
  BY DEF TypeOK
<1>6. confirm'[x] = confirm[x]
  BY DEF TypeOK
<1>7. before'[x] = before[x]
  BY DEF TypeOK
<1> QED
  BY <1>1, <1>2, <1>3, <1>4, <1>5, <1>6, <1>7 DEF Kept

(* Nothing about the drafts or documents moves but what expire_drafts()    *)
(* does, and no draft is published.                                        *)
LEMMA QuietEffects ==
  ASSUME TypeOK, status' = status \/ status' = Expired,
         UNCHANGED <<documentVars, version, payload, base>>
  PROVE  /\ \A d \in Drafts : DraftStep(d)
         /\ ResourcesStep
         /\ \A d \in Drafts : status'[d] = "published" => status[d] = "published"
<1>1. ASSUME NEW d \in Drafts
      PROVE  /\ status[d] # "open" => status'[d] = status[d]
             /\ status[d] = "open" => status'[d] \in {"open", "expired"}
  BY DEF Expired
<1>2. ResourcesStep
  BY DEF ResourcesStep, documentVars, docVars
<1>3. ASSUME NEW d \in Drafts PROVE DraftStep(d)
  <2>1. version[d] \in Nat /\ version'[d] = version[d]
        /\ payload'[d] = payload[d] /\ base'[d] = base[d]
    BY DEF TypeOK
  <2> QED
    BY <1>1, <2>1 DEF DraftStep
<1>4. \A d \in Drafts : status'[d] = "published" => status[d] = "published"
  BY <1>1
<1> QED
  BY <1>2, <1>3, <1>4

(* A step of e that changes its draft alone , with a higher version.          *)
LEMMA BumpedEffects ==
  ASSUME TypeOK, NEW e \in Editors, Unmoved(e), BumpVersion(e),
         status' = status
           \/ (\E st \in {"published", "discarded"} :
                  status' = [status EXCEPT ![target[e]] = st]),
         payload' = payload \/ (\E v : payload' = [payload EXCEPT ![target[e]] = v]),
         base' = base \/ (\E v : base' = [base EXCEPT ![target[e]] = v])
  PROVE  \A d \in Drafts : DraftStep(d)
<1> SUFFICES ASSUME NEW d \in Drafts PROVE DraftStep(d)
  OBVIOUS
<1>1. CASE d = target[e]
  <2>1. status[d] = "open" /\ version'[d] = version[d] + 1 /\ version[d] \in Nat
    BY <1>1 DEF Unmoved, BumpVersion, TypeOK
  <2>2. status'[d] # "none"
    BY <1>1, <2>1 DEF TypeOK
  <2> QED
    BY <2>1, <2>2 DEF DraftStep
<1>2. CASE d # target[e]
  <2>1. version'[d] = version[d] /\ version[d] \in Nat
    BY <1>2 DEF BumpVersion, TypeOK
  <2>2. status'[d] = status[d]
    BY <1>2 DEF TypeOK
  <2>3. payload'[d] = payload[d]
    BY <1>2 DEF TypeOK
  <2>4. base'[d] = base[d]
    BY <1>2 DEF TypeOK
  <2> QED
    BY <2>1, <2>2, <2>3, <2>4 DEF DraftStep
<1> QED
  BY <1>1, <1>2

LEMMA StepEffects == TypeOK /\ [Next]_vars => Effects
<1> SUFFICES ASSUME TypeOK, [Next]_vars PROVE Effects
  OBVIOUS
<1>1. ASSUME NEW e \in Editors, NEW chosen \in Proposals, CountOpen(e, chosen)
      PROVE Effects
  <2>1. /\ \A x \in Drafts : DraftStep(x)
        /\ ResourcesStep
        /\ \A x \in Drafts : status'[x] = "published" => status[x] = "published"
    BY <1>1, QuietEffects DEF CountOpen
  <2>2. (\A x \in Editors \ {e} : Kept(x)) /\ pc'[e] = "insert"
    BY <1>1, OthersKept DEF CountOpen
  <2>3. \A x \in Editors : EditorStep(x)
    BY <1>1, <2>2 DEF EditorStep, Publishing
  <2> QED
    BY <2>1, <2>2, <2>3 DEF Effects, PublishStep, Kept
<1>2. ASSUME NEW e \in Editors, NEW d \in Drafts, NEW new \in Proposals, LoadForUpdate(e, d, new)
      PROVE Effects
  <2>1. /\ \A x \in Drafts : DraftStep(x)
        /\ ResourcesStep
        /\ \A x \in Drafts : status'[x] = "published" => status[x] = "published"
    BY <1>2, QuietEffects DEF LoadForUpdate, Load
  <2>2. (\A x \in Editors \ {e} : Kept(x)) /\ pc'[e] = "update_live"
    BY <1>2, OthersKept DEF LoadForUpdate, Load
  <2>3. \A x \in Editors : EditorStep(x)
    BY <1>2, <2>2 DEF EditorStep, Publishing
  <2> QED
    BY <2>1, <2>2, <2>3 DEF Effects, PublishStep, Kept
<1>3. ASSUME NEW e \in Editors, NEW d \in Drafts, NEW stage \in {"rebase_live", "discard"}, LoadFor(e, d, stage)
      PROVE Effects
  <2>1. /\ \A x \in Drafts : DraftStep(x)
        /\ ResourcesStep
        /\ \A x \in Drafts : status'[x] = "published" => status[x] = "published"
    BY <1>3, QuietEffects DEF LoadFor, Load
  <2>2. (\A x \in Editors \ {e} : Kept(x)) /\ pc'[e] \in {"rebase_live", "discard"}
    BY <1>3, OthersKept DEF LoadFor, Load
  <2>3. \A x \in Editors : EditorStep(x)
    BY <1>3, <2>2 DEF EditorStep, Publishing
  <2> QED
    BY <2>1, <2>2, <2>3 DEF Effects, PublishStep, Kept
<1>4. ASSUME NEW e \in Editors, NEW d \in Drafts, NEW sure \in {"yes", "no"}, LoadForPublish(e, d, sure)
      PROVE Effects
  <2>1. /\ \A x \in Drafts : DraftStep(x)
        /\ ResourcesStep
        /\ \A x \in Drafts : status'[x] = "published" => status[x] = "published"
    BY <1>4, QuietEffects DEF LoadForPublish, Load
  <2>2. (\A x \in Editors \ {e} : Kept(x)) /\ pc'[e] = "preview"
    BY <1>4, OthersKept DEF LoadForPublish, Load
  <2>3. \A x \in Editors : EditorStep(x)
    BY <1>4, <2>2 DEF EditorStep, Publishing
  <2> QED
    BY <2>1, <2>2, <2>3 DEF Effects, PublishStep, Kept
<1>5. ASSUME NEW e \in Editors, ReadLive(e)
      PROVE Effects
  <2>1. /\ \A x \in Drafts : DraftStep(x)
        /\ ResourcesStep
        /\ \A x \in Drafts : status'[x] = "published" => status[x] = "published"
    BY <1>5, QuietEffects DEF ReadLive, draftVars
  <2>2. (\A x \in Editors \ {e} : Kept(x)) /\ pc'[e] \in {"update", "rebase"}
    BY <1>5, OthersKept DEF ReadLive, draftVars
  <2>3. \A x \in Editors : EditorStep(x)
    BY <1>5, <2>2 DEF EditorStep, Publishing
  <2> QED
    BY <2>1, <2>2, <2>3 DEF Effects, PublishStep, Kept
<1>6. ASSUME NEW e \in Editors, ReadBefore(e)
      PROVE Effects
  <2>1. /\ \A x \in Drafts : DraftStep(x)
        /\ ResourcesStep
        /\ \A x \in Drafts : status'[x] = "published" => status[x] = "published"
    BY <1>6, QuietEffects DEF ReadBefore, draftVars
  <2>2. (\A x \in Editors \ {e} : Kept(x)) /\ pc'[e] = "overview"
    BY <1>6, OthersKept DEF ReadBefore, draftVars
  <2>3. \A x \in Editors : EditorStep(x)
    BY <1>6, <2>2 DEF EditorStep, Publishing
  <2> QED
    BY <2>1, <2>2, <2>3 DEF Effects, PublishStep, Kept
<1>7. ASSUME NEW e \in Editors, ReadOverview(e)
      PROVE Effects
  <2>1. /\ \A x \in Drafts : DraftStep(x)
        /\ ResourcesStep
        /\ \A x \in Drafts : status'[x] = "published" => status[x] = "published"
    BY <1>7, QuietEffects DEF ReadOverview, draftVars
  <2>2. (\A x \in Editors \ {e} : Kept(x)) /\ pc'[e] = "apply"
    BY <1>7, OthersKept DEF ReadOverview, draftVars
  <2>3. \A x \in Editors : EditorStep(x)
    BY <1>7, <2>2 DEF EditorStep, Publishing
  <2> QED
    BY <2>1, <2>2, <2>3 DEF Effects, PublishStep, Kept
<1>8. ASSUME NEW e \in Editors, ApplyAndRollBack(e)
      PROVE Effects
  <2>1. /\ \A x \in Drafts : DraftStep(x)
        /\ ResourcesStep
        /\ \A x \in Drafts : status'[x] = "published" => status[x] = "published"
    BY <1>8, QuietEffects DEF ApplyAndRollBack, draftVars, workVars
  <2>2. (\A x \in Editors \ {e} : Kept(x)) /\ pc'[e] = "commit"
    BY <1>8, OthersKept DEF ApplyAndRollBack, draftVars, workVars
  <2>3. \A x \in Editors : EditorStep(x)
    BY <1>8, <2>2 DEF EditorStep, Publishing
  <2> QED
    BY <2>1, <2>2, <2>3 DEF Effects, PublishStep, Kept
<1>9. ASSUME NEW e \in Editors, Reload(e) PROVE Effects
  <2>1. /\ \A x \in Drafts : DraftStep(x)
        /\ ResourcesStep
        /\ \A x \in Drafts : status'[x] = "published" => status[x] = "published"
    BY <1>9, QuietEffects DEF Reload
  <2>2. /\ \A x \in Editors \ {e} : Kept(x)
        /\ pc'[e] = "idle"
        /\ \A x \in Editors : EditorStep(x)
    BY <1>9, FinishKeeps DEF Reload
  <2> QED
    BY <2>1, <2>2 DEF Effects, PublishStep, Kept
<1>10. ASSUME NEW e \in Editors, Refuse(e) PROVE Effects
  <2>1. /\ \A x \in Drafts : DraftStep(x)
        /\ ResourcesStep
        /\ \A x \in Drafts : status'[x] = "published" => status[x] = "published"
    BY <1>10, QuietEffects DEF Refuse, draftVars
  <2>2. /\ \A x \in Editors \ {e} : Kept(x)
        /\ pc'[e] = "idle"
        /\ \A x \in Editors : EditorStep(x)
    BY <1>10, FinishKeeps DEF Refuse, draftVars
  <2> QED
    BY <2>1, <2>2 DEF Effects, PublishStep, Kept
<1>11. ASSUME NEW e \in Editors, WriteUpdate(e) PROVE Effects
  <2>1. \A x \in Drafts : DraftStep(x)
    BY <1>11, BumpedEffects DEF WriteUpdate
  <2>2. /\ \A x \in Editors \ {e} : Kept(x)
        /\ pc'[e] = "reload"
        /\ \A x \in Editors : EditorStep(x)
    BY <1>11, FinishKeeps DEF WriteUpdate
  <2>3. ResourcesStep
    BY <1>11 DEF WriteUpdate, ResourcesStep, documentVars, docVars
  <2>4. \A x \in Drafts : status'[x] = "published" => status[x] = "published"
    BY <1>11 DEF WriteUpdate, TypeOK
  <2>5. pc[e] # "commit"
    BY <1>11 DEF WriteUpdate
  <2> QED
    BY <2>1, <2>2, <2>3, <2>4, <2>5 DEF Effects, PublishStep, Kept
<1>12. ASSUME NEW e \in Editors, WriteRebase(e) PROVE Effects
  <2>1. \A x \in Drafts : DraftStep(x)
    BY <1>12, BumpedEffects DEF WriteRebase
  <2>2. /\ \A x \in Editors \ {e} : Kept(x)
        /\ pc'[e] = "reload"
        /\ \A x \in Editors : EditorStep(x)
    BY <1>12, FinishKeeps DEF WriteRebase
  <2>3. ResourcesStep
    BY <1>12 DEF WriteRebase, ResourcesStep, documentVars, docVars
  <2>4. \A x \in Drafts : status'[x] = "published" => status[x] = "published"
    BY <1>12 DEF WriteRebase, TypeOK
  <2>5. pc[e] # "commit"
    BY <1>12 DEF WriteRebase
  <2> QED
    BY <2>1, <2>2, <2>3, <2>4, <2>5 DEF Effects, PublishStep, Kept
<1>13. ASSUME NEW e \in Editors, Discard(e) PROVE Effects
  <2>1. \A x \in Drafts : DraftStep(x)
    BY <1>13, BumpedEffects DEF Discard
  <2>2. /\ \A x \in Editors \ {e} : Kept(x)
        /\ pc'[e] = "reload"
        /\ \A x \in Editors : EditorStep(x)
    BY <1>13, FinishKeeps DEF Discard
  <2>3. ResourcesStep
    BY <1>13 DEF Discard, ResourcesStep, documentVars, docVars
  <2>4. \A x \in Drafts : status'[x] = "published" => status[x] = "published"
    BY <1>13 DEF Discard, TypeOK
  <2>5. pc[e] # "commit"
    BY <1>13 DEF Discard
  <2> QED
    BY <2>1, <2>2, <2>3, <2>4, <2>5 DEF Effects, PublishStep, Kept
<1>14. ASSUME NEW e \in Editors, Publish(e) PROVE Effects
  <2>1. \A x \in Drafts : DraftStep(x)
    BY <1>14, BumpedEffects DEF Publish
  <2>2. /\ \A x \in Editors \ {e} : Kept(x)
        /\ pc'[e] = "reload"
        /\ \A x \in Editors : EditorStep(x)
    BY <1>14, FinishKeeps DEF Publish
  <2>3. ResourcesStep
    BY <1>14, DraftAssumption DEF Publish, ResourcesStep, TypeOK, DocsTypeOK
  <2>4. \A x \in Drafts : x # target[e] => status'[x] = status[x]
    BY <1>14 DEF Publish, TypeOK
  <2> QED
    BY <1>14, <2>1, <2>2, <2>3, <2>4 DEF Effects, PublishStep, Kept
<1>15. ASSUME NEW e \in Editors, NEW d \in Drafts, Insert(e, d) PROVE Effects
  <2>1. \A x \in Drafts : DraftStep(x)
    <3> SUFFICES ASSUME NEW x \in Drafts, status[x] # "none" PROVE DraftStep(x)
      BY DEF DraftStep
    <3>1. x # d
      BY <1>15 DEF Insert
    <3>2. /\ status'[x] = status[x] /\ version'[x] = version[x]
          /\ payload'[x] = payload[x] /\ base'[x] = base[x]
      BY <1>15, <3>1 DEF Insert, TypeOK
    <3>3. version[x] \in Nat
      BY DEF TypeOK
    <3> QED
      BY <3>2, <3>3 DEF DraftStep
  <2>2. /\ \A x \in Editors \ {e} : Kept(x)
        /\ pc'[e] = "reload"
        /\ \A x \in Editors : EditorStep(x)
    BY <1>15, FinishKeeps DEF Insert
  <2>3. ResourcesStep
    BY <1>15 DEF Insert, ResourcesStep, documentVars, docVars
  <2>4. \A x \in Drafts : status'[x] = "published" => status[x] = "published"
    BY <1>15 DEF Insert, TypeOK
  <2>5. pc[e] # "commit"
    BY <1>15 DEF Insert
  <2> QED
    BY <2>1, <2>2, <2>3, <2>4, <2>5 DEF Effects, PublishStep, Kept
<1>16. ASSUME UNCHANGED <<draftVars, pc, workVars>>, ResourcesStep PROVE Effects
  <2>1. \A x \in Drafts : DraftStep(x)
    BY <1>16 DEF DraftStep, draftVars, TypeOK
  <2>2. \A x \in Editors : Kept(x)
    BY <1>16 DEF Kept, workVars
  <2> QED
    BY <1>16, <2>1, <2>2 DEF Effects, PublishStep, EditorStep, Kept, draftVars
<1>17. ASSUME NEW d \in Drafts, Lapse(d) PROVE Effects
  <2>1. /\ \A x \in Drafts : DraftStep(x)
        /\ ResourcesStep
        /\ \A x \in Drafts : status'[x] = "published" => status[x] = "published"
    BY <1>17, QuietEffects DEF Lapse
  <2>2. \A x \in Editors : Kept(x)
    BY <1>17 DEF Lapse, Kept, workVars
  <2> QED
    BY <2>1, <2>2 DEF Effects, PublishStep, EditorStep, Kept
<1>18. ASSUME Writes, UNCHANGED <<draftVars, pc, workVars>> PROVE Effects
  <2>1. ASSUME NEW p \in Procs, ReadDns(p) \/ FailDns(p) PROVE ResourcesStep
    BY <2>1 DEF ReadDns, FailDns, ResourcesStep, docVars
  <2>2. ASSUME NEW p \in Procs, NEW d \in Docs, PutAcl(p, d) \/ WriteDns(p, d)
        PROVE ResourcesStep
    BY <2>2, DraftAssumption
    DEF PutAcl, WriteDns, ResourcesStep, TypeOK, DocsTypeOK
  <2>3. ASSUME NEW d \in Docs, WriteResources(d) PROVE ResourcesStep
    BY <2>3, DraftAssumption DEF WriteResources, ResourcesStep, TypeOK, DocsTypeOK
  <2> QED
    BY <1>16, <1>18, <2>1, <2>2, <2>3 DEF Writes
<1>19. CASE UNCHANGED vars
  BY <1>16, <1>19 DEF vars, documentVars, docVars, ResourcesStep
<1> QED
  BY <1>1, <1>2, <1>3, <1>4, <1>5, <1>6, <1>7, <1>8, <1>9, <1>10, <1>11, <1>12,
     <1>13, <1>14, <1>15, <1>16, <1>17, <1>18, <1>19 DEF Next

-----------------------------------------------------------------------------
(* The inductive invariant.                                                *)

(* A publishing request's copy is the stored draft as long as the version  *)
(* is the one it loaded.                                                   *)
CopyIsStored(e) ==
  pc[e] \in Publishing =>
    /\ target[e] \in Drafts
    /\ status[target[e]] # "none"
    /\ ver[e] <= version[target[e]]
    /\ version[target[e]] = ver[e] =>
         want[e] = payload[target[e]] /\ basis[e] = base[target[e]]

(* What the preview read is what the etags of the base stand for: the      *)
(* policy by content, the resources until their revision moves on.         *)
ReadIsBase(e) ==
  /\ pc[e] \in {"overview", "apply", "commit"} =>
       /\ want[e]["policy"] # NoDoc => basis[e]["policy"] = <<0, before[e][1]>>
       /\ want[e]["resources"] # NoDoc => basis[e]["resources"][1] <= rev["resources"]
  /\ (/\ pc[e] \in {"apply", "commit"} /\ want[e]["resources"] # NoDoc
      /\ basis[e]["resources"][1] = rev["resources"])
       => before[e][2] = doc["resources"]

(* A request about to publish has confirmed what its preview widened.      *)
WideningConfirmed(e) ==
  /\ pc[e] = "commit"
  /\ want[e]["policy"] # NoDoc /\ want[e]["resources"] # NoDoc
  /\ before[e] \notin Opens
  /\ <<want[e]["policy"], want[e]["resources"]>> \in Opens
  => confirm[e] = "yes"

EditorInv(e) == CopyIsStored(e) /\ ReadIsBase(e) /\ WideningConfirmed(e)

IInv == TypeOK /\ \A e \in Editors : EditorInv(e)

LEMMA InitIInv == Init => IInv
BY InitTypeOK
DEF Init, IInv, EditorInv, CopyIsStored, ReadIsBase, WideningConfirmed, Publishing

LEMMA CopyPreserved ==
  ASSUME TypeOK, Effects, NEW e \in Editors, CopyIsStored(e), TypeOK'
  PROVE  CopyIsStored(e)'
<1> SUFFICES ASSUME pc'[e] \in Publishing PROVE CopyIsStored(e)'
  BY DEF CopyIsStored
<1>1. ASSUME pc[e] \in Publishing, target'[e] = target[e], ver'[e] = ver[e],
             want'[e] = want[e], basis'[e] = basis[e]
      PROVE CopyIsStored(e)'
  <2>1. target[e] \in Drafts /\ DraftStep(target[e])
    BY <1>1 DEF CopyIsStored, Effects
  <2>2. /\ ver[e] \in Nat /\ version[target[e]] \in Nat
        /\ version'[target[e]] \in Nat
        /\ version'[target[e]] >= version[target[e]]
        /\ status'[target[e]] # "none"
    BY <1>1, <2>1 DEF CopyIsStored, DraftStep, TypeOK
  <2>3. ver[e] <= version'[target[e]]
    BY <1>1, <2>2 DEF CopyIsStored
  <2> QED
    BY <1>1, <2>1, <2>2, <2>3 DEF CopyIsStored, DraftStep
<1>2. CASE Kept(e)
  BY <1>1, <1>2 DEF Kept
<1>3. CASE ReadBefore(e) \/ ReadOverview(e) \/ ApplyAndRollBack(e)
  BY <1>1, <1>3 DEF ReadBefore, ReadOverview, ApplyAndRollBack, Publishing, workVars
<1>4. ASSUME NEW d \in Drafts, NEW sure \in {"yes", "no"},
             LoadForPublish(e, d, sure)
      PROVE CopyIsStored(e)'
  <2>1. /\ target'[e] = d /\ ver'[e] = version[d]
        /\ want'[e] = payload[d] /\ basis'[e] = base[d]
        /\ status'[d] = "open" /\ version[d] \in Nat
        /\ version' = version /\ payload' = payload /\ base' = base
    BY <1>4 DEF LoadForPublish, Load, TypeOK
  <2> QED
    BY <2>1 DEF CopyIsStored
<1> QED
  BY <1>2, <1>3, <1>4 DEF Effects, EditorStep

LEMMA ReadPreserved ==
  ASSUME TypeOK, Effects, NEW e \in Editors, ReadIsBase(e), TypeOK'
  PROVE  ReadIsBase(e)'
<1>0. /\ rev["resources"] \in Nat /\ rev'["resources"] \in Nat
      /\ basis[e]["resources"][1] \in Nat
  BY DraftAssumption DEF TypeOK, DocsTypeOK, Etags
<1> SUFFICES ASSUME pc'[e] \in {"overview", "apply", "commit"}
             PROVE  ReadIsBase(e)'
  BY DEF ReadIsBase
<1>1. ASSUME UNCHANGED <<want[e], basis[e], before[e]>>,
             pc[e] \in {"overview", "apply", "commit"},
             pc'[e] \in {"apply", "commit"} => pc[e] \in {"apply", "commit"}
      PROVE ReadIsBase(e)'
  BY <1>0, <1>1 DEF ReadIsBase, Effects, ResourcesStep
<1>2. CASE Kept(e)
  BY <1>1, <1>2 DEF Kept
<1>3. CASE ReadBefore(e)
  <2>1. /\ pc'[e] = "overview" /\ want'[e] = want[e] /\ basis'[e] = basis[e]
        /\ before'[e] = <<doc["policy"], NoDoc>>
        /\ rev' = rev
    BY <1>3 DEF ReadBefore, Goto, TypeOK, documentVars, docVars
  <2>2. want[e]["policy"] # NoDoc => basis[e]["policy"] = <<0, doc["policy"]>>
    BY <1>3, DraftAssumption DEF ReadBefore, Fresh, Touched, Etag
  <2>3. want[e]["resources"] # NoDoc => basis[e]["resources"][1] = rev["resources"]
    BY <1>3, DraftAssumption DEF ReadBefore, Fresh, Touched, Etag
  <2> QED
    BY <1>0, <2>1, <2>2, <2>3 DEF ReadIsBase
<1>4. CASE ReadOverview(e)
  <2>1. /\ pc[e] = "overview" /\ pc'[e] = "apply"
        /\ want'[e] = want[e] /\ basis'[e] = basis[e]
        /\ before'[e] = <<before[e][1], doc["resources"]>>
        /\ rev' = rev /\ doc' = doc
    BY <1>4 DEF ReadOverview, Goto, TypeOK, documentVars, docVars
  <2> QED
    BY <2>1 DEF ReadIsBase
<1>5. CASE ApplyAndRollBack(e)
  BY <1>1, <1>5 DEF ApplyAndRollBack, workVars
<1>6. ASSUME NEW d \in Drafts, NEW sure \in {"yes", "no"},
             LoadForPublish(e, d, sure)
      PROVE FALSE
  BY <1>6 DEF LoadForPublish, Load, Goto, TypeOK
<1> QED
  BY <1>2, <1>3, <1>4, <1>5, <1>6 DEF Effects, EditorStep, Publishing

LEMMA WideningPreserved ==
  ASSUME TypeOK, Effects, NEW e \in Editors, WideningConfirmed(e)
  PROVE  WideningConfirmed(e)'
<1> SUFFICES ASSUME pc'[e] = "commit" PROVE WideningConfirmed(e)'
  BY DEF WideningConfirmed
<1>1. CASE Kept(e)
  BY <1>1 DEF Kept, WideningConfirmed
<1>2. CASE ApplyAndRollBack(e)
  <2>1. ASSUME want[e]["policy"] # NoDoc, want[e]["resources"] # NoDoc
        PROVE  After(e) = <<want[e]["policy"], want[e]["resources"]>>
    BY <2>1, DraftAssumption DEF After, Applied
  <2>2. UNCHANGED <<want, before, confirm>>
    BY <1>2 DEF ApplyAndRollBack, workVars
  <2> QED
    BY <1>2, <2>1, <2>2 DEF ApplyAndRollBack, WideningConfirmed
<1>3. CASE ReadBefore(e) \/ ReadOverview(e)
  BY <1>3 DEF ReadBefore, ReadOverview, Goto, TypeOK
<1>4. ASSUME NEW d \in Drafts, NEW sure \in {"yes", "no"},
             LoadForPublish(e, d, sure)
      PROVE FALSE
  BY <1>4 DEF LoadForPublish, Load, Goto, TypeOK
<1> QED
  BY <1>1, <1>2, <1>3, <1>4 DEF Effects, EditorStep, Publishing

LEMMA StepIInv == IInv /\ [Next]_vars => IInv'
<1> SUFFICES ASSUME IInv, [Next]_vars PROVE IInv'
  OBVIOUS
<1>1. TypeOK /\ TypeOK' /\ Effects
  BY StepTypeOK, StepEffects DEF IInv
<1>2. ASSUME NEW e \in Editors PROVE EditorInv(e)'
  BY <1>1, CopyPreserved, ReadPreserved, WideningPreserved DEF IInv, EditorInv
<1> QED
  BY <1>1, <1>2 DEF IInv

-----------------------------------------------------------------------------
(* A published, discarded or expired draft never changes again.            *)
THEOREM ClosedAlwaysFinal == Spec => ClosedIsFinal
<1>1. TypeOK /\ [Next]_vars =>
        \A d \in Drafts :
          status[d] \in {"published", "discarded", "expired"} =>
            /\ status'[d] = status[d] /\ version'[d] = version[d]
            /\ payload'[d] = payload[d] /\ base'[d] = base[d]
  BY StepEffects DEF Effects, DraftStep
<1> QED
  BY <1>1, TypeCorrect, PTL DEF Spec, ClosedIsFinal

(* publish() puts in force the draft that is stored, although it works on  *)
(* a copy: the version pins the copy and the etags pin its base.           *)
THEOREM AlwaysPublishesTheStoredDraft == Spec => PublishesTheStoredDraft
<1> DEFINE A == \A d \in Drafts :
       status[d] # "published" /\ status'[d] = "published" =>
         \A s \in Surfaces :
           IF payload[d][s] = NoDoc
           THEN doc'[s] = doc[s] /\ rev'[s] = rev[s]
           ELSE doc'[s] = payload[d][s] /\ base[d][s] = Etag(s)
<1>1. IInv /\ [Next]_vars => A
  <2> SUFFICES ASSUME IInv, [Next]_vars, NEW d \in Drafts,
                      status[d] # "published", status'[d] = "published",
                      NEW s \in Surfaces
               PROVE  IF payload[d][s] = NoDoc
                      THEN doc'[s] = doc[s] /\ rev'[s] = rev[s]
                      ELSE doc'[s] = payload[d][s] /\ base[d][s] = Etag(s)
    OBVIOUS
  <2>1. PICK e \in Editors : Publish(e) /\ target[e] = d
    BY StepEffects DEF IInv, Effects, PublishStep
  <2>2. want[e] = payload[d] /\ basis[e] = base[d]
    BY <2>1 DEF IInv, EditorInv, CopyIsStored, Publish, Unmoved, Publishing
  <2>3. doc' = Applied(e) /\ Fresh(e) /\ rev[s] \in Nat
        /\ rev'[s] = rev[s] + IF Applied(e)[s] = doc[s] THEN 0 ELSE 1
    BY <2>1 DEF Publish, IInv, TypeOK, DocsTypeOK
  <2>4. Applied(e)[s] = IF payload[d][s] = NoDoc THEN doc[s] ELSE payload[d][s]
    BY <2>2 DEF Applied
  <2>5. payload[d][s] # NoDoc => base[d][s] = Etag(s)
    BY <2>2, <2>3 DEF Fresh, Touched
  <2> QED
    BY <2>3, <2>4, <2>5
<1> QED
  BY <1>1, InitIInv, StepIInv, PTL DEF Spec, PublishesTheStoredDraft

(* A draft of both the policy and the resources opens no path that was not *)
(* confirmed: the etags that publish() checks under the lock pin what the  *)
(* preview compared.                                                       *)
THEOREM WholeDraftsAlwaysConfirmed == Spec => WholeDraftsAreConfirmed
<1> DEFINE A == \A e \in Editors :
       Opening(e) /\ {"policy", "resources"} \subseteq Touched(want[e]) =>
         confirm[e] = "yes"
<1>1. IInv /\ [Next]_vars => A
  <2> SUFFICES ASSUME IInv, [Next]_vars, NEW e \in Editors, Opening(e),
                      {"policy", "resources"} \subseteq Touched(want[e])
               PROVE  confirm[e] = "yes"
    OBVIOUS
  <2>1. Publish(e)
    BY StepEffects DEF IInv, Effects, PublishStep, Opening
  <2>2. want[e]["policy"] # NoDoc /\ want[e]["resources"] # NoDoc
    BY DEF Touched
  <2>3. /\ basis[e]["policy"] = <<0, doc["policy"]>>
        /\ basis[e]["resources"] = <<rev["resources"], doc["resources"]>>
    BY <2>1, <2>2, DraftAssumption DEF Publish, Fresh, Touched, Etag
  <2>4. before[e][1] = doc["policy"] /\ before[e][2] = doc["resources"]
    BY <2>1, <2>2, <2>3 DEF IInv, EditorInv, ReadIsBase, Publish
  <2>5. before[e] = <<doc["policy"], doc["resources"]>>
    BY <2>4 DEF IInv, TypeOK
  <2>6. /\ doc'["policy"] = want[e]["policy"]
        /\ doc'["resources"] = want[e]["resources"]
    BY <2>1, <2>2, DraftAssumption DEF Publish, Applied
  <2> QED
    BY <2>1, <2>2, <2>5, <2>6
    DEF Opening, IInv, EditorInv, WideningConfirmed, Publish
<1> QED
  BY <1>1, InitIInv, StepIInv, PTL DEF Spec, WholeDraftsAreConfirmed

(* A draft is published as it is stored, over the base it was made for, and *)
(* stays as it is once it is closed, with any number of editors.           *)
THEOREM DraftsAlwaysHold == Spec => DraftsHold
BY TypeCorrect, AlwaysPublishesTheStoredDraft, ClosedAlwaysFinal, PTL DEF DraftsHold
=============================================================================
