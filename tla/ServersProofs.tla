---------------------------- MODULE ServersProofs ----------------------------
(***************************************************************************)
(* The audit chain, routes, hardware pins, enrolment, agent gateway,       *)
(* schema and address pool of the coordinator, for any number of requests, *)
(* rows and devices.                                                       *)
(***************************************************************************)
EXTENDS AuditChain, Routes, PostureHardware, Enrolment, AgentGateway, Schema, Addresses,
        SequenceTheorems, FiniteSetTheorems, WellFoundedInduction, TLAPS

(* A set of numbers that is not empty has a least element: what induction  *)
(* is reduced to below.                                                    *)
LEMMA LeastNumber ==
  ASSUME NEW T, T \subseteq Nat, T # {}
  PROVE  \E x \in T : \A y \in T : x <= y
<1>1. PICK x \in T : \A y \in T : ~ (<<y, x>> \in OpToRel(<, Nat))
  BY WFMin, NatLessThanWellFounded
<1>2. ASSUME NEW y \in T PROVE x <= y
  <2>1. ~ (y < x)
    BY <1>1, <1>2 DEF OpToRel
  <2> QED
    BY <2>1
<1> QED
  BY <1>2

(* Some element of a finite set has the largest value: the one with the    *)
(* fewest above it.                                                        *)
LEMMA GreatestValue ==
  ASSUME NEW M, IsFiniteSet(M), M # {}, NEW f \in [M -> Nat]
  PROVE  \E m \in M : \A k \in M : f[k] <= f[m]
<1> DEFINE Above(m) == {k \in M : f[k] > f[m]}
           T == {Cardinality(Above(m)) : m \in M}
<1>1. ASSUME NEW m \in M PROVE IsFiniteSet(Above(m)) /\ Cardinality(Above(m)) \in Nat
  <2>1. Above(m) \in SUBSET M
    OBVIOUS
  <2> HIDE DEF Above
  <2>2. IsFiniteSet(Above(m))
    BY <2>1, FS_Subset
  <2> QED
    BY <2>2, FS_CardinalityType
<1>2. T \subseteq Nat /\ T # {}
  BY <1>1
<1>3. PICK m \in M : \A k \in M : Cardinality(Above(m)) <= Cardinality(Above(k))
  <2> HIDE DEF T
  <2>1. PICK t \in T : \A u \in T : t <= u
    BY <1>2, LeastNumber
  <2> QED
    BY <2>1 DEF T
<1>4. ASSUME NEW k \in M, ~(f[k] <= f[m]) PROVE FALSE
  <2>1. k \in Above(m) /\ k \notin Above(k) /\ Above(k) \in SUBSET Above(m)
    BY <1>4
  <2> HIDE DEF Above
  <2>2. Cardinality(Above(k)) <= Cardinality(Above(m)) /\ Cardinality(Above(k)) # Cardinality(Above(m))
    BY <1>1, <2>1, FS_Subset
  <2> QED
    BY <1>1, <1>3, <2>2
<1> QED
  BY <1>4

-----------------------------------------------------------------------------
(* The audit chain.                                                        *)
(* The columns of a row; tampering replaces values, not columns.           *)
IsRow(r) == r = [body |-> r.body, prev |-> r.prev, hash |-> r.hash]

(* What writers commit.                                                    *)
Committed ==
  /\ \E S : written \in Seq(S)
  /\ \A k \in 1..Len(written) : IsRow(written[k])
  /\ head.seq = Len(written)
  /\ ChainNeverForks

(* What is in the table: fewer rows than were committed, perhaps edited.   *)
Table ==
  /\ DOMAIN log \subseteq 1..Len(written)
  /\ \A k \in DOMAIN log : IsRow(log[k])

(* What the verification has: a head that was committed, rows that were in *)
(* the table, and a verdict that covers every one of them.                 *)
VerifierShape ==
  \/ verifier = Unused
  \/ /\ verifier = [step |-> verifier.step, head |-> verifier.head,
                    read |-> verifier.read, ok |-> verifier.ok]
     /\ verifier.step \in {"reading", "done"}
     /\ verifier.ok \in BOOLEAN
VerifierFacts ==
  verifier # Unused =>
    /\ verifier.head.seq \in 0..Len(written)
    /\ verifier.head.seq # 0 => verifier.head.hash = written[verifier.head.seq].hash
    /\ DOMAIN verifier.read \subseteq 1..Len(written)
    /\ \A k \in DOMAIN verifier.read : IsRow(verifier.read[k])
    /\ verifier.ok => \A k \in DOMAIN verifier.read : Checks(verifier.read, k)
    /\ verifier.step = "done" /\ verifier.ok => EndsAtHead(verifier.read, verifier.head)
ExporterShape ==
  \/ exporter = Unused
  \/ /\ exporter = [step |-> exporter.step, cursor |-> exporter.cursor,
                    events |-> exporter.events, must |-> exporter.must]
     /\ exporter.step \in {"paging", "done"}

ChainIInv ==
  /\ Committed /\ Table /\ DOMAIN composed \subseteq EventIds
  /\ VerifierShape /\ VerifierFacts /\ ExporterShape

LEMMA ChainInit == AuditInit => ChainIInv
<1> SUFFICES ASSUME AuditInit PROVE ChainIInv
  OBVIOUS
<1>1. written \in Seq({}) /\ Len(written) = 0 /\ written = << >> /\ DOMAIN written = {}
  BY DEF AuditInit
<1>2. Committed
  BY <1>1 DEF AuditInit, Committed, ChainNeverForks
<1> QED
  BY <1>1, <1>2 DEF AuditInit, ChainIInv, Table, VerifierShape, VerifierFacts, ExporterShape

(* A verdict that covers every row read, and the head, means that they are *)
(* the rows committed: from the head down, each row's hash fixes the row   *)
(* before it.                                                              *)
LEMMA VerdictIsTrue == ChainIInv => IntactMeansUntouched
<1> SUFFICES ASSUME ChainIInv, verifier.step = "done", verifier.ok,
                    NEW n \in DOMAIN verifier.read
             PROVE  /\ verifier.read[n] = written[n]
                    /\ n..verifier.head.seq \subseteq DOMAIN verifier.read
  BY DEF IntactMeansUntouched
<1> DEFINE rows == verifier.read
           h == verifier.head
           Same(k) == k \in DOMAIN rows /\ rows[k].hash = written[k].hash
           Bad == {i \in 0..h.seq : h.seq - i >= n /\ ~Same(h.seq - i)}
<1>1. /\ h.seq \in 0..Len(written) /\ Len(written) \in Nat
      /\ h.seq # 0 => h.hash = written[h.seq].hash
      /\ DOMAIN rows \subseteq 1..Len(written)
      /\ \A k \in DOMAIN rows : IsRow(rows[k])
      /\ \A k \in DOMAIN rows : Checks(rows, k)
      /\ EndsAtHead(rows, h)
  <2>1. verifier # Unused
    BY DEF Unused
  <2>2. Len(written) \in Nat
    BY DEF ChainIInv, Committed
  <2> QED
    BY <2>1, <2>2 DEF ChainIInv, VerifierFacts
<1>2. DOMAIN written = 1..Len(written)
  BY DEF ChainIInv, Committed
<1>3. \A k \in 1..Len(written) :
        /\ written[k].prev = IF k = 1 THEN NoHash ELSE written[k - 1].hash
        /\ written[k].hash = <<written[k].prev, k, written[k].body>>
        /\ IsRow(written[k])
  BY <1>2 DEF ChainIInv, Committed, ChainNeverForks, ChainHash
<1>4. \A k \in DOMAIN rows :
        /\ rows[k].hash = <<rows[k].prev, k, rows[k].body>>
        /\ \/ k - 1 \in DOMAIN rows /\ rows[k].prev = rows[k - 1].hash
           \/ \A j \in DOMAIN rows : k <= j
  BY <1>1 DEF Checks, ChainHash
<1>5. Same(h.seq) /\ n <= h.seq /\ h.seq \in Nat /\ n \in Nat
  BY <1>1 DEF EndsAtHead
<1>6. ASSUME NEW k \in DOMAIN rows, Same(k), n <= k - 1 PROVE Same(k - 1)
  <2>1. k \in 1..Len(written) /\ n \in Nat /\ k \in Nat
    BY <1>1, <1>6
  <2>2. ~ \A j \in DOMAIN rows : k <= j
    BY <1>6, <2>1
  <2>3. k - 1 \in DOMAIN rows /\ rows[k].prev = rows[k - 1].hash
    BY <1>4, <2>2
  <2>4. rows[k].prev = written[k].prev
    BY <1>3, <1>4, <1>6, <2>1
  <2>5. k # 1
    BY <1>1, <2>3
  <2> QED
    BY <1>3, <2>1, <2>3, <2>4, <2>5
<1>7. Bad = {}
  <2> SUFFICES ASSUME Bad # {} PROVE FALSE
    OBVIOUS
  <2>1. Bad \subseteq Nat
    BY <1>5
  <2>2. PICK i \in Bad : \A j \in Bad : i <= j
    BY <2>1, LeastNumber
  <2>3. i # 0
    BY <1>5, <2>2
  <2>4. i - 1 \in 0..h.seq /\ h.seq - (i - 1) >= n /\ i - 1 \notin Bad
    BY <1>5, <2>2, <2>3
  <2>5. Same(h.seq - (i - 1))
    BY <2>4
  <2>6. Same((h.seq - (i - 1)) - 1)
    BY <1>5, <1>6, <2>2, <2>3, <2>5
  <2>7. (h.seq - (i - 1)) - 1 = h.seq - i
    BY <1>5, <2>2
  <2> QED
    BY <2>2, <2>6, <2>7
<1>8. ASSUME NEW k \in n..h.seq PROVE Same(k)
  <2>1. h.seq - k \in 0..h.seq /\ h.seq - (h.seq - k) = k /\ k >= n
    BY <1>5
  <2> QED
    BY <1>7, <2>1
<1>9. rows[n] = written[n]
  <2>1. n \in 1..Len(written) /\ Same(n)
    BY <1>1, <1>5, <1>8
  <2>2. rows[n].prev = written[n].prev /\ rows[n].body = written[n].body
    BY <1>3, <1>4, <2>1
  <2> QED
    BY <1>1, <1>3, <2>1, <2>2 DEF IsRow
<1> QED
  BY <1>8, <1>9

(* A committed row goes on the end of the chain and disturbs nothing       *)
(* before it.                                                              *)
LEMMA InsertKeepsChain ==
  ASSUME Committed, NEW e, InsertChained(e)
  PROVE  /\ Committed'
         /\ Len(written') = Len(written) + 1 /\ Len(written) \in Nat
         /\ \A k \in 1..Len(written) : written'[k] = written[k]
         /\ \E row : IsRow(row) /\ log' = With(log, Len(written) + 1, row)
<1> DEFINE seq == head.seq + 1
           body == [id |-> e, at |-> composed[e]]
           row == [body |-> body, prev |-> head.hash, hash |-> ChainHash(head.hash, seq, body)]
<1>1. /\ log' = With(log, seq, row) /\ written' = Append(written, row)
      /\ head' = [seq |-> seq, hash |-> row.hash]
  BY DEF InsertChained
<1> HIDE DEF body
<1>2. IsRow(row) /\ row.prev = head.hash /\ row.hash = ChainHash(head.hash, seq, body) /\ row.body = body
  BY DEF IsRow
<1>3. PICK S : written \in Seq(S)
  BY DEF Committed
<1>4. written \in Seq(S \cup {row}) /\ row \in S \cup {row}
  BY <1>3
<1> HIDE DEF row
<1>5. /\ written' \in Seq(S \cup {row}) /\ written' # << >>
      /\ Len(written') = Len(written) + 1 /\ Len(written) \in Nat
      /\ \A k \in 1..Len(written) : written'[k] = written[k]
      /\ written'[Len(written) + 1] = row
  BY <1>1, <1>4, AppendProperties
<1>6. DOMAIN written = 1..Len(written) /\ DOMAIN written' = 1..Len(written')
  BY <1>3, <1>5
<1>7. head'.seq = Len(written') /\ head'.hash = row.hash /\ seq = Len(written) + 1
  BY <1>1, <1>5 DEF Committed
<1>8. \A k \in 1..Len(written') : IsRow(written'[k])
  BY <1>2, <1>5 DEF Committed
<1>9. Last(written') = row
  BY <1>5 DEF Last
<1>10. head.hash = IF Len(written) = 0 THEN NoHash ELSE written[Len(written)].hash
  BY <1>3 DEF Committed, ChainNeverForks, Last
<1>11. ASSUME NEW k \in DOMAIN written'
       PROVE  /\ written'[k].prev = IF k = 1 THEN NoHash ELSE written'[k - 1].hash
              /\ written'[k].hash = ChainHash(written'[k].prev, k, written'[k].body)
  <2>1. CASE k = Len(written) + 1
    <3>1. written'[k] = row /\ k = seq
      BY <1>5, <1>7, <2>1
    <3>2. k # 1 => k - 1 \in 1..Len(written) /\ written'[k - 1] = written[Len(written)]
      BY <1>5, <2>1
    <3>3. k = 1 <=> Len(written) = 0
      BY <1>5, <2>1
    <3> QED
      BY <1>2, <1>10, <3>1, <3>2, <3>3
  <2>2. CASE k # Len(written) + 1
    <3>1. k \in DOMAIN written /\ (k # 1 => k - 1 \in 1..Len(written))
      BY <1>5, <1>6, <2>2
    <3> QED
      BY <1>5, <1>6, <3>1 DEF Committed, ChainNeverForks
  <2> QED
    BY <2>1, <2>2
<1>12. ChainNeverForks'
  BY <1>5, <1>7, <1>9, <1>11 DEF ChainNeverForks
<1>13. Committed'
  BY <1>5, <1>7, <1>8, <1>12 DEF Committed
<1> QED
  BY <1>1, <1>2, <1>5, <1>7, <1>13

LEMMA ChainStep == ChainIInv /\ [AuditNext]_auditVars => ChainIInv'
<1> SUFFICES ASSUME ChainIInv, [AuditNext]_auditVars PROVE ChainIInv'
  OBVIOUS
<1>0. Len(written) \in Nat
  BY DEF ChainIInv, Committed
(* What does not touch the chain keeps what is said of it.                 *)
<1>a. ASSUME UNCHANGED <<head, written>> PROVE Committed'
  BY <1>a DEF ChainIInv, Committed, ChainNeverForks
<1>b. ASSUME UNCHANGED <<written, verifier>> PROVE VerifierShape' /\ VerifierFacts'
  BY <1>b DEF ChainIInv, VerifierShape, VerifierFacts
<1>1. ASSUME NEW e \in EventIds, Compose(e) PROVE ChainIInv'
  <2>1. DOMAIN composed' \subseteq EventIds
    BY <1>1 DEF Compose, With, ChainIInv
  <2> QED
    BY <1>1, <1>a, <1>b, <2>1 DEF Compose, ChainIInv, Table, ExporterShape
<1>2. ASSUME NEW e \in EventIds, AppendAudit(e) PROVE ChainIInv'
  <2>1. /\ Committed' /\ Len(written') = Len(written) + 1
        /\ \A k \in 1..Len(written) : written'[k] = written[k]
        /\ \E row : IsRow(row) /\ log' = With(log, Len(written) + 1, row)
    BY <1>2, InsertKeepsChain DEF AppendAudit, ChainIInv
  <2>2. Table'
    <3>1. PICK row : IsRow(row) /\ log' = With(log, Len(written) + 1, row)
      BY <2>1
    <3>2. DOMAIN log' = DOMAIN log \cup {Len(written) + 1}
      BY <3>1 DEF With
    <3>3. ASSUME NEW k \in DOMAIN log' PROVE IsRow(log'[k])
      BY <3>1, <3>2 DEF With, ChainIInv, Table
    <3> QED
      BY <1>0, <2>1, <3>2, <3>3 DEF ChainIInv, Table
  <2>3. VerifierShape' /\ VerifierFacts'
    <3>1. verifier' = verifier
      BY <1>2 DEF AppendAudit
    <3> QED
      BY <1>0, <2>1, <3>1 DEF ChainIInv, VerifierShape, VerifierFacts
  <2>4. DOMAIN composed' \subseteq EventIds
    BY <1>2 DEF AppendAudit, Forget, ChainIInv
  <2> QED
    BY <1>2, <2>1, <2>2, <2>3, <2>4 DEF AppendAudit, ChainIInv, ExporterShape
<1>3. CASE VerifyHead
  <2>1. verifier' = [step |-> "reading", head |-> head, read |-> << >>, ok |-> TRUE]
    BY <1>3 DEF VerifyHead
  <2>2. head.seq = Len(written)
    BY DEF ChainIInv, Committed
  <2>3. head.seq # 0 => head.hash = written[head.seq].hash
    BY <1>0, <2>2 DEF ChainIInv, Committed, ChainNeverForks, Last
  <2>4. VerifierShape' /\ VerifierFacts'
    BY <1>0, <1>3, <2>1, <2>2, <2>3 DEF VerifyHead, VerifierShape, VerifierFacts
  <2> QED
    BY <1>3, <1>a, <2>4 DEF VerifyHead, ChainIInv, Table, ExporterShape
<1>4. CASE VerifyPage
  <2> DEFINE page == {k \in Ahead : Cardinality({j \in Ahead : j < k}) < VERIFY_PAGE}
             have == verifier.read
             all == [k \in DOMAIN have \cup page |-> IF k \in page THEN log[k] ELSE have[k]]
  <2>1. /\ verifier.step = "reading"
        /\ verifier' = [verifier EXCEPT !.read = all, !.ok = @ /\ \A k \in page : Checks(all, k)]
    BY <1>4 DEF VerifyPage
  <2>2. page \subseteq DOMAIN log /\ \A k \in page, j \in DOMAIN have : j < k
    BY DEF Ahead
  <2> HIDE DEF page
  <2>3. /\ verifier # Unused
        /\ verifier = [step |-> verifier.step, head |-> verifier.head,
                       read |-> verifier.read, ok |-> verifier.ok]
        /\ verifier.ok \in BOOLEAN
    BY <2>1 DEF Unused, ChainIInv, VerifierShape
  <2>4. verifier' = [step |-> "reading", head |-> verifier.head, read |-> all,
                     ok |-> (verifier.ok /\ \A k \in page : Checks(all, k))]
    BY <2>1, <2>3
  <2>5. /\ DOMAIN have \subseteq 1..Len(written) /\ DOMAIN log \subseteq 1..Len(written)
        /\ \A k \in DOMAIN have : IsRow(have[k])
        /\ \A k \in DOMAIN log : IsRow(log[k])
    BY <2>3 DEF ChainIInv, VerifierFacts, Table
  <2>6. DOMAIN all \subseteq 1..Len(written) /\ \A k \in DOMAIN all : IsRow(all[k])
    BY <2>2, <2>5
  <2>7. ASSUME verifier.ok, NEW k \in DOMAIN have PROVE Checks(all, k)
    <3>1. Checks(have, k)
      BY <2>3, <2>7 DEF ChainIInv, VerifierFacts
    <3>2. \A j \in DOMAIN have : j \notin page /\ all[j] = have[j] /\ j \in DOMAIN all
      BY <1>0, <2>2, <2>5
    <3>3. k \in Nat /\ \A j \in page : j \in Nat /\ k < j
      BY <1>0, <2>2, <2>5
    <3> QED
      BY <1>0, <2>5, <3>1, <3>2, <3>3 DEF Checks
  <2>8. verifier'.ok => \A k \in DOMAIN all : Checks(all, k)
    BY <2>4, <2>7
  <2> HIDE DEF all
  <2>9. VerifierShape'
    BY <2>3, <2>4 DEF VerifierShape
  <2>10. VerifierFacts'
    <3>1. written' = written
      BY <1>4 DEF VerifyPage
    <3>2. /\ verifier'.head = verifier.head /\ verifier'.read = all
          /\ verifier'.step = "reading"
      BY <2>4
    <3>3. /\ verifier.head.seq \in 0..Len(written)
          /\ verifier.head.seq # 0 => verifier.head.hash = written[verifier.head.seq].hash
      BY <2>3 DEF ChainIInv, VerifierFacts
    <3> QED
      BY <2>6, <2>8, <3>1, <3>2, <3>3 DEF VerifierFacts
  <2> QED
    BY <1>4, <1>a, <2>9, <2>10 DEF VerifyPage, ChainIInv, Table, ExporterShape
<1>5. CASE VerifyEnd
  <2>1. /\ verifier # Unused
        /\ verifier = [step |-> verifier.step, head |-> verifier.head,
                       read |-> verifier.read, ok |-> verifier.ok]
        /\ verifier.ok \in BOOLEAN
    BY <1>5 DEF VerifyEnd, Unused, ChainIInv, VerifierShape
  <2>2. verifier' = [step |-> "done", head |-> verifier.head, read |-> verifier.read,
                     ok |-> (verifier.ok /\ EndsAtHead(verifier.read, verifier.head))]
    BY <1>5, <2>1 DEF VerifyEnd
  <2>3. VerifierShape'
    BY <2>1, <2>2 DEF VerifierShape, EndsAtHead
  <2>4. VerifierFacts'
    BY <1>5, <2>1, <2>2 DEF VerifyEnd, ChainIInv, VerifierFacts
  <2> QED
    BY <1>5, <1>a, <2>3, <2>4 DEF VerifyEnd, ChainIInv, Table, ExporterShape
(* Removing rows keeps the others.                                         *)
<1>c. ASSUME NEW S, log' = Forget(log, S), UNCHANGED written PROVE Table'
  BY <1>c DEF ChainIInv, Table, Forget
<1>6. CASE ExportStart
  <2>1. ExporterShape'
    BY <1>6 DEF ExportStart, ExporterShape
  <2> QED
    BY <1>6, <1>a, <1>b, <1>c, <2>1 DEF ExportStart, ChainIInv
<1>7. CASE ExportPage
  <2>1. ExporterShape'
    <3>1. exporter.step = "paging"
      BY <1>7 DEF ExportPage
    <3>2. exporter = [step |-> exporter.step, cursor |-> exporter.cursor,
                      events |-> exporter.events, must |-> exporter.must]
      BY <3>1 DEF Unused, ChainIInv, ExporterShape
    <3>3. \E ev, cu, st : /\ st \in {"paging", "done"}
                          /\ exporter' = [exporter EXCEPT !.events = ev, !.cursor = cu,
                                                          !.step = st]
      BY <1>7 DEF ExportPage
    <3> QED
      BY <3>2, <3>3 DEF ExporterShape
  <2> QED
    BY <1>7, <1>a, <1>b, <2>1 DEF ExportPage, ChainIInv, Table
<1>8. CASE Purge
  <2>1. ExporterShape'
    <3>1. CASE exporter.step = "paging"
      <4>1. exporter = [step |-> exporter.step, cursor |-> exporter.cursor,
                        events |-> exporter.events, must |-> exporter.must]
        BY <3>1 DEF Unused, ChainIInv, ExporterShape
      <4>2. PICK mu : exporter' = [exporter EXCEPT !.must = mu]
        BY <1>8, <3>1 DEF Purge
      <4> QED
        BY <3>1, <4>1, <4>2 DEF ExporterShape
    <3>2. CASE exporter.step # "paging"
      BY <1>8, <3>2 DEF Purge, ChainIInv, ExporterShape
    <3> QED
      BY <3>1, <3>2
  <2> QED
    BY <1>8, <1>a, <1>b, <1>c, <2>1 DEF Purge, ChainIInv
<1>9. ASSUME NEW k \in DOMAIN log, Tamper(k) PROVE ChainIInv'
  <2>1. Table'
    <3>1. CASE log' = Forget(log, {k})
      BY <1>9, <1>c, <3>1 DEF Tamper
    <3>2. ASSUME NEW body, NEW hash,
                 log' = [log EXCEPT ![k] = [@ EXCEPT !.body = body, !.hash = hash]]
          PROVE  Table'
      <4>1. IsRow(log[k])
        BY DEF ChainIInv, Table
      <4>2. [log[k] EXCEPT !.body = body, !.hash = hash]
              = [body |-> body, prev |-> log[k].prev, hash |-> hash]
        <5>1. PICK b, p, h : log[k] = [body |-> b, prev |-> p, hash |-> h]
          BY <4>1 DEF IsRow
        <5>2. [log[k] EXCEPT !.body = body] = [body |-> body, prev |-> p, hash |-> h]
          BY <5>1
        <5>3. [[body |-> body, prev |-> p, hash |-> h] EXCEPT !.hash = hash]
                = [body |-> body, prev |-> p, hash |-> hash]
          OBVIOUS
        <5> QED
          BY <5>1, <5>2, <5>3
      <4>3. written' = written
        BY <1>9 DEF Tamper
      <4> QED
        BY <3>2, <4>2, <4>3 DEF ChainIInv, Table, IsRow
    <3> QED
      BY <1>9, <3>1, <3>2 DEF Tamper
  <2> QED
    BY <1>9, <1>a, <1>b, <2>1 DEF Tamper, ChainIInv, ExporterShape
<1>10. CASE AuditTick
  BY <1>10, <1>a, <1>b DEF AuditTick, ChainIInv, Table, ExporterShape
<1>11. CASE UNCHANGED auditVars
  BY <1>11, <1>a, <1>b DEF auditVars, ChainIInv, Table, ExporterShape
<1> QED
  BY <1>1, <1>2, <1>3, <1>4, <1>5, <1>6, <1>7, <1>8, <1>9, <1>10, <1>11 DEF AuditNext

(* The audit chain never forks, and a verification that reports it intact  *)
(* has read exactly the rows that were committed, without a gap up to the  *)
(* head it started from, however many rows are appended, purged, removed   *)
(* or edited between its pages.                                            *)
THEOREM AuditAlwaysHolds == AuditSpec => []AuditInv
<1>1. AuditSpec => []ChainIInv
  BY ChainInit, ChainStep, PTL DEF AuditSpec
<1>2. ChainIInv => AuditInv
  <2> SUFFICES ASSUME ChainIInv PROVE AuditInv
    OBVIOUS
  <2>1. AuditTypeOK
    BY DEF AuditTypeOK, ChainIInv, Committed, Table, VerifierShape, ExporterShape, Unused
  <2> QED
    BY <2>1, VerdictIsTrue DEF AuditInv, ChainIInv, Committed
<1> QED
  BY <1>1, <1>2, PTL

-----------------------------------------------------------------------------
(* The audit export.                                                       *)
AuditBodies == [id : EventIds, at : Nat]
LogBodies == {log[k].body : k \in DOMAIN log}

(* Everything dated is dated by a number.                                  *)
DatesTyped ==
  /\ auditClock \in Nat
  /\ \A e \in DOMAIN composed : composed[e] \in Nat
  /\ \A k \in DOMAIN log : log[k].body \in AuditBodies

(* What an export has and has still to see: the events it listed descend,  *)
(* what lies beyond its cursor is older than all of them, and what it must *)
(* show is listed or lies beyond the cursor.                               *)
PagesSoFar ==
  exporter.step = "paging" =>
    /\ exporter.cursor \in AuditBodies \cup {NoHash}
    /\ \A i \in DOMAIN exporter.events, b \in AuditBodies :
         Before(b, exporter.cursor) => Newer(exporter.events[i], b)
    /\ exporter.must \subseteq Range(exporter.events) \cup {b \in LogBodies : Before(b, exporter.cursor)}
ExportEnds ==
  exporter.step = "done" /\ Len(exporter.events) < MAX_EXPORT_ROWS =>
    exporter.must \subseteq Range(exporter.events)
ExportFacts ==
  exporter # Unused =>
    /\ exporter.events \in Seq(AuditBodies) /\ Descending(exporter.events)
    /\ PagesSoFar /\ ExportEnds

ExportIInv == DatesTyped /\ ExportFacts

(* Events are ordered by their date and, within a second, their id.        *)
LEMMA NewerIsOrder ==
  ASSUME NEW a \in AuditBodies, NEW b \in AuditBodies, NEW c \in AuditBodies
  PROVE  /\ ~Newer(a, a) /\ (Newer(a, b) => ~Newer(b, a))
         /\ Newer(a, b) /\ Newer(b, c) => Newer(a, c)
         /\ a = b \/ Newer(a, b) \/ Newer(b, a)
<1>1. /\ a.at \in Nat /\ b.at \in Nat /\ c.at \in Nat
      /\ a.id \in Nat /\ b.id \in Nat /\ c.id \in Nat
  BY AuditAssumption DEF AuditBodies
<1>2. a.at = b.at /\ a.id = b.id => a = b
  BY DEF AuditBodies
<1> QED
  BY <1>1, <1>2 DEF Newer

(* A set of events has an oldest: least in date, and in id among those.    *)
LEMMA OldestEvent ==
  ASSUME NEW S, S \subseteq AuditBodies, S # {}
  PROVE  \E b \in S : \A c \in S : c # b => Newer(c, b)
<1> DEFINE T == {c.at : c \in S}
<1>1. T \subseteq Nat /\ T # {}
  BY DEF AuditBodies
<1>2. PICK t \in T : \A u \in T : t <= u
  <2> HIDE DEF T
  <2> QED
    BY <1>1, LeastNumber
<1> DEFINE R == {c \in S : c.at = t}
           I == {c.id : c \in R}
<1>3. I \subseteq Nat /\ I # {}
  BY <1>2, AuditAssumption DEF AuditBodies
<1>4. PICK i \in I : \A j \in I : i <= j
  <2> HIDE DEF I
  <2> QED
    BY <1>3, LeastNumber
<1>5. PICK b \in S : b.at = t /\ b.id = i
  BY <1>4
<1>6. ASSUME NEW c \in S, c # b PROVE Newer(c, b)
  <2>1. /\ b \in AuditBodies /\ c \in AuditBodies /\ t <= c.at
        /\ c.at = t => i <= c.id
    BY <1>2, <1>4
  <2>2. ~Newer(b, c)
    <3>1. c.at \in Nat /\ c.id \in Nat /\ t \in Nat /\ i \in Nat
      BY <1>5, <2>1, AuditAssumption DEF AuditBodies
    <3> QED
      BY <1>5, <2>1, <3>1 DEF Newer
  <2> QED
    BY <1>6, <2>1, <2>2, NewerIsOrder
<1> QED
  BY <1>6

(* Every finite set of events has a listing, newest first.                 *)
IsListing(s, S) == s \in [1..Cardinality(S) -> S] /\ Range(s) = S /\ Descending(s)
LEMMA ListingExists ==
  ASSUME NEW S, S \subseteq AuditBodies, IsFiniteSet(S)
  PROVE  \E s : IsListing(s, S)
<1> DEFINE Sets(n) == {X \in SUBSET AuditBodies : IsFiniteSet(X) /\ Cardinality(X) = n}
           Bad == {n \in Nat : \E X \in Sets(n) : ~\E s : IsListing(s, X)}
<1>1. Bad = {}
  <2> SUFFICES ASSUME Bad # {} PROVE FALSE
    OBVIOUS
  <2>1. PICK n \in Bad : \A m \in Bad : n <= m
    <3>1. Bad \subseteq Nat
      OBVIOUS
    <3> HIDE DEF Bad
    <3> QED
      BY <3>1, LeastNumber
  <2>2. PICK X \in SUBSET AuditBodies : IsFiniteSet(X) /\ Cardinality(X) = n /\ ~\E s : IsListing(s, X)
    BY <2>1
  <2>3. n \in Nat
    BY <2>1
  <2>4. CASE X = {}
    <3>1. Cardinality(X) = 0
      BY <2>4, FS_EmptySet
    <3>2. << >> \in [1..0 -> X] /\ DOMAIN << >> = {}
      OBVIOUS
    <3>3. IsListing(<< >>, X)
      BY <2>4, <3>1, <3>2 DEF IsListing, Range, Descending
    <3> QED
      BY <2>2, <3>3
  <2>5. CASE X # {}
    <3>1. PICK b \in X : \A c \in X : c # b => Newer(c, b)
      BY <2>5, OldestEvent
    <3> DEFINE Y == X \ {b}
    <3>2. IsFiniteSet(Y) /\ Cardinality(Y) = n - 1 /\ n - 1 \in Nat
      <4>1. IsFiniteSet(Y) /\ Cardinality(Y) = n - 1
        BY <2>2, FS_RemoveElement
      <4> HIDE DEF Y
      <4>2. Cardinality(Y) \in Nat
        BY <4>1, FS_CardinalityType
      <4> QED
        BY <4>1, <4>2
    <3>3. n - 1 \notin Bad
      BY <2>1, <2>3
    <3>4. PICK s : IsListing(s, Y)
      <4>1. Y \in Sets(n - 1)
        BY <3>2
      <4> QED
        BY <3>2, <3>3, <4>1
    <3>5. s \in [1..(n - 1) -> Y] /\ Range(s) = Y /\ Descending(s)
      BY <3>2, <3>4 DEF IsListing
    <3> DEFINE z == [i \in 1..n |-> IF i = n THEN b ELSE s[i]]
    <3>6. \A i \in 1..n : i # n => i \in 1..(n - 1) /\ z[i] = s[i] /\ s[i] \in Y
      BY <2>3, <3>5
    <3>7. n \in 1..n /\ z[n] = b
      BY <2>3, <3>2
    <3>8. z \in [1..n -> X]
      BY <3>6
    <3>9. Range(z) = X
      <4>1. ASSUME NEW c \in X PROVE c \in Range(z)
        <5>1. CASE c = b
          BY <3>7, <5>1 DEF Range
        <5>2. CASE c # b
          <6>1. PICK i \in 1..(n - 1) : s[i] = c
            BY <3>5, <5>2 DEF Range
          <6>2. i \in 1..n /\ i # n
            BY <2>3
          <6> QED
            BY <3>6, <6>1, <6>2 DEF Range
        <5> QED
          BY <5>1, <5>2
      <4>2. DOMAIN z = 1..n /\ \A i \in 1..n : z[i] \in X
        BY <3>8
      <4> HIDE DEF z
      <4> QED
        BY <4>1, <4>2 DEF Range
    <3>10. Descending(z)
      <4>1. ASSUME NEW i \in 1..n, NEW j \in 1..n, i < j PROVE Newer(z[i], z[j])
        <5>1. i # n
          BY <2>3, <4>1
        <5>2. CASE j = n
          BY <3>1, <3>6, <3>7, <5>1, <5>2
        <5>3. CASE j # n
          BY <3>5, <3>6, <4>1, <5>1, <5>3 DEF Descending
        <5> QED
          BY <5>2, <5>3
      <4> QED
        BY <4>1 DEF Descending
    <3>11. IsListing(z, X)
      <4> HIDE DEF z
      <4> QED
        BY <2>2, <3>8, <3>9, <3>10 DEF IsListing
    <3> QED
      BY <2>2, <3>11
  <2> QED
    BY <2>4, <2>5
<1>2. Cardinality(S) \in Nat /\ S \in Sets(Cardinality(S))
  BY FS_CardinalityType
<1> QED
  BY <1>1, <1>2

LEMMA ListingLists ==
  ASSUME NEW S, S \subseteq AuditBodies, IsFiniteSet(S)
  PROVE  IsListing(Listing(S), S)
<1>1. PICK s : IsListing(s, S)
  BY ListingExists
<1>2. \E t \in [1..Cardinality(S) -> S] : Range(t) = S /\ Descending(t)
  BY <1>1 DEF IsListing
<1> QED
  BY <1>2 DEF Listing, IsListing

(* A page takes the newest: what is left is older than all of it, and when *)
(* it is short nothing is left.                                            *)
PageOf(ahead) == {b \in ahead : Cardinality({o \in ahead : Newer(o, b)}) < EXPORT_PAGE}
LEMMA PageTakesNewest ==
  ASSUME NEW ahead, ahead \subseteq AuditBodies, IsFiniteSet(ahead)
  PROVE  /\ \A p \in PageOf(ahead), b \in ahead \ PageOf(ahead) : Newer(p, b)
         /\ Cardinality(PageOf(ahead)) < EXPORT_PAGE => PageOf(ahead) = ahead
<1> DEFINE Over(b) == {o \in ahead : Newer(o, b)}
           page == PageOf(ahead)
<1>0. EXPORT_PAGE \in Nat
  BY AuditAssumption
<1>1. ASSUME NEW b \in ahead PROVE IsFiniteSet(Over(b)) /\ Cardinality(Over(b)) \in Nat
  <2>1. Over(b) \in SUBSET ahead
    OBVIOUS
  <2> HIDE DEF Over
  <2>2. IsFiniteSet(Over(b))
    BY <2>1, FS_Subset
  <2> QED
    BY <2>2, FS_CardinalityType
<1>2. \A b \in ahead : b \in page <=> Cardinality(Over(b)) < EXPORT_PAGE
  BY DEF PageOf
<1>3. page \in SUBSET ahead
  BY DEF PageOf
<1>4. IsFiniteSet(page) /\ Cardinality(page) \in Nat
  <2>1. IsFiniteSet(page)
    BY <1>3, FS_Subset
  <2> QED
    BY <2>1, FS_CardinalityType
(* An older event has more above it.                                       *)
<1>5. ASSUME NEW a \in ahead, NEW b \in ahead, Newer(a, b)
      PROVE  Cardinality(Over(a)) < Cardinality(Over(b))
  <2>1. Over(a) \in SUBSET Over(b)
    <3> SUFFICES ASSUME NEW o \in ahead, Newer(o, a) PROVE Newer(o, b)
      OBVIOUS
    <3>1. o \in AuditBodies /\ a \in AuditBodies /\ b \in AuditBodies
      OBVIOUS
    <3> QED
      BY <1>5, <3>1, NewerIsOrder
  <2>2. a \in Over(b) /\ a \notin Over(a)
    <3>1. a \in AuditBodies
      OBVIOUS
    <3>2. ~Newer(a, a)
      BY <3>1, NewerIsOrder
    <3> QED
      BY <1>5, <3>2
  <2>3. /\ IsFiniteSet(Over(b)) /\ Cardinality(Over(b)) \in Nat
        /\ Cardinality(Over(a)) \in Nat
    BY <1>1
  <2> HIDE DEF Over
  <2>4. Cardinality(Over(a)) <= Cardinality(Over(b)) /\ Cardinality(Over(a)) # Cardinality(Over(b))
    BY <2>1, <2>2, <2>3, FS_Subset
  <2> QED
    BY <2>3, <2>4
<1>6. ASSUME NEW p \in page, NEW b \in ahead \ page PROVE Newer(p, b)
  <2>1. p \in ahead /\ b \in ahead /\ p # b
    BY <1>3
  <2>2. Cardinality(Over(p)) < EXPORT_PAGE /\ ~(Cardinality(Over(b)) < EXPORT_PAGE)
    BY <1>2, <2>1
  <2>3. /\ Cardinality(Over(p)) \in Nat /\ Cardinality(Over(b)) \in Nat
    BY <1>1, <2>1
  <2>4. ~Newer(b, p)
    <3> SUFFICES ASSUME Newer(b, p) PROVE FALSE
      OBVIOUS
    <3>1. Cardinality(Over(b)) < Cardinality(Over(p))
      BY <1>5, <2>1
    <3> HIDE DEF Over
    <3> QED
      BY <1>0, <2>2, <2>3, <3>1
  <2>5. p \in AuditBodies /\ b \in AuditBodies
    BY <2>1
  <2> QED
    BY <2>1, <2>4, <2>5, NewerIsOrder
<1>7. ASSUME Cardinality(page) < EXPORT_PAGE, page # ahead PROVE FALSE
  <2> DEFINE Ranks == {Cardinality(Over(b)) : b \in ahead \ page}
  <2>1. Ranks \subseteq Nat /\ Ranks # {}
    BY <1>1, <1>3, <1>7
  <2>2. PICK r \in Ranks : \A q \in Ranks : r <= q
    <3> HIDE DEF Ranks
    <3> QED
      BY <2>1, LeastNumber
  <2>3. PICK b \in ahead \ page : r = Cardinality(Over(b))
    BY <2>2
  <2>4. Over(b) \in SUBSET page
    <3> SUFFICES ASSUME NEW o \in ahead, Newer(o, b), o \notin page PROVE FALSE
      OBVIOUS
    <3>1. Cardinality(Over(o)) < r
      BY <1>5, <2>3
    <3>2. r <= Cardinality(Over(o))
      BY <2>2
    <3>3. r \in Nat /\ Cardinality(Over(o)) \in Nat
      BY <1>1, <2>3
    <3> HIDE DEF Over
    <3> QED
      BY <3>1, <3>2, <3>3
  <2>5. r \in Nat /\ ~(r < EXPORT_PAGE)
    BY <1>1, <1>2, <2>3
  <2> HIDE DEF Over
  <2>6. r <= Cardinality(page)
    BY <1>4, <2>3, <2>4, FS_Subset
  <2> QED
    BY <1>0, <1>4, <1>7, <2>5, <2>6
<1> QED
  BY <1>6, <1>7

(* The table's events are finitely many.                                   *)
LEMMA LogIsFinite == ASSUME ChainIInv PROVE IsFiniteSet(LogBodies)
<1> DEFINE f == [k \in DOMAIN log |-> log[k].body]
<1>1. Len(written) \in Nat /\ DOMAIN log \in SUBSET (1..Len(written))
  BY DEF ChainIInv, Committed, Table
<1>2. IsFiniteSet(DOMAIN log)
  <2>1. IsFiniteSet(1..Len(written))
    BY <1>1, FS_Interval
  <2> QED
    BY <1>1, <2>1, FS_Subset
<1>3. f \in Surjection(DOMAIN log, LogBodies)
  BY DEF Surjection, LogBodies
<1> HIDE DEF f
<1> QED
  BY <1>2, <1>3, FS_Surjection

LEMMA ExportInit == AuditInit => ExportIInv
<1> SUFFICES ASSUME AuditInit PROVE ExportIInv
  OBVIOUS
<1>1. auditClock = 0 /\ exporter = Unused /\ DOMAIN composed = {} /\ DOMAIN log = {}
  BY DEF AuditInit
<1> QED
  BY <1>1 DEF ExportIInv, DatesTyped, ExportFacts

(* A page: the events listed go on descending, and what is still to be     *)
(* shown lies beyond the new cursor.                                       *)
LEMMA ExportPageStep ==
  ASSUME ChainIInv, ExportIInv, ExportPage
  PROVE  ExportFacts'
<1> DEFINE ahead == {b \in LogBodies : Before(b, exporter.cursor)}
           page == PageOf(ahead)
           ev == exporter.events
           rows == Listing(page)
           all == ev \o rows
           n == Cardinality(page)
<1>1. /\ exporter.step = "paging"
      /\ exporter' =
           [exporter EXCEPT !.events = IF Len(all) > MAX_EXPORT_ROWS THEN SubSeq(all, 1, MAX_EXPORT_ROWS) ELSE all,
              !.cursor = IF page = {} THEN @ ELSE Last(all),
              !.step = IF Len(all) > MAX_EXPORT_ROWS \/ n < EXPORT_PAGE THEN "done" ELSE "paging"]
      /\ UNCHANGED log
  BY DEF ExportPage, LogBodies, PageOf
<1>2. ahead \subseteq AuditBodies /\ page \in SUBSET ahead
  BY DEF ExportIInv, DatesTyped, LogBodies, PageOf
<1>3. IsFiniteSet(ahead) /\ IsFiniteSet(page) /\ n \in Nat /\ (n = 0 <=> page = {})
  <2>1. IsFiniteSet(LogBodies)
    BY LogIsFinite
  <2>2. ahead \in SUBSET LogBodies
    OBVIOUS
  <2> HIDE DEF ahead
  <2>3. IsFiniteSet(ahead)
    BY <2>1, <2>2, FS_Subset
  <2>4. IsFiniteSet(page)
    BY <1>2, <2>3, FS_Subset
  <2> HIDE DEF page
  <2> QED
    BY <2>3, <2>4, FS_CardinalityType, FS_EmptySet
<1>4. /\ exporter # Unused
      /\ exporter = [step |-> exporter.step, cursor |-> exporter.cursor,
                     events |-> exporter.events, must |-> exporter.must]
  BY <1>1 DEF Unused, ChainIInv, ExporterShape
<1>5. /\ ev \in Seq(AuditBodies) /\ Descending(ev)
      /\ exporter.cursor \in AuditBodies \cup {NoHash}
      /\ \A i \in DOMAIN ev, b \in AuditBodies : Before(b, exporter.cursor) => Newer(ev[i], b)
      /\ exporter.must \subseteq Range(ev) \cup ahead
  BY <1>1, <1>4 DEF ExportIInv, ExportFacts, PagesSoFar
<1>6. /\ \A p \in page, b \in ahead \ page : Newer(p, b)
      /\ n < EXPORT_PAGE => page = ahead
  <2> HIDE DEF ahead
  <2> QED
    BY <1>2, <1>3, PageTakesNewest
<1>7. rows \in [1..n -> page] /\ Range(rows) = page /\ Descending(rows)
  <2>1. page \subseteq AuditBodies
    BY <1>2
  <2> HIDE DEF page
  <2> QED
    BY <1>3, <2>1, ListingLists DEF IsListing
<1>8. ASSUME NEW i \in DOMAIN ev, NEW p \in page PROVE Newer(ev[i], p)
  <2>1. p \in AuditBodies /\ Before(p, exporter.cursor)
    BY <1>2
  <2> QED
    BY <1>5, <2>1
<1>9. exporter.must \subseteq Range(ev) \cup page \cup (ahead \ page)
  BY <1>5
<1>10. ahead \ page \subseteq AuditBodies /\ page \subseteq AuditBodies
  BY <1>2
<1>11. ASSUME NEW b \in ahead \ page PROVE b \in LogBodies
  OBVIOUS
<1> DEFINE left == ahead \ page
<1>12. n < EXPORT_PAGE => left = {}
  BY <1>6
<1>13. /\ \A p \in page, b \in left : Newer(p, b)
       /\ left \subseteq AuditBodies /\ left \subseteq LogBodies
       /\ exporter.must \subseteq Range(ev) \cup page \cup left
  BY <1>6, <1>9, <1>10, <1>11
<1> HIDE DEF ahead, page, left
<1>14. rows \in Seq(AuditBodies) /\ Len(rows) = n
  <2> HIDE DEF rows, n
  <2>1. rows \in [1..n -> AuditBodies]
    BY <1>7, <1>10
  <2>2. rows \in Seq(AuditBodies)
    BY <1>3, <2>1
  <2>3. DOMAIN rows = 1..n
    BY <2>1
  <2> QED
    BY <1>3, <2>2, <2>3
<1> HIDE DEF rows, n
<1>15. /\ all \in Seq(AuditBodies) /\ Len(all) = Len(ev) + n /\ Len(ev) \in Nat
       /\ \A i \in 1..Len(ev) + n : all[i] = IF i <= Len(ev) THEN ev[i] ELSE rows[i - Len(ev)]
  <2>1. ev \in Seq(AuditBodies) /\ rows \in Seq(AuditBodies) /\ Len(rows) = n
    BY <1>5, <1>14
  <2> HIDE DEF ev
  <2>2. Len(ev) \in Nat
    BY <2>1
  <2>3. /\ all \in Seq(AuditBodies) /\ Len(all) = Len(ev) + Len(rows)
        /\ \A i \in 1..Len(ev) + Len(rows) : all[i] = IF i <= Len(ev) THEN ev[i] ELSE rows[i - Len(ev)]
    BY <2>1, ConcatProperties
  <2> HIDE DEF all
  <2> QED
    BY <2>1, <2>2, <2>3
<1>16. DOMAIN ev = 1..Len(ev) /\ DOMAIN all = 1..Len(ev) + n /\ DOMAIN rows = 1..n
  BY <1>5, <1>7, <1>15
<1> HIDE DEF ev, all
<1>17. Descending(all)
  <2> SUFFICES ASSUME NEW i \in 1..Len(ev) + n, NEW j \in 1..Len(ev) + n, i < j
               PROVE  Newer(all[i], all[j])
    BY <1>16 DEF Descending
  <2>1. CASE j <= Len(ev)
    <3>1. i \in DOMAIN ev /\ j \in DOMAIN ev /\ i <= Len(ev)
      BY <1>3, <1>15, <1>16, <2>1
    <3>2. all[i] = ev[i] /\ all[j] = ev[j]
      BY <1>15, <2>1, <3>1
    <3> QED
      BY <1>5, <3>1, <3>2 DEF Descending
  <2>2. CASE i <= Len(ev) /\ ~(j <= Len(ev))
    <3>1. i \in DOMAIN ev /\ j - Len(ev) \in 1..n
      BY <1>3, <1>15, <1>16, <2>2
    <3>2. all[i] = ev[i] /\ all[j] = rows[j - Len(ev)] /\ rows[j - Len(ev)] \in page
      BY <1>7, <1>15, <2>2, <3>1
    <3> QED
      BY <1>8, <3>1, <3>2
  <2>3. CASE ~(i <= Len(ev))
    <3>1. i - Len(ev) \in DOMAIN rows /\ j - Len(ev) \in DOMAIN rows /\ i - Len(ev) < j - Len(ev) /\ ~(j <= Len(ev))
      BY <1>3, <1>15, <1>16, <2>3
    <3>2. all[i] = rows[i - Len(ev)] /\ all[j] = rows[j - Len(ev)]
      BY <1>15, <2>3, <3>1
    <3> QED
      BY <1>7, <3>1, <3>2 DEF Descending
  <2> QED
    BY <2>1, <2>2, <2>3
<1>18. Range(ev) \cup page \subseteq Range(all)
  <2>1. ASSUME NEW i \in DOMAIN ev PROVE ev[i] \in Range(all)
    <3>1. i \in DOMAIN all /\ all[i] = ev[i]
      BY <1>3, <1>15, <1>16
    <3> QED
      BY <3>1 DEF Range
  <2>2. ASSUME NEW p \in page PROVE p \in Range(all)
    <3>1. PICK i \in 1..n : rows[i] = p
      BY <1>7, <1>16 DEF Range
    <3>2. /\ i + Len(ev) \in DOMAIN all /\ ~(i + Len(ev) <= Len(ev))
          /\ (i + Len(ev)) - Len(ev) = i
      BY <1>3, <1>15, <1>16
    <3>3. all[i + Len(ev)] = p
      BY <1>15, <1>16, <3>1, <3>2
    <3> QED
      BY <3>2, <3>3 DEF Range
  <2> QED
    BY <2>1, <2>2 DEF Range
(* What is older than the last event listed is older than all of them.     *)
<1>19. ASSUME page # {}
       PROVE  /\ Last(all) \in page
              /\ \A i \in DOMAIN all, b \in AuditBodies : Newer(Last(all), b) => Newer(all[i], b)
  <2>1. n \in 1..n /\ n # 0
    BY <1>3, <1>19
  <2>2. /\ Len(ev) + n \in DOMAIN all /\ ~(Len(ev) + n <= Len(ev))
        /\ (Len(ev) + n) - Len(ev) = n
    BY <1>3, <1>15, <1>16, <2>1
  <2>3. Last(all) = all[Len(ev) + n]
    BY <1>15 DEF Last
  <2>4. Last(all) = rows[n]
    BY <1>15, <1>16, <2>2, <2>3
  <2>5. Last(all) \in page
    BY <1>7, <2>1, <2>4
  <2>6. ASSUME NEW i \in DOMAIN all, NEW b \in AuditBodies, Newer(Last(all), b) PROVE Newer(all[i], b)
    <3>1. all[i] \in AuditBodies /\ Last(all) \in AuditBodies
      BY <1>10, <1>15, <1>16, <2>5
    <3>2. CASE i = Len(ev) + n
      BY <2>3, <2>6, <3>2
    <3>3. CASE i # Len(ev) + n
      <4>1. i < Len(ev) + n
        BY <1>3, <1>15, <1>16, <3>3
      <4>2. Newer(all[i], Last(all))
        BY <1>17, <2>2, <2>3, <4>1 DEF Descending
      <4> QED
        BY <2>6, <3>1, <4>2, NewerIsOrder
    <3> QED
      BY <3>2, <3>3
  <2> QED
    BY <2>5, <2>6
<1> DEFINE over == Len(all) > MAX_EXPORT_ROWS
           events == IF over THEN SubSeq(all, 1, MAX_EXPORT_ROWS) ELSE all
           cursor == IF page = {} THEN exporter.cursor ELSE Last(all)
           step == IF over \/ n < EXPORT_PAGE THEN "done" ELSE "paging"
<1>20. exporter' = [step |-> step, cursor |-> cursor, events |-> events, must |-> exporter.must]
  <2>1. exporter' = [exporter EXCEPT !.events = events, !.cursor = cursor, !.step = step]
    BY <1>1
  <2> HIDE DEF events, cursor, step
  <2> QED
    BY <1>4, <2>1
<1>21. MAX_EXPORT_ROWS \in Nat \ {0} /\ EXPORT_PAGE \in Nat \ {0}
  BY AuditAssumption
<1>22. LogBodies' = LogBodies
  BY <1>1 DEF LogBodies
<1>23. CASE over
  <2>1. events = SubSeq(all, 1, MAX_EXPORT_ROWS) /\ step = "done"
    BY <1>23
  <2>2. \A i \in 1..MAX_EXPORT_ROWS : i \in DOMAIN all /\ all[i] \in AuditBodies
    BY <1>3, <1>15, <1>16, <1>21, <1>23
  <2> DEFINE cut == SubSeq(all, 1, MAX_EXPORT_ROWS)
  <2>3. /\ cut \in Seq(AuditBodies) /\ Len(cut) = MAX_EXPORT_ROWS
        /\ \A i \in 1..MAX_EXPORT_ROWS : cut[i] = all[i]
    BY <1>21, <2>2, SubSeqProperties
  <2> HIDE DEF cut
  <2>4. DOMAIN cut = 1..MAX_EXPORT_ROWS
    BY <2>3
  <2>5. Descending(cut)
    BY <1>17, <2>2, <2>3, <2>4 DEF Descending
  <2>6. exporter'.events = cut /\ exporter'.step = "done"
    BY <1>20, <2>1 DEF cut
  <2> QED
    BY <1>21, <2>3, <2>5, <2>6 DEF ExportFacts, PagesSoFar, ExportEnds
<1>24. CASE ~over
  <2>1. exporter'.events = all /\ exporter'.cursor = cursor /\ exporter'.step = step /\ exporter'.must = exporter.must
    BY <1>20, <1>24
  <2>2. n < EXPORT_PAGE => exporter.must \subseteq Range(all)
    BY <1>12, <1>13, <1>18
  <2>3. step = IF n < EXPORT_PAGE THEN "done" ELSE "paging"
    BY <1>24
  <2>4. ExportEnds'
    BY <2>1, <2>2, <2>3 DEF ExportEnds
  <2>5. PagesSoFar'
    <3> SUFFICES ASSUME ~(n < EXPORT_PAGE)
                 PROVE  /\ cursor \in AuditBodies \cup {NoHash}
                        /\ \A i \in DOMAIN all, b \in AuditBodies : Before(b, cursor) => Newer(all[i], b)
                        /\ exporter.must \subseteq Range(all) \cup {b \in LogBodies : Before(b, cursor)}
      BY <1>22, <2>1, <2>3 DEF PagesSoFar
    <3>1. page # {}
      BY <1>3, <1>21
    <3>2. cursor = Last(all) /\ Last(all) \in page /\ Last(all) \in AuditBodies
      BY <1>10, <1>19, <3>1
    <3>3. cursor # NoHash
      <4>1. "id" \in DOMAIN Last(all)
        BY <3>2 DEF AuditBodies
      <4> QED
        BY <3>2, <4>1 DEF NoHash
    <3>4. \A b \in AuditBodies : Before(b, cursor) <=> Newer(Last(all), b)
      BY <3>2, <3>3 DEF Before
    <3>5. left \subseteq {b \in LogBodies : Before(b, cursor)}
      BY <1>13, <3>2, <3>4
    <3> HIDE DEF cursor
    <3> QED
      BY <1>13, <1>18, <1>19, <3>1, <3>2, <3>4, <3>5
  <2> QED
    BY <1>15, <1>17, <2>1, <2>4, <2>5 DEF ExportFacts
<1> QED
  BY <1>23, <1>24

LEMMA ExportStep == ChainIInv /\ ExportIInv /\ [AuditNext]_auditVars => ExportIInv'
<1> SUFFICES ASSUME ChainIInv, ExportIInv, [AuditNext]_auditVars PROVE ExportIInv'
  OBVIOUS
<1>0. DatesTyped /\ ExportFacts
  BY DEF ExportIInv
(* What leaves the table and the export alone.                             *)
<1>a. ASSUME UNCHANGED <<log, exporter>> PROVE ExportFacts'
  BY <1>0, <1>a DEF ExportFacts, PagesSoFar, ExportEnds, LogBodies
(* What leaves an export that has ended alone.                             *)
<1>b. ASSUME UNCHANGED exporter, exporter.step # "paging" PROVE ExportFacts'
  BY <1>0, <1>b DEF ExportFacts, PagesSoFar, ExportEnds
<1>c. ASSUME NEW S, log' = Forget(log, S), UNCHANGED <<composed, auditClock>> PROVE DatesTyped'
  BY <1>0, <1>c DEF DatesTyped, Forget
<1>1. ASSUME NEW e \in EventIds, Compose(e) PROVE ExportIInv'
  <2>1. DatesTyped'
    BY <1>0, <1>1 DEF Compose, With, DatesTyped
  <2>2. ExportFacts'
    BY <1>1, <1>a DEF Compose
  <2> QED
    BY <2>1, <2>2 DEF ExportIInv
<1>2. ASSUME NEW e \in EventIds, AppendAudit(e) PROVE ExportIInv'
  <2> DEFINE seq == head.seq + 1
             body == [id |-> e, at |-> composed[e]]
             row == [body |-> body, prev |-> head.hash, hash |-> ChainHash(head.hash, seq, body)]
  <2>1. /\ log' = With(log, seq, row) /\ composed' = Forget(composed, {e})
        /\ e \in DOMAIN composed /\ UNCHANGED <<exporter, auditClock>>
    BY <1>2 DEF AppendAudit, InsertChained
  <2>2. body \in AuditBodies
    BY <1>0, <2>1 DEF DatesTyped, AuditBodies
  <2>3. row.body = body
    OBVIOUS
  <2>4. seq \notin DOMAIN log
    <3>1. Len(written) \in Nat /\ DOMAIN log \subseteq 1..Len(written) /\ head.seq = Len(written)
      BY DEF ChainIInv, Committed, Table
    <3> QED
      BY <3>1
  <2> HIDE DEF seq, body, row
  <2>5. /\ DOMAIN log' = DOMAIN log \cup {seq} /\ log'[seq] = row
        /\ \A k \in DOMAIN log : log'[k] = log[k]
    BY <2>1, <2>4 DEF With
  <2>6. DatesTyped'
    <3>1. \A k \in DOMAIN log' : log'[k].body \in AuditBodies
      BY <1>0, <2>2, <2>3, <2>5 DEF DatesTyped
    <3>2. \A x \in DOMAIN composed' : composed'[x] \in Nat
      BY <1>0, <2>1 DEF DatesTyped, Forget
    <3> QED
      BY <1>0, <2>1, <3>1, <3>2 DEF DatesTyped
  <2>7. LogBodies \subseteq LogBodies'
    BY <2>5 DEF LogBodies
  <2>8. ExportFacts'
    BY <1>0, <2>1, <2>7 DEF ExportFacts, PagesSoFar, ExportEnds
  <2> QED
    BY <2>6, <2>8 DEF ExportIInv
<1>3. CASE VerifyHead
  BY <1>0, <1>3, <1>a DEF VerifyHead, ExportIInv, DatesTyped
<1>4. CASE VerifyPage
  BY <1>0, <1>4, <1>a DEF VerifyPage, ExportIInv, DatesTyped
<1>5. CASE VerifyEnd
  BY <1>0, <1>5, <1>a DEF VerifyEnd, ExportIInv, DatesTyped
<1>6. CASE ExportStart
  <2>1. DatesTyped'
    BY <1>6, <1>c DEF ExportStart
  <2>2. exporter' = [step |-> "paging", cursor |-> NoHash, events |-> << >>, must |-> LogBodies']
    BY <1>6 DEF ExportStart, LogBodies
  <2>3. << >> \in Seq(AuditBodies) /\ DOMAIN << >> = {}
    OBVIOUS
  <2>4. Descending(<< >>)
    BY <2>3 DEF Descending
  <2>5. \A b : Before(b, NoHash)
    BY DEF Before
  <2>6. PagesSoFar' /\ ExportEnds'
    BY <2>2, <2>3, <2>5 DEF PagesSoFar, ExportEnds
  <2>7. ExportFacts'
    BY <2>2, <2>3, <2>4, <2>6 DEF ExportFacts
  <2> QED
    BY <2>1, <2>7 DEF ExportIInv
<1>7. CASE ExportPage
  <2>1. DatesTyped'
    BY <1>0, <1>7 DEF ExportPage, DatesTyped
  <2> QED
    BY <1>7, <2>1, ExportPageStep DEF ExportIInv
<1>8. CASE Purge
  <2>1. DatesTyped'
    BY <1>8, <1>c DEF Purge
  <2>2. CASE exporter.step # "paging"
    BY <1>8, <1>b, <2>1, <2>2 DEF Purge, ExportIInv
  <2>3. CASE exporter.step = "paging"
    <3> DEFINE gone == {log[k].body : k \in Expired(log)}
    <3>1. exporter' = [exporter EXCEPT !.must = @ \ gone] /\ log' = Forget(log, Expired(log))
      BY <1>8, <2>3 DEF Purge
    <3>2. /\ exporter # Unused
          /\ exporter = [step |-> exporter.step, cursor |-> exporter.cursor,
                         events |-> exporter.events, must |-> exporter.must]
      BY <2>3 DEF Unused, ChainIInv, ExporterShape
    <3>3. LogBodies \subseteq LogBodies' \cup gone
      BY <3>1 DEF LogBodies, Forget
    <3> HIDE DEF gone
    <3>4. exporter' = [step |-> exporter.step, cursor |-> exporter.cursor,
                       events |-> exporter.events, must |-> exporter.must \ gone]
      BY <3>1, <3>2
    <3>5. ExportFacts'
      BY <1>0, <2>3, <3>2, <3>3, <3>4 DEF ExportFacts, PagesSoFar, ExportEnds
    <3> QED
      BY <2>1, <3>5 DEF ExportIInv
  <2> QED
    BY <2>2, <2>3
<1>9. ASSUME NEW k \in DOMAIN log, Tamper(k) PROVE ExportIInv'
  <2>1. ExportFacts'
    BY <1>9, <1>b DEF Tamper
  <2>2. DatesTyped'
    <3>1. CASE log' = Forget(log, {k})
      BY <1>9, <1>c, <3>1 DEF Tamper
    <3>2. ASSUME NEW at \in 0..MaxAuditClock, NEW hash,
                 log' = [log EXCEPT ![k] = [@ EXCEPT !.body = [log[k].body EXCEPT !.at = at], !.hash = hash]]
          PROVE  DatesTyped'
      <4>1. IsRow(log[k]) /\ log[k].body \in AuditBodies
        BY <1>0 DEF ChainIInv, Table, DatesTyped
      <4> DEFINE body == [log[k].body EXCEPT !.at = at]
      <4>2. body \in AuditBodies
        BY <4>1, AuditAssumption DEF AuditBodies
      <4> HIDE DEF body
      <4>3. [log[k] EXCEPT !.body = body, !.hash = hash].body = body
        <5>1. PICK b, p, h : log[k] = [body |-> b, prev |-> p, hash |-> h]
          BY <4>1 DEF IsRow
        <5> QED
          BY <5>1
      <4>4. \A j \in DOMAIN log' : log'[j].body \in AuditBodies
        BY <1>0, <3>2, <4>2, <4>3 DEF DatesTyped, body
      <4> QED
        BY <1>0, <1>9, <4>4 DEF Tamper, DatesTyped
    <3> QED
      BY <1>9, <3>1, <3>2 DEF Tamper
  <2> QED
    BY <2>1, <2>2 DEF ExportIInv
<1>10. CASE AuditTick
  BY <1>0, <1>10, <1>a DEF AuditTick, ExportIInv, DatesTyped
<1>11. CASE UNCHANGED auditVars
  BY <1>0, <1>11, <1>a DEF auditVars, ExportIInv, DatesTyped
<1> QED
  BY <1>1, <1>2, <1>3, <1>4, <1>5, <1>6, <1>7, <1>8, <1>9, <1>10, <1>11 DEF AuditNext

(* An export names no event twice and, when the cap did not cut it off,    *)
(* every event that was in the log from its start to its end, for any page *)
(* and cap and however many events are appended, purged and dated alike    *)
(* between its pages (audit_log.rs, collect_export()).                     *)
THEOREM ExportAlwaysComplete == AuditSpec => []ExportComplete
<1>1. AuditInit => ChainIInv /\ ExportIInv
  BY ChainInit, ExportInit
<1>2. (ChainIInv /\ ExportIInv) /\ [AuditNext]_auditVars => (ChainIInv /\ ExportIInv)'
  BY ChainStep, ExportStep
<1>3. ChainIInv /\ ExportIInv => ExportComplete
  <2> SUFFICES ASSUME ExportIInv, exporter.step = "done"
               PROVE  /\ IsInjective(exporter.events)
                      /\ Len(exporter.events) < MAX_EXPORT_ROWS
                           => exporter.must \subseteq {exporter.events[i] : i \in DOMAIN exporter.events}
    BY DEF ExportComplete
  <2> DEFINE ev == exporter.events
  <2>1. /\ ev \in Seq(AuditBodies) /\ Descending(ev)
        /\ Len(ev) < MAX_EXPORT_ROWS => exporter.must \subseteq Range(ev)
    BY DEF ExportIInv, ExportFacts, ExportEnds, Unused
  <2> HIDE DEF ev
  <2>2. ASSUME NEW i \in DOMAIN ev, NEW j \in DOMAIN ev, ev[i] = ev[j] PROVE i = j
    <3>1. i \in Nat /\ j \in Nat /\ ev[i] \in AuditBodies
      BY <2>1
    <3>2. ~Newer(ev[i], ev[i])
      BY <3>1, NewerIsOrder
    <3>3. ~(i < j) /\ ~(j < i)
      BY <2>1, <2>2, <3>2 DEF Descending
    <3> QED
      BY <3>1, <3>3
  <2>3. IsInjective(ev)
    BY <2>2 DEF IsInjective
  <2> QED
    BY <2>1, <2>3 DEF ev, Range
<1> QED
  BY <1>1, <1>2, <1>3, PTL DEF AuditSpec

-----------------------------------------------------------------------------
(* Routes and resources.                                                   *)
(* The columns and the requests between their reads and their writes.      *)
Advertisements == [step : {"read"}, routes : SUBSET Subnets, approved : SUBSET Subnets]
Lapsed == UNION {[S -> SUBSET Subnets] : S \in SUBSET Routers}
Approvals == [step : {"checked"}, node : Routers, routes : SUBSET Subnets, lapsed : Lapsed]
Resources == [cidr : Subnets, nested : BOOLEAN, rev : Nat \ {0}]
RouteShapes ==
  /\ router \in [Routers -> [adv : SUBSET Subnets, app : SUBSET Subnets, expired : BOOLEAN]]
  /\ netRes \in [ResourceIds -> Resources \cup {NoResource}]
  /\ advert \in [Routers -> Advertisements \cup {NoAdvert}]
  /\ approval \in [RouteAdmins -> Approvals \cup {NoApproval}]

(* Whatever is stored, or read and about to be stored, is disjoint.        *)
RoutesValid ==
  /\ \A n \in Routers :
       /\ ValidRoutes(router[n].adv) /\ ValidRoutes(router[n].app)
       /\ advert[n] # NoAdvert => ValidRoutes(advert[n].routes)
  /\ \A a \in RouteAdmins : approval[a] # NoApproval =>
       /\ ValidRoutes(approval[a].routes)
       /\ \A o \in DOMAIN approval[a].lapsed : ValidRoutes(approval[a].lapsed[o])

(* One transaction at a time: what an approval checked is still so when it *)
(* writes.                                                                 *)
ApprovalsCurrent ==
  /\ \A a, b \in RouteAdmins : approval[a] # NoApproval /\ approval[b] # NoApproval => a = b
  /\ \A a \in RouteAdmins : approval[a] # NoApproval =>
       /\ approval[a].routes \subseteq router[approval[a].node].adv
       /\ \A o \in DOMAIN approval[a].lapsed : approval[a].lapsed[o] \subseteq router[o].adv

InUse == {y \in ResourceIds : netRes[y] # NoResource}
ResourcesFit == IsFiniteSet(InUse) /\ Cardinality(InUse) <= MAX_RESOURCES

RoutesIInv == RouteShapes /\ RoutesValid /\ ResourcesNest /\ ResourcesFit

LEMMA RoutesInitIInv == RoutesInit => RoutesIInv /\ ApprovalsCurrent /\ ApprovedAreAdvertised
<1> SUFFICES ASSUME RoutesInit PROVE RoutesIInv /\ ApprovalsCurrent /\ ApprovedAreAdvertised
  OBVIOUS
<1>1. RouteShapes
  BY DEF RoutesInit, RouteShapes
<1>2. RoutesValid
  BY DEF RoutesInit, RoutesValid, ValidRoutes
<1>3. InUse = {}
  BY DEF RoutesInit, InUse
<1>4. ResourcesFit
  BY <1>3, FS_EmptySet, RoutesAssumption DEF ResourcesFit
<1> QED
  BY <1>1, <1>2, <1>4
     DEF RoutesInit, RoutesIInv, ResourcesNest, ApprovalsCurrent, ApprovedAreAdvertised

LEMMA ApproveWriteShape ==
  ASSUME RouteShapes, NEW a \in RouteAdmins, ApproveWrite(a)
  PROVE  /\ approval[a] \in Approvals
         /\ approval' = [approval EXCEPT ![a] = NoApproval]
         /\ \A n \in Routers :
              \/ router'[n] = router[n]
              \/ n = approval[a].node /\ router'[n] = [router[n] EXCEPT !.app = approval[a].routes]
              \/ /\ n \in DOMAIN approval[a].lapsed
                 /\ \E S \in SUBSET approval[a].lapsed[n] :
                      router'[n] = [router[n] EXCEPT !.app = S]
         /\ UNCHANGED <<netRes, advert>>
<1>1. approval[a].step = "checked"
  BY DEF ApproveWrite
<1>2. approval[a] \in Approvals
  BY <1>1 DEF RouteShapes, NoApproval
<1>3. ASSUME NEW n \in Routers
      PROVE  \/ router'[n] = router[n]
             \/ n = approval[a].node /\ router'[n] = [router[n] EXCEPT !.app = approval[a].routes]
             \/ /\ n \in DOMAIN approval[a].lapsed
                /\ \E S \in SUBSET approval[a].lapsed[n] :
                     router'[n] = [router[n] EXCEPT !.app = S]
  <2> DEFINE kept == {p \in approval[a].lapsed[n] : Clear(p, approval[a].routes)}
  <2>1. kept \in SUBSET approval[a].lapsed[n]
    OBVIOUS
  <2>2. router'[n] = IF n = approval[a].node THEN [router[n] EXCEPT !.app = approval[a].routes]
                     ELSE IF n \in DOMAIN approval[a].lapsed /\ kept # approval[a].lapsed[n]
                     THEN [router[n] EXCEPT !.app = kept] ELSE router[n]
    BY DEF ApproveWrite
  <2> HIDE DEF kept
  <2> QED
    BY <2>1, <2>2
<1> QED
  BY <1>2, <1>3 DEF ApproveWrite

LEMMA RouteShapesStep == RouteShapes /\ [RoutesNext]_routeVars => RouteShapes'
<1> SUFFICES ASSUME RouteShapes, [RoutesNext]_routeVars PROVE RouteShapes'
  OBVIOUS
<1> USE RoutesAssumption DEF RouteShapes
<1>1. ASSUME NEW n \in Routers, NEW S \in SUBSET Subnets, AdvertiseRead(n, S) PROVE RouteShapes'
  <2>1. [step |-> "read", routes |-> S, approved |-> router[n].app] \in Advertisements
    BY DEF Advertisements
  <2> QED
    BY <1>1, <2>1 DEF AdvertiseRead
<1>2. ASSUME NEW n \in Routers, AdvertiseWrite(n) PROVE RouteShapes'
  <2>1. advert[n] \in Advertisements
    BY <1>2 DEF AdvertiseWrite, NoAdvert
  <2>2. advert[n].routes \subseteq Subnets /\ Retained(advert[n]) \subseteq Subnets
    BY <2>1 DEF Advertisements, Retained
  <2> QED
    BY <1>2, <2>2 DEF AdvertiseWrite
<1>3. ASSUME NEW a \in RouteAdmins, NEW n \in Routers, NEW S \in SUBSET Subnets,
             ApproveRead(a, n, S)
      PROVE  RouteShapes'
  <2> DEFINE gone == {o \in Others(n) : router[o].expired}
             lapsed == [o \in gone |-> router[o].app]
  <2>1. lapsed \in Lapsed
    <3>1. gone \in SUBSET Routers /\ lapsed \in [gone -> SUBSET Subnets]
      BY DEF Others
    <3> QED
      BY <3>1 DEF Lapsed
  <2> HIDE DEF lapsed
  <2>2. [step |-> "checked", node |-> n, routes |-> S, lapsed |-> lapsed] \in Approvals
    BY <2>1 DEF Approvals
  <2>3. /\ approval' = [approval EXCEPT ![a] =
             [step |-> "checked", node |-> n, routes |-> S, lapsed |-> lapsed]]
        /\ UNCHANGED <<router, netRes, advert>>
    BY <1>3 DEF ApproveRead, lapsed
  <2> QED
    BY <2>2, <2>3
<1>4. ASSUME NEW a \in RouteAdmins, ApproveWrite(a) PROVE RouteShapes'
  <2> DEFINE op == approval[a]
  <2>1. /\ op \in Approvals /\ approval' = [approval EXCEPT ![a] = NoApproval]
        /\ \A n \in Routers :
             \/ router'[n] = router[n]
             \/ n = op.node /\ router'[n] = [router[n] EXCEPT !.app = op.routes]
             \/ /\ n \in DOMAIN op.lapsed
                /\ \E S \in SUBSET op.lapsed[n] : router'[n] = [router[n] EXCEPT !.app = S]
        /\ UNCHANGED <<netRes, advert>>
    BY <1>4, ApproveWriteShape
  <2>2. op.routes \subseteq Subnets /\ \A o \in DOMAIN op.lapsed : op.lapsed[o] \subseteq Subnets
    BY <2>1 DEF Approvals, Lapsed
  <2>3. \A n \in Routers :
          router'[n] \in [adv : SUBSET Subnets, app : SUBSET Subnets, expired : BOOLEAN]
    <3> SUFFICES ASSUME NEW n \in Routers
                 PROVE  router'[n] \in [adv : SUBSET Subnets, app : SUBSET Subnets,
                                        expired : BOOLEAN]
      OBVIOUS
    <3>1. \A S \in SUBSET Subnets :
            [router[n] EXCEPT !.app = S] \in [adv : SUBSET Subnets, app : SUBSET Subnets,
                                              expired : BOOLEAN]
      OBVIOUS
    <3>2. \/ router'[n] = router[n]
          \/ \E S \in SUBSET Subnets : router'[n] = [router[n] EXCEPT !.app = S]
      BY <2>1, <2>2
    <3> QED
      BY <3>1, <3>2
  <2>4. DOMAIN router' = Routers /\ router' = [n \in Routers |-> router'[n]]
    BY <1>4 DEF ApproveWrite
  <2> QED
    BY <2>1, <2>3, <2>4
<1>5. ASSUME NEW x \in ResourceIds, NEW cidr \in Subnets, NEW nested \in BOOLEAN,
             CreateResource(x, cidr, nested) \/ UpdateResource(x, cidr, nested)
      PROVE  RouteShapes'
  <2>1. netRes[x] # NoResource => netRes[x].rev \in Nat
    BY DEF Resources
  <2>2. \E r \in Nat \ {0} : netRes' = [netRes EXCEPT ![x] = Written(cidr, nested, r)]
    <3>1. CASE CreateResource(x, cidr, nested)
      <4>1. 1 \in Nat \ {0} /\ netRes' = [netRes EXCEPT ![x] = Written(cidr, nested, 1)]
        BY <3>1 DEF CreateResource
      <4> QED
        BY <4>1
    <3>2. CASE UpdateResource(x, cidr, nested)
      <4>1. /\ netRes[x].rev + 1 \in Nat \ {0}
            /\ netRes' = [netRes EXCEPT ![x] = Written(cidr, nested, netRes[x].rev + 1)]
        BY <2>1, <3>2 DEF UpdateResource
      <4> QED
        BY <4>1
    <3> QED
      BY <1>5, <3>1, <3>2
  <2>3. \A r \in Nat \ {0} : Written(cidr, nested, r) \in Resources
    BY DEF Written, Resources
  <2> QED
    BY <1>5, <2>2, <2>3 DEF CreateResource, UpdateResource, ResourceTx
<1>6. ASSUME NEW x \in ResourceIds, DeleteResource(x) PROVE RouteShapes'
  BY <1>6 DEF DeleteResource, ResourceTx
<1>7. ASSUME NEW n \in Routers, CredentialTurns(n) PROVE RouteShapes'
  BY <1>7 DEF CredentialTurns
<1>8. CASE UNCHANGED routeVars
  BY <1>8 DEF routeVars
<1> QED
  BY <1>1, <1>2, <1>3, <1>4, <1>5, <1>6, <1>7, <1>8 DEF RoutesNext

LEMMA ValidSubset ==
  ASSUME NEW S, NEW T, ValidRoutes(S), T \subseteq S PROVE ValidRoutes(T)
BY DEF ValidRoutes

LEMMA RoutesValidStep ==
  RouteShapes /\ RoutesValid /\ [RoutesNext]_routeVars => RoutesValid'
<1> SUFFICES ASSUME RouteShapes, RoutesValid, [RoutesNext]_routeVars PROVE RoutesValid'
  OBVIOUS
<1> USE DEF RoutesValid
<1>1. ASSUME NEW n \in Routers, NEW S \in SUBSET Subnets, AdvertiseRead(n, S) PROVE RoutesValid'
  BY <1>1 DEF AdvertiseRead, RouteShapes
<1>2. ASSUME NEW n \in Routers, AdvertiseWrite(n) PROVE RoutesValid'
  <2>1. /\ advert[n] # NoAdvert /\ ValidRoutes(advert[n].routes)
    BY <1>2 DEF AdvertiseWrite, NoAdvert
  <2>2. ValidRoutes(Retained(advert[n]))
    BY <2>1, ValidSubset DEF Retained
  <2>3. /\ router' = [router EXCEPT ![n].adv = advert[n].routes, ![n].app = Retained(advert[n])]
        /\ advert' = [advert EXCEPT ![n] = NoAdvert] /\ approval' = approval
    BY <1>2 DEF AdvertiseWrite
  <2> QED
    BY <2>1, <2>2, <2>3 DEF RouteShapes
<1>3. ASSUME NEW a \in RouteAdmins, NEW n \in Routers, NEW S \in SUBSET Subnets,
             ApproveRead(a, n, S)
      PROVE  RoutesValid'
  <2>1. ValidRoutes(S)
    BY <1>3 DEF ApproveRead, Approvable
  <2> QED
    BY <1>3, <2>1 DEF ApproveRead, RouteShapes, Others
<1>4. ASSUME NEW a \in RouteAdmins, ApproveWrite(a) PROVE RoutesValid'
  <2> DEFINE op == approval[a]
  <2>1. /\ op \in Approvals /\ approval' = [approval EXCEPT ![a] = NoApproval]
        /\ \A n \in Routers :
             \/ router'[n] = router[n]
             \/ n = op.node /\ router'[n] = [router[n] EXCEPT !.app = op.routes]
             \/ /\ n \in DOMAIN op.lapsed
                /\ \E S \in SUBSET op.lapsed[n] : router'[n] = [router[n] EXCEPT !.app = S]
        /\ UNCHANGED <<netRes, advert>>
    BY <1>4, ApproveWriteShape
  <2>2. op # NoApproval
    BY <1>4 DEF ApproveWrite, NoApproval
  <2>3. ASSUME NEW n \in Routers PROVE ValidRoutes(router'[n].adv) /\ ValidRoutes(router'[n].app)
    <3>1. CASE router'[n] = router[n]
      BY <3>1
    <3>2. ASSUME NEW T, ValidRoutes(T), router'[n] = [router[n] EXCEPT !.app = T]
          PROVE  ValidRoutes(router'[n].adv) /\ ValidRoutes(router'[n].app)
      BY <3>2 DEF RouteShapes
    <3>3. CASE router'[n] = [router[n] EXCEPT !.app = op.routes]
      BY <2>2, <3>2, <3>3
    <3>4. ASSUME n \in DOMAIN op.lapsed, NEW S \in SUBSET op.lapsed[n],
                 router'[n] = [router[n] EXCEPT !.app = S]
          PROVE  ValidRoutes(router'[n].adv) /\ ValidRoutes(router'[n].app)
      <4>1. ValidRoutes(S)
        BY <2>2, <3>4, ValidSubset
      <4> QED
        BY <3>2, <3>4, <4>1
    <3> QED
      BY <2>1, <3>1, <3>3, <3>4
  <2> QED
    BY <2>1, <2>3 DEF RouteShapes
<1>5. ASSUME UNCHANGED <<router, advert, approval>> PROVE RoutesValid'
  BY <1>5
<1>6. ASSUME NEW n \in Routers, CredentialTurns(n) PROVE RoutesValid'
  BY <1>6 DEF CredentialTurns, RouteShapes
<1> QED
  BY <1>1, <1>2, <1>3, <1>4, <1>5, <1>6
     DEF RoutesNext, routeVars, DeleteResource, CreateResource, UpdateResource, ResourceTx

LEMMA ResourcesNestStep ==
  RouteShapes /\ ResourcesNest /\ [RoutesNext]_routeVars => ResourcesNest'
<1> SUFFICES ASSUME RouteShapes, ResourcesNest, [RoutesNext]_routeVars PROVE ResourcesNest'
  OBVIOUS
<1>1. ASSUME NEW x \in ResourceIds, NEW cidr \in Subnets, NEW nested \in BOOLEAN,
             NEW r \in Nat, ResourceFree(x, cidr, nested),
             netRes' = [netRes EXCEPT ![x] = Written(cidr, nested, r)]
      PROVE  ResourcesNest'
  <2> SUFFICES ASSUME NEW y \in ResourceIds, NEW z \in ResourceIds, y # z,
                      netRes'[y] # NoResource, netRes'[z] # NoResource,
                      Overlaps(netRes'[y].cidr, netRes'[z].cidr)
               PROVE  netRes'[y].cidr # netRes'[z].cidr /\ (netRes'[y].nested \/ netRes'[z].nested)
    BY DEF ResourcesNest
  <2>1. netRes'[x].cidr = cidr /\ netRes'[x].nested = nested
    BY <1>1 DEF Written, RouteShapes
  <2>2. \A w \in ResourceIds \ {x} : netRes'[w] = netRes[w]
    BY <1>1 DEF RouteShapes
  <2>3. CASE y = x
    BY <1>1, <2>1, <2>2, <2>3 DEF ResourceFree, Overlaps
  <2>4. CASE z = x
    BY <1>1, <2>1, <2>2, <2>4 DEF ResourceFree, Overlaps
  <2>5. CASE y # x /\ z # x
    BY <2>2, <2>5 DEF ResourcesNest
  <2> QED
    BY <2>3, <2>4, <2>5
<1>2. ASSUME NEW x \in ResourceIds, DeleteResource(x) PROVE ResourcesNest'
  BY <1>2 DEF DeleteResource, ResourcesNest, RouteShapes
<1>3. CASE UNCHANGED netRes
  BY <1>3 DEF ResourcesNest
<1>4. ASSUME NEW x \in ResourceIds, NEW cidr \in Subnets, NEW nested \in BOOLEAN,
             CreateResource(x, cidr, nested) \/ UpdateResource(x, cidr, nested)
      PROVE  ResourcesNest'
  <2>1. netRes[x] # NoResource => netRes[x].rev \in Nat
    BY DEF RouteShapes, Resources
  <2> QED
    BY <1>1, <1>4, <2>1 DEF CreateResource, UpdateResource
<1> QED
  BY <1>2, <1>3, <1>4
     DEF RoutesNext, routeVars, AdvertiseRead, AdvertiseWrite, ApproveRead, ApproveWrite,
         CredentialTurns

LEMMA ResourcesFitStep ==
  RouteShapes /\ ResourcesFit /\ [RoutesNext]_routeVars => ResourcesFit'
<1> SUFFICES ASSUME RouteShapes, ResourcesFit, [RoutesNext]_routeVars PROVE ResourcesFit'
  OBVIOUS
<1> USE RoutesAssumption DEF ResourcesFit
<1>0. Cardinality(InUse) \in Nat
  BY FS_CardinalityType
<1>1. ASSUME NEW x \in ResourceIds, NEW cidr \in Subnets, NEW nested \in BOOLEAN,
             CreateResource(x, cidr, nested)
      PROVE  ResourcesFit'
  <2>1. InUse' = InUse \cup {x} /\ x \notin InUse
    <3>1. netRes' = [netRes EXCEPT ![x] = Written(cidr, nested, 1)] /\ netRes[x] = NoResource
      BY <1>1 DEF CreateResource
    <3>2. Written(cidr, nested, 1) # NoResource
      BY DEF Written, NoResource
    <3> QED
      BY <3>1, <3>2 DEF InUse, RouteShapes
  <2>2. IsFiniteSet(InUse') /\ Cardinality(InUse') = Cardinality(InUse) + 1
    BY <2>1, FS_AddElement
  <2>3. Cardinality(InUse) < MAX_RESOURCES
    BY <1>1 DEF CreateResource, ResourceRoom, InUse
  <2> QED
    BY <1>0, <2>2, <2>3
<1>2. CASE InUse' \subseteq InUse
  <2>1. IsFiniteSet(InUse') /\ Cardinality(InUse') <= Cardinality(InUse)
    BY <1>2, FS_Subset
  <2>2. Cardinality(InUse') \in Nat
    BY <2>1, FS_CardinalityType
  <2> QED
    BY <1>0, <2>1, <2>2
<1>3. ASSUME NEW x \in ResourceIds, NEW cidr \in Subnets, NEW nested \in BOOLEAN,
             UpdateResource(x, cidr, nested)
      PROVE  InUse' \subseteq InUse
  BY <1>3 DEF UpdateResource, InUse, RouteShapes
<1>4. ASSUME NEW x \in ResourceIds, DeleteResource(x) PROVE InUse' \subseteq InUse
  BY <1>4 DEF DeleteResource, InUse, RouteShapes
<1>5. ASSUME UNCHANGED netRes PROVE InUse' \subseteq InUse
  BY <1>5 DEF InUse
<1> QED
  BY <1>1, <1>2, <1>3, <1>4, <1>5
     DEF RoutesNext, routeVars, AdvertiseRead, AdvertiseWrite, ApproveRead, ApproveWrite,
         CredentialTurns

(* On one connection the checks of an approval outlive its read, and so    *)
(* whatever it writes is advertised.                                       *)
AdvertisedIInv == ApprovalsCurrent /\ ApprovedAreAdvertised

LEMMA AdvertisedStep ==
  ASSUME OneConnection
  PROVE  RouteShapes /\ AdvertisedIInv /\ [RoutesNext]_routeVars => AdvertisedIInv'
<1> SUFFICES ASSUME RouteShapes, AdvertisedIInv, [RoutesNext]_routeVars
             PROVE  AdvertisedIInv'
  OBVIOUS
<1> USE DEF AdvertisedIInv, ApprovalsCurrent, ApprovedAreAdvertised
<1>1. ASSUME NEW n \in Routers, AdvertiseWrite(n) PROVE AdvertisedIInv'
  <2>1. \A a \in RouteAdmins : approval'[a] = NoApproval
    BY <1>1 DEF AdvertiseWrite, TxFree
  <2>2. Retained(advert[n]) \subseteq advert[n].routes
    BY DEF Retained
  <2> QED
    BY <1>1, <2>1, <2>2 DEF AdvertiseWrite, RouteShapes
<1>2. ASSUME NEW a \in RouteAdmins, NEW n \in Routers, NEW S \in SUBSET Subnets,
             ApproveRead(a, n, S)
      PROVE  AdvertisedIInv'
  <2>1. \A b \in RouteAdmins : b # a => approval'[b] = NoApproval
    BY <1>2 DEF ApproveRead, TxFree, RouteShapes
  <2>2. /\ approval'[a].node = n /\ approval'[a].routes = S
        /\ DOMAIN approval'[a].lapsed \subseteq Routers
        /\ \A o \in DOMAIN approval'[a].lapsed : approval'[a].lapsed[o] = router[o].app
    BY <1>2 DEF ApproveRead, RouteShapes, Others
  <2>3. S \subseteq router[n].adv /\ router' = router
    BY <1>2 DEF ApproveRead, Approvable
  <2> QED
    BY <2>1, <2>2, <2>3
<1>3. ASSUME NEW a \in RouteAdmins, ApproveWrite(a) PROVE AdvertisedIInv'
  <2> DEFINE op == approval[a]
  <2>1. /\ op \in Approvals /\ approval' = [approval EXCEPT ![a] = NoApproval]
        /\ \A n \in Routers :
             \/ router'[n] = router[n]
             \/ n = op.node /\ router'[n] = [router[n] EXCEPT !.app = op.routes]
             \/ /\ n \in DOMAIN op.lapsed
                /\ \E S \in SUBSET op.lapsed[n] : router'[n] = [router[n] EXCEPT !.app = S]
    BY <1>3, ApproveWriteShape
  <2>2. op # NoApproval
    BY <1>3 DEF ApproveWrite, NoApproval
  <2>3. \A b \in RouteAdmins : approval'[b] = NoApproval
    BY <2>1, <2>2 DEF RouteShapes
  <2>4. ASSUME NEW n \in Routers PROVE router'[n].app \subseteq router'[n].adv
    <3>1. ASSUME NEW T, T \subseteq router[n].adv, router'[n] = [router[n] EXCEPT !.app = T]
          PROVE  router'[n].app \subseteq router'[n].adv
      BY <3>1 DEF RouteShapes
    <3>2. CASE n = op.node /\ router'[n] = [router[n] EXCEPT !.app = op.routes]
      BY <2>2, <3>1, <3>2
    <3>3. ASSUME n \in DOMAIN op.lapsed, NEW S \in SUBSET op.lapsed[n],
                 router'[n] = [router[n] EXCEPT !.app = S]
          PROVE  router'[n].app \subseteq router'[n].adv
      <4>1. S \subseteq router[n].adv
        BY <2>2, <3>3
      <4> QED
        BY <3>1, <3>3, <4>1
    <3> QED
      BY <2>1, <3>2, <3>3
  <2> QED
    BY <2>3, <2>4
<1>4. ASSUME NEW n \in Routers, CredentialTurns(n) PROVE AdvertisedIInv'
  BY <1>4 DEF CredentialTurns, TxFree, RouteShapes
<1>5. ASSUME UNCHANGED <<router, approval>> PROVE AdvertisedIInv'
  BY <1>5
<1> QED
  BY <1>1, <1>2, <1>3, <1>4, <1>5
     DEF RoutesNext, routeVars, AdvertiseRead, DeleteResource, CreateResource,
         UpdateResource, ResourceTx

LEMMA RoutesInductive == RoutesSpec => []RoutesIInv
<1>1. RoutesIInv /\ [RoutesNext]_routeVars => RoutesIInv'
  BY RouteShapesStep, RoutesValidStep, ResourcesNestStep, ResourcesFitStep DEF RoutesIInv
<1>2. RoutesInit => RoutesIInv
  BY RoutesInitIInv
<1> QED
  BY <1>1, <1>2, PTL DEF RoutesSpec

(* On either database, resources overlap only where one of them asked for  *)
(* it, and routers and resources keep their types and limits.              *)
THEOREM ResourcesAlwaysNest == RoutesSpec => [](RoutesTypeOK /\ ResourcesNest)
<1>1. RoutesIInv => RoutesTypeOK /\ ResourcesNest
  BY DEF RoutesIInv, RouteShapes, RoutesValid, ResourcesFit, InUse, RoutesTypeOK
<1> QED
  BY <1>1, RoutesInductive, PTL

(* On SQLite, whose transactions exclude each other, what is approved is   *)
(* advertised as well: no order of reads and writes of administrators and  *)
(* agents leaves an approval behind its advertisement.                     *)
THEOREM RoutesAlwaysHold == ASSUME OneConnection PROVE RoutesSpec => []RoutesInv
<1>1. RoutesInit => AdvertisedIInv
  BY RoutesInitIInv DEF AdvertisedIInv
<1>2. RoutesIInv /\ AdvertisedIInv /\ [RoutesNext]_routeVars => AdvertisedIInv'
  BY AdvertisedStep DEF RoutesIInv
<1>3. RoutesSpec => []AdvertisedIInv
  BY <1>1, <1>2, RoutesInductive, PTL DEF RoutesSpec
<1>4. RoutesTypeOK /\ ResourcesNest /\ AdvertisedIInv => RoutesInv
  BY DEF AdvertisedIInv, RoutesInv
<1> QED
  BY <1>3, <1>4, ResourcesAlwaysNest, PTL

-----------------------------------------------------------------------------
(* Pinned hardware identifiers.                                            *)
HwRows == [serial : Serials \cup {NoSerial}, at : Nat, pending : Serials \cup {NoSerial}]
Held == UNION {[S -> Nat] : S \in SUBSET Machines}
ReportOps == [step : {"read"}, serial : Serials, row : HwRows]
               \cup [step : {"checked"}, serial : Serials, row : HwRows, held : Held, at : Nat]
ApproveOps == [step : {"checked"}, serial : Serials, held : Held, at : Nat]
HwShapes ==
  /\ hw \in [Machines -> HwRows]
  /\ hwOp \in [Machines -> [report : ReportOps \cup {NoOp}, approve : ApproveOps \cup {NoOp}]]
  /\ backed \in [Machines -> SUBSET Serials]
  /\ hwClock \in Nat

(* A row a report read is backed like the one in the table; what a request *)
(* saw of the other holders is what it ranks behind.                       *)
HwOps ==
  \A n \in Machines :
    LET rep == hwOp[n].report
        app == hwOp[n].approve
    IN /\ rep # NoOp => rep.row.serial \in backed[n] \cup {NoSerial}
       /\ rep.step = "checked" => /\ n \notin DOMAIN rep.held
                                  /\ rep.serial = rep.row.serial => DOMAIN rep.held = {}
       /\ app # NoOp => /\ n \notin DOMAIN app.held
                        /\ \A m \in DOMAIN app.held : app.held[m] < app.at

HwIInv == HwShapes /\ HwOps /\ PinsAreBacked

(* A new pin ranks after every pin of the identifier that is in the table. *)
LEMMA PinAtRanksLast ==
  ASSUME HwShapes, NEW n \in Machines, NEW s
  PROVE  /\ PinAt(n, s) \in Nat
         /\ \A m \in Clashing(n, s) : hw[m].at < PinAt(n, s)
<1> DEFINE C == Clashing(n, s)
           V == {hwClock} \cup {hw[m].at + 1 : m \in C}
<1>1. C \in SUBSET Machines
  BY DEF Clashing
<1>2. IsFiniteSet(C)
  BY <1>1, FS_Subset, HardwareAssumption
<1> HIDE DEF C
<1>3. V \subseteq Nat
  BY <1>1 DEF HwShapes, HwRows
<1>4. \E x \in V : \A y \in V : x >= y
  <2>1. CASE C = {}
    BY <1>3, <2>1
  <2>2. CASE C # {}
    <3> DEFINE f == [m \in C |-> hw[m].at]
    <3>1. f \in [C -> Nat]
      BY <1>1 DEF HwShapes, HwRows
    <3>2. PICK m \in C : \A k \in C : f[k] <= f[m]
      BY <1>2, <2>2, <3>1, GreatestValue
    <3>3. \A k \in C : hw[k].at <= hw[m].at /\ hw[k].at \in Nat
      BY <1>1, <3>2 DEF HwShapes, HwRows
    <3>4. hwClock \in Nat /\ hw[m].at \in Nat
      BY <3>3 DEF HwShapes
    <3>5. CASE hwClock >= hw[m].at + 1
      <4>1. \A y \in V : hwClock >= y
        BY <3>3, <3>4, <3>5
      <4> QED
        BY <4>1
    <3>6. CASE ~(hwClock >= hw[m].at + 1)
      <4>1. \A y \in V : hw[m].at + 1 >= y
        BY <3>3, <3>4, <3>6
      <4> QED
        BY <4>1
    <3> QED
      BY <3>5, <3>6
  <2> QED
    BY <2>1, <2>2
<1>5. Max(V) \in V /\ \A y \in V : Max(V) >= y
  <2> HIDE DEF V
  <2> QED
    BY <1>4 DEF Max
<1>6. PinAt(n, s) = Max(V)
  BY DEF PinAt, C
<1>7. ASSUME NEW m \in C PROVE hw[m].at < PinAt(n, s)
  <2>1. hw[m].at + 1 \in V /\ hw[m].at \in Nat
    BY <1>1 DEF HwShapes, HwRows
  <2>2. PinAt(n, s) \in Nat
    BY <1>3, <1>5, <1>6
  <2>3. PinAt(n, s) >= hw[m].at + 1
    BY <1>5, <1>6, <2>1
  <2> QED
    BY <2>1, <2>2, <2>3
<1> QED
  BY <1>3, <1>5, <1>6, <1>7 DEF C

LEMMA HwInitIInv == HardwareInit => HwIInv
BY HardwareAssumption
   DEF HardwareInit, HwIInv, HwShapes, HwOps, PinsAreBacked, HwRows, Unpinned, NoOp

LEMMA PinsSeenShape ==
  ASSUME HwShapes, NEW S \in SUBSET Machines
  PROVE  /\ PinsSeen(S) \in Held /\ DOMAIN PinsSeen(S) = S
         /\ \A m \in S : PinsSeen(S)[m] = hw[m].at
<1>1. PinsSeen(S) \in [S -> Nat]
  BY DEF PinsSeen, HwShapes, HwRows
<1> QED
  BY <1>1 DEF Held, PinsSeen

(* What a report commits: a first pin that nobody contests, or the serial  *)
(* of the row it read.                                                     *)
LEMMA ReportedRowShape ==
  ASSUME HwShapes, NEW n \in Machines, hwOp[n].report.step = "checked"
  PROVE  LET op == hwOp[n].report
             first == op.row.serial = NoSerial /\ DOMAIN op.held = {}
         IN /\ op \in [step : {"checked"}, serial : Serials, row : HwRows, held : Held, at : Nat]
            /\ ReportedRow(op) \in HwRows
            /\ ReportedRow(op).serial = IF first THEN op.serial ELSE op.row.serial
<1> DEFINE op == hwOp[n].report
<1>1. op \in [step : {"checked"}, serial : Serials, row : HwRows, held : Held, at : Nat]
  BY DEF HwShapes, ReportOps, NoOp
<1>2. /\ op.row \in HwRows /\ op.serial \in Serials /\ op.at \in Nat /\ op.serial # NoSerial
  BY <1>1, HardwareAssumption
<1> HIDE DEF op
<1>3. \A p \in Serials \cup {NoSerial} :
        /\ [op.row EXCEPT !.pending = p] \in HwRows
        /\ [op.row EXCEPT !.pending = p].serial = op.row.serial
  BY <1>2 DEF HwRows
<1>4. /\ [serial |-> op.serial, at |-> op.at, pending |-> NoSerial] \in HwRows
      /\ [serial |-> op.serial, at |-> op.at, pending |-> NoSerial].serial = op.serial
  BY <1>2 DEF HwRows
<1> DEFINE first == op.row.serial = NoSerial /\ DOMAIN op.held = {}
           Good(r) == r \in HwRows /\ r.serial = IF first THEN op.serial ELSE op.row.serial
<1>5. ASSUME op.serial = op.row.serial PROVE Good(ReportedRow(op))
  <2>1. ReportedRow(op) = [op.row EXCEPT !.pending = NoSerial] /\ ~first
    BY <1>2, <1>5 DEF ReportedRow
  <2> QED
    BY <1>3, <2>1
<1>6. ASSUME op.serial # op.row.serial, first PROVE Good(ReportedRow(op))
  <2>1. ReportedRow(op) = [serial |-> op.serial, at |-> op.at, pending |-> NoSerial]
    BY <1>6 DEF ReportedRow
  <2> QED
    BY <1>4, <1>6, <2>1
<1>7. ASSUME op.serial # op.row.serial, ~first PROVE Good(ReportedRow(op))
  <2>1. ReportedRow(op) = [op.row EXCEPT !.pending = op.serial]
    BY <1>7 DEF ReportedRow
  <2> QED
    BY <1>2, <1>3, <1>7, <2>1
<1>8. Good(ReportedRow(op))
  BY <1>5, <1>6, <1>7
<1> QED
  BY <1>1, <1>8 DEF op

LEMMA HwStep == HwIInv /\ [HardwareNext]_hwVars => HwIInv'
<1> SUFFICES ASSUME HwIInv, [HardwareNext]_hwVars PROVE HwIInv'
  OBVIOUS
<1> USE DEF HwIInv
<1>0. \A n \in Machines : hwOp[n] \in [report : ReportOps \cup {NoOp}, approve : ApproveOps \cup {NoOp}]
  BY DEF HwShapes
(* A request of device n moves on, in the half its kind names.             *)
<1>a. ASSUME NEW n \in Machines, NEW r \in ReportOps \cup {NoOp},
             hwOp' = [hwOp EXCEPT ![n].report = r]
      PROVE  /\ hwOp' \in [Machines -> [report : ReportOps \cup {NoOp},
                                        approve : ApproveOps \cup {NoOp}]]
             /\ hwOp'[n].report = r /\ hwOp'[n].approve = hwOp[n].approve
             /\ \A m \in Machines \ {n} : hwOp'[m] = hwOp[m]
  BY <1>a DEF HwShapes
<1>b. ASSUME NEW n \in Machines, NEW r \in ApproveOps \cup {NoOp},
             hwOp' = [hwOp EXCEPT ![n].approve = r]
      PROVE  /\ hwOp' \in [Machines -> [report : ReportOps \cup {NoOp},
                                        approve : ApproveOps \cup {NoOp}]]
             /\ hwOp'[n].approve = r /\ hwOp'[n].report = hwOp[n].report
             /\ \A m \in Machines \ {n} : hwOp'[m] = hwOp[m]
  BY <1>b DEF HwShapes
<1>1. ASSUME NEW n \in Machines, NEW s \in Serials, ReportHwRead(n, s) PROVE HwIInv'
  <2> DEFINE r == [step |-> "read", serial |-> s, row |-> hw[n]]
  <2>1. r \in ReportOps /\ r.step = "read" /\ r.row = hw[n]
    BY DEF ReportOps, HwShapes
  <2>2. hwOp' = [hwOp EXCEPT ![n].report = r] /\ UNCHANGED <<hw, backed, hwClock>>
    BY <1>1 DEF ReportHwRead
  <2> HIDE DEF r
  <2>3. HwShapes'
    BY <1>a, <2>1, <2>2 DEF HwShapes
  <2>4. HwOps'
    BY <1>a, <2>1, <2>2 DEF HwOps, PinsAreBacked
  <2> QED
    BY <2>2, <2>3, <2>4 DEF PinsAreBacked
<1>2. ASSUME NEW n \in Machines, ReportHwClash(n) PROVE HwIInv'
  <2> DEFINE op == hwOp[n].report
             others == IF op.serial = op.row.serial THEN {} ELSE Clashing(n, op.serial)
             r == [step |-> "checked", serial |-> op.serial, row |-> op.row,
                   held |-> PinsSeen(others), at |-> PinAt(n, op.serial)]
  <2>1. op.step = "read" /\ op # NoOp /\ op.serial \in Serials /\ op.row \in HwRows
    BY <1>2, <1>0 DEF ReportHwClash, ReportOps, NoOp
  <2>2. PinsSeen(others) \in Held /\ DOMAIN PinsSeen(others) = others
        /\ others \subseteq Machines \ {n}
    BY PinsSeenShape DEF Clashing
  <2>3. r \in ReportOps
    BY <2>1, <2>2, PinAtRanksLast DEF ReportOps
  <2>4. hwOp' = [hwOp EXCEPT ![n].report = r] /\ UNCHANGED <<hw, backed, hwClock>>
    BY <1>2 DEF ReportHwClash
  <2>5. r.row = op.row /\ r.held = PinsSeen(others) /\ r.serial = op.serial
    OBVIOUS
  <2> HIDE DEF r
  <2>6. HwShapes'
    BY <1>a, <2>3, <2>4 DEF HwShapes
  <2>7. HwOps'
    BY <1>a, <2>1, <2>2, <2>3, <2>4, <2>5 DEF HwOps
  <2> QED
    BY <2>4, <2>6, <2>7 DEF PinsAreBacked
<1>3. ASSUME NEW n \in Machines, ReportHwCommit(n) PROVE HwIInv'
  <2> DEFINE op == hwOp[n].report
             first == op.row.serial = NoSerial /\ DOMAIN op.held = {}
  <2>1. op.step = "checked" /\ op # NoOp
    BY <1>3 DEF ReportHwCommit, NoOp
  <2>2. /\ op \in [step : {"checked"}, serial : Serials, row : HwRows, held : Held, at : Nat]
        /\ ReportedRow(op) \in HwRows
        /\ ReportedRow(op).serial = IF first THEN op.serial ELSE op.row.serial
    BY <2>1, ReportedRowShape
  <2>3. /\ hw' = [hw EXCEPT ![n] = ReportedRow(op)]
        /\ backed' = IF first THEN [backed EXCEPT ![n] = @ \cup {op.serial}] ELSE backed
        /\ hwOp' = [hwOp EXCEPT ![n].report = NoOp] /\ hwClock' = hwClock
    BY <1>3 DEF ReportHwCommit
  <2>4. op.serial \in Serials /\ op.row.serial \in backed[n] \cup {NoSerial}
    BY <2>1, <2>2 DEF HwOps
  <2>5. HwShapes' /\ \A m \in Machines : backed[m] \subseteq backed'[m]
    BY <1>a, <2>2, <2>3, <2>4 DEF HwShapes
  <2>6. PinsAreBacked'
    <3>1. \A m \in Machines \ {n} : hw'[m] = hw[m]
      BY <2>3 DEF HwShapes
    <3>2. hw'[n].serial \in backed'[n] \cup {NoSerial}
      BY <2>2, <2>3, <2>4, <2>5 DEF HwShapes
    <3> QED
      BY <2>5, <3>1, <3>2 DEF PinsAreBacked
  <2>7. HwOps'
    BY <1>a, <2>3, <2>5 DEF HwOps, NoOp
  <2> QED
    BY <2>5, <2>6, <2>7
<1>4. ASSUME NEW n \in Machines, ApproveHwRead(n) PROVE HwIInv'
  <2> DEFINE s == hw[n].pending
             r == [step |-> "checked", serial |-> s, held |-> PinsSeen(Clashing(n, s)),
                   at |-> PinAt(n, s)]
  <2>1. s \in Serials
    BY <1>4 DEF ApproveHwRead, HwShapes, HwRows
  <2>2. PinsSeen(Clashing(n, s)) \in Held /\ DOMAIN PinsSeen(Clashing(n, s)) = Clashing(n, s)
        /\ Clashing(n, s) \subseteq Machines \ {n}
        /\ \A m \in Clashing(n, s) : PinsSeen(Clashing(n, s))[m] = hw[m].at
    BY PinsSeenShape DEF Clashing
  <2>3. r \in ApproveOps
    BY <2>1, <2>2, PinAtRanksLast DEF ApproveOps
  <2>4. hwOp' = [hwOp EXCEPT ![n].approve = r] /\ UNCHANGED <<hw, backed, hwClock>>
    BY <1>4 DEF ApproveHwRead
  <2>5. n \notin DOMAIN r.held /\ \A m \in DOMAIN r.held : r.held[m] < r.at
    BY <2>2, PinAtRanksLast
  <2> HIDE DEF r
  <2>6. HwShapes'
    BY <1>b, <2>3, <2>4 DEF HwShapes
  <2>7. HwOps'
    BY <1>b, <2>3, <2>4, <2>5 DEF HwOps
  <2> QED
    BY <2>4, <2>6, <2>7 DEF PinsAreBacked
<1>5. ASSUME NEW n \in Machines, ApproveHwCommit(n) PROVE HwIInv'
  <2> DEFINE op == hwOp[n].approve
             row == [serial |-> op.serial, at |-> op.at, pending |-> NoSerial]
  <2>1. op \in ApproveOps
    BY <1>0, <1>5 DEF ApproveHwCommit, NoOp
  <2>2. row \in HwRows /\ row.serial = op.serial /\ op.serial \in Serials
    BY <2>1 DEF ApproveOps, HwRows
  <2>3. /\ hw' = [hw EXCEPT ![n] = row]
        /\ backed' = [backed EXCEPT ![n] = @ \cup {op.serial}]
        /\ hwOp' = [hwOp EXCEPT ![n].approve = NoOp] /\ hwClock' = hwClock
    BY <1>5 DEF ApproveHwCommit
  <2> HIDE DEF row
  <2>4. HwShapes' /\ \A m \in Machines : backed[m] \subseteq backed'[m]
    BY <1>b, <2>2, <2>3 DEF HwShapes
  <2>5. PinsAreBacked'
    <3>1. \A m \in Machines \ {n} : hw'[m] = hw[m]
      BY <2>3 DEF HwShapes
    <3>2. hw'[n].serial \in backed'[n]
      BY <2>2, <2>3 DEF HwShapes
    <3> QED
      BY <2>4, <3>1, <3>2 DEF PinsAreBacked
  <2>6. HwOps'
    BY <1>b, <2>3, <2>4 DEF HwOps
  <2> QED
    BY <2>4, <2>5, <2>6
<1>6. CASE HwTick
  BY <1>6 DEF HwTick, HwShapes, HwOps, PinsAreBacked
<1>7. CASE UNCHANGED hwVars
  BY <1>7 DEF hwVars, HwShapes, HwOps, PinsAreBacked
<1> QED
  BY <1>1, <1>2, <1>3, <1>4, <1>5, <1>6, <1>7 DEF HardwareNext

(* Whatever orders reports and approvals come in, for any number of        *)
(* devices and identifiers: a device pins only what it reported first or   *)
(* an administrator approved, and a commit that saw another device's pin   *)
(* leaves the provider's record with that device.                          *)
THEOREM PinsAlwaysHold == HardwareSpec => PinsHold
<1> DEFINE Keeps == \A h, n \in Machines, kind \in {"report", "approve"} :
                      LET op == hwOp[n][kind]
                      IN /\ op.step = "checked" /\ hwOp'[n][kind] = NoOp
                         /\ Matched(h) /\ hw[h].serial = op.serial
                         /\ h \in DOMAIN op.held /\ op.held[h] = hw[h].at
                         => Matched(h)'
<1>1. HardwareSpec => []HwIInv
  BY HwInitIInv, HwStep, PTL DEF HardwareSpec
(* The commit of n cannot make n rank before h.                            *)
<1>2. ASSUME HwIInv, NEW h \in Machines, NEW n \in Machines, h # n, Matched(h),
             NEW row \in HwRows, hw' = [hw EXCEPT ![n] = row],
             row.serial = hw[h].serial => hw[h].at < row.at
      PROVE  Matched(h)'
  <2>1. /\ hw'[h] = hw[h] /\ hw'[n] = row
        /\ \A m \in Machines \ {n} : hw'[m] = hw[m]
    BY <1>2 DEF HwIInv, HwShapes
  <2>2. \A m \in Machines \ {h} : hw[m].serial = hw[h].serial => hw[h].at < hw[m].at
    BY <1>2 DEF Matched, FirstClaimants
  <2>3. \A m \in Machines \ {h} : hw'[m].serial = hw'[h].serial => hw'[h].at < hw'[m].at
    BY <1>2, <2>1, <2>2
  <2> QED
    BY <1>2, <2>1, <2>3 DEF Matched, FirstClaimants
<1>3. HwIInv /\ [HardwareNext]_hwVars => [Keeps]_hwVars
  <2> SUFFICES ASSUME HwIInv, HardwareNext,
                      NEW h \in Machines, NEW n \in Machines, NEW kind \in {"report", "approve"},
                      hwOp[n][kind].step = "checked", hwOp'[n][kind] = NoOp,
                      Matched(h), hw[h].serial = hwOp[n][kind].serial,
                      h \in DOMAIN hwOp[n][kind].held, hwOp[n][kind].held[h] = hw[h].at
               PROVE  Matched(h)'
    OBVIOUS
  <2>0. \A m \in Machines :
          hwOp[m] \in [report : ReportOps \cup {NoOp}, approve : ApproveOps \cup {NoOp}]
    BY DEF HwIInv, HwShapes
  <2>1. hwOp[n][kind] # NoOp
    BY DEF NoOp
  <2>2. \/ kind = "report" /\ ReportHwCommit(n)
        \/ kind = "approve" /\ ApproveHwCommit(n)
    <3>1. ASSUME NEW m \in Machines, NEW s \in Serials, ReportHwRead(m, s) PROVE FALSE
      BY <2>1, <3>1 DEF ReportHwRead, HwIInv, HwShapes, NoOp
    <3>2. ASSUME NEW m \in Machines, ReportHwClash(m) PROVE FALSE
      BY <2>1, <3>2 DEF ReportHwClash, HwIInv, HwShapes, NoOp
    <3>3. ASSUME NEW m \in Machines, ReportHwCommit(m) PROVE kind = "report" /\ m = n
      BY <2>1, <3>3 DEF ReportHwCommit, HwIInv, HwShapes
    <3>4. ASSUME NEW m \in Machines, ApproveHwRead(m) PROVE FALSE
      BY <2>1, <3>4 DEF ApproveHwRead, HwIInv, HwShapes, NoOp
    <3>5. ASSUME NEW m \in Machines, ApproveHwCommit(m) PROVE kind = "approve" /\ m = n
      BY <2>1, <3>5 DEF ApproveHwCommit, HwIInv, HwShapes
    <3>6. ~HwTick
      BY <2>1 DEF HwTick
    <3> QED
      BY <3>1, <3>2, <3>3, <3>4, <3>5, <3>6 DEF HardwareNext
  <2>3. CASE kind = "report" /\ ReportHwCommit(n)
    <3> DEFINE op == hwOp[n].report
    <3>1. op.step = "checked" /\ h \in DOMAIN op.held /\ hw[h].serial = op.serial
      BY <2>3
    <3>2. h # n /\ op.serial # op.row.serial
      BY <3>1 DEF HwIInv, HwOps
    <3>3. ReportedRow(op) \in HwRows /\ ReportedRow(op).serial = op.row.serial
      BY <3>1, ReportedRowShape DEF HwIInv
    <3>4. hw' = [hw EXCEPT ![n] = ReportedRow(op)]
      BY <2>3 DEF ReportHwCommit
    <3> QED
      BY <1>2, <3>1, <3>2, <3>3, <3>4
  <2>4. CASE kind = "approve" /\ ApproveHwCommit(n)
    <3> DEFINE op == hwOp[n].approve
               row == [serial |-> op.serial, at |-> op.at, pending |-> NoSerial]
    <3>1. op # NoOp /\ h \in DOMAIN op.held /\ op.held[h] = hw[h].at
      BY <2>1, <2>4
    <3>2. op \in ApproveOps
      BY <2>0, <3>1
    <3>3. h # n /\ hw[h].at < op.at
      BY <3>1 DEF HwIInv, HwOps
    <3>4. row \in HwRows /\ row.at = op.at
      BY <3>2 DEF ApproveOps, HwRows
    <3>5. hw' = [hw EXCEPT ![n] = row]
      BY <2>4 DEF ApproveHwCommit
    <3> QED
      BY <1>2, <3>3, <3>4, <3>5
  <2> QED
    BY <2>2, <2>3, <2>4
<1>4. HwIInv => PinsAreBacked
  BY DEF HwIInv
<1> QED
  BY <1>1, <1>3, <1>4, PTL DEF HardwareSpec, PinsHold, HolderKeepsRecord

-----------------------------------------------------------------------------
(* Enrolment.                                                              *)
KeyRows == [minted : BOOLEAN, max : 0..2, uses : Nat, revoked : BOOLEAN, expires : Nat]
AuthRows == [exists : BOOLEAN, name : Names \cup {Nobody}, approver : Admins \cup {Nobody},
             expires : Nat, consumed : BOOLEAN]
NodeRows == [state : {"none", "active", "revoked", "deleted"}, name : Names \cup {Nobody},
             suspended : BOOLEAN, expires : Nat, online : BOOLEAN, held : BOOLEAN]
EnrolRequests ==
  [op : {"none", "register", "reauth"}, at : {"idle", "called", "granted"},
   key : AllKeys \cup {Nobody}, name : Names \cup {Nobody}, id : NodeIds \cup {Nobody},
   time : Nat, bound : Names \cup {Nobody}]
Preparations == [settings : Settings, expires : Nat] \cup {NoBoot}

EnrolTypes ==
  /\ org \in [active : Settings \cup {Nobody}, pending : Preparations]
  /\ boot \in Preparations
  /\ keys \in [AllKeys -> KeyRows] /\ auths \in [Codes -> AuthRows]
  /\ nodes \in [NodeIds -> NodeRows] /\ reqs \in [Requests -> EnrolRequests]
  /\ asked \in [Codes -> Names \cup {Nobody}] /\ spent \in [AllKeys -> Nat]
  /\ enrolClock \in 0 .. MaxEnrolClock

(* bootstrap.completed is written with the organisation's row.             *)
BootstrapsCounted == bootstraps = IF org.active = Nobody THEN 0 ELSE 1

(* The use count of a key is the claims made with it, and within its limit. *)
UsesCounted ==
  \A k \in AllKeys : /\ spent[k] = keys[k].uses /\ keys[k].uses <= keys[k].max
                     /\ ~keys[k].minted => keys[k].uses = 0

(* A row that was purged leaves a key that has expired: a code's key is    *)
(* bound for as long as it can be claimed.                                 *)
CodesBound ==
  \A c \in Codes :
    /\ asked[c] = Nobody => ~auths[c].exists /\ ~keys[c].minted
    /\ auths[c].exists => auths[c].name = asked[c]
    /\ auths[c].exists /\ auths[c].approver = Nobody => ~keys[c].minted
    /\ keys[c].minted => \/ keys[c].expires <= enrolClock
                         \/ auths[c].exists /\ auths[c].expires = keys[c].expires

(* A request that holds a code's key learnt who it is bound to, or comes   *)
(* too late to claim it.                                                   *)
RequestsBound ==
  \A q \in Requests :
    /\ reqs[q].at # "idle" => /\ reqs[q].key \in AllKeys /\ keys[reqs[q].key].minted
                              /\ reqs[q].op \in {"register", "reauth"}
                              /\ reqs[q].op = "register" => reqs[q].name \in Names
                              /\ reqs[q].op = "reauth" => reqs[q].id \in NodeIds
    /\ reqs[q].at = "granted" /\ reqs[q].key \in Codes /\ keys[reqs[q].key].expires > enrolClock
         => reqs[q].op = "register" /\ reqs[q].bound = asked[reqs[q].key]

EnrolmentsBound ==
  \A e \in enrolments : e[1] \in Codes =>
    asked[e[1]] # Nobody /\ e[2] = asked[e[1]] /\ e[3] = "register"

Blank(n) == n.name = Nobody /\ ~n.suspended /\ n.expires = 0 /\ ~n.online /\ ~n.held
NodesPurged == \A i \in NodeIds : nodes[i].state = "none" => Blank(nodes[i])

EnrolIInv ==
  /\ EnrolTypes /\ BootstrapsCounted /\ UsesCounted /\ CodesBound
  /\ RequestsBound /\ EnrolmentsBound /\ NodesPurged

LEMMA EnrolInitial == EnrolInit => EnrolIInv
<1> SUFFICES ASSUME EnrolInit PROVE EnrolIInv
  OBVIOUS
<1> USE EnrolAssumption DEF EnrolInit, NoKey, NoAuth, NoNode, NoReq
<1>1. EnrolTypes
  BY DEF EnrolTypes, KeyRows, AuthRows, NodeRows, EnrolRequests, Preparations
<1>2. BootstrapsCounted /\ EnrolmentsBound /\ RequestsBound
  BY DEF BootstrapsCounted, RequestsBound, EnrolmentsBound
<1>4. UsesCounted
  BY DEF UsesCounted
<1>5. CodesBound
  BY DEF CodesBound, AllKeys
<1>3. NodesPurged
  BY DEF NodesPurged, Blank
<1> QED
  BY <1>1, <1>2, <1>3, <1>4, <1>5 DEF EnrolIInv

(* Bootstrap touches the organisation alone.                               *)
LEMMA BootstrapStep ==
  ASSUME EnrolIInv,
         \/ \E s \in Settings : PrepareOrg(s)
         \/ CommitOrgRead \/ CommitOrg \/ CommitOrgElsewhere
  PROVE  EnrolIInv'
<1> USE EnrolAssumption
<1>1. /\ org' \in [active : Settings \cup {Nobody}, pending : Preparations]
      /\ boot' \in Preparations /\ BootstrapsCounted'
  <2> USE DEF EnrolIInv, EnrolTypes, Preparations, BootstrapsCounted, NoBoot
  <2>1. CASE \E s \in Settings : PrepareOrg(s)
    BY <2>1 DEF PrepareOrg
  <2>2. CASE CommitOrgRead
    BY <2>2 DEF CommitOrgRead
  <2>3. CASE CommitOrg
    BY <2>3 DEF CommitOrg
  <2>4. CASE CommitOrgElsewhere
    BY <2>4 DEF CommitOrgElsewhere
  <2> QED
    BY <2>1, <2>2, <2>3, <2>4
<1>2. UNCHANGED <<keyVars, nodes, reqs, sweep, enrolClock, churn>>
  BY DEF PrepareOrg, CommitOrgRead, CommitOrg, CommitOrgElsewhere
<1> QED
  BY <1>1, <1>2 DEF EnrolIInv, EnrolTypes, UsesCounted, CodesBound, RequestsBound,
     EnrolmentsBound, NodesPurged, keyVars

(* A step that leaves keys, rows and requests alone, and time no earlier,  *)
(* keeps what binds them.                                                  *)
LEMMA NodeStep ==
  ASSUME EnrolIInv, UNCHANGED <<orgVars, keyVars, reqs>>,
         nodes' \in [NodeIds -> NodeRows], NodesPurged',
         enrolClock' \in 0 .. MaxEnrolClock, enrolClock <= enrolClock'
  PROVE  EnrolIInv'
<1> USE EnrolAssumption DEF orgVars, keyVars
<1>1. EnrolTypes' /\ BootstrapsCounted' /\ UsesCounted' /\ EnrolmentsBound'
  BY DEF EnrolIInv, EnrolTypes, BootstrapsCounted, UsesCounted, EnrolmentsBound
<1>2. CodesBound'
  <2> SUFFICES ASSUME NEW c \in Codes, keys[c].minted, ~(keys[c].expires <= enrolClock')
               PROVE  auths[c].exists /\ auths[c].expires = keys[c].expires
    BY DEF EnrolIInv, CodesBound
  <2>1. keys[c].expires \in Nat /\ enrolClock \in Nat /\ enrolClock' \in Nat
    BY DEF EnrolIInv, EnrolTypes, KeyRows, AllKeys
  <2> QED
    BY <2>1 DEF EnrolIInv, CodesBound
<1>3. RequestsBound'
  <2> SUFFICES ASSUME NEW q \in Requests, reqs[q].at = "granted", reqs[q].key \in Codes,
                      keys[reqs[q].key].expires > enrolClock'
               PROVE  reqs[q].op = "register" /\ reqs[q].bound = asked[reqs[q].key]
    BY DEF EnrolIInv, RequestsBound
  <2>1. keys[reqs[q].key].expires \in Nat /\ enrolClock \in Nat /\ enrolClock' \in Nat
    BY DEF EnrolIInv, EnrolTypes, KeyRows, AllKeys
  <2> QED
    BY <2>1 DEF EnrolIInv, RequestsBound
<1> QED
  BY <1>1, <1>2, <1>3 DEF EnrolIInv

LEMMA LifeStep ==
  ASSUME EnrolIInv,
         \/ \E i \in NodeIds : \/ Heartbeat(i) \/ AdminRevoke(i) \/ SetSuspended(i)
                               \/ SweepNext(i) \/ PurgeNode(i) \/ Tombstone(i)
         \/ SweepSelect \/ EnrolTick
  PROVE  EnrolIInv'
<1> USE EnrolAssumption
<1>1. nodes \in [NodeIds -> NodeRows] /\ enrolClock \in 0 .. MaxEnrolClock /\ NodesPurged
  BY DEF EnrolIInv, EnrolTypes
<1>2. UNCHANGED <<orgVars, keyVars, reqs>>
  BY DEF Heartbeat, AdminRevoke, SetSuspended, SweepNext, PurgeNode, Tombstone, SweepSelect,
     EnrolTick, NodeOnly, orgVars, keyVars
<1>3. enrolClock' \in 0 .. MaxEnrolClock /\ enrolClock <= enrolClock'
  <2>1. CASE EnrolTick
    BY <1>1, <2>1 DEF EnrolTick
  <2>2. CASE ~EnrolTick
    <3>1. enrolClock' = enrolClock
      BY <2>2 DEF Heartbeat, AdminRevoke, SetSuspended, SweepNext, PurgeNode, Tombstone, SweepSelect, NodeOnly
    <3> QED
      BY <1>1, <3>1
  <2> QED
    BY <2>1, <2>2
<1>4. nodes' \in [NodeIds -> NodeRows] /\ NodesPurged'
  <2> USE <1>1
  <2>1. ASSUME NEW i \in NodeIds, Heartbeat(i) PROVE nodes' \in [NodeIds -> NodeRows] /\ NodesPurged'
    BY <2>1 DEF Heartbeat, Credible, NodeRows, NodesPurged, Blank
  <2>2. ASSUME NEW i \in NodeIds, AdminRevoke(i) PROVE nodes' \in [NodeIds -> NodeRows] /\ NodesPurged'
    BY <2>2 DEF AdminRevoke, NodeRows, NodesPurged, Blank
  <2>3. ASSUME NEW i \in NodeIds, SetSuspended(i) PROVE nodes' \in [NodeIds -> NodeRows] /\ NodesPurged'
    <3> DEFINE b == ~nodes[i].suspended
    <3>1. b \in BOOLEAN /\ nodes' = [nodes EXCEPT ![i].suspended = b] /\ nodes[i].state = "active"
      BY <2>3 DEF SetSuspended, NodeRows
    <3> HIDE DEF b
    <3> QED
      BY <3>1 DEF NodeRows, NodesPurged, Blank
  <2>4. ASSUME NEW i \in NodeIds, Tombstone(i) PROVE nodes' \in [NodeIds -> NodeRows] /\ NodesPurged'
    <3> DEFINE n1 == [nodes EXCEPT ![i].state = "deleted"]
    <3>1. /\ n1 \in [NodeIds -> NodeRows] /\ n1[i].state = "deleted"
          /\ \A j \in NodeIds : j # i => n1[j] = nodes[j]
      BY DEF NodeRows
    <3>2. nodes' = [n1 EXCEPT ![i].held = FALSE]
      BY <2>4 DEF Tombstone
    <3> HIDE DEF n1
    <3>3. nodes' \in [NodeIds -> NodeRows]
      <4>1. [n1[i] EXCEPT !.held = FALSE] \in NodeRows
        BY <3>1 DEF NodeRows
      <4> QED
        BY <3>1, <3>2, <4>1
    <3>4. nodes'[i].state = "deleted"
      BY <3>1, <3>2 DEF NodeRows
    <3>5. \A j \in NodeIds : j # i => nodes'[j] = nodes[j]
      BY <3>1, <3>2
    <3> QED
      BY <3>3, <3>4, <3>5 DEF NodesPurged
  <2>5. ASSUME NEW i \in NodeIds, PurgeNode(i) PROVE nodes' \in [NodeIds -> NodeRows] /\ NodesPurged'
    <3>1. NoNode \in NodeRows /\ Blank(NoNode)
      BY DEF NoNode, NodeRows, Blank
    <3> QED
      BY <2>5, <3>1 DEF PurgeNode, NodesPurged
  <2>6. ASSUME NEW i \in NodeIds, SweepNext(i) PROVE nodes' \in [NodeIds -> NodeRows] /\ NodesPurged'
    BY <2>4, <2>6 DEF SweepNext, NodesPurged
  <2>7. CASE SweepSelect
    BY <2>7 DEF SweepSelect, NodesPurged
  <2>8. CASE EnrolTick
    <3>1. nodes' \in [NodeIds -> NodeRows]
      BY <2>8 DEF EnrolTick, NodeRows
    <3>2. \A i \in NodeIds :
            /\ nodes'[i].state = nodes[i].state /\ nodes'[i].name = nodes[i].name
            /\ (nodes'[i].suspended <=> nodes[i].suspended) /\ nodes'[i].expires = nodes[i].expires
            /\ ~nodes'[i].online /\ (nodes'[i].held <=> nodes[i].held)
      BY <2>8 DEF EnrolTick, NodeRows
    <3> QED
      BY <3>1, <3>2 DEF NodesPurged, Blank
  <2> QED
    BY <2>1, <2>2, <2>3, <2>4, <2>5, <2>6, <2>7, <2>8
<1> QED
  BY <1>1, <1>2, <1>3, <1>4, NodeStep

(* Keys of the console: no code's row or key is touched.                   *)
LEMMA KeyStep ==
  ASSUME EnrolIInv, NEW k \in JoinKeys,
         RevokeJoinKey(k) \/ \E uses \in AllowedUses : MintJoinKey(k, uses)
  PROVE  EnrolIInv'
<1> USE EnrolAssumption DEF EnrolIInv
<1>1. /\ k \in AllKeys /\ k \notin Codes
      /\ UNCHANGED <<orgVars, auths, asked, enrolments, spent, nodes, reqs, sweep, enrolClock>>
      /\ UNCHANGED <<org, boot, bootstraps>>
  BY DEF AllKeys, RevokeJoinKey, MintJoinKey, orgVars
<1>2. /\ keys' \in [AllKeys -> KeyRows] /\ keys'[k].minted
      /\ keys'[k].uses = keys[k].uses /\ keys'[k].uses <= keys'[k].max
      /\ \A m \in AllKeys : m # k => keys'[m] = keys[m]
  <2>1. keys \in [AllKeys -> KeyRows] /\ enrolClock \in Nat
    BY DEF EnrolTypes
  <2>2. CASE RevokeJoinKey(k)
    BY <1>1, <2>1, <2>2 DEF RevokeJoinKey, KeyRows, UsesCounted
  <2>3. ASSUME NEW uses \in AllowedUses, MintJoinKey(k, uses)
        PROVE  /\ keys' \in [AllKeys -> KeyRows] /\ keys'[k].minted
               /\ keys'[k].uses = keys[k].uses /\ keys'[k].uses <= keys'[k].max
               /\ \A m \in AllKeys : m # k => keys'[m] = keys[m]
    <3> DEFINE e == enrolClock + KEY_SECS
               row == [NoKey EXCEPT !.minted = TRUE, !.max = uses, !.expires = e]
    <3>0. e \in Nat /\ uses \in 0..2 /\ uses >= 1
      BY <2>1 DEF AllowedUses
    <3> HIDE DEF e
    <3>1. row \in KeyRows /\ row.minted /\ row.uses = 0 /\ row.max = uses
      BY <3>0 DEF KeyRows, NoKey
    <3>2. keys' = [keys EXCEPT ![k] = row] /\ keys[k].uses = 0
      BY <1>1, <2>3 DEF MintJoinKey, UsesCounted, e
    <3> HIDE DEF row
    <3> QED
      BY <1>1, <2>1, <3>0, <3>1, <3>2
  <2> QED
    BY <2>2, <2>3
<1>3. EnrolTypes' /\ BootstrapsCounted' /\ EnrolmentsBound' /\ NodesPurged'
  BY <1>1, <1>2 DEF EnrolTypes, BootstrapsCounted, EnrolmentsBound, NodesPurged
<1>4. UsesCounted'
  BY <1>1, <1>2 DEF UsesCounted
<1>5. \A c \in Codes : keys'[c] = keys[c]
  BY <1>1, <1>2 DEF AllKeys
<1>6. CodesBound'
  BY <1>1, <1>5 DEF CodesBound
<1>7. RequestsBound'
  BY <1>1, <1>2, <1>5 DEF RequestsBound
<1> QED
  BY <1>3, <1>4, <1>6, <1>7

(* Purging takes only rows whose key, if any, has expired.                 *)
LEMMA PurgedRows ==
  ASSUME EnrolIInv
  PROVE  /\ Purged \in [Codes -> AuthRows]
         /\ \A c \in Codes : \/ Purged[c] = auths[c]
                             \/ /\ ~Purged[c].exists /\ auths[c].exists
                                /\ auths[c].expires <= enrolClock
BY DEF EnrolIInv, EnrolTypes, Purged, NoAuth, AuthRows

LEMMA CodeStep ==
  ASSUME EnrolIInv,
         \/ \E c \in Codes, n \in Names : CreateDeviceAuthorization(c, n)
         \/ PurgeAuthorizations
         \/ \E c \in Codes, a \in Admins : Approve(c, a)
  PROVE  EnrolIInv'
<1> USE EnrolAssumption DEF EnrolIInv
<1>0. /\ auths \in [Codes -> AuthRows] /\ keys \in [AllKeys -> KeyRows] /\ enrolClock \in Nat
      /\ asked \in [Codes -> Names \cup {Nobody}] /\ Codes \subseteq AllKeys
  BY DEF EnrolTypes, AllKeys
<1>1. ASSUME NEW c \in Codes, NEW n \in Names, CreateDeviceAuthorization(c, n) PROVE EnrolIInv'
  <2> DEFINE e == enrolClock + KEY_SECS
             row == [NoAuth EXCEPT !.exists = TRUE, !.name = n, !.expires = e]
  <2>0. e \in Nat
    BY <1>0
  <2> HIDE DEF e
  <2>1. /\ UNCHANGED <<org, boot, bootstraps, keys, enrolments, spent, nodes, reqs, enrolClock>>
        /\ asked[c] = Nobody /\ asked' = [asked EXCEPT ![c] = n]
        /\ auths' = [Purged EXCEPT ![c] = row]
    BY <1>1 DEF CreateDeviceAuthorization, orgVars, e
  <2>2. row \in AuthRows /\ row.exists /\ row.name = n
    BY <2>0 DEF AuthRows, NoAuth
  <2> HIDE DEF row
  <2>3. /\ auths' \in [Codes -> AuthRows] /\ auths'[c] = row
        /\ \A d \in Codes : d # c => auths'[d] = Purged[d] /\ asked'[d] = asked[d]
        /\ asked' \in [Codes -> Names \cup {Nobody}] /\ asked'[c] = n
    BY <1>0, <2>1, <2>2, PurgedRows
  <2>4. ~keys[c].minted
    BY <2>1 DEF CodesBound
  <2>5. EnrolTypes' /\ BootstrapsCounted' /\ UsesCounted' /\ NodesPurged'
    BY <2>1, <2>3 DEF EnrolTypes, BootstrapsCounted, UsesCounted, NodesPurged
  <2>6. CodesBound'
    <3> SUFFICES ASSUME NEW d \in Codes
                 PROVE  /\ asked'[d] = Nobody => ~auths'[d].exists /\ ~keys[d].minted
                        /\ auths'[d].exists => auths'[d].name = asked'[d]
                        /\ auths'[d].exists /\ auths'[d].approver = Nobody => ~keys[d].minted
                        /\ keys[d].minted /\ ~(keys[d].expires <= enrolClock)
                             => auths'[d].exists /\ auths'[d].expires = keys[d].expires
      BY <2>1 DEF CodesBound
    <3>1. CASE d = c
      BY <2>2, <2>3, <2>4, <3>1
    <3>2. CASE d # c
      BY <2>3, <3>2, PurgedRows DEF CodesBound
    <3> QED
      BY <3>1, <3>2
  <2>7. RequestsBound'
    BY <2>1, <2>3, <2>4 DEF RequestsBound
  <2>8. EnrolmentsBound'
    BY <2>1, <2>3 DEF EnrolmentsBound
  <2> QED
    BY <2>5, <2>6, <2>7, <2>8
<1>2. CASE PurgeAuthorizations
  <2>1. /\ UNCHANGED <<org, boot, bootstraps, keys, asked, enrolments, spent, nodes, reqs, enrolClock>>
        /\ auths' = Purged
    BY <1>2 DEF PurgeAuthorizations, orgVars
  <2>2. EnrolTypes'
    BY <2>1, PurgedRows DEF EnrolTypes
  <2>3. CodesBound'
    BY <2>1, PurgedRows DEF CodesBound
  <2> QED
    BY <2>1, <2>2, <2>3 DEF BootstrapsCounted, UsesCounted, NodesPurged, RequestsBound, EnrolmentsBound
<1>3. ASSUME NEW c \in Codes, NEW a \in Admins, Approve(c, a) PROVE EnrolIInv'
  <2> DEFINE e == auths[c].expires
             one == 1
             row == [NoKey EXCEPT !.minted = TRUE, !.max = one, !.expires = e]
  <2>0. e \in Nat /\ one \in 0..2
    BY <1>0 DEF AuthRows
  <2> HIDE DEF e, one
  <2>1. /\ UNCHANGED <<org, boot, bootstraps, asked, enrolments, spent, nodes, reqs, enrolClock>>
        /\ auths[c].exists /\ auths[c].approver = Nobody
        /\ auths' = [auths EXCEPT ![c].approver = a]
        /\ keys' = [keys EXCEPT ![c] = row]
    BY <1>3 DEF Approve, orgVars, e, one
  <2>2. row \in KeyRows /\ row.minted /\ row.uses = 0 /\ row.max = 1 /\ row.expires = e
    <3>1. row \in KeyRows
      BY <2>0 DEF KeyRows, NoKey
    <3>2. row.minted /\ row.uses = 0 /\ row.max = 1 /\ row.expires = e
      BY <2>0 DEF NoKey, one
    <3> QED
      BY <3>1, <3>2
  <2> HIDE DEF row
  <2>3. ~keys[c].minted /\ keys[c].uses = 0 /\ asked[c] # Nobody
    BY <1>0, <2>1 DEF CodesBound, UsesCounted
  <2>4. /\ keys' \in [AllKeys -> KeyRows] /\ keys'[c] = row
        /\ \A k \in AllKeys : k # c => keys'[k] = keys[k]
    BY <1>0, <2>1, <2>2
  <2>5. /\ auths' \in [Codes -> AuthRows] /\ auths'[c].approver # Nobody
        /\ auths'[c].exists /\ auths'[c].name = auths[c].name /\ auths'[c].expires = auths[c].expires
        /\ \A d \in Codes : d # c => auths'[d] = auths[d]
    BY <1>0, <2>1 DEF AuthRows
  <2>6. EnrolTypes' /\ BootstrapsCounted' /\ NodesPurged' /\ EnrolmentsBound'
    BY <2>1, <2>4, <2>5 DEF EnrolTypes, BootstrapsCounted, NodesPurged, EnrolmentsBound
  <2>7. UsesCounted'
    BY <1>0, <2>1, <2>2, <2>3, <2>4 DEF UsesCounted
  <2>8. CodesBound'
    <3> SUFFICES ASSUME NEW d \in Codes
                 PROVE  /\ asked[d] = Nobody => ~auths'[d].exists /\ ~keys'[d].minted
                        /\ auths'[d].exists => auths'[d].name = asked[d]
                        /\ auths'[d].exists /\ auths'[d].approver = Nobody => ~keys'[d].minted
                        /\ keys'[d].minted /\ ~(keys'[d].expires <= enrolClock)
                             => auths'[d].exists /\ auths'[d].expires = keys'[d].expires
      BY <2>1 DEF CodesBound
    <3>1. CASE d = c
      BY <2>1, <2>2, <2>3, <2>4, <2>5, <3>1 DEF CodesBound, e
    <3>2. CASE d # c
      BY <1>0, <2>4, <2>5, <3>2 DEF CodesBound
    <3> QED
      BY <3>1, <3>2
  <2>9. RequestsBound'
    BY <1>0, <2>1, <2>2, <2>3, <2>4 DEF RequestsBound
  <2> QED
    BY <2>6, <2>7, <2>8, <2>9
<1> QED
  BY <1>1, <1>2, <1>3

(* A request that begins or is granted changes its own record alone.       *)
LEMMA RequestStep ==
  ASSUME EnrolIInv, NEW q \in Requests,
         \/ \E k \in AllKeys, n \in Names : CallRegister(q, k, n)
         \/ \E k \in AllKeys, i \in NodeIds : CallReauth(q, k, i)
         \/ Grant(q)
  PROVE  EnrolIInv'
<1> USE EnrolAssumption DEF EnrolIInv
<1> DEFINE Proper(r) ==
      /\ r \in EnrolRequests
      /\ r.at # "idle" => /\ r.key \in AllKeys /\ keys[r.key].minted
                          /\ r.op \in {"register", "reauth"}
                          /\ r.op = "register" => r.name \in Names
                          /\ r.op = "reauth" => r.id \in NodeIds
      /\ r.at = "granted" /\ r.key \in Codes /\ keys[r.key].expires > enrolClock
           => r.op = "register" /\ r.bound = asked[r.key]
<1>1. UNCHANGED <<orgVars, keyVars, nodes, sweep, enrolClock, churn>>
  BY DEF CallRegister, CallReauth, Grant
<1>2. \E r : Proper(r) /\ reqs' = [reqs EXCEPT ![q] = r]
  <2>1. ASSUME NEW k \in AllKeys, NEW n \in Names, CallRegister(q, k, n)
        PROVE  \E r : Proper(r) /\ reqs' = [reqs EXCEPT ![q] = r]
    <3> DEFINE r == [NoReq EXCEPT !.op = "register", !.at = "called", !.key = k, !.name = n,
                                  !.time = enrolClock]
    <3>0. enrolClock \in Nat
      BY DEF EnrolTypes
    <3>3. keys[k].minted
      BY <2>1, Zenon DEF CallRegister
    <3>1. r \in EnrolRequests /\ r.at = "called" /\ r.key = k /\ r.op = "register" /\ r.name = n
      BY <3>0 DEF EnrolRequests, NoReq
    <3>2. reqs' = [reqs EXCEPT ![q] = r]
      BY <2>1 DEF CallRegister
    <3> HIDE DEF r
    <3>4. Proper(r)
      BY <3>1, <3>3
    <3> QED
      BY <3>2, <3>4
  <2>2. ASSUME NEW k \in AllKeys, NEW i \in NodeIds, CallReauth(q, k, i)
        PROVE  \E r : Proper(r) /\ reqs' = [reqs EXCEPT ![q] = r]
    <3> DEFINE r == [NoReq EXCEPT !.op = "reauth", !.at = "called", !.key = k,
                                  !.name = nodes[i].name, !.id = i, !.time = enrolClock]
    <3>0. enrolClock \in Nat /\ nodes[i].name \in Names \cup {Nobody}
      BY DEF EnrolTypes, NodeRows
    <3>3. keys[k].minted
      BY <2>2, Zenon DEF CallReauth
    <3>1. r \in EnrolRequests /\ r.at = "called" /\ r.key = k /\ r.op = "reauth" /\ r.id = i
      BY <3>0 DEF EnrolRequests, NoReq
    <3>2. reqs' = [reqs EXCEPT ![q] = r]
      BY <2>2 DEF CallReauth
    <3> HIDE DEF r
    <3>4. Proper(r)
      BY <3>1, <3>3
    <3> QED
      BY <3>2, <3>4
  <2>3. CASE Grant(q)
    <3> DEFINE r == reqs[q]
               k == keys[r.key]
               ok == /\ ~k.revoked /\ k.expires > r.time
                     /\ r.op = "reauth" => ~Bound(r.key)
                     /\ k.max = 1 => k.uses = 0
               owner == IF Bound(r.key) THEN auths[r.key].name ELSE Nobody
               held == [r EXCEPT !.at = "granted", !.bound = owner]
    <3>1. r.at = "called" /\ reqs' = [reqs EXCEPT ![q] = IF ok THEN held ELSE NoReq]
      BY <2>3 DEF Grant
    <3>2. Proper(NoReq)
      BY DEF NoReq, EnrolRequests
    <3>3. ASSUME ok PROVE Proper(held)
      <4>1. r \in EnrolRequests /\ auths \in [Codes -> AuthRows] /\ owner \in Names \cup {Nobody}
        BY DEF EnrolTypes, AuthRows, Bound
      <4>2. /\ r.key \in AllKeys /\ keys[r.key].minted
            /\ r.op \in {"register", "reauth"}
            /\ r.op = "register" => r.name \in Names
            /\ r.op = "reauth" => r.id \in NodeIds
        BY <3>1 DEF RequestsBound
      <4>4. ASSUME r.key \in Codes, k.expires > enrolClock
            PROVE  r.op = "register" /\ owner = asked[r.key]
        <5>1. k.expires \in Nat /\ enrolClock \in Nat
          BY <4>2 DEF EnrolTypes, KeyRows
        <5>2. auths[r.key].exists /\ auths[r.key].name = asked[r.key]
          BY <4>2, <4>4, <5>1 DEF CodesBound
        <5> QED
          BY <3>3, <4>1, <4>2, <4>4, <5>2 DEF Bound, EnrolRequests
      <4>5. held \in EnrolRequests /\ held.at = "granted" /\ held.bound = owner
            /\ held.key = r.key /\ held.op = r.op /\ held.name = r.name /\ held.id = r.id
        BY <4>1 DEF EnrolRequests
      <4> HIDE DEF held, r, owner, ok
      <4> QED
        BY <4>2, <4>4, <4>5 DEF k
    <3> QED
      BY <3>1, <3>2, <3>3
  <2> QED
    BY <2>1, <2>2, <2>3
<1>3. PICK r : Proper(r) /\ reqs' = [reqs EXCEPT ![q] = r]
  BY <1>2
<1>4. reqs' \in [Requests -> EnrolRequests] /\ reqs'[q] = r /\ \A p \in Requests : p # q => reqs'[p] = reqs[p]
  BY <1>3 DEF EnrolTypes
<1>5. EnrolTypes'
  BY <1>1, <1>4 DEF EnrolTypes, orgVars, keyVars
<1>6. RequestsBound'
  BY <1>1, <1>3, <1>4 DEF RequestsBound, keyVars
<1> QED
  BY <1>1, <1>5, <1>6 DEF BootstrapsCounted, UsesCounted, CodesBound, EnrolmentsBound, NodesPurged,
     orgVars, keyVars

(* The key's use, the node and the row are written in one transaction.  A  *)
(* code that can still be claimed is bound, so the name is the one asked.  *)
LEMMA ClaimStep ==
  ASSUME EnrolIInv, NEW q \in Requests, reqs[q].at = "granted", Claim(reqs[q].key),
         NEW how \in {"register", "reauth"}, how = reqs[q].op,
         how = "register" => reqs[q].bound \in {Nobody, reqs[q].name},
         Spend(reqs[q].key, reqs[q].name, how),
         reqs' = [reqs EXCEPT ![q] = NoReq],
         UNCHANGED <<orgVars, enrolClock>>,
         nodes' \in [NodeIds -> NodeRows], NodesPurged',
         auths' \in [Codes -> AuthRows],
         \A c \in Codes : /\ (auths'[c].exists <=> auths[c].exists) /\ auths'[c].name = auths[c].name
                          /\ auths'[c].approver = auths[c].approver
                          /\ auths'[c].expires = auths[c].expires
  PROVE  EnrolIInv'
<1> USE EnrolAssumption DEF EnrolIInv
<1> DEFINE r == reqs[q]
           k == reqs[q].key
<1>1. /\ k \in AllKeys /\ keys \in [AllKeys -> KeyRows] /\ spent \in [AllKeys -> Nat]
      /\ reqs \in [Requests -> EnrolRequests] /\ enrolClock \in Nat
  BY DEF EnrolTypes, RequestsBound
<1>2. keys[k].uses < keys[k].max /\ keys[k].expires > enrolClock /\ keys[k].minted
  BY <1>1 DEF Claim, RequestsBound
<1>3. /\ keys' = [keys EXCEPT ![k].uses = @ + 1] /\ spent' = [spent EXCEPT ![k] = @ + 1]
      /\ enrolments' = enrolments \cup {<<k, r.name, how>>} /\ asked' = asked
  BY DEF Spend
<1> HIDE DEF k, r
<1>4. /\ keys' \in [AllKeys -> KeyRows] /\ spent' \in [AllKeys -> Nat]
      /\ keys'[k].uses = keys[k].uses + 1 /\ spent'[k] = spent[k] + 1
      /\ \A m \in AllKeys : (keys'[m].minted <=> keys[m].minted) /\ keys'[m].max = keys[m].max
      /\ \A m \in AllKeys : keys'[m].expires = keys[m].expires
      /\ \A m \in AllKeys : m # k => keys'[m] = keys[m] /\ spent'[m] = spent[m]
  <2>1. \A m \in AllKeys : keys[m].uses \in Nat
    BY <1>1 DEF KeyRows
  <2> QED
    BY <1>1, <1>3, <2>1 DEF KeyRows
<1>5. /\ reqs' \in [Requests -> EnrolRequests] /\ reqs'[q] = NoReq
      /\ \A p \in Requests : p # q => reqs'[p] = reqs[p]
  <2>1. NoReq \in EnrolRequests
    BY DEF NoReq, EnrolRequests
  <2> QED
    BY <1>1, <2>1
<1>6. EnrolTypes' /\ BootstrapsCounted'
  BY <1>3, <1>4, <1>5 DEF EnrolTypes, BootstrapsCounted, orgVars
<1>7. UsesCounted'
  <2> SUFFICES ASSUME NEW m \in AllKeys
               PROVE  /\ spent'[m] = keys'[m].uses /\ keys'[m].uses <= keys'[m].max
                      /\ ~keys'[m].minted => keys'[m].uses = 0
    BY DEF UsesCounted
  <2>1. CASE m = k
    <3>1. /\ keys[k].uses \in Nat /\ keys[k].max \in Nat /\ spent[k] = keys[k].uses
          /\ keys'[k].max = keys[k].max
      BY <1>1, <1>4 DEF KeyRows, UsesCounted
    <3>2. keys'[k].minted
      BY <1>1, <1>2, <1>4, Zenon
    <3>3. spent'[k] = keys'[k].uses /\ keys'[k].uses <= keys'[k].max
      BY <1>1, <1>2, <1>4, <3>1
    <3> QED
      BY <2>1, <3>2, <3>3
  <2>2. CASE m # k
    <3>1. keys'[m] = keys[m] /\ spent'[m] = spent[m]
      BY <1>4, <2>2
    <3> QED
      BY <3>1 DEF UsesCounted
  <2> QED
    BY <2>1, <2>2
<1>8. CodesBound'
  <2> SUFFICES ASSUME NEW c \in Codes
               PROVE  /\ asked[c] = Nobody => ~auths'[c].exists /\ ~keys'[c].minted
                      /\ auths'[c].exists => auths'[c].name = asked[c]
                      /\ auths'[c].exists /\ auths'[c].approver = Nobody => ~keys'[c].minted
                      /\ keys'[c].minted /\ ~(keys'[c].expires <= enrolClock)
                           => auths'[c].exists /\ auths'[c].expires = keys'[c].expires
    BY <1>3 DEF CodesBound
  <2>1. c \in AllKeys
    BY DEF AllKeys
  <2>2. (keys'[c].minted <=> keys[c].minted) /\ keys'[c].expires = keys[c].expires
    BY <1>4, <2>1, Zenon
  <2>3. /\ (auths'[c].exists <=> auths[c].exists) /\ auths'[c].name = auths[c].name
        /\ auths'[c].approver = auths[c].approver /\ auths'[c].expires = auths[c].expires
    OBVIOUS
  <2>4. /\ asked[c] = Nobody => ~auths[c].exists /\ ~keys[c].minted
        /\ auths[c].exists => auths[c].name = asked[c]
        /\ auths[c].exists /\ auths[c].approver = Nobody => ~keys[c].minted
        /\ keys[c].minted /\ ~(keys[c].expires <= enrolClock)
             => auths[c].exists /\ auths[c].expires = keys[c].expires
    BY DEF CodesBound
  <2> QED
    BY <2>2, <2>3, <2>4, Zenon
<1>9. RequestsBound'
  <2>1. NoReq.at = "idle"
    BY DEF NoReq
  <2>2. Codes \subseteq AllKeys
    BY DEF AllKeys
  <2> QED
    BY <1>3, <1>4, <1>5, <2>1, <2>2 DEF RequestsBound
<1>10. EnrolmentsBound'
  <2>1. ASSUME k \in Codes PROVE asked[k] # Nobody /\ r.name = asked[k] /\ how = "register"
    <3>1. asked[k] # Nobody
      BY <1>2, <2>1 DEF CodesBound
    <3>2. r.op = "register" /\ r.bound = asked[k]
      BY <1>2, <2>1 DEF RequestsBound, k, r
    <3> QED
      BY <3>1, <3>2 DEF r
  <2> QED
    BY <1>3, <2>1 DEF EnrolmentsBound
<1> QED
  BY <1>6, <1>7, <1>8, <1>9, <1>10

LEMMA CommitStep ==
  ASSUME EnrolIInv, NEW q \in Requests, CommitRegister(q) \/ CommitReauth(q)
  PROVE  EnrolIInv'
<1> USE EnrolAssumption DEF EnrolIInv
<1> DEFINE r == reqs[q]
<1>0. /\ nodes \in [NodeIds -> NodeRows] /\ auths \in [Codes -> AuthRows] /\ enrolClock \in Nat
      /\ reqs \in [Requests -> EnrolRequests]
  BY DEF EnrolTypes
<1>1. r.at = "granted" /\ reqs' = [reqs EXCEPT ![q] = NoReq] /\ UNCHANGED <<orgVars, sweep, enrolClock>>
  BY DEF CommitRegister, CommitReauth
<1>2. CASE UNCHANGED <<keyVars, nodes>>
  <2>1. /\ NoReq \in EnrolRequests /\ NoReq.at = "idle"
    BY DEF NoReq, EnrolRequests
  <2>2. /\ reqs' \in [Requests -> EnrolRequests] /\ reqs'[q].at = "idle"
        /\ \A p \in Requests : p # q => reqs'[p] = reqs[p]
    BY <1>0, <1>1, <2>1
  <2>3. EnrolTypes'
    BY <1>1, <1>2, <2>2 DEF EnrolTypes, orgVars, keyVars
  <2>4. RequestsBound'
    BY <1>1, <1>2, <2>2 DEF RequestsBound, keyVars
  <2> QED
    BY <1>1, <1>2, <2>3, <2>4 DEF BootstrapsCounted, UsesCounted, CodesBound, EnrolmentsBound,
       NodesPurged, orgVars, keyVars
<1>3. ASSUME CommitRegister(q), ~UNCHANGED <<keyVars, nodes>> PROVE EnrolIInv'
  <2>1. /\ Claim(r.key) /\ r.bound \in {Nobody, r.name} /\ r.op = "register"
        /\ Spend(r.key, r.name, "register")
        /\ auths' = [c \in Codes |-> IF c = r.key /\ auths[c].exists
                                     THEN [auths[c] EXCEPT !.consumed = TRUE] ELSE auths[c]]
    BY <1>3 DEF CommitRegister
  <2>2. PICK i \in NodeIds, got \in BOOLEAN :
          nodes' = [nodes EXCEPT ![i] = [NoNode EXCEPT !.state = "active",
                 !.name = r.name, !.expires = enrolClock + NODE_TTL, !.held = got]]
    BY <1>3 DEF CommitRegister
  <2>3. nodes' \in [NodeIds -> NodeRows] /\ NodesPurged'
    <3> DEFINE e == enrolClock + NODE_TTL
               name == r.name
               n == [NoNode EXCEPT !.state = "active", !.name = name, !.expires = e, !.held = got]
    <3>1. name \in Names /\ e \in Nat
      BY <1>0, <1>1, <2>1 DEF RequestsBound
    <3>3. nodes' = [nodes EXCEPT ![i] = n]
      BY <2>2
    <3> HIDE DEF e, name
    <3>2. n \in NodeRows /\ n.state = "active"
      BY <3>1 DEF NodeRows, NoNode
    <3> HIDE DEF n
    <3> QED
      BY <1>0, <3>2, <3>3 DEF NodesPurged
  <2>4. auths' \in [Codes -> AuthRows]
    <3>1. \A c \in Codes : [auths[c] EXCEPT !.consumed = TRUE] \in AuthRows
      BY <1>0 DEF AuthRows
    <3> QED
      BY <1>0, <2>1, <3>1
  <2>5. \A c \in Codes : /\ (auths'[c].exists <=> auths[c].exists) /\ auths'[c].name = auths[c].name
                         /\ auths'[c].approver = auths[c].approver
                         /\ auths'[c].expires = auths[c].expires
    BY <1>0, <2>1 DEF AuthRows
  <2> QED
    BY <1>1, <2>1, <2>3, <2>4, <2>5, ClaimStep
<1>4. ASSUME CommitReauth(q), ~UNCHANGED <<keyVars, nodes>> PROVE EnrolIInv'
  <2>1. /\ Claim(r.key) /\ r.op = "reauth" /\ Spend(r.key, r.name, "reauth") /\ auths' = auths
    BY <1>4 DEF CommitReauth
  <2>2. PICK got \in BOOLEAN :
          nodes' = IF nodes[r.id].state = "none" THEN nodes
                   ELSE [nodes EXCEPT ![r.id].expires = enrolClock + NODE_TTL, ![r.id].held = got]
    BY <1>4 DEF CommitReauth
  <2>3. nodes' \in [NodeIds -> NodeRows] /\ NodesPurged'
    <3> DEFINE n1 == [nodes EXCEPT ![r.id].expires = enrolClock + NODE_TTL]
    <3>1. CASE nodes[r.id].state = "none"
      BY <1>0, <2>2, <3>1 DEF NodesPurged
    <3>2. CASE nodes[r.id].state # "none"
      <4>1. r.id \in NodeIds
        BY <1>1, <2>1 DEF RequestsBound
      <4>2. /\ n1 \in [NodeIds -> NodeRows] /\ n1[r.id].state = nodes[r.id].state
            /\ \A j \in NodeIds : j # r.id => n1[j] = nodes[j]
        BY <1>0, <4>1 DEF NodeRows
      <4>3. nodes' = [n1 EXCEPT ![r.id].held = got]
        BY <1>0, <2>2, <3>2, <4>1
      <4> HIDE DEF n1, r
      <4>4. /\ nodes' \in [NodeIds -> NodeRows] /\ nodes'[r.id].state = nodes[r.id].state
            /\ \A j \in NodeIds : j # r.id => nodes'[j] = nodes[j]
        BY <4>1, <4>2, <4>3 DEF NodeRows
      <4> QED
        BY <3>2, <4>1, <4>4 DEF NodesPurged
    <3> QED
      BY <3>1, <3>2
  <2> QED
    BY <1>0, <1>1, <2>1, <2>3, ClaimStep
<1> QED
  BY <1>2, <1>3, <1>4

(* Nobody joins without an unspent key, an approval of their own or the    *)
(* one bootstrap, whatever requests, replicas and clean-up interleave.     *)
THEOREM EnrolAlwaysHolds == EnrolSpec => []EnrolInv
<1>1. EnrolIInv /\ [EnrolNext]_enrolVars => EnrolIInv'
  <2> SUFFICES ASSUME EnrolIInv, [EnrolNext]_enrolVars PROVE EnrolIInv'
    OBVIOUS
  <2>1. CASE UNCHANGED enrolVars
    BY <2>1 DEF enrolVars, orgVars, keyVars, EnrolIInv, EnrolTypes, BootstrapsCounted, UsesCounted,
       CodesBound, RequestsBound, EnrolmentsBound, NodesPurged
  <2>2. CASE EnrolNext
    BY <2>2, BootstrapStep, KeyStep, CodeStep, RequestStep, CommitStep, LifeStep DEF EnrolNext
  <2> QED
    BY <2>1, <2>2
<1>2. EnrolIInv => EnrolInv
  <2> SUFFICES ASSUME EnrolIInv PROVE EnrolInv
    OBVIOUS
  <2>1. \A i \in NodeIds : nodes[i].state = "none" => nodes[i] = NoNode
    BY DEF EnrolIInv, EnrolTypes, NodeRows, NodesPurged, Blank, NoNode
  <2>3. EnrolTypeOK
    BY <2>1 DEF EnrolIInv, EnrolTypes, EnrolTypeOK, KeyRows, NodeRows, EnrolRequests
  <2>2. KeyNeverOverspent /\ BoundDeviceOnly /\ OrgBootstrappedOnce
    BY DEF EnrolIInv, UsesCounted, EnrolmentsBound, BootstrapsCounted, KeyNeverOverspent,
       BoundDeviceOnly, OrgBootstrappedOnce
  <2> QED
    BY <2>2, <2>3 DEF EnrolInv
<1> QED
  BY EnrolInitial, <1>1, <1>2, PTL DEF EnrolSpec

-----------------------------------------------------------------------------
(* The agent gateway's quotas.                                             *)
GatewayRows ==
  [status : {"pending", "abandoned", "closed", "deleted"}, day : Days, reserved : Nat,
   started : Nat, used : Nat, content : BOOLEAN]
Flows ==
  {Waiting} \cup [step : {"refused"}]
    \cup [step : {"deciding"}, output : Int, day : Days, provider : Residencies, mode : Modes]
    \cup [step : {"granted"}, limit : Int, mode : Modes, provider : Residencies]
    \cup [step : {"reporting"}, used : Nat, full : BOOLEAN]
Posts ==
  {NoPost} \cup [step : {"sent", "lost", "ended"}]
    \cup [step : {"read"}, mode : Modes, reserved : Nat]

GatewayTypes ==
  /\ agKey \in [revoked : BOOLEAN, mode : Modes, quota : RequestQuotas]
  /\ quota \in [Days -> [requests : Nat, tokens : Int]]
  /\ agReqs \in [Reqs -> GatewayRows \cup {NoRow}]
  /\ flow \in [Reqs -> Flows] /\ posts \in [Reqs -> [1 .. 2 -> Posts]]
  /\ granted_at \in [Days -> SUBSET Reqs]
  /\ agClock \in 0 .. MaxAgwClock

(* A request is granted once, on the day its row is charged to.            *)
GrantedOnce ==
  \A q \in Reqs :
    /\ agReqs[q] = NoRow => \A d \in Days : q \notin granted_at[d]
    /\ agReqs[q] # NoRow => \A d \in Days : q \in granted_at[d] <=> d = agReqs[q].day
    /\ flow[q].step \in {"waiting", "deciding"} => agReqs[q] = NoRow

(* A usage report is of a request that was granted, and settles what was   *)
(* reserved for it.                                                        *)
ReportsMatch ==
  \A q \in Reqs :
    /\ flow[q].step \in {"granted", "reporting"} => agReqs[q] # NoRow
    /\ agReqs[q] # NoRow => \/ agReqs[q].used = 0
                            \/ flow[q].step = "reporting" /\ agReqs[q].used = flow[q].used
    /\ \A n \in 1 .. 2 : posts[q][n] # NoPost =>
         /\ flow[q].step = "reporting"
         /\ posts[q][n].step = "read" => posts[q][n].reserved = agReqs[q].reserved

AgwIInv == GatewayTypes /\ GrantedOnce /\ ReportsMatch /\ RequestsWithinQuota /\ TokensWithinQuota

(* The day of the clock is one of the days counted.                        *)
LEMMA TodayIsADay == ASSUME agClock \in 0 .. MaxAgwClock PROVE Today \in Days
<1> USE AgwAssumption
<1> DEFINE a == agClock \div DAY_SECS
           b == MaxAgwClock \div DAY_SECS
<1>1. a \in Nat /\ b \in Nat /\ DAY_SECS * a <= agClock /\ MaxAgwClock < DAY_SECS * (b + 1)
  OBVIOUS
<1> HIDE DEF a, b
<1>2. DAY_SECS * a < DAY_SECS * (b + 1)
  BY <1>1
<1>3. a < b + 1
  BY <1>1, <1>2
<1> QED
  BY <1>1, <1>3 DEF Today, Days, a, b

LEMMA AgwInitial == AgwInit => AgwIInv
<1> SUFFICES ASSUME AgwInit PROVE AgwIInv
  OBVIOUS
<1> USE AgwAssumption DEF AgwInit
<1>1. GatewayTypes
  <2>1. agKey \in [revoked : BOOLEAN, mode : Modes, quota : RequestQuotas] /\ agClock \in 0 .. MaxAgwClock
    BY DEF Modes
  <2>2. quota \in [Days -> [requests : Nat, tokens : Int]] /\ granted_at \in [Days -> SUBSET Reqs]
    OBVIOUS
  <2>3. /\ agReqs \in [Reqs -> GatewayRows \cup {NoRow}] /\ flow \in [Reqs -> Flows]
        /\ posts \in [Reqs -> [1 .. 2 -> Posts]]
    BY DEF Flows, Posts
  <2> QED
    BY <2>1, <2>2, <2>3 DEF GatewayTypes
<1>2. GrantedOnce /\ ReportsMatch
  BY DEF GrantedOnce, ReportsMatch, NoRow, Waiting, NoPost
<1>3. \A d \in Days : quota[d].requests = 0 /\ quota[d].tokens = 0 /\ granted_at[d] = {}
  OBVIOUS
<1>4. RequestsWithinQuota
  <2>1. Cardinality({}) = 0
    BY FS_EmptySet
  <2>2. agKey.quota \in Nat
    OBVIOUS
  <2> QED
    BY <1>3, <2>1, <2>2 DEF RequestsWithinQuota
<1>5. TokensWithinQuota
  BY <1>3 DEF TokensWithinQuota
<1> QED
  BY <1>1, <1>2, <1>4, <1>5 DEF AgwIInv

(* What a row is charged with.                                             *)
SameCharge(r, s) ==
  /\ s = NoRow <=> r = NoRow
  /\ r # NoRow => s.day = r.day /\ s.used = r.used /\ s.reserved = r.reserved

(* A step that grants nothing and settles nothing: rows keep what they are *)
(* charged, and the gateway's record of each request goes on.              *)
LEMMA NoCharge ==
  ASSUME AgwIInv, GatewayTypes', UNCHANGED <<quota, granted_at>>, agKey'.quota = agKey.quota,
         \A q \in Reqs : SameCharge(agReqs[q], agReqs'[q]),
         GrantedOnce', ReportsMatch'
  PROVE  AgwIInv'
<1> USE DEF AgwIInv
<1>1. RequestsWithinQuota'
  BY DEF RequestsWithinQuota
<1>2. TokensWithinQuota'
  BY DEF TokensWithinQuota, GrantedOnce, GatewayTypes, SameCharge
<1> QED
  BY <1>1, <1>2

(* Steps of the gateway and reads of the coordinator: the rows stay.       *)
LEMMA FlowStep ==
  ASSUME AgwIInv, NEW q \in Reqs,
         UNCHANGED <<agKey, quota, agReqs, granted_at, agClock>>,
         NEW f, flow' = [flow EXCEPT ![q] = f], f \in Flows,
         posts' \in [Reqs -> [1 .. 2 -> Posts]],
         \A p \in Reqs : p # q => posts'[p] = posts[p],
         f.step \in {"waiting", "deciding"} => flow[q].step \in {"waiting", "deciding"},
         f.step \in {"granted", "reporting"} => flow[q].step \in {"granted", "reporting"},
         flow[q].step = "reporting" => f = flow[q],
         \A n \in 1 .. 2 : posts'[q][n] # NoPost =>
            /\ f.step = "reporting"
            /\ posts'[q][n].step = "read" => posts'[q][n].reserved = agReqs[q].reserved
  PROVE  AgwIInv'
<1> USE AgwAssumption DEF AgwIInv
<1>1. flow \in [Reqs -> Flows] /\ flow'[q] = f /\ \A p \in Reqs : p # q => flow'[p] = flow[p]
  BY DEF GatewayTypes
<1>2. GatewayTypes'
  BY <1>1 DEF GatewayTypes
<1>3. GrantedOnce'
  BY <1>1 DEF GrantedOnce
<1>4. ReportsMatch'
  <2> SUFFICES ASSUME NEW p \in Reqs
               PROVE  /\ flow'[p].step \in {"granted", "reporting"} => agReqs[p] # NoRow
                      /\ agReqs[p] # NoRow => \/ agReqs[p].used = 0
                                              \/ flow'[p].step = "reporting" /\ agReqs[p].used = flow'[p].used
                      /\ \A n \in 1 .. 2 : posts'[p][n] # NoPost =>
                           /\ flow'[p].step = "reporting"
                           /\ posts'[p][n].step = "read" => posts'[p][n].reserved = agReqs[p].reserved
    BY DEF ReportsMatch
  <2>1. CASE p = q
    BY <1>1, <2>1 DEF ReportsMatch
  <2>2. CASE p # q
    BY <1>1, <2>2 DEF ReportsMatch
  <2> QED
    BY <2>1, <2>2
<1> QED
  BY <1>2, <1>3, <1>4, NoCharge DEF SameCharge

LEMMA GatewayReadStep ==
  ASSUME AgwIInv, NEW q \in Reqs,
         \/ \E o \in 1 .. MaxOutput : AuthorizeRead(q, o)
         \/ Forward(q) \/ RetryUsage(q) \/ GatewayStops(q)
         \/ \E n \in 1 .. 2 : PostLost(q, n) \/ IngestRead(q, n)
  PROVE  AgwIInv'
<1> USE AgwAssumption DEF AgwIInv
<1>0. /\ flow \in [Reqs -> Flows] /\ posts \in [Reqs -> [1 .. 2 -> Posts]]
      /\ flow[q] \in Flows /\ posts[q] \in [1 .. 2 -> Posts]
      /\ agKey.mode \in Modes /\ quota \in [Days -> [requests : Nat, tokens : Int]]
      /\ Today \in Days
  BY TodayIsADay DEF GatewayTypes
<1>1. ASSUME NEW o \in 1 .. MaxOutput, AuthorizeRead(q, o) PROVE AgwIInv'
  <2>1. /\ UNCHANGED <<agKey, quota, agReqs, granted_at, agClock, posts>> /\ flow[q].step = "waiting"
    BY <1>1 DEF AuthorizeRead, consoleVars, Waiting
  <2>2. \E f \in Flows : flow' = [flow EXCEPT ![q] = f] /\ f.step \in {"deciding", "refused"}
    <3> DEFINE chosen == Choose(agProviders, offshoreOk)
               used == quota[Today].tokens
               allowance == IF o < TOKEN_QUOTA - used - 1 THEN o ELSE TOKEN_QUOTA - used - 1
               d == [step |-> "deciding", output |-> allowance, day |-> Today,
                     provider |-> chosen, mode |-> agKey.mode]
               r == [step |-> "refused"]
    <3>1. allowance \in Int
      BY <1>0
    <3>2. chosen # "none" => chosen \in Residencies
      BY DEF Choose, Residencies
    <3>3. r \in Flows /\ r.step = "refused"
      BY DEF Flows
    <3>4. chosen # "none" => d \in Flows /\ d.step = "deciding"
      BY <1>0, <3>1, <3>2 DEF Flows
    <3>5. flow' = [flow EXCEPT ![q] = IF designated /\ ~agKey.revoked /\ chosen # "none" THEN d ELSE r]
      BY <1>1 DEF AuthorizeRead
    <3> HIDE DEF d, r, chosen
    <3> QED
      BY <3>3, <3>4, <3>5
  <2>3. PICK f \in Flows : flow' = [flow EXCEPT ![q] = f] /\ f.step \in {"deciding", "refused"}
    BY <2>2
  <2>4. \A n \in 1 .. 2 : posts[q][n] = NoPost
    BY <2>1 DEF ReportsMatch
  <2>5. posts' = posts /\ flow[q].step # "reporting"
    BY <2>1
  <2> QED
    BY <1>0, <2>1, <2>3, <2>4, <2>5, FlowStep
<1>2. CASE Forward(q)
  <2>1. PICK used \in 0 .. MaxOutput + 2 :
          flow' = [flow EXCEPT ![q] = [step |-> "reporting", used |-> used, full |-> flow[q].mode = "full"]]
    BY <1>2 DEF Forward
  <2>2. /\ UNCHANGED <<agKey, quota, agReqs, granted_at, agClock>> /\ flow[q].step = "granted"
        /\ posts' = [posts EXCEPT ![q][1] = [step |-> "sent"]]
    BY <1>2 DEF Forward, consoleVars
  <2> DEFINE f == [step |-> "reporting", used |-> used, full |-> flow[q].mode = "full"]
             s == [step |-> "sent"]
  <2>3. f \in Flows /\ f.step = "reporting"
    BY DEF Flows
  <2>4. s \in Posts /\ s.step = "sent"
    BY DEF Posts
  <2> HIDE DEF f, s
  <2>5. /\ posts' \in [Reqs -> [1 .. 2 -> Posts]] /\ \A p \in Reqs : p # q => posts'[p] = posts[p]
        /\ posts'[q][1] = s /\ posts'[q][2] = posts[q][2]
    BY <1>0, <2>2, <2>4 DEF s
  <2>6. posts[q][2] = NoPost
    BY <2>2 DEF ReportsMatch
  <2>7. \A n \in 1 .. 2 : posts'[q][n] # NoPost =>
          f.step = "reporting" /\ (posts'[q][n].step = "read" => posts'[q][n].reserved = agReqs[q].reserved)
    BY <2>3, <2>4, <2>5, <2>6
  <2>8. flow' = [flow EXCEPT ![q] = f] /\ flow[q].step # "reporting"
    BY <2>1, <2>2 DEF f
  <2> QED
    BY <2>2, <2>3, <2>5, <2>7, <2>8, FlowStep
<1>3. CASE GatewayStops(q)
  <2> DEFINE f == [step |-> "refused"]
  <2>1. /\ UNCHANGED <<agKey, quota, agReqs, granted_at, agClock, posts>> /\ flow[q].step = "granted"
        /\ flow' = [flow EXCEPT ![q] = f]
    BY <1>3 DEF GatewayStops, consoleVars
  <2>2. f \in Flows /\ f.step = "refused"
    BY DEF Flows
  <2> HIDE DEF f
  <2>3. \A n \in 1 .. 2 : posts[q][n] = NoPost
    BY <2>1 DEF ReportsMatch
  <2>4. posts' = posts /\ flow[q].step # "reporting"
    BY <2>1
  <2> QED
    BY <1>0, <2>1, <2>2, <2>3, <2>4, FlowStep
<1>4. ASSUME NEW n \in 1 .. 2, PostLost(q, n) \/ IngestRead(q, n) \/ (RetryUsage(q) /\ n = 2)
      PROVE  AgwIInv'
  <2>1. /\ UNCHANGED <<agKey, quota, agReqs, granted_at, agClock, flow>> /\ flow[q].step = "reporting"
    <3>1. UNCHANGED <<agKey, quota, agReqs, granted_at, agClock, flow>>
      BY <1>4 DEF PostLost, IngestRead, RetryUsage, consoleVars
    <3>2. RetryUsage(q) \/ posts[q][n] # NoPost
      BY <1>4 DEF PostLost, IngestRead, NoPost
    <3> QED
      BY <3>1, <3>2 DEF RetryUsage, ReportsMatch
  <2>2. \E s \in Posts : posts' = [posts EXCEPT ![q][n] = s]
                       /\ (s.step = "read" => s.reserved = agReqs[q].reserved)
    <3>1. CASE PostLost(q, n)
      <4>1. [step |-> "lost"] \in Posts
        BY DEF Posts
      <4> QED
        BY <3>1, <4>1 DEF PostLost
    <3>2. CASE RetryUsage(q) /\ n = 2
      <4>1. [step |-> "sent"] \in Posts
        BY DEF Posts
      <4> QED
        BY <3>2, <4>1 DEF RetryUsage
    <3>3. CASE IngestRead(q, n)
      <4> DEFINE r == [step |-> "read", mode |-> agKey.mode, reserved |-> agReqs[q].reserved]
                 e == [step |-> "ended"]
      <4>1. e \in Posts /\ e.step = "ended"
        BY DEF Posts
      <4>2. Open(q) => agReqs[q].reserved \in Nat
        BY DEF Open, GatewayTypes, GatewayRows, NoRow
      <4>3. Open(q) => r \in Posts /\ r.reserved = agReqs[q].reserved
        BY <1>0, <4>2 DEF Posts
      <4>4. posts' = [posts EXCEPT ![q][n] = IF designated /\ Open(q) THEN r ELSE e]
        BY <3>3 DEF IngestRead
      <4> HIDE DEF r, e
      <4> QED
        BY <4>1, <4>3, <4>4
    <3> QED
      BY <1>4, <3>1, <3>2, <3>3
  <2>3. PICK s \in Posts : posts' = [posts EXCEPT ![q][n] = s]
                         /\ (s.step = "read" => s.reserved = agReqs[q].reserved)
    BY <2>2
  <2>4. /\ posts' \in [Reqs -> [1 .. 2 -> Posts]] /\ \A p \in Reqs : p # q => posts'[p] = posts[p]
        /\ posts'[q][n] = s /\ \A m \in 1 .. 2 : m # n => posts'[q][m] = posts[q][m]
    <3> DEFINE row == [posts[q] EXCEPT ![n] = s]
    <3>1. row \in [1 .. 2 -> Posts] /\ row[n] = s /\ \A m \in 1 .. 2 : m # n => row[m] = posts[q][m]
      BY <1>0
    <3>2. posts' = [posts EXCEPT ![q] = row]
      BY <2>3
    <3> HIDE DEF row
    <3> QED
      BY <1>0, <3>1, <3>2
  <2>5. \A m \in 1 .. 2 : posts'[q][m] # NoPost =>
          /\ flow[q].step = "reporting"
          /\ posts'[q][m].step = "read" => posts'[q][m].reserved = agReqs[q].reserved
    BY <2>1, <2>3, <2>4 DEF ReportsMatch
  <2>6. flow' = [flow EXCEPT ![q] = flow[q]]
    BY <1>0, <2>1
  <2> QED
    BY <1>0, <2>1, <2>4, <2>5, <2>6, FlowStep
<1> QED
  BY <1>1, <1>2, <1>3, <1>4

(* A purge keeps what a row is charged.                                    *)
LEMMA PurgedKept ==
  ASSUME GatewayTypes
  PROVE  /\ PurgedRequests \in [Reqs -> GatewayRows \cup {NoRow}]
         /\ \A q \in Reqs : SameCharge(agReqs[q], PurgedRequests[q])
<1> SUFFICES ASSUME NEW q \in Reqs
             PROVE  /\ PurgedRequests[q] \in GatewayRows \cup {NoRow}
                    /\ SameCharge(agReqs[q], PurgedRequests[q])
  BY DEF PurgedRequests
<1>1. agReqs[q] \in GatewayRows \cup {NoRow}
  BY DEF GatewayTypes
<1>2. PurgedRequests[q] = agReqs[q] \/ PurgedRequests[q] = [agReqs[q] EXCEPT !.status = "abandoned"]
  BY DEF PurgedRequests
<1>3. CASE agReqs[q] = NoRow
  BY <1>3 DEF PurgedRequests, NoRow, SameCharge
<1>4. CASE agReqs[q] \in GatewayRows
  <2>1. agReqs[q] # NoRow
    BY <1>4 DEF GatewayRows, NoRow
  <2>2. CASE PurgedRequests[q] = [agReqs[q] EXCEPT !.status = "abandoned"]
    <3>1. /\ PurgedRequests[q] \in GatewayRows
          /\ PurgedRequests[q].day = agReqs[q].day /\ PurgedRequests[q].used = agReqs[q].used
          /\ PurgedRequests[q].reserved = agReqs[q].reserved
      BY <1>4, <2>2 DEF GatewayRows
    <3>2. PurgedRequests[q] # NoRow
      BY <3>1 DEF GatewayRows, NoRow
    <3> QED
      BY <2>1, <3>1, <3>2 DEF SameCharge
  <2>3. CASE PurgedRequests[q] = agReqs[q]
    BY <1>1, <2>3 DEF SameCharge
  <2> QED
    BY <1>2, <2>2, <2>3
<1> QED
  BY <1>1, <1>3, <1>4

(* The conditional UPDATE: counted once, and within both quotas.           *)
LEMMA GrantStep ==
  ASSUME AgwIInv, NEW q \in Reqs, AuthorizeCommit(q) PROVE AgwIInv'
<1> USE AgwAssumption DEF AgwIInv
<1> DEFINE f == flow[q]
<1>0. /\ flow \in [Reqs -> Flows] /\ quota \in [Days -> [requests : Nat, tokens : Int]]
      /\ granted_at \in [Days -> SUBSET Reqs] /\ agClock \in Nat
      /\ posts \in [Reqs -> [1 .. 2 -> Posts]] /\ agKey.quota \in RequestQuotas
  BY DEF GatewayTypes
<1>1. /\ f.step = "deciding" /\ agReqs[q] = NoRow /\ \A d \in Days : q \notin granted_at[d]
      /\ \A n \in 1 .. 2 : posts[q][n] = NoPost
      /\ UNCHANGED <<agKey, posts, agClock>>
  BY DEF AuthorizeCommit, GrantedOnce, ReportsMatch, consoleVars
<1>2. f.output \in Int /\ f.day \in Days /\ f.provider \in Residencies /\ f.mode \in Modes
  BY <1>0, <1>1 DEF Flows, Waiting
<1> HIDE DEF f
<1>3. CASE ~Fits(q)
  <2> DEFINE r == [step |-> "refused"]
  <2>1. agReqs' = PurgedRequests /\ flow' = [flow EXCEPT ![q] = r] /\ UNCHANGED <<quota, granted_at>>
    BY <1>3 DEF AuthorizeCommit
  <2>2. r \in Flows /\ r.step = "refused"
    BY DEF Flows
  <2> HIDE DEF r
  <2>3. flow'[q] = r /\ flow' \in [Reqs -> Flows] /\ \A p \in Reqs : p # q => flow'[p] = flow[p]
    BY <1>0, <2>1, <2>2
  <2>4. GatewayTypes'
    BY <1>1, <2>1, <2>3, PurgedKept DEF GatewayTypes
  <2>5. GrantedOnce'
    BY <1>1, <2>1, <2>2, <2>3, PurgedKept DEF GrantedOnce, SameCharge
  <2>6. ReportsMatch'
    <3> SUFFICES ASSUME NEW p \in Reqs
                 PROVE  /\ flow'[p].step \in {"granted", "reporting"} => agReqs'[p] # NoRow
                        /\ agReqs'[p] # NoRow /\ agReqs'[p].used # 0
                             => flow'[p].step = "reporting" /\ agReqs'[p].used = flow'[p].used
                        /\ \A n \in 1 .. 2 : posts'[p][n] # NoPost =>
                             /\ flow'[p].step = "reporting"
                             /\ posts'[p][n].step = "read" => posts'[p][n].reserved = agReqs'[p].reserved
      BY DEF ReportsMatch
    <3>1. CASE p = q
      BY <1>1, <2>1, <2>2, <2>3, <3>1, PurgedKept DEF SameCharge
    <3>2. CASE p # q
      BY <1>1, <2>1, <2>3, <3>2, PurgedKept DEF ReportsMatch, SameCharge
    <3> QED
      BY <3>1, <3>2
  <2>7. \A p \in Reqs : SameCharge(agReqs[p], agReqs'[p])
    BY <2>1, PurgedKept
  <2> QED
    BY <1>1, <2>1, <2>4, <2>5, <2>6, <2>7, NoCharge
<1>4. CASE Fits(q)
  <2> DEFINE row == [status |-> "pending", day |-> f.day, reserved |-> f.output + 1,
                     started |-> agClock, used |-> 0, content |-> FALSE]
             g == [step |-> "granted", limit |-> f.output, mode |-> f.mode, provider |-> f.provider]
             c1 == [quota EXCEPT ![f.day].requests = @ + 1]
  <2>1. /\ quota' = [quota EXCEPT ![f.day].requests = @ + 1, ![f.day].tokens = @ + f.output + 1]
        /\ agReqs' = [PurgedRequests EXCEPT ![q] = row]
        /\ granted_at' = [granted_at EXCEPT ![f.day] = @ \cup {q}]
        /\ flow' = [flow EXCEPT ![q] = g]
    BY <1>4 DEF AuthorizeCommit, f
  <2>2. /\ f.output >= 1 /\ quota[f.day].requests < agKey.quota
        /\ quota[f.day].tokens + f.output + 1 <= TOKEN_QUOTA
    BY <1>4 DEF Fits, f
  <2>3. /\ row \in GatewayRows /\ row # NoRow /\ row.day = f.day /\ row.used = 0
        /\ row.reserved = f.output + 1 /\ row.reserved \in Nat
    BY <1>0, <1>2, <2>2 DEF GatewayRows, NoRow
  <2>4. g \in Flows /\ g.step = "granted"
    BY <1>2 DEF Flows
  <2>5. /\ quota' \in [Days -> [requests : Nat, tokens : Int]]
        /\ quota'[f.day].requests = quota[f.day].requests + 1
        /\ quota'[f.day].tokens = quota[f.day].tokens + f.output + 1
        /\ \A d \in Days : d # f.day => quota'[d] = quota[d]
    <3>1. /\ c1 \in [Days -> [requests : Nat, tokens : Int]]
          /\ c1[f.day].requests = quota[f.day].requests + 1 /\ c1[f.day].tokens = quota[f.day].tokens
          /\ \A d \in Days : d # f.day => c1[d] = quota[d]
      BY <1>0, <1>2
    <3>2. quota' = [c1 EXCEPT ![f.day].tokens = @ + f.output + 1]
      BY <1>0, <1>2, <2>1
    <3> HIDE DEF c1
    <3> QED
      BY <1>2, <3>1, <3>2
  <2> HIDE DEF row, g, c1
  <2>6. /\ flow' \in [Reqs -> Flows] /\ flow'[q] = g /\ \A p \in Reqs : p # q => flow'[p] = flow[p]
    BY <1>0, <2>1, <2>4
  <2>7. /\ agReqs' \in [Reqs -> GatewayRows \cup {NoRow}] /\ agReqs'[q] = row
        /\ \A p \in Reqs : p # q => agReqs'[p] = PurgedRequests[p]
    BY <2>1, <2>3, PurgedKept
  <2>8. /\ granted_at' \in [Days -> SUBSET Reqs] /\ granted_at'[f.day] = granted_at[f.day] \cup {q}
        /\ \A d \in Days : d # f.day => granted_at'[d] = granted_at[d]
    BY <1>0, <1>2, <2>1
  <2>9. GatewayTypes'
    BY <1>1, <2>5, <2>6, <2>7, <2>8 DEF GatewayTypes
  <2>10. GrantedOnce'
    <3> SUFFICES ASSUME NEW p \in Reqs
                 PROVE  /\ agReqs'[p] = NoRow => \A d \in Days : p \notin granted_at'[d]
                        /\ agReqs'[p] # NoRow => \A d \in Days : p \in granted_at'[d] <=> d = agReqs'[p].day
                        /\ flow'[p].step \in {"waiting", "deciding"} => agReqs'[p] = NoRow
      BY DEF GrantedOnce
    <3>1. CASE p = q
      BY <1>1, <2>3, <2>4, <2>6, <2>7, <2>8, <3>1
    <3>2. CASE p # q
      <4>1. \A d \in Days : p \in granted_at'[d] <=> p \in granted_at[d]
        BY <2>8, <3>2
      <4> QED
        BY <2>6, <2>7, <3>2, <4>1, PurgedKept DEF GrantedOnce, SameCharge
    <3> QED
      BY <3>1, <3>2
  <2>11. ReportsMatch'
    <3> SUFFICES ASSUME NEW p \in Reqs
                 PROVE  /\ flow'[p].step \in {"granted", "reporting"} => agReqs'[p] # NoRow
                        /\ agReqs'[p] # NoRow /\ agReqs'[p].used # 0
                             => flow'[p].step = "reporting" /\ agReqs'[p].used = flow'[p].used
                        /\ \A n \in 1 .. 2 : posts'[p][n] # NoPost =>
                             /\ flow'[p].step = "reporting"
                             /\ posts'[p][n].step = "read" => posts'[p][n].reserved = agReqs'[p].reserved
      BY DEF ReportsMatch
    <3>1. CASE p = q
      BY <1>1, <2>3, <2>7, <3>1
    <3>2. CASE p # q
      BY <1>1, <2>6, <2>7, <3>2, PurgedKept DEF ReportsMatch, SameCharge
    <3> QED
      BY <3>1, <3>2
  <2>12. RequestsWithinQuota'
    <3>1. granted_at[f.day] \in SUBSET Reqs /\ q \notin granted_at[f.day]
      BY <1>0, <1>1, <1>2
    <3>2. IsFiniteSet(granted_at[f.day])
      BY <3>1, FS_Subset
    <3>3. Cardinality(granted_at[f.day] \cup {q}) = Cardinality(granted_at[f.day]) + 1
      BY <3>1, <3>2, FS_AddElement
    <3>4. quota[f.day].requests \in Nat
      BY <1>0, <1>2
    <3>5. agKey.quota \in Nat /\ agKey' = agKey
      BY <1>0, <1>1
    <3> SUFFICES ASSUME NEW d \in Days
                 PROVE  /\ Cardinality(granted_at'[d]) = quota'[d].requests
                        /\ quota'[d].requests <= agKey.quota
      BY <3>5 DEF RequestsWithinQuota
    <3>6. Cardinality(granted_at[d]) = quota[d].requests /\ quota[d].requests <= agKey.quota
      BY DEF RequestsWithinQuota
    <3>7. CASE d = f.day
      <4>1. Cardinality(granted_at'[d]) = Cardinality(granted_at[d]) + 1
        BY <2>8, <3>3, <3>7
      <4>2. quota'[d].requests = quota[d].requests + 1 /\ quota[d].requests < agKey.quota
        BY <2>2, <2>5, <3>7
      <4> QED
        BY <3>4, <3>5, <3>6, <3>7, <4>1, <4>2
    <3>8. CASE d # f.day
      BY <2>5, <2>8, <3>6, <3>8
    <3> QED
      BY <3>7, <3>8
  <2>13. TokensWithinQuota'
    <3> SUFFICES ASSUME NEW d \in Days,
                        \A p \in granted_at'[d] : agReqs'[p].used <= agReqs'[p].reserved
                 PROVE  quota'[d].tokens <= TOKEN_QUOTA
      BY DEF TokensWithinQuota
    <3>1. CASE d = f.day
      BY <2>2, <2>5, <3>1
    <3>2. CASE d # f.day
      <4>1. \A p \in granted_at[d] : agReqs[p].used <= agReqs[p].reserved
        BY <1>0, <1>1, <2>7, <2>8, <3>2, PurgedKept DEF GrantedOnce, SameCharge
      <4> QED
        BY <2>5, <3>2, <4>1 DEF TokensWithinQuota
    <3> QED
      BY <3>1, <3>2
  <2> QED
    BY <2>9, <2>10, <2>11, <2>12, <2>13
<1> QED
  BY <1>3, <1>4

(* Settlement: what was reserved goes back against what was used.  A day   *)
(* that no provider overran stays within the quota, because a settlement   *)
(* then only lowers it.                                                    *)
LEMMA SettleStep ==
  ASSUME AgwIInv, NEW q \in Reqs, NEW n \in 1 .. 2, IngestCommit(q, n) PROVE AgwIInv'
<1> USE AgwAssumption DEF AgwIInv
<1> DEFINE p == posts[q][n]
           used == flow[q].used
           day == agReqs[q].day
           kept == p.reserved
<1>0. /\ flow \in [Reqs -> Flows] /\ quota \in [Days -> [requests : Nat, tokens : Int]]
      /\ granted_at \in [Days -> SUBSET Reqs] /\ posts \in [Reqs -> [1 .. 2 -> Posts]]
      /\ agReqs \in [Reqs -> GatewayRows \cup {NoRow}]
  BY DEF GatewayTypes
<1>1. /\ p.step = "read" /\ UNCHANGED <<agKey, flow, granted_at, agClock>>
      /\ quota' = [quota EXCEPT ![day].tokens = @ + used - kept]
      /\ posts' = [posts EXCEPT ![q][n] = [step |-> "ended"]]
      /\ agReqs' = [agReqs EXCEPT ![q].status = IF p.mode = "off" THEN "deleted" ELSE "closed",
                                  ![q].used = used,
                                  ![q].content = p.mode = "full" /\ flow[q].full]
  BY DEF IngestCommit, consoleVars
<1>2. flow[q].step = "reporting" /\ agReqs[q] # NoRow /\ kept = agReqs[q].reserved
  <2>1. p # NoPost
    BY <1>1 DEF NoPost
  <2>2. flow[q].step = "reporting" /\ p.reserved = agReqs[q].reserved
    BY <1>1, <2>1 DEF ReportsMatch
  <2> QED
    BY <2>2 DEF ReportsMatch
<1>3. /\ used \in Nat /\ flow[q].full \in BOOLEAN /\ agReqs[q] \in GatewayRows
      /\ day \in Days /\ kept \in Nat /\ agReqs[q].used \in Nat
  <2>1. used \in Nat /\ flow[q].full \in BOOLEAN
    BY <1>0, <1>2 DEF Flows, Waiting
  <2>2. agReqs[q] \in GatewayRows
    BY <1>0, <1>2
  <2> QED
    BY <1>2, <2>1, <2>2 DEF GatewayRows
<1>4. agReqs[q].used = 0 \/ agReqs[q].used = used
  BY <1>2 DEF ReportsMatch
<1> HIDE DEF used, day, kept
<1>5. /\ agReqs' \in [Reqs -> GatewayRows \cup {NoRow}] /\ agReqs'[q] # NoRow
      /\ agReqs'[q].used = used /\ agReqs'[q].reserved = kept /\ agReqs'[q].day = day
      /\ \A r \in Reqs : r # q => agReqs'[r] = agReqs[r]
  <2> DEFINE st == IF p.mode = "off" THEN "deleted" ELSE "closed"
             full == p.mode = "full" /\ flow[q].full
             a1 == [agReqs[q] EXCEPT !.status = st]
             a2 == [a1 EXCEPT !.used = used]
             a3 == [a2 EXCEPT !.content = full]
  <2>1. st \in {"closed", "deleted"}
    OBVIOUS
  <2>2. full \in BOOLEAN
    BY <1>3
  <2>3. agReqs' = [agReqs EXCEPT ![q] = a3]
    BY <1>0, <1>1
  <2> HIDE DEF st, full
  <2>4. a1 \in GatewayRows /\ a1.reserved = agReqs[q].reserved /\ a1.day = agReqs[q].day
    BY <1>3, <2>1 DEF GatewayRows
  <2> HIDE DEF a1
  <2>5. a2 \in GatewayRows /\ a2.reserved = a1.reserved /\ a2.day = a1.day /\ a2.used = used
    BY <1>3, <2>4 DEF GatewayRows
  <2> HIDE DEF a2
  <2>6. a3 \in GatewayRows /\ a3.reserved = a2.reserved /\ a3.day = a2.day /\ a3.used = used
    BY <2>2, <2>5 DEF GatewayRows
  <2> HIDE DEF a3
  <2>7. a3 # NoRow
    BY <2>6 DEF GatewayRows, NoRow
  <2> QED
    BY <1>0, <1>2, <2>3, <2>4, <2>5, <2>6, <2>7 DEF day
<1>6. /\ quota' \in [Days -> [requests : Nat, tokens : Int]]
      /\ quota'[day].tokens = quota[day].tokens + used - kept
      /\ \A d \in Days : quota'[d].requests = quota[d].requests
      /\ \A d \in Days : d # day => quota'[d] = quota[d]
  <2> DEFINE t == quota[day].tokens + used - kept
             row == [quota[day] EXCEPT !.tokens = t]
  <2>1. t \in Int
    BY <1>0, <1>3
  <2>2. quota' = [quota EXCEPT ![day] = row]
    BY <1>0, <1>1, <1>3
  <2> HIDE DEF t
  <2>3. row \in [requests : Nat, tokens : Int] /\ row.tokens = t /\ row.requests = quota[day].requests
    BY <1>0, <1>3, <2>1
  <2> HIDE DEF row
  <2> QED
    BY <1>0, <1>3, <2>2, <2>3 DEF t
<1>7. /\ posts' \in [Reqs -> [1 .. 2 -> Posts]] /\ \A r \in Reqs : r # q => posts'[r] = posts[r]
      /\ posts'[q][n].step = "ended" /\ \A m \in 1 .. 2 : m # n => posts'[q][m] = posts[q][m]
  <2> DEFINE e == [step |-> "ended"]
             row == [posts[q] EXCEPT ![n] = e]
  <2>1. e \in Posts /\ e.step = "ended"
    BY DEF Posts
  <2>2. posts' = [posts EXCEPT ![q] = row]
    BY <1>0, <1>1
  <2> HIDE DEF e
  <2>3. row \in [1 .. 2 -> Posts] /\ row[n] = e /\ \A m \in 1 .. 2 : m # n => row[m] = posts[q][m]
    BY <1>0, <2>1
  <2> HIDE DEF row
  <2> QED
    BY <1>0, <2>1, <2>2, <2>3
<1>8. GatewayTypes'
  BY <1>1, <1>5, <1>6, <1>7 DEF GatewayTypes
<1>9. GrantedOnce'
  <2> SUFFICES ASSUME NEW r \in Reqs
               PROVE  /\ agReqs'[r] = NoRow => \A d \in Days : r \notin granted_at[d]
                      /\ agReqs'[r] # NoRow => \A d \in Days : r \in granted_at[d] <=> d = agReqs'[r].day
                      /\ flow[r].step \in {"waiting", "deciding"} => agReqs'[r] = NoRow
    BY <1>1 DEF GrantedOnce
  <2>1. CASE r = q
    BY <1>2, <1>5, <2>1 DEF GrantedOnce, day
  <2>2. CASE r # q
    BY <1>5, <2>2 DEF GrantedOnce
  <2> QED
    BY <2>1, <2>2
<1>10. ReportsMatch'
  <2> SUFFICES ASSUME NEW r \in Reqs
               PROVE  /\ flow[r].step \in {"granted", "reporting"} => agReqs'[r] # NoRow
                      /\ agReqs'[r] # NoRow /\ agReqs'[r].used # 0
                           => flow[r].step = "reporting" /\ agReqs'[r].used = flow[r].used
                      /\ \A m \in 1 .. 2 : posts'[r][m] # NoPost =>
                           /\ flow[r].step = "reporting"
                           /\ posts'[r][m].step = "read" => posts'[r][m].reserved = agReqs'[r].reserved
    BY <1>1 DEF ReportsMatch
  <2>1. CASE r = q
    <3>1. ASSUME NEW m \in 1 .. 2, posts'[q][m].step = "read", posts'[q][m] # NoPost
          PROVE  posts'[q][m].reserved = agReqs'[q].reserved
      <4>1. m # n /\ posts[q][m] = posts'[q][m]
        BY <1>7, <3>1
      <4>2. posts[q][m].reserved = agReqs[q].reserved
        BY <3>1, <4>1 DEF ReportsMatch
      <4> QED
        BY <1>2, <1>5, <4>1, <4>2
    <3> QED
      BY <1>2, <1>5, <2>1, <3>1 DEF used
  <2>2. CASE r # q
    BY <1>5, <1>7, <2>2 DEF ReportsMatch
  <2> QED
    BY <2>1, <2>2
<1>11. RequestsWithinQuota'
  BY <1>1, <1>6 DEF RequestsWithinQuota
<1>12. TokensWithinQuota'
  <2> SUFFICES ASSUME NEW d \in Days,
                      \A r \in granted_at[d] : agReqs'[r].used <= agReqs'[r].reserved
               PROVE  quota'[d].tokens <= TOKEN_QUOTA
    BY <1>1 DEF TokensWithinQuota
  <2>1. CASE d = day
    <3>1. q \in granted_at[day]
      BY <1>2, <1>3 DEF GrantedOnce, day
    <3>2. used <= kept
      BY <1>5, <2>1, <3>1
    <3>3. \A r \in granted_at[d] : agReqs[r].used <= agReqs[r].reserved
      <4> SUFFICES ASSUME NEW r \in granted_at[d] PROVE agReqs[r].used <= agReqs[r].reserved
        OBVIOUS
      <4>1. CASE r = q
        BY <1>2, <1>3, <1>4, <3>2, <4>1
      <4>2. CASE r # q
        BY <1>0, <1>5, <4>2
      <4> QED
        BY <4>1, <4>2
    <3>4. quota[d].tokens <= TOKEN_QUOTA /\ quota[d].tokens \in Int
      BY <1>0, <3>3 DEF TokensWithinQuota
    <3> QED
      BY <1>3, <1>6, <2>1, <3>2, <3>4
  <2>2. CASE d # day
    <3>1. q \notin granted_at[d]
      BY <1>2, <2>2 DEF GrantedOnce, day
    <3>2. \A r \in granted_at[d] : agReqs[r].used <= agReqs[r].reserved
      BY <1>0, <1>5, <3>1
    <3> QED
      BY <1>6, <2>2, <3>2 DEF TokensWithinQuota
  <2> QED
    BY <2>1, <2>2
<1> QED
  BY <1>8, <1>9, <1>10, <1>11, <1>12

LEMMA ConsoleStep ==
  ASSUME AgwIInv,
         \/ \E r \in BOOLEAN, mode \in Modes : PutKey(r, mode)
         \/ \E set \in SUBSET Residencies : PutProviders(set)
         \/ \E o, g \in BOOLEAN : PutAgwSettings(o, g)
         \/ AgwTick
  PROVE  AgwIInv'
<1> USE AgwAssumption DEF AgwIInv
<1>1. ASSUME NEW r \in BOOLEAN, NEW mode \in Modes, PutKey(r, mode) PROVE AgwIInv'
  <2>1. /\ UNCHANGED <<quota, flow, posts, granted_at, agClock>>
        /\ agKey' = [agKey EXCEPT !.revoked = r, !.mode = mode]
        /\ agReqs' = [q \in Reqs |->
             IF agReqs[q] # NoRow /\ (r \/ mode # "full")
             THEN [agReqs[q] EXCEPT !.content = FALSE] ELSE agReqs[q]]
    BY <1>1 DEF PutKey
  <2>2. /\ agKey' \in [revoked : BOOLEAN, mode : Modes, quota : RequestQuotas]
        /\ agKey'.quota = agKey.quota
    BY <2>1 DEF GatewayTypes
  <2>3. ASSUME NEW q \in Reqs
        PROVE  agReqs'[q] \in GatewayRows \cup {NoRow} /\ SameCharge(agReqs[q], agReqs'[q])
    <3>1. agReqs[q] \in GatewayRows \cup {NoRow}
      BY DEF GatewayTypes
    <3>2. CASE agReqs'[q] = agReqs[q]
      BY <3>1, <3>2 DEF SameCharge
    <3>3. CASE agReqs[q] # NoRow /\ agReqs'[q] = [agReqs[q] EXCEPT !.content = FALSE]
      <4>1. /\ agReqs'[q] \in GatewayRows
            /\ agReqs'[q].day = agReqs[q].day /\ agReqs'[q].used = agReqs[q].used
            /\ agReqs'[q].reserved = agReqs[q].reserved
        BY <3>1, <3>3 DEF GatewayRows
      <4>2. agReqs'[q] # NoRow
        BY <4>1 DEF GatewayRows, NoRow
      <4> QED
        BY <3>3, <4>1, <4>2 DEF SameCharge
    <3> QED
      BY <2>1, <3>2, <3>3
  <2>4. agReqs' \in [Reqs -> GatewayRows \cup {NoRow}]
    BY <2>1, <2>3
  <2>5. GatewayTypes'
    BY <2>1, <2>2, <2>4 DEF GatewayTypes
  <2>6. GrantedOnce'
    BY <2>1, <2>3 DEF GrantedOnce, SameCharge
  <2>7. ReportsMatch'
    BY <2>1, <2>3 DEF ReportsMatch, SameCharge
  <2> QED
    BY <2>1, <2>2, <2>3, <2>5, <2>6, <2>7, NoCharge
<1>2. ASSUME ~\E r \in BOOLEAN, mode \in Modes : PutKey(r, mode) PROVE AgwIInv'
  <2>1. UNCHANGED <<agKey, quota, agReqs, flow, posts, granted_at>> /\ agClock' \in 0 .. MaxAgwClock
    <3>1. CASE AgwTick
      BY <3>1 DEF AgwTick, GatewayTypes, consoleVars
    <3>2. CASE ~AgwTick
      BY <1>2, <3>2 DEF PutProviders, PutAgwSettings, GatewayTypes
    <3> QED
      BY <3>1, <3>2
  <2> QED
    BY <2>1 DEF GatewayTypes, GrantedOnce, ReportsMatch, RequestsWithinQuota, TokensWithinQuota
<1> QED
  BY <1>1, <1>2

LEMMA QuotaStep == AgwIInv /\ [AgwNext]_agwVars => AgwIInv'
<1> SUFFICES ASSUME AgwIInv, [AgwNext]_agwVars PROVE AgwIInv'
  OBVIOUS
<1>1. CASE UNCHANGED agwVars
  BY <1>1 DEF agwVars, AgwIInv, GatewayTypes, GrantedOnce, ReportsMatch, RequestsWithinQuota,
     TokensWithinQuota
<1>2. CASE AgwNext
  BY <1>2, GatewayReadStep, GrantStep, SettleStep, ConsoleStep DEF AgwNext
<1> QED
  BY <1>1, <1>2

(* A key stays within its daily quotas whichever requests are decided at   *)
(* once, however reports are lost, repeated or late, and whatever the      *)
(* console changes meanwhile.                                              *)
THEOREM QuotasAlwaysHold == AgwSpec => [](RequestsWithinQuota /\ TokensWithinQuota)
<1>1. AgwIInv => RequestsWithinQuota /\ TokensWithinQuota
  BY DEF AgwIInv
<1> QED
  BY AgwInitial, QuotaStep, <1>1, PTL DEF AgwSpec

(* The ledger: units of requests.                                          *)
UnitsOf(S, c) == UNION {{x} \X (1 .. c[x]) : x \in S}

LEMMA UnitsOfSame ==
  ASSUME NEW S, NEW c, NEW e, \A x \in S : c[x] = e[x]
  PROVE  UnitsOf(S, c) = UnitsOf(S, e)
  BY DEF UnitsOf

LEMMA UnitsOfAdd ==
  ASSUME NEW S, NEW c, NEW x, x \notin S, c[x] \in Nat, IsFiniteSet(UnitsOf(S, c))
  PROVE  /\ IsFiniteSet(UnitsOf(S \cup {x}, c))
         /\ Cardinality(UnitsOf(S \cup {x}, c)) = Cardinality(UnitsOf(S, c)) + c[x]
<1> DEFINE U == UnitsOf(S, c)
           V == {x} \X (1 .. c[x])
<1>1. UnitsOf(S \cup {x}, c) = U \cup V
  BY DEF UnitsOf
<1>2. U \cap V = {}
  BY DEF UnitsOf
<1>3. IsFiniteSet(1 .. c[x]) /\ Cardinality(1 .. c[x]) = c[x]
  BY FS_Interval
<1>4. IsFiniteSet({x}) /\ Cardinality({x}) = 1
  BY FS_Singleton
<1>5. IsFiniteSet(V) /\ Cardinality(V) = c[x]
  <2> DEFINE A == {x}
             B == 1 .. c[x]
  <2>1. IsFiniteSet(A) /\ IsFiniteSet(B) /\ Cardinality(A) = 1 /\ Cardinality(B) = c[x]
    BY <1>3, <1>4
  <2> HIDE DEF A, B
  <2>2. IsFiniteSet(A \X B) /\ Cardinality(A \X B) = Cardinality(A) * Cardinality(B)
    BY <2>1, FS_Product
  <2>3. Cardinality(A) * Cardinality(B) = c[x]
    <3>1. Cardinality(A) * Cardinality(B) = 1 * c[x]
      BY <2>1
    <3> QED
      BY <3>1
  <2> QED
    BY <2>2, <2>3 DEF A, B
<1>6. IsFiniteSet(U) /\ Cardinality(U) \in Nat
  BY FS_CardinalityType
<1> HIDE DEF U, V
<1>7. Cardinality({}) = 0
  BY FS_EmptySet
<1>8. /\ IsFiniteSet(U \cup V)
      /\ Cardinality(U \cup V) = Cardinality(U) + Cardinality(V) - Cardinality(U \cap V)
  BY <1>5, <1>6, FS_Union
<1>9. Cardinality(U \cup V) = Cardinality(U) + c[x]
  <2>1. Cardinality(U \cap V) = 0
    BY <1>2, <1>7, Zenon
  <2> QED
    BY <1>5, <1>6, <1>8, <2>1
<1> QED
  BY <1>1, <1>8, <1>9 DEF U

LEMMA UnitsOfRemove ==
  ASSUME NEW S, NEW c, NEW x \in S, c[x] \in Nat, IsFiniteSet(UnitsOf(S, c))
  PROVE  /\ IsFiniteSet(UnitsOf(S \ {x}, c))
         /\ Cardinality(UnitsOf(S, c)) = Cardinality(UnitsOf(S \ {x}, c)) + c[x]
<1> DEFINE R == S \ {x}
<1>1. x \notin R /\ R \cup {x} = S
  OBVIOUS
<1>2. UnitsOf(R, c) \subseteq UnitsOf(S, c)
  BY DEF UnitsOf
<1>3. IsFiniteSet(UnitsOf(R, c))
  BY <1>2, FS_Subset
<1> HIDE DEF R
<1>4. Cardinality(UnitsOf(R \cup {x}, c)) = Cardinality(UnitsOf(R, c)) + c[x]
  BY <1>1, <1>3, UnitsOfAdd
<1> QED
  BY <1>1, <1>3, <1>4 DEF R

(* What the ledger rests on when the coordinator answers in time: the two  *)
(* reports of a request are never under way together, so none settles a    *)
(* row that the other settled.                                             *)
SettledOnce ==
  \A q \in Reqs :
    /\ posts[q][2] # NoPost => posts[q][1].step \in {"lost", "ended"}
    /\ \A n \in 1 .. 2 : posts[q][n].step = "read" => agReqs[q].status \in {"pending", "abandoned"}

Charges == [q \in Reqs |-> Charged(q)]
LedgerKept ==
  \A d \in Days : LET units == UnitsOf(granted_at[d], Charges)
                  IN  IsFiniteSet(units) /\ quota[d].tokens = Cardinality(units)

LedgerIInv == AgwIInv /\ SettledOnce /\ LedgerKept

LEMMA LedgerIsUnits ==
  ASSUME GatewayTypes, LedgerKept PROVE LedgerExact
<1> SUFFICES ASSUME NEW d \in Days PROVE quota[d].tokens = Cardinality(ChargedUnits(d))
  BY DEF LedgerExact
<1>1. granted_at[d] \subseteq Reqs
  BY DEF GatewayTypes
<1>2. \A q \in granted_at[d] : Charges[q] = Charged(q)
  BY <1>1 DEF Charges
<1>3. ChargedUnits(d) = UnitsOf(granted_at[d], Charges)
  BY <1>2 DEF ChargedUnits, UnitsOf
<1>4. quota[d].tokens = Cardinality(UnitsOf(granted_at[d], Charges))
  BY DEF LedgerKept
<1> QED
  BY <1>3, <1>4

(* A row that keeps its status, or is abandoned, keeps its charge.         *)
SameStatus(r, s) ==
  r # NoRow => \/ s.status = r.status
               \/ r.status = "pending" /\ s.status = "abandoned"

LEMMA LedgerStays ==
  ASSUME LedgerIInv, AgwIInv', UNCHANGED <<quota, granted_at>>,
         \A q \in Reqs : SameCharge(agReqs[q], agReqs'[q]) /\ SameStatus(agReqs[q], agReqs'[q])
  PROVE  LedgerKept'
<1> USE DEF LedgerIInv
<1> SUFFICES ASSUME NEW d \in Days
             PROVE  LET units == UnitsOf(granted_at[d], Charges')
                    IN  IsFiniteSet(units) /\ quota[d].tokens = Cardinality(units)
  BY DEF LedgerKept
<1>1. \A q \in granted_at[d] : q \in Reqs /\ agReqs[q] # NoRow
  BY DEF AgwIInv, GatewayTypes, GrantedOnce
<1>2. \A q \in granted_at[d] : Charges'[q] = Charges[q]
  BY <1>1 DEF Charges, Charged, SameCharge, SameStatus
<1>3. UnitsOf(granted_at[d], Charges') = UnitsOf(granted_at[d], Charges)
  BY <1>2, UnitsOfSame
<1> QED
  BY <1>3 DEF LedgerKept

LEMMA PurgedStatus ==
  ASSUME GatewayTypes
  PROVE  \A q \in Reqs : SameStatus(agReqs[q], PurgedRequests[q])
<1> SUFFICES ASSUME NEW q \in Reqs, agReqs[q] # NoRow
             PROVE  \/ PurgedRequests[q].status = agReqs[q].status
                    \/ agReqs[q].status = "pending" /\ PurgedRequests[q].status = "abandoned"
  BY DEF SameStatus
<1>1. agReqs[q] \in GatewayRows
  BY DEF GatewayTypes
<1> QED
  BY <1>1 DEF PurgedRequests, GatewayRows

LEMMA LedgerInitially == AgwInit => LedgerIInv
<1> SUFFICES ASSUME AgwInit PROVE LedgerIInv
  OBVIOUS
<1>1. AgwIInv
  BY AgwInitial
<1>2. SettledOnce
  BY DEF AgwInit, SettledOnce, NoPost
<1>3. UnitsOf({}, Charges) = {}
  BY DEF UnitsOf
<1>4. IsFiniteSet({}) /\ Cardinality({}) = 0
  BY FS_EmptySet
<1>5. \A d \in Days : quota[d].tokens = 0 /\ granted_at[d] = {}
  BY DEF AgwInit
<1>6. LedgerKept
  BY <1>3, <1>4, <1>5 DEF LedgerKept
<1> QED
  BY <1>1, <1>2, <1>6 DEF LedgerIInv

(* Steps that neither grant nor settle.                                    *)
LEMMA LedgerReads ==
  ASSUME LedgerIInv, AgwIInv', AnswersInTime, NEW q \in Reqs,
         \/ \E o \in 1 .. MaxOutput : AuthorizeRead(q, o)
         \/ Forward(q) \/ RetryUsage(q) \/ GatewayStops(q)
         \/ \E n \in 1 .. 2 : PostLost(q, n) \/ IngestRead(q, n)
  PROVE  LedgerIInv'
<1> USE DEF LedgerIInv
<1>0. UNCHANGED <<quota, granted_at, agReqs>>
  BY DEF AuthorizeRead, Forward, RetryUsage, GatewayStops, PostLost, IngestRead
<1>1. LedgerKept'
  BY <1>0, LedgerStays DEF SameCharge, SameStatus
<1>2. posts \in [Reqs -> [1 .. 2 -> Posts]]
  BY DEF AgwIInv, GatewayTypes
<1>3. SettledOnce'
  <2>1. ASSUME UNCHANGED posts PROVE SettledOnce'
    BY <1>0, <2>1 DEF SettledOnce
  <2>2. ASSUME NEW n \in 1 .. 2, NEW s, posts' = [posts EXCEPT ![q][n] = s],
               s.step = "read" => agReqs[q].status \in {"pending", "abandoned"},
               s.step \in {"sent", "read", "lost", "ended"},
               n = 1 => posts[q][2] = NoPost \/ s.step \in {"lost", "ended"},
               n = 2 => posts[q][1].step \in {"lost", "ended"}
        PROVE  SettledOnce'
    <3>1. \A p \in Reqs : p # q => posts'[p] = posts[p]
      BY <1>2, <2>2
    <3>2. posts'[q] = [posts[q] EXCEPT ![n] = s]
      BY <1>2, <2>2
    <3>3. posts'[q][n] = s /\ \A m \in 1 .. 2 : m # n => posts'[q][m] = posts[q][m]
      BY <1>2, <3>2
    <3> SUFFICES ASSUME NEW p \in Reqs
                 PROVE  /\ posts'[p][2] # NoPost => posts'[p][1].step \in {"lost", "ended"}
                        /\ \A m \in 1 .. 2 : posts'[p][m].step = "read"
                                               => agReqs'[p].status \in {"pending", "abandoned"}
      BY DEF SettledOnce
    <3>4. CASE p # q
      BY <1>0, <3>1, <3>4 DEF SettledOnce
    <3>5. CASE p = q
      BY <1>0, <2>2, <3>3, <3>5 DEF SettledOnce
    <3> QED
      BY <3>4, <3>5
  <2>3. CASE GatewayStops(q) \/ \E o \in 1 .. MaxOutput : AuthorizeRead(q, o)
    BY <2>1, <2>3 DEF GatewayStops, AuthorizeRead
  <2>4. CASE Forward(q)
    <3>1. posts[q][2] = NoPost
      BY <2>4 DEF Forward, AgwIInv, ReportsMatch
    <3> DEFINE n == 1
               s == [step |-> "sent"]
    <3>2. posts' = [posts EXCEPT ![q][n] = s] /\ s.step = "sent" /\ n \in 1 .. 2
      BY <2>4 DEF Forward
    <3>3. /\ n = 1 => posts[q][2] = NoPost
          /\ n = 2 => posts[q][1].step \in {"lost", "ended"}
      BY <3>1
    <3> HIDE DEF s, n
    <3> QED
      BY <3>2, <3>3, <2>2
  <2>5. CASE RetryUsage(q)
    <3> DEFINE n == 2
               s == [step |-> "sent"]
    <3>1. posts' = [posts EXCEPT ![q][n] = s] /\ s.step = "sent" /\ n \in 1 .. 2
      BY <2>5 DEF RetryUsage
    <3>2. /\ n = 1 => posts[q][2] = NoPost
          /\ n = 2 => posts[q][1].step \in {"lost", "ended"}
      BY <2>5 DEF RetryUsage
    <3> HIDE DEF s, n
    <3> QED
      BY <3>1, <3>2, <2>2
  <2>6. ASSUME NEW n \in 1 .. 2, PostLost(q, n) PROVE SettledOnce'
    <3>1. posts[q][n].step = "sent" /\ posts' = [posts EXCEPT ![q][n] = [step |-> "lost"]]
      BY <2>6 DEF PostLost
    <3>2. n = 2 => posts[q][1].step \in {"lost", "ended"}
      BY <3>1 DEF SettledOnce, NoPost
    <3> QED
      BY <3>1, <3>2, <2>2
  <2>7. ASSUME NEW n \in 1 .. 2, IngestRead(q, n) PROVE SettledOnce'
    <3> DEFINE r == [step |-> "read", mode |-> agKey.mode, reserved |-> agReqs[q].reserved]
               e == [step |-> "ended"]
               s == IF designated /\ Open(q) THEN r ELSE e
    <3>1. posts[q][n].step = "sent" /\ posts' = [posts EXCEPT ![q][n] = s]
      BY <2>7 DEF IngestRead
    <3>2. /\ s.step \in {"read", "ended"}
          /\ s.step = "read" => agReqs[q].status = "pending"
      BY DEF Open
    <3>3. /\ n = 2 => posts[q][1].step \in {"lost", "ended"}
          /\ n = 1 => posts[q][2] = NoPost
      BY <3>1 DEF SettledOnce, NoPost
    <3> HIDE DEF s
    <3> QED
      BY <3>1, <3>2, <3>3, <2>2
  <2> QED
    BY <2>3, <2>4, <2>5, <2>6, <2>7
<1> QED
  BY <1>1, <1>3

LEMMA LedgerGrants ==
  ASSUME LedgerIInv, AgwIInv', NEW q \in Reqs, AuthorizeCommit(q)
  PROVE  LedgerIInv'
<1> USE DEF LedgerIInv
<1> DEFINE f == flow[q]
<1>0. /\ flow \in [Reqs -> Flows]
      /\ granted_at \in [Days -> SUBSET Reqs]
      /\ quota \in [Days -> [requests : Nat, tokens : Int]]
  BY DEF AgwIInv, GatewayTypes
<1>1. /\ f.step = "deciding"
      /\ agReqs[q] = NoRow
      /\ \A d \in Days : q \notin granted_at[d]
      /\ \A n \in 1 .. 2 : posts[q][n] = NoPost
      /\ posts' = posts
  BY DEF AuthorizeCommit, AgwIInv, GrantedOnce, ReportsMatch
<1>2. f.output \in Int /\ f.day \in Days
  BY <1>0, <1>1 DEF Flows, Waiting
<1> HIDE DEF f
<1>3. /\ PurgedRequests \in [Reqs -> GatewayRows \cup {NoRow}]
      /\ \A p \in Reqs : SameCharge(agReqs[p], PurgedRequests[p]) /\ SameStatus(agReqs[p], PurgedRequests[p])
  BY PurgedKept, PurgedStatus DEF AgwIInv
<1>4. CASE ~Fits(q)
  <2>1. agReqs' = PurgedRequests /\ UNCHANGED <<quota, granted_at>>
    BY <1>4 DEF AuthorizeCommit
  <2>2. LedgerKept'
    BY <1>3, <2>1, LedgerStays
  <2>3. SettledOnce'
    <3> SUFFICES ASSUME NEW p \in Reqs, NEW n \in 1 .. 2, posts[p][n].step = "read"
                 PROVE  agReqs'[p].status \in {"pending", "abandoned"}
      BY <1>1 DEF SettledOnce
    <3>1. agReqs[p] # NoRow
      BY DEF AgwIInv, ReportsMatch, NoPost
    <3> QED
      BY <1>3, <2>1, <3>1 DEF SettledOnce, SameStatus
  <2> QED
    BY <2>2, <2>3
<1>5. CASE Fits(q)
  <2> DEFINE row == [status |-> "pending", day |-> f.day, reserved |-> f.output + 1,
                     started |-> agClock, used |-> 0, content |-> FALSE]
  <2>1. /\ quota' = [quota EXCEPT ![f.day].requests = @ + 1, ![f.day].tokens = @ + f.output + 1]
        /\ agReqs' = [PurgedRequests EXCEPT ![q] = row]
        /\ granted_at' = [granted_at EXCEPT ![f.day] = @ \cup {q}]
    BY <1>5 DEF AuthorizeCommit, f
  <2>2. f.output >= 1
    BY <1>5 DEF Fits, f
  <2>3. row.status = "pending" /\ row.reserved = f.output + 1
    OBVIOUS
  <2> HIDE DEF row
  <2>4. agReqs'[q] = row /\ \A p \in Reqs : p # q => agReqs'[p] = PurgedRequests[p]
    BY <1>3, <2>1
  <2>5. /\ granted_at'[f.day] = granted_at[f.day] \cup {q}
        /\ \A d \in Days : d # f.day => granted_at'[d] = granted_at[d]
    BY <1>0, <1>2, <2>1
  <2>6. /\ quota'[f.day].tokens = quota[f.day].tokens + f.output + 1
        /\ \A d \in Days : d # f.day => quota'[d] = quota[d]
    <3> DEFINE c1 == [quota EXCEPT ![f.day].requests = @ + 1]
    <3>1. /\ c1 \in [Days -> [requests : Nat, tokens : Int]]
          /\ c1[f.day].tokens = quota[f.day].tokens
          /\ \A d \in Days : d # f.day => c1[d] = quota[d]
      BY <1>0, <1>2
    <3>2. quota' = [c1 EXCEPT ![f.day].tokens = @ + f.output + 1]
      BY <1>0, <1>2, <2>1
    <3> HIDE DEF c1
    <3> QED
      BY <1>2, <3>1, <3>2
  <2>7. ASSUME NEW d \in Days, NEW p \in granted_at[d] PROVE Charges'[p] = Charges[p]
    <3>1. p \in Reqs /\ p # q /\ agReqs[p] # NoRow
      BY <1>0, <1>1 DEF AgwIInv, GrantedOnce
    <3>2. agReqs'[p] = PurgedRequests[p] /\ SameCharge(agReqs[p], PurgedRequests[p])
          /\ SameStatus(agReqs[p], PurgedRequests[p])
      BY <1>3, <2>4, <3>1
    <3> QED
      BY <3>1, <3>2 DEF Charges, Charged, SameCharge, SameStatus
  <2>8. Charges'[q] = f.output + 1 /\ f.output + 1 \in Nat
    BY <1>2, <2>2, <2>3, <2>4 DEF Charges, Charged
  <2>9. LedgerKept'
    <3> SUFFICES ASSUME NEW d \in Days
                 PROVE  /\ IsFiniteSet(UnitsOf(granted_at'[d], Charges'))
                        /\ quota'[d].tokens = Cardinality(UnitsOf(granted_at'[d], Charges'))
      BY DEF LedgerKept
    <3> DEFINE G == granted_at[d]
    <3>1. IsFiniteSet(UnitsOf(G, Charges)) /\ quota[d].tokens = Cardinality(UnitsOf(G, Charges))
      BY DEF LedgerKept
    <3>2. \A x \in G : Charges[x] = Charges'[x]
      BY <2>7
    <3>3. q \notin G
      BY <1>1
    <3> HIDE DEF G
    <3> DEFINE c == Charges'
    <3>4. UnitsOf(G, Charges) = UnitsOf(G, c)
      BY <3>2, UnitsOfSame
    <3>5. c[q] = f.output + 1 /\ c[q] \in Nat
      BY <2>8
    <3> HIDE DEF c
    <3>6. CASE d # f.day
      BY <2>5, <2>6, <3>1, <3>4, <3>6 DEF G, c
    <3>7. CASE d = f.day
      <4>1. IsFiniteSet(UnitsOf(G, c))
        BY <3>1, <3>4
      <4>2. /\ IsFiniteSet(UnitsOf(G \cup {q}, c))
            /\ Cardinality(UnitsOf(G \cup {q}, c)) = Cardinality(UnitsOf(G, c)) + c[q]
        BY <3>3, <3>5, <4>1, UnitsOfAdd
      <4>3. quota[d].tokens \in Int
        BY <1>0
      <4>4. granted_at'[d] = G \cup {q}
        BY <2>5, <3>7 DEF G
      <4>5. quota'[d].tokens = quota[d].tokens + (f.output + 1)
        BY <1>2, <2>6, <3>7, <4>3
      <4> QED
        BY <3>1, <3>4, <3>5, <4>2, <4>4, <4>5 DEF c
    <3> QED
      BY <3>6, <3>7
  <2>10. SettledOnce'
    <3> SUFFICES ASSUME NEW p \in Reqs, NEW n \in 1 .. 2, posts[p][n].step = "read"
                 PROVE  agReqs'[p].status \in {"pending", "abandoned"}
      BY <1>1 DEF SettledOnce
    <3>1. agReqs[p] # NoRow /\ p # q
      BY <1>1 DEF AgwIInv, ReportsMatch, NoPost
    <3> QED
      BY <1>3, <2>4, <3>1 DEF SettledOnce, SameStatus
  <2> QED
    BY <2>9, <2>10
<1> QED
  BY <1>4, <1>5

LEMMA LedgerSettles ==
  ASSUME LedgerIInv, AgwIInv', NEW q \in Reqs, NEW n \in 1 .. 2, IngestCommit(q, n)
  PROVE  LedgerIInv'
<1> USE DEF LedgerIInv
<1> DEFINE p == posts[q][n]
           used == flow[q].used
           day == agReqs[q].day
           kept == p.reserved
<1>0. /\ flow \in [Reqs -> Flows]
      /\ quota \in [Days -> [requests : Nat, tokens : Int]]
      /\ granted_at \in [Days -> SUBSET Reqs]
      /\ posts \in [Reqs -> [1 .. 2 -> Posts]]
      /\ agReqs \in [Reqs -> GatewayRows \cup {NoRow}]
  BY DEF AgwIInv, GatewayTypes
<1>1. /\ p.step = "read"
      /\ UNCHANGED <<flow, granted_at>>
      /\ quota' = [quota EXCEPT ![day].tokens = @ + used - kept]
      /\ posts' = [posts EXCEPT ![q][n] = [step |-> "ended"]]
      /\ agReqs' = [agReqs EXCEPT ![q].status = IF p.mode = "off" THEN "deleted" ELSE "closed",
                                  ![q].used = used,
                                  ![q].content = p.mode = "full" /\ flow[q].full]
  BY DEF IngestCommit
<1>2. /\ flow[q].step = "reporting"
      /\ agReqs[q] # NoRow
      /\ kept = agReqs[q].reserved
      /\ agReqs[q].status \in {"pending", "abandoned"}
  <2>1. p # NoPost
    BY <1>1 DEF NoPost
  <2>2. flow[q].step = "reporting" /\ p.reserved = agReqs[q].reserved
    BY <1>1, <2>1 DEF AgwIInv, ReportsMatch
  <2> QED
    BY <1>1, <2>2 DEF AgwIInv, ReportsMatch, SettledOnce
<1>3. /\ used \in Nat
      /\ agReqs[q] \in GatewayRows
      /\ day \in Days
      /\ kept \in Nat
      /\ q \in granted_at[day]
  <2>1. used \in Nat
    BY <1>0, <1>2 DEF Flows, Waiting
  <2>2. agReqs[q] \in GatewayRows
    BY <1>0, <1>2
  <2>3. day \in Days /\ kept \in Nat
    BY <1>2, <2>2 DEF GatewayRows
  <2>4. q \in granted_at[day]
    BY <1>2, <2>3 DEF AgwIInv, GrantedOnce
  <2> QED
    BY <2>1, <2>2, <2>3, <2>4
<1> HIDE DEF used, day, kept
<1>5. /\ agReqs'[q].used = used
      /\ agReqs'[q].status \in {"closed", "deleted"}
      /\ \A r \in Reqs : r # q => agReqs'[r] = agReqs[r]
  <2> DEFINE st == IF p.mode = "off" THEN "deleted" ELSE "closed"
             full == p.mode = "full" /\ flow[q].full
             a1 == [agReqs[q] EXCEPT !.status = st]
             a2 == [a1 EXCEPT !.used = used]
             a3 == [a2 EXCEPT !.content = full]
  <2>1. st \in {"closed", "deleted"}
    OBVIOUS
  <2>3. agReqs' = [agReqs EXCEPT ![q] = a3]
    BY <1>0, <1>1
  <2> HIDE DEF st, full
  <2>4. a3.status = st /\ a3.used = used
    BY <1>3 DEF GatewayRows
  <2> HIDE DEF a3
  <2> QED
    BY <1>0, <2>1, <2>3, <2>4
<1>6. /\ quota'[day].tokens = quota[day].tokens + used - kept
      /\ \A d \in Days : d # day => quota'[d] = quota[d]
  BY <1>0, <1>1, <1>3
<1>7. /\ \A r \in Reqs : r # q => posts'[r] = posts[r]
      /\ posts'[q][n].step = "ended"
      /\ \A m \in 1 .. 2 : m # n => posts'[q][m] = posts[q][m]
  <2> DEFINE e == [step |-> "ended"]
             row == [posts[q] EXCEPT ![n] = e]
  <2>1. posts' = [posts EXCEPT ![q] = row]
    BY <1>0, <1>1
  <2>2. row[n] = e /\ e.step = "ended" /\ \A m \in 1 .. 2 : m # n => row[m] = posts[q][m]
    BY <1>0
  <2> HIDE DEF e, row
  <2> QED
    BY <1>0, <2>1, <2>2
<1>8. SettledOnce'
  <2> SUFFICES ASSUME NEW r \in Reqs
               PROVE  /\ posts'[r][2] # NoPost => posts'[r][1].step \in {"lost", "ended"}
                      /\ \A m \in 1 .. 2 : posts'[r][m].step = "read"
                                             => agReqs'[r].status \in {"pending", "abandoned"}
    BY DEF SettledOnce
  <2>1. CASE r # q
    BY <1>5, <1>7, <2>1 DEF SettledOnce
  <2>2. CASE r = q
    <3>1. CASE n = 1
      <4>1. posts[q][2] = NoPost
        BY <1>1, <3>1 DEF SettledOnce
      <4>2. posts'[q][2] = NoPost
        BY <1>7, <3>1, <4>1
      <4> QED
        BY <1>7, <2>2, <3>1, <4>2 DEF NoPost
    <3>2. CASE n = 2
      <4>1. posts[q][1].step \in {"lost", "ended"}
        BY <1>1, <3>2 DEF SettledOnce, NoPost
      <4>2. posts'[q][1] = posts[q][1]
        BY <1>7, <3>2
      <4> QED
        BY <1>7, <2>2, <3>2, <4>1, <4>2
    <3> QED
      BY <3>1, <3>2
  <2> QED
    BY <2>1, <2>2
<1>9. LedgerKept'
  <2> SUFFICES ASSUME NEW d \in Days
               PROVE  /\ IsFiniteSet(UnitsOf(granted_at[d], Charges'))
                      /\ quota'[d].tokens = Cardinality(UnitsOf(granted_at[d], Charges'))
    BY <1>1 DEF LedgerKept
  <2> DEFINE G == granted_at[d]
             R == G \ {q}
             b == Charges
             c == Charges'
  <2>1. IsFiniteSet(UnitsOf(G, b)) /\ quota[d].tokens = Cardinality(UnitsOf(G, b))
    BY DEF LedgerKept
  <2>2. G \subseteq Reqs /\ quota[d].tokens \in Int
    BY <1>0
  <2>3. b[q] = kept /\ c[q] = used
    BY <1>2, <1>5 DEF Charges, Charged
  <2>4. \A x \in Reqs : x # q => b[x] = c[x]
    BY <1>5 DEF Charges, Charged
  <2> HIDE DEF b, c
  <2>5. CASE d # day
    <3>1. q \notin G
      BY <1>2, <2>5 DEF AgwIInv, GrantedOnce, day
    <3>2. \A x \in G : b[x] = c[x]
      BY <2>2, <2>4, <3>1
    <3> HIDE DEF G
    <3>3. UnitsOf(G, b) = UnitsOf(G, c)
      BY <3>2, UnitsOfSame
    <3> QED
      BY <1>6, <2>1, <2>5, <3>3 DEF G, c
  <2>6. CASE d = day
    <3>1. q \in G /\ R \cup {q} = G /\ q \notin R
      BY <1>3, <2>6
    <3>2. \A x \in R : b[x] = c[x]
      BY <2>2, <2>4
    <3> HIDE DEF G
    <3>3. b[q] \in Nat /\ c[q] \in Nat
      BY <1>3, <2>3
    <3>4. /\ IsFiniteSet(UnitsOf(R, b))
          /\ Cardinality(UnitsOf(G, b)) = Cardinality(UnitsOf(R, b)) + b[q]
      BY <2>1, <3>1, <3>3, UnitsOfRemove
    <3> HIDE DEF R
    <3>5. UnitsOf(R, b) = UnitsOf(R, c)
      BY <3>2, UnitsOfSame
    <3>6. /\ IsFiniteSet(UnitsOf(R \cup {q}, c))
          /\ Cardinality(UnitsOf(R \cup {q}, c)) = Cardinality(UnitsOf(R, c)) + c[q]
      BY <3>1, <3>3, <3>4, <3>5, UnitsOfAdd
    <3>7. Cardinality(UnitsOf(R, c)) \in Nat
      BY <3>4, <3>5, FS_CardinalityType
    <3>8. quota'[d].tokens = Cardinality(UnitsOf(G, c))
      <4> DEFINE rest == Cardinality(UnitsOf(R, c))
      <4>1. Cardinality(UnitsOf(G, c)) = rest + used
        BY <2>3, <3>1, <3>6
      <4>2. quota[d].tokens = rest + kept
        BY <2>1, <2>3, <3>4, <3>5
      <4>3. quota'[d].tokens = quota[d].tokens + used - kept
        BY <1>6, <2>6
      <4> HIDE DEF rest
      <4>4. rest \in Nat
        BY <3>7 DEF rest
      <4> QED
        BY <1>3, <4>1, <4>2, <4>3, <4>4
    <3>9. IsFiniteSet(UnitsOf(G, c))
      BY <3>1, <3>6
    <3> QED
      BY <3>8, <3>9 DEF G, c
  <2> QED
    BY <2>5, <2>6
<1> QED
  BY <1>8, <1>9

LEMMA LedgerConsole ==
  ASSUME LedgerIInv, AgwIInv',
         \/ \E r \in BOOLEAN, mode \in Modes : PutKey(r, mode)
         \/ \E set \in SUBSET Residencies : PutProviders(set)
         \/ \E o, g \in BOOLEAN : PutAgwSettings(o, g)
         \/ AgwTick
  PROVE  LedgerIInv'
<1> USE DEF LedgerIInv
<1>1. UNCHANGED <<quota, granted_at, posts>>
  BY DEF PutKey, PutProviders, PutAgwSettings, AgwTick
<1>2. ASSUME NEW q \in Reqs
      PROVE  SameCharge(agReqs[q], agReqs'[q]) /\ SameStatus(agReqs[q], agReqs'[q])
  <2>0. agReqs[q] \in GatewayRows \cup {NoRow} /\ agReqs'[q] \in GatewayRows \cup {NoRow}
    BY DEF AgwIInv, GatewayTypes
  <2>1. CASE agReqs'[q] = agReqs[q]
    BY <2>1 DEF SameCharge, SameStatus
  <2>2. CASE agReqs'[q] # agReqs[q]
    <3>1. agReqs[q] # NoRow /\ agReqs'[q] = [agReqs[q] EXCEPT !.content = FALSE]
      BY <2>2 DEF PutKey, PutProviders, PutAgwSettings, AgwTick
    <3>2. agReqs[q] \in GatewayRows
      BY <2>0, <3>1
    <3>3. /\ agReqs'[q] \in GatewayRows
          /\ agReqs'[q].day = agReqs[q].day
          /\ agReqs'[q].used = agReqs[q].used
          /\ agReqs'[q].reserved = agReqs[q].reserved
          /\ agReqs'[q].status = agReqs[q].status
      BY <3>1, <3>2 DEF GatewayRows
    <3>4. agReqs'[q] # NoRow
      BY <3>3 DEF GatewayRows, NoRow
    <3> QED
      BY <3>1, <3>3, <3>4 DEF SameCharge, SameStatus
  <2> QED
    BY <2>1, <2>2
<1>3. LedgerKept'
  BY <1>1, <1>2, LedgerStays
<1>4. SettledOnce'
  <2> SUFFICES ASSUME NEW p \in Reqs, NEW n \in 1 .. 2, posts[p][n].step = "read"
               PROVE  agReqs'[p].status \in {"pending", "abandoned"}
    BY <1>1 DEF SettledOnce
  <2>1. agReqs[p] # NoRow
    BY DEF AgwIInv, ReportsMatch, NoPost
  <2> QED
    BY <1>2, <2>1 DEF SettledOnce, SameStatus
<1> QED
  BY <1>3, <1>4

(* When the coordinator answers before the gateway gives up on it, a day's *)
(* counter is exactly what its requests cost, each counted once, for any   *)
(* number of requests, losses, retries and console changes; without it two *)
(* reports of one request may both settle it.                              *)
THEOREM GatewayAlwaysHolds ==
  ASSUME AnswersInTime
  PROVE  AgwSpec => []GatewayInv
<1>1. LedgerIInv /\ [AgwNext]_agwVars => LedgerIInv'
  <2> SUFFICES ASSUME LedgerIInv, [AgwNext]_agwVars PROVE LedgerIInv'
    OBVIOUS
  <2>0. AgwIInv'
    BY QuotaStep DEF LedgerIInv
  <2>1. CASE UNCHANGED agwVars
    BY <2>0, <2>1 DEF agwVars, LedgerIInv, SettledOnce, LedgerKept, Charges, Charged
  <2>2. CASE AgwNext
    BY <2>0, <2>2, LedgerReads, LedgerGrants, LedgerSettles, LedgerConsole DEF AgwNext
  <2> QED
    BY <2>1, <2>2
<1>2. LedgerIInv => GatewayInv
  BY LedgerIsUnits DEF LedgerIInv, AgwIInv, GatewayInv
<1> QED
  BY LedgerInitially, <1>1, <1>2, PTL DEF AgwSpec

-----------------------------------------------------------------------------
(* The schema.                                                             *)
SchemaTypes ==
  /\ backend \in {"sqlite", "postgres"} /\ userVersion \in 0..Latest
  /\ job \in [MigrateJobs -> [release : 0..Latest, applied : 0..Latest]]
  /\ replica \in [ServeReplicas -> 0..Latest]

(* SQLite: the number is that of the statements, and the one job at work   *)
(* read it or wrote it.  PostgreSQL: the rows are those of the statements  *)
(* and no transaction is open between steps.                               *)
VersionRecorded ==
  IF backend = "sqlite"
  THEN /\ recorded = {} /\ statements = 1..userVersion
       /\ \A j, k \in MigrateJobs :
            job[j] # NoJobNow => job[j].applied = userVersion /\ (k = j \/ job[k] = NoJobNow)
  ELSE /\ userVersion = 0 /\ \E n \in 0..Latest : recorded = 1..n /\ statements = 1..n
       /\ \A j \in MigrateJobs : job[j] = NoJobNow

SchemaIInv ==
  /\ SchemaTypes /\ VersionRecorded
  /\ \A r \in ServeReplicas : replica[r] <= SchemaVersion
  /\ SchemaVersion # 0 => dnsName = Normalised

(* A version the database is at has the statements up to it, and rows are  *)
(* contiguous.                                                             *)
LEMMA VersionOf ==
  ASSUME SchemaTypes, VersionRecorded
  PROVE  SchemaVersion \in 0..Latest /\ statements = 1..SchemaVersion
<1> USE SchemaAssumption
<1>1. CASE backend = "sqlite"
  BY <1>1 DEF SchemaTypes, VersionRecorded, SchemaVersion
<1>2. CASE backend # "sqlite"
  <2>1. PICK n \in 0..Latest : recorded = 1..n /\ statements = 1..n
    BY <1>2 DEF VersionRecorded
  <2>2. Cardinality(1..n) = n
    BY <2>1, FS_Interval
  <2> QED
    BY <1>2, <2>1, <2>2 DEF SchemaVersion
<1> QED
  BY <1>1, <1>2

(* normalise_dns_names() gives no name twice: of two nodes with one base   *)
(* name the later one carries its own number.                              *)
LEMMA NamesApart == \A m, n \in OldNode : m # n => Normalised[m] # Normalised[n]
<1> USE SchemaAssumption
<1>1. ASSUME NEW m \in OldNode, NEW n \in OldNode, m < n PROVE Normalised[m] # Normalised[n]
  <2>1. m \in Nat \ {0} /\ n \in Nat \ {0} /\ m \in 1..(n - 1)
    BY <1>1 DEF OldNode
  <2>2. CASE OldNodes[m] = OldNodes[n]
    <3>1. Normalised[n] = <<OldNodes[n], n>>
      BY <2>1, <2>2 DEF Normalised
    <3>2. Normalised[m] = <<OldNodes[m], 0>> \/ Normalised[m] = <<OldNodes[m], m>>
      BY DEF Normalised
    <3> QED
      BY <1>1, <2>1, <3>1, <3>2
  <2>3. CASE OldNodes[m] # OldNodes[n]
    BY <2>3 DEF Normalised
  <2> QED
    BY <2>2, <2>3
<1>2. \A m, n \in OldNode : m \in Nat /\ n \in Nat
  BY DEF OldNode
<1> QED
  BY <1>1, <1>2

LEMMA SchemaInitial == SchemaInit => SchemaIInv
<1> SUFFICES ASSUME SchemaInit PROVE SchemaIInv
  OBVIOUS
<1> USE SchemaAssumption
<1>1. PICK v \in 0..Latest :
        /\ userVersion = (IF backend = "sqlite" THEN v ELSE 0)
        /\ recorded = (IF backend = "sqlite" THEN {} ELSE 1..v)
        /\ statements = 1..v
        /\ dnsName = (IF v = 0 THEN [n \in OldNode |-> <<"", 0>>] ELSE Normalised)
  BY DEF SchemaInit
<1>2. /\ backend \in {"sqlite", "postgres"} /\ \A j \in MigrateJobs : job[j] = NoJobNow
      /\ job \in [MigrateJobs -> [release : 0..Latest, applied : 0..Latest]]
      /\ replica \in [ServeReplicas -> 0..Latest] /\ \A r \in ServeReplicas : replica[r] = 0
  <2>1. /\ backend \in {"sqlite", "postgres"} /\ job = [j \in MigrateJobs |-> NoJobNow]
        /\ replica = [r \in ServeReplicas |-> 0]
    BY DEF SchemaInit
  <2>2. NoJobNow \in [release : 0..Latest, applied : 0..Latest]
    BY DEF NoJobNow
  <2> QED
    BY <2>1, <2>2
<1>3. SchemaTypes
  <2>1. userVersion \in 0..Latest
    <3>1. userVersion = v \/ userVersion = 0
      BY <1>1, Zenon
    <3> QED
      BY <3>1
  <2> QED
    BY <1>2, <2>1 DEF SchemaTypes
<1>4. VersionRecorded
  BY <1>1, <1>2 DEF VersionRecorded
<1>5. SchemaVersion = v
  <2>1. Cardinality(1..v) = v
    BY FS_Interval
  <2> QED
    BY <1>1, <1>2, <2>1 DEF SchemaVersion
<1>6. SchemaVersion # 0 => dnsName = Normalised
  BY <1>1, <1>5
<1>7. \A r \in ServeReplicas : replica[r] <= SchemaVersion
  BY <1>2, <1>5
<1> QED
  BY <1>3, <1>4, <1>6, <1>7 DEF SchemaIInv

LEMMA SchemaStep ==
  ASSUME MaxSqliteJobs <= 1, SchemaIInv, [SchemaNext]_schemaVars
  PROVE  SchemaIInv'
<1> USE SchemaAssumption
<1>0. SchemaTypes /\ VersionRecorded /\ SchemaVersion \in 0..Latest /\ statements = 1..SchemaVersion
  BY VersionOf DEF SchemaIInv
<1>1. CASE UNCHANGED schemaVars
  BY <1>1 DEF schemaVars, SchemaIInv, SchemaTypes, VersionRecorded, SchemaVersion
<1>2. ASSUME NEW j \in MigrateJobs, NEW release \in Releases, SqliteBegin(j, release)
      PROVE  SchemaIInv'
  <2> DEFINE busy == {k \in MigrateJobs : job[k] # NoJobNow}
  <2>1. /\ backend = "sqlite" /\ Cardinality(busy) < MaxSqliteJobs
        /\ UNCHANGED <<backend, userVersion, recorded, statements, dnsName, replica>>
        /\ job' = [job EXCEPT ![j] = [release |-> release, applied |-> userVersion]]
    BY <1>2 DEF SqliteBegin
  <2>2. busy = {}
    <3>1. busy \in SUBSET MigrateJobs
      OBVIOUS
    <3> HIDE DEF busy
    <3>2. IsFiniteSet(busy) /\ Cardinality(busy) \in Nat
      BY <3>1, FS_Subset, FS_CardinalityType
    <3>3. Cardinality(busy) = 0
      BY <2>1, <3>2
    <3> QED
      BY <3>2, <3>3, FS_EmptySet
  <2>3. SchemaTypes'
    BY <1>0, <2>1 DEF SchemaTypes, Releases
  <2>4. VersionRecorded'
    <3> DEFINE row == [release |-> release, applied |-> userVersion]
    <3>1. row.applied = userVersion /\ job' = [job EXCEPT ![j] = row]
      BY <2>1
    <3> HIDE DEF row
    <3>2. job'[j] = row /\ \A k \in MigrateJobs : k # j => job'[k] = NoJobNow
      BY <1>0, <2>2, <3>1 DEF SchemaTypes
    <3> QED
      BY <1>0, <2>1, <3>1, <3>2 DEF VersionRecorded
  <2> QED
    BY <2>1, <2>3, <2>4 DEF SchemaIInv, SchemaVersion
<1>3. ASSUME NEW j \in MigrateJobs, SqliteVersion(j) PROVE SchemaIInv'
  <2> DEFINE v == userVersion + 1
  <2>1. job[j] # NoJobNow /\ job[j].release > job[j].applied
    BY <1>3 DEF SqliteVersion, NoJobNow
  <2>2. backend = "sqlite" /\ job[j].applied = userVersion /\ statements = 1..userVersion
    BY <1>0, <2>1 DEF VersionRecorded
  <2>3. v \in 1..Latest
    BY <1>0, <2>1, <2>2 DEF SchemaTypes
  <2>4. /\ userVersion' = v /\ statements' = statements \cup {v}
        /\ dnsName' = (IF v = 1 THEN Normalised ELSE dnsName)
        /\ job' = [job EXCEPT ![j].applied = v]
        /\ UNCHANGED <<backend, recorded, replica, jobsRun>>
    BY <1>3, <2>2 DEF SqliteVersion
  <2>5. SchemaTypes'
    <3>1. [job[j] EXCEPT !.applied = v] \in [release : 0..Latest, applied : 0..Latest]
      BY <1>0, <2>3 DEF SchemaTypes
    <3> HIDE DEF v
    <3> QED
      BY <1>0, <2>3, <2>4, <3>1 DEF SchemaTypes
  <2>6. statements' = 1..v
    BY <1>0, <2>2, <2>3, <2>4 DEF SchemaTypes
  <2>7. VersionRecorded'
    <3>1. job'[j].applied = v /\ \A k \in MigrateJobs : k # j => job'[k] = job[k]
      BY <1>0, <2>4 DEF SchemaTypes
    <3>2. \A k \in MigrateJobs : k # j => job[k] = NoJobNow
      BY <1>0, <2>1, <2>2 DEF VersionRecorded
    <3> QED
      BY <1>0, <2>2, <2>4, <2>6, <3>1, <3>2 DEF VersionRecorded
  <2>8. SchemaVersion = userVersion /\ SchemaVersion' = v
    BY <2>2, <2>4 DEF SchemaVersion
  <2>9. \A r \in ServeReplicas : replica'[r] <= SchemaVersion'
    <3>1. \A r \in ServeReplicas : replica[r] \in Nat /\ replica[r] <= userVersion
      BY <1>0, <2>8 DEF SchemaTypes, SchemaIInv
    <3> QED
      BY <1>0, <2>4, <2>8, <3>1 DEF SchemaTypes
  <2>10. dnsName' = Normalised
    BY <1>0, <2>4, <2>8 DEF SchemaIInv, SchemaTypes
  <2> QED
    BY <2>5, <2>7, <2>9, <2>10 DEF SchemaIInv, Normalised
<1>4. ASSUME NEW j \in MigrateJobs, SqliteEnd(j) PROVE SchemaIInv'
  <2>1. /\ job' = [job EXCEPT ![j] = NoJobNow]
        /\ UNCHANGED <<backend, userVersion, recorded, statements, dnsName, replica>>
    BY <1>4 DEF SqliteEnd
  <2>2. NoJobNow \in [release : 0..Latest, applied : 0..Latest]
    BY DEF NoJobNow
  <2>3. job'[j] = NoJobNow /\ \A k \in MigrateJobs : k # j => job'[k] = job[k]
    BY <1>0, <2>1 DEF SchemaTypes
  <2>4. SchemaTypes'
    BY <1>0, <2>1, <2>2 DEF SchemaTypes
  <2>5. VersionRecorded'
    BY <1>0, <2>1, <2>3 DEF VersionRecorded
  <2> QED
    BY <2>1, <2>4, <2>5 DEF SchemaIInv, SchemaVersion
<1>5. ASSUME NEW j \in MigrateJobs, NEW release \in Releases, PostgresMigrate(j, release)
      PROVE  SchemaIInv'
  <2> DEFINE missing == Plan(SchemaVersion, release)
  <2>1. /\ backend = "postgres" /\ SchemaVersion <= release
        /\ statements' = statements \cup missing /\ recorded' = recorded \cup missing
        /\ dnsName' = (IF 1 \in missing THEN Normalised ELSE dnsName)
        /\ UNCHANGED <<backend, userVersion, job, replica>>
    BY <1>5 DEF PostgresMigrate, Starts
  <2>2. recorded = statements
    BY <1>0, <2>1 DEF VersionRecorded
  <2>3. 1..SchemaVersion \cup missing = 1..release /\ release \in 0..Latest /\ release # 0
    BY <1>0, <2>1 DEF Plan, Releases
  <2>4. recorded' = 1..release /\ statements' = 1..release
    BY <1>0, <2>1, <2>2, <2>3
  <2>5. SchemaTypes' /\ VersionRecorded'
    <3>1. SchemaTypes'
      BY <1>0, <2>1 DEF SchemaTypes
    <3>2. userVersion = 0 /\ \A i \in MigrateJobs : job[i] = NoJobNow
      BY <1>0, <2>1 DEF VersionRecorded
    <3> QED
      BY <2>1, <2>3, <2>4, <3>1, <3>2 DEF VersionRecorded
  <2>6. SchemaVersion' = release
    <3>1. Cardinality(1..release) = release
      BY <2>3, FS_Interval
    <3> QED
      BY <2>1, <2>4, <3>1 DEF SchemaVersion
  <2>7. \A r \in ServeReplicas : replica'[r] <= SchemaVersion'
    <3>1. \A r \in ServeReplicas : replica[r] \in Nat /\ replica[r] <= SchemaVersion
      BY <1>0 DEF SchemaTypes, SchemaIInv
    <3> QED
      BY <1>0, <2>1, <2>3, <2>6, <3>1
  <2>8. dnsName' = Normalised
    <3>1. CASE SchemaVersion = 0
      BY <2>1, <2>3, <3>1 DEF Plan
    <3>2. CASE SchemaVersion # 0
      BY <2>1, <3>2 DEF SchemaIInv
    <3> QED
      BY <3>1, <3>2
  <2> QED
    BY <2>5, <2>7, <2>8 DEF SchemaIInv, Normalised
<1>6. ASSUME NEW r \in ServeReplicas, NEW release \in Releases, OpenExisting(r, release)
      PROVE  SchemaIInv'
  <2>1. /\ SchemaVersion = release /\ replica' = [replica EXCEPT ![r] = release]
        /\ UNCHANGED <<backend, userVersion, recorded, statements, dnsName, job, jobsRun>>
    BY <1>6 DEF OpenExisting, ValidSchema
  <2>2. SchemaTypes' /\ VersionRecorded'
    BY <1>0, <2>1 DEF SchemaTypes, VersionRecorded
  <2>3. SchemaVersion' = SchemaVersion
    BY <2>1 DEF SchemaVersion
  <2>4. \A s \in ServeReplicas : replica'[s] <= SchemaVersion'
    BY <1>0, <2>1, <2>3 DEF SchemaTypes, SchemaIInv
  <2> QED
    BY <2>1, <2>2, <2>3, <2>4 DEF SchemaIInv, Normalised
<1>7. ASSUME NEW r \in ServeReplicas, StopReplica(r) PROVE SchemaIInv'
  <2>1. /\ replica' = [replica EXCEPT ![r] = 0]
        /\ UNCHANGED <<backend, userVersion, recorded, statements, dnsName, job, jobsRun>>
    BY <1>7 DEF StopReplica
  <2>2. SchemaTypes' /\ VersionRecorded'
    BY <1>0, <2>1 DEF SchemaTypes, VersionRecorded
  <2>3. SchemaVersion' = SchemaVersion
    BY <2>1 DEF SchemaVersion
  <2>4. \A s \in ServeReplicas : replica'[s] <= SchemaVersion'
    BY <1>0, <2>1, <2>3 DEF SchemaTypes, SchemaIInv
  <2> QED
    BY <2>1, <2>2, <2>3, <2>4 DEF SchemaIInv, Normalised
<1> QED
  BY <1>1, <1>2, <1>3, <1>4, <1>5, <1>6, <1>7 DEF SchemaNext

(* A database is always at a complete version, and a replica that serves   *)
(* finds its release's tables and distinct names, whichever job is killed  *)
(* where; on SQLite, whose version is read outside the transaction, when   *)
(* one job at a time migrates the file.                                    *)
THEOREM SchemaAlwaysComplete ==
  ASSUME MaxSqliteJobs <= 1 PROVE SchemaSpec => []SchemaInv
<1>1. SchemaIInv => SchemaInv
  <2> SUFFICES ASSUME SchemaIInv PROVE SchemaInv
    OBVIOUS
  <2>1. SchemaVersion \in 0..Latest /\ statements = 1..SchemaVersion
    BY VersionOf DEF SchemaIInv
  <2>2. ASSUME NEW r \in ServeReplicas, replica[r] # 0
        PROVE  1..replica[r] \subseteq statements /\ dnsName = Normalised
    BY SchemaAssumption, <2>1, <2>2 DEF SchemaIInv, SchemaTypes
  <2> QED
    BY <2>1, <2>2, NamesApart DEF SchemaInv, LastCompleteVersion, ServedSchemaIsThere
<1>2. SchemaIInv /\ [SchemaNext]_schemaVars => SchemaIInv'
  BY SchemaStep
<1> QED
  BY SchemaInitial, <1>1, <1>2, PTL DEF SchemaSpec

-----------------------------------------------------------------------------
(* The address pool: unique addresses for any number of requests, devices, *)
(* addresses, pools, reservations and renumber plans.                      *)

(* A lease is held by a node that has enrolled.                            *)
LeasedByRows == \A a \in Addrs : lease[a] \in Nodes => state[lease[a]] # "none"

(* In the dual-address window a moved device has its old and new addresses.*)
WindowHasBoth ==
  staged => \A n \in moved : /\ state[n] # "none"
                             /\ HasRow(n) => addrs[n] = old[n] \cup new[n]

(* What an enrolment may still take is named by no row.                    *)
OpenIsUnnamed ==
  \A r \in AddressRequests : pc[r] = "enrol" =>
    \A a \in open[r] : lease[a] = Free => \A m \in Nodes : a \notin addrs[m]

AddressInv ==
  TypeOK /\ LeasesMatchRows /\ LeasedByRows /\ WindowHasBoth /\ OpenIsUnnamed

-----------------------------------------------------------------------------
(* stamp_releases() moves leases of devices that are gone and no other.    *)
LEMMA StampedEffect ==
  ASSUME TypeOK
  PROVE  /\ Stamped \in [Addrs -> Nodes \cup {Free, Grace}]
         /\ \A a \in Addrs : \A n \in Nodes :
              /\ Stamped[a] = n => lease[a] = n
              /\ Active(n) /\ lease[a] = n => Stamped[a] = n
         /\ \A a \in Addrs : Stamped[a] = Free <=> lease[a] = Free
BY LeaseAssumption DEF TypeOK, Stamped

LEMMA InitInv == Init => AddressInv
<1> SUFFICES ASSUME Init PROVE AddressInv
  OBVIOUS
<1>1. TypeOK
  BY PoolAssumption DEF Init, TypeOK, NodeStates, Steps
<1>2. LeasesMatchRows /\ LeasedByRows
  BY LeaseAssumption DEF Init, LeasesMatchRows, LeasedByRows, Active
<1>3. WindowHasBoth /\ OpenIsUnnamed
  BY DEF Init, WindowHasBoth, OpenIsUnnamed
<1> QED BY <1>1, <1>2, <1>3 DEF AddressInv

(* A request begins: only leases of devices that are gone change.          *)
LEMMA BeginInv ==
  ASSUME AddressInv, NEW r \in AddressRequests, NEW step \in Steps,
         NEW d \in SUBSET Attrs, NEW choice \in SUBSET Addrs,
         Goto(r, step, d, choice), lease' = Stamped \/ lease' = lease,
         step = "enrol" => choice \cap Blocked = {},
         UNCHANGED <<nodeVars, reservationVars, pool, planVars>>
  PROVE  AddressInv'
<1> USE DEF AddressInv, nodeVars, reservationVars, planVars
<1>0. /\ lease' \in [Addrs -> Nodes \cup {Free, Grace}]
      /\ \A a \in Addrs : \A n \in Nodes :
           /\ lease'[a] = n => lease[a] = n
           /\ Active(n) /\ lease[a] = n => lease'[a] = n
      /\ \A a \in Addrs : lease'[a] = Free <=> lease[a] = Free
  BY StampedEffect DEF TypeOK
<1>1. TypeOK'
  BY <1>0 DEF TypeOK, Goto
<1>2. LeasesMatchRows'
  BY <1>0 DEF LeasesMatchRows, Active, TypeOK
<1>3. LeasedByRows'
  <2> SUFFICES ASSUME NEW a \in Addrs, lease'[a] \in Nodes
               PROVE  state[lease'[a]] # "none"
    BY DEF LeasedByRows
  <2>1. lease'[a] = lease[a]
    BY <1>0
  <2> QED BY <2>1 DEF LeasedByRows
<1>4. WindowHasBoth'
  BY DEF WindowHasBoth, HasRow
<1>5. OpenIsUnnamed'
  <2> SUFFICES ASSUME NEW q \in AddressRequests, pc'[q] = "enrol",
                      NEW a \in open'[q], lease'[a] = Free, NEW m \in Nodes
               PROVE  a \notin addrs[m]
    BY DEF OpenIsUnnamed
  <2>1. CASE q = r
    <3>1. step = "enrol" /\ open'[q] = choice
      BY <2>1 DEF Goto, TypeOK
    <3> QED BY <3>1 DEF Blocked
  <2>2. CASE q # r
    <3>1. pc[q] = "enrol" /\ open'[q] = open[q]
      BY <2>2 DEF Goto, TypeOK
    <3>2. lease[a] = Free
      BY <1>0, <3>1 DEF TypeOK
    <3> QED BY <3>1, <3>2 DEF OpenIsUnnamed
  <2> QED BY <2>1, <2>2
<1> QED BY <1>1, <1>2, <1>3, <1>4, <1>5

(* A device enrols with an address whose lease nobody holds.               *)
LEMMA InsertInv ==
  ASSUME AddressInv, NEW r \in AddressRequests, NEW n \in Nodes, NEW a \in Addrs,
         lease[a] \notin Nodes, InsertNode(r, n, a)
  PROVE  AddressInv'
<1> USE DEF AddressInv
<1>1. TypeOK'
  BY DEF TypeOK, InsertNode, Done, NodeStates, Steps, reservationVars, planVars
<1>2. LeasesMatchRows'
  <2> SUFFICES ASSUME NEW m \in Nodes, Active(m)'
               PROVE  addrs'[m] = {x \in Addrs : lease'[x] = m}
    BY DEF LeasesMatchRows
  <2>1. CASE m = n
    <3>1. \A x \in Addrs : lease[x] # n
      BY DEF LeasedByRows, InsertNode
    <3>2. addrs'[m] = {a} /\ \A x \in Addrs : lease'[x] = m <=> x = a
      BY <2>1, <3>1 DEF InsertNode, TypeOK
    <3> QED BY <3>2
  <2>2. CASE m # n
    <3>1. Active(m) /\ addrs'[m] = addrs[m]
      BY <2>2 DEF InsertNode, TypeOK, Active
    <3>2. \A x \in Addrs : lease'[x] = m <=> lease[x] = m
      BY <2>2 DEF InsertNode, TypeOK
    <3> QED BY <3>1, <3>2 DEF LeasesMatchRows
  <2> QED BY <2>1, <2>2
<1>3. LeasedByRows'
  BY DEF LeasedByRows, InsertNode, TypeOK
<1>4. WindowHasBoth'
  BY DEF WindowHasBoth, InsertNode, TypeOK, planVars, HasRow
<1>5. OpenIsUnnamed'
  <2> SUFFICES ASSUME NEW q \in AddressRequests, pc'[q] = "enrol",
                      NEW x \in open'[q], lease'[x] = Free, NEW m \in Nodes
               PROVE  x \notin addrs'[m]
    BY DEF OpenIsUnnamed
  <2>1. pc[q] = "enrol" /\ open'[q] = open[q]
    BY DEF InsertNode, Done, TypeOK
  <2>2. x \in Addrs /\ x # a /\ lease[x] = Free
    BY <2>1, LeaseAssumption DEF InsertNode, TypeOK
  <2>3. x \notin addrs[m]
    BY <2>1, <2>2 DEF OpenIsUnnamed
  <2> QED BY <2>2, <2>3 DEF InsertNode, TypeOK
<1> QED BY <1>1, <1>2, <1>3, <1>4, <1>5

(* A device is revoked, deleted or purged.                                 *)
LEMMA GoneInv ==
  ASSUME AddressInv, NEW n \in Nodes, Revoke(n) \/ TombstoneRow(n) \/ PurgeRow(n)
  PROVE  AddressInv'
<1> USE DEF AddressInv, Revoke, TombstoneRow, PurgeRow, reservationVars, planVars,
            requestVars
<1>1. TypeOK'
  BY DEF TypeOK, NodeStates, Active
<1>2. /\ state'[n] # "active" /\ state'[n] # "none"
      /\ \A m \in Nodes : m # n => state'[m] = state[m] /\ addrs'[m] = addrs[m]
      /\ addrs'[n] \subseteq addrs[n]
      /\ state'[n] # "purged" => state[n] # "purged" /\ addrs'[n] = addrs[n]
  BY DEF TypeOK, NodeStates, Active
<1>3. LeasesMatchRows'
  BY <1>2 DEF LeasesMatchRows, Active
<1>4. LeasedByRows'
  BY <1>2 DEF LeasedByRows
<1>5. WindowHasBoth'
  BY <1>2 DEF WindowHasBoth, HasRow, TypeOK
<1>6. OpenIsUnnamed'
  BY <1>2 DEF OpenIsUnnamed
<1> QED BY <1>1, <1>3, <1>4, <1>5, <1>6

LEMMA ElapseInv ==
  ASSUME AddressInv, NEW a \in Addrs, Elapse(a)
  PROVE  AddressInv'
<1> USE DEF AddressInv, Elapse, nodeVars, reservationVars, planVars,
            requestVars
<1>1. TypeOK'
  BY DEF TypeOK
<1>2. \A x \in Addrs : \A n \in Nodes : lease'[x] = n <=> lease[x] = n
  BY LeaseAssumption DEF TypeOK
<1>3. LeasesMatchRows' /\ WindowHasBoth'
  BY <1>2 DEF LeasesMatchRows, Active, WindowHasBoth, HasRow
<1>4. LeasedByRows'
  BY LeaseAssumption DEF LeasedByRows, TypeOK
<1>5. OpenIsUnnamed'
  BY DEF OpenIsUnnamed, TypeOK
<1> QED BY <1>1, <1>3, <1>4, <1>5

(* Reservations and refusals touch neither rows nor leases.                *)
LEMMA ReservationInv ==
  ASSUME AddressInv,
         \/ \E r \in AddressRequests : CommitReserve(r) \/ Abort(r)
         \/ \E a \in Addrs : Release(a)
  PROVE  AddressInv'
<1> USE DEF AddressInv, nodeVars, planVars, requestVars, reservationVars
<1>1. ASSUME NEW r \in AddressRequests, CommitReserve(r) \/ Abort(r) PROVE AddressInv'
  <2> USE DEF CommitReserve, Abort, Done
  <2>1. TypeOK'
    BY <1>1 DEF TypeOK, Steps
  <2>2. LeasesMatchRows' /\ LeasedByRows' /\ WindowHasBoth'
    BY <1>1 DEF LeasesMatchRows, LeasedByRows, WindowHasBoth, Active, HasRow
  <2>3. OpenIsUnnamed'
    BY <1>1 DEF OpenIsUnnamed, TypeOK
  <2> QED BY <2>1, <2>2, <2>3
<1>2. ASSUME NEW a \in Addrs, Release(a) PROVE AddressInv'
  BY <1>2 DEF Release, TypeOK, LeasesMatchRows, LeasedByRows, WindowHasBoth,
              OpenIsUnnamed, Active, HasRow
<1> QED BY <1>1, <1>2

(* A plan leases every new address to the device it moves there.           *)
LEMMA StageInv ==
  ASSUME AddressInv, NEW target \in SUBSET Addrs, NEW M \in SUBSET Nodes,
         NEW f \in [M -> target], \A n \in M : Active(n), Stage(target, M, f)
  PROVE  AddressInv'
<1> USE DEF AddressInv
<1>0. target \subseteq Addrs /\ \A n \in M : f[n] \in Addrs
  OBVIOUS
<1>1. \A n \in M : lease'[f[n]] = n
  <2> SUFFICES ASSUME NEW n \in M PROVE lease'[f[n]] = n
    OBVIOUS
  <2>1. lease'[f[n]] = CHOOSE m \in M : f[m] = f[n]
    BY <1>0 DEF Stage
  <2>2. \A m \in M : f[m] = f[n] => m = n
    BY DEF Stage
  <2> QED BY <2>1, <2>2
<1>2. \A a \in Addrs : (\A n \in M : f[n] # a) => lease'[a] = Stamped[a]
  BY DEF Stage
<1>3. \A n \in M : lease[f[n]] = Free
  BY <1>0, StampedEffect DEF Stage
<1>4. TypeOK'
  <2>1. lease' \in [Addrs -> Nodes \cup {Free, Grace}]
    <3>1. \A a \in Addrs : lease'[a] \in Nodes \cup {Free, Grace}
      BY <1>1, <1>2, StampedEffect
    <3>2. lease' = [a \in Addrs |-> lease'[a]]
      BY DEF Stage
    <3> QED BY <3>1, <3>2
  <2>2. /\ addrs' \in [Nodes -> SUBSET Addrs]
        /\ old' \in [Nodes -> SUBSET Addrs]
        /\ new' \in [Nodes -> SUBSET Addrs]
    BY <1>0 DEF Stage, TypeOK
  <2>3. \A n \in Nodes : state'[n] \in {"none", "purged"} => addrs'[n] = {}
    BY DEF Stage, TypeOK, Active
  <2>4. /\ pool' \in SUBSET Addrs
        /\ plan' \in Nat
        /\ staged' \in BOOLEAN
        /\ prev' \in SUBSET Addrs
        /\ moved' \in SUBSET Nodes
    BY <1>0 DEF Stage, TypeOK
  <2> QED
    BY <2>1, <2>2, <2>3, <2>4 DEF Stage, TypeOK, reservationVars, requestVars
<1>5. \A n \in Nodes : \A a \in Addrs : Active(n) =>
        (lease'[a] = n <=> lease[a] = n \/ (n \in M /\ a = f[n]))
  <2> SUFFICES ASSUME NEW n \in Nodes, NEW a \in Addrs, Active(n)
               PROVE  lease'[a] = n <=> lease[a] = n \/ (n \in M /\ a = f[n])
    OBVIOUS
  <2>1. CASE \E m \in M : f[m] = a
    BY <2>1, <1>1, <1>3, LeaseAssumption
  <2>2. CASE \A m \in M : f[m] # a
    BY <2>2, <1>2, StampedEffect
  <2> QED BY <2>1, <2>2
<1>6. LeasesMatchRows'
  <2> SUFFICES ASSUME NEW n \in Nodes, Active(n)
               PROVE  addrs'[n] = {a \in Addrs : lease'[a] = n}
    BY DEF LeasesMatchRows, Active, Stage
  <2>1. addrs[n] = {a \in Addrs : lease[a] = n}
    BY DEF LeasesMatchRows
  <2>2. addrs'[n] = IF n \in M THEN {f[n]} \cup addrs[n] ELSE addrs[n]
    BY DEF Stage
  <2> QED BY <1>0, <1>5, <2>1, <2>2
<1>7. LeasedByRows'
  <2> SUFFICES ASSUME NEW a \in Addrs, lease'[a] \in Nodes
               PROVE  state[lease'[a]] # "none"
    BY DEF LeasedByRows, Stage
  <2>1. CASE \E m \in M : f[m] = a
    BY <2>1, <1>1 DEF Active
  <2>2. CASE \A m \in M : f[m] # a
    BY <2>2, <1>2, StampedEffect DEF LeasedByRows
  <2> QED BY <2>1, <2>2
<1>8. WindowHasBoth'
  BY DEF WindowHasBoth, Stage, Active
<1>9. OpenIsUnnamed'
  <2> SUFFICES ASSUME NEW q \in AddressRequests, pc[q] = "enrol",
                      NEW a \in open[q], lease'[a] = Free, NEW m \in Nodes
               PROVE  a \notin addrs'[m]
    BY DEF OpenIsUnnamed, Stage, requestVars
  <2>0. a \in Addrs
    BY DEF TypeOK
  <2>1. \A n \in M : f[n] # a
    BY <1>1, LeaseAssumption
  <2>2. lease[a] = Free
    BY <2>0, <2>1, <1>2, StampedEffect
  <2>3. a \notin addrs[m]
    BY <2>2 DEF OpenIsUnnamed
  <2> QED BY <2>1, <2>3 DEF Stage
<1> QED BY <1>4, <1>6, <1>7, <1>8, <1>9

(* Completing or rolling back keeps one half of the window and releases    *)
(* exactly the leases of the other half.                                   *)
LEMMA FinishInv ==
  ASSUME AddressInv, NEW r \in AddressRequests, CommitFinish(r)
  PROVE  AddressInv'
<1> USE DEF AddressInv
<1> DEFINE K(n) == Keep(pc[r], n)
           D(n) == Dropped(pc[r], n)
<1>1. \A n \in Nodes : /\ K(n) \subseteq old[n] \cup new[n]
                       /\ D(n) = (old[n] \cup new[n]) \ K(n)
                       /\ K(n) \subseteq Addrs
  BY DEF Keep, Dropped, TypeOK
<1>2. \A a \in Addrs : \A n \in Nodes :
        lease'[a] = n <=> lease[a] = n /\ ~(n \in moved /\ a \in D(n))
  <2> SUFFICES ASSUME NEW a \in Addrs, NEW n \in Nodes
               PROVE  lease'[a] = n <=> lease[a] = n /\ ~(n \in moved /\ a \in D(n))
    OBVIOUS
  <2>1. lease'[a] = IF \E m \in moved : a \in D(m) /\ lease[a] = m
                    THEN Grace ELSE lease[a]
    BY DEF CommitFinish, ReleaseLease
  <2> QED BY <2>1, LeaseAssumption
<1>3. \A n \in Nodes : addrs'[n] = IF n \in moved /\ HasRow(n) THEN K(n)
                                                              ELSE addrs[n]
  BY DEF CommitFinish
<1>4. staged /\ ~staged' /\ moved \in SUBSET Nodes
  BY DEF CommitFinish, TypeOK
<1>5. TypeOK'
  <2>1. \A n \in Nodes : /\ addrs'[n] \in SUBSET Addrs
                         /\ state[n] \in {"none", "purged"} => addrs'[n] = {}
    BY <1>1, <1>3, <1>4 DEF TypeOK, WindowHasBoth, HasRow
  <2>2. addrs' \in [Nodes -> SUBSET Addrs]
    BY <2>1 DEF CommitFinish
  <2>3. lease' \in [Addrs -> Nodes \cup {Free, Grace}]
    BY DEF CommitFinish, TypeOK
  <2>4. /\ pc' \in [AddressRequests -> Steps]
        /\ who' \in [AddressRequests -> SUBSET Attrs]
        /\ open' \in [AddressRequests -> SUBSET Addrs]
        /\ seen' \in [AddressRequests -> Nat]
    BY DEF CommitFinish, Done, TypeOK, Steps
  <2>5. /\ staged' \in BOOLEAN
        /\ pool' \in SUBSET Addrs
        /\ prev' \in SUBSET Addrs
        /\ moved' \in SUBSET Nodes
        /\ old' \in [Nodes -> SUBSET Addrs]
        /\ new' \in [Nodes -> SUBSET Addrs]
    BY DEF CommitFinish, TypeOK
  <2> QED
    BY <2>1, <2>2, <2>3, <2>4, <2>5 DEF CommitFinish, TypeOK, reservationVars
<1>6. LeasesMatchRows'
  <2> SUFFICES ASSUME NEW n \in Nodes, Active(n)
               PROVE  addrs'[n] = {a \in Addrs : lease'[a] = n}
    BY DEF LeasesMatchRows, Active, CommitFinish
  <2>1. addrs[n] = {a \in Addrs : lease[a] = n}
    BY DEF LeasesMatchRows
  <2>2. CASE n \in moved
    <3>1. addrs'[n] = K(n) /\ addrs[n] = old[n] \cup new[n]
      BY <1>3, <1>4, <2>2 DEF Active, HasRow, WindowHasBoth
    <3> HIDE DEF K, D
    <3> QED BY <1>1, <1>2, <2>1, <2>2, <3>1
  <2>3. CASE n \notin moved
    BY <1>2, <1>3, <2>1, <2>3
  <2> QED BY <2>2, <2>3
<1>7. LeasedByRows'
  BY <1>2 DEF LeasedByRows, CommitFinish
<1>8. WindowHasBoth'
  BY <1>4 DEF WindowHasBoth
<1>9. OpenIsUnnamed'
  <2> SUFFICES ASSUME NEW q \in AddressRequests, pc'[q] = "enrol",
                      NEW a \in open'[q], lease'[a] = Free, NEW m \in Nodes
               PROVE  a \notin addrs'[m]
    BY DEF OpenIsUnnamed
  <2>1. pc[q] = "enrol" /\ open'[q] = open[q]
    BY DEF CommitFinish, Done, TypeOK
  <2>2. lease[a] = Free
    BY <2>1, LeaseAssumption DEF CommitFinish, TypeOK
  <2>3. a \notin addrs[m]
    BY <2>1, <2>2 DEF OpenIsUnnamed
  <2>4. addrs'[m] \subseteq addrs[m]
    BY <1>1, <1>3, <1>4 DEF WindowHasBoth
  <2> QED BY <2>3, <2>4
<1> QED BY <1>5, <1>6, <1>7, <1>8, <1>9

(* Every step preserves the invariant.                                     *)
LEMMA StepInv == AddressInv /\ [Next]_vars => AddressInv'
<1> SUFFICES ASSUME AddressInv, [Next]_vars PROVE AddressInv'
  OBVIOUS
<1>1. ASSUME NEW r \in AddressRequests, NEW d \in Identities, BeginEnrol(r, d)
      PROVE  AddressInv'
  <2>1. pool \ Blocked \in SUBSET Addrs /\ d \in SUBSET Attrs
    BY IdentityAssumption DEF AddressInv, TypeOK
  <2> QED BY <1>1, <2>1, BeginInv DEF BeginEnrol, Steps
<1>2. ASSUME NEW r \in AddressRequests, NEW d \in Identities, BeginClaim(r, d)
      PROVE  AddressInv'
  <2>1. PICK a \in Addrs : Goto(r, "claim", d, {a})
    BY <1>2 DEF BeginClaim
  <2>2. d \in SUBSET Attrs /\ {a} \in SUBSET Addrs
    BY IdentityAssumption
  <2> QED BY <1>2, <2>1, <2>2, BeginInv DEF BeginClaim, Steps
<1>3. ASSUME NEW r \in AddressRequests, NEW n \in Nodes, CommitEnrol(r, n)
      PROVE  AddressInv'
  <2>1. PICK a \in open[r] : TakeLease(a) /\ InsertNode(r, n, a)
    BY <1>3 DEF CommitEnrol
  <2>2. a \in Addrs /\ lease[a] \notin Nodes
    BY <2>1, LeaseAssumption DEF AddressInv, TypeOK, TakeLease
  <2> QED BY <2>1, <2>2, InsertInv
<1>4. ASSUME NEW r \in AddressRequests, NEW n \in Nodes, CommitClaim(r, n)
      PROVE  AddressInv'
  <2>1. PICK a \in open[r] : lease[a] \notin Nodes /\ InsertNode(r, n, a)
    BY <1>4 DEF CommitClaim
  <2>2. a \in Addrs
    BY <2>1 DEF AddressInv, TypeOK
  <2> QED BY <2>1, <2>2, InsertInv
<1>5. ASSUME NEW r \in AddressRequests, NEW a \in Addrs, NEW b \in Bindings,
             BeginReserve(r, a, b)
      PROVE  AddressInv'
  <2>1. b \in SUBSET Attrs /\ {a} \in SUBSET Addrs
    BY IdentityAssumption
  <2> QED BY <1>5, <2>1, BeginInv DEF BeginReserve, Steps
<1>6. ASSUME NEW r \in AddressRequests, CommitReserve(r) \/ Abort(r)
      PROVE  AddressInv'
  BY <1>6, ReservationInv
<1>7. ASSUME NEW r \in AddressRequests, NEW how \in {"complete", "rollback"},
             BeginFinish(r, how)
      PROVE  AddressInv'
  <2>1. {} \in SUBSET Attrs /\ {} \in SUBSET Addrs /\ how \in Steps
    BY DEF Steps
  <2>2. how # "enrol"
    OBVIOUS
  <2> QED BY <1>7, <2>1, <2>2, BeginInv DEF BeginFinish
<1>8. ASSUME NEW r \in AddressRequests, CommitFinish(r) PROVE AddressInv'
  BY <1>8, FinishInv
<1>9. ASSUME NEW n \in Nodes, Revoke(n) \/ TombstoneRow(n) \/ PurgeRow(n)
      PROVE  AddressInv'
  BY <1>9, GoneInv
<1>10. ASSUME NEW a \in Addrs, Elapse(a) \/ Release(a) PROVE AddressInv'
  BY <1>10, ElapseInv, ReservationInv
<1>11. ASSUME NEW target \in Pools, StagePool(target) PROVE AddressInv'
  <2> DEFINE M == {n \in Nodes : Active(n) /\ ~(addrs[n] \subseteq target)}
  <2>1. PICK f \in [M -> target] : Stage(target, M, f)
    BY <1>11 DEF StagePool
  <2>2. M \in SUBSET Nodes /\ \A n \in M : Active(n)
    OBVIOUS
  <2>3. target \in SUBSET Addrs
    BY PoolAssumption
  <2> HIDE DEF M
  <2> QED BY <2>1, <2>2, <2>3, StageInv
<1>12. ASSUME NEW M \in SUBSET Nodes, StageDevices(M) PROVE AddressInv'
  <2>1. PICK f \in [M -> pool] : Stage(pool, M, f)
    BY <1>12 DEF StageDevices
  <2>2. pool \in SUBSET Addrs /\ \A n \in M : Active(n)
    BY <1>12 DEF StageDevices, AddressInv, TypeOK
  <2> QED BY <2>1, <2>2, StageInv
<1>13. CASE UNCHANGED vars
  BY <1>13 DEF vars, nodeVars, reservationVars, planVars, requestVars,
               AddressInv, TypeOK, LeasesMatchRows, LeasedByRows,
               WindowHasBoth, OpenIsUnnamed, Active, HasRow
<1> QED
  BY <1>1, <1>2, <1>3, <1>4, <1>5, <1>6, <1>7, <1>8, <1>9, <1>10, <1>11,
     <1>12, <1>13 DEF Next, AddressStep

-----------------------------------------------------------------------------
LEMMA AlwaysInv == Spec => []AddressInv
BY InitInv, StepInv, PTL DEF Spec

(* TypeOK for every value of the constants.                                *)
THEOREM TypeCorrect == Spec => []TypeOK
BY AlwaysInv, PTL DEF AddressInv

(* The leases an active device holds are its addresses, through enrolment, *)
(* renumbering, rollback and takeover.                                     *)
THEOREM LeasesAlwaysMatchRows == Spec => []LeasesMatchRows
BY AlwaysInv, PTL DEF AddressInv

(* No two active devices ever have an address in common.                   *)
THEOREM NeverAddressTwice == Spec => []NoAddressTwice
<1>1. LeasesMatchRows => NoAddressTwice
  BY DEF LeasesMatchRows, NoAddressTwice
<1> QED BY <1>1, AlwaysInv, PTL DEF AddressInv

(* An address still named by the row of a device that is gone is given to  *)
(* another one only through a reservation.                                 *)
THEOREM NamedAddressesAlwaysStay == Spec => NamedAddressesStay
<1> DEFINE Shared ==
      \A n, m \in Nodes : n # m =>
        \A a \in (addrs'[n] \ addrs[n]) \cap addrs[m] :
          \/ Binds(a, ident[n])
          \/ \E r \in AddressRequests : pc[r] = "claim" /\ a \in open[r] /\ pc'[r] = "idle"
<1>1. ASSUME AddressInv, Next PROVE Shared
  <2> SUFFICES ASSUME NEW n \in Nodes, NEW m \in Nodes, n # m,
                      NEW a \in (addrs'[n] \ addrs[n]) \cap addrs[m]
               PROVE  \/ Binds(a, ident[n])
                      \/ \E r \in AddressRequests :
                           pc[r] = "claim" /\ a \in open[r] /\ pc'[r] = "idle"
    OBVIOUS
  <2>0. a \in Addrs /\ addrs' # addrs
    BY <1>1 DEF AddressInv, TypeOK
  <2>1. ASSUME NEW r \in AddressRequests, NEW k \in Nodes, CommitEnrol(r, k)
        PROVE  FALSE
    <3>1. PICK x \in open[r] : TakeLease(x) /\ InsertNode(r, k, x)
      BY <2>1 DEF CommitEnrol
    <3>2. a = x
      BY <3>1, <1>1 DEF InsertNode, AddressInv, TypeOK
    <3> QED BY <1>1, <2>1, <3>1, <3>2
            DEF CommitEnrol, TakeLease, AddressInv, OpenIsUnnamed
  <2>2. ASSUME NEW r \in AddressRequests, NEW k \in Nodes, CommitClaim(r, k)
        PROVE  pc[r] = "claim" /\ a \in open[r] /\ pc'[r] = "idle"
    <3>1. PICK x \in open[r] : InsertNode(r, k, x)
      BY <2>2 DEF CommitClaim
    <3>2. a = x
      BY <3>1, <1>1 DEF InsertNode, AddressInv, TypeOK
    <3> QED BY <1>1, <2>2, <3>1, <3>2
            DEF CommitClaim, InsertNode, Done, AddressInv, TypeOK
  <2>3. ASSUME NEW r \in AddressRequests, CommitFinish(r) PROVE FALSE
    <3>1. addrs'[n] \subseteq addrs[n]
      BY <1>1, <2>3 DEF CommitFinish, Keep, AddressInv, TypeOK, WindowHasBoth
    <3> QED BY <3>1
  <2>4. ASSUME NEW k \in Nodes, PurgeRow(k) PROVE FALSE
    BY <1>1, <2>4 DEF PurgeRow, AddressInv, TypeOK
  <2>5. a \in Blocked
    BY DEF Blocked
  <2>6. ASSUME NEW target, NEW M, NEW f \in [M -> target], Stage(target, M, f)
        PROVE  n \in M /\ f[n] = a
    BY <2>6 DEF Stage
  <2>7. ASSUME NEW target \in Pools, StagePool(target) PROVE Binds(a, ident[n])
    <3> DEFINE M == {k \in Nodes : Active(k) /\ ~(addrs[k] \subseteq target)}
               U == {k \in M : BoundTo(k, target) = {}}
    <3>1. PICK f \in [M -> target] :
                 /\ \A k \in M \ U : f[k] \in BoundTo(k, target)
                 /\ \A k \in U : f[k] \notin Blocked
                 /\ Stage(target, M, f)
      BY <2>7 DEF StagePool
    <3>2. n \in M /\ f[n] = a
      BY <2>6, <3>1
    <3>3. f[n] \in BoundTo(n, target)
      BY <2>5, <3>1, <3>2
    <3> QED BY <3>2, <3>3 DEF BoundTo
  <2>8. ASSUME NEW M \in SUBSET Nodes, StageDevices(M) PROVE Binds(a, ident[n])
    <3>1. PICK f \in [M -> pool] :
                 /\ \A k \in M : f[k] \in Blocked => f[k] \in BoundTo(k, pool)
                 /\ Stage(pool, M, f)
      BY <2>8 DEF StageDevices
    <3>2. n \in M /\ f[n] = a
      BY <2>6, <3>1
    <3> QED BY <2>5, <3>1, <3>2 DEF BoundTo
  <2>9. ASSUME \/ \E r \in AddressRequests :
                    \/ \E d \in Identities : BeginEnrol(r, d) \/ BeginClaim(r, d)
                    \/ \E x \in Addrs, b \in Bindings : BeginReserve(r, x, b)
                    \/ CommitReserve(r)
                    \/ \E how \in {"complete", "rollback"} : BeginFinish(r, how)
                    \/ Abort(r)
               \/ \E k \in Nodes : Revoke(k) \/ TombstoneRow(k)
               \/ \E x \in Addrs : Elapse(x) \/ Release(x)
        PROVE  FALSE
    BY <2>0, <2>9 DEF BeginEnrol, BeginClaim, BeginReserve, CommitReserve,
                      BeginFinish, Abort, Revoke, TombstoneRow, Elapse, Release,
                      nodeVars
  <2> QED
    BY <1>1, <2>1, <2>2, <2>3, <2>4, <2>7, <2>8, <2>9 DEF Next, AddressStep
<1>2. UNCHANGED vars => Shared
  BY DEF vars, nodeVars
<1>3. AddressInv /\ [Next]_vars => [Shared]_vars
  BY <1>1, <1>2
<1> QED BY <1>3, AlwaysInv, PTL DEF Spec, NamedAddressesStay

(* The address table at any time.                                          *)
THEOREM AddressesAlwaysHold == Spec => []AddressesInv
BY TypeCorrect, NeverAddressTwice, LeasesAlwaysMatchRows, PTL DEF AddressesInv

=============================================================================
