---------------------------- MODULE PolicyProofs ----------------------------
(***************************************************************************)
(* What decides whether a packet goes through, for every policy, flow      *)
(* table and address width: the evaluator and its compilers, the userspace *)
(* packet filter and the exit route's prefixes; and what answers a name,   *)
(* for every document of the organisation's DNS.                           *)
(***************************************************************************)
EXTENDS AclPolicy, PacketFilter, Forwarding, OrgDns,
        SequenceTheorems, FiniteSetTheorems, WellFoundedInduction, NaturalsInduction, TLAPS

(* Every nonempty set of numbers has a least element.                      *)
LEMMA LeastNumber ==
  ASSUME NEW T, T \subseteq Nat, T # {}
  PROVE  \E x \in T : \A y \in T : x <= y
<1>1. PICK x \in T : \A y \in T : ~ (<<y, x>> \in OpToRel(<, Nat))
  BY WFMin, NatLessThanWellFounded
<1>2. ASSUME NEW y \in T PROVE x <= y
  <2>1. ~ (y < x)
    BY <1>1, <1>2 DEF OpToRel
  <2> QED
    BY <2>1
<1> QED
  BY <1>2

-----------------------------------------------------------------------------
(***************************************************************************)
(* The access policy (module AclPolicy).                                   *)
(***************************************************************************)
ChainRules == [proto : {AnyProto, "tcp", "udp", "icmp"}, ports : SUBSET AclPorts, accept : BOOLEAN]
Hit(r, p) == /\ r.proto \in {AnyProto, p.proto}
             /\ (p.proto \in {"tcp", "udp"} => p.port \in r.ports)
Hits(chain, p) == {i \in DOMAIN chain : Hit(chain[i], p)}

(* The verdict of a chain is that of the first rule that is hit.           *)
LEMMA FirstHit ==
  ASSUME NEW chain \in Seq(ChainRules), NEW p, NEW i \in Hits(chain, p), \A j \in Hits(chain, p) : i <= j
  PROVE  Verdict(chain, p) = chain[i].accept
<1> DEFINE hits == Hits(chain, p)
           first == CHOOSE k \in hits : \A j \in hits : k <= j
<1>1. hits \subseteq Nat
  BY DEF Hits
<1>2. Verdict(chain, p) = (hits # {} /\ chain[first].accept)
  BY Zenon DEF Verdict, Hits, Hit
<1> HIDE DEF hits
<1>3. i \in hits /\ \A j \in hits : i <= j
  BY DEF hits
<1>4. first \in hits /\ \A j \in hits : first <= j
  BY <1>3
<1>5. first = i
  <2> HIDE DEF first
  <2>1. i <= first /\ first <= i /\ i \in Nat /\ first \in Nat
    BY <1>1, <1>3, <1>4
  <2> QED
    BY <2>1
<1> HIDE DEF first
<1>6. hits # {} /\ i \in DOMAIN chain
  BY <1>3 DEF hits, Hits
<1>7. chain[i] \in ChainRules
  BY <1>6
<1>8. chain[i].accept \in BOOLEAN
  BY <1>7 DEF ChainRules
<1> QED
  BY <1>2, <1>5, <1>6, <1>8

LEMMA NoHit ==
  ASSUME NEW chain \in Seq(ChainRules), NEW p, Hits(chain, p) = {}
  PROVE  Verdict(chain, p) = FALSE
BY DEF Verdict, Hits, Hit

(* A chain made of two: the second only matters where the first is not hit. *)
LEMMA VerdictOfTwo ==
  ASSUME NEW a \in Seq(ChainRules), NEW b \in Seq(ChainRules), NEW p
  PROVE  /\ a \o b \in Seq(ChainRules)
         /\ (Hits(a \o b, p) # {}) <=> (Hits(a, p) # {} \/ Hits(b, p) # {})
         /\ Verdict(a \o b, p) = IF Hits(a, p) # {} THEN Verdict(a, p) ELSE Verdict(b, p)
<1> DEFINE c == a \o b
<1>0. /\ c \in Seq(ChainRules) /\ Len(c) = Len(a) + Len(b)
      /\ \A i \in 1 .. Len(c) : c[i] = IF i <= Len(a) THEN a[i] ELSE b[i - Len(a)]
      /\ Len(a) \in Nat /\ Len(b) \in Nat
      /\ DOMAIN a = 1 .. Len(a) /\ DOMAIN b = 1 .. Len(b) /\ DOMAIN c = 1 .. Len(c)
  OBVIOUS
<1> HIDE DEF c
<1>1. \A i \in Hits(a, p) : i \in Hits(c, p) /\ i \in 1 .. Len(a) /\ c[i] = a[i]
  BY <1>0 DEF Hits
<1>2. \A i \in Hits(b, p) : i + Len(a) \in Hits(c, p) /\ i \in 1 .. Len(b) /\ c[i + Len(a)] = b[i]
  <2> TAKE i \in Hits(b, p)
  <2>1. i \in 1 .. Len(b) /\ Hit(b[i], p)
    BY <1>0 DEF Hits
  <2>2. i + Len(a) \in 1 .. Len(c) /\ ~(i + Len(a) <= Len(a)) /\ (i + Len(a)) - Len(a) = i
    BY <2>1, <1>0
  <2> QED
    BY <2>1, <2>2, <1>0 DEF Hits
<1>3. \A i \in Hits(c, p) : \/ i \in Hits(a, p)
                            \/ i > Len(a) /\ i \in Nat /\ i - Len(a) \in Hits(b, p)
  <2> TAKE i \in Hits(c, p)
  <2>1. i \in 1 .. Len(c) /\ Hit(c[i], p)
    BY <1>0 DEF Hits
  <2>2. CASE i <= Len(a)
    BY <2>1, <2>2, <1>0 DEF Hits
  <2>3. CASE ~(i <= Len(a))
    <3>1. i - Len(a) \in 1 .. Len(b) /\ c[i] = b[i - Len(a)] /\ i > Len(a)
      BY <2>1, <2>3, <1>0
    <3> QED
      BY <3>1, <2>1, <1>0 DEF Hits
  <2> QED
    BY <2>2, <2>3
<1>4. (Hits(c, p) # {}) <=> (Hits(a, p) # {} \/ Hits(b, p) # {})
  BY <1>1, <1>2, <1>3
<1>5. CASE Hits(a, p) # {}
  <2>1. Hits(a, p) \subseteq Nat
    BY DEF Hits
  <2>2. PICK i \in Hits(a, p) : \A j \in Hits(a, p) : i <= j
    BY <2>1, <1>5, LeastNumber
  <2>3. \A j \in Hits(c, p) : i <= j
    BY <2>1, <2>2, <1>1, <1>3, <1>0
  <2>4. Verdict(c, p) = c[i].accept
    BY <2>2, <2>3, <1>1, <1>0, FirstHit
  <2>5. Verdict(a, p) = a[i].accept
    BY <2>2, FirstHit
  <2> QED
    BY <2>4, <2>5, <2>2, <1>1, <1>5, <1>4, <1>0 DEF c
<1>6. CASE Hits(a, p) = {} /\ Hits(b, p) # {}
  <2>1. Hits(b, p) \subseteq Nat
    BY DEF Hits
  <2>2. PICK i \in Hits(b, p) : \A j \in Hits(b, p) : i <= j
    BY <2>1, <1>6, LeastNumber
  <2>3. ASSUME NEW j \in Hits(c, p) PROVE i + Len(a) <= j
    <3>1. j > Len(a) /\ j \in Nat /\ j - Len(a) \in Hits(b, p)
      BY <1>3, <1>6
    <3>2. i <= j - Len(a) /\ i \in Nat
      BY <3>1, <2>2, <2>1
    <3> QED
      BY <3>1, <3>2, <1>0
  <2>4. Verdict(c, p) = c[i + Len(a)].accept
    BY <2>2, <2>3, <1>2, <1>0, FirstHit
  <2>5. Verdict(b, p) = b[i].accept
    BY <2>2, FirstHit
  <2> QED
    BY <2>4, <2>5, <2>2, <1>2, <1>6, <1>4, <1>0 DEF c
<1>7. CASE Hits(a, p) = {} /\ Hits(b, p) = {}
  <2>1. Hits(c, p) = {}
    BY <1>4, <1>7
  <2>2. Verdict(c, p) = FALSE /\ Verdict(b, p) = FALSE
    BY <2>1, <1>7, <1>0, NoHit
  <2> QED
    BY <2>2, <1>4, <1>7, <1>0 DEF c
<1> QED
  BY <1>5, <1>6, <1>7

(* One rule, and one that is only there on a condition.                    *)
LEMMA VerdictOfOne ==
  ASSUME NEW r \in ChainRules, NEW p
  PROVE  /\ <<r>> \in Seq(ChainRules)
         /\ (Hits(<<r>>, p) # {}) <=> Hit(r, p)
         /\ Verdict(<<r>>, p) = (Hit(r, p) /\ r.accept)
<1> DEFINE c == <<r>>
<1>1. c \in Seq(ChainRules) /\ DOMAIN c = {1} /\ c[1] = r
  OBVIOUS
<1> HIDE DEF c
<1>2. Hits(c, p) = IF Hit(r, p) THEN {1} ELSE {}
  BY <1>1 DEF Hits
<1>3. CASE Hit(r, p)
  <2>1. 1 \in Hits(c, p) /\ \A j \in Hits(c, p) : 1 <= j
    BY <1>2, <1>3
  <2>2. Verdict(c, p) = r.accept
    BY <2>1, <1>1, FirstHit
  <2>3. r.accept \in BOOLEAN
    BY DEF ChainRules
  <2> QED
    BY <2>2, <2>3, <1>1, <1>2, <1>3 DEF c
<1>4. CASE ~Hit(r, p)
  <2>1. Verdict(c, p) = FALSE
    BY <1>1, <1>2, <1>4, NoHit
  <2> QED
    BY <2>1, <1>1, <1>2, <1>4 DEF c
<1> QED
  BY <1>3, <1>4

LEMMA VerdictWhen ==
  ASSUME NEW condition \in BOOLEAN, NEW r \in ChainRules, NEW p
  PROVE  /\ When(condition, <<r>>) \in Seq(ChainRules)
         /\ (Hits(When(condition, <<r>>), p) # {}) <=> (condition /\ Hit(r, p))
         /\ Verdict(When(condition, <<r>>), p) = (condition /\ Hit(r, p) /\ r.accept)
<1>1. CASE condition
  BY <1>1, VerdictOfOne DEF When
<1>2. CASE ~condition
  <2>1. When(condition, <<r>>) = << >> /\ << >> \in Seq(ChainRules)
    BY <1>2 DEF When
  <2>2. Hits(<< >>, p) = {}
    BY DEF Hits
  <2>3. Verdict(<< >>, p) = FALSE
    BY <2>1, <2>2, NoHit
  <2> QED
    BY <2>1, <2>2, <2>3, <1>2
<1> QED
  BY <1>1, <1>2

(* What the grants of a peer decide of a service.                          *)
GrantSets == [all : BOOLEAN, icmp : BOOLEAN, tcp : SUBSET AclPorts, udp : SUBSET AclPorts,
              deny_tcp : SUBSET AclPorts, deny_udp : SUBSET AclPorts, deny_icmp : BOOLEAN]
Barred(g, p) == \/ p.proto = "tcp" /\ p.port \in g.deny_tcp
                \/ p.proto = "udp" /\ p.port \in g.deny_udp
                \/ p.proto = "icmp" /\ g.deny_icmp
Let(g, p) == \/ g.all
             \/ p.proto = "tcp" /\ p.port \in g.tcp
             \/ p.proto = "udp" /\ p.port \in g.udp
             \/ p.proto = "icmp" /\ g.icmp

(* The four parts the chains are made of.                                  *)
Exchange(pq) == When(pq, <<On("tcp", {PQ_PORT}, TRUE)>>)
Refusals(g) == <<On("tcp", g.deny_tcp, FALSE), On("udp", g.deny_udp, FALSE)>>
Pings(g) == When(g.deny_icmp, <<On("icmp", {}, FALSE)>>)
Openings(g) == IF g.all THEN <<On(AnyProto, AclPorts, TRUE)>>
               ELSE <<On("tcp", g.tcp, TRUE), On("udp", g.udp, TRUE)>> \o When(g.icmp, <<On("icmp", {}, TRUE)>>)
TheRest == <<On(AnyProto, AclPorts, FALSE)>>

LEMMA OnFacts ==
  ASSUME NEW proto \in {AnyProto, "tcp", "udp", "icmp"}, NEW ports \in SUBSET AclPorts, NEW accept \in BOOLEAN,
         NEW p
  PROVE  /\ On(proto, ports, accept) \in ChainRules /\ On(proto, ports, accept).accept = accept
         /\ Hit(On(proto, ports, accept), p)
              <=> (proto \in {AnyProto, p.proto} /\ (p.proto \in {"tcp", "udp"} => p.port \in ports))
BY DEF On, ChainRules, Hit

LEMMA TwoRules ==
  ASSUME NEW r \in ChainRules, NEW s \in ChainRules, NEW p
  PROVE  /\ <<r, s>> \in Seq(ChainRules)
         /\ (Hits(<<r, s>>, p) # {}) <=> (Hit(r, p) \/ Hit(s, p))
         /\ Verdict(<<r, s>>, p) = IF Hit(r, p) THEN r.accept ELSE Hit(s, p) /\ s.accept
<1>1. <<r, s>> = <<r>> \o <<s>>
  <2>1. /\ <<r>> \in Seq(ChainRules) /\ <<s>> \in Seq(ChainRules) /\ <<r, s>> \in Seq(ChainRules)
        /\ Len(<<r>>) = 1 /\ Len(<<s>>) = 1 /\ Len(<<r, s>>) = 2
        /\ <<r>>[1] = r /\ <<s>>[1] = s /\ <<r, s>>[1] = r /\ <<r, s>>[2] = s
    OBVIOUS
  <2>2. /\ <<r>> \o <<s>> \in Seq(ChainRules) /\ Len(<<r>> \o <<s>>) = 2
        /\ (<<r>> \o <<s>>)[1] = r /\ (<<r>> \o <<s>>)[2] = s
    BY <2>1, ConcatProperties
  <2>3. \A i \in 1 .. Len(<<r, s>>) : <<r, s>>[i] = (<<r>> \o <<s>>)[i]
    BY <2>1, <2>2
  <2> QED
    BY <2>1, <2>2, <2>3, SeqEqual
<1>2. r.accept \in BOOLEAN
  BY DEF ChainRules
<1>3. /\ <<r>> \in Seq(ChainRules)
      /\ (Hits(<<r>>, p) # {}) <=> Hit(r, p)
      /\ Verdict(<<r>>, p) = (Hit(r, p) /\ r.accept)
  BY VerdictOfOne
<1>4. /\ <<s>> \in Seq(ChainRules)
      /\ (Hits(<<s>>, p) # {}) <=> Hit(s, p)
      /\ Verdict(<<s>>, p) = (Hit(s, p) /\ s.accept)
  BY VerdictOfOne
<1>5. /\ <<r>> \o <<s>> \in Seq(ChainRules)
      /\ (Hits(<<r>> \o <<s>>, p) # {}) <=> (Hits(<<r>>, p) # {} \/ Hits(<<s>>, p) # {})
      /\ Verdict(<<r>> \o <<s>>, p) = IF Hits(<<r>>, p) # {} THEN Verdict(<<r>>, p) ELSE Verdict(<<s>>, p)
  BY <1>3, <1>4, VerdictOfTwo
<1> QED
  BY <1>1, <1>2, <1>3, <1>4, <1>5

LEMMA PartsDecide ==
  ASSUME NEW g \in GrantSets, NEW pq \in BOOLEAN, NEW p \in Services
  PROVE  /\ Exchange(pq) \in Seq(ChainRules) /\ Refusals(g) \in Seq(ChainRules) /\ Pings(g) \in Seq(ChainRules)
         /\ Openings(g) \in Seq(ChainRules) /\ TheRest \in Seq(ChainRules)
         /\ (Hits(Exchange(pq), p) # {}) <=> (pq /\ p.proto = "tcp" /\ p.port = PQ_PORT)
         /\ Hits(Exchange(pq), p) # {} => Verdict(Exchange(pq), p) = TRUE
         /\ (Hits(Refusals(g), p) # {}) <=> (Barred(g, p) /\ p.proto # "icmp")
         /\ Verdict(Refusals(g), p) = FALSE
         /\ (Hits(Pings(g), p) # {}) <=> (Barred(g, p) /\ p.proto = "icmp")
         /\ Verdict(Pings(g), p) = FALSE
         /\ (Hits(Openings(g), p) # {}) <=> Let(g, p)
         /\ Verdict(Openings(g), p) = Let(g, p)
         /\ Verdict(TheRest, p) = FALSE
<1>0. /\ g.all \in BOOLEAN /\ g.icmp \in BOOLEAN /\ g.deny_icmp \in BOOLEAN
      /\ g.tcp \in SUBSET AclPorts /\ g.udp \in SUBSET AclPorts
      /\ g.deny_tcp \in SUBSET AclPorts /\ g.deny_udp \in SUBSET AclPorts
      /\ {PQ_PORT} \in SUBSET AclPorts /\ {} \in SUBSET AclPorts /\ AclPorts \in SUBSET AclPorts
  BY AclAssumption DEF GrantSets
<1>1. /\ (p.proto \in {"tcp", "udp"} /\ p.port \in AclPorts) \/ p.proto \in {"icmp", "other"}
      /\ AnyProto = "any" /\ TRUE \in BOOLEAN /\ FALSE \in BOOLEAN
  BY DEF Services, AnyProto
<1>2. /\ Exchange(pq) \in Seq(ChainRules)
      /\ (Hits(Exchange(pq), p) # {}) <=> (pq /\ p.proto = "tcp" /\ p.port = PQ_PORT)
      /\ Hits(Exchange(pq), p) # {} => Verdict(Exchange(pq), p) = TRUE
  <2> DEFINE r == On("tcp", {PQ_PORT}, TRUE)
  <2>1. r \in ChainRules /\ r.accept = TRUE /\ (Hit(r, p) <=> (p.proto = "tcp" /\ p.port = PQ_PORT))
    BY <1>0, <1>1 DEF On, ChainRules, Hit
  <2> HIDE DEF r
  <2>2. /\ When(pq, <<r>>) \in Seq(ChainRules)
        /\ (Hits(When(pq, <<r>>), p) # {}) <=> (pq /\ Hit(r, p))
        /\ Verdict(When(pq, <<r>>), p) = (pq /\ Hit(r, p) /\ r.accept)
    BY <2>1, VerdictWhen
  <2>3. Exchange(pq) = When(pq, <<r>>)
    BY DEF r, Exchange
  <2> QED
    BY <2>1, <2>2, <2>3
<1>3. /\ Refusals(g) \in Seq(ChainRules)
      /\ (Hits(Refusals(g), p) # {}) <=> (Barred(g, p) /\ p.proto # "icmp")
      /\ Verdict(Refusals(g), p) = FALSE
  <2> DEFINE r == On("tcp", g.deny_tcp, FALSE)
             s == On("udp", g.deny_udp, FALSE)
  <2>1. r \in ChainRules /\ r.accept = FALSE /\ (Hit(r, p) <=> (p.proto = "tcp" /\ p.port \in g.deny_tcp))
    BY <1>0, <1>1, OnFacts
  <2>2. s \in ChainRules /\ s.accept = FALSE /\ (Hit(s, p) <=> (p.proto = "udp" /\ p.port \in g.deny_udp))
    BY <1>0, <1>1, OnFacts
  <2>3. Refusals(g) = <<r, s>>
    BY DEF Refusals
  <2> HIDE DEF r, s
  <2>4. /\ <<r, s>> \in Seq(ChainRules)
        /\ (Hits(<<r, s>>, p) # {}) <=> (Hit(r, p) \/ Hit(s, p))
        /\ Verdict(<<r, s>>, p) = IF Hit(r, p) THEN r.accept ELSE Hit(s, p) /\ s.accept
    BY <2>1, <2>2, TwoRules
  <2> QED
    BY <2>1, <2>2, <2>3, <2>4 DEF Barred
<1>4. /\ Pings(g) \in Seq(ChainRules)
      /\ (Hits(Pings(g), p) # {}) <=> (Barred(g, p) /\ p.proto = "icmp")
      /\ Verdict(Pings(g), p) = FALSE
  <2> DEFINE r == On("icmp", {}, FALSE)
  <2>1. r \in ChainRules /\ r.accept = FALSE /\ (Hit(r, p) <=> p.proto = "icmp")
    BY <1>0, <1>1, OnFacts
  <2>3. Pings(g) = When(g.deny_icmp, <<r>>)
    BY DEF Pings
  <2> HIDE DEF r
  <2>2. /\ When(g.deny_icmp, <<r>>) \in Seq(ChainRules)
        /\ (Hits(When(g.deny_icmp, <<r>>), p) # {}) <=> (g.deny_icmp /\ Hit(r, p))
        /\ Verdict(When(g.deny_icmp, <<r>>), p) = (g.deny_icmp /\ Hit(r, p) /\ r.accept)
    BY <1>0, <2>1, VerdictWhen
  <2> QED
    BY <2>1, <2>2, <2>3 DEF Barred
<1>5. /\ Openings(g) \in Seq(ChainRules)
      /\ (Hits(Openings(g), p) # {}) <=> Let(g, p)
      /\ Verdict(Openings(g), p) = Let(g, p)
  <2>1. CASE g.all
    <3> DEFINE r == On(AnyProto, AclPorts, TRUE)
    <3>1. r \in ChainRules /\ r.accept = TRUE /\ Hit(r, p)
      BY <1>0, <1>1, OnFacts
    <3>2. Openings(g) = <<r>>
      BY <2>1 DEF Openings
    <3> HIDE DEF r
    <3>3. /\ <<r>> \in Seq(ChainRules)
          /\ (Hits(<<r>>, p) # {}) <=> Hit(r, p)
          /\ Verdict(<<r>>, p) = (Hit(r, p) /\ r.accept)
      BY <3>1, VerdictOfOne
    <3> QED
      BY <3>1, <3>2, <3>3, <2>1 DEF Let
  <2>2. CASE ~g.all
    <3> DEFINE r == On("tcp", g.tcp, TRUE)
               s == On("udp", g.udp, TRUE)
               t == On("icmp", {}, TRUE)
    <3>1. r \in ChainRules /\ r.accept = TRUE /\ (Hit(r, p) <=> (p.proto = "tcp" /\ p.port \in g.tcp))
      BY <1>0, <1>1, OnFacts
    <3>2. s \in ChainRules /\ s.accept = TRUE /\ (Hit(s, p) <=> (p.proto = "udp" /\ p.port \in g.udp))
      BY <1>0, <1>1, OnFacts
    <3>3. t \in ChainRules /\ t.accept = TRUE /\ (Hit(t, p) <=> p.proto = "icmp")
      BY <1>0, <1>1, OnFacts
    <3>4. Openings(g) = <<r, s>> \o When(g.icmp, <<t>>)
      BY <2>2 DEF Openings
    <3> HIDE DEF r, s, t
    <3>5. /\ <<r, s>> \in Seq(ChainRules)
          /\ (Hits(<<r, s>>, p) # {}) <=> (Hit(r, p) \/ Hit(s, p))
          /\ Verdict(<<r, s>>, p) = IF Hit(r, p) THEN r.accept ELSE Hit(s, p) /\ s.accept
      BY <3>1, <3>2, TwoRules
    <3>6. /\ When(g.icmp, <<t>>) \in Seq(ChainRules)
          /\ (Hits(When(g.icmp, <<t>>), p) # {}) <=> (g.icmp /\ Hit(t, p))
          /\ Verdict(When(g.icmp, <<t>>), p) = (g.icmp /\ Hit(t, p) /\ t.accept)
      BY <1>0, <3>3, VerdictWhen
    <3> DEFINE a == <<r, s>>
               b == When(g.icmp, <<t>>)
    <3>7. /\ a \in Seq(ChainRules) /\ b \in Seq(ChainRules) /\ Openings(g) = a \o b
          /\ (Hits(a, p) # {}) <=> (Hit(r, p) \/ Hit(s, p))
          /\ Verdict(a, p) = IF Hit(r, p) THEN r.accept ELSE Hit(s, p) /\ s.accept
          /\ (Hits(b, p) # {}) <=> (g.icmp /\ Hit(t, p))
          /\ Verdict(b, p) = (g.icmp /\ Hit(t, p) /\ t.accept)
      BY <3>4, <3>5, <3>6
    <3> HIDE DEF a, b
    <3>8. /\ a \o b \in Seq(ChainRules)
          /\ (Hits(a \o b, p) # {}) <=> (Hits(a, p) # {} \/ Hits(b, p) # {})
          /\ Verdict(a \o b, p) = IF Hits(a, p) # {} THEN Verdict(a, p) ELSE Verdict(b, p)
      BY <3>7, VerdictOfTwo
    <3> QED
      BY <3>1, <3>2, <3>3, <3>7, <3>8, <2>2, <1>0 DEF Let
  <2> QED
    BY <2>1, <2>2
<1>6. TheRest \in Seq(ChainRules) /\ Verdict(TheRest, p) = FALSE
  <2> DEFINE r == On(AnyProto, AclPorts, FALSE)
  <2>1. r \in ChainRules /\ r.accept = FALSE
    BY <1>0, <1>1, OnFacts
  <2>2. TheRest = <<r>>
    BY DEF TheRest
  <2> HIDE DEF r
  <2>3. <<r>> \in Seq(ChainRules) /\ Verdict(<<r>>, p) = (Hit(r, p) /\ r.accept)
    BY <2>1, VerdictOfOne
  <2> QED
    BY <2>1, <2>2, <2>3
<1> QED
  BY <1>2, <1>3, <1>4, <1>5, <1>6

(* Linux chain, macOS anchor and userspace filter from the same grants.    *)
Decides(g, pq, p) == (pq /\ p.proto = "tcp" /\ p.port = PQ_PORT) \/ (~Barred(g, p) /\ Let(g, p))
LEMMA ChainDecides ==
  ASSUME NEW g \in GrantSets, NEW pq \in BOOLEAN, NEW p \in Services
  PROVE  /\ Verdict(Exchange(pq) \o Refusals(g) \o Pings(g) \o Openings(g), p) = Decides(g, pq, p)
         /\ Verdict(Exchange(pq) \o Refusals(g) \o Pings(g) \o Openings(g) \o TheRest, p) = Decides(g, pq, p)
         /\ Verdict(Refusals(g) \o Pings(g) \o Openings(g), p) = Decides(g, FALSE, p)
<1> DEFINE e == Exchange(pq)
           r == Refusals(g)
           i == Pings(g)
           o == Openings(g)
           z == TheRest
<1>1. /\ e \in Seq(ChainRules) /\ r \in Seq(ChainRules) /\ i \in Seq(ChainRules)
      /\ o \in Seq(ChainRules) /\ z \in Seq(ChainRules)
      /\ (Hits(e, p) # {}) <=> (pq /\ p.proto = "tcp" /\ p.port = PQ_PORT)
      /\ Hits(e, p) # {} => Verdict(e, p) = TRUE
      /\ (Hits(r, p) # {}) <=> (Barred(g, p) /\ p.proto # "icmp")
      /\ Verdict(r, p) = FALSE
      /\ (Hits(i, p) # {}) <=> (Barred(g, p) /\ p.proto = "icmp")
      /\ Verdict(i, p) = FALSE
      /\ (Hits(o, p) # {}) <=> Let(g, p)
      /\ Verdict(o, p) = Let(g, p)
      /\ Verdict(z, p) = FALSE
  BY PartsDecide
<1> HIDE DEF e, r, i, o, z
<1>2. LET a == e b == r
      IN /\ a \o b \in Seq(ChainRules)
         /\ (Hits(a \o b, p) # {}) <=> (Hits(a, p) # {} \/ Hits(b, p) # {})
         /\ Verdict(a \o b, p) = IF Hits(a, p) # {} THEN Verdict(a, p) ELSE Verdict(b, p)
  BY <1>1, VerdictOfTwo
<1>3. LET a == e \o r b == i
      IN /\ a \o b \in Seq(ChainRules)
         /\ (Hits(a \o b, p) # {}) <=> (Hits(a, p) # {} \/ Hits(b, p) # {})
         /\ Verdict(a \o b, p) = IF Hits(a, p) # {} THEN Verdict(a, p) ELSE Verdict(b, p)
  BY <1>1, <1>2, VerdictOfTwo
<1>4. LET a == e \o r \o i b == o
      IN /\ a \o b \in Seq(ChainRules)
         /\ (Hits(a \o b, p) # {}) <=> (Hits(a, p) # {} \/ Hits(b, p) # {})
         /\ Verdict(a \o b, p) = IF Hits(a, p) # {} THEN Verdict(a, p) ELSE Verdict(b, p)
  BY <1>1, <1>3, VerdictOfTwo
<1>5. LET a == e \o r \o i \o o b == z
      IN Verdict(a \o b, p) = IF Hits(a, p) # {} THEN Verdict(a, p) ELSE Verdict(b, p)
  BY <1>1, <1>4, VerdictOfTwo
<1>6. LET a == r b == i
      IN /\ a \o b \in Seq(ChainRules)
         /\ (Hits(a \o b, p) # {}) <=> (Hits(a, p) # {} \/ Hits(b, p) # {})
         /\ Verdict(a \o b, p) = IF Hits(a, p) # {} THEN Verdict(a, p) ELSE Verdict(b, p)
  BY <1>1, VerdictOfTwo
<1>7. LET a == r \o i b == o
      IN Verdict(a \o b, p) = IF Hits(a, p) # {} THEN Verdict(a, p) ELSE Verdict(b, p)
  BY <1>1, <1>6, VerdictOfTwo
<1>8. Verdict(e \o r \o i \o o, p) = Decides(g, pq, p)
  BY <1>1, <1>2, <1>3, <1>4 DEF Decides, Barred, Let
<1>9. Verdict(e \o r \o i \o o \o z, p) = Decides(g, pq, p)
  BY <1>1, <1>2, <1>3, <1>4, <1>5, <1>8 DEF Decides, Barred, Let
<1>10. Verdict(r \o i \o o, p) = Decides(g, FALSE, p)
  BY <1>1, <1>6, <1>7 DEF Decides, Barred, Let
<1> QED
  BY <1>8, <1>9, <1>10 DEF e, r, i, o, z

(* A document with its source's posture and credential, as compiled.       *)
Views == [acl : AclDocuments, passes : BOOLEAN, recent : BOOLEAN]
Between(v) == Matching(v, "s", "d", NoPort, AnyProto, FALSE)
Compiled(v, cap) == PeerIngressFor(v, "s", "d", cap)

LEMMA ViewFacts ==
  ASSUME NEW v \in Views
  PROVE  /\ v.acl.rules \subseteq Catalog /\ v.acl.ssh \subseteq SshCatalog
         /\ Between(v) \subseteq Catalog
         /\ \A r \in Between(v) : r.action \in {"allow", "deny"} /\ r.ports \subseteq AclPorts
<1>1. v.acl \in AclDocuments
  BY DEF Views
<1>2. v.acl.rules \subseteq Catalog /\ v.acl.ssh \subseteq SshCatalog
  BY <1>1 DEF AclDocuments
<1>3. Between(v) \subseteq v.acl.rules
  BY DEF Between, Matching
<1> QED
  BY <1>2, <1>3, AclAssumption

(* The ports a set of rules names.                                         *)
LEMMA SpecsMean ==
  ASSUME NEW R \in SUBSET Catalog, NEW proto
  PROVE  /\ Specs(R, proto) \in SUBSET AclPorts
         /\ \A port \in AclPorts :
              port \in Specs(R, proto)
                <=> \E r \in R : (r.protos = {} \/ proto \in r.protos) /\ (r.ports = {} \/ port \in r.ports)
<1>1. \A r \in R : r.ports \subseteq AclPorts
  BY AclAssumption
<1>2. \A x : x \in Specs(R, proto)
        <=> \E r \in R : /\ r.protos = {} \/ proto \in r.protos
                         /\ x \in (IF r.ports = {} THEN AclPorts ELSE r.ports)
  BY DEF Specs
<1> QED
  BY <1>1, <1>2

(* A flow to a port: the rules between the two that name it.               *)
LEMMA MatchNarrows ==
  ASSUME NEW v \in Views, NEW port \in AclPorts, NEW proto \in {"tcp", "udp"}, NEW r
  PROVE  r \in Matching(v, "s", "d", port, proto, FALSE)
           <=> /\ r \in Between(v)
               /\ (r.ports = {} \/ port \in r.ports) /\ (r.protos = {} \/ proto \in r.protos)
<1>1. port # NoPort /\ proto # AnyProto
  BY AclAssumption DEF NoPort, AnyProto
<1> QED
  BY <1>1 DEF Between, Matching, RuleMatches, PortMatches, ProtocolMatches

LEMMA GrantsTyped ==
  ASSUME NEW v \in Views, NEW cap \in BOOLEAN
  PROVE  PeerGrants(v, "s", "d", cap) \in GrantSets /\ Nothing \in GrantSets
<1> DEFINE m == Between(v)
           allows == {r \in m : r.action = "allow"}
           denies == {r \in m : r.action = "deny"}
<1>1. allows \in SUBSET Catalog /\ denies \in SUBSET Catalog
  BY ViewFacts
<1>2. \A proto : Specs(allows, proto) \in SUBSET AclPorts /\ Specs(denies, proto) \in SUBSET AclPorts
  BY <1>1, SpecsMean
<1>3. SSH_PORT \in AclPorts
  BY AclAssumption
<1>4. Nothing \in GrantSets
  BY DEF Nothing, GrantSets
<1>5. Icmp(denies) \in BOOLEAN /\ Icmp(allows) \in BOOLEAN /\ ImplicitDefaultAllows(v) \in BOOLEAN
  BY DEF Icmp, ImplicitDefaultAllows
<1> HIDE DEF allows, denies
<1> DEFINE open == SshOpen(SshGrant(v, "s", "d"), cap)
           all == ImplicitDefaultAllows(v) \/ \E r \in allows : Unrestricted(r)
           closed == Specs(denies, "tcp") \cup (IF SshGoverned(v, "s", "d") /\ ~open THEN {SSH_PORT} ELSE {})
           listed == IF all THEN {} ELSE Specs(allows, "tcp")
           g == [all |-> all, icmp |-> (all \/ Icmp(allows)) /\ ~Icmp(denies),
                 tcp |-> listed \cup (IF ~all /\ open /\ SSH_PORT \notin closed THEN {SSH_PORT} ELSE {}),
                 udp |-> IF all THEN {} ELSE Specs(allows, "udp"),
                 deny_tcp |-> closed, deny_udp |-> Specs(denies, "udp"), deny_icmp |-> Icmp(denies)]
<1>6. PeerGrants(v, "s", "d", cap) = IF \E r \in denies : Unrestricted(r) THEN Nothing ELSE g
  BY Zenon DEF PeerGrants, Between, allows, denies
<1>7. all \in BOOLEAN /\ closed \in SUBSET AclPorts /\ listed \in SUBSET AclPorts
  BY <1>2, <1>3
<1>8. g \in GrantSets
  <2>1. g.tcp \in SUBSET AclPorts /\ g.udp \in SUBSET AclPorts
    BY <1>2, <1>3, <1>7
  <2> HIDE DEF all, closed, listed, open
  <2> QED
    BY <2>1, <1>2, <1>5, <1>7 DEF GrantSets
<1> HIDE DEF g
<1> QED
  BY <1>4, <1>6, <1>8

(* What the compiled grants bar and let through, read off the rules.       *)
Named(R, proto, port) ==
  \E r \in R : (r.protos = {} \/ proto \in r.protos) /\ (r.ports = {} \/ port \in r.ports)
Acting(v, action) == {r \in Between(v) : r.action = action}
AllOpen(v) == ImplicitDefaultAllows(v) \/ \E r \in Acting(v, "allow") : Unrestricted(r)
AllShut(v) == \E r \in Acting(v, "deny") : Unrestricted(r)
SshClosed(v, cap) == SshGoverned(v, "s", "d") /\ ~SshOpen(SshGrant(v, "s", "d"), cap)

LEMMA GrantsMean ==
  ASSUME NEW v \in Views, NEW cap \in BOOLEAN, NEW port \in AclPorts
  PROVE  LET g == PeerGrants(v, "s", "d", cap)
         IN  /\ AllShut(v) => g = Nothing
             /\ ~AllShut(v) =>
                  /\ g.all <=> AllOpen(v)
                  /\ port \in g.deny_tcp <=> (Named(Acting(v, "deny"), "tcp", port)
                                              \/ (port = SSH_PORT /\ SshClosed(v, cap)))
                  /\ port \in g.deny_udp <=> Named(Acting(v, "deny"), "udp", port)
                  /\ port \in g.udp <=> (~AllOpen(v) /\ Named(Acting(v, "allow"), "udp", port))
                  /\ port \in g.tcp => (Named(Acting(v, "allow"), "tcp", port) \/ port = SSH_PORT)
                  /\ (~AllOpen(v) /\ Named(Acting(v, "allow"), "tcp", port)) => port \in g.tcp
                  /\ g.icmp = ((AllOpen(v) \/ Icmp(Acting(v, "allow"))) /\ ~Icmp(Acting(v, "deny")))
                  /\ g.deny_icmp = Icmp(Acting(v, "deny"))
<1> DEFINE g == PeerGrants(v, "s", "d", cap)
           allows == Acting(v, "allow")
           denies == Acting(v, "deny")
           open == SshOpen(SshGrant(v, "s", "d"), cap)
           all == AllOpen(v)
           closed == Specs(denies, "tcp") \cup (IF SshGoverned(v, "s", "d") /\ ~open THEN {SSH_PORT} ELSE {})
           listed == IF all THEN {} ELSE Specs(allows, "tcp")
           h == [all |-> all, icmp |-> (all \/ Icmp(allows)) /\ ~Icmp(denies),
                 tcp |-> listed \cup (IF ~all /\ open /\ SSH_PORT \notin closed THEN {SSH_PORT} ELSE {}),
                 udp |-> IF all THEN {} ELSE Specs(allows, "udp"),
                 deny_tcp |-> closed, deny_udp |-> Specs(denies, "udp"), deny_icmp |-> Icmp(denies)]
<1>1. allows \in SUBSET Catalog /\ denies \in SUBSET Catalog
  BY ViewFacts DEF Acting
<1>2. /\ \A proto : port \in Specs(allows, proto) <=> Named(allows, proto, port)
      /\ \A proto : port \in Specs(denies, proto) <=> Named(denies, proto, port)
  BY <1>1, SpecsMean DEF Named
<1>3. g = IF AllShut(v) THEN Nothing ELSE h
  BY Zenon DEF PeerGrants, Between, Acting, AllShut, AllOpen
<1>4. /\ h.all = all /\ h.icmp = ((all \/ Icmp(allows)) /\ ~Icmp(denies)) /\ h.deny_icmp = Icmp(denies)
      /\ h.deny_tcp = closed /\ h.deny_udp = Specs(denies, "udp")
      /\ h.udp = (IF all THEN {} ELSE Specs(allows, "udp"))
      /\ h.tcp = listed \cup (IF ~all /\ open /\ SSH_PORT \notin closed THEN {SSH_PORT} ELSE {})
  BY Zenon
<1> HIDE DEF h
<1>5. port \in closed <=> (Named(denies, "tcp", port) \/ (port = SSH_PORT /\ SshClosed(v, cap)))
  BY <1>2 DEF SshClosed
<1>6. /\ port \in h.tcp => (Named(allows, "tcp", port) \/ port = SSH_PORT)
      /\ (~all /\ Named(allows, "tcp", port)) => port \in h.tcp
  BY <1>2, <1>4
<1> HIDE DEF allows, denies, closed, listed, all, open, g
<1>7. CASE AllShut(v)
  BY <1>7, <1>3 DEF g
<1>8. CASE ~AllShut(v)
  <2>1. g = h
    BY <1>3, <1>8
  <2> QED
    BY <2>1, <1>2, <1>4, <1>5, <1>6, <1>8 DEF g, allows, denies, all
<1> QED
  BY <1>7, <1>8

Ingresses == [grants : GrantSets,
              ssh : [users : SUBSET (Logins \cup {"*"}), deny : SUBSET (Logins \cup {"*"})]]
Shut(i, enforced) == ~enforced /\ i.ssh.users # {} /\ SshRestricted(i.ssh)
Closed(i, enforced) == FailClosed(i, enforced).grants

LEMMA FailClosedMeans ==
  ASSUME NEW i \in Ingresses, NEW enforced \in BOOLEAN
  PROVE  /\ Closed(i, enforced) \in GrantSets
         /\ Closed(i, enforced).all = i.grants.all /\ Closed(i, enforced).icmp = i.grants.icmp
         /\ Closed(i, enforced).tcp = i.grants.tcp /\ Closed(i, enforced).udp = i.grants.udp
         /\ Closed(i, enforced).deny_udp = i.grants.deny_udp
         /\ Closed(i, enforced).deny_icmp = i.grants.deny_icmp
         /\ Closed(i, enforced).deny_tcp
              = i.grants.deny_tcp \cup (IF Shut(i, enforced) THEN {SSH_PORT} ELSE {})
<1>1. i.grants \in GrantSets /\ SSH_PORT \in AclPorts
  BY AclAssumption DEF Ingresses
<1>2. CASE Shut(i, enforced)
  <2>1. FailClosed(i, enforced) = [i EXCEPT !.grants.deny_tcp = @ \cup {SSH_PORT}]
    BY <1>2 DEF FailClosed, Shut
  <2>2. Closed(i, enforced) = [i.grants EXCEPT !.deny_tcp = i.grants.deny_tcp \cup {SSH_PORT}]
    BY <2>1 DEF Closed, Ingresses
  <2> QED
    BY <2>2, <1>1, <1>2 DEF GrantSets
<1>3. CASE ~Shut(i, enforced)
  <2>1. Closed(i, enforced) = i.grants
    BY <1>3 DEF FailClosed, Shut, Closed
  <2> QED
    BY <2>1, <1>1, <1>3
<1> QED
  BY <1>2, <1>3

(* The Linux chain, the userspace filter and the macOS anchor all decide   *)
(* as the closed grants say.                                               *)
LEMMA ChainsMean ==
  ASSUME NEW i \in Ingresses, NEW enforced \in BOOLEAN, NEW pq \in BOOLEAN, NEW p \in Services
  PROVE  /\ LinuxAccepts(i, enforced, pq, p) = Decides(Closed(i, enforced), pq, p)
         /\ Verdict(CompileRules(i), p) = Decides(Closed(i, FALSE), FALSE, p)
         /\ Verdict(PfRules(i, pq), p) = Decides(Closed(i, FALSE), pq, p)
<1>1. LinuxAccepts(i, enforced, pq, p) = Decides(Closed(i, enforced), pq, p)
  <2> DEFINE g == Closed(i, enforced)
  <2>1. g \in GrantSets
    BY FailClosedMeans
  <2>2. LinuxAccepts(i, enforced, pq, p) = Verdict(PeerRules(g, pq), p)
    BY Zenon DEF LinuxAccepts, Closed
  <2> HIDE DEF g
  <2>3. PeerRules(g, pq) = Exchange(pq) \o Refusals(g) \o Pings(g) \o Openings(g) \o TheRest
    BY Zenon DEF PeerRules, Exchange, Refusals, Pings, Openings, TheRest
  <2>4. Verdict(Exchange(pq) \o Refusals(g) \o Pings(g) \o Openings(g) \o TheRest, p) = Decides(g, pq, p)
    BY <2>1, ChainDecides
  <2> QED
    BY <2>2, <2>3, <2>4, Zenon DEF g
<1>2. Verdict(CompileRules(i), p) = Decides(Closed(i, FALSE), FALSE, p)
  <2> DEFINE g == Closed(i, FALSE)
             h == i.grants
             closed == h.deny_tcp \cup (IF i.ssh.users # {} /\ SshRestricted(i.ssh) THEN {SSH_PORT} ELSE {})
  <2>1. /\ g \in GrantSets /\ g.all = h.all /\ g.icmp = h.icmp /\ g.tcp = h.tcp /\ g.udp = h.udp
        /\ g.deny_udp = h.deny_udp /\ g.deny_icmp = h.deny_icmp
        /\ g.deny_tcp = h.deny_tcp \cup (IF Shut(i, FALSE) THEN {SSH_PORT} ELSE {})
    BY FailClosedMeans
  <2>2. g.deny_tcp = closed
    BY <2>1 DEF Shut
  <2>3. CompileRules(i) = <<On("tcp", closed, FALSE), On("udp", h.deny_udp, FALSE)>>
                          \o When(h.deny_icmp, <<On("icmp", {}, FALSE)>>)
                          \o (IF h.all THEN <<On(AnyProto, AclPorts, TRUE)>>
                              ELSE <<On("tcp", h.tcp, TRUE), On("udp", h.udp, TRUE)>>
                                   \o When(h.icmp, <<On("icmp", {}, TRUE)>>))
    BY Zenon DEF CompileRules
  <2> HIDE DEF g, h, closed
  <2>4. CompileRules(i) = Refusals(g) \o Pings(g) \o Openings(g)
    BY <2>1, <2>2, <2>3, Zenon DEF Refusals, Pings, Openings
  <2>5. Verdict(Refusals(g) \o Pings(g) \o Openings(g), p) = Decides(g, FALSE, p)
    BY <2>1, ChainDecides
  <2> QED
    BY <2>4, <2>5, Zenon DEF g
<1>3. Verdict(PfRules(i, pq), p) = Decides(Closed(i, FALSE), pq, p)
  <2> DEFINE g == Closed(i, FALSE)
             head == Exchange(pq) \o Refusals(g) \o Pings(g)
             o == Openings(g)
             z == TheRest
  <2>1. g \in GrantSets
    BY FailClosedMeans
  <2>2. PfRules(i, pq) = head \o (IF g.all THEN o ELSE o \o z)
    <3>1. CASE g.all
      BY <3>1, Zenon DEF PfRules, Closed, Exchange, Refusals, Pings, Openings, TheRest
    <3>2. CASE ~g.all
      BY <3>2, Zenon DEF PfRules, Closed, Exchange, Refusals, Pings, Openings, TheRest
    <3> QED
      BY <3>1, <3>2
  <2> HIDE DEF g
  <2>3. /\ Exchange(pq) \in Seq(ChainRules) /\ Refusals(g) \in Seq(ChainRules) /\ Pings(g) \in Seq(ChainRules)
        /\ o \in Seq(ChainRules) /\ z \in Seq(ChainRules)
    BY <2>1, PartsDecide
  <2>4. head \in Seq(ChainRules)
    BY <2>3
  <2>5. Verdict(head \o o, p) = Decides(g, pq, p) /\ Verdict(head \o o \o z, p) = Decides(g, pq, p)
    BY <2>1, ChainDecides
  <2> HIDE DEF head, o, z
  <2> DEFINE w == o \o z
  <2>6. /\ w \in Seq(ChainRules)
        /\ Verdict(w, p) = IF Hits(o, p) # {} THEN Verdict(o, p) ELSE Verdict(z, p)
    BY <2>3, VerdictOfTwo
  <2>7. PfRules(i, pq) = IF g.all THEN head \o o ELSE head \o w
    BY <2>2
  <2> HIDE DEF w
  <2>8. Verdict(head \o o, p) = IF Hits(head, p) # {} THEN Verdict(head, p) ELSE Verdict(o, p)
    BY <2>3, <2>4, VerdictOfTwo
  <2>9. Verdict(head \o w, p) = IF Hits(head, p) # {} THEN Verdict(head, p) ELSE Verdict(w, p)
    BY <2>6, <2>4, VerdictOfTwo
  <2>10. /\ (Hits(o, p) # {}) <=> Let(g, p)
         /\ Verdict(o, p) = Let(g, p) /\ Verdict(z, p) = FALSE
    BY <2>1, PartsDecide DEF o, z
  <2>11. Verdict(w, p) = Verdict(o, p)
    BY <2>6, <2>10 DEF Let
  <2>12. Verdict(head \o w, p) = Decides(g, pq, p)
    BY <2>5, <2>8, <2>9, <2>11
  <2> QED
    <3>1. Verdict(PfRules(i, pq), p) = Decides(g, pq, p)
      BY <2>5, <2>7, <2>12, Zenon
    <3> QED
      BY <3>1, Zenon DEF g
<1> QED
  BY <1>1, <1>2, <1>3

LEMMA CompiledTyped ==
  ASSUME NEW v \in Views, NEW cap \in BOOLEAN
  PROVE  Compiled(v, cap) \in Ingresses /\ Unapplied.ingress \in Ingresses
<1>1. \A actions : SshUsers(v, "s", "d", actions) \subseteq Logins \cup {"*"}
  BY ViewFacts, AclAssumption DEF SshUsers
<1>2. SshGrant(v, "s", "d") \in [users : SUBSET (Logins \cup {"*"}), deny : SUBSET (Logins \cup {"*"})]
  <2> DEFINE allow == SshUsers(v, "s", "d", {"allow", "check"})
             deny == SshUsers(v, "s", "d", {"deny"})
  <2>1. allow \subseteq Logins \cup {"*"} /\ deny \subseteq Logins \cup {"*"}
    BY <1>1
  <2>2. SshGrant(v, "s", "d") = IF "*" \in deny THEN [users |-> {}, deny |-> {}]
                                ELSE IF "*" \in allow THEN [users |-> {"*"}, deny |-> deny]
                                ELSE [users |-> allow \ deny, deny |-> {}]
    BY Zenon DEF SshGrant
  <2> HIDE DEF allow, deny
  <2> QED
    BY <2>1, <2>2
<1> QED
  BY <1>2, GrantsTyped DEF Compiled, PeerIngressFor, Ingresses, Unapplied

(* Away from SSH's port the compiled grants, closed or not, let a flow     *)
(* through exactly when the evaluator does.                                *)
LEMMA GrantsFollowEvaluator ==
  ASSUME NEW v \in Views, NEW cap \in BOOLEAN, NEW enforced \in BOOLEAN, NEW pq \in BOOLEAN, NEW p \in Services,
         p.proto \in {"tcp", "udp"}, p.port # SSH_PORT, pq => p.port # PQ_PORT
  PROVE  Decides(Closed(Compiled(v, cap), enforced), pq, p)
           <=> AllowsFlow(v, "s", "d", p.port, p.proto, FALSE)
<1> DEFINE i == Compiled(v, cap)
           h == i.grants
           g == Closed(i, enforced)
           m == Matching(v, "s", "d", p.port, p.proto, FALSE)
           allows == Acting(v, "allow")
           denies == Acting(v, "deny")
<1>1. p.port \in AclPorts /\ p.proto # "icmp"
  BY DEF Services
<1>2. i \in Ingresses /\ h = PeerGrants(v, "s", "d", cap) /\ h \in GrantSets
  BY CompiledTyped, GrantsTyped DEF Compiled, PeerIngressFor
<1>3. /\ g \in GrantSets /\ g.all = h.all /\ g.tcp = h.tcp /\ g.udp = h.udp /\ g.deny_udp = h.deny_udp
      /\ g.deny_tcp = h.deny_tcp \cup (IF Shut(i, enforced) THEN {SSH_PORT} ELSE {})
  BY <1>2, FailClosedMeans
<1>4. AllowsFlow(v, "s", "d", p.port, p.proto, FALSE)
        <=> /\ ~Acts(m, "deny")
            /\ Acts(m, "allow") \/ ImplicitDefaultAllows(v)
  BY DEF AllowsFlow
<1>5. /\ Acts(m, "deny") <=> Named(denies, p.proto, p.port)
      /\ Acts(m, "allow") <=> Named(allows, p.proto, p.port)
  <2>1. \A r : r \in m <=> /\ r \in Between(v)
                           /\ (r.ports = {} \/ p.port \in r.ports) /\ (r.protos = {} \/ p.proto \in r.protos)
    BY <1>1, MatchNarrows
  <2> HIDE DEF m
  <2> QED
    BY <2>1 DEF Acts, Acting, Named
<1>6. /\ AllShut(v) => Named(denies, p.proto, p.port)
      /\ (\E r \in allows : Unrestricted(r)) => Named(allows, p.proto, p.port)
  BY DEF AllShut, Unrestricted, Named
<1>7. Decides(g, pq, p) <=> (~Barred(g, p) /\ Let(g, p))
  BY DEF Decides
<1>8. Barred(g, p) <=> \/ p.proto = "tcp" /\ p.port \in h.deny_tcp
                       \/ p.proto = "udp" /\ p.port \in h.deny_udp
  BY <1>1, <1>3 DEF Barred
<1>9. Let(g, p) <=> \/ h.all
                    \/ p.proto = "tcp" /\ p.port \in h.tcp
                    \/ p.proto = "udp" /\ p.port \in h.udp
  BY <1>1, <1>3 DEF Let
<1>10. /\ AllShut(v) => h = Nothing
       /\ ~AllShut(v) =>
            /\ h.all <=> AllOpen(v)
            /\ p.port \in h.deny_tcp <=> Named(denies, "tcp", p.port)
            /\ p.port \in h.deny_udp <=> Named(denies, "udp", p.port)
            /\ p.port \in h.udp <=> (~AllOpen(v) /\ Named(allows, "udp", p.port))
            /\ p.port \in h.tcp => Named(allows, "tcp", p.port)
            /\ (~AllOpen(v) /\ Named(allows, "tcp", p.port)) => p.port \in h.tcp
  BY <1>1, <1>2, GrantsMean
<1> HIDE DEF i, h, g, m, allows, denies
<1>11. CASE AllShut(v)
  <2>1. h.all = FALSE /\ h.tcp = {} /\ h.udp = {}
    BY <1>10, <1>11 DEF Nothing
  <2> QED
    BY <2>1, <1>4, <1>5, <1>6, <1>7, <1>9, <1>11 DEF g, i
<1>12. CASE ~AllShut(v)
  <2>1. AllOpen(v) <=> (ImplicitDefaultAllows(v) \/ \E r \in allows : Unrestricted(r))
    BY DEF AllOpen, allows
  <2> QED
    BY <2>1, <1>4, <1>5, <1>6, <1>7, <1>8, <1>9, <1>10, <1>12 DEF g, i
<1> QED
  BY <1>11, <1>12

(* The SSH grant and the evaluator's answer for one user.                  *)
LEMMA SshGrantMeans ==
  ASSUME NEW v \in Views, NEW u \in Logins
  PROVE  LET grant == SshGrant(v, "s", "d")
         IN /\ (grant.users = {"*"} /\ grant.deny = {}) => AllowsSsh(v, "s", "d", u)
            /\ (grant.users # {} /\ u \in SshdLogins([grants |-> Nothing, ssh |-> grant]))
                 => AllowsSsh(v, "s", "d", u)
            /\ AllowsSsh(v, "s", "d", u) =>
                 /\ grant.users # {}
                 /\ u \in SshdLogins([grants |-> Nothing, ssh |-> grant])
                 /\ SshGoverned(v, "s", "d")
<1> DEFINE allow == SshUsers(v, "s", "d", {"allow", "check"})
           deny == SshUsers(v, "s", "d", {"deny"})
           grant == SshGrant(v, "s", "d")
<1>1. grant = IF "*" \in deny THEN [users |-> {}, deny |-> {}]
              ELSE IF "*" \in allow THEN [users |-> {"*"}, deny |-> deny]
              ELSE [users |-> allow \ deny, deny |-> {}]
  BY Zenon DEF SshGrant
<1>2. AllowsSsh(v, "s", "d", u) <=> ({u, "*"} \cap deny = {} /\ {u, "*"} \cap allow # {})
  BY DEF AllowsSsh
<1>3. allow # {} => SshGoverned(v, "s", "d")
  <2>1. \A r \in v.acl.ssh : r.action \in {"allow", "check"} => r.action # "deny"
    OBVIOUS
  <2> QED
    BY <2>1 DEF SshUsers, Selects, SshGoverned
<1>4. SshdLogins([grants |-> Nothing, ssh |-> grant])
        = IF grant.users = {} \/ (grant.users = {"*"} /\ grant.deny = {}) THEN Logins
          ELSE (IF "*" \in grant.users THEN Logins ELSE grant.users \cap Logins) \ grant.deny
  BY DEF SshdLogins, SshRestricted
<1> HIDE DEF allow, deny, grant
<1>5. CASE "*" \in deny
  <2>1. grant.users = {} /\ grant.deny = {}
    BY <1>1, <1>5
  <2> QED
    BY <2>1, <1>2, <1>5 DEF grant
<1>6. CASE "*" \notin deny /\ "*" \in allow
  <2>1. grant.users = {"*"} /\ grant.deny = deny
    BY <1>1, <1>6
  <2> QED
    BY <2>1, <1>2, <1>3, <1>4, <1>6 DEF grant
<1>7. CASE "*" \notin deny /\ "*" \notin allow
  <2>1. grant.users = allow \ deny /\ grant.deny = {}
    BY <1>1, <1>7
  <2> QED
    BY <2>1, <1>2, <1>3, <1>4, <1>7 DEF grant
<1> QED
  BY <1>5, <1>6, <1>7

(* A grant with users comes from an SSH rule that governs the pair.        *)
LEMMA UsersAreGoverned ==
  ASSUME NEW v \in Views, SshGrant(v, "s", "d").users # {}
  PROVE  SshGoverned(v, "s", "d")
<1> DEFINE allow == SshUsers(v, "s", "d", {"allow", "check"})
           deny == SshUsers(v, "s", "d", {"deny"})
           grant == SshGrant(v, "s", "d")
<1>1. grant = IF "*" \in deny THEN [users |-> {}, deny |-> {}]
              ELSE IF "*" \in allow THEN [users |-> {"*"}, deny |-> deny]
              ELSE [users |-> allow \ deny, deny |-> {}]
  BY Zenon DEF SshGrant
<1>2. allow # {} => SshGoverned(v, "s", "d")
  BY DEF SshUsers, Selects, SshGoverned
<1> HIDE DEF allow, deny
<1>3. grant.users # {} => allow # {}
  BY <1>1
<1> QED
  BY <1>2, <1>3

(* What the applied map is: nothing yet, or compiled from some view, with  *)
(* sshd carrying its logins if that was proved.                            *)
AppliedMap ==
  \/ held = Unapplied
  \/ \E v \in Views, cap \in BOOLEAN :
       /\ held.view = {v} /\ held.ingress = Compiled(v, cap)
       /\ held.enforced => sshd = SshdLogins(held.ingress)
(* The inductive invariant of the access policy.                           *)
AclIInv ==
  /\ acl \in AclDocuments /\ passes \in BOOLEAN /\ recent \in BOOLEAN /\ capable \in BOOLEAN
  /\ held.enforced \in BOOLEAN /\ sshd \subseteq Logins
  /\ AppliedMap

LEMMA AclInitially == AclInit => AclIInv
<1> SUFFICES ASSUME AclInit PROVE AclIInv
  OBVIOUS
<1>1. held.enforced \in BOOLEAN
  BY DEF AclInit, Unapplied
<1> QED
  BY <1>1 DEF AclInit, AclIInv, AppliedMap

LEMMA AclStep == AclIInv /\ [AclNext]_aclVars => AclIInv'
<1> SUFFICES ASSUME AclIInv, [AclNext]_aclVars PROVE AclIInv'
  OBVIOUS
<1> USE DEF AclIInv
<1>1. CASE SubjectChanges
  <2>1. UNCHANGED <<acl, capable, held, sshd>> /\ passes' \in BOOLEAN /\ recent' \in BOOLEAN
    BY <1>1 DEF SubjectChanges
  <2> QED
    BY <2>1 DEF AppliedMap
<1>2. CASE ReportCapabilities
  <2>1. UNCHANGED <<acl, passes, recent, held, sshd>> /\ capable' \in BOOLEAN
    BY <1>2 DEF ReportCapabilities
  <2> QED
    BY <2>1 DEF AppliedMap
<1>3. ASSUME NEW active \in BOOLEAN, ApplyPeerMap(active) PROVE AclIInv'
  <2> DEFINE i == Compiled(View, capable)
  <2>1. View \in Views
    BY DEF View, Views
  <2>2. /\ held' = [ingress |-> i, enforced |-> active, view |-> {View}]
        /\ sshd' = (IF active THEN SshdLogins(i) ELSE sshd)
        /\ UNCHANGED <<acl, passes, recent, capable>>
    BY <1>3 DEF ApplyPeerMap, Compiled
  <2>3. SshdLogins(i) \subseteq Logins
    BY DEF SshdLogins
  <2> HIDE DEF i
  <2>4. held'.ingress = i /\ held'.enforced = active /\ held'.view = {View}
    BY <2>2
  <2>5. AppliedMap'
    BY <2>1, <2>2, <2>4 DEF AppliedMap, i
  <2> QED
    BY <2>2, <2>3, <2>4, <2>5
<1>4. CASE UNCHANGED aclVars
  BY <1>4 DEF aclVars, AppliedMap
<1> QED
  BY <1>1, <1>2, <1>3, <1>4 DEF AclNext

LEMMA HeldTyped ==
  ASSUME AclIInv
  PROVE  held.ingress \in Ingresses
<1>1. CASE held = Unapplied
  <2>1. Unapplied.ingress \in Ingresses
    BY DEF Unapplied, Ingresses, GrantSets, Nothing
  <2> QED
    BY <1>1, <2>1
<1>2. CASE held # Unapplied
  BY <1>2, CompiledTyped DEF AclIInv, AppliedMap
<1> QED
  BY <1>1, <1>2

LEMMA InvChainFollowsEvaluator == AclIInv => ChainFollowsEvaluator
<1> SUFFICES ASSUME AclIInv, NEW v \in held.view, NEW p \in Services, NEW pq \in BOOLEAN,
                    p.proto \in {"tcp", "udp"}, p.port # SSH_PORT, pq => p.port # PQ_PORT
             PROVE  LinuxAccepts(held.ingress, held.enforced, pq, p)
                      <=> AllowsFlow(v, "s", "d", p.port, p.proto, FALSE)
  BY DEF ChainFollowsEvaluator
<1>1. held # Unapplied
  BY DEF Unapplied
<1>2. PICK cap \in BOOLEAN : v \in Views /\ held.ingress = Compiled(v, cap)
  BY <1>1 DEF AclIInv, AppliedMap
<1>3. held.enforced \in BOOLEAN /\ held.ingress \in Ingresses
  BY HeldTyped DEF AclIInv
<1>4. LinuxAccepts(held.ingress, held.enforced, pq, p) = Decides(Closed(held.ingress, held.enforced), pq, p)
  BY <1>3, ChainsMean
<1>5. Decides(Closed(Compiled(v, cap), held.enforced), pq, p)
        <=> AllowsFlow(v, "s", "d", p.port, p.proto, FALSE)
  BY <1>2, <1>3, GrantsFollowEvaluator
<1> QED
  BY <1>2, <1>4, <1>5

LEMMA InvFiltersAgree == AclIInv => FiltersAgree
<1> SUFFICES ASSUME AclIInv, NEW p \in Services
             PROVE  /\ Verdict(CompileRules(held.ingress), p) = LinuxAccepts(held.ingress, FALSE, FALSE, p)
                    /\ \A pq \in BOOLEAN :
                         Verdict(PfRules(held.ingress, pq), p) = LinuxAccepts(held.ingress, FALSE, pq, p)
  BY DEF FiltersAgree
<1>1. held.ingress \in Ingresses
  BY HeldTyped
<1>2. ASSUME NEW pq \in BOOLEAN, NEW i \in Ingresses, NEW off \in BOOLEAN, off = FALSE
      PROVE  /\ LinuxAccepts(i, off, pq, p) = Decides(Closed(i, off), pq, p)
             /\ Verdict(CompileRules(i), p) = Decides(Closed(i, off), off, p)
             /\ Verdict(PfRules(i, pq), p) = Decides(Closed(i, off), pq, p)
  BY <1>2, ChainsMean
<1>3. \A pq \in BOOLEAN :
        /\ LinuxAccepts(held.ingress, FALSE, pq, p) = Decides(Closed(held.ingress, FALSE), pq, p)
        /\ Verdict(CompileRules(held.ingress), p) = Decides(Closed(held.ingress, FALSE), FALSE, p)
        /\ Verdict(PfRules(held.ingress, pq), p) = Decides(Closed(held.ingress, FALSE), pq, p)
  BY <1>1, <1>2
<1> QED
  BY <1>3

SshService == [proto |-> "tcp", port |-> SSH_PORT]
LEMMA SshDecided ==
  ASSUME NEW i \in Ingresses, NEW enforced \in BOOLEAN
  PROVE  /\ SshService \in Services
         /\ LinuxAccepts(i, enforced, FALSE, SshService)
              <=> /\ SSH_PORT \notin i.grants.deny_tcp /\ ~Shut(i, enforced)
                  /\ i.grants.all \/ SSH_PORT \in i.grants.tcp
<1>1. SshService \in Services /\ SshService.proto = "tcp" /\ SshService.port = SSH_PORT
  BY AclAssumption DEF SshService, Services
<1>2. FALSE \in BOOLEAN
  OBVIOUS
<1>3. LinuxAccepts(i, enforced, FALSE, SshService) = Decides(Closed(i, enforced), FALSE, SshService)
  BY <1>1, <1>2, ChainsMean
<1>4. /\ Closed(i, enforced).all = i.grants.all /\ Closed(i, enforced).tcp = i.grants.tcp
      /\ Closed(i, enforced).deny_tcp
           = i.grants.deny_tcp \cup (IF Shut(i, enforced) THEN {SSH_PORT} ELSE {})
  BY FailClosedMeans
<1> QED
  BY <1>1, <1>3, <1>4 DEF Decides, Barred, Let

LEMMA InvLoginsFollowRules == AclIInv => LoginsFollowRules
<1> SUFFICES ASSUME AclIInv, NEW v \in held.view, NEW u \in sshd, SshGoverned(v, "s", "d"),
                    LinuxAccepts(held.ingress, held.enforced, FALSE, [proto |-> "tcp", port |-> SSH_PORT])
             PROVE  AllowsSsh(v, "s", "d", u)
  BY DEF LoginsFollowRules
<1>1. held # Unapplied
  BY DEF Unapplied
<1>2. PICK cap \in BOOLEAN : /\ v \in Views /\ held.ingress = Compiled(v, cap)
                             /\ held.enforced => sshd = SshdLogins(held.ingress)
  BY <1>1 DEF AclIInv, AppliedMap
<1>3. held.enforced \in BOOLEAN /\ held.ingress \in Ingresses /\ u \in Logins
  BY HeldTyped DEF AclIInv
<1> DEFINE i == held.ingress
           h == i.grants
           grant == SshGrant(v, "s", "d")
<1>4. h = PeerGrants(v, "s", "d", cap) /\ i.ssh = grant
  BY <1>2 DEF Compiled, PeerIngressFor
<1>5. /\ SSH_PORT \notin h.deny_tcp /\ ~Shut(i, held.enforced)
      /\ h.all \/ SSH_PORT \in h.tcp
  BY <1>3, SshDecided DEF SshService
<1>6. SSH_PORT \in AclPorts
  BY AclAssumption
<1>7. /\ AllShut(v) => h = Nothing
      /\ ~AllShut(v) => (SSH_PORT \in h.deny_tcp <=> (Named(Acting(v, "deny"), "tcp", SSH_PORT)
                                                      \/ SshClosed(v, cap)))
  BY <1>2, <1>4, <1>6, GrantsMean
<1>8. SshOpen(grant, cap)
  <2>1. ~AllShut(v)
    BY <1>5, <1>7 DEF Nothing
  <2> QED
    BY <2>1, <1>5, <1>7 DEF SshClosed
<1>9. grant.users # {} /\ (held.enforced \/ (grant.users = {"*"} /\ grant.deny = {}))
  BY <1>4, <1>5, <1>8 DEF SshOpen, Shut, SshRestricted
<1>10. SshdLogins(i) = SshdLogins([grants |-> Nothing, ssh |-> grant])
  BY <1>4 DEF SshdLogins
<1> QED
  BY <1>2, <1>3, <1>9, <1>10, SshGrantMeans

LEMMA InvExplainedIsAdmitted == AclIInv => ExplainedIsAdmitted
<1> SUFFICES ASSUME AclIInv, NEW v \in held.view, held.ingress = PeerIngressFor(v, "s", "d", held.enforced)
             PROVE  /\ \A p \in Services : (p.proto # "other" /\ DeviceFlow(v, held.enforced, p.proto, p.port)) =>
                         LinuxAccepts(held.ingress, held.enforced, FALSE, p)
                    /\ \A u \in Logins : (held.enforced /\ ExplainSsh(v, TRUE, u)) =>
                         u \in sshd /\ LinuxAccepts(held.ingress, TRUE, FALSE, [proto |-> "tcp", port |-> SSH_PORT])
  BY DEF ExplainedIsAdmitted
<1>1. held # Unapplied
  BY DEF Unapplied
<1>2. v \in Views /\ (held.enforced => sshd = SshdLogins(held.ingress))
  BY <1>1 DEF AclIInv, AppliedMap
<1>3. held.enforced \in BOOLEAN /\ held.ingress \in Ingresses
  BY HeldTyped DEF AclIInv
<1> DEFINE i == held.ingress
           h == i.grants
           e == held.enforced
           g == Closed(i, e)
           grant == SshGrant(v, "s", "d")
<1>4. h = PeerGrants(v, "s", "d", e) /\ i.ssh = grant
  BY DEF PeerIngressFor
<1>5. SSH_PORT \in AclPorts
  BY AclAssumption
<1>6. /\ AllShut(v) => h = Nothing
      /\ ~AllShut(v) => (SSH_PORT \in h.deny_tcp <=> (Named(Acting(v, "deny"), "tcp", SSH_PORT)
                                                      \/ SshClosed(v, e)))
  BY <1>2, <1>3, <1>4, <1>5, GrantsMean
<1>7. Shut(i, e) => SSH_PORT \in h.deny_tcp \/ h = Nothing
  <2>1. Shut(i, e) => SshClosed(v, e)
    BY <1>2, <1>4, UsersAreGoverned DEF Shut, SshClosed, SshOpen
  <2> QED
    BY <2>1, <1>6
<1>8. ASSUME NEW p \in Services, p.proto # "other", DeviceFlow(v, e, p.proto, p.port)
      PROVE  LinuxAccepts(i, e, FALSE, p)
  <2>1. IngressAdmits(h, p.proto, p.port)
    BY <1>4, <1>8 DEF DeviceFlow
  <2>2. p.proto = "icmp" \/ (p.proto \in {"tcp", "udp"} /\ p.port # NoPort)
    BY <1>8, AclAssumption DEF Services, NoPort
  <2>4. /\ p.proto = "tcp" => p.port \notin h.deny_tcp /\ (h.all \/ p.port \in h.tcp)
        /\ p.proto = "udp" => p.port \notin h.deny_udp /\ (h.all \/ p.port \in h.udp)
        /\ p.proto = "icmp" => ~h.deny_icmp /\ (h.all \/ h.icmp)
    BY <2>1, <2>2 DEF IngressAdmits
  <2>5. LinuxAccepts(i, e, FALSE, p) = Decides(g, FALSE, p)
    BY <1>3, ChainsMean
  <2>6. /\ g.all = h.all /\ g.icmp = h.icmp /\ g.tcp = h.tcp /\ g.udp = h.udp
        /\ g.deny_udp = h.deny_udp /\ g.deny_icmp = h.deny_icmp
        /\ g.deny_tcp = h.deny_tcp \cup (IF Shut(i, e) THEN {SSH_PORT} ELSE {})
    BY <1>3, FailClosedMeans
  <2>7. h = Nothing => ~h.all /\ h.tcp = {}
    BY DEF Nothing
  <2> HIDE DEF i, h, e, g
  <2> QED
    BY <2>2, <2>4, <2>5, <2>6, <2>7, <1>7 DEF Decides, Barred, Let
<1>9. ASSUME NEW u \in Logins, e, ExplainSsh(v, TRUE, u)
      PROVE  u \in sshd /\ LinuxAccepts(i, TRUE, FALSE, [proto |-> "tcp", port |-> SSH_PORT])
  <2>1. e = TRUE
    BY <1>9, <1>3
  <2>2. AllowsSsh(v, "s", "d", u) /\ IngressAdmits(h, "tcp", SSH_PORT)
    BY <1>4, <1>9, <2>1 DEF ExplainSsh
  <2>3. SSH_PORT \notin h.deny_tcp /\ (h.all \/ SSH_PORT \in h.tcp)
    BY <2>2, AclAssumption DEF IngressAdmits, NoPort
  <2>4. LinuxAccepts(i, TRUE, FALSE, SshService)
    BY <1>3, <2>3, SshDecided DEF Shut
  <2>5. SshdLogins(i) = SshdLogins([grants |-> Nothing, ssh |-> grant])
    BY <1>4 DEF SshdLogins
  <2>6. u \in SshdLogins(i)
    BY <2>2, <2>5, <1>2, SshGrantMeans
  <2> QED
    BY <2>1, <2>4, <2>6, <1>2 DEF SshService
<1> QED
  BY <1>8, <1>9

(* The policy's parts agree: the chain a device applied decides as the     *)
(* evaluator did, a login that gets through is one the SSH rules allow,    *)
(* the three filters decide alike and what explain allows is let in; for   *)
(* every catalogue of rules, every set of ports and logins, every document *)
(* and every order of posture changes, reports and applied maps.           *)
THEOREM PolicyAlwaysAgrees == AclSpec => []PolicyInv
<1>1. AclIInv => PolicyInv
  BY InvChainFollowsEvaluator, InvLoginsFollowRules, InvFiltersAgree, InvExplainedIsAdmitted DEF PolicyInv
<1> QED
  BY <1>1, AclInitially, AclStep, PTL DEF AclSpec
-----------------------------------------------------------------------------
(***************************************************************************)
(* The userspace filter (module PacketFilter).                             *)
(***************************************************************************)
FlowStates == [from : {"inbound", "outbound"}, replied : BOOLEAN, expires : Nat, gen : Nat, flow : Nat]
FlowEvents == [id : Nat, kind : {"start", "end", "drop"}]
Entries == [key : Keys, gen : Nat]
FragStates == [from : {"fragment"}, allow : BOOLEAN, own : BOOLEAN, expires : Nat]

(* Buffered events: an id comes twice only as a start, then an end.        *)
Paired(b) ==
  \A i, j \in DOMAIN b : (i < j /\ b[i].id # NoFlow /\ b[i].id = b[j].id) => b[i].kind = "start" /\ b[j].kind = "end"

LEMMA BuffersAreNotOff ==
  ASSUME NEW b \in Seq(FlowEvents)
  PROVE  b # Off
<1>1. Off \in Seq([id : {0}, kind : {"off"}]) /\ Len(Off) = 1 /\ Off[1].kind = "off"
  BY DEF Off
<1>2. SUFFICES ASSUME b = Off PROVE FALSE
  OBVIOUS
<1>3. b[1] \in FlowEvents
  BY <1>1, <1>2
<1> QED
  BY <1>1, <1>2, <1>3 DEF FlowEvents

(* Buffer::push drops from the front only.                                 *)
LEMMA BufferedKeeps ==
  ASSUME NEW b \in Seq(FlowEvents), NEW ev \in Seq(FlowEvents), Paired(b), Paired(ev),
         \A i \in DOMAIN b, j \in DOMAIN ev :
           (b[i].id # NoFlow /\ b[i].id = ev[j].id) => b[i].kind = "start" /\ ev[j].kind = "end"
  PROVE  /\ Buffered(b, ev) \in Seq(FlowEvents) /\ Paired(Buffered(b, ev))
         /\ \A x \in DOMAIN Buffered(b, ev) : \/ \E i \in DOMAIN b : Buffered(b, ev)[x] = b[i]
                                              \/ \E j \in DOMAIN ev : Buffered(b, ev)[x] = ev[j]
<1> DEFINE all == b \o ev
           m == IF Len(all) > MAX_EVENTS THEN Len(all) - MAX_EVENTS + 1 ELSE 1
           r == SubSeq(all, m, Len(all))
<1>1. /\ all \in Seq(FlowEvents) /\ Len(all) = Len(b) + Len(ev) /\ Len(b) \in Nat /\ Len(ev) \in Nat
      /\ DOMAIN b = 1 .. Len(b) /\ DOMAIN ev = 1 .. Len(ev) /\ DOMAIN all = 1 .. Len(all)
      /\ \A i \in 1 .. Len(all) : all[i] = IF i <= Len(b) THEN b[i] ELSE ev[i - Len(b)]
  OBVIOUS
<1>2. Buffered(b, ev) = r
  BY BuffersAreNotOff, Zenon DEF Buffered
<1>3. MAX_EVENTS \in Nat \ {0}
  BY FilterAssumption
<1> HIDE DEF all
<1>4. m \in Int /\ m >= 1 /\ m <= Len(all) + 1 /\ Len(all) \in Nat
  BY <1>1, <1>3
<1> HIDE DEF m
<1>5. /\ r \in Seq(FlowEvents) /\ Len(r) = Len(all) - m + 1
      /\ \A i \in 1 .. Len(all) - m + 1 : r[i] = all[m + i - 1]
  <2>1. \A i \in m .. Len(all) : all[i] \in FlowEvents
    BY <1>1, <1>4
  <2>2. /\ r \in Seq(FlowEvents) /\ Len(r) = (IF m <= Len(all) THEN Len(all) - m + 1 ELSE 0)
        /\ \A i \in 1 .. Len(all) - m + 1 : r[i] = all[m + i - 1]
    BY <2>1, <1>4, SubSeqProperties
  <2> QED
    BY <2>2, <1>4
<1> HIDE DEF r
<1>6. DOMAIN r = 1 .. Len(all) - m + 1
  BY <1>5
<1>7. \A x \in DOMAIN r : m + x - 1 \in 1 .. Len(all) /\ r[x] = all[m + x - 1]
  BY <1>4, <1>5, <1>6
<1>8. \A x \in 1 .. Len(all) : \/ x \in DOMAIN b /\ all[x] = b[x]
                               \/ x > Len(b) /\ x - Len(b) \in DOMAIN ev /\ all[x] = ev[x - Len(b)]
  BY <1>1
<1>9. Paired(all)
  <2> SUFFICES ASSUME NEW i \in 1 .. Len(all), NEW j \in 1 .. Len(all),
                      i < j, all[i].id # NoFlow, all[i].id = all[j].id
               PROVE  all[i].kind = "start" /\ all[j].kind = "end"
    BY <1>1 DEF Paired
  <2>1. CASE j <= Len(b)
    <3>1. i \in DOMAIN b /\ j \in DOMAIN b /\ all[i] = b[i] /\ all[j] = b[j]
      BY <2>1, <1>1
    <3> QED
      BY <3>1 DEF Paired
  <2>2. CASE i > Len(b)
    <3>1. /\ i - Len(b) \in DOMAIN ev /\ j - Len(b) \in DOMAIN ev /\ i - Len(b) < j - Len(b)
          /\ all[i] = ev[i - Len(b)] /\ all[j] = ev[j - Len(b)]
      BY <2>2, <1>1
    <3> QED
      BY <3>1 DEF Paired
  <2>3. CASE i <= Len(b) /\ j > Len(b)
    <3>1. i \in DOMAIN b /\ j - Len(b) \in DOMAIN ev /\ all[i] = b[i] /\ all[j] = ev[j - Len(b)]
      BY <2>3, <1>1
    <3> QED
      BY <3>1
  <2> QED
    BY <2>1, <2>2, <2>3, <1>1
<1>10. Paired(r)
  <2> SUFFICES ASSUME NEW i \in DOMAIN r, NEW j \in DOMAIN r, i < j, r[i].id # NoFlow, r[i].id = r[j].id
               PROVE  r[i].kind = "start" /\ r[j].kind = "end"
    BY DEF Paired
  <2>1. /\ m + i - 1 \in DOMAIN all /\ m + j - 1 \in DOMAIN all /\ m + i - 1 < m + j - 1
        /\ r[i] = all[m + i - 1] /\ r[j] = all[m + j - 1]
    BY <1>1, <1>4, <1>6, <1>7
  <2> QED
    BY <2>1, <1>9 DEF Paired
<1>11. \A x \in DOMAIN r : (\E i \in DOMAIN b : r[x] = b[i]) \/ (\E j \in DOMAIN ev : r[x] = ev[j])
  BY <1>7, <1>8
<1> QED
  BY <1>2, <1>5, <1>10, <1>11

(* SetToSeq lists a finite set, each member once.                          *)
LEMMA Listed ==
  ASSUME NEW S, IsFiniteSet(S)
  PROVE  /\ SetToSeq(S) \in [1 .. Cardinality(S) -> S] /\ Cardinality(S) \in Nat
         /\ \A i, j \in 1 .. Cardinality(S) : SetToSeq(S)[i] = SetToSeq(S)[j] => i = j
<1>1. Cardinality(S) \in Nat /\ ExistsBijection(1 .. Cardinality(S), S)
  BY FS_CardinalityType
<1>2. PICK b \in [1 .. Cardinality(S) -> S] : IsInjective(b)
  BY <1>1 DEF ExistsBijection, Bijection, Injection, IsInjective
<1>3. SetToSeq(S) \in [1 .. Cardinality(S) -> S] /\ IsInjective(SetToSeq(S))
  BY <1>2 DEF SetToSeq
<1> QED
  BY <1>1, <1>3 DEF IsInjective

(* What a table of flows is.                                               *)
Tables == [Keys -> FlowStates \cup {NoState}]
IdsApart(t) ==
  \A k, l \in Keys : (t[k] # NoState /\ t[l] # NoState /\ k # l /\ t[k].flow # NoFlow) => t[k].flow # t[l].flow

LEMMA TrackedAre ==
  ASSUME NEW t \in Tables, NEW k \in Keys, t[k] # NoState
  PROVE  /\ t[k] \in FlowStates /\ t[k].flow \in Nat /\ t[k].gen \in Nat /\ t[k].expires \in Nat
         /\ t[k].from \in {"inbound", "outbound"} /\ t[k].replied \in BOOLEAN
BY DEF Tables, FlowStates

(* The end events of flows: one for each that has an id.                   *)
LEMMA EndsFacts ==
  ASSUME NEW t \in Tables, IdsApart(t), NEW gone \in SUBSET Tracked(t), IsFiniteSet(gone)
  PROVE  /\ Ends(t, gone) \in Seq(FlowEvents) /\ Paired(Ends(t, gone))
         /\ \A i \in DOMAIN Ends(t, gone) :
              /\ Ends(t, gone)[i].kind = "end"
              /\ \E k \in gone : t[k].flow # NoFlow /\ Ends(t, gone)[i].id = t[k].flow
<1> DEFINE S == {k \in gone : t[k].flow # NoFlow}
           keys == SetToSeq(S)
           n == Cardinality(S)
           e == [i \in DOMAIN keys |-> [id |-> t[keys[i]].flow, kind |-> "end"]]
<1>1. Ends(t, gone) = e
  BY Zenon DEF Ends
<1>2. IsFiniteSet(S)
  BY FS_Subset
<1>3. S \subseteq Keys /\ \A k \in S : t[k] # NoState /\ t[k].flow \in Nat /\ t[k].flow # NoFlow /\ k \in gone
  <2>1. Tracked(t) \subseteq Keys /\ \A k \in Tracked(t) : t[k] # NoState
    BY DEF Tracked, Tables
  <2> QED
    BY <2>1, TrackedAre
<1> HIDE DEF S
<1>4. /\ keys \in [1 .. n -> S] /\ n \in Nat
      /\ \A i, j \in 1 .. n : keys[i] = keys[j] => i = j
  BY <1>2, Listed
<1> HIDE DEF keys, n
<1>5. DOMAIN e = 1 .. n /\ \A i \in 1 .. n : e[i] = [id |-> t[keys[i]].flow, kind |-> "end"] /\ keys[i] \in S
  BY <1>4
<1>6. \A i \in 1 .. n : e[i] \in FlowEvents /\ e[i].kind = "end" /\ e[i].id = t[keys[i]].flow
  BY <1>3, <1>5 DEF FlowEvents
<1>7. e \in Seq(FlowEvents)
  <2>1. e \in [1 .. n -> FlowEvents]
    BY <1>5, <1>6
  <2> QED
    BY <2>1, <1>4, SeqDef
<1>8. \A i, j \in 1 .. n : i # j => e[i].id # e[j].id
  BY <1>3, <1>4, <1>5, <1>6 DEF IdsApart
<1> HIDE DEF e
<1>9. Paired(e)
  BY <1>4, <1>5, <1>8 DEF Paired
<1> QED
  BY <1>1, <1>3, <1>5, <1>6, <1>7, <1>9

(* The filter on its way through one packet, and what holds of it.         *)
FragTables == [FragmentKeys -> FragStates \cup {NoState}]
Works == [table : Tables, order : SUBSET Entries, gen : Nat, frags : FragTables, purged : Nat,
          buffer : {Off} \cup Seq(FlowEvents), next : Nat]
EntryOf(t, k) == [key |-> k, gen |-> t[k].gen]
FlowsOK(s) == /\ IsFiniteSet(Tracked(s.table)) /\ Cardinality(Tracked(s.table)) <= MAX_STATES
              /\ IdsApart(s.table) /\ \A k \in Tracked(s.table) : s.table[k].flow <= s.next
QueueOK(s) == /\ IsFiniteSet(s.order) /\ Cardinality(s.order) <= 2 * MAX_STATES
              /\ \A e \in s.order : e.gen <= s.gen
              /\ \A k \in Tracked(s.table) : EntryOf(s.table, k) \in s.order
EventsOK(s) == s.buffer # Off =>
  /\ Paired(s.buffer)
  /\ \A i \in DOMAIN s.buffer :
       /\ s.buffer[i].id <= s.next
       /\ \A k \in Tracked(s.table) :
            (s.table[k].flow # NoFlow /\ s.buffer[i].id = s.table[k].flow) => s.buffer[i].kind = "start"
Core(s) == s \in Works /\ FlowsOK(s) /\ QueueOK(s) /\ EventsOK(s)

FlowsAdmitted(t, adm) == \A k \in Keys : (t[k] # NoState /\ t[k].from = "inbound") => k \in adm
FragsAdmitted(f, adm) ==
  \A k \in Keys : (f[<<k, "inbound">>] # NoState /\ f[<<k, "inbound">>].allow)
                    => k \in adm \/ f[<<k, "inbound">>].own

LEMMA WithoutFacts ==
  ASSUME NEW t \in Tables, NEW gone
  PROVE  /\ Without(t, gone) \in Tables
         /\ \A k \in Keys : Without(t, gone)[k] = IF k \in gone THEN NoState ELSE t[k]
         /\ Tracked(Without(t, gone)) = Tracked(t) \ gone
         /\ \A k \in Tracked(Without(t, gone)) : k \in Keys /\ Without(t, gone)[k] = t[k] /\ t[k] # NoState
         /\ IdsApart(t) => IdsApart(Without(t, gone))
         /\ \A adm : FlowsAdmitted(t, adm) => FlowsAdmitted(Without(t, gone), adm)
<1> DEFINE w == Without(t, gone)
<1>1. w \in Tables /\ DOMAIN w = Keys /\ DOMAIN t = Keys
  BY DEF Without, Tables
<1>2. \A k \in Keys : w[k] = IF k \in gone THEN NoState ELSE t[k]
  BY DEF Without
<1> HIDE DEF w
<1>3. Tracked(w) = Tracked(t) \ gone
  BY <1>1, <1>2 DEF Tracked
<1>4. \A k \in Tracked(w) : k \in Keys /\ w[k] = t[k] /\ t[k] # NoState
  BY <1>1, <1>2 DEF Tracked
<1>5. IdsApart(t) => IdsApart(w)
  BY <1>2 DEF IdsApart
<1>6. \A adm : FlowsAdmitted(t, adm) => FlowsAdmitted(w, adm)
  BY <1>2 DEF FlowsAdmitted
<1> QED
  BY <1>1, <1>2, <1>3, <1>4, <1>5, <1>6 DEF w

LEMMA CoreFields ==
  ASSUME NEW s, Core(s)
  PROVE  /\ s \in Works /\ s.table \in Tables /\ s.order \in SUBSET Entries /\ s.gen \in Nat /\ s.frags \in FragTables
         /\ s.purged \in Nat /\ s.buffer \in {Off} \cup Seq(FlowEvents) /\ s.next \in Nat
         /\ IdsApart(s.table) /\ IsFiniteSet(Tracked(s.table)) /\ IsFiniteSet(s.order)
         /\ Tracked(s.table) \subseteq Keys
         /\ MAX_STATES \in Nat \ {0}
<1>1. s \in Works
  BY DEF Core
<1>2. s.table \in Tables
  BY <1>1 DEF Works
<1> QED
  BY <1>1, <1>2, FilterAssumption DEF Core, Works, FlowsOK, QueueOK, Tracked, Tables

(* The end of flows, as the buffer takes it.                               *)
LEMMA EndsBuffered ==
  ASSUME NEW s, Core(s), NEW gone \in SUBSET Tracked(s.table)
  PROVE  LET b == Buffered(s.buffer, Ends(s.table, gone))
         IN /\ b \in {Off} \cup Seq(FlowEvents)
            /\ b = Off <=> s.buffer = Off
            /\ b # Off => Paired(b)
            /\ b # Off => \A x \in DOMAIN b :
                 \/ \E i \in DOMAIN s.buffer : b[x] = s.buffer[i]
                 \/ \E k \in gone : s.table[k].flow # NoFlow /\ b[x].id = s.table[k].flow
<1> DEFINE ev == Ends(s.table, gone)
           b == Buffered(s.buffer, ev)
<1>1. CASE s.buffer = Off
  <2>1. b = Off
    BY <1>1, Zenon DEF Buffered
  <2> QED
    BY <2>1, <1>1
<1>2. CASE s.buffer # Off
  <2>1. s.buffer \in Seq(FlowEvents) /\ s.table \in Tables /\ IdsApart(s.table) /\ IsFiniteSet(Tracked(s.table))
    BY <1>2, CoreFields
  <2>2. IsFiniteSet(gone)
    BY <2>1, FS_Subset
  <2>3. /\ ev \in Seq(FlowEvents) /\ Paired(ev)
        /\ \A i \in DOMAIN ev : /\ ev[i].kind = "end"
                                /\ \E k \in gone : s.table[k].flow # NoFlow /\ ev[i].id = s.table[k].flow
    BY <2>1, <2>2, EndsFacts
  <2> HIDE DEF ev
  <2>4. Paired(s.buffer)
    BY <1>2 DEF Core, EventsOK
  <2>5. ASSUME NEW i \in DOMAIN s.buffer, NEW j \in DOMAIN ev, s.buffer[i].id # NoFlow, s.buffer[i].id = ev[j].id
        PROVE  s.buffer[i].kind = "start" /\ ev[j].kind = "end"
    <3>1. PICK k \in gone : s.table[k].flow # NoFlow /\ ev[j].id = s.table[k].flow
      BY <2>3
    <3> QED
      BY <3>1, <2>3, <2>5, <1>2 DEF Core, EventsOK
  <2>6. /\ b \in Seq(FlowEvents) /\ Paired(b)
        /\ \A x \in DOMAIN b : (\E i \in DOMAIN s.buffer : b[x] = s.buffer[i]) \/ (\E j \in DOMAIN ev : b[x] = ev[j])
    BY <2>1, <2>3, <2>4, <2>5, BufferedKeeps
  <2> HIDE DEF b
  <2>7. b # Off
    BY <2>6, BuffersAreNotOff
  <2>8. \A x \in DOMAIN b : \/ \E i \in DOMAIN s.buffer : b[x] = s.buffer[i]
                            \/ \E k \in gone : s.table[k].flow # NoFlow /\ b[x].id = s.table[k].flow
    BY <2>3, <2>6
  <2> QED
    BY <2>6, <2>7, <2>8, <1>2 DEF b, ev
<1> QED
  BY <1>1, <1>2

(* Flows that go, with entries that are no longer current.                 *)
LEMMA CoreFewer ==
  ASSUME NEW s, Core(s), NEW gone \in SUBSET Tracked(s.table), NEW p \in Works,
         p.table = Without(s.table, gone), p.buffer = Buffered(s.buffer, Ends(s.table, gone)),
         p.order \subseteq s.order, \A e \in s.order : IsCurrent(e, p.table) => e \in p.order,
         p.gen = s.gen, p.next = s.next
  PROVE  /\ Core(p) /\ Tracked(p.table) = Tracked(s.table) \ gone
         /\ \A k \in Keys : p.table[k] = IF k \in gone THEN NoState ELSE s.table[k]
         /\ p.buffer = Off <=> s.buffer = Off
<1> USE CoreFields
<1>1. /\ p.table \in Tables
      /\ \A k \in Keys : p.table[k] = IF k \in gone THEN NoState ELSE s.table[k]
      /\ Tracked(p.table) = Tracked(s.table) \ gone
      /\ \A k \in Tracked(p.table) : k \in Keys /\ p.table[k] = s.table[k] /\ s.table[k] # NoState
      /\ IdsApart(p.table)
  BY WithoutFacts
<1>2. FlowsOK(p)
  <2>1. /\ IsFiniteSet(Tracked(p.table)) /\ Cardinality(Tracked(p.table)) <= Cardinality(Tracked(s.table))
        /\ Cardinality(Tracked(p.table)) \in Nat /\ Cardinality(Tracked(s.table)) \in Nat
    BY <1>1, FS_Subset, FS_CardinalityType
  <2>2. Cardinality(Tracked(s.table)) <= MAX_STATES
    BY DEF Core, FlowsOK
  <2>3. \A k \in Tracked(p.table) : p.table[k].flow <= p.next
    BY <1>1 DEF Core, FlowsOK
  <2> QED
    BY <2>1, <2>2, <2>3, <1>1 DEF FlowsOK
<1>3. QueueOK(p)
  <2>1. /\ IsFiniteSet(p.order) /\ Cardinality(p.order) <= Cardinality(s.order)
        /\ Cardinality(p.order) \in Nat /\ Cardinality(s.order) \in Nat
    <3>1. IsFiniteSet(s.order) /\ p.order \in SUBSET s.order
      OBVIOUS
    <3>2. IsFiniteSet(p.order) /\ Cardinality(p.order) <= Cardinality(s.order)
      BY <3>1, FS_Subset
    <3> QED
      BY <3>1, <3>2, FS_CardinalityType
  <2>2. Cardinality(s.order) <= 2 * MAX_STATES /\ \A e \in s.order : e.gen <= s.gen
    BY DEF Core, QueueOK
  <2>3. ASSUME NEW k \in Tracked(p.table) PROVE EntryOf(p.table, k) \in p.order
    <3>1. EntryOf(p.table, k) = EntryOf(s.table, k) /\ EntryOf(s.table, k) \in s.order
      BY <1>1 DEF EntryOf, Core, QueueOK
    <3>2. IsCurrent(EntryOf(p.table, k), p.table)
      BY <1>1 DEF IsCurrent, EntryOf
    <3> QED
      BY <3>1, <3>2
  <2> QED
    BY <2>1, <2>2, <2>3 DEF QueueOK
<1>4. EventsOK(p) /\ (p.buffer = Off <=> s.buffer = Off)
  <2> DEFINE b == Buffered(s.buffer, Ends(s.table, gone))
  <2>a. /\ b \in {Off} \cup Seq(FlowEvents)
        /\ b = Off <=> s.buffer = Off
        /\ b # Off => Paired(b)
        /\ b # Off => \A x \in DOMAIN b :
             \/ \E i \in DOMAIN s.buffer : b[x] = s.buffer[i]
             \/ \E k \in gone : s.table[k].flow # NoFlow /\ b[x].id = s.table[k].flow
    BY EndsBuffered, Zenon
  <2>b. p.buffer = b
    OBVIOUS
  <2> HIDE DEF b
  <2>1. /\ p.buffer \in {Off} \cup Seq(FlowEvents)
        /\ p.buffer = Off <=> s.buffer = Off
        /\ p.buffer # Off => Paired(p.buffer)
        /\ p.buffer # Off => \A x \in DOMAIN p.buffer :
             \/ \E i \in DOMAIN s.buffer : p.buffer[x] = s.buffer[i]
             \/ \E k \in gone : s.table[k].flow # NoFlow /\ p.buffer[x].id = s.table[k].flow
    BY <2>a, <2>b
  <2>2. ASSUME p.buffer # Off, NEW x \in DOMAIN p.buffer
        PROVE  /\ p.buffer[x].id <= p.next
               /\ \A k \in Tracked(p.table) :
                    (p.table[k].flow # NoFlow /\ p.buffer[x].id = p.table[k].flow) => p.buffer[x].kind = "start"
    <3>1. CASE \E i \in DOMAIN s.buffer : p.buffer[x] = s.buffer[i]
      BY <3>1, <2>1, <2>2, <1>1 DEF Core, EventsOK
    <3>2. CASE \E k \in gone : s.table[k].flow # NoFlow /\ p.buffer[x].id = s.table[k].flow
      <4>1. PICK g \in gone : s.table[g].flow # NoFlow /\ p.buffer[x].id = s.table[g].flow
        BY <3>2
      <4>2. g \in Keys /\ s.table[g] # NoState /\ s.table[g].flow <= s.next
        BY DEF Core, FlowsOK, Tracked
      <4>3. \A k \in Tracked(p.table) : k # g /\ s.table[k].flow # s.table[g].flow
        BY <4>1, <4>2, <1>1 DEF IdsApart
      <4> QED
        BY <4>1, <4>2, <4>3, <1>1
    <3> QED
      BY <3>1, <3>2, <2>1, <2>2
  <2> QED
    BY <2>1, <2>2 DEF EventsOK
<1> QED
  BY <1>1, <1>2, <1>3, <1>4 DEF Core

(* LiveOnly drops fragments that ran out and keeps the others.             *)
LEMMA LiveOnlyFacts ==
  ASSUME NEW f \in FragTables
  PROVE  LiveOnly(f) \in FragTables /\ \A adm : FragsAdmitted(f, adm) => FragsAdmitted(LiveOnly(f), adm)
<1>1. LiveOnly(f) \in FragTables
  BY DEF LiveOnly, FragTables
<1>2. \A x \in FragmentKeys : LiveOnly(f)[x] = f[x] \/ LiveOnly(f)[x] = NoState
  BY DEF LiveOnly, FragTables
<1>3. \A k \in Keys : <<k, "inbound">> \in FragmentKeys
  BY DEF FragmentKeys
<1> HIDE DEF LiveOnly
<1> QED
  BY <1>1, <1>2, <1>3 DEF FragsAdmitted

(* What a pass over the table leaves: the core, the flows it did not end,  *)
(* and fragments it did not add.                                           *)
Leaves(p, s) ==
  /\ Core(p)
  /\ \A k \in Keys : p.table[k] = s.table[k] \/ p.table[k] = NoState
  /\ p.gen = s.gen /\ p.next = s.next /\ (p.buffer = Off <=> s.buffer = Off)
  /\ \A adm : FlowsAdmitted(s.table, adm) => FlowsAdmitted(p.table, adm)
  /\ \A adm : FragsAdmitted(s.frags, adm) => FragsAdmitted(p.frags, adm)

LEMMA LeavesTransitive ==
  ASSUME NEW p, NEW q, NEW s, Leaves(p, s), Leaves(q, p)
  PROVE  Leaves(q, s)
<1>1. \A k \in Keys : q.table[k] = s.table[k] \/ q.table[k] = NoState
  BY DEF Leaves
<1> QED
  BY <1>1, Zenon DEF Leaves

LEMMA PurgeLeaves ==
  ASSUME NEW s, Core(s), ticks \in Nat
  PROVE  Leaves(Purge(s), s)
<1> DEFINE gone == {k \in Keys : s.table[k] # NoState /\ ~Lives(s.table[k])}
           t == Without(s.table, gone)
           o == IF Cardinality(s.order) > 2 * Cardinality(Tracked(t)) + PURGE_SLACK
                THEN CurrentEntries(s.order, t) ELSE s.order
           b == Buffered(s.buffer, Ends(s.table, gone))
           p == Purge(s)
<1>0. /\ s \in Works /\ s.table \in Tables /\ s.order \in SUBSET Entries /\ s.frags \in FragTables
      /\ Tracked(s.table) \subseteq Keys
  BY CoreFields
<1>1. p = [s EXCEPT !.purged = ticks, !.table = t, !.buffer = b, !.frags = LiveOnly(s.frags), !.order = o]
  BY DEF Purge
<1>2. gone \in SUBSET Tracked(s.table)
  BY <1>0 DEF Tracked, Tables
<1>3. t \in Tables
  BY <1>0, WithoutFacts
<1>4. b \in {Off} \cup Seq(FlowEvents)
  BY <1>2, EndsBuffered
<1>5. o \subseteq s.order /\ \A e \in s.order : IsCurrent(e, t) => e \in o
  BY DEF CurrentEntries
<1>6. LiveOnly(s.frags) \in FragTables
  BY <1>0, LiveOnlyFacts
<1> HIDE DEF t, o, b, gone
<1>7. /\ p \in Works /\ p.table = t /\ p.buffer = b /\ p.order = o /\ p.gen = s.gen /\ p.next = s.next
      /\ p.frags = LiveOnly(s.frags)
  BY <1>0, <1>1, <1>3, <1>4, <1>5, <1>6 DEF Works
<1> HIDE DEF p
<1>8. /\ p.table = Without(s.table, gone) /\ p.buffer = Buffered(s.buffer, Ends(s.table, gone))
      /\ p.order \subseteq s.order /\ \A e \in s.order : IsCurrent(e, p.table) => e \in p.order
  BY <1>5, <1>7 DEF t, b
<1>9. /\ Core(p) /\ \A k \in Keys : p.table[k] = IF k \in gone THEN NoState ELSE s.table[k]
      /\ p.buffer = Off <=> s.buffer = Off
  BY <1>2, <1>7, <1>8, CoreFewer
<1>10. /\ \A adm : FlowsAdmitted(s.table, adm) => FlowsAdmitted(p.table, adm)
       /\ \A adm : FragsAdmitted(s.frags, adm) => FragsAdmitted(p.frags, adm)
  BY <1>0, <1>7, <1>8, WithoutFacts, LiveOnlyFacts
<1> QED
  BY <1>7, <1>9, <1>10 DEF Leaves, p

LEMMA LeavesItself ==
  ASSUME NEW s, Core(s)
  PROVE  Leaves(s, s)
BY DEF Leaves

LEMMA MaybePurgeLeaves ==
  ASSUME NEW s, Core(s), ticks \in Nat
  PROVE  Leaves(MaybePurge(s), s)
BY PurgeLeaves, LeavesItself DEF MaybePurge

(* touch on a flow that ran out.                                           *)
LEMMA LapsedLeaves ==
  ASSUME NEW s, Core(s), NEW k \in Keys
  PROVE  Leaves(Lapsed(s, k), s) /\ Lapsed(s, k).table[k] = NoState
<1>0. /\ s \in Works /\ s.table \in Tables /\ s.order \in SUBSET Entries
  BY CoreFields
<1>1. CASE s.table[k] = NoState
  BY <1>1, LeavesItself DEF Lapsed
<1>2. CASE s.table[k] # NoState
  <2> DEFINE t == Without(s.table, {k})
             b == Buffered(s.buffer, Ends(s.table, {k}))
             p == Lapsed(s, k)
  <2>1. p = [s EXCEPT !.table = t, !.buffer = b]
    BY <1>2 DEF Lapsed
  <2>2. {k} \in SUBSET Tracked(s.table)
    BY <1>0, <1>2 DEF Tracked, Tables
  <2>3. t \in Tables
    BY <1>0, WithoutFacts
  <2>4. b \in {Off} \cup Seq(FlowEvents)
    BY <2>2, EndsBuffered
  <2> HIDE DEF t, b
  <2>5. /\ p \in Works /\ p.table = t /\ p.buffer = b /\ p.order = s.order /\ p.gen = s.gen /\ p.next = s.next
        /\ p.frags = s.frags
    BY <1>0, <2>1, <2>3, <2>4 DEF Works
  <2> HIDE DEF p
  <2>6. p.table = Without(s.table, {k}) /\ p.buffer = Buffered(s.buffer, Ends(s.table, {k}))
    BY <2>5 DEF t, b
  <2>7. p.order \subseteq s.order /\ \A e \in s.order : IsCurrent(e, p.table) => e \in p.order
    BY <2>5
  <2>8. /\ Core(p) /\ \A l \in Keys : p.table[l] = IF l \in {k} THEN NoState ELSE s.table[l]
        /\ p.buffer = Off <=> s.buffer = Off
    BY <2>2, <2>5, <2>6, <2>7, CoreFewer
  <2>9. \A adm : FlowsAdmitted(s.table, adm) => FlowsAdmitted(p.table, adm)
    BY <1>0, <2>6, WithoutFacts
  <2>10. Leaves(p, s)
    BY <2>5, <2>8, <2>9 DEF Leaves
  <2> QED
    BY <2>8, <2>10 DEF p
<1> QED
  BY <1>1, <1>2

(* Eviction from the queue's head leaves room in the table, because every  *)
(* flow has its entry.                                                     *)
LEMMA EvictedLeaves ==
  ASSUME NEW s, Core(s), NEW n \in Nat
  PROVE  /\ Leaves(Evicted(s, n), s)
         /\ Evicted(s, s.gen).table \in Tables /\ Tracked(Evicted(s, s.gen).table) = {}
<1>0. /\ s \in Works /\ s.table \in Tables /\ s.order \in SUBSET Entries /\ s.gen \in Nat
      /\ Tracked(s.table) \subseteq Keys
  BY CoreFields
<1>1. ASSUME NEW m \in Nat
      PROVE  /\ Leaves(Evicted(s, m), s)
             /\ Tracked(Evicted(s, m).table) = Tracked(s.table) \ {e.key : e \in {c \in s.order : c.gen <= m /\ IsCurrent(c, s.table)}}
  <2> DEFINE gone == {e.key : e \in {c \in s.order : c.gen <= m /\ IsCurrent(c, s.table)}}
             t == Without(s.table, gone)
             b == Buffered(s.buffer, Ends(s.table, gone))
             o == {e \in s.order : e.gen > m}
             p == Evicted(s, m)
  <2>1. p = [s EXCEPT !.order = o, !.table = t, !.buffer = b]
    BY DEF Evicted
  <2>2. gone \in SUBSET Tracked(s.table)
    BY <1>0 DEF Tracked, Tables, IsCurrent, Entries
  <2>3. t \in Tables /\ \A k \in Keys : t[k] = IF k \in gone THEN NoState ELSE s.table[k]
    BY <1>0, WithoutFacts
  <2>4. b \in {Off} \cup Seq(FlowEvents)
    BY <2>2, EndsBuffered
  <2>5. \A e \in s.order : IsCurrent(e, t) => e \in o
    <3> SUFFICES ASSUME NEW e \in s.order, IsCurrent(e, t), ~(e.gen > m) PROVE FALSE
      OBVIOUS
    <3>1. e.key \in Keys /\ e.gen \in Nat
      BY <1>0 DEF Entries
    <3>2. e.key \notin gone /\ IsCurrent(e, s.table)
      BY <3>1, <2>3 DEF IsCurrent
    <3> QED
      BY <3>1, <3>2
  <2> HIDE DEF t, b, gone
  <2>6. o \in SUBSET s.order
    OBVIOUS
  <2> HIDE DEF o
  <2>7. /\ p \in Works /\ p.table = t /\ p.buffer = b /\ p.order = o /\ p.gen = s.gen /\ p.next = s.next
        /\ p.frags = s.frags
    BY <1>0, <2>1, <2>3, <2>4, <2>6 DEF Works
  <2> HIDE DEF p
  <2>8. /\ p.table = Without(s.table, gone) /\ p.buffer = Buffered(s.buffer, Ends(s.table, gone))
        /\ p.order \subseteq s.order /\ \A e \in s.order : IsCurrent(e, p.table) => e \in p.order
    BY <2>5, <2>6, <2>7 DEF t, b
  <2>9. /\ Core(p) /\ Tracked(p.table) = Tracked(s.table) \ gone
        /\ \A k \in Keys : p.table[k] = IF k \in gone THEN NoState ELSE s.table[k]
        /\ p.buffer = Off <=> s.buffer = Off
    BY <2>2, <2>7, <2>8, CoreFewer
  <2>10. \A adm : FlowsAdmitted(s.table, adm) => FlowsAdmitted(p.table, adm)
    BY <1>0, <2>8, WithoutFacts
  <2>11. Leaves(p, s)
    BY <2>7, <2>9, <2>10 DEF Leaves
  <2> QED
    BY <2>9, <2>11 DEF p, gone
<1>2. Tracked(Evicted(s, s.gen).table) = {}
  <2> SUFFICES ASSUME NEW k \in Tracked(s.table)
               PROVE  k \in {e.key : e \in {c \in s.order : c.gen <= s.gen /\ IsCurrent(c, s.table)}}
    BY <1>0, <1>1
  <2> DEFINE e == EntryOf(s.table, k)
  <2>1. e \in s.order /\ e.key = k /\ e.gen <= s.gen
    BY DEF Core, QueueOK, EntryOf
  <2>2. IsCurrent(e, s.table)
    BY DEF IsCurrent, EntryOf, Tracked
  <2> HIDE DEF e
  <2> QED
    BY <2>1, <2>2
<1>3. Leaves(Evicted(s, s.gen), s) /\ Leaves(Evicted(s, n), s)
  BY <1>0, <1>1
<1> QED
  BY <1>2, <1>3, CoreFields DEF Leaves

LEMMA MakeRoomLeaves ==
  ASSUME NEW s, Core(s)
  PROVE  Leaves(MakeRoom(s), s) /\ Cardinality(Tracked(MakeRoom(s).table)) < MAX_STATES
<1> DEFINE enough == {n \in {0} \cup {e.gen : e \in s.order} : Cardinality(Tracked(Evicted(s, n).table)) < MAX_STATES}
           cut == IF enough = {} THEN s.gen ELSE Min(enough)
<1>0. s.order \in SUBSET Entries /\ s.gen \in Nat /\ MAX_STATES \in Nat \ {0}
  BY CoreFields
<1>1. MakeRoom(s) = Evicted(s, cut)
  BY Zenon DEF MakeRoom
<1>2. enough \subseteq Nat /\ \A n \in enough : Cardinality(Tracked(Evicted(s, n).table)) < MAX_STATES
  BY <1>0 DEF Entries
<1> HIDE DEF enough
<1>3. CASE enough = {}
  <2>1. cut = s.gen
    BY <1>3
  <2>2. Leaves(Evicted(s, s.gen), s) /\ Tracked(Evicted(s, s.gen).table) = {}
    BY <1>0, EvictedLeaves
  <2> QED
    BY <2>1, <2>2, <1>0, <1>1, FS_EmptySet
<1>4. CASE enough # {}
  <2>1. PICK x \in enough : \A y \in enough : x <= y
    BY <1>2, <1>4, LeastNumber
  <2>2. Min(enough) \in enough
    BY <2>1 DEF Min
  <2>3. cut \in enough
    BY <1>4, <2>2
  <2> HIDE DEF cut
  <2> QED
    BY <2>3, <1>1, <1>2, EvictedLeaves
<1> QED
  BY <1>3, <1>4

(* At most one entry of the queue is current for each flow.                *)
LEMMA CurrentBounded ==
  ASSUME NEW t \in Tables, IsFiniteSet(Tracked(t)), NEW o \in SUBSET Entries
  PROVE  /\ IsFiniteSet(CurrentEntries(o, t))
         /\ Cardinality(CurrentEntries(o, t)) <= Cardinality(Tracked(t))
<1> DEFINE C == CurrentEntries(o, t)
           f == [e \in C |-> e.key]
<1>1. \A e \in C : /\ e \in Entries /\ e.key \in Tracked(t) /\ e.gen = t[e.key].gen
                   /\ e = [key |-> e.key, gen |-> e.gen]
  BY DEF CurrentEntries, IsCurrent, Tracked, Tables, Entries
<1> HIDE DEF C
<1>2. f \in [C -> Tracked(t)] /\ \A e, g \in C : f[e] = f[g] => e = g
  BY <1>1
<1>3. f \in Injection(C, Tracked(t))
  BY <1>2 DEF Injection, IsInjective
<1> QED
  BY <1>3, FS_Injection DEF C

LEMMA InsertKeeps ==
  ASSUME NEW s, Core(s), ticks \in Nat, NEW k \in Keys, s.table[k] = NoState, NEW from \in {"inbound", "outbound"}
  PROVE  LET q == Insert(s, k, from)
         IN /\ Core(q) /\ q.table[k] # NoState /\ q.table[k].from = from
            /\ \A adm : (FlowsAdmitted(s.table, adm) /\ (from = "inbound" => k \in adm)) => FlowsAdmitted(q.table, adm)
            /\ \A adm : FragsAdmitted(s.frags, adm) => FragsAdmitted(q.frags, adm)
<1> DEFINE p == MakeRoom(IF Cardinality(Tracked(s.table)) >= MAX_STATES /\ ticks > s.purged THEN Purge(s) ELSE s)
           id == IF p.buffer # Off THEN p.next + 1 ELSE NoFlow
           st == [from |-> from, replied |-> FALSE, expires |-> ticks + NEW_SECS, gen |-> p.gen + 1, flow |-> id]
           t == [p.table EXCEPT ![k] = st]
           entry == [key |-> k, gen |-> p.gen + 1]
           o == p.order \cup {entry}
           ev == <<[id |-> id, kind |-> "start"]>>
           b == IF id = NoFlow THEN p.buffer ELSE Buffered(p.buffer, ev)
           n == IF id = NoFlow THEN p.next ELSE id
           q == Insert(s, k, from)
<1>1. q = [p EXCEPT !.gen = p.gen + 1, !.next = n, !.table = t, !.order = Trimmed(o, t), !.buffer = b]
  BY DEF Insert
<1>2. Leaves(p, s) /\ Cardinality(Tracked(p.table)) < MAX_STATES
  <2> DEFINE r == IF Cardinality(Tracked(s.table)) >= MAX_STATES /\ ticks > s.purged THEN Purge(s) ELSE s
  <2>1. Leaves(r, s)
    BY PurgeLeaves, LeavesItself
  <2> HIDE DEF r
  <2>2. Core(r)
    BY <2>1 DEF Leaves
  <2>3. Leaves(MakeRoom(r), r) /\ Cardinality(Tracked(MakeRoom(r).table)) < MAX_STATES
    BY <2>2, MakeRoomLeaves
  <2>4. p = MakeRoom(r)
    BY DEF r
  <2> HIDE DEF p
  <2> QED
    BY <2>1, <2>3, <2>4, LeavesTransitive
<1> HIDE DEF p
<1>3. Core(p) /\ p.table[k] = NoState
  BY <1>2 DEF Leaves
<1>4. /\ p \in Works /\ p.table \in Tables /\ p.order \in SUBSET Entries /\ p.gen \in Nat /\ p.next \in Nat
      /\ p.buffer \in {Off} \cup Seq(FlowEvents) /\ IdsApart(p.table) /\ IsFiniteSet(Tracked(p.table))
      /\ IsFiniteSet(p.order) /\ Tracked(p.table) \subseteq Keys /\ MAX_STATES \in Nat \ {0}
  BY <1>3, CoreFields
<1>5. /\ id \in Nat /\ n \in Nat /\ p.next <= n /\ id <= n
      /\ id # NoFlow <=> p.buffer # Off
      /\ id # NoFlow => id = p.next + 1
  BY <1>4 DEF NoFlow
<1> HIDE DEF id, n
<1>6. st \in FlowStates /\ st # NoState /\ st.flow = id /\ st.from = from /\ st.gen = p.gen + 1
  BY <1>4, <1>5, FilterAssumption DEF FlowStates, NoState
<1> HIDE DEF st
<1>7. /\ t \in Tables /\ t[k] = st /\ \A l \in Keys : l # k => t[l] = p.table[l]
      /\ Tracked(t) = Tracked(p.table) \cup {k} /\ k \notin Tracked(p.table)
  BY <1>3, <1>4, <1>6 DEF Tables, Tracked
<1> HIDE DEF t
<1>8. /\ IsFiniteSet(Tracked(t)) /\ Cardinality(Tracked(t)) <= MAX_STATES
      /\ Cardinality(Tracked(t)) \in Nat
  <2>1. Cardinality(Tracked(p.table)) \in Nat
    BY <1>4, FS_CardinalityType
  <2>2. IsFiniteSet(Tracked(t)) /\ Cardinality(Tracked(t)) = Cardinality(Tracked(p.table)) + 1
    BY <1>4, <1>7, FS_AddElement
  <2> QED
    BY <2>1, <2>2, <1>2, <1>4
<1>9. o \in SUBSET Entries /\ IsFiniteSet(o) /\ Cardinality(o) \in Nat
  <2>1. entry \in Entries
    BY <1>4 DEF Entries
  <2> HIDE DEF entry
  <2>2. IsFiniteSet(p.order \cup {entry})
    BY <1>4, FS_AddElement
  <2>3. Cardinality(o) \in Nat
    BY <2>2, FS_CardinalityType
  <2> QED
    BY <2>1, <2>2, <2>3, <1>4
<1>10. \A e \in o : e.gen <= p.gen + 1
  BY <1>3, <1>4 DEF Core, QueueOK, Entries
<1>11. \A l \in Tracked(t) : EntryOf(t, l) \in o /\ IsCurrent(EntryOf(t, l), t)
  <2> SUFFICES ASSUME NEW l \in Tracked(t) PROVE EntryOf(t, l) \in o /\ IsCurrent(EntryOf(t, l), t)
    OBVIOUS
  <2>1. CASE l = k
    BY <2>1, <1>6, <1>7 DEF EntryOf, IsCurrent
  <2>2. CASE l # k
    <3>1. l \in Tracked(p.table) /\ t[l] = p.table[l] /\ l \in Keys
      BY <2>2, <1>4, <1>7
    <3>2. EntryOf(t, l) = EntryOf(p.table, l) /\ EntryOf(p.table, l) \in p.order
      BY <3>1, <1>3 DEF EntryOf, Core, QueueOK
    <3>3. IsCurrent(EntryOf(t, l), t)
      BY <3>1 DEF EntryOf, IsCurrent, Tracked
    <3> QED
      BY <3>2, <3>3
  <2> QED
    BY <2>1, <2>2
<1> HIDE DEF o, entry
<1> DEFINE z == Trimmed(o, t)
<1>12. /\ z \in SUBSET o /\ IsFiniteSet(z) /\ Cardinality(z) <= 2 * MAX_STATES
       /\ \A e \in o : IsCurrent(e, t) => e \in z
  <2>1. CASE Cardinality(o) > 2 * MAX_STATES
    <3>1. z = CurrentEntries(o, t)
      BY <2>1 DEF Trimmed
    <3>2. IsFiniteSet(CurrentEntries(o, t)) /\ Cardinality(CurrentEntries(o, t)) <= Cardinality(Tracked(t))
      BY <1>7, <1>8, <1>9, CurrentBounded
    <3>3. Cardinality(CurrentEntries(o, t)) \in Nat
      BY <3>2, FS_CardinalityType
    <3> QED
      BY <3>1, <3>2, <3>3, <1>4, <1>8 DEF CurrentEntries
  <2>2. CASE ~(Cardinality(o) > 2 * MAX_STATES)
    BY <2>2, <1>4, <1>9 DEF Trimmed
  <2> QED
    BY <2>1, <2>2
<1> HIDE DEF z
<1>13. IdsApart(t) /\ \A l \in Tracked(t) : t[l].flow <= n /\ (l # k => t[l] = p.table[l] /\ t[l].flow <= p.next /\ t[l].flow \in Nat)
  <2>1. \A l \in Tracked(p.table) : p.table[l].flow <= p.next /\ p.table[l].flow \in Nat /\ p.table[l] # NoState /\ l \in Keys
    BY <1>3, <1>4, TrackedAre DEF Core, FlowsOK, Tracked
  <2>2. \A l \in Tracked(t) : l # k => l \in Tracked(p.table) /\ t[l] = p.table[l]
    BY <1>4, <1>7
  <2>3. \A l \in Tracked(t) : l # k => t[l].flow <= p.next /\ t[l].flow \in Nat
    BY <2>1, <2>2
  <2>4. \A l \in Tracked(t) : t[l].flow <= n
    BY <2>3, <1>4, <1>5, <1>6, <1>7
  <2>5. IdsApart(t)
    <3> SUFFICES ASSUME NEW x \in Keys, NEW y \in Keys, t[x] # NoState, t[y] # NoState, x # y, t[x].flow # NoFlow
                 PROVE  t[x].flow # t[y].flow
      BY DEF IdsApart
    <3>0. x \in Tracked(t) /\ y \in Tracked(t)
      BY <1>7 DEF Tracked, Tables
    <3>1. CASE x = k
      BY <3>0, <3>1, <2>3, <1>4, <1>5, <1>6, <1>7
    <3>2. CASE y = k
      BY <3>0, <3>2, <2>3, <1>4, <1>5, <1>6, <1>7
    <3>3. CASE x # k /\ y # k
      BY <3>3, <3>0, <2>1, <2>2, <1>4 DEF IdsApart
    <3> QED
      BY <3>1, <3>2, <3>3
  <2> QED
    BY <2>2, <2>3, <2>4, <2>5
<1>14. /\ b \in {Off} \cup Seq(FlowEvents)
       /\ b # Off => /\ Paired(b)
                     /\ \A x \in DOMAIN b :
                          /\ b[x].id <= n
                          /\ \A l \in Tracked(t) : (t[l].flow # NoFlow /\ b[x].id = t[l].flow) => b[x].kind = "start"
  <2>1. CASE p.buffer = Off
    BY <2>1, <1>5
  <2>2. CASE p.buffer # Off
    <3>1. p.buffer \in Seq(FlowEvents) /\ id # NoFlow /\ id = p.next + 1 /\ n = id
      BY <2>2, <1>4, <1>5 DEF n
    <3>2. Paired(p.buffer) /\ \A i \in DOMAIN p.buffer :
            /\ p.buffer[i].id <= p.next
            /\ \A l \in Tracked(p.table) :
                 (p.table[l].flow # NoFlow /\ p.buffer[i].id = p.table[l].flow) => p.buffer[i].kind = "start"
      BY <2>2, <1>3 DEF Core, EventsOK
    <3>3. ev \in Seq(FlowEvents) /\ DOMAIN ev = {1} /\ ev[1].id = id /\ ev[1].kind = "start"
      BY <1>5 DEF FlowEvents
    <3> HIDE DEF ev
    <3>4. Paired(ev)
      BY <3>3 DEF Paired
    <3>5. \A i \in DOMAIN p.buffer : p.buffer[i].id \in Nat
      <4>1. \A i \in DOMAIN p.buffer : p.buffer[i] \in FlowEvents
        BY <3>1
      <4> QED
        BY <4>1 DEF FlowEvents
    <3>6. \A i \in DOMAIN p.buffer, j \in DOMAIN ev :
            (p.buffer[i].id # NoFlow /\ p.buffer[i].id = ev[j].id) => p.buffer[i].kind = "start" /\ ev[j].kind = "end"
      BY <3>1, <3>2, <3>3, <3>5, <1>4
    <3> DEFINE c == Buffered(p.buffer, ev)
    <3>7. /\ c \in Seq(FlowEvents) /\ Paired(c)
          /\ \A x \in DOMAIN c : (\E i \in DOMAIN p.buffer : c[x] = p.buffer[i]) \/ (\E j \in DOMAIN ev : c[x] = ev[j])
      BY <3>1, <3>2, <3>3, <3>4, <3>6, BufferedKeeps
    <3>8. b = c
      BY <3>1
    <3> HIDE DEF c, b
    <3>9. ASSUME NEW x \in DOMAIN c
          PROVE  /\ c[x].id <= n
                 /\ \A l \in Tracked(t) : (t[l].flow # NoFlow /\ c[x].id = t[l].flow) => c[x].kind = "start"
      <4>1. CASE \E i \in DOMAIN p.buffer : c[x] = p.buffer[i]
        <5>1. PICK i \in DOMAIN p.buffer : c[x] = p.buffer[i]
          BY <4>1
        <5>2. c[x].id <= p.next /\ c[x].id \in Nat
          BY <5>1, <3>2, <3>5
        <5>3. t[k].flow # c[x].id
          BY <5>2, <3>1, <1>4, <1>6, <1>7
        <5>4. \A l \in Tracked(t) : l # k => l \in Tracked(p.table) /\ t[l] = p.table[l]
          BY <1>4, <1>7
        <5> QED
          BY <5>1, <5>2, <5>3, <5>4, <3>1, <3>2, <1>4
      <4>2. CASE \E j \in DOMAIN ev : c[x] = ev[j]
        BY <4>2, <3>1, <3>3, <1>5
      <4> QED
        BY <4>1, <4>2, <3>7
    <3> QED
      BY <3>7, <3>8, <3>9
  <2> QED
    BY <2>1, <2>2
<1> HIDE DEF b
<1>15. /\ q \in Works /\ q.table = t /\ q.order = z /\ q.gen = p.gen + 1 /\ q.next = n /\ q.buffer = b
       /\ q.frags = p.frags
  <2>1. z \in SUBSET Entries /\ p.gen + 1 \in Nat
    BY <1>4, <1>9, <1>12
  <2> QED
    BY <2>1, <1>1, <1>4, <1>5, <1>7, <1>14 DEF Works, z
<1> HIDE DEF q
<1>16. Core(q)
  <2>1. FlowsOK(q)
    BY <1>8, <1>13, <1>15 DEF FlowsOK
  <2>2. QueueOK(q)
    BY <1>10, <1>11, <1>12, <1>15 DEF QueueOK
  <2>3. EventsOK(q)
    BY <1>14, <1>15 DEF EventsOK
  <2> QED
    BY <2>1, <2>2, <2>3, <1>15 DEF Core
<1>17. ASSUME NEW adm, FlowsAdmitted(s.table, adm), from = "inbound" => k \in adm
       PROVE  FlowsAdmitted(q.table, adm)
  BY <1>17, <1>2, <1>6, <1>7, <1>15 DEF FlowsAdmitted, Leaves
<1>18. \A adm : FragsAdmitted(s.frags, adm) => FragsAdmitted(q.frags, adm)
  BY <1>2, <1>15 DEF Leaves
<1> QED
  BY <1>6, <1>7, <1>15, <1>16, <1>17, <1>18 DEF q

(* touch on a live flow changes when it runs out, not whose it is.         *)
LEMMA TouchedKeeps ==
  ASSUME NEW s, Core(s), ticks \in Nat, NEW k \in Keys, s.table[k] # NoState, NEW via
  PROVE  LET q == Touched(s, k, via)
         IN /\ Core(q) /\ q.next = s.next
            /\ \A adm : FlowsAdmitted(s.table, adm) => FlowsAdmitted(q.table, adm)
            /\ q.frags = s.frags
<1> DEFINE q == Touched(s, k, via)
           replied == s.table[k].replied \/ via # s.table[k].from
           expires == ticks + (IF s.table[k].replied \/ via # s.table[k].from THEN REPLIED_SECS ELSE NEW_SECS)
           st == [s.table[k] EXCEPT !.replied = replied, !.expires = expires]
           t == [s.table EXCEPT ![k] = st]
<1>1. /\ s \in Works /\ s.table \in Tables /\ Tracked(s.table) \subseteq Keys
  BY CoreFields
<1>2. s.table[k] \in FlowStates
  BY <1>1, TrackedAre
<1>3. replied \in BOOLEAN /\ expires \in Nat
  BY FilterAssumption
<1>4. q = [s EXCEPT !.table = t]
  <2>1. DOMAIN s.table = Keys /\ DOMAIN s = {"table", "order", "gen", "frags", "purged", "buffer", "next"}
    BY <1>1 DEF Tables, Works
  <2> QED
    BY <2>1, <1>1, <1>2 DEF Touched, Works, Tables, FlowStates
<1> HIDE DEF replied, expires
<1>5. /\ st \in FlowStates /\ st # NoState /\ st.flow = s.table[k].flow /\ st.from = s.table[k].from
      /\ st.gen = s.table[k].gen
  BY <1>2, <1>3 DEF FlowStates, NoState
<1> HIDE DEF st
<1>6. /\ t \in Tables /\ t[k] = st /\ \A l \in Keys : l # k => t[l] = s.table[l]
      /\ Tracked(t) = Tracked(s.table)
  BY <1>1, <1>5 DEF Tables, Tracked
<1> HIDE DEF t
<1>7. \A l \in Keys : /\ t[l] # NoState <=> s.table[l] # NoState
                      /\ t[l] # NoState => /\ t[l].flow = s.table[l].flow /\ t[l].from = s.table[l].from
                                           /\ t[l].gen = s.table[l].gen
  BY <1>5, <1>6
<1>8. /\ q \in Works /\ q.table = t /\ q.order = s.order /\ q.gen = s.gen /\ q.next = s.next /\ q.buffer = s.buffer
      /\ q.frags = s.frags
  BY <1>1, <1>4, <1>6 DEF Works
<1> HIDE DEF q
<1>9. \A l \in Tracked(t) : l \in Keys /\ t[l] # NoState
  BY <1>1, <1>6, <1>7 DEF Tracked
<1>10. FlowsOK(q)
  <2>1. IdsApart(t)
    BY <1>7 DEF Core, FlowsOK, IdsApart
  <2>2. \A l \in Tracked(t) : t[l].flow <= s.next
    BY <1>6, <1>7, <1>9 DEF Core, FlowsOK
  <2> QED
    BY <2>1, <2>2, <1>6, <1>8 DEF Core, FlowsOK
<1>11. QueueOK(q)
  <2>1. \A l \in Tracked(t) : EntryOf(t, l) = EntryOf(s.table, l)
    BY <1>7, <1>9 DEF EntryOf
  <2> QED
    BY <2>1, <1>6, <1>8 DEF Core, QueueOK
<1>12. EventsOK(q)
  BY <1>6, <1>7, <1>8, <1>9 DEF Core, EventsOK
<1>13. \A adm : FlowsAdmitted(s.table, adm) => FlowsAdmitted(q.table, adm)
  BY <1>7, <1>8 DEF FlowsAdmitted
<1> QED
  BY <1>8, <1>10, <1>11, <1>12, <1>13 DEF Core, q

(* A fragment's verdict is remembered as the packet's own.                 *)
LEMMA RememberedKeeps ==
  ASSUME NEW f \in FragTables, ticks \in Nat, NEW k \in Keys, NEW dir \in {"inbound", "outbound"},
         NEW first, NEW allow \in BOOLEAN, NEW own \in BOOLEAN
  PROVE  LET r == Remembered(f, <<k, dir>>, first, allow, own)
         IN /\ r \in FragTables
            /\ \A adm : (FragsAdmitted(f, adm) /\ ((dir = "inbound" /\ allow) => k \in adm \/ own))
                          => FragsAdmitted(r, adm)
<1> DEFINE kept == IF Cardinality(Tracked(f)) >= MAX_FRAGMENTS THEN LiveOnly(f) ELSE f
           st == [from |-> "fragment", allow |-> allow, own |-> own, expires |-> ticks + FRAGMENT_SECS]
           g == [kept EXCEPT ![<<k, dir>>] = st]
           r == Remembered(f, <<k, dir>>, first, allow, own)
<1>1. r = IF ~first THEN f ELSE IF Cardinality(Tracked(kept)) >= MAX_FRAGMENTS THEN kept ELSE g
  BY Zenon DEF Remembered
<1>2. kept \in FragTables /\ \A adm : FragsAdmitted(f, adm) => FragsAdmitted(kept, adm)
  BY LiveOnlyFacts
<1>3. st \in FragStates /\ st.allow = allow /\ st.own = own
  BY FilterAssumption DEF FragStates
<1>4. <<k, dir>> \in FragmentKeys /\ \A l \in Keys : <<l, "inbound">> \in FragmentKeys
  BY DEF FragmentKeys
<1> HIDE DEF kept, st
<1>5. g \in FragTables /\ g[<<k, dir>>] = st
      /\ \A x \in FragmentKeys : x # <<k, dir>> => g[x] = kept[x]
  BY <1>2, <1>3, <1>4 DEF FragTables
<1> HIDE DEF g
<1>6. ASSUME NEW adm, FragsAdmitted(f, adm), (dir = "inbound" /\ allow) => k \in adm \/ own
      PROVE  FragsAdmitted(g, adm)
  <2> SUFFICES ASSUME NEW l \in Keys, g[<<l, "inbound">>] # NoState, g[<<l, "inbound">>].allow
               PROVE  l \in adm \/ g[<<l, "inbound">>].own
    BY DEF FragsAdmitted
  <2>1. CASE <<l, "inbound">> = <<k, dir>>
    <3>1. l = k /\ dir = "inbound" /\ g[<<l, "inbound">>] = st
      BY <2>1, <1>5
    <3> QED
      BY <3>1, <1>3, <1>6
  <2>2. CASE <<l, "inbound">> # <<k, dir>>
    <3>1. g[<<l, "inbound">>] = kept[<<l, "inbound">>]
      BY <2>2, <1>4, <1>5
    <3>2. FragsAdmitted(kept, adm)
      BY <1>2, <1>6
    <3> QED
      BY <3>1, <3>2 DEF FragsAdmitted
  <2> QED
    BY <2>1, <2>2
<1> HIDE DEF r
<1> QED
  BY <1>1, <1>2, <1>5, <1>6 DEF r

(* Ids and fragments aside, what a pass leaves is the filter's new state.  *)
LEMMA CoreSettles ==
  ASSUME NEW s, Core(s), NEW f \in FragTables, NEW n \in Nat, s.next <= n
  PROVE  Core([table |-> s.table, order |-> s.order, gen |-> s.gen, frags |-> f, purged |-> s.purged,
               buffer |-> s.buffer, next |-> n])
<1> DEFINE q == [table |-> s.table, order |-> s.order, gen |-> s.gen, frags |-> f, purged |-> s.purged,
                 buffer |-> s.buffer, next |-> n]
<1>1. /\ s.table \in Tables /\ s.order \in SUBSET Entries /\ s.gen \in Nat /\ s.purged \in Nat
      /\ s.buffer \in {Off} \cup Seq(FlowEvents) /\ s.next \in Nat /\ Tracked(s.table) \subseteq Keys
  BY CoreFields
<1>2. /\ q \in Works /\ q.table = s.table /\ q.order = s.order /\ q.gen = s.gen /\ q.buffer = s.buffer /\ q.next = n
  BY <1>1 DEF Works
<1> HIDE DEF q
<1>3. \A k \in Tracked(s.table) : s.table[k].flow \in Nat
  BY <1>1, TrackedAre DEF Tracked
<1>4. FlowsOK(q)
  BY <1>1, <1>2, <1>3 DEF Core, FlowsOK
<1>5. QueueOK(q)
  BY <1>2 DEF Core, QueueOK
<1>6. EventsOK(q)
  <2>1. CASE s.buffer = Off
    BY <2>1, <1>2 DEF EventsOK
  <2>2. CASE s.buffer # Off
    <3>1. \A i \in DOMAIN s.buffer : s.buffer[i] \in FlowEvents
      BY <2>2, <1>1
    <3>2. \A i \in DOMAIN s.buffer : s.buffer[i].id \in Nat /\ s.buffer[i].id <= s.next
      BY <2>2, <3>1 DEF FlowEvents, Core, EventsOK
    <3>3. \A i \in DOMAIN s.buffer : s.buffer[i].id <= n
      BY <3>2, <1>1
    <3> QED
      BY <2>2, <3>3, <1>2 DEF Core, EventsOK
  <2> QED
    BY <2>1, <2>2
<1> QED
  BY <1>2, <1>4, <1>5, <1>6 DEF Core, q

(* The inductive invariant of the filter.                                  *)
FilterIInv ==
  /\ ticks \in Nat /\ IsFiniteSet(drops)
  /\ Core(Start0) /\ FlowsAdmitted(table, admits) /\ FragsAdmitted(fragments, admits)

LEMMA Start0Fields ==
  /\ Start0.table = table /\ Start0.order = order /\ Start0.gen = generation /\ Start0.frags = fragments
  /\ Start0.purged = lastPurge /\ Start0.buffer = buffer /\ Start0.next = nextFlow
BY DEF Start0

(* The state a packet leaves, from what its passes over the table left.    *)
LEMMA PacketSettles ==
  ASSUME FilterIInv, NEW s, Core(s), NEW f \in FragTables, NEW n \in Nat, s.next <= n,
         FlowsAdmitted(s.table, admits), FragsAdmitted(f, admits), IsFiniteSet(drops'),
         table' = s.table, order' = s.order, generation' = s.gen, lastPurge' = s.purged, buffer' = s.buffer,
         nextFlow' = n, fragments' = f, UNCHANGED <<admits, ticks>>
  PROVE  FilterIInv'
<1>1. Start0' = [table |-> s.table, order |-> s.order, gen |-> s.gen, frags |-> f, purged |-> s.purged,
                 buffer |-> s.buffer, next |-> n]
  BY DEF Start0
<1>2. Core([table |-> s.table, order |-> s.order, gen |-> s.gen, frags |-> f, purged |-> s.purged,
            buffer |-> s.buffer, next |-> n])
  BY CoreSettles
<1>3. Core(Start0')
  BY <1>1, <1>2
<1> QED
  BY <1>3 DEF FilterIInv

LEMMA InboundKeeps ==
  ASSUME FilterIInv, NEW k \in Keys, NEW first, Inbound(k, first)
  PROVE  FilterIInv'
<1> DEFINE s == MaybePurge(Start0)
           known == Lives(s.table[k])
           allow == known \/ k \in admits
           own == known /\ s.table[k].from = "outbound"
           next == IF known THEN Touched(s, k, "inbound")
                   ELSE IF allow THEN Touched(Insert(Lapsed(s, k), k, "inbound"), k, "inbound") ELSE Lapsed(s, k)
           dropped == ~allow /\ DropNoted(k)
           n == IF dropped THEN next.next + 1 ELSE next.next
<1>1. /\ Settle([next EXCEPT !.next = IF dropped THEN @ + 1 ELSE @])
      /\ drops' = (IF dropped THEN drops \cup {k} ELSE drops)
      /\ fragments' = Remembered(next.frags, <<k, "inbound">>, first, allow, own)
      /\ UNCHANGED <<admits, ticks>>
  BY DEF Inbound
<1>2. ticks \in Nat /\ Core(Start0) /\ IsFiniteSet(drops) /\ FlowsAdmitted(Start0.table, admits)
      /\ FragsAdmitted(Start0.frags, admits)
  BY Start0Fields DEF FilterIInv
<1>3. Leaves(s, Start0)
  BY <1>2, MaybePurgeLeaves
<1>4. Core(s) /\ FlowsAdmitted(s.table, admits) /\ FragsAdmitted(s.frags, admits)
  BY <1>2, <1>3 DEF Leaves
<1> HIDE DEF s
<1>5. known => s.table[k] # NoState /\ s.table[k].from \in {"inbound", "outbound"}
  BY <1>4, CoreFields, TrackedAre DEF Lives
<1>6. allow => k \in admits \/ own
  BY <1>4, <1>5 DEF FlowsAdmitted
<1>7. allow \in BOOLEAN /\ own \in BOOLEAN
  BY DEF Lives
<1>8. Core(next) /\ FlowsAdmitted(next.table, admits) /\ FragsAdmitted(next.frags, admits)
  <2>1. CASE known
    <3>1. /\ Core(Touched(s, k, "inbound")) /\ Touched(s, k, "inbound").frags = s.frags
          /\ FlowsAdmitted(Touched(s, k, "inbound").table, admits)
      BY <2>1, <1>2, <1>4, <1>5, TouchedKeeps
    <3> QED
      BY <3>1, <2>1, <1>4
  <2>2. CASE ~known /\ allow
    <3> DEFINE l == Lapsed(s, k)
               q == Insert(l, k, "inbound")
               r == Touched(q, k, "inbound")
    <3>1. Leaves(l, s) /\ l.table[k] = NoState
      BY <1>4, LapsedLeaves
    <3>2. Core(l) /\ FlowsAdmitted(l.table, admits) /\ FragsAdmitted(l.frags, admits)
      BY <3>1, <1>4 DEF Leaves
    <3> HIDE DEF l
    <3>3. /\ Core(q) /\ q.table[k] # NoState
          /\ \A adm : (FlowsAdmitted(l.table, adm) /\ ("inbound" = "inbound" => k \in adm)) => FlowsAdmitted(q.table, adm)
          /\ \A adm : FragsAdmitted(l.frags, adm) => FragsAdmitted(q.frags, adm)
      BY <3>1, <3>2, <1>2, InsertKeeps
    <3>4. FlowsAdmitted(q.table, admits) /\ FragsAdmitted(q.frags, admits)
      BY <3>2, <3>3, <2>2
    <3> HIDE DEF q
    <3>5. Core(r) /\ r.frags = q.frags /\ \A adm : FlowsAdmitted(q.table, adm) => FlowsAdmitted(r.table, adm)
      BY <3>3, <1>2, TouchedKeeps
    <3>6. next = r
      BY <2>2 DEF q, l
    <3> QED
      BY <3>4, <3>5, <3>6
  <2>3. CASE ~known /\ ~allow
    <3>1. Leaves(Lapsed(s, k), s)
      BY <1>4, LapsedLeaves
    <3> QED
      BY <3>1, <2>3, <1>4 DEF Leaves
  <2> QED
    BY <2>1, <2>2, <2>3
<1>9. dropped \in BOOLEAN
  OBVIOUS
<1> HIDE DEF next, dropped, allow, own
<1>10. next \in Works /\ next.frags \in FragTables /\ next.next \in Nat
  BY <1>8, CoreFields
<1>11. n \in Nat /\ next.next <= n
  BY <1>10
<1>12. /\ table' = next.table /\ order' = next.order /\ generation' = next.gen /\ lastPurge' = next.purged
       /\ buffer' = next.buffer /\ nextFlow' = n
  BY <1>1, <1>10 DEF Settle, Works
<1> DEFINE f == Remembered(next.frags, <<k, "inbound">>, first, allow, own)
<1>13. f \in FragTables /\ FragsAdmitted(f, admits)
  <2>1. "inbound" \in {"inbound", "outbound"}
    OBVIOUS
  <2>2. /\ f \in FragTables
        /\ \A adm : (FragsAdmitted(next.frags, adm) /\ (("inbound" = "inbound" /\ allow) => k \in adm \/ own))
                      => FragsAdmitted(f, adm)
    BY <2>1, <1>2, <1>7, <1>10, RememberedKeeps
  <2> QED
    BY <2>2, <1>6, <1>8
<1>14. IsFiniteSet(drops')
  BY <1>1, <1>2, FS_AddElement
<1>15. fragments' = f
  BY <1>1
<1> HIDE DEF f, n
<1> QED
  BY <1>1, <1>8, <1>11, <1>12, <1>13, <1>14, <1>15, PacketSettles

LEMMA OutboundKeeps ==
  ASSUME FilterIInv, NEW k \in Keys, NEW first, Outbound(k, first)
  PROVE  FilterIInv'
<1> DEFINE s == MaybePurge(Start0)
           next == IF Lives(s.table[k]) THEN Touched(s, k, "outbound")
                   ELSE Touched(Insert(Lapsed(s, k), k, "outbound"), k, "outbound")
<1>1. /\ Settle(next) /\ UNCHANGED <<admits, ticks, drops>>
      /\ fragments' = Remembered(next.frags, <<k, "outbound">>, first, TRUE, TRUE)
  BY DEF Outbound
<1>2. ticks \in Nat /\ Core(Start0) /\ IsFiniteSet(drops) /\ FlowsAdmitted(Start0.table, admits)
      /\ FragsAdmitted(Start0.frags, admits)
  BY Start0Fields DEF FilterIInv
<1>3. Leaves(s, Start0)
  BY <1>2, MaybePurgeLeaves
<1>4. Core(s) /\ FlowsAdmitted(s.table, admits) /\ FragsAdmitted(s.frags, admits)
  BY <1>2, <1>3 DEF Leaves
<1> HIDE DEF s
<1>5. Core(next) /\ FlowsAdmitted(next.table, admits) /\ FragsAdmitted(next.frags, admits)
  <2>1. CASE Lives(s.table[k])
    <3>0. s.table[k] # NoState
      BY <2>1 DEF Lives
    <3>1. /\ Core(Touched(s, k, "outbound")) /\ Touched(s, k, "outbound").frags = s.frags
          /\ FlowsAdmitted(Touched(s, k, "outbound").table, admits)
      BY <3>0, <1>2, <1>4, TouchedKeeps
    <3> QED
      BY <3>1, <2>1, <1>4
  <2>2. CASE ~Lives(s.table[k])
    <3> DEFINE l == Lapsed(s, k)
               q == Insert(l, k, "outbound")
               r == Touched(q, k, "outbound")
    <3>1. Leaves(l, s) /\ l.table[k] = NoState
      BY <1>4, LapsedLeaves
    <3>2. Core(l) /\ FlowsAdmitted(l.table, admits) /\ FragsAdmitted(l.frags, admits)
      BY <3>1, <1>4 DEF Leaves
    <3> HIDE DEF l
    <3>3. /\ Core(q) /\ q.table[k] # NoState
          /\ \A adm : (FlowsAdmitted(l.table, adm) /\ ("outbound" = "inbound" => k \in adm)) => FlowsAdmitted(q.table, adm)
          /\ \A adm : FragsAdmitted(l.frags, adm) => FragsAdmitted(q.frags, adm)
      BY <3>1, <3>2, <1>2, InsertKeeps
    <3>4. FlowsAdmitted(q.table, admits) /\ FragsAdmitted(q.frags, admits)
      BY <3>2, <3>3
    <3> HIDE DEF q
    <3>5. Core(r) /\ r.frags = q.frags /\ \A adm : FlowsAdmitted(q.table, adm) => FlowsAdmitted(r.table, adm)
      BY <3>3, <1>2, TouchedKeeps
    <3>6. next = r
      BY <2>2 DEF q, l
    <3> QED
      BY <3>4, <3>5, <3>6
  <2> QED
    BY <2>1, <2>2
<1> HIDE DEF next
<1>6. next \in Works /\ next.frags \in FragTables /\ next.next \in Nat /\ next.next <= next.next
  BY <1>5, CoreFields
<1>7. /\ table' = next.table /\ order' = next.order /\ generation' = next.gen /\ lastPurge' = next.purged
      /\ buffer' = next.buffer /\ nextFlow' = next.next
  BY <1>1 DEF Settle
<1> DEFINE f == Remembered(next.frags, <<k, "outbound">>, first, TRUE, TRUE)
<1>8. f \in FragTables /\ FragsAdmitted(f, admits)
  <2>1. "outbound" \in {"inbound", "outbound"} /\ TRUE \in BOOLEAN
    OBVIOUS
  <2>2. /\ f \in FragTables
        /\ \A adm : (FragsAdmitted(next.frags, adm) /\ (("outbound" = "inbound" /\ TRUE) => k \in adm \/ TRUE))
                      => FragsAdmitted(f, adm)
    BY <2>1, <1>2, <1>6, RememberedKeeps
  <2> QED
    BY <2>2, <1>5
<1>9. fragments' = f /\ IsFiniteSet(drops')
  BY <1>1, <1>2
<1> HIDE DEF f
<1> QED
  BY <1>1, <1>5, <1>6, <1>7, <1>8, <1>9, PacketSettles

LEMMA SetPolicyStep ==
  ASSUME FilterIInv, NEW new \in SUBSET Keys, SetPolicy(new)
  PROVE  FilterIInv'
<1> DEFINE ended == {k \in Tracked(table) : table[k].from = "inbound" /\ k \notin new}
           f == [k \in FragmentKeys |-> NoState]
           t == Without(table, ended)
           b == Buffered(buffer, Ends(table, ended))
           s == Start0
           p == [table |-> t, order |-> s.order, gen |-> s.gen, frags |-> f, purged |-> s.purged,
                 buffer |-> b, next |-> s.next]
<1>1. /\ admits' = new /\ table' = t /\ buffer' = b /\ fragments' = f
      /\ UNCHANGED <<order, generation, lastPurge, ticks, drops, nextFlow>>
  BY DEF SetPolicy
<1>2. /\ ticks \in Nat /\ Core(s) /\ IsFiniteSet(drops)
      /\ s.table = table /\ s.buffer = buffer /\ s.order = order /\ s.gen = generation /\ s.next = nextFlow
      /\ s.purged = lastPurge
  BY Start0Fields DEF FilterIInv
<1>3. s \in Works /\ s.table \in Tables /\ s.order \in SUBSET Entries /\ Tracked(s.table) \subseteq Keys
  BY <1>2, CoreFields
<1>4. ended \in SUBSET Tracked(s.table)
  BY <1>2
<1>5. /\ t \in Tables /\ \A k \in Keys : t[k] = IF k \in ended THEN NoState ELSE table[k]
  BY <1>2, <1>3, WithoutFacts
<1>6. b \in {Off} \cup Seq(FlowEvents)
  <2>1. Buffered(s.buffer, Ends(s.table, ended)) \in {Off} \cup Seq(FlowEvents)
    BY <1>2, <1>4, EndsBuffered
  <2> QED
    BY <2>1, <1>2
<1>7. f \in FragTables /\ FragsAdmitted(f, new)
  <2>1. \A k \in Keys : <<k, "inbound">> \in FragmentKeys
    BY DEF FragmentKeys
  <2> QED
    BY <2>1 DEF FragTables, FragsAdmitted
<1> HIDE DEF t, b, f, s
<1>8. /\ p \in Works /\ p.table = t /\ p.buffer = b /\ p.frags = f /\ p.order = s.order /\ p.gen = s.gen
      /\ p.next = s.next /\ p.purged = s.purged
  BY <1>3, <1>5, <1>6, <1>7 DEF Works
<1>11. Start0' = p
  BY <1>1, <1>2 DEF Start0
<1> HIDE DEF p
<1>9. /\ p.table = Without(s.table, ended) /\ p.buffer = Buffered(s.buffer, Ends(s.table, ended))
      /\ p.order \subseteq s.order /\ \A e \in s.order : IsCurrent(e, p.table) => e \in p.order
  BY <1>2, <1>8 DEF t, b
<1>10. Core(p)
  <2> HIDE DEF ended
  <2> QED
    BY <1>2, <1>4, <1>8, <1>9, CoreFewer
<1>12. FlowsAdmitted(t, new)
  BY <1>2, <1>3, <1>5 DEF FlowsAdmitted, Tracked, Tables
<1> QED
  BY <1>1, <1>2, <1>7, <1>10, <1>11, <1>12 DEF FilterIInv

LEMMA SetTrafficStep ==
  ASSUME FilterIInv, SetTraffic
  PROVE  FilterIInv'
<1> DEFINE s == Start0
           t == [k \in Keys |-> IF table[k] = NoState THEN NoState ELSE [table[k] EXCEPT !.flow = NoFlow]]
<1>1. /\ ticks \in Nat /\ Core(s) /\ IsFiniteSet(drops) /\ FlowsAdmitted(table, admits) /\ FragsAdmitted(fragments, admits)
      /\ s.table = table /\ s.buffer = buffer /\ s.order = order /\ s.gen = generation /\ s.next = nextFlow
      /\ s.purged = lastPurge /\ s.frags = fragments
  BY Start0Fields DEF FilterIInv
<1>2. /\ s \in Works /\ table \in Tables /\ order \in SUBSET Entries /\ generation \in Nat /\ fragments \in FragTables
      /\ lastPurge \in Nat /\ nextFlow \in Nat /\ Tracked(table) \subseteq Keys
  BY <1>1, CoreFields
<1>3. UNCHANGED <<admits, order, generation, fragments, lastPurge, ticks, nextFlow>>
  BY DEF SetTraffic
<1>4. CASE EventsOn
  <2>1. buffer' = Off /\ drops' = {} /\ table' = t
    BY <1>4 DEF SetTraffic
  <2>2. \A k \in Keys : /\ t[k] # NoState <=> table[k] # NoState
                        /\ t[k] # NoState => /\ t[k] \in FlowStates /\ t[k].flow = NoFlow
                                             /\ t[k].from = table[k].from /\ t[k].gen = table[k].gen
    <3> SUFFICES ASSUME NEW k \in Keys, table[k] # NoState
                 PROVE  /\ t[k] # NoState /\ t[k] \in FlowStates /\ t[k].flow = NoFlow
                        /\ t[k].from = table[k].from /\ t[k].gen = table[k].gen
      OBVIOUS
    <3>1. table[k] \in FlowStates /\ t[k] = [table[k] EXCEPT !.flow = NoFlow]
      BY <1>2, TrackedAre
    <3> QED
      BY <3>1 DEF FlowStates, NoState, NoFlow
  <2>3. t \in Tables /\ Tracked(t) = Tracked(table)
    <3>1. DOMAIN t = Keys /\ DOMAIN table = Keys
      BY <1>2 DEF Tables
    <3>2. \A k \in Keys : t[k] \in FlowStates \cup {NoState}
      BY <2>2
    <3>3. t \in Tables
      BY <3>2 DEF Tables
    <3> QED
      BY <3>1, <3>3, <2>2 DEF Tracked
  <2> HIDE DEF t, s
  <2> DEFINE p == [table |-> t, order |-> order, gen |-> generation, frags |-> fragments, purged |-> lastPurge,
                   buffer |-> Off, next |-> nextFlow]
  <2>4. Start0' = p
    BY <2>1, <1>3 DEF Start0
  <2>5. p \in Works /\ p.table = t /\ p.order = order /\ p.gen = generation /\ p.buffer = Off /\ p.next = nextFlow
    BY <1>2, <2>3 DEF Works
  <2> HIDE DEF p
  <2>6. \A k \in Tracked(t) : k \in Keys /\ t[k] # NoState
    BY <1>2, <2>2, <2>3 DEF Tracked
  <2>7. FlowsOK(p)
    <3>1. IdsApart(t)
      BY <2>2 DEF IdsApart
    <3>2. \A k \in Tracked(t) : t[k].flow <= nextFlow
      BY <2>2, <2>6, <1>2 DEF NoFlow
    <3> QED
      BY <3>1, <3>2, <2>3, <2>5, <1>1 DEF Core, FlowsOK
  <2>8. QueueOK(p)
    <3>1. \A k \in Tracked(t) : EntryOf(t, k) = EntryOf(table, k)
      BY <2>2, <2>6 DEF EntryOf
    <3> QED
      BY <3>1, <2>3, <2>5, <1>1 DEF Core, QueueOK
  <2>9. EventsOK(p)
    BY <2>5 DEF EventsOK
  <2>10. FlowsAdmitted(t, admits)
    BY <1>1, <2>2 DEF FlowsAdmitted
  <2>11. Core(Start0')
    BY <2>4, <2>5, <2>7, <2>8, <2>9 DEF Core
  <2> QED
    BY <2>1, <2>10, <2>11, <1>1, <1>3, FS_EmptySet DEF FilterIInv
<1>5. CASE ~EventsOn
  <2>1. buffer' = << >> /\ UNCHANGED <<drops, table>>
    BY <1>5 DEF SetTraffic
  <2> HIDE DEF s
  <2> DEFINE p == [table |-> table, order |-> order, gen |-> generation, frags |-> fragments, purged |-> lastPurge,
                   buffer |-> << >>, next |-> nextFlow]
  <2>2. Start0' = p
    BY <2>1, <1>3 DEF Start0
  <2>3. /\ p \in Works /\ p.table = table /\ p.order = order /\ p.gen = generation /\ p.buffer = << >>
        /\ p.next = nextFlow
    BY <1>2 DEF Works
  <2> HIDE DEF p
  <2>4. FlowsOK(p) /\ QueueOK(p)
    BY <2>3, <1>1 DEF Core, FlowsOK, QueueOK
  <2>5. EventsOK(p)
    BY <2>3 DEF EventsOK, Paired
  <2>6. Core(Start0')
    BY <2>2, <2>3, <2>4, <2>5 DEF Core
  <2> QED
    BY <2>1, <2>6, <1>1, <1>3 DEF FilterIInv
<1> QED
  BY <1>4, <1>5

LEMMA TakeEventsStep ==
  ASSUME FilterIInv, NEW written \in BOOLEAN, TakeEvents(written)
  PROVE  FilterIInv'
<1> DEFINE s == Start0
           m == Cardinality(drops)
           ev == [i \in 1 .. m |-> [id |-> NoFlow, kind |-> "drop"]]
           b == IF written THEN << >> ELSE Buffered(buffer, ev)
<1>1. /\ ticks \in Nat /\ Core(s) /\ IsFiniteSet(drops) /\ FlowsAdmitted(table, admits) /\ FragsAdmitted(fragments, admits)
      /\ s.table = table /\ s.buffer = buffer /\ s.order = order /\ s.gen = generation /\ s.next = nextFlow
      /\ s.purged = lastPurge /\ s.frags = fragments
  BY Start0Fields DEF FilterIInv
<1>2. /\ s \in Works /\ table \in Tables /\ order \in SUBSET Entries /\ generation \in Nat /\ fragments \in FragTables
      /\ lastPurge \in Nat /\ nextFlow \in Nat /\ Tracked(table) \subseteq Keys /\ buffer \in {Off} \cup Seq(FlowEvents)
  BY <1>1, CoreFields
<1>3. /\ UNCHANGED <<admits, table, order, generation, fragments, lastPurge, ticks, nextFlow>>
      /\ buffer # Off /\ drops' = {} /\ buffer' = b
  BY DEF TakeEvents, EventsOn
<1>4. /\ buffer \in Seq(FlowEvents) /\ Paired(buffer)
      /\ \A i \in DOMAIN buffer :
           /\ buffer[i].id <= nextFlow
           /\ \A k \in Tracked(table) : (table[k].flow # NoFlow /\ buffer[i].id = table[k].flow) => buffer[i].kind = "start"
  BY <1>1, <1>2, <1>3 DEF Core, EventsOK
<1>5. /\ b \in Seq(FlowEvents) /\ Paired(b)
      /\ \A x \in DOMAIN b : b[x].id = NoFlow \/ \E i \in DOMAIN buffer : b[x] = buffer[i]
  <2>1. CASE written
    BY <2>1 DEF Paired
  <2>2. CASE ~written
    <3>1. m \in Nat
      BY <1>1, FS_CardinalityType
    <3>2. DOMAIN ev = 1 .. m /\ \A i \in 1 .. m : ev[i] \in FlowEvents /\ ev[i].id = NoFlow
      BY DEF FlowEvents, NoFlow
    <3>3. ev \in Seq(FlowEvents)
      <4>1. ev \in [1 .. m -> FlowEvents]
        BY <3>2
      <4> QED
        BY <4>1, <3>1, SeqDef
    <3> HIDE DEF ev, m
    <3>4. Paired(ev)
      BY <3>2 DEF Paired
    <3>5. \A i \in DOMAIN buffer, j \in DOMAIN ev :
            (buffer[i].id # NoFlow /\ buffer[i].id = ev[j].id) => buffer[i].kind = "start" /\ ev[j].kind = "end"
      BY <3>2
    <3> DEFINE c == Buffered(buffer, ev)
    <3>6. /\ c \in Seq(FlowEvents) /\ Paired(c)
          /\ \A x \in DOMAIN c : (\E i \in DOMAIN buffer : c[x] = buffer[i]) \/ (\E j \in DOMAIN ev : c[x] = ev[j])
      BY <3>3, <3>4, <3>5, <1>4, BufferedKeeps
    <3>7. b = c
      BY <2>2
    <3> HIDE DEF b, c
    <3> QED
      BY <3>2, <3>6, <3>7
  <2> QED
    BY <2>1, <2>2
<1> HIDE DEF b, s
<1> DEFINE p == [table |-> table, order |-> order, gen |-> generation, frags |-> fragments, purged |-> lastPurge,
                 buffer |-> b, next |-> nextFlow]
<1>6. Start0' = p
  BY <1>3 DEF Start0
<1>7. /\ p \in Works /\ p.table = table /\ p.order = order /\ p.gen = generation /\ p.buffer = b
      /\ p.next = nextFlow
  BY <1>2, <1>5 DEF Works
<1> HIDE DEF p
<1>8. FlowsOK(p) /\ QueueOK(p)
  BY <1>7, <1>1 DEF Core, FlowsOK, QueueOK
<1>9. EventsOK(p)
  BY <1>2, <1>4, <1>5, <1>7 DEF EventsOK, NoFlow
<1>10. Core(Start0')
  BY <1>6, <1>7, <1>8, <1>9 DEF Core
<1> QED
  BY <1>1, <1>3, <1>10, FS_EmptySet DEF FilterIInv

LEMMA FilterInitially == FilterInit => FilterIInv
<1> SUFFICES ASSUME FilterInit PROVE FilterIInv
  OBVIOUS
<1> DEFINE t == [k \in Keys |-> NoState]
           f == [k \in FragmentKeys |-> NoState]
           p == [table |-> t, order |-> {}, gen |-> 0, frags |-> f, purged |-> 0, buffer |-> Off, next |-> 0]
<1>1. Start0 = p /\ table = t /\ fragments = f /\ ticks = 0 /\ drops = {}
  BY DEF FilterInit, Start0
<1>2. t \in Tables /\ Tracked(t) = {} /\ \A k \in Keys : t[k] = NoState
  BY DEF Tables, Tracked
<1>3. f \in FragTables /\ \A k \in Keys : f[<<k, "inbound">>] = NoState
  BY DEF FragTables, FragmentKeys
<1> HIDE DEF t, f
<1>4. p \in Works /\ p.table = t /\ p.order = {} /\ p.gen = 0 /\ p.buffer = Off /\ p.next = 0
  BY <1>2, <1>3 DEF Works
<1> HIDE DEF p
<1>5. MAX_STATES \in Nat
  BY FilterAssumption
<1>6. FlowsOK(p)
  BY <1>2, <1>4, <1>5, FS_EmptySet DEF FlowsOK, IdsApart
<1>7. QueueOK(p) /\ EventsOK(p)
  BY <1>2, <1>4, <1>5, FS_EmptySet DEF QueueOK, EventsOK
<1>8. FlowsAdmitted(t, admits) /\ FragsAdmitted(f, admits)
  BY <1>2, <1>3 DEF FlowsAdmitted, FragsAdmitted
<1> QED
  BY <1>1, <1>4, <1>6, <1>7, <1>8, FS_EmptySet DEF FilterIInv, Core

LEMMA FilterStep == FilterIInv /\ [FilterNext]_filterVars => FilterIInv'
<1> SUFFICES ASSUME FilterIInv, [FilterNext]_filterVars PROVE FilterIInv'
  OBVIOUS
<1>1. ASSUME NEW p \in Packets, Inbound(p.key, p.first) PROVE FilterIInv'
  BY <1>1, InboundKeeps DEF Packets
<1>2. ASSUME NEW p \in Packets, Outbound(p.key, p.first) PROVE FilterIInv'
  BY <1>2, OutboundKeeps DEF Packets
<1>3. ASSUME NEW new \in SUBSET Keys, SetPolicy(new) PROVE FilterIInv'
  BY <1>3, SetPolicyStep
<1>4. CASE SetTraffic
  BY <1>4, SetTrafficStep
<1>5. ASSUME NEW written \in BOOLEAN, TakeEvents(written) PROVE FilterIInv'
  BY <1>5, TakeEventsStep
<1>6. CASE FilterTick
  BY <1>6 DEF FilterTick, FilterIInv, Start0
<1>7. CASE UNCHANGED filterVars
  BY <1>7 DEF filterVars, FilterIInv, Start0
<1> QED
  BY <1>1, <1>2, <1>3, <1>4, <1>5, <1>6, <1>7 DEF FilterNext

(* The flow table never holds more than its bound and can always make      *)
(* room, waiting events never end a flow twice or start one after its end, *)
(* and only what the policy in force admits, or the device's own traffic,  *)
(* gets in; for every set of flows and every bound and lifetime.           *)
THEOREM FilterAlwaysSound == FilterSpec => []FilterInv
<1>1. ASSUME FilterIInv PROVE FilterInv
  <2>1. Core(Start0) /\ Start0.table = table /\ Start0.order = order /\ Start0.buffer = buffer
    BY <1>1, Start0Fields DEF FilterIInv
  <2>2. EvictionFindsRoom
    BY <2>1 DEF Core, FlowsOK, QueueOK, EntryOf, EvictionFindsRoom
  <2>3. EventsPair
    BY <2>1 DEF Core, EventsOK, EventsPair, EventsOn, Paired
  <2>4. InboundIsAdmitted
    BY <1>1 DEF FilterIInv, FlowsAdmitted, FragsAdmitted, InboundIsAdmitted, LaterFragment, Lives
  <2> QED
    BY <2>2, <2>3, <2>4 DEF FilterInv
<1> QED
  BY <1>1, FilterInitially, FilterStep, PTL DEF FilterSpec
-----------------------------------------------------------------------------
(* Forwarding: the parts around a set of prefixes.                         *)

(* The domain of a prefix, and the first k bits of an address.             *)
LEMMA PrefixBits ==
  ASSUME NEW p \in NetPrefixes
  PROVE  \E n \in 0..WIDTH : DOMAIN p = 1..n /\ p \in [1..n -> Bits]
  BY DEF NetPrefixes

FirstBits(a, k) == [i \in 1..k |-> a[i]]

LEMMA FirstBitsArePrefix ==
  ASSUME NEW a \in HostAddrs, NEW k \in 0..WIDTH
  PROVE  /\ FirstBits(a, k) \in NetPrefixes
         /\ DOMAIN FirstBits(a, k) = 1..k
         /\ \A i \in 1..k : FirstBits(a, k)[i] = a[i]
         /\ In(a, FirstBits(a, k))
<1>1. WIDTH \in Nat
  BY ForwardingAssumption
<1>2. 1..k \subseteq 1..WIDTH
  BY <1>1
<1>3. FirstBits(a, k) \in [1..k -> Bits]
  BY <1>2 DEF FirstBits, HostAddrs
<1>4. FirstBits(a, k) \in NetPrefixes
  BY <1>3 DEF NetPrefixes
<1>5. DOMAIN a = 1..WIDTH
  BY DEF HostAddrs
<1> QED
  BY <1>2, <1>4, <1>5 DEF FirstBits, In, HoldsPrefix

(* A prefix that holds an address is the address's first bits.             *)
LEMMA PrefixOfAddress ==
  ASSUME NEW a \in HostAddrs, NEW p \in NetPrefixes, In(a, p)
  PROVE  \E n \in 0..WIDTH : p = FirstBits(a, n)
<1>1. PICK n \in 0..WIDTH : DOMAIN p = 1..n /\ p \in [1..n -> Bits]
  BY PrefixBits
<1>2. \A i \in 1..n : p[i] = a[i]
  BY <1>1 DEF In, HoldsPrefix
<1>3. p = [i \in 1..n |-> p[i]]
  BY <1>1
<1>4. p = FirstBits(a, n)
  BY <1>2, <1>3 DEF FirstBits
<1> QED
  BY <1>4

LEMMA HoldsTransitive ==
  ASSUME NEW p, NEW q, NEW r, HoldsPrefix(p, q), HoldsPrefix(q, r)
  PROVE  HoldsPrefix(p, r)
  BY DEF HoldsPrefix

(* Two prefixes of one address: one holds the other.                       *)
LEMMA PrefixesOfOneAddress ==
  ASSUME NEW a \in HostAddrs, NEW p \in NetPrefixes, NEW q \in NetPrefixes, In(a, p), In(a, q)
  PROVE  HoldsPrefix(p, q) \/ HoldsPrefix(q, p)
<1>1. PICK m \in 0..WIDTH : DOMAIN p = 1..m
  BY PrefixBits
<1>2. PICK n \in 0..WIDTH : DOMAIN q = 1..n
  BY PrefixBits
<1>3. (\A i \in 1..m : p[i] = a[i]) /\ (\A i \in 1..n : q[i] = a[i])
  BY <1>1, <1>2 DEF In, HoldsPrefix
<1>4. WIDTH \in Nat
  BY ForwardingAssumption
<1>5. CASE m <= n
  <2>1. 1..m \subseteq 1..n
    BY <1>5
  <2> QED
    BY <2>1, <1>1, <1>2, <1>3 DEF HoldsPrefix
<1>6. CASE n <= m
  <2>1. 1..n \subseteq 1..m
    BY <1>6
  <2> QED
    BY <2>1, <1>1, <1>2, <1>3 DEF HoldsPrefix
<1> QED
  BY <1>4, <1>5, <1>6

(* A host's own prefix holds nothing but itself.                           *)
LEMMA HostHoldsItself ==
  ASSUME NEW a \in HostAddrs, NEW q \in NetPrefixes, HoldsPrefix(a, q)
  PROVE  In(a, q)
<1>1. PICK n \in 0..WIDTH : DOMAIN q = 1..n
  BY PrefixBits
<1>2. WIDTH \in Nat
  BY ForwardingAssumption
<1>3. DOMAIN a = 1..WIDTH
  BY DEF HostAddrs
<1>4. 1..n \subseteq 1..WIDTH
  BY <1>2
<1> QED
  BY <1>1, <1>3, <1>4 DEF In, HoldsPrefix

(* The parts around the excluded prefixes hold every address that no       *)
(* excluded prefix holds: the part is the address's first bits, as many as *)
(* it takes to hold no excluded prefix.                                    *)
LEMMA PartsReachTheRest ==
  ASSUME NEW excluded \in SUBSET NetPrefixes, NEW a \in HostAddrs,
         ~\E q \in excluded : In(a, q)
  PROVE  \E p \in Parts(excluded) : In(a, p)
<1> DEFINE T == {k \in 0..WIDTH : ~\E q \in excluded : HoldsPrefix(FirstBits(a, k), q)}
<1>1. WIDTH \in Nat
  BY ForwardingAssumption
<1>2. FirstBits(a, WIDTH) = a
  BY DEF FirstBits, HostAddrs
<1>3. WIDTH \in T
  BY <1>1, <1>2, HostHoldsItself
<1>4. PICK k \in T : \A y \in T : k <= y
  <2>1. T \subseteq Nat
    OBVIOUS
  <2> QED
    BY <2>1, <1>3, LeastNumber
<1> DEFINE p == FirstBits(a, k)
<1>5. /\ p \in NetPrefixes
      /\ In(a, p)
      /\ DOMAIN p = 1..k
  BY FirstBitsArePrefix
<1>6. ~\E q \in excluded : HoldsPrefix(p, q)
  OBVIOUS
<1>7. ASSUME NEW q \in excluded PROVE ~HoldsPrefix(q, p)
  BY <1>5, HoldsTransitive DEF In
<1>8. ASSUME NEW r \in NetPrefixes, HoldsPrefix(r, p), r # p
      PROVE  \E q \in excluded : HoldsPrefix(r, q)
  <2>1. In(a, r)
    BY <1>5, <1>8, HoldsTransitive DEF In
  <2>2. PICK n \in 0..WIDTH : r = FirstBits(a, n)
    BY <2>1, PrefixOfAddress
  <2>3. n # k
    BY <2>2, <1>8
  <2>4. DOMAIN r = 1..n
    BY <2>2, FirstBitsArePrefix
  <2>5. 1..n \subseteq 1..k
    BY <2>4, <1>5, <1>8 DEF HoldsPrefix
  <2>6. n <= k
    <3>1. CASE n = 0
      BY <3>1, <1>1
    <3>2. CASE n # 0
      <4>1. n \in 1..n
        BY <3>2
      <4> QED
        BY <4>1, <2>5
    <3> QED
      BY <3>1, <3>2
  <2>7. ~(n \in T)
    BY <2>3, <2>6, <1>4
  <2> QED
    BY <2>2, <2>7
<1> HIDE DEF p, T
<1>9. p \in Parts(excluded)
  BY <1>5, <1>6, <1>7, <1>8 DEF Parts
<1> QED
  BY <1>5, <1>9

(* The parts hold no address of an excluded prefix, and none holds another.*)
LEMMA PartsAvoidExcluded ==
  ASSUME NEW excluded \in SUBSET NetPrefixes, NEW a \in HostAddrs,
         NEW p \in Parts(excluded), In(a, p), NEW q \in excluded
  PROVE  ~In(a, q)
  BY PrefixesOfOneAddress DEF Parts

LEMMA PartsAreApart ==
  ASSUME NEW excluded, NEW p \in Parts(excluded), NEW q \in Parts(excluded), p # q
  PROVE  ~HoldsPrefix(p, q)
  BY DEF Parts

-----------------------------------------------------------------------------
(* The rows hold prefixes: all that the exit route's exactness rests on.   *)
ForwardingIInv ==
  /\ approved \subseteq NetPrefixes
  /\ advertised \subseteq NetPrefixes
  /\ reserved \subseteq NetPrefixes

LEMMA ForwardingIInvInductive ==
  ForwardingSpec => []ForwardingIInv
<1>1. ForwardingInit => ForwardingIInv
  BY DEF ForwardingInit, ForwardingIInv
<1>2. ForwardingIInv /\ [ForwardingNext]_forwardVars => ForwardingIInv'
  <2> SUFFICES ASSUME ForwardingIInv, [ForwardingNext]_forwardVars
               PROVE  ForwardingIInv'
    OBVIOUS
  <2>1. CASE SelectExit
    BY <2>1 DEF SelectExit, Edit, ForwardingIInv
  <2>2. ASSUME NEW p \in NetPrefixes, Advertise(p) PROVE ForwardingIInv'
    BY <2>2 DEF Advertise, Edit, ForwardingIInv
  <2>3. ASSUME NEW p \in NetPrefixes, Approve(p) PROVE ForwardingIInv'
    BY <2>3 DEF Approve, Edit, ForwardingIInv
  <2>4. ASSUME NEW p \in NetPrefixes, NEW service \in SUBSET Ports, Reserve(p, service)
        PROVE  ForwardingIInv'
    BY <2>4 DEF Reserve, Edit, ForwardingIInv
  <2>5. ASSUME NEW a \in NamedHosts, NEW allow \in SUBSET Ports, NEW deny \in SUBSET Ports,
               NameHost(a, allow, deny)
        PROVE  ForwardingIInv'
    BY <2>5 DEF NameHost, Edit, ForwardingIInv
  <2>6. CASE UNCHANGED forwardVars
    BY <2>6 DEF forwardVars, ForwardingIInv
  <2> QED
    BY <2>1, <2>2, <2>3, <2>4, <2>5, <2>6 DEF ForwardingNext
<1> QED
  BY <1>1, <1>2, PTL DEF ForwardingSpec

(* For every address width: the parts around what the router carries cover *)
(* every other address, once each, and no address behind the router gets   *)
(* anything from the exit route (forwarding.rs, complement() and           *)
(* compile_client()).                                                      *)
THEOREM ExitAlwaysExact ==
  ForwardingSpec => []ExitInv
<1>1. ForwardingIInv => ExitInv
  <2> SUFFICES ASSUME ForwardingIInv PROVE ExitInv
    OBVIOUS
  <2>1. Carried \in SUBSET NetPrefixes
    BY DEF Carried, ForwardingIInv
  <2>2. \A a \in HostAddrs : (\E p \in Parts(Carried) : In(a, p)) <=> ~\E p \in Carried : In(a, p)
    BY <2>1, PartsReachTheRest, PartsAvoidExcluded
  <2>3. \A p, q \in Parts(Carried) : p # q => ~HoldsPrefix(p, q)
    BY PartsAreApart
  <2>4. ExitCoversTheRest
    BY <2>2, <2>3 DEF ExitCoversTheRest
  <2>5. ExitNeverWidens
    <3> SUFFICES ASSUME NEW a \in HostAddrs,
                        NEW r \in (approved \cup advertised \cup reserved) \ {DefaultRoute}, In(a, r)
                 PROVE  Permitted(a) \subseteq hostAllow[a]
                          \cup UNION {Given(p) : p \in {q \in Granted \ {DefaultRoute} : In(a, q)}}
      BY Zenon DEF ExitNeverWidens
    <3>1. r \in Carried
      BY DEF Carried
    <3>2. ~\E p \in Parts(Carried) : In(a, p)
      BY <3>1, <2>2
    <3>3. ASSUME NEW x \in AllowRules(a)
          PROVE  \/ x \in hostAllow[a]
                 \/ \E p \in Granted \ {DefaultRoute} : In(a, p) /\ x \in Given(p)
      BY <3>2, <3>3 DEF AllowRules
    <3> QED
      BY <3>3 DEF Permitted
  <2> QED
    BY <2>4, <2>5 DEF ExitInv
<1> QED
  BY <1>1, ForwardingIInvInductive, PTL

-----------------------------------------------------------------------------
(* The organisation's DNS.                                                 *)
(* A document as it is stored.                                             *)
DnsShape(d) ==
  d \in [managed : BOOLEAN, split : Seq(Splits), groups : Seq(NameserverGroups), zones : Seq(Zones),
         records : SUBSET ExtraRecords, search : SUBSET {r.name : r \in ExtraRecords}]
Stored(d) == DnsShape(d) /\ Canonicalise(d)

LEMMA SuffixesEqual ==
  ASSUME NEW n, NEW a \in Names, NEW b \in Names,
         InSuffix(n, a), InSuffix(n, b), Len(a) = Len(b)
  PROVE  a = b
<1>1. DOMAIN a = 1..Len(a) /\ DOMAIN b = 1..Len(b)
  BY DEF Names
<1>2. \A i \in 1..Len(a) : a[i] = b[i]
  BY DEF InSuffix
<1> QED
  BY <1>1, <1>2, SeqEqual DEF Names

(* Of the suffixes that match one is the longest.                          *)
LEMMA LongestExists ==
  ASSUME NEW entries, NEW n \in Names, \A e \in entries : e.suffix \in Names, Fitting(entries, n) # {}
  PROVE  Longest(entries, n) # {}
<1> DEFINE Short(e) == Len(n) - Len(e.suffix)
           T == {Short(e) : e \in Fitting(entries, n)}
<1>1. \A e \in Fitting(entries, n) : Len(e.suffix) \in Nat /\ Len(n) \in Nat /\ Len(e.suffix) <= Len(n)
  BY DEF Fitting, InSuffix, Names
<1>2. T \subseteq Nat /\ T # {}
  BY <1>1
<1>3. PICK t \in T : \A u \in T : t <= u
  <2> HIDE DEF T
  <2> QED
    BY <1>2, LeastNumber
<1>4. PICK e \in Fitting(entries, n) : t = Short(e)
  BY <1>3
<1>5. ASSUME NEW o \in Fitting(entries, n) PROVE Len(o.suffix) <= Len(e.suffix)
  <2>1. Short(e) <= Short(o)
    BY <1>3, <1>4
  <2> QED
    BY <1>1, <2>1
<1> QED
  BY <1>5 DEF Longest

(* A name that is not private is none of the organisation's own.           *)
LEMMA OrdinaryName ==
  ASSUME NEW n \in Names, ~PrivateSuffix(n), Len(n) # 1
  PROVE  ~MagicName(n) /\ n \notin HostNames
<1>1. ~InSuffix(n, MagicDomain)
  <2> SUFFICES ASSUME InSuffix(n, MagicDomain) PROVE FALSE
    OBVIOUS
  <2>1. MagicDomain \in Names /\ MagicDomain # << >> /\ MagicDomain[Len(MagicDomain)] = "blaktail"
    BY OrgDnsAssumption DEF PrivateSuffix
  <2>2. Len(MagicDomain) \in 1..Len(MagicDomain) /\ Len(n) \in Nat /\ Len(MagicDomain) <= Len(n)
    BY <2>1 DEF Names, InSuffix
  <2>3. n[Len(n) - Len(MagicDomain) + Len(MagicDomain)] = "blaktail"
    BY <2>1, <2>2 DEF InSuffix
  <2>4. Len(n) - Len(MagicDomain) + Len(MagicDomain) = Len(n) /\ n # << >>
    BY <2>2 DEF Names
  <2> QED
    BY <2>3, <2>4 DEF PrivateSuffix
<1>2. \A h \in Hosts : PrivateSuffix(h)
  BY OrgDnsAssumption
<1>3. \A x : Len(<<x>>) = 1
  OBVIOUS
<1>4. n \notin HostNames
  BY <1>2, <1>3 DEF HostNames
<1> QED
  BY <1>1, <1>4 DEF MagicName

(* What a stored document has.                                             *)
LEMMA StoredFacts ==
  ASSUME NEW d, Stored(d)
  PROVE  /\ DOMAIN d.groups = 1..Len(d.groups) /\ Len(d.groups) \in Nat
         /\ \A r \in Range(d.split) : r.suffix \in Names /\ r.resolvers # {} /\ ~PrivateSuffix(r.suffix)
         /\ \A r, q \in Range(d.split) : r.suffix = q.suffix => r = q
         /\ \A i \in DOMAIN d.groups :
              /\ d.groups[i].resolvers # {} /\ d.groups[i].domains \subseteq MatchDomains(d)
              /\ d.groups[i].enabled \in BOOLEAN /\ d.groups[i].all \in BOOLEAN
         /\ \A m \in MatchDomains(d) : /\ m \in Names /\ ~PrivateSuffix(m)
                                       /\ \A r \in Range(d.split) : r.suffix # m
         /\ \A z \in EnabledZones(d) : z.name \in Names /\ CheckZoneRecords(z)
         /\ \A z, y \in EnabledZones(d) : z.name = y.name => z = y
         /\ \A z \in EnabledZones(d) : \A r \in z.records : r.name \in Names
<1>1. d.split \in Seq(Splits) /\ d.groups \in Seq(NameserverGroups) /\ d.zones \in Seq(Zones)
  BY DEF Stored, DnsShape
<1>2. DOMAIN d.groups = 1..Len(d.groups) /\ Len(d.groups) \in Nat
  BY <1>1
<1>3. /\ \A r \in Range(d.split) : r \in Splits
      /\ \A g \in Range(d.groups) : g \in NameserverGroups
      /\ \A z \in Range(d.zones) : z \in Zones
  BY <1>1 DEF Range
<1>4. \A r \in Range(d.split) : r.suffix \in Names /\ r.resolvers # {} /\ ~PrivateSuffix(r.suffix)
  BY <1>3, OrgDnsAssumption DEF Stored, Canonicalise, CanonicalSplit
<1>5. \A r, q \in Range(d.split) : r.suffix = q.suffix => r = q
  <2> SUFFICES ASSUME NEW i \in DOMAIN d.split, NEW j \in DOMAIN d.split,
                      d.split[i].suffix = d.split[j].suffix
               PROVE  i = j
    BY DEF Range
  <2> QED
    BY DEF Stored, Canonicalise, CanonicalSplit, IsInjective
<1>6. \A i \in DOMAIN d.groups : d.groups[i] \in Range(d.groups)
  BY DEF Range
<1>7. \A i \in DOMAIN d.groups :
         /\ d.groups[i].resolvers # {} /\ d.groups[i].domains \subseteq MatchDomains(d)
         /\ d.groups[i].enabled \in BOOLEAN /\ d.groups[i].all \in BOOLEAN
  <2> SUFFICES ASSUME NEW i \in DOMAIN d.groups
               PROVE  /\ d.groups[i].resolvers # {} /\ d.groups[i].domains \subseteq MatchDomains(d)
                      /\ d.groups[i].enabled \in BOOLEAN /\ d.groups[i].all \in BOOLEAN
    OBVIOUS
  <2>1. d.groups[i] \in Range(d.groups) /\ d.groups[i] \in NameserverGroups
    BY <1>3, <1>6
  <2>2. {d.groups[i].enabled, d.groups[i].all} \subseteq BOOLEAN
    BY <2>1, OrgDnsAssumption
  <2>3. d.groups[i].resolvers # {}
    BY <2>1 DEF Stored, Canonicalise, CanonicalGroups
  <2>4. d.groups[i].domains \subseteq MatchDomains(d)
    BY <2>1 DEF MatchDomains
  <2>5. d.groups[i].enabled \in {d.groups[i].enabled, d.groups[i].all} /\ d.groups[i].all \in {d.groups[i].enabled, d.groups[i].all}
    OBVIOUS
  <2> QED
    BY <2>2, <2>3, <2>4, <2>5, Zenon
<1>8. \A m \in MatchDomains(d) : /\ m \in Names /\ ~PrivateSuffix(m)
                                 /\ \A r \in Range(d.split) : r.suffix # m
  <2> SUFFICES ASSUME NEW g \in Range(d.groups), NEW m \in g.domains
               PROVE  m \in Names /\ ~PrivateSuffix(m) /\ \A r \in Range(d.split) : r.suffix # m
    BY DEF MatchDomains
  <2>1. m \in Names
    BY <1>3, OrgDnsAssumption
  <2> QED
    BY <2>1 DEF Stored, Canonicalise, CanonicalGroups
<1>9. \A z \in EnabledZones(d) : z \in Range(d.zones) /\ z \in Zones
  BY <1>3 DEF EnabledZones
<1>10. \A z \in EnabledZones(d) : z.name \in Names /\ CheckZoneRecords(z)
  BY <1>9, OrgDnsAssumption DEF Stored, Canonicalise, CanonicalZones
<1>11. \A z \in EnabledZones(d) : \A r \in z.records : r.name \in Names
  BY <1>9, OrgDnsAssumption
<1>12. ASSUME NEW z \in EnabledZones(d), NEW y \in EnabledZones(d), z.name = y.name PROVE z = y
  <2>1. PICK i \in DOMAIN d.zones, j \in DOMAIN d.zones : z = d.zones[i] /\ y = d.zones[j]
    BY <1>9 DEF Range
  <2>2. z.name \in Names
    BY <1>10
  <2>3. InSuffix(z.name, z.name)
    BY <2>2 DEF InSuffix, Names
  <2>4. ~(i # j)
    BY <1>12, <2>1, <2>3 DEF Stored, Canonicalise, CanonicalZones
  <2> QED
    BY <2>1, <2>4
<1> QED
  BY <1>2, <1>4, <1>5, <1>7, <1>8, <1>10, <1>11, <1>12

(* The routes a snapshot has are the document's and one for each match     *)
(* domain of the device's groups, from the first group that lists it.      *)
LEMMA RouteCases ==
  ASSUME NEW d, NEW tags, NEW r \in AgentSplit(d, tags)
  PROVE  \/ r \in Range(d.split)
         \/ \E i \in DOMAIN d.groups, m \in MatchDomains(d) :
              /\ r = GroupRoute(d, i, m) /\ i \in Listers(d, tags, m)
              /\ \A j \in Listers(d, tags, m) : i <= j
<1> SUFFICES ASSUME r \notin Range(d.split)
             PROVE  \E i \in DOMAIN d.groups, m \in MatchDomains(d) :
                      /\ r = GroupRoute(d, i, m) /\ i \in Listers(d, tags, m)
                      /\ \A j \in Listers(d, tags, m) : i <= j
  OBVIOUS
<1>1. PICK p \in (DOMAIN d.groups) \X MatchDomains(d) :
        /\ r = GroupRoute(d, p[1], p[2])
        /\ p[1] \in Listers(d, tags, p[2]) /\ \A j \in Listers(d, tags, p[2]) : p[1] <= j
  BY DEF AgentSplit
<1>2. p[1] \in DOMAIN d.groups /\ p[2] \in MatchDomains(d)
  OBVIOUS
<1> QED
  BY <1>1, <1>2

LEMMA RouteIsThere ==
  ASSUME NEW d, Stored(d), NEW tags, NEW m \in MatchDomains(d), NEW i \in Listers(d, tags, m),
         \A j \in Listers(d, tags, m) : i <= j
  PROVE  GroupRoute(d, i, m) \in AgentSplit(d, tags)
<1> DEFINE p == <<i, m>>
<1>1. i \in DOMAIN d.groups
  BY DEF Listers
<1>2. p \in (DOMAIN d.groups) \X MatchDomains(d) /\ p[1] = i /\ p[2] = m
  BY <1>1
<1>3. \A r \in Range(d.split) : r.suffix # m
  BY StoredFacts
<1> HIDE DEF p
<1>4. p \in {q \in (DOMAIN d.groups) \X MatchDomains(d) :
                /\ q[1] \in Listers(d, tags, q[2]) /\ \A j \in Listers(d, tags, q[2]) : q[1] <= j
                /\ \A r \in Range(d.split) : r.suffix # q[2]}
  BY <1>2, <1>3
<1>5. GroupRoute(d, p[1], p[2]) \in AgentSplit(d, tags)
  BY <1>4 DEF AgentSplit
<1> QED
  BY <1>5, <1>2

(* The candidates that are not zones.                                      *)
RouteCandidates(d, tags) == GroupCandidates(d, tags) \cup SplitCandidates(d)
GroupCandidate(d, i, m) == Candidate(m, "group", d.groups[i].resolvers, {d.groups[i].name}, i)
SplitCandidate(d, r) == Candidate(r.suffix, "split", r.resolvers, {}, Len(d.groups) + 1)

LEMMA CandidateCases ==
  ASSUME NEW d, NEW tags, NEW c \in RouteCandidates(d, tags)
  PROVE  \/ \E i \in DOMAIN d.groups, m \in MatchDomains(d) :
              c = GroupCandidate(d, i, m) /\ i \in Listers(d, tags, m)
         \/ \E r \in Range(d.split) : c = SplitCandidate(d, r)
<1>1. CASE c \in GroupCandidates(d, tags)
  <2>1. PICK p \in (DOMAIN d.groups) \X MatchDomains(d) :
          p[1] \in Listers(d, tags, p[2]) /\ c = GroupCandidate(d, p[1], p[2])
    BY <1>1 DEF GroupCandidates, GroupCandidate
  <2>2. p[1] \in DOMAIN d.groups /\ p[2] \in MatchDomains(d)
    OBVIOUS
  <2> QED
    BY <2>1, <2>2
<1>2. CASE c \in SplitCandidates(d)
  BY <1>2 DEF SplitCandidates, SplitCandidate
<1> QED
  BY <1>1, <1>2 DEF RouteCandidates

LEMMA CandidateIsThere ==
  ASSUME NEW d, NEW tags
  PROVE  /\ \A m \in MatchDomains(d) : \A i \in Listers(d, tags, m) : GroupCandidate(d, i, m) \in GroupCandidates(d, tags)
         /\ \A r \in Range(d.split) : SplitCandidate(d, r) \in SplitCandidates(d)
<1>1. ASSUME NEW m \in MatchDomains(d), NEW i \in Listers(d, tags, m)
      PROVE  GroupCandidate(d, i, m) \in GroupCandidates(d, tags)
  <2> DEFINE p == <<i, m>>
  <2>1. p \in (DOMAIN d.groups) \X MatchDomains(d) /\ p[1] = i /\ p[2] = m
    BY DEF Listers
  <2> HIDE DEF p
  <2>2. p \in {q \in (DOMAIN d.groups) \X MatchDomains(d) : q[1] \in Listers(d, tags, q[2])}
    BY <2>1
  <2>3. GroupCandidate(d, p[1], p[2]) \in GroupCandidates(d, tags)
    BY <2>2 DEF GroupCandidates, GroupCandidate
  <2> QED
    BY <2>1, <2>3
<1> QED
  BY <1>1 DEF SplitCandidates, SplitCandidate

LEMMA GroupFields ==
  ASSUME NEW d, NEW i, NEW m
  PROVE  /\ GroupCandidate(d, i, m).suffix = m /\ GroupCandidate(d, i, m).source = "group"
         /\ GroupCandidate(d, i, m).resolvers = d.groups[i].resolvers
         /\ GroupCandidate(d, i, m).group = {d.groups[i].name} /\ GroupCandidate(d, i, m).place = i
BY DEF GroupCandidate, Candidate
LEMMA RouteFields ==
  ASSUME NEW d, NEW i, NEW m
  PROVE  GroupRoute(d, i, m).suffix = m /\ GroupRoute(d, i, m).resolvers = d.groups[i].resolvers
BY DEF GroupRoute
LEMMA SplitFields ==
  ASSUME NEW d, NEW r
  PROVE  /\ SplitCandidate(d, r).suffix = r.suffix /\ SplitCandidate(d, r).source = "split"
         /\ SplitCandidate(d, r).resolvers = r.resolvers /\ SplitCandidate(d, r).group = {}
         /\ SplitCandidate(d, r).place = Len(d.groups) + 1
BY DEF SplitCandidate, Candidate

(* A snapshot's routes have different suffixes, which are those of the     *)
(* routed candidates, and the resolvers of the first candidate that has    *)
(* the suffix.                                                             *)
LEMMA RoutesAreCandidates ==
  ASSUME NEW d, Stored(d), NEW tags
  PROVE  /\ \A r \in AgentSplit(d, tags) :
              /\ r.suffix \in Names /\ r.resolvers # {}
              /\ \E c \in RouteCandidates(d, tags) : c.suffix = r.suffix
              /\ \A q \in AgentSplit(d, tags) : q.suffix = r.suffix => q = r
              /\ \A c \in RouteCandidates(d, tags) :
                   (c.suffix = r.suffix /\ \A o \in RouteCandidates(d, tags) : o.suffix = r.suffix => c.place <= o.place)
                     => c.resolvers = r.resolvers
         /\ \A c \in RouteCandidates(d, tags) :
              /\ c.suffix \in Names /\ c.source # "zone" /\ c.place \in Nat
              /\ \E r \in AgentSplit(d, tags) : r.suffix = c.suffix
<1> DEFINE S == AgentSplit(d, tags)
<1>0. /\ DOMAIN d.groups \subseteq Nat
      /\ \A r \in Range(d.split) : r.suffix \in Names /\ r.resolvers # {}
      /\ \A r, q \in Range(d.split) : r.suffix = q.suffix => r = q
      /\ \A i \in DOMAIN d.groups : d.groups[i].resolvers # {}
      /\ \A m \in MatchDomains(d) : m \in Names /\ \A r \in Range(d.split) : r.suffix # m
      /\ Len(d.groups) + 1 \in Nat
  BY StoredFacts
<1>1. ASSUME NEW r \in S, NEW i \in DOMAIN d.groups, NEW m \in MatchDomains(d),
             r = GroupRoute(d, i, m), i \in Listers(d, tags, m), \A j \in Listers(d, tags, m) : i <= j
      PROVE  /\ r.suffix \in Names /\ r.resolvers # {}
             /\ \E c \in RouteCandidates(d, tags) : c.suffix = r.suffix
             /\ \A q \in S : q.suffix = r.suffix => q = r
             /\ \A c \in RouteCandidates(d, tags) :
                  (c.suffix = r.suffix /\ \A o \in RouteCandidates(d, tags) : o.suffix = r.suffix => c.place <= o.place)
                     => c.resolvers = r.resolvers
  <2>1. r.suffix = m /\ r.resolvers = d.groups[i].resolvers
    BY <1>1, GroupFields, RouteFields, SplitFields
  <2>2. GroupCandidate(d, i, m) \in RouteCandidates(d, tags)
    BY <1>1, CandidateIsThere DEF RouteCandidates
  <2>3. ASSUME NEW q \in S, q.suffix = m PROVE q = r
    <3>1. q \notin Range(d.split)
      BY <2>3, <1>0
    <3>2. PICK j \in DOMAIN d.groups, k \in MatchDomains(d) :
            /\ q = GroupRoute(d, j, k) /\ j \in Listers(d, tags, k)
            /\ \A l \in Listers(d, tags, k) : j <= l
      BY <3>1, RouteCases
    <3>3. k = m
      BY <3>2, <2>3, GroupFields, RouteFields, SplitFields
    <3>4. j <= i /\ i <= j /\ i \in Nat /\ j \in Nat
      BY <3>2, <3>3, <1>0, <1>1
    <3>5. i = j
      BY <3>4
    <3> QED
      BY <3>2, <3>3, <3>5, <1>1
  <2>4. ASSUME NEW c \in RouteCandidates(d, tags), c.suffix = m,
               \A o \in RouteCandidates(d, tags) : o.suffix = m => c.place <= o.place
        PROVE  c.resolvers = r.resolvers
    <3>1. ~\E q \in Range(d.split) : c = SplitCandidate(d, q)
      BY <2>4, <1>0, GroupFields, RouteFields, SplitFields
    <3>2. PICK j \in DOMAIN d.groups, k \in MatchDomains(d) :
            c = GroupCandidate(d, j, k) /\ j \in Listers(d, tags, k)
      BY <3>1, CandidateCases
    <3>3. k = m /\ c.place = j /\ c.resolvers = d.groups[j].resolvers
      BY <3>2, <2>4, GroupFields, RouteFields, SplitFields
    <3>4. j <= i
      <4>1. GroupCandidate(d, i, m).suffix = m /\ GroupCandidate(d, i, m).place = i
        BY GroupFields, RouteFields, SplitFields
      <4> QED
        BY <4>1, <2>2, <2>4, <3>3
    <3>5. i <= j /\ i \in Nat /\ j \in Nat
      BY <1>1, <3>2, <3>3, <1>0
    <3>6. i = j
      BY <3>4, <3>5
    <3> QED
      BY <3>6, <3>3, <2>1
  <2>5. GroupCandidate(d, i, m).suffix = m
    BY GroupFields, RouteFields, SplitFields
  <2> QED
    BY <2>1, <2>2, <2>3, <2>4, <2>5, <1>0
<1>2. ASSUME NEW r \in Range(d.split)
      PROVE  /\ r.suffix \in Names /\ r.resolvers # {}
             /\ \E c \in RouteCandidates(d, tags) : c.suffix = r.suffix
             /\ \A q \in S : q.suffix = r.suffix => q = r
             /\ \A c \in RouteCandidates(d, tags) :
                  (c.suffix = r.suffix /\ \A o \in RouteCandidates(d, tags) : o.suffix = r.suffix => c.place <= o.place)
                     => c.resolvers = r.resolvers
  <2>1. SplitCandidate(d, r) \in RouteCandidates(d, tags) /\ SplitCandidate(d, r).suffix = r.suffix
    BY CandidateIsThere, GroupFields, RouteFields, SplitFields DEF RouteCandidates
  <2>2. ASSUME NEW q \in S, q.suffix = r.suffix PROVE q = r
    <3>1. ASSUME NEW i \in DOMAIN d.groups, NEW m \in MatchDomains(d), q = GroupRoute(d, i, m) PROVE FALSE
      <4>1. q.suffix = m
        BY <3>1, GroupFields, RouteFields, SplitFields
      <4> QED
        BY <4>1, <2>2, <1>0
    <3>2. q \in Range(d.split)
      BY <3>1, RouteCases
    <3> QED
      BY <3>2, <2>2, <1>0
  <2>3. ASSUME NEW c \in RouteCandidates(d, tags), c.suffix = r.suffix PROVE c.resolvers = r.resolvers
    <3>1. ASSUME NEW i \in DOMAIN d.groups, NEW m \in MatchDomains(d), c = GroupCandidate(d, i, m) PROVE FALSE
      <4>1. c.suffix = m
        BY <3>1, GroupFields, RouteFields, SplitFields
      <4> QED
        BY <4>1, <2>3, <1>0
    <3>2. PICK q \in Range(d.split) : c = SplitCandidate(d, q)
      BY <3>1, CandidateCases
    <3>3. c.suffix = q.suffix /\ c.resolvers = q.resolvers
      BY <3>2, GroupFields, RouteFields, SplitFields
    <3> QED
      BY <3>3, <2>3, <1>0
  <2> QED
    BY <2>1, <2>2, <2>3, <1>0
<1>3. ASSUME NEW c \in RouteCandidates(d, tags)
      PROVE  /\ c.suffix \in Names /\ c.source # "zone" /\ c.place \in Nat
             /\ \E r \in S : r.suffix = c.suffix
  <2>1. ASSUME NEW i \in DOMAIN d.groups, NEW m \in MatchDomains(d),
               c = GroupCandidate(d, i, m), i \in Listers(d, tags, m)
        PROVE  /\ c.suffix \in Names /\ c.source # "zone" /\ c.place \in Nat
               /\ \E r \in S : r.suffix = c.suffix
    <3>1. c.suffix = m /\ c.source = "group" /\ c.place = i
      BY <2>1, GroupFields, RouteFields, SplitFields
    <3>2. Listers(d, tags, m) \subseteq Nat
      BY <1>0 DEF Listers
    <3>3. PICK j \in Listers(d, tags, m) : \A k \in Listers(d, tags, m) : j <= k
      BY <3>2, <2>1, LeastNumber
    <3>4. GroupRoute(d, j, m) \in S /\ GroupRoute(d, j, m).suffix = m
      BY <3>3, RouteIsThere, GroupFields, RouteFields, SplitFields
    <3> QED
      BY <3>1, <3>4, <1>0
  <2>2. ASSUME NEW r \in Range(d.split), c = SplitCandidate(d, r)
        PROVE  /\ c.suffix \in Names /\ c.source # "zone" /\ c.place \in Nat
               /\ \E q \in S : q.suffix = c.suffix
    <3>1. c.suffix = r.suffix /\ c.source = "split" /\ c.place = Len(d.groups) + 1
      BY <2>2, GroupFields, RouteFields, SplitFields
    <3>2. r \in S
      BY DEF AgentSplit
    <3> QED
      BY <3>1, <3>2, <1>0
  <2> QED
    BY <2>1, <2>2, CandidateCases
<1>4. ASSUME NEW r \in S
      PROVE  /\ r.suffix \in Names /\ r.resolvers # {}
             /\ \E c \in RouteCandidates(d, tags) : c.suffix = r.suffix
             /\ \A q \in S : q.suffix = r.suffix => q = r
             /\ \A c \in RouteCandidates(d, tags) :
                  (c.suffix = r.suffix /\ \A o \in RouteCandidates(d, tags) : o.suffix = r.suffix => c.place <= o.place)
                     => c.resolvers = r.resolvers
  BY <1>1, <1>2, RouteCases
<1> QED
  BY <1>3, <1>4

(* The view's fields.                                                      *)
LEMMA ViewFields ==
  ASSUME NEW d, NEW revision, NEW tags
  PROVE  LET v == AgentView(d, revision, tags)
         IN  /\ v.revision = revision /\ v.managed = d.managed /\ v.split = AgentSplit(d, tags)
             /\ v.records = d.records \cup UNION {ZoneAddresses(z) : z \in EnabledZones(d)}
             /\ v.zones = EnabledZones(d) /\ v # NoSnapshot
BY DEF AgentView, NoSnapshot

(* The zones' candidates and what a stub keeps of the zones.               *)
LEMMA ZonesAreCandidates ==
  ASSUME NEW d, Stored(d)
  PROVE  /\ \A c \in ZoneCandidates(d) : /\ c.suffix \in Names /\ c.source = "zone" /\ c.place \in Nat
                                         /\ \E z \in EnabledZones(d) : z.name = c.suffix
         /\ \A z \in EnabledZones(d) : \E c \in ZoneCandidates(d) : c.suffix = z.name
<1>1. \A z \in EnabledZones(d) : z.name \in Names
  BY StoredFacts
<1>2. \A z : /\ Candidate(z, "zone", {}, {}, 0).suffix = z /\ Candidate(z, "zone", {}, {}, 0).source = "zone"
             /\ Candidate(z, "zone", {}, {}, 0).place = 0
  BY DEF Candidate
<1>3. ASSUME NEW c \in ZoneCandidates(d)
      PROVE  /\ c.suffix \in Names /\ c.source = "zone" /\ c.place \in Nat
             /\ \E z \in EnabledZones(d) : z.name = c.suffix
  <2>1. PICK z \in EnabledZones(d) : c = Candidate(z.name, "zone", {}, {}, 0)
    BY DEF ZoneCandidates
  <2>2. c.suffix = z.name /\ c.source = "zone" /\ c.place = 0
    BY <2>1, <1>2
  <2> QED
    BY <2>2, <1>1
<1>4. ASSUME NEW z \in EnabledZones(d) PROVE \E c \in ZoneCandidates(d) : c.suffix = z.name
  <2>1. Candidate(z.name, "zone", {}, {}, 0) \in ZoneCandidates(d)
    BY DEF ZoneCandidates
  <2> QED
    BY <2>1, <1>2
<1> QED
  BY <1>3, <1>4

LEMMA CandidatesNamed ==
  ASSUME NEW d, Stored(d), NEW tags
  PROVE  /\ Candidates(d, tags) = ZoneCandidates(d) \cup RouteCandidates(d, tags)
         /\ \A c \in Candidates(d, tags) : c.suffix \in Names /\ c.place \in Nat
<1>1. Candidates(d, tags) = ZoneCandidates(d) \cup RouteCandidates(d, tags)
  BY DEF Candidates, RouteCandidates
<1> QED
  BY <1>1, ZonesAreCandidates, RoutesAreCandidates

(* Some candidate is the best when any matches.                            *)
LEMMA BestExists ==
  ASSUME NEW d, Stored(d), NEW tags, NEW n \in Names
  PROVE  /\ Fitting(Candidates(d, tags), n) # {} => Best(d, n, tags) # {}
         /\ Best(d, n, tags) \subseteq Longest(Candidates(d, tags), n)
         /\ Longest(Candidates(d, tags), n) \subseteq Fitting(Candidates(d, tags), n)
<1> DEFINE C == Candidates(d, tags)
           L == Longest(C, n)
           T == {c.place : c \in L}
<1>1. \A c \in C : c.suffix \in Names /\ c.place \in Nat
  BY CandidatesNamed
<1>2. L \subseteq Fitting(C, n) /\ Fitting(C, n) \subseteq C
  BY DEF Longest, Fitting
<1>3. ASSUME Fitting(C, n) # {} PROVE Best(d, n, tags) # {}
  <2>1. L # {}
    <3> HIDE DEF C
    <3> QED
      BY <1>1, <1>3, LongestExists
  <2>2. T \subseteq Nat /\ T # {}
    BY <2>1, <1>1, <1>2
  <2>3. PICK t \in T : \A u \in T : t <= u
    <3> HIDE DEF T
    <3> QED
      BY <2>2, LeastNumber
  <2>4. PICK c \in L : t = c.place
    BY <2>3
  <2>5. \A o \in L : c.place <= o.place
    BY <2>3, <2>4
  <2> QED
    BY <2>5 DEF Best
<1>4. Best(d, n, tags) \subseteq L
  BY DEF Best
<1> QED
  BY <1>2, <1>3, <1>4

(* A zone answers a name when no longer route claims it.                   *)
LEMMA ZoneClaims ==
  ASSUME NEW d, NEW revision, NEW tags, NEW n, d.managed, ~MagicName(n), NEW z \in EnabledZones(d),
         InSuffix(n, z.name),
         \A y \in EnabledZones(d) : InSuffix(n, y.name) => Len(y.name) <= Len(z.name),
         \A r \in AgentSplit(d, tags) : InSuffix(n, r.suffix) => Len(r.suffix) <= Len(z.name)
  PROVE  ZoneFor(AgentView(d, revision, tags), n) # {}
<1> DEFINE v == AgentView(d, revision, tags)
           e == [suffix |-> z.name, zone |-> z]
<1>1. StubZones(v) = EnabledZones(d) /\ StubSplit(v) = AgentSplit(d, tags)
  BY ViewFields DEF StubZones, StubSplit
<1> HIDE DEF v
<1>2. e \in Fitting(ZoneSuffixes(v), n)
  BY <1>1 DEF ZoneSuffixes, Fitting
<1>3. ASSUME NEW o \in Fitting(ZoneSuffixes(v), n) PROVE Len(o.suffix) <= Len(e.suffix)
  <2>1. PICK y \in EnabledZones(d) : o = [suffix |-> y.name, zone |-> y]
    BY <1>1 DEF ZoneSuffixes, Fitting
  <2>2. InSuffix(n, o.suffix)
    BY DEF Fitting
  <2> QED
    BY <2>1, <2>2
<1>4. e \in Longest(ZoneSuffixes(v), n)
  BY <1>2, <1>3 DEF Longest
<1>5. \A r \in Fitting(StubSplit(v), n) : Len(r.suffix) <= Len(e.suffix)
  BY <1>1 DEF Fitting
<1> HIDE DEF e
<1>6. e.zone \in ZoneFor(v, n)
  BY <1>4, <1>5 DEF ZoneFor
<1> QED
  BY <1>6 DEF v

(* What a device in step forwards is what the preview forwards.            *)
LEMMA ForwardsAsExplained ==
  ASSUME NEW d, Stored(d), NEW revision, NEW tags, NEW n \in Names,
         DnsAction(AgentView(d, revision, tags), n).kind = "forward"
  PROVE  /\ Explain(d, n, tags).kind = "forward"
         /\ Explain(d, n, tags).resolvers = DnsAction(AgentView(d, revision, tags), n).resolvers
<1> DEFINE v == AgentView(d, revision, tags)
           R == SplitResolvers(v, n)
           S == AgentSplit(d, tags)
           C == Candidates(d, tags)
           B == Best(d, n, tags)
           c == CHOOSE b \in B : TRUE
<1>1. /\ ZoneFor(v, n) = {} /\ n \notin StubAddresses(v) /\ ~MagicName(n) /\ R # {}
      /\ DnsAction(v, n).resolvers = R
  <2> HIDE DEF v, R
  <2>1. \A k \in {"answer", "nxdomain", "refused"} : Reply(k).kind # "forward"
    BY DEF Reply
  <2>2. DnsAction(v, n).kind = "forward"
    BY DEF v
  <2>3. \A z, x : Reply(ZoneResponse(z, x)).kind # "forward"
    BY <2>1 DEF ZoneResponse
  <2> QED
    BY <2>1, <2>2, <2>3 DEF DnsAction, R
<1>2. ~PrivateSuffix(n) /\ Longest(StubSplit(v), n) # {} /\ R = UNION {r.resolvers : r \in Longest(StubSplit(v), n)}
  BY <1>1 DEF SplitResolvers
<1>3. d.managed /\ StubSplit(v) = S
  <2>1. v.managed = d.managed /\ v.split = S
    BY ViewFields
  <2> HIDE DEF v, S
  <2> QED
    BY <1>2, <2>1 DEF StubSplit, Longest, Fitting
<1>4. PICK r \in Longest(S, n) : TRUE
  BY <1>2, <1>3
<1>5. r \in S /\ InSuffix(n, r.suffix) /\ \A q \in S : InSuffix(n, q.suffix) => Len(q.suffix) <= Len(r.suffix)
  BY <1>4 DEF Longest, Fitting
<1>6. /\ \A q \in S : q.suffix \in Names
      /\ \A q \in S : q.suffix = r.suffix => q = r
      /\ \E o \in RouteCandidates(d, tags) : o.suffix = r.suffix
      /\ \A o \in RouteCandidates(d, tags) : o.suffix \in Names /\ o.source # "zone" /\ \E q \in S : q.suffix = o.suffix
      /\ \A a \in RouteCandidates(d, tags) :
                   (a.suffix = r.suffix /\ \A o \in RouteCandidates(d, tags) : o.suffix = r.suffix => a.place <= o.place)
                     => a.resolvers = r.resolvers
  BY <1>5, RoutesAreCandidates
<1> HIDE DEF S
<1>7. R = r.resolvers
  <2>1. ASSUME NEW q \in Longest(S, n) PROVE q = r
    <3>1. q \in S /\ InSuffix(n, q.suffix) /\ Len(r.suffix) <= Len(q.suffix) /\ Len(q.suffix) <= Len(r.suffix)
      BY <1>4, <1>5, <2>1 DEF Longest, Fitting
    <3>2. Len(q.suffix) = Len(r.suffix)
      <4>1. Len(q.suffix) \in Nat /\ Len(r.suffix) \in Nat
        BY <1>5, <1>6, <3>1 DEF Names
      <4> QED
        BY <3>1, <4>1
    <3>3. q.suffix = r.suffix
      BY <3>1, <3>2, <1>5, <1>6, SuffixesEqual
    <3> QED
      BY <3>1, <3>3, <1>6
  <2>2. Longest(S, n) = {r}
    BY <2>1, <1>4
  <2> HIDE DEF R
  <2> QED
    BY <2>2, <1>2, <1>3
<1>8. C = ZoneCandidates(d) \cup RouteCandidates(d, tags)
  BY CandidatesNamed
<1>9. Fitting(C, n) # {}
  BY <1>5, <1>6, <1>8 DEF Fitting
<1>10. B # {} /\ c \in B /\ B \subseteq Longest(C, n)
  BY <1>9, BestExists
<1>11. /\ c \in C /\ InSuffix(n, c.suffix)
       /\ \A o \in C : InSuffix(n, o.suffix) => Len(o.suffix) <= Len(c.suffix)
       /\ \A o \in Longest(C, n) : c.place <= o.place
  <2>1. c \in Longest(C, n) /\ \A o \in Longest(C, n) : c.place <= o.place
    <3> HIDE DEF C, c
    <3> QED
      BY <1>10 DEF Best, C
  <2> HIDE DEF C, c, B
  <2> QED
    BY <2>1 DEF Longest, Fitting
<1>12. c.suffix \in Names
  BY <1>11, CandidatesNamed
<1> HIDE DEF C, c, B
<1>13. c \notin ZoneCandidates(d)
  <2> SUFFICES ASSUME c \in ZoneCandidates(d) PROVE FALSE
    OBVIOUS
  <2>1. PICK z \in EnabledZones(d) : z.name = c.suffix
    BY ZonesAreCandidates
  <2>2. \A y \in EnabledZones(d) : InSuffix(n, y.name) => Len(y.name) <= Len(z.name)
    <3> SUFFICES ASSUME NEW y \in EnabledZones(d), InSuffix(n, y.name) PROVE Len(y.name) <= Len(z.name)
      OBVIOUS
    <3>1. PICK o \in ZoneCandidates(d) : o.suffix = y.name
      BY ZonesAreCandidates
    <3> QED
      BY <3>1, <2>1, <1>8, <1>11
  <2>3. \A q \in S : InSuffix(n, q.suffix) => Len(q.suffix) <= Len(z.name)
    <3> SUFFICES ASSUME NEW q \in S, InSuffix(n, q.suffix) PROVE Len(q.suffix) <= Len(z.name)
      OBVIOUS
    <3>1. PICK o \in RouteCandidates(d, tags) : o.suffix = q.suffix
      BY RoutesAreCandidates DEF S
    <3> QED
      BY <3>1, <2>1, <1>8, <1>11
  <2>4. InSuffix(n, z.name)
    BY <2>1, <1>11
  <2>5. ZoneFor(AgentView(d, revision, tags), n) # {}
    BY <2>2, <2>3, <2>4, <1>1, <1>3, ZoneClaims DEF S
  <2> QED
    BY <2>5, <1>1
<1>14. c \in RouteCandidates(d, tags)
  BY <1>8, <1>11, <1>13
<1>15. c.suffix = r.suffix
  <2>1. PICK q \in S : q.suffix = c.suffix
    BY <1>14, <1>6
  <2>2. Len(c.suffix) <= Len(r.suffix)
    BY <2>1, <1>5, <1>11
  <2>3. Len(r.suffix) <= Len(c.suffix)
    BY <1>5, <1>6, <1>8, <1>11
  <2>4. Len(r.suffix) \in Nat /\ Len(c.suffix) \in Nat
    BY <1>5, <1>6, <1>12 DEF Names
  <2>5. Len(c.suffix) = Len(r.suffix)
    BY <2>2, <2>3, <2>4
  <2> QED
    BY <2>5, <1>5, <1>6, <1>11, <1>12, SuffixesEqual
<1>16. c.resolvers = r.resolvers
  <2>1. ASSUME NEW o \in RouteCandidates(d, tags), o.suffix = r.suffix PROVE c.place <= o.place
    <3>1. o \in Longest(C, n)
      BY <1>8, <1>11, <1>15, <2>1 DEF Longest, Fitting
    <3> QED
      BY <3>1, <1>11
  <2> QED
    BY <2>1, <1>6, <1>14, <1>15
<1>17. Len(n) # 1 /\ ~\E q \in d.records : q.name = n
  <2>1. v.managed = d.managed /\ d.records \subseteq v.records
    BY ViewFields
  <2> HIDE DEF v
  <2> QED
    BY <2>1, <1>1, <1>3 DEF MagicName, StubAddresses
<1>18. c.source # "zone"
  BY <1>14, <1>6
<1>19. Explain(d, n, tags) = [kind |-> "forward", resolvers |-> c.resolvers, group |-> c.group]
  BY <1>2, <1>3, <1>10, <1>17, <1>18 DEF Explain, c, B
<1> QED
  BY <1>1, <1>7, <1>16, <1>19

(* What the preview says when it does not forward.                         *)
LEMMA ExplainCases ==
  ASSUME NEW d, NEW tags, NEW n, ~PrivateSuffix(n), Len(n) # 1, d.managed \in BOOLEAN
  PROVE  /\ ~d.managed => Explain(d, n, tags).kind = "unmanaged"
         /\ (d.managed /\ \E q \in d.records : q.name = n) => Explain(d, n, tags).kind = "legacy_record"
         /\ (d.managed /\ ~(\E q \in d.records : q.name = n) /\ Best(d, n, tags) = {})
               => Explain(d, n, tags).kind = "not_handled"
         /\ (d.managed /\ Best(d, n, tags) # {}) => Explain(d, n, tags).kind \notin {"unmanaged", "not_handled"}
BY DEF Explain, Says

LEMMA ActionCases ==
  ASSUME NEW v, NEW n
  PROVE  DnsAction(v, n).kind = "refused" <=> /\ ZoneFor(v, n) = {} /\ n \notin StubAddresses(v)
                                              /\ ~MagicName(n) /\ SplitResolvers(v, n) = {}
<1>1. \A k \in {"answer", "nxdomain", "refused"} : Reply(k).kind = k
  BY DEF Reply
<1>2. \A z, x : Reply(ZoneResponse(z, x)).kind # "refused"
  BY <1>1 DEF ZoneResponse
<1> QED
  BY <1>1, <1>2 DEF DnsAction

(* What a device in step refuses is what the preview calls not handled.    *)
LEMMA RefusesAsExplained ==
  ASSUME NEW d, Stored(d), NEW revision, NEW tags, NEW n \in Names, ~PrivateSuffix(n)
  PROVE  DnsAction(AgentView(d, revision, tags), n).kind = "refused"
           <=> Explain(d, n, tags).kind \in {"unmanaged", "not_handled"}
<1> DEFINE v == AgentView(d, revision, tags)
           S == AgentSplit(d, tags)
           C == Candidates(d, tags)
<1>0. /\ v.managed = d.managed /\ v.split = S /\ v.zones = EnabledZones(d)
      /\ v.records = d.records \cup UNION {ZoneAddresses(z) : z \in EnabledZones(d)}
      /\ d.managed \in BOOLEAN
  BY ViewFields DEF Stored, DnsShape
<1>1. CASE Len(n) = 1
  <2>1. DnsAction(v, n).kind # "refused"
    BY <1>1, ActionCases DEF MagicName
  <2>2. Explain(d, n, tags).kind = "magic_dns"
    BY <1>1 DEF Explain, Says
  <2> QED
    BY <2>1, <2>2
<1>2. CASE Len(n) # 1 /\ ~d.managed
  <2>1. ~MagicName(n) /\ n \notin HostNames
    BY <1>2, OrdinaryName
  <2>2. StubSplit(v) = {} /\ StubZones(v) = {} /\ StubAddresses(v) = HostNames
    <3> HIDE DEF v
    <3> QED
      BY <1>0, <1>2 DEF StubSplit, StubZones, StubAddresses
  <2> HIDE DEF v
  <2>3. ZoneFor(v, n) = {} /\ SplitResolvers(v, n) = {}
    BY <2>2 DEF ZoneFor, ZoneSuffixes, SplitResolvers, Longest, Fitting
  <2>4. DnsAction(v, n).kind = "refused"
    BY <2>1, <2>2, <2>3, ActionCases
  <2>5. Explain(d, n, tags).kind = "unmanaged"
    BY <1>0, <1>2, ExplainCases
  <2> QED
    BY <2>4, <2>5 DEF v
<1>3. CASE Len(n) # 1 /\ d.managed
  <2>1. ~MagicName(n) /\ n \notin HostNames
    BY <1>3, OrdinaryName
  <2>2. /\ StubSplit(v) = S /\ StubZones(v) = EnabledZones(d)
        /\ StubAddresses(v) = HostNames \cup {r.name : r \in v.records}
    <3> HIDE DEF v, S
    <3> QED
      BY <1>0, <1>3 DEF StubSplit, StubZones, StubAddresses
  <2>3. /\ \A r \in S : r.suffix \in Names /\ r.resolvers # {} /\ \E c \in RouteCandidates(d, tags) : c.suffix = r.suffix
        /\ \A c \in RouteCandidates(d, tags) : \E r \in S : r.suffix = c.suffix
    BY RoutesAreCandidates
  <2>4. C = ZoneCandidates(d) \cup RouteCandidates(d, tags)
    BY CandidatesNamed
  <2>5. CASE \E q \in d.records : q.name = n
    <3>1. n \in StubAddresses(v)
      <4> HIDE DEF v
      <4> QED
        BY <1>0, <2>2, <2>5
    <3>2. DnsAction(v, n).kind # "refused"
      BY <3>1, ActionCases
    <3>3. Explain(d, n, tags).kind = "legacy_record"
      BY <1>3, <2>5 DEF Explain, Says
    <3> QED
      BY <3>2, <3>3
  <2>6. CASE ~(\E q \in d.records : q.name = n) /\ Fitting(C, n) = {}
    <3>1. Best(d, n, tags) = {}
      BY <2>6, BestExists
    <3>2. Explain(d, n, tags).kind = "not_handled"
      BY <1>0, <1>3, <2>6, <3>1, ExplainCases
    <3>a. \A c \in C : ~InSuffix(n, c.suffix)
      BY <2>6 DEF Fitting
    <3>3. \A z \in EnabledZones(d) : ~InSuffix(n, z.name)
      BY <2>4, <3>a, ZonesAreCandidates
    <3>4. Fitting(S, n) = {}
      <4> HIDE DEF S, C
      <4> QED
        BY <2>3, <2>4, <3>a DEF Fitting
    <3>5. n \notin StubAddresses(v)
      <4> SUFFICES ASSUME NEW z \in EnabledZones(d), NEW a \in ZoneAddresses(z), a.name = n PROVE FALSE
        <5> HIDE DEF v
        <5> QED
          BY <1>0, <2>1, <2>2, <2>6
      <4>1. PICK q \in z.records : q.name = n
        BY DEF ZoneAddresses
      <4>2. InSuffix(n, z.name)
        BY <4>1, StoredFacts DEF CheckZoneRecords
      <4> QED
        BY <4>2, <3>3
    <3> HIDE DEF v
    <3>6. ZoneFor(v, n) = {}
      BY <2>2, <3>3 DEF ZoneFor, ZoneSuffixes, Longest, Fitting
    <3>7. SplitResolvers(v, n) = {}
      BY <2>2, <3>4 DEF SplitResolvers, Longest
    <3>8. DnsAction(v, n).kind = "refused"
      BY <2>1, <3>5, <3>6, <3>7, ActionCases
    <3> QED
      BY <3>2, <3>8 DEF v
  <2>7. CASE Fitting(C, n) # {}
    <3>1. Best(d, n, tags) # {}
      BY <2>7, BestExists
    <3>2. Explain(d, n, tags).kind \notin {"unmanaged", "not_handled"}
      BY <1>0, <1>3, <3>1, ExplainCases
    <3>3. ASSUME ZoneFor(v, n) = {}, SplitResolvers(v, n) = {} PROVE FALSE
      <4>1. Longest(S, n) = {}
        <5> SUFFICES ASSUME NEW r \in Longest(S, n) PROVE FALSE
          OBVIOUS
        <5>1. r \in S
          BY DEF Longest, Fitting
        <5>2. r.resolvers # {}
          BY <5>1, <2>3
        <5>3. SplitResolvers(v, n) = UNION {q.resolvers : q \in Longest(S, n)}
          <6> HIDE DEF v, S
          <6> QED
            BY <2>2 DEF SplitResolvers
        <5> HIDE DEF v, S
        <5> QED
          BY <5>2, <5>3, <3>3
      <4>2. Fitting(S, n) = {}
        <5> HIDE DEF S
        <5> QED
          BY <4>1, <2>3, LongestExists
      <4>3. PICK c \in C : InSuffix(n, c.suffix)
        BY <2>7 DEF Fitting
      <4>4. c \in ZoneCandidates(d)
        <5> SUFFICES ASSUME c \in RouteCandidates(d, tags) PROVE FALSE
          BY <2>4
        <5>1. PICK r \in S : r.suffix = c.suffix
          BY <2>3
        <5> QED
          BY <5>1, <4>2, <4>3 DEF Fitting
      <4>5. PICK y \in EnabledZones(d) : InSuffix(n, y.name)
        BY <4>3, <4>4, ZonesAreCandidates
      <4> DEFINE E == {[suffix |-> z.name, zone |-> z] : z \in EnabledZones(d)}
      <4>6. \A e \in E : e.suffix \in Names /\ e.suffix = e.zone.name /\ e.zone \in EnabledZones(d)
        BY StoredFacts
      <4>7. [suffix |-> y.name, zone |-> y] \in Fitting(E, n)
        BY <4>5 DEF Fitting
      <4>8. PICK e \in Longest(E, n) : TRUE
        <5> HIDE DEF E
        <5> QED
          BY <4>6, <4>7, LongestExists
      <4> DEFINE z == e.zone
      <4>9. z \in EnabledZones(d) /\ InSuffix(n, z.name) /\ \A o \in E : InSuffix(n, o.suffix) => Len(o.suffix) <= Len(z.name)
        <5> HIDE DEF E
        <5> QED
          BY <4>6, <4>8 DEF Longest, Fitting
      <4>10. \A x \in EnabledZones(d) : InSuffix(n, x.name) => Len(x.name) <= Len(z.name)
        <5> SUFFICES ASSUME NEW x \in EnabledZones(d), InSuffix(n, x.name) PROVE Len(x.name) <= Len(z.name)
          OBVIOUS
        <5> DEFINE o == [suffix |-> x.name, zone |-> x]
        <5>1. o \in E /\ o.suffix = x.name
          OBVIOUS
        <5> HIDE DEF o, E, z
        <5> QED
          BY <5>1, <4>9
      <4> HIDE DEF z
      <4>11. \A r \in AgentSplit(d, tags) : InSuffix(n, r.suffix) => Len(r.suffix) <= Len(z.name)
        BY <4>2 DEF Fitting
      <4>12. ZoneFor(v, n) # {}
        BY <4>9, <4>10, <4>11, <2>1, <1>3, ZoneClaims
      <4> QED
        BY <4>12, <3>3
    <3>4. DnsAction(v, n).kind # "refused"
      BY <3>3, ActionCases
    <3> QED
      BY <3>2, <3>4
  <2> QED
    BY <2>5, <2>6, <2>7
<1> QED
  BY <1>0, <1>1, <1>2, <1>3

(* A group that is warned about answers the domain for no device.          *)
LEMMA WarnedIsSilent ==
  ASSUME NEW d, Stored(d), NEW w \in NeverAnswers(d), NEW tags
  PROVE  d.groups[w[1]].name \notin Explain(d, w[2], tags).group
<1> DEFINE i == w[1]
           m == w[2]
           C == Candidates(d, tags)
           B == Best(d, m, tags)
           c == CHOOSE b \in B : TRUE
<1> SUFFICES ASSUME d.groups[i].name \in Explain(d, m, tags).group PROVE FALSE
  OBVIOUS
<1>1. /\ i \in DOMAIN d.groups /\ m \in MatchDomains(d)
      /\ d.groups[i].enabled /\ m \in d.groups[i].domains
      /\ \E j \in 1..(i - 1) : d.groups[j].enabled /\ m \in d.groups[j].domains /\ Covers(d.groups[j], d.groups[i])
  BY DEF NeverAnswers
<1> HIDE DEF i, m
<1>2. PICK j \in 1..(i - 1) : d.groups[j].enabled /\ m \in d.groups[j].domains /\ Covers(d.groups[j], d.groups[i])
  BY <1>1
<1>3. i \in Nat /\ j \in Nat /\ j < i /\ j \in DOMAIN d.groups /\ m \in Names
  <2>1. DOMAIN d.groups = 1..Len(d.groups) /\ Len(d.groups) \in Nat /\ m \in Names
    BY <1>1, StoredFacts
  <2> QED
    BY <2>1, <1>1, <1>2
<1>4. B # {} /\ c.source # "zone" /\ d.groups[i].name \in c.group
  <2> HIDE DEF B, c
  <2>1. \A k : Says(k).group = {}
    BY DEF Says
  <2> QED
    BY <2>1 DEF Explain, B, c
<1>5. c \in B /\ c \in Longest(C, m) /\ \A o \in Longest(C, m) : c.place <= o.place
  BY <1>4 DEF Best
<1>6. c \in C /\ InSuffix(m, c.suffix) /\ \A o \in C : InSuffix(m, o.suffix) => Len(o.suffix) <= Len(c.suffix)
  <2> HIDE DEF C, c, B
  <2> QED
    BY <1>5 DEF Longest, Fitting
<1>7. C = ZoneCandidates(d) \cup RouteCandidates(d, tags) /\ \A o \in C : o.suffix \in Names
  BY CandidatesNamed
<1> HIDE DEF C, c, B
<1>8. c \in RouteCandidates(d, tags)
  BY <1>4, <1>6, <1>7, ZonesAreCandidates
<1>9. PICK k \in DOMAIN d.groups, s \in MatchDomains(d) : c = GroupCandidate(d, k, s) /\ k \in Listers(d, tags, s)
  <2>1. ASSUME NEW r \in Range(d.split), c = SplitCandidate(d, r) PROVE FALSE
    BY <2>1, <1>4, SplitFields
  <2> QED
    BY <2>1, <1>8, CandidateCases
<1>10. c.suffix = s /\ c.place = k /\ c.group = {d.groups[k].name}
  BY <1>9, GroupFields
<1>11. k = i
  <2>1. d.groups[k].name = d.groups[i].name
    BY <1>4, <1>10
  <2>2. IsInjective([l \in DOMAIN d.groups |-> d.groups[l].name])
    BY DEF Stored, Canonicalise, CanonicalGroups
  <2> QED
    BY <2>1, <2>2, <1>1, <1>9 DEF IsInjective
<1>12. AppliesTo(d.groups[i], tags)
  BY <1>9, <1>11 DEF Listers
<1>13. AppliesTo(d.groups[j], tags)
  <2>1. d.groups[i].all \in BOOLEAN /\ d.groups[j].all \in BOOLEAN
    BY <1>1, <1>3, StoredFacts
  <2> QED
    BY <2>1, <1>2, <1>12 DEF AppliesTo, Covers
<1>14. GroupCandidate(d, i, m) \in C /\ GroupCandidate(d, j, m) \in C
  <2>1. i \in Listers(d, tags, m) /\ j \in Listers(d, tags, m)
    BY <1>1, <1>2, <1>3, <1>12, <1>13 DEF Listers
  <2>2. GroupCandidate(d, i, m) \in GroupCandidates(d, tags) /\ GroupCandidate(d, j, m) \in GroupCandidates(d, tags)
    BY <2>1, <1>1, CandidateIsThere
  <2> QED
    BY <2>2, <1>7 DEF RouteCandidates
<1>15. InSuffix(m, m)
  BY <1>3 DEF InSuffix, Names
<1>16. c.suffix = m
  <2>1. Len(m) <= Len(c.suffix)
    BY <1>6, <1>14, <1>15, GroupFields
  <2>2. Len(c.suffix) <= Len(m) /\ c.suffix \in Names
    BY <1>6, <1>7 DEF InSuffix
  <2>3. Len(m) \in Nat /\ Len(c.suffix) \in Nat
    BY <1>3, <2>2 DEF Names
  <2>4. Len(m) = Len(c.suffix)
    BY <2>1, <2>2, <2>3
  <2> QED
    BY <2>2, <2>4, <1>3, <1>6, <1>15, SuffixesEqual
<1>17. GroupCandidate(d, j, m) \in Longest(C, m)
  <2>1. GroupCandidate(d, j, m).suffix = c.suffix
    BY <1>16, GroupFields
  <2> QED
    BY <2>1, <1>6, <1>14 DEF Longest, Fitting
<1>18. i <= j
  <2>1. GroupCandidate(d, j, m).place = j
    BY GroupFields
  <2> QED
    BY <2>1, <1>5, <1>17, <1>10, <1>11
<1> QED
  BY <1>18, <1>3

(* At most one zone answers a name, and it has at most one alias for it.   *)
LEMMA AliasIsOne ==
  ASSUME NEW d, Stored(d), NEW revision, NEW tags, NEW n,
         NEW s \in AliasOf(AgentView(d, revision, tags), n), NEW t \in AliasOf(AgentView(d, revision, tags), n)
  PROVE  s = t
<1> DEFINE v == AgentView(d, revision, tags)
<1>0. \A z \in StubZones(v) : z \in EnabledZones(d)
  BY ViewFields DEF StubZones
<1> HIDE DEF v
<1>1. PICK z \in ZoneFor(v, n), y \in ZoneFor(v, n) :
        (\E p \in CnameOf(z, n) : s = p.value) /\ (\E q \in CnameOf(y, n) : t = q.value)
  BY DEF AliasOf, v
<1>2. PICK a \in Longest(ZoneSuffixes(v), n), b \in Longest(ZoneSuffixes(v), n) : z = a.zone /\ y = b.zone
  BY <1>1 DEF ZoneFor
<1>3. /\ a.suffix = z.name /\ z \in EnabledZones(d) /\ b.suffix = y.name /\ y \in EnabledZones(d)
      /\ InSuffix(n, a.suffix) /\ InSuffix(n, b.suffix)
      /\ Len(a.suffix) <= Len(b.suffix) /\ Len(b.suffix) <= Len(a.suffix)
  <2>1. a \in Fitting(ZoneSuffixes(v), n) /\ b \in Fitting(ZoneSuffixes(v), n)
        /\ Len(a.suffix) <= Len(b.suffix) /\ Len(b.suffix) <= Len(a.suffix)
    BY DEF Longest
  <2>2. \A e \in ZoneSuffixes(v) : e.suffix = e.zone.name /\ e.zone \in EnabledZones(d)
    BY <1>0 DEF ZoneSuffixes
  <2> QED
    BY <2>1, <2>2, <1>2 DEF Fitting
<1>4. z.name \in Names /\ y.name \in Names
  BY <1>3, StoredFacts
<1>5. Len(z.name) = Len(y.name)
  <2>1. Len(z.name) \in Nat /\ Len(y.name) \in Nat
    BY <1>4 DEF Names
  <2> QED
    BY <1>3, <2>1
<1>6. z = y
  <2>1. z.name = y.name
    BY <1>3, <1>4, <1>5, SuffixesEqual
  <2> QED
    BY <2>1, <1>3, StoredFacts
<1>7. CheckZoneRecords(z)
  BY <1>3, StoredFacts
<1>8. \A p, q \in CnameOf(z, n) : p = q
  BY <1>7 DEF CnameOf, CheckZoneRecords
<1> QED
  BY <1>1, <1>6, <1>8


LEMMA FollowKeepsChain ==
  ASSUME NEW d, Stored(d), NEW revision, NEW tags,
         NEW U, NEW p \in Seq(U), IsInjective(p), AliasOf(AgentView(d, revision, tags), p[Len(p)]) \subseteq U
  PROVE  FollowAlias(AgentView(d, revision, tags), p) \in Seq(U) /\ IsInjective(FollowAlias(AgentView(d, revision, tags), p))
<1> DEFINE v == AgentView(d, revision, tags)
           next == AliasOf(v, p[Len(p)])
           t == CHOOSE x \in next : TRUE
<1>1. CASE ~\E x \in next : Follows(p, x)
  BY <1>1 DEF FollowAlias
<1>2. CASE \E x \in next : Follows(p, x)
  <2>1. FollowAlias(v, p) = Append(p, t)
    BY <1>2 DEF FollowAlias
  <2>2. PICK x \in next : Follows(p, x)
    BY <1>2
  <2>3. t \in next
    BY <2>2
  <2>4. t = x
    BY <2>2, <2>3, AliasIsOne
  <2> HIDE DEF t
  <2>5. t \in U /\ t \notin Range(p)
    BY <2>2, <2>3, <2>4 DEF Follows
  <2> DEFINE a == Append(p, t)
  <2>6. a \in Seq(U) /\ Len(a) = Len(p) + 1 /\ a[Len(p) + 1] = t /\ \A i \in 1..Len(p) : a[i] = p[i]
    BY <2>5
  <2>7. \A i \in 1..Len(p) : p[i] # t
    BY <2>5 DEF Range
  <2>8. DOMAIN p = 1..Len(p) /\ Len(p) \in Nat /\ DOMAIN a = 1..(Len(p) + 1)
    BY <2>6
  <2> HIDE DEF a
  <2>9. IsInjective(a)
    <3> SUFFICES ASSUME NEW i \in DOMAIN a, NEW j \in DOMAIN a, a[i] = a[j] PROVE i = j
      BY DEF IsInjective
    <3>1. CASE i \in 1..Len(p) /\ j \in 1..Len(p)
      BY <3>1, <2>6, <2>8 DEF IsInjective
    <3>2. CASE i = Len(p) + 1 /\ j \in 1..Len(p)
      BY <3>2, <2>6, <2>7
    <3>3. CASE j = Len(p) + 1 /\ i \in 1..Len(p)
      BY <3>3, <2>6, <2>7
    <3>4. CASE i = Len(p) + 1 /\ j = Len(p) + 1
      BY <3>4
    <3> QED
      BY <3>1, <3>2, <3>3, <3>4, <2>8
  <2> QED
    BY <2>1, <2>6, <2>9 DEF a
<1> QED
  BY <1>1, <1>2

(* The steps of collect_answers(): each prefix of the recursion exists.    *)
LEMMA PathSteps ==
  ASSUME NEW v, NEW n
  PROVE  \E f : /\ CollectAnswers(v, n) = f[MAX_CNAME_DEPTH] /\ f[0] = <<n>>
                /\ \A k \in 1..MAX_CNAME_DEPTH : f[k] = FollowAlias(v, f[k - 1])
<1> DEFINE Runs(m, g) == g = [k \in 0..m |-> IF k = 0 THEN <<n>> ELSE FollowAlias(v, g[k - 1])]
           T == {m \in Nat : ~\E g : Runs(m, g)}
<1>0. MAX_CNAME_DEPTH \in Nat
  BY OrgDnsAssumption
<1>1. T = {}
  <2> SUFFICES ASSUME T # {} PROVE FALSE
    OBVIOUS
  <2>1. PICK m \in T : \A y \in T : m <= y
    <3>1. T \subseteq Nat
      OBVIOUS
    <3> HIDE DEF T
    <3> QED
      BY <3>1, LeastNumber
  <2>2. m \in Nat /\ ~\E g : Runs(m, g)
    OBVIOUS
  <2>3. m # 0
    <3> SUFFICES ASSUME m = 0 PROVE FALSE
      OBVIOUS
    <3> DEFINE g == [k \in 0..0 |-> <<n>>]
    <3>1. g = [k \in 0..0 |-> IF k = 0 THEN <<n>> ELSE FollowAlias(v, g[k - 1])]
      <4>1. \A k \in 0..0 : k = 0
        OBVIOUS
      <4> QED
        BY <4>1
    <3> HIDE DEF g
    <3>2. Runs(0, g)
      BY <3>1
    <3> QED
      BY <3>2, <2>2
  <2>4. m - 1 \in Nat /\ ~(m - 1 \in T)
    <3> HIDE DEF T, Runs
    <3> QED
      BY <2>1, <2>2, <2>3
  <2>5. PICK g : Runs(m - 1, g)
    BY <2>4
  <2> DEFINE h == [k \in 0..m |-> IF k = m THEN FollowAlias(v, g[m - 1]) ELSE g[k]]
  <2>6. \A k \in 0..(m - 1) : g[k] = IF k = 0 THEN <<n>> ELSE FollowAlias(v, g[k - 1])
    BY <2>5
  <2>7. ASSUME NEW k \in 0..m
        PROVE  h[k] = IF k = 0 THEN <<n>> ELSE FollowAlias(v, h[k - 1])
    <3>1. CASE k = m
      <4>1. h[k] = FollowAlias(v, g[m - 1]) /\ h[m - 1] = g[m - 1]
        BY <3>1, <2>2, <2>3
      <4> QED
        BY <4>1, <3>1, <2>3
    <3>2. CASE k # m
      <4>1. k \in 0..(m - 1) /\ h[k] = g[k]
        BY <3>2, <2>2, <2>7
      <4>2. CASE k = 0
        BY <4>1, <4>2, <2>6
      <4>3. CASE k # 0
        <5>1. k - 1 \in 0..m /\ k - 1 # m
          BY <4>1, <4>3, <2>2
        <5>2. h[k - 1] = g[k - 1]
          BY <5>1
        <5> QED
          BY <4>1, <4>3, <5>2, <2>6
      <4> QED
        BY <4>2, <4>3
    <3> QED
      BY <3>1, <3>2
  <2>8. h = [k \in 0..m |-> h[k]]
    OBVIOUS
  <2> HIDE DEF h
  <2>9. Runs(m, h)
    BY <2>7, <2>8
  <2> QED
    BY <2>2, <2>9
<1>2. \E g : Runs(MAX_CNAME_DEPTH, g)
  BY <1>0, <1>1
<1> DEFINE f == CHOOSE g : Runs(MAX_CNAME_DEPTH, g)
<1>3. Runs(MAX_CNAME_DEPTH, f)
  <2> HIDE DEF Runs
  <2> QED
    BY <1>2
<1>4. CollectAnswers(v, n) = f[MAX_CNAME_DEPTH]
  BY DEF CollectAnswers
<1> HIDE DEF f
<1>5. \A k \in 0..MAX_CNAME_DEPTH : f[k] = IF k = 0 THEN <<n>> ELSE FollowAlias(v, f[k - 1])
  BY <1>3
<1>6. f[0] = <<n>> /\ \A k \in 1..MAX_CNAME_DEPTH : f[k] = FollowAlias(v, f[k - 1])
  BY <1>0, <1>5
<1> QED
  BY <1>4, <1>6

(* No owner is named twice in an answer from a stored document's snapshot. *)
LEMMA AnswerNamesOnce ==
  ASSUME NEW d, Stored(d), NEW revision, NEW tags, NEW n
  PROVE  IsInjective(CollectAnswers(AgentView(d, revision, tags), n))
<1> DEFINE v == AgentView(d, revision, tags)
           W == {n} \cup UNION {{r.value : r \in z.records} : z \in EnabledZones(d)}
<1>1. \A x : AliasOf(v, x) \subseteq W
  <2> SUFFICES ASSUME NEW x, NEW t \in AliasOf(v, x) PROVE t \in W
    OBVIOUS
  <2>1. \A z \in StubZones(v) : z \in EnabledZones(d)
    BY ViewFields DEF StubZones
  <2> HIDE DEF v
  <2>2. PICK z \in ZoneFor(v, x) : \E r \in CnameOf(z, x) : t = r.value
    BY DEF AliasOf
  <2>3. z \in EnabledZones(d)
    BY <2>1 DEF ZoneFor, Longest, Fitting, ZoneSuffixes
  <2> QED
    BY <2>2, <2>3 DEF CnameOf
<1> HIDE DEF W
<1>2. PICK f : /\ CollectAnswers(v, n) = f[MAX_CNAME_DEPTH] /\ f[0] = <<n>>
               /\ \A k \in 1..MAX_CNAME_DEPTH : f[k] = FollowAlias(v, f[k - 1])
  <2> HIDE DEF v
  <2> QED
    BY PathSteps
<1> DEFINE Bad == {k \in 0..MAX_CNAME_DEPTH : ~(f[k] \in Seq(W) /\ IsInjective(f[k]))}
<1>3. MAX_CNAME_DEPTH \in Nat
  BY OrgDnsAssumption
<1>4. Bad = {}
  <2> SUFFICES ASSUME Bad # {} PROVE FALSE
    OBVIOUS
  <2>1. PICK k \in Bad : \A y \in Bad : k <= y
    <3>1. Bad \subseteq Nat
      OBVIOUS
    <3> HIDE DEF Bad
    <3> QED
      BY <3>1, LeastNumber
  <2>2. k \in 0..MAX_CNAME_DEPTH /\ ~(f[k] \in Seq(W) /\ IsInjective(f[k]))
    OBVIOUS
  <2>3. k # 0
    <3>1. n \in W
      BY DEF W
    <3>2. <<n>> \in Seq(W) /\ IsInjective(<<n>>)
      BY <3>1 DEF IsInjective
    <3> QED
      BY <1>2, <2>2, <3>2
  <2>4. k - 1 \in 0..MAX_CNAME_DEPTH /\ k \in 1..MAX_CNAME_DEPTH /\ ~(k <= k - 1)
    BY <2>2, <2>3, <1>3
  <2>5. k - 1 \notin Bad
    <3> HIDE DEF Bad
    <3> QED
      BY <2>1, <2>4
  <2>6. f[k - 1] \in Seq(W) /\ IsInjective(f[k - 1])
    BY <2>4, <2>5
  <2> DEFINE p == f[k - 1]
  <2>7. FollowAlias(v, p) \in Seq(W) /\ IsInjective(FollowAlias(v, p))
    <3>1. AliasOf(v, p[Len(p)]) \subseteq W /\ p \in Seq(W) /\ IsInjective(p)
      BY <1>1, <2>6
    <3> HIDE DEF p
    <3> QED
      BY <3>1, FollowKeepsChain
  <2> QED
    BY <2>2, <2>4, <2>7, <1>2
<1>5. MAX_CNAME_DEPTH \in 0..MAX_CNAME_DEPTH
  BY <1>3
<1>6. IsInjective(f[MAX_CNAME_DEPTH])
  BY <1>4, <1>5
<1> QED
  BY <1>2, <1>6

(* The snapshot a device has is the view of some stored document; one of   *)
(* the present revision is the present document's.                         *)
SnapshotTraced ==
  snapshot # NoSnapshot =>
    /\ snapshot.revision \in Nat /\ snapshot.revision <= heard
    /\ \E d : Stored(d) /\ snapshot = AgentView(d, snapshot.revision, DeviceTags)
    /\ snapshot.revision = dnsRevision => snapshot = AgentView(settings, dnsRevision, DeviceTags)
(* The inductive invariant of the organisation's DNS.                      *)
DnsIInv ==
  /\ Stored(settings)
  /\ dnsRevision \in Nat /\ heard \in Nat /\ heard <= dnsRevision /\ degraded \in BOOLEAN
  /\ SnapshotTraced /\ DegradedMeansBehind

LEMMA DnsInitially == OrgDnsInit => DnsIInv
<1> SUFFICES ASSUME OrgDnsInit PROVE DnsIInv
  OBVIOUS
<1>1. /\ settings.managed = TRUE /\ settings.split = <<>> /\ settings.groups = <<>> /\ settings.zones = <<>>
      /\ settings.records = {}
  BY DEF OrgDnsInit
<1>2. DnsShape(settings)
  BY DEF OrgDnsInit, DnsShape
<1>3. Range(settings.split) = {} /\ Range(settings.groups) = {} /\ Range(settings.zones) = {}
  BY <1>1 DEF Range
<1>4. CanonicalSplit(settings) /\ CanonicalGroups(settings)
  BY <1>1, <1>3 DEF CanonicalSplit, CanonicalGroups, IsInjective
<1>5. CanonicalRecords(settings) /\ CanonicalZones(settings)
  BY <1>1, <1>3 DEF CanonicalRecords, CanonicalZones
<1>6. Stored(settings)
  BY <1>2, <1>4, <1>5 DEF Stored, Canonicalise
<1>7. SnapshotTraced /\ DegradedMeansBehind
  BY DEF OrgDnsInit, SnapshotTraced, DegradedMeansBehind
<1>8. dnsRevision \in Nat /\ heard \in Nat /\ heard <= dnsRevision
  BY DEF OrgDnsInit
<1>9. degraded \in BOOLEAN
  BY Zenon DEF OrgDnsInit
<1> QED
  BY <1>6, <1>7, <1>8, <1>9 DEF DnsIInv

(* A publish of a document of the right shape.                             *)
LEMMA PutStep ==
  ASSUME DnsIInv, NEW d, PutDns(d), DnsShape(d) PROVE DnsIInv'
<1>1. /\ Stored(settings') /\ dnsRevision' = dnsRevision + 1 /\ snapshot' = snapshot /\ degraded' = degraded /\ heard' = heard
      /\ dnsRevision \in Nat
  BY DEF PutDns, Stored, DnsIInv
<1>2. SnapshotTraced'
  BY <1>1 DEF DnsIInv, SnapshotTraced
<1>3. DegradedMeansBehind'
  BY <1>1 DEF DnsIInv, DegradedMeansBehind
<1> QED
  BY <1>1, <1>2, <1>3 DEF DnsIInv

LEMMA ListEdited ==
  ASSUME NEW X, NEW s \in Seq(X), NEW t \in {Append(s, x) : x \in IF Room(s) THEN X ELSE {}} \cup Drops(s)
  PROVE  t \in Seq(X)
<1>1. CASE t \in {Append(s, x) : x \in IF Room(s) THEN X ELSE {}}
  BY <1>1
<1>2. CASE t \in Drops(s)
  <2>1. PICK i \in DOMAIN s : t = SubSeq(s, 1, i - 1) \o SubSeq(s, i + 1, Len(s))
    BY <1>2 DEF Drops, RemoveAt
  <2>2. i \in 1..Len(s) /\ Len(s) \in Nat
    OBVIOUS
  <2>3. \A j \in 1..(i - 1) : s[j] \in X
    BY <2>2
  <2>4. \A j \in (i + 1)..Len(s) : s[j] \in X
    BY <2>2
  <2>5. SubSeq(s, 1, i - 1) \in Seq(X)
    BY <2>2, <2>3
  <2>6. SubSeq(s, i + 1, Len(s)) \in Seq(X)
    BY <2>2, <2>4
  <2> QED
    BY <2>1, <2>5, <2>6
<1> QED
  BY <1>1, <1>2

LEMMA EditsStep ==
  ASSUME DnsIInv, EditSplit \/ EditGroups \/ EditZones \/ (\E r \in ExtraRecords : EditRecord(r)) \/ SwitchManaged
  PROVE  DnsIInv'
<1>0. DnsShape(settings)
  BY DEF DnsIInv, Stored
<1>1. CASE EditSplit
  <2>1. PICK s \in {Append(settings.split, r) : r \in IF Room(settings.split) THEN Splits ELSE {}}
                     \cup Drops(settings.split) : PutDns([settings EXCEPT !.split = s])
    BY <1>1 DEF EditSplit
  <2>2. settings.split \in Seq(Splits)
    BY <1>0 DEF DnsShape
  <2>3. s \in Seq(Splits)
    BY <2>1, <2>2, ListEdited
  <2>4. DnsShape([settings EXCEPT !.split = s])
    BY <1>0, <2>3 DEF DnsShape
  <2> QED
    BY <2>1, <2>4, PutStep
<1>2. CASE EditGroups
  <2>1. PICK s \in {Append(settings.groups, g) : g \in IF Room(settings.groups) THEN NameserverGroups ELSE {}}
                     \cup Drops(settings.groups) : PutDns([settings EXCEPT !.groups = s])
    BY <1>2 DEF EditGroups
  <2>2. settings.groups \in Seq(NameserverGroups)
    BY <1>0 DEF DnsShape
  <2>3. s \in Seq(NameserverGroups)
    BY <2>1, <2>2, ListEdited
  <2>4. DnsShape([settings EXCEPT !.groups = s])
    BY <1>0, <2>3 DEF DnsShape
  <2> QED
    BY <2>1, <2>4, PutStep
<1>3. CASE EditZones
  <2>1. PICK s \in {Append(settings.zones, z) : z \in IF Room(settings.zones) THEN Zones ELSE {}}
                     \cup Drops(settings.zones) : PutDns([settings EXCEPT !.zones = s])
    BY <1>3 DEF EditZones
  <2>2. settings.zones \in Seq(Zones)
    BY <1>0 DEF DnsShape
  <2>3. s \in Seq(Zones)
    BY <2>1, <2>2, ListEdited
  <2>4. DnsShape([settings EXCEPT !.zones = s])
    BY <1>0, <2>3 DEF DnsShape
  <2> QED
    BY <2>1, <2>4, PutStep
<1>4. CASE \E r \in ExtraRecords : EditRecord(r)
  <2>1. PICK r \in ExtraRecords : EditRecord(r)
    BY <1>4
  <2> DEFINE rows == IF r \in settings.records THEN settings.records \ {r} ELSE settings.records \cup {r}
             search == settings.search \cup {r.name}
             d == [settings EXCEPT !.records = rows, !.search = search]
  <2>2. rows \in SUBSET ExtraRecords
    BY <1>0 DEF DnsShape
  <2>3. search \in SUBSET {q.name : q \in ExtraRecords}
    BY <1>0 DEF DnsShape
  <2>4. PutDns(d)
    BY <2>1, Zenon DEF EditRecord
  <2>5. DnsShape(d)
    <3> HIDE DEF rows, search
    <3> QED
      BY <1>0, <2>2, <2>3 DEF DnsShape
  <2> HIDE DEF d
  <2> QED
    BY <2>4, <2>5, PutStep
<1>5. CASE SwitchManaged
  <2>1. PutDns([settings EXCEPT !.managed = ~@])
    BY <1>5 DEF SwitchManaged
  <2>2. DnsShape([settings EXCEPT !.managed = ~@])
    BY <1>0 DEF DnsShape
  <2> QED
    BY <2>1, <2>2, PutStep
<1> QED
  BY <1>1, <1>2, <1>3, <1>4, <1>5

(* A poll: a snapshot that is kept is older than the one it brought.       *)
LEMMA AdoptStep ==
  ASSUME DnsIInv, NEW answered \in BOOLEAN, AdoptOrgDnsSnapshot(answered) PROVE DnsIInv'
<1> DEFINE next == AgentView(settings, dnsRevision, DeviceTags)
<1>1. /\ heard' = dnsRevision /\ settings' = settings /\ dnsRevision' = dnsRevision
      /\ Stored(settings) /\ dnsRevision \in Nat /\ heard \in Nat /\ heard <= dnsRevision /\ degraded \in BOOLEAN
      /\ next.revision = dnsRevision /\ next # NoSnapshot
  BY ViewFields DEF AdoptOrgDnsSnapshot, DnsIInv
<1>2. CASE KeepsLastGood(next, answered)
  <2>1. degraded' = TRUE /\ snapshot' = snapshot /\ snapshot # NoSnapshot /\ snapshot # next
    BY <1>2 DEF AdoptOrgDnsSnapshot, KeepsLastGood
  <2> HIDE DEF next
  <2>2. snapshot.revision # dnsRevision /\ snapshot.revision \in Nat /\ snapshot.revision <= heard
        /\ \E d : Stored(d) /\ snapshot = AgentView(d, snapshot.revision, DeviceTags)
    BY <2>1 DEF DnsIInv, SnapshotTraced, next
  <2>3. SnapshotTraced'
    BY <1>1, <2>1, <2>2 DEF SnapshotTraced
  <2>4. DegradedMeansBehind'
    BY <1>1, <2>1, <2>2 DEF DegradedMeansBehind
  <2> QED
    BY <1>1, <2>1, <2>3, <2>4 DEF DnsIInv
<1>3. CASE ~KeepsLastGood(next, answered)
  <2>1. snapshot' = next /\ degraded' = (degraded /\ ~Clears(next, answered))
    BY <1>3 DEF AdoptOrgDnsSnapshot
  <2>2. degraded' = FALSE
    <3> SUFFICES ASSUME degraded PROVE Clears(next, answered)
      BY <2>1, <1>1
    <3>1. snapshot # NoSnapshot /\ snapshot.revision # heard /\ snapshot.revision \in Nat /\ snapshot.revision <= heard
      BY DEF DnsIInv, DegradedMeansBehind, SnapshotTraced
    <3> HIDE DEF next
    <3>2. snapshot # next
      BY <3>1, <1>1
    <3> QED
      BY <3>1, <3>2, <1>3 DEF Clears, KeepsLastGood
  <2> HIDE DEF next
  <2>3. SnapshotTraced'
    <3>1. next = AgentView(settings, next.revision, DeviceTags) /\ next = AgentView(settings, dnsRevision, DeviceTags)
      BY <1>1 DEF next
    <3> QED
      BY <1>1, <2>1, <3>1 DEF SnapshotTraced
  <2>4. DegradedMeansBehind'
    <3>1. snapshot'.revision = heard'
      BY <1>1, <2>1
    <3> QED
      BY <2>2, <3>1 DEF DegradedMeansBehind
  <2>5. Stored(settings')
    BY <1>1
  <2>6. heard' \in Nat /\ dnsRevision' \in Nat /\ heard' <= dnsRevision'
    BY <1>1
  <2>7. degraded' \in BOOLEAN
    BY <2>2, Zenon
  <2> QED
    BY <2>3, <2>4, <2>5, <2>6, <2>7 DEF DnsIInv
<1> QED
  BY <1>2, <1>3

(* What a device forwards, refuses and answers is what the console's       *)
(* preview explains of the same document, each owner is in an answer once, *)
(* dns_degraded tells an older snapshot, and a group warned about never    *)
(* answers; for every catalogue of routes, groups and zones, every set of  *)
(* tags, every order of edits and polls and every outcome of the probes    *)
(* (org_dns.rs explain(), agent_view(), warnings(); dns.rs dns_action()).  *)
THEOREM DnsAlwaysAsExplained == OrgDnsSpec => []OrgDnsInv
<1>1. DnsIInv => OrgDnsInv
  <2> SUFFICES ASSUME DnsIInv PROVE OrgDnsInv
    OBVIOUS
  <2>1. Stored(settings) /\ DegradedMeansBehind /\ SnapshotTraced
    BY DEF DnsIInv
  <2>2. ForwardedAsExplained
    <3> SUFFICES ASSUME NEW n \in DnsNames
                 PROVE  /\ Current(n).kind = "forward" =>
                             Told(n).kind = "forward" /\ Told(n).resolvers = Current(n).resolvers
                        /\ ~PrivateSuffix(n) => (Current(n).kind = "refused"
                                                  <=> Told(n).kind \in {"unmanaged", "not_handled"})
      BY DEF ForwardedAsExplained
    <3>1. n \in Names
      BY OrgDnsAssumption
    <3> QED
      BY <3>1, <2>1, ForwardsAsExplained, RefusesAsExplained DEF Current, Told
  <2>3. AnswersOnce
    <3> SUFFICES ASSUME snapshot # NoSnapshot, NEW n \in DnsNames PROVE IsInjective(CollectAnswers(snapshot, n))
      BY DEF AnswersOnce
    <3>1. PICK d : Stored(d) /\ snapshot = AgentView(d, snapshot.revision, DeviceTags)
      BY <2>1 DEF SnapshotTraced
    <3>2. IsInjective(CollectAnswers(AgentView(d, snapshot.revision, DeviceTags), n))
      BY <3>1, AnswerNamesOnce
    <3> QED
      BY <3>1, <3>2
  <2>4. WarnedNeverAnswers
    BY <2>1, WarnedIsSilent DEF WarnedNeverAnswers
  <2> QED
    BY <2>1, <2>2, <2>3, <2>4 DEF OrgDnsInv
<1>2. DnsIInv /\ [OrgDnsNext]_dnsVars => DnsIInv'
  <2> SUFFICES ASSUME DnsIInv, [OrgDnsNext]_dnsVars PROVE DnsIInv'
    OBVIOUS
  <2>1. CASE UNCHANGED dnsVars
    BY <2>1 DEF dnsVars, DnsIInv, SnapshotTraced, DegradedMeansBehind
  <2>2. CASE OrgDnsNext
    BY <2>2, EditsStep, AdoptStep DEF OrgDnsNext
  <2> QED
    BY <2>1, <2>2
<1> QED
  BY <1>1, <1>2, DnsInitially, PTL DEF OrgDnsSpec
=============================================================================
