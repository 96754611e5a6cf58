------------------------------- MODULE OrgDns -------------------------------
(***************************************************************************)
(* Organisation DNS: the document the coordinator validates and explains   *)
(* (blaktail-coord/src/org_dns.rs), the snapshot each device gets of it,   *)
(* and the stub that answers or forwards a query on the device             *)
(* (blaktaild/src/dns.rs).                                                 *)
(*                                                                         *)
(* A name is its sequence of labels.  Of the record types the model keeps  *)
(* addresses and CNAMEs; a resolver is a value of the catalogues.  What a  *)
(* list's order does not decide (routes and zones, whose suffixes differ)  *)
(* is a set once it has left the document.                                 *)
(***************************************************************************)
EXTENDS Naturals, SequencesExt

CONSTANTS
  DnsNames,      \* names asked for
  MagicDomain,   \* the organisation's own suffix under .blaktail
  Hosts,         \* full names of devices and published services
  DeviceTags,    \* the asking device's tags
  Splits, NameserverGroups, Zones, ExtraRecords, \* what an administrator may write
  MAX_CNAME_DEPTH, MaxDnsItems, MaxDnsRevision

Names == Seq(STRING)
PrivateSuffix(name) == name # << >> /\ name[Len(name)] = "blaktail"

(* What parsing leaves: names, and the organisation's own ones private.    *)
ASSUME OrgDnsAssumption ==
  /\ MAX_CNAME_DEPTH \in Nat /\ MaxDnsItems \in Nat /\ MaxDnsRevision \in Nat
  /\ DnsNames \subseteq Names
  /\ MagicDomain \in Names /\ PrivateSuffix(MagicDomain)
  /\ \A h \in Hosts : h \in Names /\ PrivateSuffix(h)
  /\ \A r \in Splits : r.suffix \in Names
  /\ \A g \in NameserverGroups : g.domains \subseteq Names /\ {g.enabled, g.all} \subseteq BOOLEAN
  /\ \A z \in Zones : z.name \in Names /\ z.enabled \in BOOLEAN /\ \A r \in z.records : r.name \in Names

VARIABLES
  settings,   \* the published document
  dnsRevision,
  snapshot,   \* the device's adopted snapshot
  degraded,   \* dns_degraded
  heard       \* revision of the snapshot the last poll brought

dnsVars == <<settings, dnsRevision, snapshot, degraded, heard>>

-----------------------------------------------------------------------------
(* in_suffix(), zone_contains().                                           *)
InSuffix(name, suffix) ==
  /\ Len(suffix) <= Len(name)
  /\ \A i \in 1..Len(suffix) : suffix[i] = name[Len(name) - Len(suffix) + i]
Fitting(entries, name) == {e \in entries : InSuffix(name, e.suffix)}
(* Those with the longest of the suffixes that match.                      *)
Longest(entries, name) ==
  {e \in Fitting(entries, name) : \A o \in Fitting(entries, name) : Len(o.suffix) <= Len(e.suffix)}

-----------------------------------------------------------------------------
MatchDomains(d) == UNION {g.domains : g \in Range(d.groups)}
(* canonicalise() and its parts: what a document must be to be stored.     *)
CanonicalSplit(d) ==
  /\ IsInjective([i \in DOMAIN d.split |-> d.split[i].suffix])
  /\ \A r \in Range(d.split) : ~PrivateSuffix(r.suffix) /\ r.resolvers # {}
CanonicalRecords(d) ==
  \A r \in d.records :
    /\ ~PrivateSuffix(r.name)
    /\ \E z \in {s.suffix : s \in Range(d.split)} \cup d.search : InSuffix(r.name, z)
CanonicalGroups(d) ==
  /\ IsInjective([i \in DOMAIN d.groups |-> d.groups[i].name])
  /\ \A g \in Range(d.groups) :
       /\ g.resolvers # {} /\ g.domains # {} /\ g.all = (g.tags = {})
       /\ \A m \in g.domains : ~PrivateSuffix(m) /\ \A r \in Range(d.split) : r.suffix # m
(* check_zone_records(): no CNAME at the apex or beside another record, no *)
(* loop inside the zone.                                                   *)
CnameOf(z, name) == {r \in z.records : r.name = name /\ r.type = "CNAME"}
CnameLoop(z, r) ==
  LET at[k \in 0..MAX_CNAME_DEPTH] ==
        IF k = 0 THEN r.value
        ELSE IF CnameOf(z, at[k-1]) = {} THEN at[k-1]
        ELSE (CHOOSE c \in CnameOf(z, at[k-1]) : TRUE).value
  IN  \E k \in DOMAIN at : at[k] = r.name
CheckZoneRecords(z) ==
  \A r \in z.records :
    /\ InSuffix(r.name, z.name)
    /\ r.type = "CNAME" =>
         /\ r.name # z.name /\ r.value # r.name
         /\ \A q \in z.records : q.name = r.name => q = r
         /\ ~CnameLoop(z, r)
CanonicalZones(d) ==
  /\ \A i, j \in DOMAIN d.zones : i # j => ~InSuffix(d.zones[i].name, d.zones[j].name)
  /\ \A z \in Range(d.zones) :
       /\ ~PrivateSuffix(z.name) /\ CheckZoneRecords(z)
       /\ z.name \notin {r.suffix : r \in Range(d.split)} \cup MatchDomains(d)
       /\ \A r \in d.records : ~InSuffix(r.name, z.name)
Canonicalise(d) == CanonicalSplit(d) /\ CanonicalRecords(d) /\ CanonicalGroups(d) /\ CanonicalZones(d)

-----------------------------------------------------------------------------
(* applies_to().                                                           *)
AppliesTo(g, tags) == g.enabled /\ (g.all \/ g.tags \cap tags # {})

(* The places of the groups that are for the device and list the domain.   *)
Listers(d, tags, m) == {i \in DOMAIN d.groups : AppliesTo(d.groups[i], tags) /\ m \in d.groups[i].domains}
GroupRoute(d, i, m) == [suffix |-> m, resolvers |-> d.groups[i].resolvers]
(* Mutant: a match domain an earlier group lists is appended again.        *)
AgentSplitRepeats(d, tags) ==
  Range(d.split) \cup {GroupRoute(d, p[1], p[2]) : p \in {q \in (DOMAIN d.groups) \X MatchDomains(d) : q[1] \in Listers(d, tags, q[2])}}
(* agent_view(): the split routes of the document, then each match domain  *)
(* of the device's groups that no earlier entry has.                       *)
AgentSplit(d, tags) ==
  Range(d.split) \cup
    {GroupRoute(d, p[1], p[2]) :
       p \in {q \in (DOMAIN d.groups) \X MatchDomains(d) :
                /\ q[1] \in Listers(d, tags, q[2]) /\ \A j \in Listers(d, tags, q[2]) : q[1] <= j
                /\ \A r \in Range(d.split) : r.suffix # q[2]}}
EnabledZones(d) == {z \in Range(d.zones) : z.enabled}
ZoneAddresses(z) == {[name |-> r.name, value |-> r.value] : r \in {q \in z.records : q.type = "A"}}
(* The address records of the enabled zones are repeated as extra records  *)
(* and their names as suffixes without a resolver, for agents that predate *)
(* zones; this agent drops the latter (split_from_snapshot()).             *)
AgentView(d, revision, tags) ==
  [revision |-> revision, managed |-> d.managed, split |-> AgentSplit(d, tags),
   records |-> d.records \cup UNION {ZoneAddresses(z) : z \in EnabledZones(d)},
   zones |-> EnabledZones(d)]

-----------------------------------------------------------------------------
(* The stub.  records_from_state(): peer and service names always, the     *)
(* snapshot's lists only while it is managed.                              *)
StubSplit(v) == IF v.managed THEN v.split ELSE {}
StubZones(v) == IF v.managed THEN v.zones ELSE {}
(* A device answers to its short label too, a service never.               *)
HostNames == Hosts \cup {<<Head(h)>> : h \in {g \in Hosts : Len(g) = Len(MagicDomain) + 1}}
StubAddresses(v) ==
  HostNames
    \cup (IF v.managed THEN {r.name : r \in v.records} ELSE {})
(* magic_name(): a single label, or a name in the organisation's suffix.   *)
MagicName(name) == Len(name) = 1 \/ InSuffix(name, MagicDomain)

(* zone_for(), unless a longer split suffix claims the name.               *)
ZoneSuffixes(v) == {[suffix |-> z.name, zone |-> z] : z \in StubZones(v)}
ZoneFor(v, name) ==
  {e.zone : e \in {l \in Longest(ZoneSuffixes(v), name) :
      ~MagicName(name) /\ \A r \in Fitting(StubSplit(v), name) : Len(r.suffix) <= Len(l.suffix)}}
(* split_resolvers().                                                      *)
SplitResolvers(v, name) ==
  IF PrivateSuffix(name) THEN {} ELSE UNION {r.resolvers : r \in Longest(StubSplit(v), name)}

(* zone_response(): a name exists when it owns records or an owner is      *)
(* below it.                                                               *)
ZoneResponse(z, name) == IF \E r \in z.records : InSuffix(r.name, name) THEN "answer" ELSE "nxdomain"
Reply(k) == [kind |-> k, resolvers |-> {}]
(* dns_action() and answer().                                              *)
DnsAction(v, name) ==
  IF ZoneFor(v, name) # {}
  THEN Reply(ZoneResponse(CHOOSE z \in ZoneFor(v, name) : TRUE, name))
  ELSE IF name \in StubAddresses(v) THEN Reply("answer")
  ELSE IF MagicName(name) THEN Reply("nxdomain")
  ELSE IF SplitResolvers(v, name) # {}
       THEN [kind |-> "forward", resolvers |-> SplitResolvers(v, name)]
  ELSE Reply("refused")

(* The target of the alias a zone has for the name.                        *)
AliasOf(v, name) == UNION {{r.value : r \in CnameOf(z, name)} : z \in ZoneFor(v, name)}
Follows(path, target) == target \notin Range(path)
FollowAlias(v, path) ==
  LET next == AliasOf(v, path[Len(path)])
  IN  IF \E t \in next : Follows(path, t) THEN Append(path, CHOOSE t \in next : TRUE) ELSE path
(* collect_answers(): the owners of the answer's records, a chain followed *)
(* through local names only and at most MAX_CNAME_DEPTH times.             *)
CollectAnswers(v, name) ==
  LET path[k \in 0..MAX_CNAME_DEPTH] == IF k = 0 THEN <<name>> ELSE FollowAlias(v, path[k - 1])
  IN  path[MAX_CNAME_DEPTH]

-----------------------------------------------------------------------------
(* explain(): its candidates in the order it lists them, the zones before  *)
(* the groups in theirs before the split routes.                           *)
Candidate(suffix, source, resolvers, group, place) ==
  [suffix |-> suffix, source |-> source, resolvers |-> resolvers, group |-> group, place |-> place]
ZoneCandidates(d) == {Candidate(z.name, "zone", {}, {}, 0) : z \in EnabledZones(d)}
GroupCandidates(d, tags) ==
  {Candidate(p[2], "group", d.groups[p[1]].resolvers, {d.groups[p[1]].name}, p[1]) :
     p \in {q \in (DOMAIN d.groups) \X MatchDomains(d) : q[1] \in Listers(d, tags, q[2])}}
SplitCandidates(d) ==
  {Candidate(r.suffix, "split", r.resolvers, {}, Len(d.groups) + 1) : r \in Range(d.split)}
Candidates(d, tags) == ZoneCandidates(d) \cup GroupCandidates(d, tags) \cup SplitCandidates(d)
(* The longest suffix that matches, the first of equals.                   *)
Best(d, name, tags) ==
  {c \in Longest(Candidates(d, tags), name) : \A o \in Longest(Candidates(d, tags), name) : c.place <= o.place}
Says(k) == [kind |-> k, resolvers |-> {}, group |-> {}]
Explain(d, name, tags) ==
  LET best == Best(d, name, tags)
      c == CHOOSE b \in best : TRUE
      Has == \E z \in Range(d.zones) : z.name = c.suffix /\ \E r \in z.records : r.name = name
  IN  IF Len(name) = 1 \/ PrivateSuffix(name) THEN Says("magic_dns")
      ELSE IF ~d.managed THEN Says("unmanaged")
      ELSE IF \E r \in d.records : r.name = name THEN Says("legacy_record")
      ELSE IF best = {} THEN Says("not_handled")
      ELSE IF c.source # "zone" THEN [kind |-> "forward", resolvers |-> c.resolvers, group |-> c.group]
      ELSE IF Has THEN Says("zone") ELSE Says("zone_nxdomain")

(* warnings(): an earlier group wins a match domain for all the devices of *)
(* a later one.                                                            *)
Covers(earlier, g) == earlier.all \/ (~g.all /\ g.tags \subseteq earlier.tags)
NeverAnswers(d) ==
  {w \in (DOMAIN d.groups) \X MatchDomains(d) :
     LET g == d.groups[w[1]]
     IN  /\ g.enabled /\ w[2] \in g.domains
         /\ \E j \in 1..(w[1] - 1) :
              d.groups[j].enabled /\ w[2] \in d.groups[j].domains /\ Covers(d.groups[j], g)}

-----------------------------------------------------------------------------
NoSnapshot == << >>
(* default_settings().                                                     *)
OrgDnsInit ==
  /\ settings = [managed |-> TRUE, split |-> <<>>, groups |-> <<>>, zones |-> <<>>,
                 records |-> {}, search |-> {}]
  /\ dnsRevision = 0 /\ heard = 0
  /\ snapshot = NoSnapshot /\ degraded = FALSE

(* A document is written whole; each differs from the last in one item.    *)
PutDns(d) ==
  /\ dnsRevision < MaxDnsRevision /\ d # settings /\ Canonicalise(d)
  /\ settings' = d /\ dnsRevision' = dnsRevision + 1
  /\ UNCHANGED <<snapshot, degraded, heard>>
Room(s) == Len(s) < MaxDnsItems
Drops(s) == {RemoveAt(s, i) : i \in DOMAIN s}
EditSplit ==
  \E s \in {Append(settings.split, r) : r \in IF Room(settings.split) THEN Splits ELSE {}}
             \cup Drops(settings.split) : PutDns([settings EXCEPT !.split = s])
EditGroups ==
  \E s \in {Append(settings.groups, g) : g \in IF Room(settings.groups) THEN NameserverGroups ELSE {}}
             \cup Drops(settings.groups) : PutDns([settings EXCEPT !.groups = s])
EditZones ==
  \E s \in {Append(settings.zones, z) : z \in IF Room(settings.zones) THEN Zones ELSE {}}
             \cup Drops(settings.zones) : PutDns([settings EXCEPT !.zones = s])
EditRecord(r) ==
  PutDns([settings EXCEPT !.records = IF r \in @ THEN @ \ {r} ELSE @ \cup {r},
                          !.search = @ \cup {r.name}])
SwitchManaged == PutDns([settings EXCEPT !.managed = ~@])

(* added_resolvers(): those of the new snapshot the old one does not list. *)
ResolversOf(v) == IF v = NoSnapshot THEN {} ELSE UNION {r.resolvers : r \in v.split}
Added(next) == ResolversOf(next) \ ResolversOf(snapshot)
(* decide_org_dns(): keep the last good snapshot when every added resolver *)
(* is silent.                                                              *)
KeepsLastGood(next, answered) ==
  /\ snapshot # NoSnapshot /\ snapshot # next
  /\ next.managed /\ Added(next) # {} /\ ~answered
Clears(next, answered) == next # snapshot /\ (~next.managed \/ Added(next) = {} \/ answered)
(* adopt_org_dns_snapshot() of a poll; probe_new_resolvers() finds one of  *)
(* the added resolvers answering, or none.                                 *)
AdoptOrgDnsSnapshot(answered) ==
  LET next == AgentView(settings, dnsRevision, DeviceTags)
  IN  /\ heard' = dnsRevision
      /\ IF KeepsLastGood(next, answered)
         THEN degraded' = TRUE /\ UNCHANGED snapshot
         ELSE snapshot' = next /\ degraded' = (degraded /\ ~Clears(next, answered))
      /\ UNCHANGED <<settings, dnsRevision>>

OrgDnsNext ==
  \/ EditSplit \/ EditGroups \/ EditZones
  \/ \E r \in ExtraRecords : EditRecord(r)
  \/ SwitchManaged
  \/ \E answered \in BOOLEAN : AdoptOrgDnsSnapshot(answered)

OrgDnsSpec == OrgDnsInit /\ [][OrgDnsNext]_dnsVars

-----------------------------------------------------------------------------
Current(name) == DnsAction(AgentView(settings, dnsRevision, DeviceTags), name)
Told(name) == Explain(settings, name, DeviceTags)

(* What a device in step with the document forwards, and where to, is what *)
(* the console's preview explains; what it refuses the preview calls not   *)
(* handled: the flattening of groups and zones into the snapshot keeps the *)
(* precedence explain() describes.                                         *)
ForwardedAsExplained ==
  \A n \in DnsNames :
    /\ Current(n).kind = "forward" =>
         Told(n).kind = "forward" /\ Told(n).resolvers = Current(n).resolvers
    /\ ~PrivateSuffix(n) => (Current(n).kind = "refused"
                              <=> Told(n).kind \in {"unmanaged", "not_handled"})

(* Each owner is named once in an answer, however the CNAMEs of several    *)
(* zones, or of a snapshot the agent kept, point at each other.            *)
AnswersOnce ==
  snapshot # NoSnapshot => \A n \in DnsNames : IsInjective(CollectAnswers(snapshot, n))

(* dns_degraded is set exactly while the device answers from an older      *)
(* snapshot than the one its last poll brought.                            *)
DegradedMeansBehind ==
  degraded <=> snapshot # NoSnapshot /\ snapshot.revision # heard

(* A group the console warns "never answers" a match domain answers it for *)
(* no device, whatever its tags.                                           *)
WarnedNeverAnswers ==
  \A w \in NeverAnswers(settings), tags \in SUBSET (UNION {g.tags : g \in Range(settings.groups)}) :
    settings.groups[w[1]].name \notin Explain(settings, w[2], tags).group

(* What the console says of DNS is what the agent does.                    *)
OrgDnsInv == ForwardedAsExplained /\ AnswersOnce /\ DegradedMeansBehind /\ WarnedNeverAnswers
=============================================================================
