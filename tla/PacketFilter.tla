--------------------------- MODULE PacketFilter ---------------------------
(***************************************************************************)
(* The userspace inbound filter of the iOS, Android and Windows clients:   *)
(* its bounded connection table, fragments, counters and flow events       *)
(* (blaktail-ios-wg/src/filter.rs).  Which new flows a policy admits is    *)
(* module AclPolicy; here a policy is the set of services it admits.       *)
(*                                                                         *)
(* A flow key is a service and a remote port; bytes and addresses are left *)
(* out.  A lifetime is how many ticks of the clock a flow lasts unused.    *)
(* Generations only grow and retain keeps the order, so the queue is the   *)
(* set of its entries, the one of the lowest generation at its head.       *)
(***************************************************************************)
EXTENDS Naturals, SequencesExt, FiniteSetsExt

CONSTANTS
  Keys,           \* flow keys
  MAX_STATES, MAX_FRAGMENTS, MAX_PENDING_DROPS, MAX_EVENTS,
  PURGE_EVERY, PURGE_SLACK, NEW_SECS, REPLIED_SECS, FRAGMENT_SECS,
  MaxFilterClock, MaxFlows, MaxPolicies

ASSUME FilterAssumption ==
  /\ {MAX_STATES, MAX_FRAGMENTS, MAX_EVENTS, NEW_SECS, REPLIED_SECS, FRAGMENT_SECS, PURGE_EVERY}
       \subseteq Nat \ {0}
  /\ {MAX_PENDING_DROPS, PURGE_SLACK} \subseteq Nat

VARIABLES
  admits,       \* the keys whose inbound flows the policy admits
  table,        \* Filter.states
  order,        \* Filter.order: keys with their generation, the lowest first
  generation,   \* Filter.generation
  fragments,    \* Filter.fragments: a verdict by key and direction
  lastPurge, ticks,
  buffer,       \* flow_events::Buffer while events are on, or Off
  drops,        \* Filter.drops
  nextFlow,     \* Filter.next_flow
  policies      \* number of policy changes

filterVars == <<admits, table, order, generation, fragments, lastPurge, ticks, buffer, drops, nextFlow, policies>>

NoState == [from |-> "none"]
Off == <<[id |-> 0, kind |-> "off"]>>
NoFlow == 0
(* parse, inbound_key: a packet is its flow key and whether it is the      *)
(* first of several fragments.                                             *)
Packets == [key : Keys, first : BOOLEAN]
FragmentKeys == Keys \X {"inbound", "outbound"}
Lives(s) == s # NoState /\ s.expires > ticks
Tracked(t) == {k \in DOMAIN t : t[k] # NoState}
EventsOn == buffer # Off
(* Buffer::push keeps the newest.                                          *)
Buffered(b, events) ==
  IF b = Off THEN b
  ELSE LET all == b \o events
       IN SubSeq(all, IF Len(all) > MAX_EVENTS THEN Len(all) - MAX_EVENTS + 1 ELSE 1, Len(all))
(* ended: the end events of the flows that go away.                        *)
Ends(t, gone) ==
  LET keys == SetToSeq({k \in gone : t[k].flow # NoFlow})
  IN [i \in DOMAIN keys |-> [id |-> t[keys[i]].flow, kind |-> "end"]]
Without(t, gone) == [k \in Keys |-> IF k \in gone THEN NoState ELSE t[k]]
(* order.retain: entries whose flow is still of their generation.          *)
IsCurrent(e, t) == t[e.key] # NoState /\ t[e.key].gen = e.gen
CurrentEntries(o, t) == {e \in o : IsCurrent(e, t)}

FilterInit ==
  /\ admits = Keys /\ table = [k \in Keys |-> NoState] /\ order = {} /\ generation = 0
  /\ fragments = [k \in FragmentKeys |-> NoState] /\ lastPurge = 0 /\ ticks = 0
  /\ buffer = Off /\ drops = {} /\ nextFlow = 0 /\ policies = 0
-----------------------------------------------------------------------------
LiveOnly(f) == [k \in DOMAIN f |-> IF Lives(f[k]) THEN f[k] ELSE NoState]
(* The table on its way through one packet: what purge, touch and insert   *)
(* do to it, in the order the code calls them.                             *)
Start0 == [table |-> table, order |-> order, gen |-> generation, frags |-> fragments, purged |-> lastPurge,
           buffer |-> buffer, next |-> nextFlow]
Purge(s) ==
  LET gone == {k \in Keys : s.table[k] # NoState /\ ~Lives(s.table[k])}
      t == Without(s.table, gone)
  IN [s EXCEPT !.purged = ticks, !.table = t, !.buffer = Buffered(@, Ends(s.table, gone)),
               !.frags = LiveOnly(@),
               !.order = IF Cardinality(@) > 2 * Cardinality(Tracked(t)) + PURGE_SLACK THEN CurrentEntries(@, t) ELSE @]
MaybePurge(s) == IF ticks >= s.purged + PURGE_EVERY THEN Purge(s) ELSE s

(* The FIFO loop of insert once it has popped the entries up to generation *)
(* n: a flow that is still of its entry's generation is removed.           *)
Evicted(s, n) ==
  LET gone == {e.key : e \in {c \in s.order : c.gen <= n /\ IsCurrent(c, s.table)}}
  IN [s EXCEPT !.order = {e \in @ : e.gen > n}, !.table = Without(@, gone),
               !.buffer = Buffered(@, Ends(s.table, gone))]
(* `while len >= MAX_STATES', until the queue is empty.                    *)
MakeRoom(s) ==
  LET enough == {n \in {0} \cup {e.gen : e \in s.order} : Cardinality(Tracked(Evicted(s, n).table)) < MAX_STATES}
  IN Evicted(s, IF enough = {} THEN s.gen ELSE Min(enough))
(* The queue is compacted at twice the table's bound.                      *)
Trimmed(o, t) == IF Cardinality(o) > 2 * MAX_STATES THEN CurrentEntries(o, t) ELSE o
Insert(s, k, from) ==
  LET p == MakeRoom(IF Cardinality(Tracked(s.table)) >= MAX_STATES /\ ticks > s.purged THEN Purge(s) ELSE s)
      id == IF p.buffer # Off THEN p.next + 1 ELSE NoFlow
      t == [p.table EXCEPT ![k] = [from |-> from, replied |-> FALSE, expires |-> ticks + NEW_SECS,
                                   gen |-> p.gen + 1, flow |-> id]]
  IN [p EXCEPT !.gen = @ + 1, !.next = IF id = NoFlow THEN @ ELSE id, !.table = t,
               !.order = Trimmed(@ \cup {[key |-> k, gen |-> p.gen + 1]}, t),
               !.buffer = IF id = NoFlow THEN @
                          ELSE Buffered(@, <<[id |-> id, kind |-> "start"]>>)]
(* touch: a live flow is refreshed; one that ran out ends.                 *)
Touched(s, k, via) ==
  [s EXCEPT !.table[k].replied = @ \/ via # s.table[k].from,
            !.table[k].expires = ticks + (IF s.table[k].replied \/ via # s.table[k].from
                                          THEN REPLIED_SECS ELSE NEW_SECS)]
Lapsed(s, k) == IF s.table[k] = NoState THEN s
                ELSE [s EXCEPT !.table = Without(@, {k}), !.buffer = Buffered(@, Ends(s.table, {k}))]

Settle(s) ==
  /\ table' = s.table /\ order' = s.order /\ generation' = s.gen /\ lastPurge' = s.purged
  /\ buffer' = s.buffer /\ nextFlow' = s.next
(* remember_fragment: a first fragment's verdict, unless there is no room. *)
Remembered(f, k, first, allow, own) ==
  LET kept == IF Cardinality(Tracked(f)) >= MAX_FRAGMENTS THEN LiveOnly(f) ELSE f
  IN IF ~first THEN f
     ELSE IF Cardinality(Tracked(kept)) >= MAX_FRAGMENTS THEN kept
     ELSE [kept EXCEPT ![k] = [from |-> "fragment", allow |-> allow, own |-> own, expires |-> ticks + FRAGMENT_SECS]]
Bounded == nextFlow < MaxFlows /\ generation < MaxFlows

(* dropped: repeats join the connection's event; past the bound none.      *)
DropNoted(k) == EventsOn /\ k \notin drops /\ Cardinality(drops) < MAX_PENDING_DROPS
(* inbound: a decrypted packet, whole or a first fragment.                 *)
Inbound(k, first) ==
  LET s == MaybePurge(Start0)
      known == Lives(s.table[k])
      allow == known \/ k \in admits
      next == IF known THEN Touched(s, k, "inbound")
              ELSE IF allow THEN Touched(Insert(Lapsed(s, k), k, "inbound"), k, "inbound") ELSE Lapsed(s, k)
      dropped == ~allow /\ DropNoted(k)
  IN /\ Bounded
     /\ Settle([next EXCEPT !.next = IF dropped THEN @ + 1 ELSE @])
     /\ drops' = IF dropped THEN drops \cup {k} ELSE drops
     /\ fragments' = Remembered(next.frags, <<k, "inbound">>, first, allow,
                               known /\ s.table[k].from = "outbound")
     /\ UNCHANGED <<admits, ticks, policies>>
(* outbound: the device's own packet, which tracks a flow it does not know *)
(* as one of its own.                                                      *)
Outbound(k, first) ==
  LET s == MaybePurge(Start0)
      next == IF Lives(s.table[k]) THEN Touched(s, k, "outbound")
              ELSE Touched(Insert(Lapsed(s, k), k, "outbound"), k, "outbound")
  IN /\ Bounded /\ Settle(next)
     /\ fragments' = Remembered(next.frags, <<k, "outbound">>, first, TRUE, TRUE)
     /\ UNCHANGED <<admits, ticks, drops, policies>>

(* Mutant: the connections an earlier policy let in stay.                  *)
SetPolicyKeeps(new) ==
  /\ policies < MaxPolicies /\ policies' = policies + 1
  /\ admits' = new /\ UNCHANGED <<table, order, generation, fragments, lastPurge, ticks, buffer, drops, nextFlow>>
(* set_policy: a new peer map, or deny-all for one that does not parse.    *)
SetPolicy(new) ==
  LET ended == {k \in Tracked(table) : table[k].from = "inbound" /\ k \notin new}
  IN /\ policies < MaxPolicies /\ policies' = policies + 1
     /\ admits' = new /\ table' = Without(table, ended)
     /\ buffer' = Buffered(buffer, Ends(table, ended))
     /\ fragments' = [k \in FragmentKeys |-> NoState]
     /\ UNCHANGED <<order, generation, lastPurge, ticks, drops, nextFlow>>

(* set_traffic: counters and events on or off; off forgets the flows' ids. *)
SetTraffic ==
  /\ IF EventsOn THEN /\ buffer' = Off /\ drops' = {}
                      /\ table' = [k \in Keys |-> IF table[k] = NoState THEN NoState ELSE [table[k] EXCEPT !.flow = NoFlow]]
     ELSE buffer' = <<>> /\ UNCHANGED <<drops, table>>
  /\ UNCHANGED <<admits, order, generation, fragments, lastPurge, ticks, nextFlow, policies>>
(* take_events, and restore_events when the upload could not be written.   *)
TakeEvents(written) ==
  /\ EventsOn /\ (buffer # <<>> \/ drops # {})
  /\ drops' = {}
  /\ buffer' = IF written THEN <<>>
               ELSE Buffered(buffer, [i \in 1..Cardinality(drops) |-> [id |-> NoFlow, kind |-> "drop"]])
  /\ UNCHANGED <<admits, table, order, generation, fragments, lastPurge, ticks, nextFlow, policies>>
FilterTick ==
  /\ ticks < MaxFilterClock /\ ticks' = ticks + 1
  /\ UNCHANGED <<admits, table, order, generation, fragments, lastPurge, buffer, drops, nextFlow, policies>>

FilterNext ==
  \/ \E p \in Packets : Inbound(p.key, p.first) \/ Outbound(p.key, p.first)
  \/ \E new \in SUBSET Keys : SetPolicy(new)
  \/ SetTraffic \/ FilterTick \/ \E written \in BOOLEAN : TakeEvents(written)
FilterSpec == FilterInit /\ [][FilterNext]_filterVars
-----------------------------------------------------------------------------
(* later_fragment: what a later fragment of the key's packet is told.      *)
LaterFragment(k) == Lives(fragments[<<k, "inbound">>]) /\ fragments[<<k, "inbound">>].allow

(* The table never holds more than MAX_STATES flows, and every flow has    *)
(* its own entry in the eviction queue, without which insert could not     *)
(* make room for a new one.                                                *)
EvictionFindsRoom ==
  /\ Cardinality(Tracked(table)) <= MAX_STATES
  /\ Cardinality(order) <= 2 * MAX_STATES
  /\ \A k \in Tracked(table) : [key |-> k, gen |-> table[k].gen] \in order

(* The events waiting for upload never say that a flow ended twice, or     *)
(* that it started after it ended.                                         *)
EventsPair ==
  EventsOn => \A i, j \in DOMAIN buffer :
    (i < j /\ buffer[i].id # NoFlow /\ buffer[i].id = buffer[j].id) =>
      buffer[i].kind = "start" /\ buffer[j].kind = "end"

(* An inbound flow is only there, and a later fragment is only let in,     *)
(* while the policy in force admits it or the fragment's packet belongs to *)
(* a flow of the device's own: a change takes back what the last allowed.  *)
InboundIsAdmitted ==
  \A k \in Keys :
    /\ (table[k] # NoState /\ table[k].from = "inbound") => k \in admits
    /\ LaterFragment(k) => k \in admits \/ fragments[<<k, "inbound">>].own

(* The flow table at its limit, its events and what it admits.             *)
FilterInv == EvictionFindsRoom /\ EventsPair /\ InboundIsAdmitted
=============================================================================
