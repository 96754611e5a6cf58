------------------------------- MODULE Outbox -------------------------------
(***************************************************************************)
(* Webhook and notification-channel deliveries: rows queued in the         *)
(* transaction that raises the event, and delivery loops, one per          *)
(* coordinator replica, that send what is due, hold what quiet hours and   *)
(* digests hold, retry with back-off and dead-letter                       *)
(* (blaktail-coord/src/webhooks.rs, notify_channels.rs, notifications.rs). *)
(*                                                                         *)
(* Time is cyclic: `minute` is the local minute of a DAY-minute day, and   *)
(* next_attempt_at is kept as the time left until it, so the clock needs   *)
(* no bound.  A loop's reads and writes are separate steps: no row is      *)
(* claimed and no update is conditional.                                   *)
(***************************************************************************)
EXTENDS Naturals, FiniteSets

CONSTANTS
  Dests, Events,  \* destinations; event ids
  Critical,       \* events of warning severity, and test sends
  Loops,          \* delivery loops (coordinator replicas)
  Schedules,      \* quiet hours and digest a channel may have
  DAY, MAX_ATTEMPTS, MAX_DESTINATIONS,
  MaxLate,        \* minutes one poll may take (16 sends with their timeouts)
  MaxTurns        \* bound on replica crashes, operator edits and replays

ASSUME OutboxAssumption ==
  /\ DAY \in Nat \ {0} /\ MAX_ATTEMPTS \in Nat \ {0} /\ MAX_DESTINATIONS \in Nat \ {0}
  /\ IsFiniteSet(Schedules) /\ Schedules # {}
  /\ \A s \in Schedules : s.digest \in Nat /\ s.quiet \in [start : 0..DAY-1, end : 0..DAY-1]

VARIABLES
  dest,           \* webhook_destinations
  outbox,         \* webhook_outbox, keyed (destination_id, event_id)
  received,       \* what receivers got (history)
  loop,           \* what each delivery loop is doing
  minute, turns

outboxVars == <<dest, outbox, received, loop, minute, turns>>

RowIds == Dests \X Events
Absent == [st |-> "absent"]
NewRow == [st |-> "pending", attempts |-> 0, wait |-> 0, age |-> 0]
NoSchedule == [quiet |-> [start |-> 0, end |-> 0], digest |-> 0]
Resting == [step |-> "idle"]
MaxAge == CHOOSE d \in {s.digest : s \in Schedules} : \A s \in Schedules : s.digest <= d
AtMost(n, cap) == IF n < cap THEN n ELSE cap
Lower(n) == IF n = 0 THEN 0 ELSE n - 1

OutboxInit ==
  /\ dest = [d \in Dests |-> [made |-> FALSE, enabled |-> FALSE]]
  /\ outbox = [r \in RowIds |-> Absent]
  /\ received = {}
  /\ loop = [w \in Loops |-> Resting]
  /\ minute = 0 /\ turns = 0

-----------------------------------------------------------------------------
(* Quiet hours (QuietWindow); a window that starts when it ends is refused *)
(* and stands here for a channel without quiet hours.                      *)
ContainsMinute(q, m) ==
  IF q.start <= q.end THEN q.start <= m /\ m < q.end
  ELSE m >= q.start \/ m < q.end

(* next_end(), as the time left until it.                                  *)
NextEnd(q, m) ==
  IF ~ContainsMinute(q, m) THEN 0
  ELSE (IF m >= q.end THEN DAY ELSE 0) + q.end - m

-----------------------------------------------------------------------------
(* The console and the code that raises events.                            *)

Insert(d, chat, s) ==
  /\ ~dest[d].made
  /\ Cardinality({o \in Dests : dest[o].enabled}) < MAX_DESTINATIONS
  /\ dest' = [dest EXCEPT ![d] = [made |-> TRUE, enabled |-> TRUE, chat |-> chat,
                                  sched |-> s, subs |-> Events]]
  /\ UNCHANGED <<outbox, received, loop, minute, turns>>

(* insert_destination(): an HTTPS webhook, which no schedule holds.        *)
InsertDestination(d) == Insert(d, FALSE, NoSchedule)

(* create_channel(): email, Slack or Teams.                                *)
CreateChannel(d) == \E s \in Schedules \cup {NoSchedule} : Insert(d, TRUE, s)

Edit(d, entry) ==
  /\ dest[d].enabled /\ turns < MaxTurns
  /\ dest' = [dest EXCEPT ![d] = entry]
  /\ turns' = turns + 1
  /\ UNCHANGED <<outbox, received, loop, minute>>

DisableDestination(d) == Edit(d, [dest[d] EXCEPT !.enabled = FALSE])

SetSubscriptions(d) ==
  \E subs \in (SUBSET Events) \ {{}} : Edit(d, [dest[d] EXCEPT !.subs = subs])

SetSchedule(d) ==
  /\ dest[d].enabled /\ dest[d].chat
  /\ \E s \in Schedules \cup {NoSchedule} : Edit(d, [dest[d] EXCEPT !.sched = s])

(* enqueue_once(), in the transaction that raises the event: a row for     *)
(* each enabled and subscribed destination that has none for this event.   *)
Enqueue(e) ==
  /\ outbox' = [r \in RowIds |->
       IF r[2] = e /\ dest[r[1]].enabled /\ outbox[r] = Absent /\ e \in dest[r[1]].subs
       THEN NewRow ELSE outbox[r]]
  /\ outbox' # outbox
  /\ UNCHANGED <<dest, received, loop, minute, turns>>

(* Events of the audit log and of the console, and the replicas' sweeps    *)
(* for credentials about to expire, whose event id is the credential's.    *)
EnqueueForAudit(e) == Enqueue(e)
EnqueueExpiring(e) == e \notin Critical /\ Enqueue(e)

(* test_console(): one row for this destination, subscribed or not.        *)
TestSend(d, e) ==
  /\ dest[d].enabled /\ e \in Critical /\ outbox[<<d, e>>] = Absent
  /\ outbox' = [outbox EXCEPT ![<<d, e>>] = NewRow]
  /\ UNCHANGED <<dest, received, loop, minute, turns>>

(* reset_delivery(): a pending or dead-lettered row starts again.          *)
ResetDelivery(r) ==
  /\ outbox[r].st \in {"pending", "dead"} /\ turns < MaxTurns
  /\ outbox' = [outbox EXCEPT ![r] = [@ EXCEPT !.st = "pending", !.attempts = 0, !.wait = 0]]
  /\ turns' = turns + 1
  /\ UNCHANGED <<dest, received, loop, minute>>

-----------------------------------------------------------------------------
(* A delivery loop.                                                        *)

Due(r) == outbox[r].st = "pending" /\ outbox[r].wait = 0 /\ dest[r[1]].enabled

(* How long a due row is postponed: until quiet hours end, else until its  *)
(* digest is released; a webhook's or a critical row not at all.           *)
Hold(r) ==
  LET s == dest[r[1]].sched
  IN IF ~dest[r[1]].chat \/ r[2] \in Critical THEN 0
     ELSE IF ContainsMinute(s.quiet, minute) THEN NextEnd(s.quiet, minute)
     ELSE s.digest - AtMost(outbox[r].age, s.digest)

(* deliver_due(): the due rows, their attempts and what is to be done with *)
(* each are fixed by one SELECT and one reading of the clock.              *)
Poll(w) ==
  LET due == {r \in RowIds : Due(r)}
  IN /\ loop[w].step = "idle" /\ due # {}
     /\ loop' = [loop EXCEPT ![w] =
          [step |-> "handling", late |-> 0,
           plan |-> [r \in due |->
             [held |-> Hold(r) > 0, left |-> Hold(r), attempts |-> outbox[r].attempts,
              digest |-> /\ dest[r[1]].chat /\ r[2] \notin Critical
                         /\ dest[r[1]].sched.digest > 0]],
           known |-> {r \in RowIds : outbox[r] # Absent}]]
     /\ UNCHANGED <<dest, outbox, received, minute, turns>>

Without(plan, gone) == [r \in DOMAIN plan \ gone |-> plan[r]]
Handling(l, plan) ==
  IF plan = << >> THEN Resting
  ELSE [step |-> "handling", late |-> l.late, plan |-> plan, known |-> l.known]

(* postpone(): the row waits, whatever has become of it.                   *)
Postpone(w, r) ==
  /\ loop[w].step = "handling" /\ r \in DOMAIN loop[w].plan /\ loop[w].plan[r].held
  /\ outbox' = [outbox EXCEPT ![r].wait = loop[w].plan[r].left]
  /\ loop' = [loop EXCEPT ![w] = Handling(@, Without(@.plan, {r}))]
  /\ UNCHANGED <<dest, received, minute, turns>>

(* digest_batch(): every uncritical pending row of the destination with    *)
(* the row that was due, with the attempts of now.                         *)
Batch(w, r) ==
  LET p == loop[w].plan
  IN IF ~p[r].digest THEN [x \in {r} |-> p[r].attempts]
     ELSE LET pending == {x \in loop[w].known : /\ x[1] = r[1] /\ outbox[x].st = "pending"
                                                /\ x[2] \notin Critical}
          IN [x \in pending \cup {r} |->
                IF x \in pending THEN outbox[x].attempts ELSE p[r].attempts]

(* deliver_one(), send(): a receiver may also have got what ends in an     *)
(* error; only what it acknowledged counts as received here.               *)
SendNow(w, r) ==
  LET batch == Batch(w, r)
  IN /\ loop[w].step = "handling" /\ r \in DOMAIN loop[w].plan /\ ~loop[w].plan[r].held
     /\ \E ok \in BOOLEAN :
          /\ received' = IF ok THEN received \cup DOMAIN batch ELSE received
          /\ loop' = [loop EXCEPT ![w] =
               [step |-> "recording", late |-> @.late, ok |-> ok, batch |-> batch,
                plan |-> Without(@.plan, DOMAIN batch), known |-> @.known]]
     /\ UNCHANGED <<dest, outbox, minute, turns>>

(* Mutant: a success is recorded for the whole destination.                *)
RecordOutcomeForAll(w, r) ==
  outbox' = [x \in RowIds |->
    IF x[1] = r[1] /\ outbox[x].st = "pending" /\ loop[w].ok
    THEN [outbox[x] EXCEPT !.st = "delivered"] ELSE outbox[x]]

(* Mutant: a failure is recorded as the first one.                         *)
RecordOutcomeUncounted(w, r) ==
  outbox' = [outbox EXCEPT ![r] =
    IF loop[w].ok THEN [@ EXCEPT !.st = "delivered"]
    ELSE [@ EXCEPT !.attempts = 1, !.wait = 1, !.st = IF @ = "delivered" THEN @ ELSE "pending"]]

(* record_outcome(): delivered, or one attempt more than was read, waiting *)
(* 2^attempts; a stale failure overwrites a newer count, and revives a     *)
(* row another loop has dead-lettered.                                     *)
RecordOutcome(w, r) ==
  LET attempts == loop[w].batch[r] + 1
  IN outbox' = [outbox EXCEPT ![r] =
       IF loop[w].ok THEN [@ EXCEPT !.st = "delivered"]
       ELSE [@ EXCEPT !.attempts = attempts, !.wait = 2 ^ AtMost(attempts - 1, 7),
                      !.st = IF outbox[r].st = "delivered" THEN "delivered"
                             ELSE IF attempts >= MAX_ATTEMPTS THEN "dead" ELSE "pending"]]

Record(w, r) ==
  /\ loop[w].step = "recording" /\ r \in DOMAIN loop[w].batch
  /\ RecordOutcome(w, r)
  /\ loop' = [loop EXCEPT ![w] =
       IF DOMAIN @.batch = {r} THEN Handling(@, @.plan)
       ELSE [@ EXCEPT !.batch = Without(loop[w].batch, {r})]]
  /\ UNCHANGED <<dest, received, minute, turns>>

(* A replica stops, or a database error ends the poll, at any point.       *)
LoopFails(w) ==
  /\ loop[w].step # "idle" /\ turns < MaxTurns
  /\ turns' = turns + 1
  /\ loop' = [loop EXCEPT ![w] = Resting]
  /\ UNCHANGED <<dest, outbox, received, minute>>

Sooner(plan) == [r \in DOMAIN plan |-> [plan[r] EXCEPT !.left = Lower(@)]]

(* A minute passes; a loop that is not busy polls within it                *)
(* (POLL_INTERVAL).                                                        *)
OutboxTick ==
  /\ \A w \in Loops : IF loop[w].step = "idle" THEN \A r \in RowIds : ~Due(r)
                       ELSE loop[w].late < MaxLate
  /\ \E r \in RowIds : outbox[r].st = "pending"
  /\ minute' = (minute + 1) % DAY
  /\ outbox' = [r \in RowIds |->
       IF outbox[r] = Absent THEN Absent
       ELSE [outbox[r] EXCEPT !.wait = Lower(@), !.age = AtMost(@ + 1, MaxAge)]]
  /\ loop' = [w \in Loops |->
       IF loop[w].step = "idle" THEN loop[w]
       ELSE [loop[w] EXCEPT !.late = @ + 1, !.plan = Sooner(@)]]
  /\ UNCHANGED <<dest, received, turns>>

LoopStep(w) == Poll(w) \/ \E r \in RowIds : Postpone(w, r) \/ SendNow(w, r) \/ Record(w, r)

OutboxNext ==
  \/ \E d \in Dests :
       \/ InsertDestination(d) \/ CreateChannel(d) \/ DisableDestination(d)
       \/ SetSubscriptions(d) \/ SetSchedule(d) \/ \E e \in Events : TestSend(d, e)
  \/ \E e \in Events : EnqueueForAudit(e) \/ EnqueueExpiring(e)
  \/ \E r \in RowIds : ResetDelivery(r)
  \/ \E w \in Loops : LoopStep(w) \/ LoopFails(w)
  \/ OutboxTick

(* delivery_loop() polls for ever, and every send has a timeout.           *)
OutboxFairness == (\A w \in Loops : WF_outboxVars(LoopStep(w))) /\ WF_outboxVars(OutboxTick)

-----------------------------------------------------------------------------
OutboxTypeOK ==
  /\ minute \in 0..DAY-1
  /\ \A r \in RowIds : outbox[r] = Absent \/
       /\ outbox[r].st \in {"pending", "delivered", "dead"}
       /\ outbox[r].attempts \in 0..MAX_ATTEMPTS /\ outbox[r].age \in 0..MaxAge
       /\ outbox[r].wait \in 0..(2 ^ AtMost(MAX_ATTEMPTS, 7) + DAY + MaxAge)

(* A row is marked delivered only if its destination really got it, also   *)
(* for digests whose batch was read again and for rows another loop holds. *)
DeliveredWasReceived == \A r \in RowIds : outbox[r].st = "delivered" => r \in received

(* A critical row is never held back: only a failed attempt makes it wait  *)
(* (is_critical()).                                                        *)
CriticalNeverHeld ==
  \A r \in RowIds : outbox[r].st = "pending" /\ r[2] \in Critical /\ outbox[r].wait > 0
                      => outbox[r].attempts > 0

(* next_end() names the first minute after quiet hours: every minute       *)
(* before it is quiet and it is not, past midnight too.                    *)
QuietEndsExactly ==
  \A s \in Schedules :
    LET n == NextEnd(s.quiet, minute)
    IN /\ ~ContainsMinute(s.quiet, (minute + n) % DAY)
       /\ \A k \in 0..DAY : k < n => ContainsMinute(s.quiet, (minute + k) % DAY)

(* Every row of an enabled destination is settled in the end, delivered or *)
(* dead-lettered for good, although replicas overwrite each other's counts *)
(* of attempts, revive each other's dead letters and crash.                *)
RowsSettle ==
  \A r \in RowIds : <>[](outbox[r].st = "pending" => ~dest[r[1]].enabled)

OutboxSpec == OutboxInit /\ [][OutboxNext]_outboxVars /\ OutboxFairness

(* What the outbox records as delivered was received, and quiet hours hold *)
(* back what they should.                                                  *)
OutboxInv == OutboxTypeOK /\ DeliveredWasReceived /\ CriticalNeverHeld /\ QuietEndsExactly
=============================================================================
