------------------------------ MODULE Traffic ------------------------------
(***************************************************************************)
(* Opt-in traffic reporting of one Linux device: the organisation's switch *)
(* and the two ingest endpoints (blaktail-coord/src/traffic.rs,            *)
(* flow_events.rs), the agent's reporter and counters (blaktaild/src/      *)
(* traffic.rs, main.rs) and its connection capture (flow_capture.rs).      *)
(*                                                                         *)
(* A connection is its tuple; addresses, ports and rules are left out.     *)
(* Bytes are counted in units.  Sampling keeps everything.                 *)
(***************************************************************************)
EXTENDS Naturals, SequencesExt, FiniteSets

CONSTANTS
  Tuples,                 \* connection tuples
  Counters,               \* the kernel's counters: "chain" and "wg"
  MAX_QUEUED, MAX_OPEN_FLOWS, MAX_DROPS_PER_WINDOW, MAX_BATCH,
  MaxUnits,               \* traffic the kernel counts
  MaxConnections,         \* records the kernel emits
  MaxToggles, MaxLosses

ASSUME TrafficAssumption ==
  /\ {MAX_QUEUED, MAX_OPEN_FLOWS, MAX_DROPS_PER_WINDOW, MAX_BATCH} \subseteq Nat \ {0}
  /\ Counters \subseteq {"chain", "wg"} /\ MaxUnits \in Nat

VARIABLES
  optIn,        \* flow_settings.enabled
  told,         \* state.traffic
  reporting,    \* Reporter.active, with the capture and the counters
  capture,      \* Queues.connections and .drops, in the order of arrival
  converter,    \* Converter: open, order, next
  sending,      \* the upload the agent waits for
  flowRows,     \* flow_events, by flow id and kind
  total,        \* the kernel's counters
  last,         \* Deltas.last
  counted,      \* units since this activation (history)
  reported,     \* units the coordinator stored of this activation (history)
  activation,   \* number of activations (history)
  live,         \* connections of the kernel
  records, toggles, losses

agentSide == <<told, reporting, capture, converter, last, counted, activation>>
kernelSide == <<total, live, records>>
trafficVars == <<optIn, told, reporting, capture, converter, sending, flowRows, total, last, counted,
                 reported, activation, live, records, toggles, losses>>

Unknown == MaxUnits + 1
NoUpload == [step |-> "idle"]
EmptyConverter == [open |-> [t \in Tuples |-> 0], order |-> <<>>, next |-> 0]

TrafficInit ==
  /\ optIn = FALSE /\ told = FALSE /\ reporting = FALSE
  /\ capture = <<>> /\ converter = EmptyConverter /\ sending = NoUpload /\ flowRows = {}
  /\ total = [c \in Counters |-> 0] /\ last = [c \in Counters |-> Unknown]
  /\ counted = [c \in Counters |-> 0] /\ reported = [c \in Counters |-> 0]
  /\ activation = 0 /\ live = {} /\ records = 0 /\ toggles = 0 /\ losses = 0
-----------------------------------------------------------------------------
(* put_settings; delete_records.                                           *)
PutTrafficSettings ==
  /\ toggles < MaxToggles /\ toggles' = toggles + 1 /\ optIn' = ~optIn
  /\ UNCHANGED <<agentSide, kernelSide, sending, flowRows, reported, losses>>
DeleteRecords ==
  /\ flowRows # {} /\ flowRows' = {}
  /\ UNCHANGED <<optIn, agentSide, kernelSide, sending, reported, toggles, losses>>

(* The kernel counts a packet, and rebuilding the chain zeroes its counter. *)
Traverse(c) ==
  /\ total[c] < MaxUnits /\ counted[c] < MaxUnits
  /\ total' = [total EXCEPT ![c] = @ + 1]
  /\ counted' = [counted EXCEPT ![c] = IF reporting THEN @ + 1 ELSE @]
  /\ UNCHANGED <<optIn, told, reporting, capture, converter, sending, flowRows, last, reported,
                 activation, live, records, toggles, losses>>
RebuildChain ==
  /\ "chain" \in Counters /\ total["chain"] # 0 /\ total' = [total EXCEPT !["chain"] = 0]
  /\ UNCHANGED <<optIn, agentSide, sending, flowRows, reported, live, records, toggles, losses>>

(* Queues::push keeps the newest records.                                  *)
Pushed(r) == Append(IF Len(capture) >= MAX_QUEUED THEN Tail(capture) ELSE capture, r)
KernelRecord(kind, t) ==
  /\ records < MaxConnections /\ records' = records + 1
  /\ \/ kind = "new" /\ t \notin live /\ live' = live \cup {t}
     \/ kind = "destroy" /\ t \in live /\ live' = live \ {t}
     \/ kind = "drop" /\ UNCHANGED live
  /\ capture' = IF reporting THEN Pushed([kind |-> kind, tuple |-> t, of |-> activation]) ELSE capture
  /\ UNCHANGED <<optIn, told, reporting, converter, sending, flowRows, total, last, counted, reported,
                 activation, toggles, losses>>
-----------------------------------------------------------------------------
(* Reporter::step, set_traffic and EventWindow.                            *)
Idling == sending.step = "idle"

(* Opting in: the capture starts empty and the counters at a baseline.     *)
(* The baseline is taken for no peers, so it has no transfer counters.     *)
Baseline == [c \in Counters |-> IF c = "chain" THEN total[c] ELSE Unknown]
StartReporting ==
  /\ Idling /\ told /\ ~reporting /\ reporting' = TRUE
  /\ capture' = <<>> /\ converter' = EmptyConverter /\ last' = Baseline
  /\ counted' = [c \in Counters |-> 0] /\ reported' = [c \in Counters |-> 0]
  /\ activation' = activation + 1
  /\ UNCHANGED <<optIn, told, sending, flowRows, kernelSide, toggles, losses>>

(* Mutant: a stopped capture keeps what it had queued for the next start.  *)
DiscardKeeps == reporting' = FALSE /\ told' = FALSE /\ UNCHANGED <<capture, converter, last>>
Discard == /\ reporting' = FALSE /\ told' = FALSE
           /\ capture' = <<>> /\ converter' = EmptyConverter
           /\ last' = [c \in Counters |-> Unknown]
StopReporting ==
  /\ Idling /\ ~told /\ reporting /\ Discard
  /\ UNCHANGED <<optIn, sending, flowRows, counted, reported, activation, kernelSide, toggles, losses>>

(* The control update: the peer map's traffic field.                       *)
LearnOptIn == /\ Idling /\ told # optIn /\ told' = optIn
        /\ UNCHANGED <<optIn, reporting, capture, converter, sending, flowRows, last, counted, reported,
                       activation, kernelSide, toggles, losses>>

(* Deltas::delta.                                                          *)
Delta(c) == IF last[c] # Unknown /\ total[c] >= last[c] THEN total[c] - last[c] ELSE total[c]
(* A minute's bucket: read, remembered and sent.                           *)
SendCounts ==
  /\ Idling /\ told /\ reporting
  /\ last' = total
  /\ sending' = [step |-> "sent", counts |-> [c \in Counters |-> Delta(c)], events |-> <<>>]
  /\ sending'.counts # [c \in Counters |-> 0]
  /\ UNCHANGED <<optIn, told, reporting, capture, converter, flowRows, counted, reported, activation,
                 kernelSide, toggles, losses>>

Opened(s) == {t \in Tuples : s.open[t] # 0}
(* Converter::connection and ::dropped for one record.  A full table makes *)
(* room by the oldest entry of `order', from which ends remove nothing.    *)
Convert(s, r) ==
  IF r.kind = "new" THEN
    LET full == Cardinality(Opened(s)) >= MAX_OPEN_FLOWS /\ s.order # <<>>
        kept == IF full THEN [s.open EXCEPT ![Head(s.order)] = 0] ELSE s.open
    IN [s EXCEPT !.next = @ + 1, !.open = [kept EXCEPT ![r.tuple] = s.next + 1],
                 !.order = Append(IF full THEN Tail(@) ELSE @, r.tuple),
                 !.out = Append(@, [flow |-> s.next + 1, kind |-> "start", of |-> r.of])]
  ELSE IF r.kind = "destroy" THEN
    IF s.open[r.tuple] = 0 THEN s
    ELSE [s EXCEPT !.open[r.tuple] = 0, !.out = Append(@, [flow |-> s.open[r.tuple], kind |-> "end", of |-> r.of])]
  ELSE IF r.tuple \in s.dropped \/ Cardinality(s.dropped) >= MAX_DROPS_PER_WINDOW THEN s
  ELSE [s EXCEPT !.next = @ + 1, !.dropped = @ \cup {r.tuple},
                 !.out = Append(@, [flow |-> s.next + 1, kind |-> "drop", of |-> r.of])]
(* The converter after the first n records of the queue.                   *)
Converted[n \in 0..Len(capture)] ==
  IF n = 0 THEN [open |-> converter.open, order |-> converter.order, next |-> converter.next,
                 out |-> <<>>, dropped |-> {}]
  ELSE Convert(Converted[n - 1], capture[n])
Drained == Converted[Len(capture)]
(* Half a minute's window: drained, cut to one batch and sent.             *)
SendEvents ==
  /\ Idling /\ told /\ reporting /\ capture # <<>>
  /\ capture' = <<>>
  /\ converter' = [open |-> Drained.open, order |-> Drained.order, next |-> Drained.next]
  /\ sending' = IF Drained.out = <<>> THEN NoUpload
                ELSE [step |-> "sent", counts |-> [c \in Counters |-> 0],
                      events |-> SubSeq(Drained.out, 1, IF Len(Drained.out) < MAX_BATCH THEN Len(Drained.out)
                                                        ELSE MAX_BATCH)]
  /\ UNCHANGED <<optIn, told, reporting, flowRows, last, counted, reported, activation, kernelSide,
                 toggles, losses>>
-----------------------------------------------------------------------------
(* ingest, of either kind: a first look at the switch, the checks, and a   *)
(* transaction that looks again.                                           *)
Refuse == sending' = [sending EXCEPT !.step = "off"]
IngestCheck ==
  /\ sending.step = "sent"
  /\ IF optIn THEN sending' = [sending EXCEPT !.step = "checked"] ELSE Refuse
  /\ UNCHANGED <<optIn, agentSide, kernelSide, flowRows, reported, toggles, losses>>
StillOptedIn == optIn
IngestCommit ==
  /\ sending.step = "checked"
  /\ \/ /\ StillOptedIn
        /\ flowRows' = flowRows \cup {[flow |-> e.flow, kind |-> e.kind] : e \in Range(sending.events)}
        /\ reported' = [c \in Counters |-> reported[c] + sending.counts[c]]
        /\ sending' = [sending EXCEPT !.step = "accepted"]
     \/ ~StillOptedIn /\ Refuse /\ UNCHANGED <<flowRows, reported>>
  /\ UNCHANGED <<optIn, agentSide, kernelSide, toggles, losses>>

(* The answer: accepted, turned off (which halts), or no answer at all.    *)
UploadAnswered ==
  /\ sending.step \in {"accepted", "off"} /\ sending' = NoUpload
  /\ IF sending.step = "off" THEN Discard ELSE UNCHANGED <<told, reporting, capture, converter, last>>
  /\ UNCHANGED <<optIn, counted, activation, kernelSide, flowRows, reported, toggles, losses>>
UploadLost ==
  /\ ~Idling /\ losses < MaxLosses /\ losses' = losses + 1 /\ sending' = NoUpload
  /\ UNCHANGED <<optIn, agentSide, kernelSide, flowRows, reported, toggles>>

TrafficNext ==
  \/ PutTrafficSettings \/ DeleteRecords \/ RebuildChain
  \/ \E c \in Counters : Traverse(c)
  \/ \E t \in Tuples, kind \in {"new", "destroy", "drop"} : KernelRecord(kind, t)
  \/ StartReporting \/ StopReporting \/ LearnOptIn \/ SendCounts \/ SendEvents
  \/ IngestCheck \/ IngestCommit \/ UploadAnswered \/ UploadLost
TrafficSpec == TrafficInit /\ [][TrafficNext]_trafficVars
-----------------------------------------------------------------------------
(* Everything queued or in flight was captured since reporting last        *)
(* started: whichever way it stopped, by the peer map or by either         *)
(* upload's answer, nothing of before is sent (main.rs manage_traffic,     *)
(* lib.rs set_traffic).                                                    *)
NothingCarriedOver ==
  /\ \A r \in Range(capture) : reporting /\ r.of = activation
  /\ ~Idling => \A e \in Range(sending.events) : e.of = activation

(* Nothing is stored while the organisation has opted out, not even by an  *)
(* upload that was checked before (flow_events.rs ingest).                 *)
OptOutStopsIngest ==
  [][(~optIn) => flowRows' \subseteq flowRows /\ \A c \in Counters : reported'[c] <= reported[c]]_trafficVars

(* The buckets of an activation never add up to more than the chain        *)
(* counted in it, whenever the chain was rebuilt (traffic.rs delta).       *)
ChainNeverOverReported == "chain" \in Counters => reported["chain"] <= counted["chain"]

(* Reports stay within an activation, within what was counted and within   *)
(* consent.                                                                *)
TrafficHolds == [](NothingCarriedOver /\ ChainNeverOverReported) /\ OptOutStopsIngest
=============================================================================
