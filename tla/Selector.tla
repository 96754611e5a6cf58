------------------------------ MODULE Selector ------------------------------
(***************************************************************************)
(* blaktail-relay-proto/src/select.rs: which relay a client uses.  Shared  *)
(* by the desktop agent (PeerPaths) and the phones (MobileRelay).  A relay *)
(* is its place in the coordinator's list; a Failure is kept as its        *)
(* strikes (0: none) and the time until retry_at (0: passed).              *)
(***************************************************************************)
EXTENDS Naturals, FiniteSetsExt

CONSTANTS
  RELAYS,
  BASE_COOLDOWN, MAX_COOLDOWN,
  MAX_STRIKES      \* strikes are told apart up to here

ASSUME SelectorAssumption ==
  {RELAYS, BASE_COOLDOWN, MAX_COOLDOWN, MAX_STRIKES} \subseteq Nat \ {0}

Relays == 1..RELAYS
NoFailures == [r \in Relays |-> [strikes |-> 0, cooling |-> 0]]

(* choose(): the first candidate that is not cooling, or the one whose     *)
(* back-off ends first; 0 when there is no candidate.                      *)
Choose(candidates, failures) ==
  LET ready == {r \in candidates : failures[r].cooling = 0}
      soonest == {r \in candidates : \A q \in candidates : failures[r].cooling <= failures[q].cooling}
  IN IF candidates = {} THEN 0 ELSE IF ready # {} THEN Min(ready) ELSE Min(soonest)

(* record_failure(): the back-off doubles up to its cap.                   *)
RecordFailure(failures, r) ==
  LET strikes == Min({failures[r].strikes + 1, MAX_STRIKES})
  IN [failures EXCEPT ![r] = [strikes |-> strikes,
                              cooling |-> Min({BASE_COOLDOWN * 2^(strikes - 1), MAX_COOLDOWN})]]
(* record_healthy().                                                       *)
RecordHealthy(failures, r) == [failures EXCEPT ![r] = [strikes |-> 0, cooling |-> 0]]

(* failback_target(): a better candidate whose back-off has ended; 0 when  *)
(* there is none.                                                          *)
FailbackTarget(active, candidates, failures) ==
  LET better == {r \in candidates : r < active /\ failures[r].cooling = 0}
  IN IF better = {} THEN 0 ELSE Min(better)

Cooled(failures) == [r \in Relays |-> [failures[r] EXCEPT !.cooling = IF @ = 0 THEN 0 ELSE @ - 1]]
Older(n, bound) == Min({n + 1, bound})
=============================================================================
