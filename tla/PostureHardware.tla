--------------------------- MODULE PostureHardware ---------------------------
(***************************************************************************)
(* Pinned hardware identifiers: what a device first reports is pinned, a   *)
(* later or a contested report waits for an administrator, and provider    *)
(* records are matched to the device that pinned first                     *)
(* (blaktail-coord/src/posture_integrations.rs).                           *)
(*                                                                         *)
(* One identifier per device stands for its serial number and MAC set.     *)
(* Both transactions read the other devices' pins without a lock, so they  *)
(* are two steps each.                                                     *)
(***************************************************************************)
EXTENDS Naturals, FiniteSets, FiniteSetsExt

CONSTANTS
  Machines, Serials, NoSerial,
  MaxHwClock,  \* bound on the clock
  MaxPinAt     \* bound on the pin times approvals push past one another

ASSUME HardwareAssumption == NoSerial \notin Serials /\ IsFiniteSet(Machines)

VARIABLES
  hw,        \* nodes: pinned identifier, hardware_pinned_at, pending identifier
  hwOp,      \* each device's report, and its approval, between read and write
  backed,    \* identifiers first reported or approved per device (history)
  hwClock

hwVars == <<hw, hwOp, backed, hwClock>>

Unpinned == [serial |-> NoSerial, at |-> 0, pending |-> NoSerial]
NoOp == [step |-> "none"]

HardwareInit ==
  /\ hw = [n \in Machines |-> Unpinned]
  /\ hwOp = [n \in Machines |-> [report |-> NoOp, approve |-> NoOp]]
  /\ backed = [n \in Machines |-> {}]
  /\ hwClock = 1

-----------------------------------------------------------------------------
(* clashing_nodes(): the other devices that hold the identifier, and the   *)
(* pin time a new claimant must take to rank after them.                   *)
Clashing(n, s) == {m \in Machines \ {n} : hw[m].serial = s}

PinsSeen(holders) == [m \in holders |-> hw[m].at]

(* Mutant: a new pin takes the time of day.                                *)
PinAtNow(n, s) == hwClock
PinAt(n, s) == Max({hwClock} \cup {hw[m].at + 1 : m \in Clashing(n, s)})

(* first_claimant(): the claimant with the strictly earliest pin.          *)
FirstClaimants(s) ==
  LET claimants == {n \in Machines : hw[n].serial = s}
  IN {n \in claimants : \A m \in claimants \ {n} : hw[n].at < hw[m].at}

(* match_devices() with attach(): a device with a pending change matches   *)
(* nothing.                                                                *)
Matched(n) == /\ hw[n].serial # NoSerial /\ hw[n].pending = NoSerial
              /\ n \in FirstClaimants(hw[n].serial)

-----------------------------------------------------------------------------
(* record_hardware() reads the device's row; a report that changes nothing *)
(* stops here.                                                             *)
ReportHwRead(n, s) ==
  /\ hwOp[n].report = NoOp
  /\ s # hw[n].serial \/ hw[n].pending # NoSerial
  /\ PinAt(n, hw[n].pending) <= MaxPinAt
  /\ hwOp' = [hwOp EXCEPT ![n].report = [step |-> "read", serial |-> s, row |-> hw[n]]]
  /\ UNCHANGED <<hw, backed, hwClock>>

(* The transaction opens and looks for other holders of the identifier.    *)
ReportHwClash(n) ==
  LET op == hwOp[n].report
  IN /\ op.step = "read"
     /\ hwOp' = [hwOp EXCEPT ![n].report =
          [step |-> "checked", serial |-> op.serial, row |-> op.row,
           held |-> PinsSeen(IF op.serial = op.row.serial THEN {} ELSE Clashing(n, op.serial)),
           at |-> PinAt(n, op.serial)]]
     /\ UNCHANGED <<hw, backed, hwClock>>

(* What the UPDATE writes, all of it from the row as it was read.          *)
ReportedRow(op) ==
  CASE op.serial = op.row.serial -> [op.row EXCEPT !.pending = NoSerial]
    [] op.row.serial = NoSerial /\ DOMAIN op.held = {} ->
         [serial |-> op.serial, at |-> op.at, pending |-> NoSerial]
    [] OTHER -> [op.row EXCEPT !.pending = op.serial]

ReportHwCommit(n) ==
  LET op == hwOp[n].report
  IN /\ op.step = "checked"
     /\ hw' = [hw EXCEPT ![n] = ReportedRow(op)]
     /\ backed' = IF op.row.serial = NoSerial /\ DOMAIN op.held = {}
                  THEN [backed EXCEPT ![n] = @ \cup {op.serial}] ELSE backed
     /\ hwOp' = [hwOp EXCEPT ![n].report = NoOp]
     /\ UNCHANGED hwClock

(* approve_hardware(): reads what is pending and who holds it.             *)
ApproveHwRead(n) ==
  /\ hwOp[n].approve = NoOp /\ hw[n].pending # NoSerial
  /\ PinAt(n, hw[n].pending) <= MaxPinAt
  /\ hwOp' = [hwOp EXCEPT ![n].approve =
       [step |-> "checked", serial |-> hw[n].pending,
        held |-> PinsSeen(Clashing(n, hw[n].pending)), at |-> PinAt(n, hw[n].pending)]]
  /\ UNCHANGED <<hw, backed, hwClock>>

ApproveHwCommit(n) ==
  LET op == hwOp[n].approve
  IN /\ op.step = "checked"
     /\ hw' = [hw EXCEPT ![n] = [serial |-> op.serial, at |-> op.at, pending |-> NoSerial]]
     /\ backed' = [backed EXCEPT ![n] = @ \cup {op.serial}]
     /\ hwOp' = [hwOp EXCEPT ![n].approve = NoOp]
     /\ UNCHANGED hwClock

HwTick == hwClock < MaxHwClock /\ hwClock' = hwClock + 1 /\ UNCHANGED <<hw, hwOp, backed>>

HardwareNext ==
  \/ \E n \in Machines : \/ \E s \in Serials : ReportHwRead(n, s)
                         \/ ReportHwClash(n) \/ ReportHwCommit(n)
                         \/ ApproveHwRead(n) \/ ApproveHwCommit(n)
  \/ HwTick

HardwareSpec == HardwareInit /\ [][HardwareNext]_hwVars

-----------------------------------------------------------------------------
(* Only what a device reported first or an administrator approved is ever  *)
(* pinned, although a report writes back a row it read before an approval. *)
PinsAreBacked ==
  \A n \in Machines : hw[n].serial \in backed[n] \cup {NoSerial}

(* Whatever another device reports or has approved, it does not take the   *)
(* provider's record from the device whose pin it saw: "a copier cannot    *)
(* lock the genuine device out".                                           *)
HolderKeepsRecord ==
  [][\A h, n \in Machines, kind \in {"report", "approve"} :
       LET op == hwOp[n][kind]
       IN /\ op.step = "checked" /\ hwOp'[n][kind] = NoOp
          /\ Matched(h) /\ hw[h].serial = op.serial
          /\ h \in DOMAIN op.held /\ op.held[h] = hw[h].at
          => Matched(h)']_hwVars

(* Pins come from reports or approvals, and cannot be taken over.          *)
PinsHold == []PinsAreBacked /\ HolderKeepsRecord
=============================================================================
