------------------------------- MODULE Parking -------------------------------
(***************************************************************************)
(* The parking slots of a zone: created in numbered rows, assigned to      *)
(* apartments, released, and edited by hand.                               *)
(***************************************************************************)
EXTENDS OfficeRequests, FiniteSetsExt

CONSTANTS Zone,        \* the zone
          Slots,       \* numbers of slots, from 1
          SlotPadded,  \* the last number of the padded width, 999 in the code
          Tenants      \* apartments of the building

ASSUME ParkingAssumption ==
    /\ NoRow \notin Tenants /\ Zone # NoRow
    /\ Slots \subseteq Nat \ {0} /\ IsFiniteSet(Slots) /\ SlotPadded \in Nat

VARIABLE slot   \* parking_slots by number: status and assigned_apt_id

\* History: slots whose status was set by hand.
VARIABLE restated

parkingVars == <<slot, restated>>

SlotStatus == {"available", "assigned", "reserved", "maintenance"}
SlotRow == [status : SlotStatus \cup {"absent"}, tenant : Tenants \cup {NoRow}]

ParkingTypeOK ==
    /\ slot \in [Slots -> SlotRow]
    /\ restated \subseteq Slots

ParkingInit ==
    /\ slot = [n \in Slots |-> [status |-> "absent", tenant |-> NoRow]]
    /\ restated = {}

Built == {n \in Slots : slot[n].status # "absent"}

-----------------------------------------------------------------------------
(* bulkCreateSlots *)

\* A mutant: the number of slots there are is taken for the last number.
LastSlotByCount == Cardinality(Built)

\* As text, a number beyond the padded width sorts below the last padded one.
LastSlot == IF SlotPadded \in Built THEN SlotPadded ELSE Max(Built \cup {0})

\* start is 0 if not given, and row NoRow; the first number and how many are
\* created are in seen and kind.
OpenSlots(r, start, count) ==
    /\ Open(r, {"parking"}, [op |-> "slots", on |-> {Zone}, kind |-> count,
                             row |-> IF start = 0 THEN NoRow ELSE Zone,
                             seen |-> IF start = 0 THEN LastSlot + 1 ELSE start])
    /\ UNCHANGED parkingVars

Asked(r) == task[r].seen..(task[r].seen + task[r].kind - 1)

\* Numbers there already are skipped.
CreateSlots(r) ==
    /\ At(r, "slots") /\ Asked(r) \subseteq Slots
    /\ slot' = [n \in Slots |-> IF n \in Asked(r) \ Built
                                THEN [status |-> "available", tenant |-> NoRow] ELSE slot[n]]
    /\ Close(r)
    /\ UNCHANGED restated

-----------------------------------------------------------------------------
(* assignSlot, unassignSlot, updateSlot *)

OpenSlot(r, op, n, tenant) ==
    /\ Open(r, {"parking"}, [Idle EXCEPT !.op = op, !.on = {n}, !.row = n, !.kind = tenant])
    /\ UNCHANGED parkingVars

\* A mutant: only slots being repaired are refused.
MayAssignReserved(n) == slot[n].status \in {"available", "reserved", "assigned"}

MayAssign(n) == slot[n].status = "available"

OpenAssignment(r, n, tenant) == MayAssign(n) /\ OpenSlot(r, "assign", n, tenant)

AssignSlot(r) ==
    /\ At(r, "assign")
    /\ slot' = [slot EXCEPT ![task[r].row] = [status |-> "assigned", tenant |-> task[r].kind]]
    /\ Close(r)
    /\ UNCHANGED restated

OpenRelease(r, n) == slot[n].status = "assigned" /\ OpenSlot(r, "release", n, NoRow)

UnassignSlot(r) ==
    /\ At(r, "release")
    /\ slot' = [slot EXCEPT ![task[r].row] = [status |-> "available", tenant |-> NoRow]]
    /\ Close(r)
    /\ UNCHANGED restated

\* Any status, whatever the slot is; the apartment stays.
UpdateSlot(n, status) ==
    /\ n \in Built
    /\ AtOnce({"parking"}, {n})
    /\ slot' = [slot EXCEPT ![n].status = status]
    /\ restated' = restated \cup {n}

-----------------------------------------------------------------------------
(* Properties *)

\* A slot goes from one apartment to another only after it was released, and
\* what its status says is what the apartment it shows says, unless two
\* requests had it in hand at once or its status was set by hand.
SlotKept ==
    [][\A n \in Slots :
         \/ Raced(n)' \/ n \in restated'
         \/ /\ slot[n].tenant # NoRow => slot'[n].tenant \in {slot[n].tenant, NoRow}
            /\ slot'[n].status = "assigned" <=> slot'[n].tenant # NoRow]_parkingVars

\* As many slots are created as were asked for, though numbers there already
\* are skipped in silence, unless the first number was given, two requests
\* numbered slots at once, or the numbers outgrew the padded width.
SlotsAsAsked ==
    \A r \in Requests :
        At(r, "slots") /\ Asked(r) \cap Built # {} =>
            Raced(Zone) \/ task[r].row = Zone \/ \E n \in Built : n > SlotPadded
=============================================================================
