---------------------------- MODULE MeterReadings ----------------------------
(***************************************************************************)
(* The readings of one meter, one for each billing period, which invoices  *)
(* charge: entered, corrected and deleted, as long as they are not billed. *)
(***************************************************************************)
EXTENDS OfficeRequests

CONSTANTS Periods,   \* numbers of billing periods
          Values     \* values read

ASSUME MeterAssumption == Periods \subseteq Nat /\ IsFiniteSet(Periods)

VARIABLES reading,   \* meter_readings by period: previous_value, current_value
          billed     \* periods whose reading an invoice line refers to

meterVars == <<reading, billed>>

ReadingRow == [there : BOOLEAN, previous : Values \cup {NoRow}, current : Values \cup {NoRow}]
NoReading == [there |-> FALSE, previous |-> NoRow, current |-> NoRow]

MeterTypeOK ==
    /\ reading \in [Periods -> ReadingRow]
    /\ billed \subseteq Periods

MeterInit ==
    /\ reading = [p \in Periods |-> NoReading]
    /\ billed = {}

Entered == {p \in Periods : reading[p].there}

\* The objects a request has in hand: a reading, and, to enter one, those its
\* previous value may come from.
Earlier(p) == {q \in Periods : q <= p}

-----------------------------------------------------------------------------
\* kind is the value, seen the previous one, which may be given.
OpenReading(r, p, value, previous) ==
    /\ p \notin Entered
    /\ Open(r, {"meters"}, [op |-> IF previous = NoRow THEN "previous" ELSE "enter",
                            on |-> Earlier(p), row |-> p, kind |-> value, seen |-> previous])
    /\ UNCHANGED meterVars

LastBefore(p) ==
    LET before == {q \in Entered : q < p}
    IN  IF before = {} THEN NoRow
        ELSE reading[CHOOSE q \in before : \A s \in before : s <= q].current

ReadPrevious(r) ==
    /\ At(r, "previous")
    /\ Proceed(r, [task[r] EXCEPT !.op = "enter", !.seen = LastBefore(task[r].row)])
    /\ UNCHANGED meterVars

\* A second reading of the period is refused by the database.
EnterReading(r) ==
    /\ At(r, "enter") /\ task[r].row \notin Entered
    /\ reading' = [reading EXCEPT ![task[r].row] =
                     [there |-> TRUE, previous |-> task[r].seen, current |-> task[r].kind]]
    /\ Close(r)
    /\ UNCHANGED billed

MayChange(p) == p \in Entered \ billed

\* A mutant: readings on invoices are corrected, too.
MayCorrectBilled(p) == p \in Entered

MayCorrect(p) == MayChange(p)

\* Later readings keep the previous value they have.
OpenCorrection(r, p, value) ==
    /\ MayCorrect(p)
    /\ Open(r, {"meters"}, [Idle EXCEPT !.op = "correct", !.on = {p}, !.row = p, !.kind = value])
    /\ UNCHANGED meterVars

CorrectReading(r) ==
    /\ At(r, "correct") /\ task[r].row \in Entered
    /\ reading' = [reading EXCEPT ![task[r].row].current = task[r].kind]
    /\ Close(r)
    /\ UNCHANGED billed

OpenRemoval(r, p) ==
    /\ MayChange(p)
    /\ Open(r, {"meters"}, [Idle EXCEPT !.op = "remove", !.on = {p}, !.row = p])
    /\ UNCHANGED meterVars

\* Lines of invoices lose their reference.
RemoveReading(r) ==
    /\ At(r, "remove") /\ task[r].row \in Entered
    /\ reading' = [reading EXCEPT ![task[r].row] = NoReading]
    /\ billed' = billed \ {task[r].row}
    /\ Close(r)

\* BillingRun: an invoice of the period charges the reading.
BillReading(p) ==
    /\ p \in Entered \ billed
    /\ AtOnce({"meters"}, {p})
    /\ billed' = billed \cup {p}
    /\ UNCHANGED reading

-----------------------------------------------------------------------------
(* Properties *)

\* What an invoice charges stays as it was read, unless the reading was billed
\* while a correction or a removal of it was under way.
BilledReadingStays ==
    [][\A p \in billed : reading'[p] = reading[p] \/ Raced(p)]_meterVars
=============================================================================
