--------------------------- MODULE ScheduleLedger ---------------------------
(***************************************************************************)
(* The payment schedules of a contract and the payments recorded against   *)
(* them: residents report transfers, administrators confirm, reject,       *)
(* record and delete them, and webhooks credit schedules directly.         *)
(*                                                                         *)
(* Every request reads its rows before its transaction begins. At READ     *)
(* COMMITTED a read inside the transaction sees what is committed at that  *)
(* moment, and rows the transaction has written stay locked until it       *)
(* commits: such a read is a step, and the locks are guards of the others. *)
(***************************************************************************)
EXTENDS Integers, FiniteSets, FiniteSetsExt

CONSTANTS Schedules,   \* rows of contract_payment_schedules, all of one contract
          Invoices,    \* rows of invoices of that contract
          Payments,    \* rows of contract_payments
          Requests,    \* requests being executed
          NoRow        \* null value

CONSTANTS Expected,    \* expected_amount of each schedule
          Total,       \* total_amount of each invoice
          PastDue,     \* schedules and invoices whose due date has passed
          InvoiceOf,   \* the invoice of the month a schedule is due in, if any
          Amounts,     \* amounts transferred
          Initial,     \* schedules there are at first
          MaxOps       \* bound: requests, webhooks, restarts

ASSUME RowAssumption ==
    /\ NoRow \notin Schedules \cup Invoices \cup Payments
    /\ NoRow \notin Requests /\ IsFiniteSet(Payments)

ASSUME LedgerAssumption ==
    /\ Expected \in [Schedules -> Nat]
    /\ Total \in [Invoices -> Nat]
    /\ InvoiceOf \in [Schedules -> Invoices \cup {NoRow}]
    /\ Amounts \subseteq Nat
    /\ Initial \subseteq Schedules
    /\ MaxOps \in Nat

VARIABLES sched,   \* contract_payment_schedules: status, received_amount
          pay,     \* contract_payments: schedule, amount, status
          inv,     \* invoices: status, paid_amount, report in price_snapshot
          req,     \* requests: next statement and what they have read
          ops

\* History, which no guard reads: what webhooks credited to a schedule,
\* schedules two requests had in hand at once, schedules recomputed from rows
\* that are not confirmed payments, schedules set to a status by hand.
VARIABLES credited, raced, miscounted, forced

scheduleHistory == <<credited, raced, miscounted, forced>>

PaymentStatus ==
    {"pending", "reported", "verified", "partial", "paid", "overdue", "waived"}
ContractPaymentStatus == {"reported", "confirmed", "rejected"}
InvoiceStatus == {"draft", "pending", "paid", "overdue", "cancelled"}

\* A row that is "absent" is yet to be created, a "deleted" one is gone.
ScheduleRow == [status : PaymentStatus \cup {"absent", "deleted"}, received : Nat]
PaymentRow == [status : ContractPaymentStatus \cup {"absent", "deleted"},
               schedule : Schedules \cup {NoRow}, amount : Nat]
\* The reportedPayment of the price snapshot, with the decision on it.
Report == [decision : {"none", "open", "confirmed", "rejected"}, amount : Nat]
InvoiceRow == [status : InvoiceStatus, paid : Nat, report : Report]

Absent == [status |-> "absent", schedule |-> NoRow, amount |-> 0]
NoReport == [decision |-> "none", amount |-> 0]

\* Statements of the operations on schedules; "lookup", "commit", "count",
\* "revert" and "sum" are inside a transaction, after its first writes.
SchedulePc == {"record", "confirm", "lookup", "commit", "reject", "count", "revert",
               "keep", "delete", "sum", "drop"}
InvoicePc == {"report", "approve", "sync", "credit", "refuse", "sweep"}

\* row: the schedule, payment or invoice of the request; schedule: the
\* schedule it writes; seen: an amount it has read; old and paid: a status and
\* an amount read last; swept: the invoices it is about to mark overdue.
Request == [pc : SchedulePc \cup InvoicePc \cup {"idle"},
            row : Schedules \cup Payments \cup Invoices \cup {NoRow},
            schedule : Schedules \cup {NoRow}, amount : Nat, seen : Nat, paid : Nat,
            old : PaymentStatus \cup InvoiceStatus, swept : SUBSET Invoices]

Idle == [pc |-> "idle", row |-> NoRow, schedule |-> NoRow, amount |-> 0,
         seen |-> 0, paid |-> 0, old |-> "pending", swept |-> {}]

LedgerTypeOK ==
    /\ sched \in [Schedules -> ScheduleRow]
    /\ pay \in [Payments -> PaymentRow]
    /\ inv \in [Invoices -> InvoiceRow]
    /\ req \in [Requests -> Request]
    /\ ops \in 0..MaxOps
    /\ credited \in [Schedules -> Nat]
    /\ raced \subseteq Schedules /\ miscounted \subseteq Schedules
    /\ forced \subseteq Schedules

ScheduleInit ==
    /\ sched = [s \in Schedules |->
                  [status |-> IF s \in Initial THEN "pending" ELSE "absent",
                   received |-> 0]]
    /\ pay = [p \in Payments |-> Absent]
    /\ inv \in [Invoices -> [status : {"pending"}, paid : {0}, report : {NoReport}]]
    /\ req = [r \in Requests |-> Idle]
    /\ ops = 0
    /\ credited = [s \in Schedules |-> 0]
    /\ raced = {} /\ miscounted = {} /\ forced = {}

-----------------------------------------------------------------------------
(* Rows, locks, races *)

Exists(s) == sched[s].status \notin {"absent", "deleted"}
Recorded(p) == pay[p].status \in ContractPaymentStatus
PaymentsOf(s) == {p \in Payments : Recorded(p) /\ pay[p].schedule = s}
AmountOf(P) == MapThenSumSet(LAMBDA p : pay[p].amount, P)

\* A new row gets an id not used before.
NewPayment == {p \in Payments : pay[p].status = "absent"}

InHand(s) == {r \in Requests : req[r].schedule = s}

\* Rows written by a transaction that has not committed.
ScheduleLocked(s) == \E r \in InHand(s) : req[r].pc \in {"lookup", "commit"}
PaymentLocked(p) ==
    \E r \in Requests :
        req[r].row = p /\ req[r].pc \in {"lookup", "commit", "count", "revert", "sum"}

\* The request r, or any step if r is NoRow, touches the schedule s.
Touch(s, r) == raced' = IF InHand(s) \ {r} # {} THEN raced \cup {s} ELSE raced

Begin == ops < MaxOps /\ ops' = ops + 1

Goto(r, l) == req' = [req EXCEPT ![r].pc = l]
End(r) == req' = [req EXCEPT ![r] = Idle]

StatusFor(s, received, otherwise) ==
    IF received >= Expected[s] THEN "paid"
    ELSE IF received > 0 THEN "partial"
    ELSE otherwise

DueStatus(s) == IF s \in PastDue THEN "overdue" ELSE "pending"

Receive(s, received, otherwise) ==
    sched' = [sched EXCEPT ![s] = [status |-> StatusFor(s, received, otherwise),
                                   received |-> received]]

AddPayment(p, s, amount, status) ==
    pay' = [pay EXCEPT ![p] = [status |-> status, schedule |-> s, amount |-> amount]]

-----------------------------------------------------------------------------
(* payment-verification.service: residents report, administrators verify *)

\* Only the tenant is checked before the transaction; the schedule becomes
\* "reported" whatever its status was.
ReportPayment(s, amount) ==
    /\ Begin
    /\ Exists(s) /\ ~ScheduleLocked(s)
    /\ \E p \in NewPayment : AddPayment(p, s, amount, "reported")
    /\ sched' = [sched EXCEPT ![s].status = "reported"]
    /\ Touch(s, NoRow)
    /\ UNCHANGED <<inv, req, credited, miscounted, forced>>

\* verifyPayment reads the payment with its schedule; the administrator may
\* put another amount, and the status is any of the enumeration.
OpenVerification(r, p, decision, amount) ==
    /\ Begin
    /\ req[r] = Idle
    /\ pay[p].status = "reported"
    /\ LET s == pay[p].schedule
       IN  /\ req' = [req EXCEPT ![r] =
                        [Idle EXCEPT !.pc = decision, !.row = p, !.schedule = s,
                                     !.amount = amount, !.seen = sched[s].received]]
           /\ Touch(s, r)
    /\ UNCHANGED <<sched, pay, inv, credited, miscounted, forced>>

\* The transaction writes the payment and, if confirmed, the schedule.
EnterVerification(r) ==
    /\ req[r].pc \in {"confirm", "reject"}
    /\ Recorded(req[r].row) /\ ~PaymentLocked(req[r].row)
    /\ \/ req[r].pc = "confirm" /\ ~ScheduleLocked(req[r].schedule) /\ Goto(r, "lookup")
       \/ req[r].pc = "reject" /\ Goto(r, "count")
    /\ UNCHANGED <<sched, pay, inv, ops, scheduleHistory>>

Decided(r, decision) ==
    pay' = [pay EXCEPT ![req[r].row].status = decision,
                       ![req[r].row].amount = req[r].amount]

\* The invoice of the month the schedule is due in, as the transaction reads it.
LookUpInvoice(r) ==
    LET i == InvoiceOf[req[r].schedule]
    IN  /\ req[r].pc = "lookup"
        /\ req' = [req EXCEPT ![r] = IF i = NoRow THEN [@ EXCEPT !.pc = "commit"]
                                     ELSE [@ EXCEPT !.pc = "commit", !.old = inv[i].status,
                                                    !.paid = inv[i].paid]]
        /\ UNCHANGED <<sched, pay, inv, ops, scheduleHistory>>

\* A partial payment leaves an overdue invoice overdue and makes any other
\* one pending.
InvoiceStatusFor(i, old, paid) ==
    IF paid >= Total[i] THEN "paid"
    ELSE IF paid > 0 THEN IF old = "overdue" THEN "overdue" ELSE "pending"
    ELSE old

\* A mutant: the invoice shows this payment alone.
PaidWithAlone(r) == req[r].amount

PaidWith(r) == req[r].paid + req[r].amount

SyncInvoice(r) ==
    LET i == InvoiceOf[req[r].schedule]
    IN  inv' = IF i = NoRow THEN inv
               ELSE [inv EXCEPT ![i].paid = PaidWith(r),
                                ![i].status = InvoiceStatusFor(i, req[r].old, PaidWith(r))]

ConfirmPayment(r) ==
    /\ req[r].pc = "commit"
    /\ Decided(r, "confirmed")
    /\ Receive(req[r].schedule, req[r].seen + req[r].amount, "pending")
    /\ SyncInvoice(r)
    /\ Touch(req[r].schedule, r)
    /\ End(r)
    /\ UNCHANGED <<ops, credited, miscounted, forced>>

\* A mutant: the reports counted include the one being rejected.
OthersReportedAll(r) ==
    {p \in PaymentsOf(req[r].schedule) : pay[p].status = "reported"}

OthersReported(r) ==
    {p \in PaymentsOf(req[r].schedule) \ {req[r].row} : pay[p].status = "reported"}

\* "seen" holds the count until the commit.
CountReported(r) ==
    /\ req[r].pc = "count"
    /\ req' = [req EXCEPT ![r].pc = "revert",
                          ![r].seen = Cardinality(OthersReported(r))]
    /\ UNCHANGED <<sched, pay, inv, ops, scheduleHistory>>

RejectPayment(r) ==
    /\ req[r].pc = "revert"
    /\ Decided(r, "rejected")
    /\ \/ req[r].seen > 0 /\ UNCHANGED sched
       \/ /\ req[r].seen = 0
          /\ ~ScheduleLocked(req[r].schedule)
          /\ sched' = [sched EXCEPT ![req[r].schedule].status = DueStatus(req[r].schedule)]
    /\ Touch(req[r].schedule, r)
    /\ End(r)
    /\ UNCHANGED <<inv, ops, credited, miscounted, forced>>

\* "reported" as the decision only changes the amount.
KeepReported(r) ==
    /\ req[r].pc = "keep"
    /\ Recorded(req[r].row) /\ ~PaymentLocked(req[r].row)
    /\ Decided(r, "reported")
    /\ Touch(req[r].schedule, r)
    /\ End(r)
    /\ UNCHANGED <<sched, inv, ops, credited, miscounted, forced>>

-----------------------------------------------------------------------------
(* payment-recording.service *)

OpenRecording(r, s, amount) ==
    /\ Begin
    /\ req[r] = Idle
    /\ Exists(s)
    /\ req' = [req EXCEPT ![r] =
                 [Idle EXCEPT !.pc = "record", !.row = s, !.schedule = s,
                              !.amount = amount, !.seen = sched[s].received,
                              !.old = sched[s].status]]
    /\ Touch(s, r)
    /\ UNCHANGED <<sched, pay, inv, credited, miscounted, forced>>

RecordPayment(r) ==
    LET s == req[r].schedule
    IN  /\ req[r].pc = "record"
        /\ Exists(s) /\ ~ScheduleLocked(s)
        /\ \E p \in NewPayment : AddPayment(p, s, req[r].amount, "confirmed")
        /\ Receive(s, req[r].seen + req[r].amount, req[r].old)
        /\ Touch(s, r)
        /\ End(r)
        /\ UNCHANGED <<inv, ops, credited, miscounted, forced>>

OpenDeletion(r, p) ==
    /\ Begin
    /\ req[r] = Idle
    /\ Recorded(p)
    /\ req' = [req EXCEPT ![r] = [Idle EXCEPT !.pc = "delete", !.row = p,
                                              !.schedule = pay[p].schedule]]
    /\ Touch(pay[p].schedule, r)
    /\ UNCHANGED <<sched, pay, inv, credited, miscounted, forced>>

\* A mutant: the row being deleted is added up too.
RemainingAndDeleted(r) == PaymentsOf(req[r].schedule)

\* All rows left count, whatever their status.
Remaining(r) == PaymentsOf(req[r].schedule) \ {req[r].row}

\* Inside the transaction the row is deleted and the others are added up.
SumRemaining(r) ==
    /\ req[r].pc = "delete"
    /\ Recorded(req[r].row) /\ ~PaymentLocked(req[r].row)
    /\ req' = [req EXCEPT ![r].pc = "sum", ![r].seen = AmountOf(Remaining(r))]
    /\ UNCHANGED <<sched, pay, inv, ops, scheduleHistory>>

DeletePayment(r) ==
    LET s == req[r].schedule
    IN  /\ req[r].pc = "sum"
        /\ ~ScheduleLocked(s)
        /\ pay' = [pay EXCEPT ![req[r].row].status = "deleted"]
        /\ Receive(s, req[r].seen, DueStatus(s))
        /\ miscounted' =
             IF credited[s] > 0 \/ \E p \in Remaining(r) : pay[p].status # "confirmed"
             THEN miscounted \cup {s} ELSE miscounted
        /\ Touch(s, r)
        /\ End(r)
        /\ UNCHANGED <<inv, ops, credited, forced>>

-----------------------------------------------------------------------------
(* schedules-core.service; labels, dates and expected amounts do not change *)

CreateSchedule(s) ==
    /\ Begin
    /\ sched[s].status = "absent"
    /\ sched' = [sched EXCEPT ![s].status = "pending"]
    /\ UNCHANGED <<pay, inv, req, scheduleHistory>>

UpdateSchedule(s, status) ==
    /\ Begin
    /\ Exists(s) /\ ~ScheduleLocked(s)
    /\ sched' = [sched EXCEPT ![s].status = status]
    /\ forced' = forced \cup {s}
    /\ Touch(s, NoRow)
    /\ UNCHANGED <<pay, inv, req, credited, miscounted>>

\* A mutant: a schedule with payments may go.
OpenDropAny(r, s) ==
    /\ Begin
    /\ req[r] = Idle
    /\ Exists(s)
    /\ req' = [req EXCEPT ![r] = [Idle EXCEPT !.pc = "drop", !.row = s, !.schedule = s]]
    /\ Touch(s, r)
    /\ UNCHANGED <<sched, pay, inv, credited, miscounted, forced>>

OpenDrop(r, s) ==
    /\ Begin
    /\ req[r] = Idle
    /\ Exists(s) /\ PaymentsOf(s) = {}
    /\ req' = [req EXCEPT ![r] = [Idle EXCEPT !.pc = "drop", !.row = s, !.schedule = s]]
    /\ Touch(s, r)
    /\ UNCHANGED <<sched, pay, inv, credited, miscounted, forced>>

\* Deleting the row deletes its payments with it.
DeleteSchedule(r) ==
    LET s == req[r].schedule
    IN  /\ req[r].pc = "drop"
        /\ Exists(s) /\ ~ScheduleLocked(s)
        /\ \A p \in PaymentsOf(s) : ~PaymentLocked(p)
        /\ sched' = [sched EXCEPT ![s].status = "deleted"]
        /\ pay' = [p \in Payments |->
                     IF p \in PaymentsOf(s) THEN [pay[p] EXCEPT !.status = "deleted"]
                     ELSE pay[p]]
        /\ Touch(s, r)
        /\ End(r)
        /\ UNCHANGED <<inv, ops, credited, miscounted, forced>>

-----------------------------------------------------------------------------
(* The rest of the system *)

\* A webhook credits a schedule (PaymentWebhook has the steps of it); no
\* contract_payments row is made.
CreditByWebhook(s, amount) ==
    /\ Begin
    /\ Exists(s) /\ ~ScheduleLocked(s)
    /\ sched' = [sched EXCEPT ![s] =
          [status |-> IF @.received + amount >= Expected[s] THEN "paid" ELSE "partial",
           received |-> @.received + amount]]
    /\ credited' = [credited EXCEPT ![s] = @ + amount]
    /\ Touch(s, NoRow)
    /\ UNCHANGED <<pay, inv, req, miscounted, forced>>

\* The row a request is about to write is gone: the database refuses.
RowGone(r) ==
    \/ req[r].pc \in {"record", "drop"} /\ ~Exists(req[r].schedule)
    \/ req[r].pc \in {"confirm", "reject", "keep", "delete"} /\ ~Recorded(req[r].row)

FailRequest(r) ==
    /\ RowGone(r)
    /\ End(r)
    /\ UNCHANGED <<sched, pay, inv, ops, scheduleHistory>>

\* The server restarts: requests are lost, transactions rolled back, and on
\* startup pending schedules past their date become overdue, as nowhere else.
MarkOverdue ==
    sched' = [s \in Schedules |->
                IF sched[s].status = "pending" /\ s \in PastDue
                THEN [sched[s] EXCEPT !.status = "overdue"] ELSE sched[s]]

Restart ==
    /\ Begin
    /\ MarkOverdue
    /\ req' = [r \in Requests |-> Idle]
    /\ UNCHANGED <<pay, inv, scheduleHistory>>

Decisions == {"confirm", "reject", "keep"}

ScheduleNext ==
    \/ \E s \in Schedules :
        \/ \E a \in Amounts : ReportPayment(s, a) \/ CreditByWebhook(s, a)
        \/ CreateSchedule(s)
        \/ \E status \in PaymentStatus : UpdateSchedule(s, status)
    \/ \E r \in Requests :
        \/ \E p \in Payments :
            \/ \E d \in Decisions, a \in Amounts : OpenVerification(r, p, d, a)
            \/ OpenDeletion(r, p)
        \/ \E s \in Schedules :
            \/ \E a \in Amounts : OpenRecording(r, s, a)
            \/ OpenDrop(r, s)
        \/ EnterVerification(r) \/ LookUpInvoice(r) \/ ConfirmPayment(r)
        \/ CountReported(r) \/ RejectPayment(r) \/ KeepReported(r)
        \/ RecordPayment(r) \/ SumRemaining(r) \/ DeletePayment(r)
        \/ DeleteSchedule(r) \/ FailRequest(r)
    \/ Restart

scheduleVars == <<sched, pay, inv, req, ops, scheduleHistory>>

ScheduleSpec == ScheduleInit /\ [][ScheduleNext]_scheduleVars

-----------------------------------------------------------------------------
(* Properties *)

\* Confirmed payments are what contract_payments should add up to.
Confirmed(s) == {p \in PaymentsOf(s) : pay[p].status = "confirmed"}

\* A schedule's received_amount is its confirmed payments and the webhooks'
\* credits, whatever is reported, rejected, recorded and deleted, unless two
\* requests had it in hand at once or a deletion recomputed it from rows that
\* are not confirmed, or without the webhooks' share.
ReceivedMatchesPayments ==
    \A s \in Schedules :
        \/ s \in raced \/ s \in miscounted \/ ~Exists(s)
        \/ sched[s].received = AmountOf(Confirmed(s)) + credited[s]

\* A schedule shown as reported has a report for an administrator to decide:
\* it cannot wait for ever, unless two requests raced on it (two rejections at
\* once each count the other's report) or its status was set by hand.
ReportAwaitsDecision ==
    \A s \in Schedules :
        sched[s].status = "reported" =>
            \/ s \in raced \/ s \in forced
            \/ \E p \in PaymentsOf(s) : pay[p].status = "reported"

\* A payment row disappears only when it is deleted itself, unless a schedule
\* was found empty before the payment was made and is deleted after.
PaymentsKept ==
    [][\A p \in Payments :
         Recorded(p) /\ ~Recorded(p)' =>
            \/ \E r \in Requests : req[r].pc = "sum" /\ req[r].row = p
            \/ pay[p].schedule \in raced']_scheduleVars
=============================================================================
