--------------------------- MODULE InvoicePayments ---------------------------
(***************************************************************************)
(* Payments residents report on invoices: report, confirmation, rejection, *)
(* the synchronisation of a confirmed payment to the contract's payment    *)
(* schedules, the overdue list and edits by hand. Composed with            *)
(* ScheduleLedger, whose tables it writes and which writes invoices.       *)
(***************************************************************************)
EXTENDS ScheduleLedger

CONSTANTS Earlier,     \* Earlier[s]: the schedules due before s
          Matching     \* Matching[i]: schedules of the payment type that the
                       \* categories of the invoice's line items map to

ASSUME OrderAssumption ==
    /\ Earlier \in [Schedules -> SUBSET Schedules]
    /\ Matching \in [Invoices -> SUBSET Schedules]

\* History: which operation last settled an invoice, reports made and reports
\* credited to schedules, invoices whose report was decided again, invoices
\* two requests had in hand at once.
VARIABLES settledBy, reports, synced, redecided, contested

invoiceHistory == <<settledBy, reports, synced, redecided, contested>>
invoiceVars == <<scheduleVars, invoiceHistory>>

InvoiceTypeOK ==
    /\ LedgerTypeOK
    /\ settledBy \in [Invoices -> {"none", "verification", "schedule", "webhook", "hand"}]
    /\ reports \in [Invoices -> Nat] /\ synced \in [Invoices -> Nat]
    /\ redecided \subseteq Invoices /\ contested \subseteq Invoices

InvoiceInit ==
    /\ ScheduleInit
    /\ settledBy = [i \in Invoices |-> "none"]
    /\ reports = [i \in Invoices |-> 0] /\ synced = [i \in Invoices |-> 0]
    /\ redecided = {} /\ contested = {}

-----------------------------------------------------------------------------
Holders(i) == {r \in Requests : req[r].row = i}

Contest(i, r) ==
    contested' = IF Holders(i) \ {r} # {} THEN contested \cup {i} ELSE contested

\* Statements that write no schedule, and none of the other history.
InvoiceFrame == UNCHANGED <<sched, pay, scheduleHistory>>

\* A mutant: a paid invoice may be reported on.
MayReportPaid == {"draft", "pending", "overdue", "paid"}

MayReport == InvoiceStatus \ {"paid", "cancelled"}

OpenReport(r, i, amount) ==
    /\ Begin
    /\ req[r] = Idle
    /\ inv[i].status \in MayReport
    /\ req' = [req EXCEPT ![r] = [Idle EXCEPT !.pc = "report", !.row = i, !.amount = amount]]
    /\ Contest(i, r)
    /\ UNCHANGED <<inv, settledBy, reports, synced, redecided>> /\ InvoiceFrame

\* The new report replaces the one in the snapshot and any decision on it.
ReportOnInvoice(r) ==
    /\ req[r].pc = "report"
    /\ inv' = [inv EXCEPT ![req[r].row].report =
                 [decision |-> "open", amount |-> req[r].amount]]
    /\ reports' = [reports EXCEPT ![req[r].row] = @ + 1]
    /\ Contest(req[r].row, r)
    /\ End(r)
    /\ UNCHANGED <<ops, settledBy, synced, redecided>> /\ InvoiceFrame

\* verifyPayment asks only for a report, decided or not; the status is not
\* looked at. "amount" is actualAmount if given, else the amount reported.
OpenInvoiceVerification(r, i, decision, amount) ==
    /\ Begin
    /\ req[r] = Idle
    /\ inv[i].report.decision # "none"
    /\ req' = [req EXCEPT ![r] = [Idle EXCEPT !.pc = decision, !.row = i, !.amount = amount,
                                              !.seen = inv[i].report.amount]]
    /\ redecided' = IF inv[i].report.decision # "open" THEN redecided \cup {i} ELSE redecided
    /\ Contest(i, r)
    /\ UNCHANGED <<inv, settledBy, reports, synced>> /\ InvoiceFrame

\* A mutant: the invoice gets the status of the decision.
ConfirmedAsDecision(r) ==
    [status |-> "confirmed", paid |-> req[r].amount,
     report |-> [decision |-> "confirmed", amount |-> req[r].seen]]

ConfirmedInvoice(r) ==
    [status |-> "paid", paid |-> req[r].amount,
     report |-> [decision |-> "confirmed", amount |-> req[r].seen]]

\* The invoice is written, then, in another transaction, its schedule.
ConfirmOnInvoice(r) ==
    /\ req[r].pc = "approve"
    /\ inv' = [inv EXCEPT ![req[r].row] = ConfirmedInvoice(r)]
    /\ settledBy' = [settledBy EXCEPT ![req[r].row] = "verification"]
    /\ Contest(req[r].row, r)
    /\ Goto(r, "sync")
    /\ UNCHANGED <<ops, reports, synced, redecided>> /\ InvoiceFrame

RejectOnInvoice(r) ==
    /\ req[r].pc = "refuse"
    /\ inv' = [inv EXCEPT ![req[r].row].report =
                 [decision |-> "rejected", amount |-> req[r].seen]]
    /\ Contest(req[r].row, r)
    /\ End(r)
    /\ UNCHANGED <<ops, settledBy, reports, synced, redecided>> /\ InvoiceFrame

-----------------------------------------------------------------------------
(* invoices-schedule-sync.helper *)

\* Schedules of the type that still expect money; "reported" is not among them.
OpenSchedules(i) ==
    {s \in Matching[i] : sched[s].status \in {"pending", "overdue", "partial"}}

SyncPaymentToSchedule(r) ==
    LET open == OpenSchedules(req[r].row)
    IN  /\ req[r].pc = "sync"
        /\ \/ /\ open = {}
              /\ End(r)
              /\ UNCHANGED raced
           \/ \E s \in open :
                /\ Earlier[s] \cap open = {}
                /\ req' = [req EXCEPT ![r].pc = "credit", ![r].schedule = s,
                                      ![r].seen = sched[s].received]
                /\ Touch(s, r)
        /\ UNCHANGED <<sched, pay, inv, ops, credited, miscounted, forced, invoiceHistory>>

\* A mutant: every open schedule is credited in turn.
NextSchedule(r) == [req[r] EXCEPT !.pc = "sync", !.schedule = NoRow]

\* One schedule gets the whole amount, what it does not expect included.
AfterCredit(r) == Idle

CreditFromInvoice(r) ==
    LET s == req[r].schedule
    IN  /\ req[r].pc = "credit"
        /\ Exists(s) /\ ~ScheduleLocked(s)
        /\ \E p \in NewPayment : AddPayment(p, s, req[r].amount, "confirmed")
        /\ Receive(s, req[r].seen + req[r].amount, "pending")
        /\ synced' = [synced EXCEPT ![req[r].row] = @ + 1]
        /\ Touch(s, r)
        /\ req' = [req EXCEPT ![r] = AfterCredit(r)]
        /\ UNCHANGED <<inv, ops, credited, miscounted, forced,
                       settledBy, reports, redecided, contested>>

\* The schedule was deleted meanwhile: the invoice stays paid, without it.
FailCredit(r) ==
    /\ req[r].pc = "credit" /\ ~Exists(req[r].schedule)
    /\ End(r)
    /\ UNCHANGED <<sched, pay, inv, ops, scheduleHistory, invoiceHistory>>

-----------------------------------------------------------------------------
(* invoices-core.service: update and the list of overdue invoices *)

\* Either may be left out: NoRow. What is paid of a paid invoice is the total, if
\* it is not given.
UpdateInvoice(i, status, amount) ==
    /\ Begin
    /\ inv' = [inv EXCEPT ![i].status = IF status = NoRow THEN @ ELSE status,
                          ![i].paid = IF amount # NoRow THEN amount
                                      ELSE IF status = "paid" THEN Total[i] ELSE @]
    /\ settledBy' = [settledBy EXCEPT ![i] = IF status = NoRow THEN @ ELSE "hand"]
    /\ Contest(i, NoRow)
    /\ UNCHANGED <<req, reports, synced, redecided>> /\ InvoiceFrame

\* Listing overdue invoices marks the pending ones it has found.
OpenOverdue(r) ==
    /\ Begin
    /\ req[r] = Idle
    /\ LET found == {i \in Invoices \cap PastDue : inv[i].status = "pending"}
       IN  found # {} /\ req' = [req EXCEPT ![r] = [Idle EXCEPT !.pc = "sweep", !.swept = found]]
    /\ UNCHANGED <<inv, invoiceHistory>> /\ InvoiceFrame

MarkInvoicesOverdue(r) ==
    /\ req[r].pc = "sweep"
    /\ inv' = [i \in Invoices |->
                 IF i \in req[r].swept THEN [inv[i] EXCEPT !.status = "overdue"] ELSE inv[i]]
    /\ End(r)
    /\ UNCHANGED <<ops, invoiceHistory>> /\ InvoiceFrame

\* A webhook settles an invoice whatever was paid of it.
SettleByWebhook(i, amount) ==
    /\ Begin
    /\ inv' = [inv EXCEPT ![i].status = "paid", ![i].paid = amount]
    /\ settledBy' = [settledBy EXCEPT ![i] = "webhook"]
    /\ Contest(i, NoRow)
    /\ UNCHANGED <<req, reports, synced, redecided>> /\ InvoiceFrame

\* The steps on schedules; a confirmation also writes the month's invoice.
ConfirmWithInvoice(r) ==
    LET i == InvoiceOf[req[r].schedule]
    IN  /\ ConfirmPayment(r)
        /\ settledBy' = IF i = NoRow THEN settledBy
                        ELSE [settledBy EXCEPT ![i] = "schedule"]
        /\ IF i = NoRow THEN UNCHANGED contested ELSE Contest(i, r)
        /\ UNCHANGED <<reports, synced, redecided>>

InvoiceDecisions == {"approve", "refuse"}

LedgerNext ==
    \/ \E i \in Invoices :
        \/ \E status \in InvoiceStatus \cup {NoRow}, a \in Amounts \cup {NoRow} :
             UpdateInvoice(i, status, a)
        \/ \E a \in Amounts : SettleByWebhook(i, a)
    \/ \E r \in Requests :
        \/ \E i \in Invoices, a \in Amounts :
            \/ OpenReport(r, i, a)
            \/ \E d \in InvoiceDecisions : OpenInvoiceVerification(r, i, d, a)
        \/ ReportOnInvoice(r) \/ ConfirmOnInvoice(r) \/ RejectOnInvoice(r)
        \/ SyncPaymentToSchedule(r) \/ CreditFromInvoice(r) \/ FailCredit(r)
        \/ OpenOverdue(r) \/ MarkInvoicesOverdue(r)
        \/ ConfirmWithInvoice(r)
    \/ \E s \in Schedules, a \in Amounts :
        \/ ReportPayment(s, a) /\ UNCHANGED invoiceHistory
        \/ CreditByWebhook(s, a) /\ UNCHANGED invoiceHistory
    \/ \E s \in Schedules :
        \/ CreateSchedule(s) /\ UNCHANGED invoiceHistory
        \/ \E status \in PaymentStatus : UpdateSchedule(s, status) /\ UNCHANGED invoiceHistory
    \/ \E r \in Requests, p \in Payments :
        \/ \E d \in Decisions, a \in Amounts :
            OpenVerification(r, p, d, a) /\ UNCHANGED invoiceHistory
        \/ OpenDeletion(r, p) /\ UNCHANGED invoiceHistory
    \/ \E r \in Requests, s \in Schedules :
        \/ \E a \in Amounts : OpenRecording(r, s, a) /\ UNCHANGED invoiceHistory
        \/ OpenDrop(r, s) /\ UNCHANGED invoiceHistory
    \/ \E r \in Requests :
        \/ EnterVerification(r) /\ UNCHANGED invoiceHistory
        \/ LookUpInvoice(r) /\ UNCHANGED invoiceHistory
        \/ CountReported(r) /\ UNCHANGED invoiceHistory
        \/ RejectPayment(r) /\ UNCHANGED invoiceHistory
        \/ KeepReported(r) /\ UNCHANGED invoiceHistory
        \/ RecordPayment(r) /\ UNCHANGED invoiceHistory
        \/ SumRemaining(r) /\ UNCHANGED invoiceHistory
        \/ DeletePayment(r) /\ UNCHANGED invoiceHistory
        \/ DeleteSchedule(r) /\ UNCHANGED invoiceHistory
        \/ FailRequest(r) /\ UNCHANGED invoiceHistory
    \/ Restart /\ UNCHANGED invoiceHistory

LedgerSpec == InvoiceInit /\ [][LedgerNext]_invoiceVars

-----------------------------------------------------------------------------
(* Properties *)

\* What a resident reports on an invoice is credited to the schedules at most
\* once, whatever is rejected, swept, edited or lost, unless the report was
\* decided a second time, as the code allows, or two requests had the invoice
\* in hand at once.
SyncedOncePerReport ==
    \A i \in Invoices : synced[i] <= reports[i] \/ i \in redecided \/ i \in contested

\* An invoice paid by a verification shows the decision that paid it: neither
\* a later report nor a stale write hides it, unless the decision was taken
\* again or two requests had the invoice in hand at once.
DecisionShown ==
    \A i \in Invoices :
        inv[i].status = "paid" /\ settledBy[i] = "verification" =>
            \/ inv[i].report.decision = "confirmed"
            \/ i \in redecided \/ i \in contested

\* Requests about to write the invoice as it was before it was paid in full.
Late(i) ==
    {r \in Requests :
        \/ i \in req[r].swept
        \/ /\ req[r].pc = "commit" /\ InvoiceOf[req[r].schedule] = i
           /\ req[r].old # "paid" \/ req[r].paid < Total[i]}

\* A paid invoice becomes unpaid only by an edit, or by a list of overdue invoices
\* or a verification of a schedule's payment that read it before it was paid in
\* full: a webhook's settlement in between is then lost.
PaidStaysUnlessLate ==
    [][\A i \in Invoices :
         inv[i].status = "paid" /\ inv'[i].status # "paid" =>
            settledBy'[i] = "hand" \/ Late(i) # {}]_invoiceVars
=============================================================================
