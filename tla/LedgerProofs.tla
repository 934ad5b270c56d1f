----------------------------- MODULE LedgerProofs -----------------------------
(***************************************************************************)
(* Proofs, for every number of schedules, invoices, payments and requests  *)
(* and all amounts, that the properties of InvoicePayments hold.           *)
(***************************************************************************)
EXTENDS InvoicePayments, FiniteSums

-----------------------------------------------------------------------------
(* Sums of amounts *)

\* AmountOf for any rows of payments.
Added(row, P) == MapThenSumSet(LAMBDA p : row[p].amount, P)

LEMMA AmountAdded == \A P : AmountOf(P) = Added(pay, P) /\ AmountOf(P)' = Added(pay', P)
  BY DEF AmountOf, Added, MapThenSumSet, MapThenFoldSet

LEMMA SumFound ==
  ASSUME NEW S, IsFiniteSet(S), NEW row, \A p \in S : row[p].amount \in Nat
  PROVE  \E g \in [SUBSET S -> Nat] :
            AddsUp(g, [p \in S |-> row[p].amount], S) /\ \A P \in SUBSET S : Added(row, P) = g[P]
<1> DEFINE f == [p \in S |-> row[p].amount]
<1>1. PICK g \in [SUBSET S -> Nat] : AddsUp(g, f, S)
  BY SumExists
<1>2. ASSUME NEW P \in SUBSET S PROVE Added(row, P) = g[P]
  <2> DEFINE Sums(h) == h = [s \in SUBSET P |->
                 IF s = {} THEN 0 ELSE row[Pick(s)].amount + h[s \ {Pick(s)}]]
  <2>1. Added(row, P) = (CHOOSE h : Sums(h))[P]
    BY DEF Added, MapThenSumSet, MapThenFoldSet, Pick
  <2>2. \A s \in SUBSET P : s # {} => Pick(s) \in S /\ f[Pick(s)] = row[Pick(s)].amount
    BY DEF Pick
  <2>3. \A s \in SUBSET P : s # {} => g[s] = f[Pick(s)] + g[s \ {Pick(s)}]
    BY <1>1 DEF AddsUp
  <2>4. g[{}] = 0
    BY <1>1 DEF AddsUp
  <2>5. Sums([s \in SUBSET P |-> g[s]])
    BY <2>2, <2>3, <2>4
  <2>6. PICK h : h = (CHOOSE k : Sums(k)) /\ Sums(h)
    <3> HIDE DEF Sums
    <3> QED BY <2>5
  <2>7. AddsUp(h, f, P)
    BY <2>2, <2>6 DEF AddsUp
  <2>8. g[P] = h[P]
    <3> HIDE DEF f, Sums
    <3> QED BY <1>1, <2>7, SameSums
  <2> QED
    BY <2>1, <2>6, <2>8
<1> QED
  BY <1>1, <1>2

\* A sum of amounts is a natural number and has one payment's amount added last.
LEMMA AddedFacts ==
  ASSUME NEW row, \A p \in Payments : row[p].amount \in Nat
  PROVE  \A P \in SUBSET Payments :
            /\ Added(row, P) \in Nat
            /\ \A p \in P : Added(row, P) = row[p].amount + Added(row, P \ {p})
<1> DEFINE f == [p \in Payments |-> row[p].amount]
<1>1. PICK g \in [SUBSET Payments -> Nat] :
         AddsUp(g, f, Payments) /\ \A P \in SUBSET Payments : Added(row, P) = g[P]
  BY RowAssumption, SumFound
<1> DEFINE Wrong(s) == \E p \in s : g[s] # f[p] + g[s \ {p}]
           F == {s \in SUBSET Payments : Wrong(s)}
<1>2. F = {}
  <2>1. SUFFICES ASSUME F # {} PROVE FALSE
    OBVIOUS
  <2>2. PICK m \in F : \A s \in F : s \subseteq m => s = m
    <3>1. F \subseteq SUBSET Payments
      OBVIOUS
    <3> HIDE DEF F
    <3> QED BY <2>1, <3>1, LeastSubset, RowAssumption
  <2>3. PICK p \in m : g[m] # f[p] + g[m \ {p}]
    BY <2>2
  <2> DEFINE c == Pick(m)
  <2>4. c \in m /\ m \in SUBSET Payments
    BY <2>2, <2>3 DEF Pick
  <2>5. g[m] = f[c] + g[m \ {c}]
    BY <1>1, <2>3, <2>4 DEF AddsUp
  <2>6. c # p
    BY <2>3, <2>5
  <2>7. m \ {c} \notin F /\ m \ {p} \notin F
    BY <2>2, <2>3, <2>4
  <2>8. g[m \ {c}] = f[p] + g[(m \ {c}) \ {p}] /\ g[m \ {p}] = f[c] + g[(m \ {p}) \ {c}]
    BY <2>3, <2>4, <2>6, <2>7
  <2>9. (m \ {c}) \ {p} = (m \ {p}) \ {c}
    OBVIOUS
  <2>10. /\ f[p] \in Nat /\ f[c] \in Nat
         /\ g[(m \ {p}) \ {c}] \in Nat
    BY <1>1, <2>3, <2>4
  <2>11. g[m] = f[c] + (f[p] + g[(m \ {p}) \ {c}]) /\ g[m \ {p}] = f[c] + g[(m \ {p}) \ {c}]
    BY <2>5, <2>8, <2>9
  <2>12. \A a, b, z \in Nat : a + (b + z) = b + (a + z)
    OBVIOUS
  <2>13. g[m] = f[p] + g[m \ {p}]
    <3> HIDE DEF c, f
    <3> QED BY <2>10, <2>11, <2>12
  <2> QED
    BY <2>3, <2>13
<1>3. \A P \in SUBSET Payments : \A p \in P : g[P] = row[p].amount + g[P \ {p}]
  BY <1>2
<1> HIDE DEF f, F
<1> QED
  BY <1>1, <1>3

LEMMA PaymentSums ==
  \A row : (\A p \in Payments : row[p].amount \in Nat) =>
     \E g \in [SUBSET Payments -> Nat] :
        AddsUp(g, [p \in Payments |-> row[p].amount], Payments) /\ \A Q \in SUBSET Payments : Added(row, Q) = g[Q]
<1> SUFFICES ASSUME NEW row, \A p \in Payments : row[p].amount \in Nat
             PROVE  \E g \in [SUBSET Payments -> Nat] :
                      AddsUp(g, [p \in Payments |-> row[p].amount], Payments) /\ \A Q \in SUBSET Payments : Added(row, Q) = g[Q]
  OBVIOUS
<1> QED
  BY RowAssumption, SumFound

\* It depends on the amounts of its payments alone.
LEMMA AddedSame ==
  ASSUME NEW row, NEW other, NEW P \in SUBSET Payments,
         \A p \in Payments : row[p].amount \in Nat,
         \A p \in Payments : other[p].amount \in Nat,
         \A p \in P : row[p].amount = other[p].amount
  PROVE  Added(row, P) = Added(other, P)
<1> DEFINE f == [p \in Payments |-> row[p].amount]
<1>1. PICK g :
         AddsUp(g, f, Payments) /\ \A Q \in SUBSET Payments : Added(row, Q) = g[Q]
  BY PaymentSums
<1> DEFINE e == [p \in Payments |-> other[p].amount]
<1>2. PICK h :
         AddsUp(h, e, Payments) /\ \A Q \in SUBSET Payments : Added(other, Q) = h[Q]
  BY PaymentSums
<1>3. \A p \in P : f[p] = e[p]
  OBVIOUS
<1> HIDE DEF f, e
<1>4. g[P] = h[P]
  BY <1>1, <1>2, <1>3, SameSums, RowAssumption
<1> QED
  BY <1>1, <1>2, <1>4

-----------------------------------------------------------------------------
(* What a request knows *)

USE RowAssumption, LedgerAssumption, OrderAssumption

\* Statements of requests about one payment, those of them that hold its lock,
\* and those about one invoice.
PaymentPc == {"confirm", "lookup", "commit", "reject", "count", "revert", "keep",
              "delete", "sum"}
LockingPc == {"lookup", "commit", "count", "revert", "sum"}
ReportPc == {"report", "approve", "sync", "credit", "refuse"}

\* A request's rows are of the kinds its statement is about, and a payment it
\* has locked is still there.
RequestOK(r) ==
    LET q == req[r]
    IN  /\ q.pc = "idle" => q = Idle
        /\ q.pc \in PaymentPc =>
             /\ q.row \in Payments /\ pay[q.row].status # "absent"
             /\ q.schedule \in Schedules /\ pay[q.row].schedule = q.schedule
        /\ q.pc \in LockingPc => Recorded(q.row)
        /\ q.pc \in {"record", "drop", "credit"} => q.schedule \in Schedules
        /\ q.schedule \in Schedules => sched[q.schedule].status # "absent"
        /\ q.pc \in ReportPc => q.row \in Invoices
        /\ q.pc = "record" => q.old \in PaymentStatus
        /\ q.pc = "commit" => q.old \in InvoiceStatus \/ InvoiceOf[q.schedule] = NoRow

\* A payment is locked by one request.
LocksOK ==
    \A q, r \in Requests :
        req[q].pc \in LockingPc /\ req[r].pc \in LockingPc /\ req[q].row = req[r].row => q = r

\* A payment recorded belongs to a schedule that exists, and a schedule yet to
\* be made has received nothing.
RowsOK ==
    /\ \A p \in Payments : Recorded(p) => pay[p].schedule \in Schedules /\ Exists(pay[p].schedule)
    /\ \A s \in Schedules :
         sched[s].status = "absent" => sched[s].received = 0 /\ credited[s] = 0

TypeInv == InvoiceTypeOK /\ RowsOK /\ LocksOK /\ \A r \in Requests : RequestOK(r)

\* What the request has read of its schedule is still so.
Current(r) ==
    LET q == req[r]
        s == req[r].schedule
    IN  /\ q.pc \in {"record", "confirm", "lookup", "commit", "credit"} =>
             q.seen = sched[s].received
        /\ q.pc = "record" => q.old = sched[s].status
        /\ q.pc \in {"confirm", "lookup", "commit", "reject", "count", "revert", "keep"} =>
             pay[q.row].status = "reported"
        /\ q.pc = "revert" /\ q.seen > 0 => OthersReported(r) # {}
        /\ q.pc = "sum" => q.seen = AmountOf(Remaining(r))
        /\ q.pc = "drop" => PaymentsOf(s) = {}

\* A schedule that was not raced is in the hands of one request, which knows it
\* as it is.
Known(s) ==
    \/ s \in raced
    \/ \A q, r \in InHand(s) : q = r /\ Current(q)

MoneyOK(s) ==
    \/ s \in raced \/ s \in miscounted \/ ~Exists(s)
    \/ sched[s].received = AmountOf(Confirmed(s)) + credited[s]

ReportOK(s) ==
    sched[s].status = "reported" =>
        \/ s \in raced \/ s \in forced
        \/ \E p \in PaymentsOf(s) : pay[p].status = "reported"

ScheduleInv == \A s \in Schedules : Known(s) /\ MoneyOK(s) /\ ReportOK(s)

\* The requests about an invoice, and what they mean for its reports: one that
\* may still credit a report has one to credit, and the invoice a request is
\* about to give a new report or a rejection is not paid by a verification.
About(i) == {r \in Requests : req[r].pc \in ReportPc /\ req[r].row = i}

PaidByVerification(i) == inv[i].status = "paid" /\ settledBy[i] = "verification"

InvoiceOK(i) ==
    \/ i \in redecided \/ i \in contested
    \/ /\ \A q, r \in About(i) : q = r
       /\ synced[i] <= reports[i]
       /\ inv[i].report.decision = "open" => synced[i] < reports[i]
       /\ PaidByVerification(i) => inv[i].report.decision = "confirmed"
       /\ \A r \in About(i) :
            /\ req[r].pc \in {"approve", "sync", "credit"} => synced[i] < reports[i]
            /\ req[r].pc \in {"sync", "credit"} => inv[i].report.decision = "confirmed"
            /\ req[r].pc \in {"report", "refuse"} => ~PaidByVerification(i)

InvoiceInv == \A i \in Invoices : InvoiceOK(i)

LedgerInv == TypeInv /\ ScheduleInv /\ InvoiceInv

-----------------------------------------------------------------------------
(* Types *)

\* A request's next record has the types and the others keep theirs.
LEMMA Becomes ==
  ASSUME LedgerTypeOK, NEW r \in Requests, NEW q \in Request, req' = [req EXCEPT ![r] = q]
  PROVE  /\ req' \in [Requests -> Request] /\ req'[r] = q
         /\ \A t \in Requests : t # r => req'[t] = req[t]
  BY DEF LedgerTypeOK

LEMMA IdleIsRequest == Idle \in Request /\ Idle.pc = "idle" /\ Idle.schedule = NoRow
  BY DEF Idle, Request, PaymentStatus

\* No row becomes absent again and payments keep their schedule.
RowsStay ==
    /\ \A p \in Payments : pay[p].status # "absent" =>
         pay'[p].status # "absent" /\ pay'[p].schedule = pay[p].schedule
    /\ \A s \in Schedules : sched[s].status # "absent" => sched'[s].status # "absent"

\* The lock of a request keeps its payment.
LockKept(r) == req[r].pc \in LockingPc => pay'[req[r].row].status \in ContractPaymentStatus

LEMMA RequestStays ==
  ASSUME TypeInv, NEW r \in Requests, req'[r] = req[r], RowsStay, LockKept(r)
  PROVE  RequestOK(r)'
BY DEF TypeInv, InvoiceTypeOK, LedgerTypeOK, RequestOK, RowsStay, LockKept, PaymentPc, LockingPc, Recorded

LEMMA IdleOK == ASSUME NEW r \in Requests, req'[r] = Idle PROVE RequestOK(r)'
BY DEF RequestOK, Idle, PaymentPc, LockingPc, ReportPc


\* A step of one request, or of none, keeps what requests know of their rows.
LEMMA TypeKept ==
  ASSUME TypeInv, InvoiceTypeOK', RowsStay, RowsOK', NEW r \in Requests, RequestOK(r)',
         \A t \in Requests \ {r} : req'[t] = req[t] /\ LockKept(t),
         req'[r].pc \in LockingPc =>
            \A t \in Requests \ {r} : req[t].pc \in LockingPc => req[t].row # req'[r].row
  PROVE  TypeInv'
<1>1. \A t \in Requests : RequestOK(t)'
  BY RequestStays
<1>2. LocksOK'
  BY DEF TypeInv, LocksOK
<1> QED
  BY <1>1, <1>2 DEF TypeInv

\* A step that leaves all requests as they are.
LEMMA TypeKeptByOthers ==
  ASSUME TypeInv, InvoiceTypeOK', RowsStay, RowsOK', req' = req,
         \A t \in Requests : LockKept(t)
  PROVE  TypeInv'
<1>1. \A t \in Requests : RequestOK(t)'
  BY RequestStays
<1>2. LocksOK'
  BY DEF TypeInv, LocksOK
<1> QED
  BY <1>1, <1>2 DEF TypeInv

LEMMA TypeInit == InvoiceInit => TypeInv
<1> SUFFICES ASSUME InvoiceInit PROVE TypeInv
  OBVIOUS
<1> USE DEF InvoiceInit, ScheduleInit
<1>1. InvoiceTypeOK
  <2>1. /\ sched \in [Schedules -> ScheduleRow] /\ pay \in [Payments -> PaymentRow]
        /\ inv \in [Invoices -> InvoiceRow]
    BY DEF ScheduleRow, PaymentRow, InvoiceRow, Absent, NoReport, Report, PaymentStatus,
           ContractPaymentStatus, InvoiceStatus
  <2>2. req \in [Requests -> Request]
    BY IdleIsRequest
  <2> QED
    BY <2>1, <2>2 DEF InvoiceTypeOK, LedgerTypeOK
<1>2. RowsOK /\ LocksOK
  BY DEF RowsOK, LocksOK, Recorded, Absent, ContractPaymentStatus, Idle, LockingPc
<1>3. \A r \in Requests : RequestOK(r)
  BY DEF RequestOK, Idle, PaymentPc, LockingPc, ReportPc
<1> QED
  BY <1>1, <1>2, <1>3 DEF TypeInv

\* Rows and locks of payments and schedules that a step leaves alone.
LEMMA RowsLeft ==
  ASSUME TypeInv, UNCHANGED <<sched, pay, credited>>
  PROVE  /\ RowsStay /\ RowsOK' /\ \A t \in Requests : LockKept(t)
<1>1. RowsStay
  BY DEF RowsStay
<1>2. RowsOK'
  BY DEF TypeInv, RowsOK, Exists, Recorded
<1>3. \A t \in Requests : LockKept(t)
  BY DEF TypeInv, RequestOK, LockKept, Recorded
<1> QED
  BY <1>1, <1>2, <1>3

\* A request that goes on, or ends, and writes nothing.
LEMMA OnlyRequests ==
  ASSUME TypeInv, NEW r \in Requests, NEW q \in Request, req' = [req EXCEPT ![r] = q],
         UNCHANGED <<sched, pay, inv, credited, miscounted, forced, settledBy, reports, synced>>,
         ops' \in 0..MaxOps, raced' \subseteq Schedules,
         redecided' \subseteq Invoices, contested' \subseteq Invoices,
         req'[r] = q => RequestOK(r)',
         q.pc \in LockingPc =>
            \A t \in Requests \ {r} : req[t].pc \in LockingPc => req[t].row # q.row
  PROVE  TypeInv'
<1>1. /\ req' \in [Requests -> Request] /\ req'[r] = q
      /\ \A t \in Requests : t # r => req'[t] = req[t]
  BY Becomes DEF TypeInv, InvoiceTypeOK
<1>2. InvoiceTypeOK'
  BY <1>1 DEF TypeInv, InvoiceTypeOK, LedgerTypeOK
<1> QED
  BY <1>1, <1>2, RowsLeft, TypeKept DEF TypeInv

LEMMA OpsBounded == TypeInv /\ (Begin \/ ops' = ops) => ops' \in 0..MaxOps
BY DEF TypeInv, InvoiceTypeOK, LedgerTypeOK, Begin

LEMMA RacedTyped ==
  ASSUME TypeInv, NEW s \in Schedules, NEW r, Touch(s, r)
  PROVE  raced' \subseteq Schedules /\ raced \subseteq raced'
BY DEF TypeInv, InvoiceTypeOK, LedgerTypeOK, Touch

LEMMA ContestedTyped ==
  ASSUME TypeInv, NEW i \in Invoices, NEW r, Contest(i, r)
  PROVE  contested' \subseteq Invoices /\ contested \subseteq contested'
BY DEF TypeInv, InvoiceTypeOK, Contest

\* A payment recorded has a schedule, which exists.
LEMMA RecordedFacts ==
  ASSUME TypeInv, NEW p \in Payments, Recorded(p)
  PROVE  /\ pay[p].schedule \in Schedules /\ Exists(pay[p].schedule)
         /\ pay[p].status # "absent" /\ sched[pay[p].schedule].status # "absent"
         /\ sched[pay[p].schedule].received \in Nat
BY DEF TypeInv, RowsOK, Recorded, Exists, ContractPaymentStatus, InvoiceTypeOK, LedgerTypeOK,
       ScheduleRow

LEMMA OpenVerificationType ==
  ASSUME TypeInv, NEW r \in Requests, NEW p \in Payments, NEW d \in Decisions,
         NEW a \in Amounts, OpenVerification(r, p, d, a), UNCHANGED invoiceHistory
  PROVE  TypeInv'
<1> DEFINE s == pay[p].schedule
           q == [Idle EXCEPT !.pc = d, !.row = p, !.schedule = s,
                             !.amount = a, !.seen = sched[s].received]
<1>1. /\ s \in Schedules /\ pay[p].status # "absent" /\ sched[s].status # "absent"
      /\ sched[s].received \in Nat
  BY RecordedFacts DEF OpenVerification, Recorded, ContractPaymentStatus
<1>2. q.pc = d /\ q.row = p /\ q.schedule = s /\ q.old = "pending"
  BY DEF Idle
<1>3. q \in Request
  BY <1>1 DEF Idle, Request, Decisions, SchedulePc, PaymentStatus
<1>4. req'[r] = q => RequestOK(r)'
  BY <1>1, <1>2 DEF RequestOK, OpenVerification, Decisions, PaymentPc, LockingPc, ReportPc
<1>5. q.pc \notin LockingPc
  BY <1>2 DEF LockingPc, Decisions
<1>6. req' = [req EXCEPT ![r] = q] /\ ops' \in 0..MaxOps /\ raced' \subseteq Schedules
  BY <1>1, OpsBounded, RacedTyped DEF OpenVerification
<1>7. redecided' \subseteq Invoices /\ contested' \subseteq Invoices
  BY DEF TypeInv, InvoiceTypeOK, invoiceHistory
<1> HIDE DEF q
<1> QED
  BY <1>3, <1>4, <1>5, <1>6, <1>7, OnlyRequests DEF OpenVerification, invoiceHistory

LEMMA OpenDeletionType ==
  ASSUME TypeInv, NEW r \in Requests, NEW p \in Payments,
         OpenDeletion(r, p), UNCHANGED invoiceHistory
  PROVE  TypeInv'
<1> DEFINE s == pay[p].schedule
           q == [Idle EXCEPT !.pc = "delete", !.row = p, !.schedule = s]
<1>1. s \in Schedules /\ pay[p].status # "absent" /\ sched[s].status # "absent"
  BY RecordedFacts DEF OpenDeletion
<1>2. q.pc = "delete" /\ q.row = p /\ q.schedule = s
  BY DEF Idle
<1>3. q \in Request
  BY <1>1 DEF Idle, Request, SchedulePc, PaymentStatus
<1>4. req'[r] = q => RequestOK(r)'
  BY <1>1, <1>2 DEF RequestOK, OpenDeletion, PaymentPc, LockingPc, ReportPc
<1>5. q.pc \notin LockingPc
  BY <1>2 DEF LockingPc
<1>6. req' = [req EXCEPT ![r] = q] /\ ops' \in 0..MaxOps /\ raced' \subseteq Schedules
  BY <1>1, OpsBounded, RacedTyped DEF OpenDeletion
<1>7. redecided' \subseteq Invoices /\ contested' \subseteq Invoices
  BY DEF TypeInv, InvoiceTypeOK, invoiceHistory
<1> HIDE DEF q
<1> QED
  BY <1>3, <1>4, <1>5, <1>6, <1>7, OnlyRequests DEF OpenDeletion, invoiceHistory

\* A schedule that exists is not absent.
LEMMA ScheduleFacts ==
  ASSUME TypeInv, NEW s \in Schedules
  PROVE  /\ sched[s].received \in Nat /\ credited[s] \in Nat
         /\ Exists(s) => sched[s].status # "absent" /\ sched[s].status \in PaymentStatus
BY DEF TypeInv, InvoiceTypeOK, LedgerTypeOK, Exists, ScheduleRow

LEMMA OpenRecordingType ==
  ASSUME TypeInv, NEW r \in Requests, NEW s \in Schedules, NEW a \in Amounts,
         OpenRecording(r, s, a), UNCHANGED invoiceHistory
  PROVE  TypeInv'
<1> DEFINE q == [Idle EXCEPT !.pc = "record", !.row = s, !.schedule = s, !.amount = a,
                             !.seen = sched[s].received, !.old = sched[s].status]
<1>1. sched[s].status # "absent" /\ sched[s].status \in PaymentStatus /\ sched[s].received \in Nat
  BY ScheduleFacts DEF OpenRecording
<1>2. q.pc = "record" /\ q.row = s /\ q.schedule = s /\ q.old = sched[s].status
  BY DEF Idle
<1>3. q \in Request
  BY <1>1 DEF Idle, Request, SchedulePc
<1>4. req'[r] = q => RequestOK(r)'
  BY <1>1, <1>2 DEF RequestOK, OpenRecording, PaymentPc, LockingPc, ReportPc
<1>5. q.pc \notin LockingPc
  BY <1>2 DEF LockingPc
<1>6. req' = [req EXCEPT ![r] = q] /\ ops' \in 0..MaxOps /\ raced' \subseteq Schedules
  BY OpsBounded, RacedTyped DEF OpenRecording
<1>7. redecided' \subseteq Invoices /\ contested' \subseteq Invoices
  BY DEF TypeInv, InvoiceTypeOK, invoiceHistory
<1> HIDE DEF q
<1> QED
  BY <1>3, <1>4, <1>5, <1>6, <1>7, OnlyRequests DEF OpenRecording, invoiceHistory

LEMMA OpenDropType ==
  ASSUME TypeInv, NEW r \in Requests, NEW s \in Schedules,
         OpenDrop(r, s), UNCHANGED invoiceHistory
  PROVE  TypeInv'
<1> DEFINE q == [Idle EXCEPT !.pc = "drop", !.row = s, !.schedule = s]
<1>1. sched[s].status # "absent"
  BY ScheduleFacts DEF OpenDrop
<1>2. q.pc = "drop" /\ q.row = s /\ q.schedule = s
  BY DEF Idle
<1>3. q \in Request
  BY <1>1 DEF Idle, Request, SchedulePc, PaymentStatus
<1>4. req'[r] = q => RequestOK(r)'
  <2> HIDE DEF q
  <2> QED BY <1>1, <1>2 DEF RequestOK, OpenDrop, PaymentPc, LockingPc, ReportPc
<1>5. q.pc \notin LockingPc
  BY <1>2 DEF LockingPc
<1>6. req' = [req EXCEPT ![r] = q] /\ ops' \in 0..MaxOps /\ raced' \subseteq Schedules
  BY OpsBounded, RacedTyped DEF OpenDrop
<1>7. redecided' \subseteq Invoices /\ contested' \subseteq Invoices
  BY DEF TypeInv, InvoiceTypeOK, invoiceHistory
<1> HIDE DEF q
<1> QED
  BY <1>3, <1>4, <1>5, <1>6, <1>7, OnlyRequests DEF OpenDrop, invoiceHistory

LEMMA OpenReportType ==
  ASSUME TypeInv, NEW r \in Requests, NEW i \in Invoices, NEW a \in Amounts, OpenReport(r, i, a)
  PROVE  TypeInv'
<1> DEFINE q == [Idle EXCEPT !.pc = "report", !.row = i, !.amount = a]
<1>1. q.pc = "report" /\ q.row = i /\ q.schedule = NoRow
  BY DEF Idle
<1>2. q \in Request
  BY DEF Idle, Request, InvoicePc, PaymentStatus
<1>3. req'[r] = q => RequestOK(r)'
  BY <1>1 DEF RequestOK, PaymentPc, LockingPc, ReportPc
<1>4. q.pc \notin LockingPc
  BY <1>1 DEF LockingPc
<1>5. req' = [req EXCEPT ![r] = q] /\ ops' \in 0..MaxOps /\ contested' \subseteq Invoices
  BY OpsBounded, ContestedTyped DEF OpenReport
<1>6. redecided' \subseteq Invoices /\ raced' \subseteq Schedules
  BY DEF TypeInv, InvoiceTypeOK, LedgerTypeOK, OpenReport, InvoiceFrame, scheduleHistory
<1> HIDE DEF q
<1> QED
  BY <1>2, <1>3, <1>4, <1>5, <1>6, OnlyRequests DEF OpenReport, InvoiceFrame, scheduleHistory

LEMMA InvoiceFacts ==
  ASSUME TypeInv, NEW i \in Invoices
  PROVE  /\ inv[i].status \in InvoiceStatus /\ inv[i].paid \in Nat
         /\ inv[i].report.amount \in Nat /\ inv[i].report \in Report
BY DEF TypeInv, InvoiceTypeOK, LedgerTypeOK, InvoiceRow, Report

LEMMA OpenInvoiceVerificationType ==
  ASSUME TypeInv, NEW r \in Requests, NEW i \in Invoices, NEW d \in InvoiceDecisions,
         NEW a \in Amounts, OpenInvoiceVerification(r, i, d, a)
  PROVE  TypeInv'
<1> DEFINE q == [Idle EXCEPT !.pc = d, !.row = i, !.amount = a, !.seen = inv[i].report.amount]
<1>1. q.pc = d /\ q.row = i /\ q.schedule = NoRow
  BY DEF Idle
<1>2. q \in Request
  BY InvoiceFacts DEF Idle, Request, InvoicePc, PaymentStatus, InvoiceDecisions
<1>3. req'[r] = q => RequestOK(r)'
  BY <1>1 DEF RequestOK, PaymentPc, LockingPc, ReportPc, InvoiceDecisions
<1>4. q.pc \notin LockingPc
  BY <1>1 DEF LockingPc, InvoiceDecisions
<1>5. req' = [req EXCEPT ![r] = q] /\ ops' \in 0..MaxOps /\ contested' \subseteq Invoices
  BY OpsBounded, ContestedTyped DEF OpenInvoiceVerification
<1>6. redecided' \subseteq Invoices /\ raced' \subseteq Schedules
  BY DEF TypeInv, InvoiceTypeOK, LedgerTypeOK, OpenInvoiceVerification, InvoiceFrame, scheduleHistory
<1> HIDE DEF q
<1> QED
  BY <1>2, <1>3, <1>4, <1>5, <1>6, OnlyRequests
     DEF OpenInvoiceVerification, InvoiceFrame, scheduleHistory

LEMMA OpenOverdueType ==
  ASSUME TypeInv, NEW r \in Requests, OpenOverdue(r)
  PROVE  TypeInv'
<1> DEFINE found == {i \in Invoices \cap PastDue : inv[i].status = "pending"}
           q == [Idle EXCEPT !.pc = "sweep", !.swept = found]
<1>1. q.pc = "sweep" /\ q.row = NoRow /\ q.schedule = NoRow
  BY DEF Idle
<1>2. q \in Request
  BY DEF Idle, Request, InvoicePc, PaymentStatus
<1>3. req'[r] = q => RequestOK(r)'
  BY <1>1 DEF RequestOK, PaymentPc, LockingPc, ReportPc
<1>4. q.pc \notin LockingPc
  BY <1>1 DEF LockingPc
<1>5. req' = [req EXCEPT ![r] = q] /\ ops' \in 0..MaxOps
  BY OpsBounded DEF OpenOverdue
<1>6. redecided' \subseteq Invoices /\ contested' \subseteq Invoices /\ raced' \subseteq Schedules
  BY DEF TypeInv, InvoiceTypeOK, LedgerTypeOK, OpenOverdue, InvoiceFrame, scheduleHistory, invoiceHistory
<1> HIDE DEF q
<1> QED
  BY <1>2, <1>3, <1>4, <1>5, <1>6, OnlyRequests
     DEF OpenOverdue, InvoiceFrame, scheduleHistory, invoiceHistory

\* A request that fails or finds nothing to do ends.
LEMMA EndType ==
  ASSUME TypeInv, NEW r \in Requests, End(r), UNCHANGED <<sched, pay, inv, ops, scheduleHistory, invoiceHistory>>
  PROVE  TypeInv'
<1>1. req'[r] = Idle => RequestOK(r)'
  BY IdleOK
<1>2. Idle.pc \notin LockingPc
  BY IdleIsRequest DEF LockingPc
<1>3. redecided' \subseteq Invoices /\ contested' \subseteq Invoices /\ raced' \subseteq Schedules
  BY DEF TypeInv, InvoiceTypeOK, LedgerTypeOK, scheduleHistory, invoiceHistory
<1> QED
  BY <1>1, <1>2, <1>3, IdleIsRequest, OpsBounded, OnlyRequests DEF End, scheduleHistory, invoiceHistory

\* The fields of the record a request goes on with.
LEMMA FieldTypes ==
  ASSUME TypeInv, NEW r \in Requests
  PROVE  /\ req[r].amount \in Nat /\ req[r].seen \in Nat /\ req[r].paid \in Nat
         /\ req[r].swept \subseteq Invoices /\ RequestOK(r)
         /\ req[r].schedule \in Schedules \cup {NoRow}
BY DEF TypeInv, InvoiceTypeOK, LedgerTypeOK, Request

LEMMA Moved ==
  ASSUME TypeInv, NEW r \in Requests, NEW x \in SchedulePc \cup InvoicePc
  PROVE  LET q == [req[r] EXCEPT !.pc = x]
         IN  /\ q \in Request /\ q.pc = x /\ q.row = req[r].row /\ q.schedule = req[r].schedule
             /\ q.amount = req[r].amount /\ q.seen = req[r].seen /\ q.old = req[r].old
             /\ q.paid = req[r].paid
<1>1. req[r] \in Request
  BY DEF TypeInv, InvoiceTypeOK, LedgerTypeOK
<1>2. \A t \in Request : [t EXCEPT !.pc = x].pc = x /\ [t EXCEPT !.pc = x].row = t.row
                          /\ [t EXCEPT !.pc = x].schedule = t.schedule
  BY DEF Request
<1>3. \A t \in Request : [t EXCEPT !.pc = x].amount = t.amount /\ [t EXCEPT !.pc = x].old = t.old
  BY DEF Request
<1>4. \A t \in Request : [t EXCEPT !.pc = x].seen = t.seen /\ [t EXCEPT !.pc = x].paid = t.paid
  BY DEF Request
<1>5. \A t \in Request : [t EXCEPT !.pc = x] \in Request
  BY DEF Request
<1> QED
  BY <1>1, <1>2, <1>3, <1>4, <1>5

LEMMA EnterVerificationType ==
  ASSUME TypeInv, NEW r \in Requests, EnterVerification(r), UNCHANGED invoiceHistory
  PROVE  TypeInv'
<1> USE DEF EnterVerification
<1>1. PICK x \in {"lookup", "count"} : Goto(r, x)
  OBVIOUS
<1> DEFINE q == [req[r] EXCEPT !.pc = x]
<1>2. q \in Request /\ q.pc = x /\ q.row = req[r].row /\ q.schedule = req[r].schedule
  BY Moved DEF SchedulePc
<1>3. req' = [req EXCEPT ![r] = q]
  BY <1>1 DEF Goto
<1> HIDE DEF q
<1>4. req'[r] = q => RequestOK(r)'
  BY <1>2, FieldTypes DEF RequestOK, PaymentPc, LockingPc, ReportPc, Recorded
<1>5. \A t \in Requests \ {r} : req[t].pc \in LockingPc => req[t].row # q.row
  BY <1>2 DEF PaymentLocked, LockingPc
<1>6. redecided' \subseteq Invoices /\ contested' \subseteq Invoices /\ raced' \subseteq Schedules
  BY DEF TypeInv, InvoiceTypeOK, LedgerTypeOK, scheduleHistory, invoiceHistory
<1> QED
  BY <1>2, <1>3, <1>4, <1>5, <1>6, OnlyRequests, OpsBounded DEF scheduleHistory, invoiceHistory

LEMMA LookUpInvoiceType ==
  ASSUME TypeInv, NEW r \in Requests, LookUpInvoice(r), UNCHANGED invoiceHistory
  PROVE  TypeInv'
<1> USE DEF LookUpInvoice
<1> DEFINE i == InvoiceOf[req[r].schedule]
           q == IF i = NoRow THEN [req[r] EXCEPT !.pc = "commit"]
                ELSE [req[r] EXCEPT !.pc = "commit", !.old = inv[i].status, !.paid = inv[i].paid]
<1>1. req[r].schedule \in Schedules /\ RequestOK(r) /\ req[r] \in Request
  BY FieldTypes DEF RequestOK, PaymentPc, TypeInv, InvoiceTypeOK, LedgerTypeOK
<1>2. i \in Invoices => inv[i].status \in InvoiceStatus /\ inv[i].paid \in Nat
  BY InvoiceFacts
<1>3. \A t \in Request, x \in InvoiceStatus, y \in Nat :
         [t EXCEPT !.pc = "commit", !.old = x, !.paid = y] \in Request
  BY DEF Request, SchedulePc
<1>10. \A t \in Request : \A x, y :
         /\ [t EXCEPT !.pc = "commit", !.old = x, !.paid = y].pc = "commit"
         /\ [t EXCEPT !.pc = "commit", !.old = x, !.paid = y].row = t.row
         /\ [t EXCEPT !.pc = "commit", !.old = x, !.paid = y].schedule = t.schedule
         /\ [t EXCEPT !.pc = "commit", !.old = x, !.paid = y].old = x
  BY DEF Request
<1>4. "commit" \in SchedulePc \cup InvoicePc
  BY DEF SchedulePc
<1>5. q \in Request /\ q.pc = "commit" /\ q.row = req[r].row /\ q.schedule = req[r].schedule
      /\ (i = NoRow \/ q.old \in InvoiceStatus)
  <2>1. CASE i = NoRow
    BY <1>4, <2>1, Moved
  <2>2. CASE i # NoRow
    <3>1. i \in Invoices
      BY <1>1, <2>2
    <3> DEFINE x == inv[i].status
               y == inv[i].paid
               u == [req[r] EXCEPT !.pc = "commit", !.old = x, !.paid = y]
    <3>3. q = u
      BY <2>2
    <3> HIDE DEF q
    <3>2. u \in Request /\ u.pc = "commit" /\ u.row = req[r].row /\ u.schedule = req[r].schedule
          /\ u.old \in InvoiceStatus
      <4>1. x \in InvoiceStatus /\ y \in Nat
        BY <1>2, <3>1
      <4> HIDE DEF x, y
      <4>2. u \in Request
        BY <1>1, <1>3, <4>1
      <4>3. u.pc = "commit" /\ u.row = req[r].row /\ u.schedule = req[r].schedule
            /\ u.old = x
        BY <1>1, <1>10
      <4> QED BY <4>1, <4>2, <4>3
    <3> HIDE DEF u
    <3> QED BY <3>2, <3>3
  <2> QED BY <2>1, <2>2
<1>6. req' = [req EXCEPT ![r] = q]
  OBVIOUS
<1> HIDE DEF q
<1>7. req'[r] = q => RequestOK(r)'
  BY <1>1, <1>5 DEF RequestOK, PaymentPc, LockingPc, ReportPc, Recorded
<1>8. \A t \in Requests \ {r} : req[t].pc \in LockingPc => req[t].row # q.row
  BY <1>5 DEF TypeInv, LocksOK, LockingPc
<1>9. redecided' \subseteq Invoices /\ contested' \subseteq Invoices /\ raced' \subseteq Schedules
  BY DEF TypeInv, InvoiceTypeOK, LedgerTypeOK, scheduleHistory, invoiceHistory
<1> HIDE DEF i
<1> QED
  BY <1>5, <1>6, <1>7, <1>8, <1>9, OnlyRequests, OpsBounded DEF scheduleHistory, invoiceHistory

\* A request that goes on having counted or summed something up.
LEMMA Counted ==
  ASSUME TypeInv, NEW r \in Requests, NEW x \in {"revert", "sum"}, NEW n \in Nat,
         req[r].pc \in {"count", "delete"}, Recorded(req[r].row),
         \A t \in Requests \ {r} : req[t].pc \in LockingPc => req[t].row # req[r].row,
         req' = [req EXCEPT ![r].pc = x, ![r].seen = n],
         UNCHANGED <<sched, pay, inv, ops, scheduleHistory, invoiceHistory>>
  PROVE  TypeInv'
<1> DEFINE q == [req[r] EXCEPT !.pc = x, !.seen = n]
<1>1. req[r] \in Request /\ RequestOK(r)
  BY DEF TypeInv, InvoiceTypeOK, LedgerTypeOK
<1>2. \A t \in Request : [t EXCEPT !.pc = x, !.seen = n] \in Request
  BY DEF Request, SchedulePc
<1>3. \A t \in Request :
         LET u == [t EXCEPT !.pc = x, !.seen = n]
         IN  u.pc = x /\ u.row = t.row /\ u.schedule = t.schedule
  BY DEF Request
<1>4. q \in Request /\ q.pc = x /\ q.row = req[r].row /\ q.schedule = req[r].schedule
  BY <1>1, <1>2, <1>3
<1>5. req' = [req EXCEPT ![r] = q]
  OBVIOUS
<1> HIDE DEF q
<1>6. req'[r] = q => RequestOK(r)'
  BY <1>1, <1>4 DEF RequestOK, PaymentPc, LockingPc, ReportPc, Recorded
<1>7. redecided' \subseteq Invoices /\ contested' \subseteq Invoices /\ raced' \subseteq Schedules
  BY DEF TypeInv, InvoiceTypeOK, LedgerTypeOK, scheduleHistory, invoiceHistory
<1>8. ops' \in 0..MaxOps
  BY OpsBounded
<1>9. \A t \in Requests \ {r} : req[t].pc \in LockingPc => req[t].row # q.row
  BY <1>4
<1>10. UNCHANGED <<sched, pay, inv, credited, miscounted, forced, settledBy, reports, synced>>
  BY DEF scheduleHistory, invoiceHistory
<1> QED
  BY <1>4, <1>5, <1>6, <1>7, <1>8, <1>9, <1>10, OnlyRequests

LEMMA CountReportedType ==
  ASSUME TypeInv, NEW r \in Requests, CountReported(r), UNCHANGED invoiceHistory
  PROVE  TypeInv'
<1> DEFINE n == Cardinality(OthersReported(r))
<1>1. n \in Nat
  BY FS_Subset, FS_CardinalityType DEF OthersReported, PaymentsOf
<1>2. Recorded(req[r].row)
  BY FieldTypes DEF CountReported, RequestOK, LockingPc
<1>3. \A t \in Requests \ {r} : req[t].pc \in LockingPc => req[t].row # req[r].row
  BY DEF TypeInv, LocksOK, LockingPc, CountReported
<1>4. req' = [req EXCEPT ![r].pc = "revert", ![r].seen = n] /\ req[r].pc = "count"
  BY DEF CountReported
<1> HIDE DEF n
<1> QED
  BY <1>1, <1>2, <1>3, <1>4, Counted DEF CountReported

LEMMA AmountTyped == ASSUME TypeInv, NEW P \in SUBSET Payments PROVE AmountOf(P) \in Nat
<1>1. \A p \in Payments : pay[p].amount \in Nat
  BY DEF TypeInv, InvoiceTypeOK, LedgerTypeOK, PaymentRow
<1> QED
  BY <1>1, AmountAdded, AddedFacts

LEMMA SumRemainingType ==
  ASSUME TypeInv, NEW r \in Requests, SumRemaining(r), UNCHANGED invoiceHistory
  PROVE  TypeInv'
<1> DEFINE n == AmountOf(Remaining(r))
<1>1. n \in Nat
  BY AmountTyped DEF Remaining, PaymentsOf
<1>3. \A t \in Requests \ {r} : req[t].pc \in LockingPc => req[t].row # req[r].row
  BY DEF SumRemaining, PaymentLocked, LockingPc
<1>4. req' = [req EXCEPT ![r].pc = "sum", ![r].seen = n] /\ req[r].pc = "delete"
  BY DEF SumRemaining
<1> HIDE DEF n
<1> QED
  BY <1>1, <1>3, <1>4, Counted DEF SumRemaining

LEMMA SyncPaymentToScheduleType ==
  ASSUME TypeInv, NEW r \in Requests, SyncPaymentToSchedule(r)
  PROVE  TypeInv'
<1>1. CASE End(r) /\ UNCHANGED raced
  BY <1>1, EndType DEF SyncPaymentToSchedule, scheduleHistory
<1>2. CASE \E s \in OpenSchedules(req[r].row) :
             /\ req' = [req EXCEPT ![r].pc = "credit", ![r].schedule = s,
                                   ![r].seen = sched[s].received]
             /\ Touch(s, r)
  <2>1. req[r] \in Request /\ req[r].row \in Invoices /\ req[r].pc = "sync"
    BY FieldTypes DEF SyncPaymentToSchedule, RequestOK, ReportPc, TypeInv, InvoiceTypeOK, LedgerTypeOK
  <2>2. PICK s \in OpenSchedules(req[r].row) :
             /\ req' = [req EXCEPT ![r].pc = "credit", ![r].schedule = s,
                                   ![r].seen = sched[s].received]
             /\ Touch(s, r)
    BY <1>2
  <2>3. s \in Schedules /\ sched[s].status # "absent"
    BY <2>1 DEF OpenSchedules
  <2> DEFINE n == sched[s].received
             q == [req[r] EXCEPT !.pc = "credit", !.schedule = s, !.seen = n]
  <2>4. n \in Nat /\ raced' \subseteq Schedules
    BY <2>2, <2>3, ScheduleFacts, RacedTyped
  <2>5. \A t \in Request, m \in Nat :
           [t EXCEPT !.pc = "credit", !.schedule = s, !.seen = m] \in Request
    BY <2>3 DEF Request, InvoicePc
  <2>6. \A t \in Request, m \in Nat :
           LET u == [t EXCEPT !.pc = "credit", !.schedule = s, !.seen = m]
           IN  u.pc = "credit" /\ u.row = t.row /\ u.schedule = s
    BY DEF Request
  <2>7. q \in Request /\ q.pc = "credit" /\ q.row = req[r].row /\ q.schedule = s
    BY <2>1, <2>4, <2>5, <2>6
  <2>8. req' = [req EXCEPT ![r] = q]
    BY <2>2
  <2> HIDE DEF q
  <2>9. req'[r] = q => RequestOK(r)'
    BY <2>1, <2>3, <2>7 DEF RequestOK, PaymentPc, LockingPc, ReportPc, SyncPaymentToSchedule
  <2>10. redecided' \subseteq Invoices /\ contested' \subseteq Invoices /\ q.pc \notin LockingPc
    BY <2>7 DEF TypeInv, InvoiceTypeOK, SyncPaymentToSchedule, invoiceHistory, LockingPc
  <2> QED
    BY <2>4, <2>7, <2>8, <2>9, <2>10, OnlyRequests, OpsBounded
       DEF SyncPaymentToSchedule, invoiceHistory
<1> QED
  BY <1>1, <1>2 DEF SyncPaymentToSchedule

-----------------------------------------------------------------------------
(* What the writing steps write *)

LEMMA Ended ==
  ASSUME TypeInv, NEW r \in Requests, End(r)
  PROVE  /\ req' \in [Requests -> Request] /\ req'[r] = Idle /\ RequestOK(r)'
         /\ req'[r].pc \notin LockingPc
         /\ \A t \in Requests : t # r => req'[t] = req[t]
<1>1. /\ req' \in [Requests -> Request] /\ req'[r] = Idle
      /\ \A t \in Requests : t # r => req'[t] = req[t]
  BY IdleIsRequest, Becomes DEF End, TypeInv, InvoiceTypeOK
<1> QED
  BY <1>1, IdleOK, IdleIsRequest DEF LockingPc

LEMMA StatusForTyped ==
  ASSUME NEW s, NEW x, NEW y \in PaymentStatus
  PROVE  StatusFor(s, x, y) \in PaymentStatus
BY DEF StatusFor, PaymentStatus

\* A schedule gets another status and the others stay.
StatusSet(s, x) ==
    /\ sched'[s].status = x /\ sched'[s].received = sched[s].received
    /\ \A t \in Schedules : t # s => sched'[t] = sched[t]

LEMMA StatusTyped ==
  ASSUME TypeInv, NEW s \in Schedules, NEW x \in PaymentStatus \cup {"deleted"},
         sched' = [sched EXCEPT ![s].status = x]
  PROVE  sched' \in [Schedules -> ScheduleRow] /\ StatusSet(s, x)
BY DEF TypeInv, InvoiceTypeOK, LedgerTypeOK, StatusSet, ScheduleRow

LEMMA ReceiveTyped ==
  ASSUME TypeInv, NEW s \in Schedules, NEW n \in Nat, NEW y \in PaymentStatus, Receive(s, n, y)
  PROVE  /\ sched' \in [Schedules -> ScheduleRow]
         /\ sched'[s].status = StatusFor(s, n, y) /\ sched'[s].received = n
         /\ StatusFor(s, n, y) \in PaymentStatus
         /\ \A t \in Schedules : t # s => sched'[t] = sched[t]
BY StatusForTyped DEF TypeInv, InvoiceTypeOK, LedgerTypeOK, Receive, ScheduleRow

\* A new payment is written and the others stay.
Made(p, s, n, y) ==
    /\ pay[p].status = "absent"
    /\ pay'[p].status = y /\ pay'[p].schedule = s /\ pay'[p].amount = n
    /\ \A t \in Payments : t # p => pay'[t] = pay[t]

LEMMA PaymentMade ==
  ASSUME TypeInv, NEW s \in Schedules, NEW n \in Nat, NEW y \in ContractPaymentStatus,
         \E p \in NewPayment : AddPayment(p, s, n, y)
  PROVE  pay' \in [Payments -> PaymentRow] /\ \E p \in Payments : Made(p, s, n, y)
<1>1. PICK p \in NewPayment : AddPayment(p, s, n, y)
  OBVIOUS
<1>2. p \in Payments /\ pay[p].status = "absent"
  BY DEF NewPayment
<1>3. pay' \in [Payments -> PaymentRow]
  BY <1>1, <1>2 DEF AddPayment, TypeInv, InvoiceTypeOK, LedgerTypeOK, PaymentRow
<1>4. Made(p, s, n, y)
  BY <1>1, <1>2 DEF AddPayment, TypeInv, InvoiceTypeOK, LedgerTypeOK, Made
<1> QED
  BY <1>2, <1>3, <1>4

\* The payment a request is about gets a decision, and its amount.
DecidedRow(r, d) ==
    LET p == req[r].row
    IN  /\ pay'[p].status = d /\ pay'[p].schedule = pay[p].schedule
        /\ pay'[p].amount = req[r].amount
        /\ \A t \in Payments : t # p => pay'[t] = pay[t]

LEMMA PaymentDecided ==
  ASSUME TypeInv, NEW r \in Requests, NEW d \in ContractPaymentStatus,
         req[r].row \in Payments, Decided(r, d)
  PROVE  pay' \in [Payments -> PaymentRow] /\ DecidedRow(r, d)
<1> DEFINE p == req[r].row
           n == req[r].amount
<1>1. n \in Nat /\ p \in Payments
  BY FieldTypes
<1>2. pay' = [pay EXCEPT ![p].status = d, ![p].amount = n]
  BY DEF Decided
<1>3. pay' \in [Payments -> PaymentRow]
  <2> HIDE DEF p, n
  <2>1. \A t \in Payments : t # p => pay'[t] = pay[t]
    BY <1>1, <1>2 DEF TypeInv, InvoiceTypeOK, LedgerTypeOK
  <2>2. pay'[p] = [pay[p] EXCEPT !.status = d, !.amount = n]
    BY <1>1, <1>2 DEF TypeInv, InvoiceTypeOK, LedgerTypeOK
  <2>3. \A t \in PaymentRow : [t EXCEPT !.status = d, !.amount = n] \in PaymentRow
    BY <1>1 DEF PaymentRow
  <2>6. \A t \in Payments : pay[t] \in PaymentRow
    BY DEF TypeInv, InvoiceTypeOK, LedgerTypeOK
  <2>7. pay'[p] \in PaymentRow
    BY <1>1, <2>2, <2>3, <2>6
  <2>4. \A t \in Payments : pay'[t] \in PaymentRow
    BY <2>1, <2>6, <2>7
  <2>5. pay' = [t \in Payments |-> pay'[t]]
    BY <1>2 DEF TypeInv, InvoiceTypeOK, LedgerTypeOK
  <2> QED BY <2>4, <2>5
<1>4. /\ pay'[p].status = d /\ pay'[p].schedule = pay[p].schedule /\ pay'[p].amount = n
      /\ \A t \in Payments : t # p => pay'[t] = pay[t]
  <2> HIDE DEF p, n
  <2> QED BY <1>1, <1>2 DEF TypeInv, InvoiceTypeOK, LedgerTypeOK, PaymentRow
<1> QED
  BY <1>3, <1>4 DEF DecidedRow

\* Types of a step that writes no invoice.
LEMMA LedgerWrite ==
  ASSUME TypeInv, UNCHANGED <<inv, invoiceHistory>>, ops' \in 0..MaxOps,
         sched' \in [Schedules -> ScheduleRow], pay' \in [Payments -> PaymentRow],
         req' \in [Requests -> Request], credited' \in [Schedules -> Nat],
         raced' \subseteq Schedules, miscounted' \subseteq Schedules, forced' \subseteq Schedules
  PROVE  InvoiceTypeOK'
BY DEF TypeInv, InvoiceTypeOK, LedgerTypeOK, invoiceHistory

\* Payments recorded keep an existing schedule.
LEMMA RowsKept ==
  ASSUME TypeInv, RowsStay,
         \A s \in Schedules : Exists(s) => Exists(s)',
         \A s \in Schedules : sched'[s].status = "absent" =>
            sched'[s] = sched[s] /\ credited'[s] = credited[s],
         \A p \in Payments : Recorded(p)' =>
            \/ Recorded(p)
            \/ pay'[p].schedule \in Schedules /\ Exists(pay[p].schedule)'
  PROVE  RowsOK'
<1>1. ASSUME NEW p \in Payments, Recorded(p)' 
      PROVE  pay'[p].schedule \in Schedules /\ Exists(pay[p].schedule)'
  <2>1. CASE Recorded(p)
    <3>1. pay'[p].schedule = pay[p].schedule /\ pay[p].schedule \in Schedules /\ Exists(pay[p].schedule)
      BY <2>1, RecordedFacts DEF RowsStay
    <3>2. Exists(pay[p].schedule)'
      BY <3>1 DEF Exists
    <3> QED BY <3>1, <3>2
  <2> QED BY <1>1, <2>1
<1>2. \A s \in Schedules : sched'[s].status = "absent" => sched'[s].received = 0 /\ credited'[s] = 0
  BY DEF TypeInv, RowsOK
<1> QED
  BY <1>1, <1>2 DEF RowsOK

\* No schedule goes away, and those yet to be made stay as they are.
SchedulesStay ==
    \A s \in Schedules :
        /\ Exists(s) => sched'[s].status \notin {"absent", "deleted"}
        /\ sched[s].status # "absent" => sched'[s].status # "absent"
        /\ sched'[s].status = "absent" => sched'[s] = sched[s] /\ credited'[s] = credited[s]

LEMMA OneSchedule ==
  ASSUME TypeInv, NEW s \in Schedules, Exists(s), sched'[s].status \in PaymentStatus,
         \A t \in Schedules : t # s => sched'[t] = sched[t] /\ credited'[t] = credited[t]
  PROVE  SchedulesStay
BY DEF SchedulesStay, Exists, PaymentStatus

LEMMA MadeRows ==
  ASSUME TypeInv, NEW s \in Schedules, Exists(s), NEW p \in Payments, NEW n,
         NEW y \in ContractPaymentStatus, Made(p, s, n, y), SchedulesStay
  PROVE  RowsStay /\ RowsOK' /\ \A t \in Requests : LockKept(t)
<1>1. RowsStay
  BY DEF RowsStay, Made, SchedulesStay
<1>2. \A t \in Payments : Recorded(t) => t # p
  BY DEF Made, Recorded, ContractPaymentStatus
<1>3. \A t \in Payments : Recorded(t)' => 
         Recorded(t) \/ pay'[t].schedule = s
  <2>1. pay'[p].schedule = s /\ \A t \in Payments : t # p => pay'[t] = pay[t]
    BY DEF Made
  <2> QED BY <2>1 DEF Recorded
<1>4. RowsOK'
  <2>1. \A t \in Payments : Recorded(t)' => pay'[t].schedule \in Schedules 
           /\ sched'[pay'[t].schedule].status \notin {"absent", "deleted"}
    BY <1>1, <1>3, RecordedFacts DEF SchedulesStay, RowsStay
  <2>2. \A t \in Schedules : sched'[t].status = "absent" => sched'[t].received = 0 /\ credited'[t] = 0
    BY DEF TypeInv, RowsOK, SchedulesStay
  <2> QED BY <2>1, <2>2 DEF RowsOK, Exists
<1>5. ASSUME NEW t \in Requests, req[t].pc \in LockingPc
      PROVE  pay'[req[t].row].status \in ContractPaymentStatus
  <2>1. req[t].row \in Payments /\ Recorded(req[t].row)
    BY <1>5, FieldTypes DEF RequestOK, LockingPc, PaymentPc
  <2> QED BY <1>2, <2>1 DEF Recorded, Made
<1> QED
  BY <1>1, <1>4, <1>5 DEF LockKept

LEMMA DecidedRows ==
  ASSUME TypeInv, NEW r \in Requests, NEW d \in ContractPaymentStatus,
         req[r].row \in Payments, Recorded(req[r].row), DecidedRow(r, d), SchedulesStay
  PROVE  RowsStay /\ RowsOK' /\ \A t \in Requests : LockKept(t)
<1>1. RowsStay
  BY DEF RowsStay, DecidedRow, SchedulesStay, ContractPaymentStatus
<1>2. \A t \in Payments : Recorded(t)' => Recorded(t)
  BY DEF DecidedRow, Recorded
<1>3. RowsOK'
  <2>1. \A t \in Payments : Recorded(t)' => pay'[t].schedule \in Schedules 
           /\ sched'[pay'[t].schedule].status \notin {"absent", "deleted"}
    BY <1>1, <1>2, RecordedFacts DEF SchedulesStay, RowsStay
  <2>2. \A t \in Schedules : sched'[t].status = "absent" => sched'[t].received = 0 /\ credited'[t] = 0
    BY DEF TypeInv, RowsOK, SchedulesStay
  <2> QED BY <2>1, <2>2 DEF RowsOK, Exists
<1>4. ASSUME NEW t \in Requests, req[t].pc \in LockingPc
      PROVE  pay'[req[t].row].status \in ContractPaymentStatus
  <2>1. req[t].row \in Payments /\ Recorded(req[t].row)
    BY <1>4, FieldTypes DEF RequestOK, LockingPc, PaymentPc
  <2> QED BY <2>1 DEF Recorded, DecidedRow
<1> QED
  BY <1>1, <1>3, <1>4 DEF LockKept

\* Payments that a step on schedules leaves alone.
LEMMA PaymentsLeft ==
  ASSUME TypeInv, pay' = pay, SchedulesStay
  PROVE  RowsStay /\ RowsOK' /\ \A t \in Requests : LockKept(t)
<1>1. RowsStay
  BY DEF RowsStay, SchedulesStay
<1>3. RowsOK'
  <2>1. \A t \in Payments : Recorded(t)' => pay'[t].schedule \in Schedules 
           /\ sched'[pay'[t].schedule].status \notin {"absent", "deleted"}
    BY RecordedFacts DEF SchedulesStay, Recorded
  <2>2. \A t \in Schedules : sched'[t].status = "absent" => sched'[t].received = 0 /\ credited'[t] = 0
    BY DEF TypeInv, RowsOK, SchedulesStay
  <2> QED BY <2>1, <2>2 DEF RowsOK, Exists
<1>4. \A t \in Requests : LockKept(t)
  BY FieldTypes DEF RequestOK, LockKept, Recorded
<1> QED
  BY <1>1, <1>3, <1>4

LEMMA EndedWrite ==
  ASSUME TypeInv, InvoiceTypeOK', NEW r \in Requests, End(r), RowsStay, RowsOK',
         \A t \in Requests \ {r} : LockKept(t)
  PROVE  TypeInv'
BY Ended, TypeKept

-----------------------------------------------------------------------------
(* Types are kept: the steps that write schedules and payments *)

LEMMA ReportPaymentType ==
  ASSUME TypeInv, NEW s \in Schedules, NEW a \in Amounts, ReportPayment(s, a), UNCHANGED invoiceHistory
  PROVE  TypeInv' /\ pay' \in [Payments -> PaymentRow] /\ StatusSet(s, "reported")
         /\ \E p \in Payments : Made(p, s, a, "reported")
<1> USE DEF ReportPayment
<1>1. sched' \in [Schedules -> ScheduleRow] /\ StatusSet(s, "reported")
  BY StatusTyped DEF PaymentStatus
<1>2. pay' \in [Payments -> PaymentRow] /\ \E p \in Payments : Made(p, s, a, "reported")
  BY PaymentMade DEF ContractPaymentStatus
<1>3. SchedulesStay
  BY <1>1, OneSchedule DEF StatusSet, PaymentStatus
<1>4. PICK p \in Payments : Made(p, s, a, "reported")
  BY <1>2
<1>5. RowsStay /\ RowsOK' /\ \A t \in Requests : LockKept(t)
  BY <1>3, <1>4, MadeRows DEF ContractPaymentStatus
<1>6. InvoiceTypeOK'
  BY <1>1, <1>2, LedgerWrite, OpsBounded, RacedTyped DEF TypeInv, InvoiceTypeOK, LedgerTypeOK
<1> QED
  BY <1>1, <1>2, <1>5, <1>6, TypeKeptByOthers

LEMMA KeepReportedType ==
  ASSUME TypeInv, NEW r \in Requests, KeepReported(r), UNCHANGED invoiceHistory
  PROVE  TypeInv' /\ DecidedRow(r, "reported")
<1> USE DEF KeepReported
<1>1. req[r].row \in Payments /\ req[r].schedule \in Schedules
  BY FieldTypes DEF RequestOK, PaymentPc
<1>2. pay' \in [Payments -> PaymentRow] /\ DecidedRow(r, "reported")
  BY <1>1, PaymentDecided DEF ContractPaymentStatus
<1>3. SchedulesStay
  BY DEF SchedulesStay, Exists
<1>4. RowsStay /\ RowsOK' /\ \A t \in Requests : LockKept(t)
  BY <1>1, <1>2, <1>3, DecidedRows DEF ContractPaymentStatus
<1>5. InvoiceTypeOK'
  BY <1>1, <1>2, LedgerWrite, OpsBounded, RacedTyped, Ended DEF TypeInv, InvoiceTypeOK, LedgerTypeOK
<1> QED
  BY <1>2, <1>4, <1>5, EndedWrite

LEMMA RejectPaymentType ==
  ASSUME TypeInv, NEW r \in Requests, RejectPayment(r), UNCHANGED invoiceHistory
  PROVE  TypeInv' /\ DecidedRow(r, "rejected")
<1> USE DEF RejectPayment
<1>1. req[r].row \in Payments /\ req[r].schedule \in Schedules /\ Recorded(req[r].row)
      /\ pay[req[r].row].schedule = req[r].schedule
  BY FieldTypes DEF RequestOK, PaymentPc, LockingPc
<1>2. pay' \in [Payments -> PaymentRow] /\ DecidedRow(r, "rejected")
  BY <1>1, PaymentDecided DEF ContractPaymentStatus
<1>3. SchedulesStay /\ sched' \in [Schedules -> ScheduleRow]
  <2>1. CASE UNCHANGED sched
    BY <2>1 DEF SchedulesStay, Exists, TypeInv, InvoiceTypeOK, LedgerTypeOK
  <2>2. CASE sched' = [sched EXCEPT ![req[r].schedule].status = DueStatus(req[r].schedule)]
    <3>1. DueStatus(req[r].schedule) \in PaymentStatus
      BY DEF DueStatus, PaymentStatus
    <3>2. Exists(req[r].schedule)
      BY <1>1, RecordedFacts
    <3> DEFINE s == req[r].schedule
    <3>3. sched' \in [Schedules -> ScheduleRow] /\ StatusSet(s, DueStatus(s))
      BY <1>1, <2>2, <3>1, StatusTyped
    <3> HIDE DEF s
    <3>4. SchedulesStay
      BY <1>1, <3>1, <3>2, <3>3, OneSchedule DEF StatusSet, s
    <3> QED BY <3>3, <3>4
  <2> QED BY <2>1, <2>2
<1>4. RowsStay /\ RowsOK' /\ \A t \in Requests : LockKept(t)
  BY <1>1, <1>2, <1>3, DecidedRows DEF ContractPaymentStatus
<1>5. InvoiceTypeOK'
  BY <1>1, <1>2, <1>3, LedgerWrite, OpsBounded, RacedTyped, Ended DEF TypeInv, InvoiceTypeOK, LedgerTypeOK
<1> QED
  BY <1>2, <1>4, <1>5, EndedWrite

\* A schedule gets an amount, and a status by it, and the others stay.
Received(s, n, y) ==
    /\ sched'[s].status = StatusFor(s, n, y) /\ sched'[s].received = n
    /\ \A t \in Schedules : t # s => sched'[t] = sched[t]

LEMMA RecordPaymentType ==
  ASSUME TypeInv, NEW r \in Requests, RecordPayment(r), UNCHANGED invoiceHistory
  PROVE  LET s == req[r].schedule
         IN  /\ TypeInv' /\ Received(s, req[r].seen + req[r].amount, req[r].old)
             /\ \E p \in Payments : Made(p, s, req[r].amount, "confirmed")
<1> DEFINE s == req[r].schedule
           n == req[r].seen + req[r].amount
           m == req[r].amount
<1>1. s \in Schedules /\ req[r].old \in PaymentStatus /\ n \in Nat /\ m \in Nat
  BY FieldTypes DEF RecordPayment, RequestOK
<1>2. /\ Exists(s) /\ Receive(s, n, req[r].old) /\ Touch(s, r) /\ End(r)
      /\ \E p \in NewPayment : AddPayment(p, s, m, "confirmed")
      /\ UNCHANGED <<inv, ops, credited, miscounted, forced>>
  BY DEF RecordPayment
<1> HIDE DEF s, n, m
<1>3. sched' \in [Schedules -> ScheduleRow] /\ Received(s, n, req[r].old)
      /\ StatusFor(s, n, req[r].old) \in PaymentStatus
  BY <1>1, <1>2, ReceiveTyped DEF Received
<1>4. pay' \in [Payments -> PaymentRow] /\ \E p \in Payments : Made(p, s, m, "confirmed")
  BY <1>1, <1>2, PaymentMade DEF ContractPaymentStatus
<1>5. SchedulesStay
  BY <1>1, <1>2, <1>3, OneSchedule DEF Received
<1>6. PICK p \in Payments : Made(p, s, m, "confirmed")
  BY <1>4
<1>7. RowsStay /\ RowsOK' /\ \A t \in Requests : LockKept(t)
  BY <1>1, <1>2, <1>5, <1>6, MadeRows DEF ContractPaymentStatus
<1>8. ops' \in 0..MaxOps /\ raced' \subseteq Schedules /\ req' \in [Requests -> Request]
  BY <1>1, <1>2, OpsBounded, RacedTyped, Ended
<1>9. InvoiceTypeOK'
  BY <1>2, <1>3, <1>4, <1>8, LedgerWrite DEF TypeInv, InvoiceTypeOK, LedgerTypeOK
<1> QED
  BY <1>2, <1>3, <1>4, <1>7, <1>9, EndedWrite DEF s, n, m

LEMMA CreditFromInvoiceType ==
  ASSUME TypeInv, NEW r \in Requests, CreditFromInvoice(r)
  PROVE  LET s == req[r].schedule
         IN  /\ TypeInv' /\ Received(s, req[r].seen + req[r].amount, "pending")
             /\ \E p \in Payments : Made(p, s, req[r].amount, "confirmed")
<1> DEFINE s == req[r].schedule
           n == req[r].seen + req[r].amount
           m == req[r].amount
<1>1. s \in Schedules /\ n \in Nat /\ m \in Nat /\ "pending" \in PaymentStatus
      /\ req[r].row \in Invoices
  BY FieldTypes DEF CreditFromInvoice, RequestOK, PaymentStatus, ReportPc
<1>2. /\ Exists(s) /\ Receive(s, n, "pending") /\ Touch(s, r) /\ End(r)
      /\ \E p \in NewPayment : AddPayment(p, s, m, "confirmed")
      /\ UNCHANGED <<inv, ops, credited, miscounted, forced, settledBy, reports, redecided, contested>>
      /\ synced' = [synced EXCEPT ![req[r].row] = @ + 1]
  BY DEF CreditFromInvoice, AfterCredit, End
<1> HIDE DEF s, n, m
<1>3. sched' \in [Schedules -> ScheduleRow] /\ Received(s, n, "pending")
      /\ StatusFor(s, n, "pending") \in PaymentStatus
  BY <1>1, <1>2, ReceiveTyped DEF Received
<1>4. pay' \in [Payments -> PaymentRow] /\ \E p \in Payments : Made(p, s, m, "confirmed")
  BY <1>1, <1>2, PaymentMade DEF ContractPaymentStatus
<1>5. SchedulesStay
  BY <1>1, <1>2, <1>3, OneSchedule DEF Received
<1>6. PICK p \in Payments : Made(p, s, m, "confirmed")
  BY <1>4
<1>7. RowsStay /\ RowsOK' /\ \A t \in Requests : LockKept(t)
  BY <1>1, <1>2, <1>5, <1>6, MadeRows DEF ContractPaymentStatus
<1>8. raced' \subseteq Schedules /\ req' \in [Requests -> Request]
  BY <1>1, <1>2, RacedTyped, Ended
<1>10. synced' \in [Invoices -> Nat]
  BY <1>1, <1>2 DEF TypeInv, InvoiceTypeOK
<1>9. InvoiceTypeOK'
  BY <1>2, <1>3, <1>4, <1>8, <1>10 DEF TypeInv, InvoiceTypeOK, LedgerTypeOK
<1> QED
  BY <1>2, <1>3, <1>4, <1>7, <1>9, EndedWrite DEF s, n, m

LEMMA CreateScheduleType ==
  ASSUME TypeInv, NEW s \in Schedules, CreateSchedule(s), UNCHANGED invoiceHistory
  PROVE  TypeInv' /\ StatusSet(s, "pending")
<1> USE DEF CreateSchedule
<1>1. sched' \in [Schedules -> ScheduleRow] /\ StatusSet(s, "pending")
  BY StatusTyped DEF PaymentStatus
<1>2. SchedulesStay
  BY <1>1 DEF SchedulesStay, StatusSet, scheduleHistory, Exists
<1>3. InvoiceTypeOK'
  BY <1>1, LedgerWrite, OpsBounded DEF TypeInv, InvoiceTypeOK, LedgerTypeOK, scheduleHistory
<1>4. RowsStay /\ RowsOK' /\ \A t \in Requests : LockKept(t)
  BY <1>2, PaymentsLeft
<1> QED
  BY <1>1, <1>3, <1>4, TypeKeptByOthers

LEMMA UpdateScheduleType ==
  ASSUME TypeInv, NEW s \in Schedules, NEW y \in PaymentStatus, UpdateSchedule(s, y),
         UNCHANGED invoiceHistory
  PROVE  TypeInv' /\ StatusSet(s, y)
<1> USE DEF UpdateSchedule
<1>1. sched' \in [Schedules -> ScheduleRow] /\ StatusSet(s, y)
  BY StatusTyped
<1>2. SchedulesStay
  BY <1>1, OneSchedule DEF StatusSet
<1>3. InvoiceTypeOK'
  BY <1>1, LedgerWrite, OpsBounded, RacedTyped DEF TypeInv, InvoiceTypeOK, LedgerTypeOK
<1>4. RowsStay /\ RowsOK' /\ \A t \in Requests : LockKept(t)
  BY <1>2, PaymentsLeft
<1> QED
  BY <1>1, <1>3, <1>4, TypeKeptByOthers

LEMMA CreditByWebhookType ==
  ASSUME TypeInv, NEW s \in Schedules, NEW a \in Amounts, CreditByWebhook(s, a),
         UNCHANGED invoiceHistory
  PROVE  /\ TypeInv' /\ sched'[s].received = sched[s].received + a
         /\ sched'[s].status \in {"paid", "partial"}
         /\ \A t \in Schedules : t # s => sched'[t] = sched[t]
         /\ credited' = [credited EXCEPT ![s] = credited[s] + a]
<1> USE DEF CreditByWebhook
<1>1. a \in Nat /\ sched[s].received \in Nat /\ credited[s] \in Nat
  BY ScheduleFacts
<1>2. /\ sched'[s].received = sched[s].received + a
      /\ sched'[s].status \in {"paid", "partial"}
      /\ \A t \in Schedules : t # s => sched'[t] = sched[t]
  BY DEF TypeInv, InvoiceTypeOK, LedgerTypeOK
<1>3. sched' \in [Schedules -> ScheduleRow]
  BY <1>1 DEF TypeInv, InvoiceTypeOK, LedgerTypeOK, ScheduleRow, PaymentStatus
<1>4. credited' \in [Schedules -> Nat] /\ credited' = [credited EXCEPT ![s] = credited[s] + a]
  BY <1>1 DEF TypeInv, InvoiceTypeOK, LedgerTypeOK
<1>5. SchedulesStay
  BY <1>2, <1>4, OneSchedule DEF PaymentStatus, TypeInv, InvoiceTypeOK, LedgerTypeOK
<1>6. InvoiceTypeOK'
  BY <1>3, <1>4, LedgerWrite, OpsBounded, RacedTyped DEF TypeInv, InvoiceTypeOK, LedgerTypeOK
<1>7. RowsStay /\ RowsOK' /\ \A t \in Requests : LockKept(t)
  BY <1>5, PaymentsLeft
<1> QED
  BY <1>2, <1>4, <1>6, <1>7, TypeKeptByOthers

\* The payment a request is about is deleted and the others stay.
DeletedRow(r) ==
    /\ pay'[req[r].row].status = "deleted" /\ pay'[req[r].row].schedule = pay[req[r].row].schedule
    /\ \A p \in Payments : p # req[r].row => pay'[p] = pay[p]

LEMMA DeletePaymentType ==
  ASSUME TypeInv, NEW r \in Requests, DeletePayment(r), UNCHANGED invoiceHistory
  PROVE  LET s == req[r].schedule
         IN  TypeInv' /\ Received(s, req[r].seen, DueStatus(s)) /\ DeletedRow(r)
<1> DEFINE s == req[r].schedule
           p == req[r].row
           n == req[r].seen
<1>1. /\ s \in Schedules /\ n \in Nat /\ DueStatus(s) \in PaymentStatus
      /\ p \in Payments /\ pay[p].schedule = s /\ Recorded(p) /\ req[r].pc = "sum"
  BY FieldTypes DEF DeletePayment, RequestOK, PaymentStatus, PaymentPc, LockingPc, DueStatus
<1>2. /\ Receive(s, n, DueStatus(s)) /\ Touch(s, r) /\ End(r)
      /\ pay' = [pay EXCEPT ![p].status = "deleted"]
      /\ UNCHANGED <<inv, ops, credited, forced>>
      /\ miscounted' \in {miscounted, miscounted \cup {s}}
  BY DEF DeletePayment
<1> HIDE DEF s, n, p
<1>3. sched' \in [Schedules -> ScheduleRow] /\ Received(s, n, DueStatus(s))
      /\ StatusFor(s, n, DueStatus(s)) \in PaymentStatus
  BY <1>1, <1>2, ReceiveTyped DEF Received
<1>4. pay' \in [Payments -> PaymentRow]
  BY <1>1, <1>2 DEF TypeInv, InvoiceTypeOK, LedgerTypeOK, PaymentRow
<1>5. /\ pay'[p].status = "deleted" /\ pay'[p].schedule = pay[p].schedule
      /\ \A t \in Payments : t # p => pay'[t] = pay[t]
  BY <1>1, <1>2 DEF TypeInv, InvoiceTypeOK, LedgerTypeOK
<1>6. Exists(s)
  BY <1>1, RecordedFacts
<1>7. SchedulesStay
  BY <1>1, <1>2, <1>3, <1>6, OneSchedule DEF Received
<1>8. RowsStay
  BY <1>5, <1>7 DEF RowsStay, SchedulesStay
<1>9. RowsOK'
  <2>1. \A t \in Payments : Recorded(t)' => Recorded(t)
    BY <1>5 DEF Recorded, ContractPaymentStatus
  <2>2. \A t \in Payments : Recorded(t)' => pay'[t].schedule \in Schedules 
           /\ sched'[pay'[t].schedule].status \notin {"absent", "deleted"}
    BY <1>8, <2>1, RecordedFacts, <1>7 DEF SchedulesStay, RowsStay
  <2>3. \A t \in Schedules : sched'[t].status = "absent" => sched'[t].received = 0 /\ credited'[t] = 0
    BY <1>7 DEF TypeInv, RowsOK, SchedulesStay
  <2> QED BY <2>2, <2>3 DEF RowsOK, Exists
<1>10. \A t \in Requests \ {r} : LockKept(t)
  <2> SUFFICES ASSUME NEW t \in Requests \ {r}, req[t].pc \in LockingPc
               PROVE  pay'[req[t].row].status \in ContractPaymentStatus
    BY DEF LockKept
  <2>1. req[t].row \in Payments /\ Recorded(req[t].row)
    BY FieldTypes DEF RequestOK, LockingPc, PaymentPc
  <2>2. req[t].row # p
    BY <1>1 DEF TypeInv, LocksOK, LockingPc, p
  <2> QED BY <1>5, <2>1, <2>2 DEF Recorded
<1>11. ops' \in 0..MaxOps /\ raced' \subseteq Schedules /\ req' \in [Requests -> Request]
       /\ miscounted' \subseteq Schedules
  BY <1>1, <1>2, OpsBounded, RacedTyped, Ended DEF TypeInv, InvoiceTypeOK, LedgerTypeOK
<1>12. InvoiceTypeOK'
  BY <1>2, <1>3, <1>4, <1>11, LedgerWrite DEF TypeInv, InvoiceTypeOK, LedgerTypeOK
<1>13. DeletedRow(r)
  BY <1>5 DEF DeletedRow, p
<1> QED
  BY <1>2, <1>3, <1>8, <1>9, <1>10, <1>12, <1>13, EndedWrite DEF s, n

LEMMA DeleteScheduleType ==
  ASSUME TypeInv, NEW r \in Requests, DeleteSchedule(r), UNCHANGED invoiceHistory
  PROVE  /\ TypeInv' /\ StatusSet(req[r].schedule, "deleted")
         /\ \A p \in Payments : pay'[p] =
              IF p \in PaymentsOf(req[r].schedule) THEN [pay[p] EXCEPT !.status = "deleted"] ELSE pay[p]
<1> DEFINE s == req[r].schedule
<1>1. s \in Schedules
  BY FieldTypes DEF DeleteSchedule, RequestOK
<1>2. /\ Exists(s) /\ Touch(s, r) /\ End(r)
      /\ \A p \in PaymentsOf(s) : ~PaymentLocked(p)
      /\ sched' = [sched EXCEPT ![s].status = "deleted"]
      /\ pay' = [p \in Payments |->
                     IF p \in PaymentsOf(s) THEN [pay[p] EXCEPT !.status = "deleted"]
                     ELSE pay[p]]
      /\ UNCHANGED <<inv, ops, credited, miscounted, forced>>
  BY DEF DeleteSchedule
<1> HIDE DEF s
<1>3. sched' \in [Schedules -> ScheduleRow] /\ StatusSet(s, "deleted")
  BY <1>1, <1>2, StatusTyped
<1>4. \A p \in Payments : pay[p] \in PaymentRow
  BY DEF TypeInv, InvoiceTypeOK, LedgerTypeOK
<1>5. \A q \in PaymentRow : /\ [q EXCEPT !.status = "deleted"] \in PaymentRow
                            /\ [q EXCEPT !.status = "deleted"].status = "deleted"
                            /\ [q EXCEPT !.status = "deleted"].schedule = q.schedule
  BY DEF PaymentRow
<1>6. pay' \in [Payments -> PaymentRow]
  <2>1. \A p \in Payments : pay'[p] \in PaymentRow
    BY <1>2, <1>4, <1>5
  <2>2. pay' = [p \in Payments |-> pay'[p]]
    BY <1>2
  <2> QED BY <2>1, <2>2
<1>7. /\ \A p \in PaymentsOf(s) : pay'[p].status = "deleted" /\ pay'[p].schedule = pay[p].schedule
      /\ \A p \in Payments \ PaymentsOf(s) : pay'[p] = pay[p]
  BY <1>2, <1>4, <1>5 DEF PaymentsOf
<1>8. RowsStay
  BY <1>3, <1>7 DEF RowsStay, StatusSet
<1>9. RowsOK'
  <2>1. \A t \in Payments : Recorded(t)' => Recorded(t) /\ t \notin PaymentsOf(s)
    BY <1>7 DEF Recorded, ContractPaymentStatus
  <2>2. \A t \in Payments : Recorded(t)' => pay'[t].schedule \in Schedules 
           /\ sched'[pay'[t].schedule].status \notin {"absent", "deleted"}
    BY <1>3, <1>7, <2>1, RecordedFacts DEF StatusSet, PaymentsOf, Exists
  <2>3. \A t \in Schedules : sched'[t].status = "absent" => sched'[t].received = 0 /\ credited'[t] = 0
    BY <1>2, <1>3 DEF TypeInv, RowsOK, StatusSet
  <2> QED BY <2>2, <2>3 DEF RowsOK, Exists
<1>10. \A t \in Requests \ {r} : LockKept(t)
  <2> SUFFICES ASSUME NEW t \in Requests \ {r}, req[t].pc \in LockingPc
               PROVE  pay'[req[t].row].status \in ContractPaymentStatus
    BY DEF LockKept
  <2>1. req[t].row \in Payments /\ Recorded(req[t].row)
    BY FieldTypes DEF RequestOK, LockingPc, PaymentPc
  <2>2. req[t].row \notin PaymentsOf(s)
    BY <1>2 DEF PaymentLocked, LockingPc
  <2> QED BY <1>7, <2>1, <2>2 DEF Recorded
<1>11. ops' \in 0..MaxOps /\ raced' \subseteq Schedules /\ req' \in [Requests -> Request]
  BY <1>1, <1>2, OpsBounded, RacedTyped, Ended DEF TypeInv, InvoiceTypeOK, LedgerTypeOK
<1>12. InvoiceTypeOK'
  BY <1>2, <1>3, <1>6, <1>11, LedgerWrite DEF TypeInv, InvoiceTypeOK, LedgerTypeOK
<1>13. TypeInv'
  BY <1>2, <1>8, <1>9, <1>10, <1>12, EndedWrite
<1> QED
  BY <1>2, <1>3, <1>13 DEF s

LEMMA RestartType ==
  ASSUME TypeInv, Restart, UNCHANGED invoiceHistory
  PROVE  /\ TypeInv' /\ \A r \in Requests : req'[r] = Idle
         /\ \A s \in Schedules : /\ sched'[s].received = sched[s].received
                                 /\ sched'[s].status \in {sched[s].status, "overdue"}
                                 /\ sched'[s].status # sched[s].status => sched[s].status = "pending"
<1> USE DEF Restart, MarkOverdue, scheduleHistory
<1>1. \A s \in Schedules : sched[s] \in ScheduleRow
  BY DEF TypeInv, InvoiceTypeOK, LedgerTypeOK
<1>2. \A q \in ScheduleRow : /\ [q EXCEPT !.status = "overdue"] \in ScheduleRow
                             /\ [q EXCEPT !.status = "overdue"].status = "overdue"
                             /\ [q EXCEPT !.status = "overdue"].received = q.received
  BY DEF ScheduleRow, PaymentStatus
<1>3. sched' \in [Schedules -> ScheduleRow]
  <2>1. \A s \in Schedules : sched'[s] \in ScheduleRow
    BY <1>1, <1>2
  <2>2. sched' = [s \in Schedules |-> sched'[s]]
    OBVIOUS
  <2> QED BY <2>1, <2>2
<1>4. \A s \in Schedules :
        /\ sched'[s].received = sched[s].received
        /\ sched'[s].status \in {sched[s].status, "overdue"}
        /\ sched'[s].status # sched[s].status => sched[s].status = "pending"
        /\ sched'[s].status = "absent" => sched'[s] = sched[s]
  BY <1>1, <1>2
<1>5. SchedulesStay
  BY <1>4 DEF SchedulesStay, Exists
<1>6. RowsStay /\ RowsOK'
  BY <1>5, PaymentsLeft
<1>7. req' \in [Requests -> Request] /\ \A r \in Requests : req'[r] = Idle
  BY IdleIsRequest
<1>8. InvoiceTypeOK'
  BY <1>3, <1>7, OpsBounded, LedgerWrite DEF TypeInv, InvoiceTypeOK, LedgerTypeOK
<1>9. \A r \in Requests : RequestOK(r)'
  BY <1>7, IdleOK
<1>10. LocksOK'
  BY <1>7, IdleIsRequest DEF LocksOK, LockingPc
<1> QED
  BY <1>4, <1>6, <1>7, <1>8, <1>9, <1>10 DEF TypeInv

\* An invoice gets a status and an amount and the others stay.
LEMMA PaidTyped ==
  ASSUME TypeInv, NEW i \in Invoices, NEW x \in InvoiceStatus, NEW n \in Nat,
         \/ inv' = [inv EXCEPT ![i].paid = n, ![i].status = x]
         \/ inv' = [inv EXCEPT ![i].status = x, ![i].paid = n]
  PROVE  /\ inv' \in [Invoices -> InvoiceRow]
         /\ inv'[i].status = x /\ inv'[i].report = inv[i].report
         /\ \A j \in Invoices : j # i => inv'[j] = inv[j]
<1>0. inv \in [Invoices -> InvoiceRow]
  BY DEF TypeInv, InvoiceTypeOK, LedgerTypeOK
<1>1. CASE inv' = [inv EXCEPT ![i].paid = n, ![i].status = x]
  <2>1. inv' \in [Invoices -> InvoiceRow]
    BY <1>0, <1>1 DEF InvoiceRow
  <2>2. inv'[i].status = x /\ inv'[i].report = inv[i].report /\ \A j \in Invoices : j # i => inv'[j] = inv[j]
    BY <1>0, <1>1 DEF InvoiceRow
  <2> QED BY <2>1, <2>2
<1>2. CASE inv' = [inv EXCEPT ![i].status = x, ![i].paid = n]
  <2>1. inv' \in [Invoices -> InvoiceRow]
    BY <1>0, <1>2 DEF InvoiceRow
  <2>2. inv'[i].status = x /\ inv'[i].report = inv[i].report /\ \A j \in Invoices : j # i => inv'[j] = inv[j]
    BY <1>0, <1>2 DEF InvoiceRow
  <2> QED BY <2>1, <2>2
<1> QED BY <1>1, <1>2

LEMMA ConfirmWithInvoiceType ==
  ASSUME TypeInv, NEW r \in Requests, ConfirmWithInvoice(r)
  PROVE  LET s == req[r].schedule
             i == InvoiceOf[req[r].schedule]
         IN  /\ TypeInv' /\ Received(s, req[r].seen + req[r].amount, "pending")
             /\ DecidedRow(r, "confirmed")
             /\ i = NoRow => UNCHANGED <<inv, settledBy, contested>>
             /\ i # NoRow =>
                  /\ i \in Invoices /\ settledBy' = [settledBy EXCEPT ![i] = "schedule"]
                  /\ inv'[i].status = InvoiceStatusFor(i, req[r].old, PaidWith(r))
                  /\ inv'[i].report = inv[i].report
                  /\ \A j \in Invoices : j # i => inv'[j] = inv[j]
                  /\ Contest(i, r)
<1> DEFINE s == req[r].schedule
           i == InvoiceOf[req[r].schedule]
           n == req[r].seen + req[r].amount
<1>1. /\ s \in Schedules /\ n \in Nat /\ "pending" \in PaymentStatus /\ PaidWith(r) \in Nat
      /\ req[r].row \in Payments /\ Recorded(req[r].row) /\ req[r].pc = "commit"
      /\ pay[req[r].row].schedule = s /\ (req[r].old \in InvoiceStatus \/ i = NoRow)
  BY FieldTypes DEF ConfirmWithInvoice, ConfirmPayment, RequestOK, PaymentStatus, PaymentPc,
     LockingPc, PaidWith
<1>2. /\ Receive(s, n, "pending") /\ Touch(s, r) /\ End(r) /\ Decided(r, "confirmed")
      /\ UNCHANGED <<ops, credited, miscounted, forced, reports, synced, redecided>>
  BY DEF ConfirmWithInvoice, ConfirmPayment
<1>3. i = NoRow => UNCHANGED <<inv, settledBy, contested>>
  BY DEF ConfirmWithInvoice, ConfirmPayment, SyncInvoice
<1>4. i # NoRow =>
         /\ i \in Invoices /\ settledBy' = [settledBy EXCEPT ![i] = "schedule"] /\ Contest(i, r)
         /\ inv' = [inv EXCEPT ![i].paid = PaidWith(r),
                               ![i].status = InvoiceStatusFor(i, req[r].old, PaidWith(r))]
  BY <1>1 DEF ConfirmWithInvoice, ConfirmPayment, SyncInvoice
<1>5. i # NoRow => InvoiceStatusFor(i, req[r].old, PaidWith(r)) \in InvoiceStatus
  BY <1>1 DEF InvoiceStatusFor, InvoiceStatus
<1> HIDE DEF s, i, n
<1>6. i # NoRow => /\ inv' \in [Invoices -> InvoiceRow]
                   /\ inv'[i].status = InvoiceStatusFor(i, req[r].old, PaidWith(r))
                   /\ inv'[i].report = inv[i].report
                   /\ \A j \in Invoices : j # i => inv'[j] = inv[j]
  BY <1>1, <1>4, <1>5, PaidTyped
<1>7. inv' \in [Invoices -> InvoiceRow] /\ contested' \subseteq Invoices
      /\ settledBy' \in [Invoices -> {"none", "verification", "schedule", "webhook", "hand"}]
  BY <1>3, <1>4, <1>6, ContestedTyped DEF TypeInv, InvoiceTypeOK, LedgerTypeOK
<1>8. sched' \in [Schedules -> ScheduleRow] /\ Received(s, n, "pending")
      /\ StatusFor(s, n, "pending") \in PaymentStatus
  BY <1>1, <1>2, ReceiveTyped DEF Received
<1>9. pay' \in [Payments -> PaymentRow] /\ DecidedRow(r, "confirmed")
  BY <1>1, <1>2, PaymentDecided DEF ContractPaymentStatus
<1>10. Exists(s)
  BY <1>1, RecordedFacts
<1>11. SchedulesStay
  BY <1>1, <1>2, <1>8, <1>10, OneSchedule DEF Received
<1>12. RowsStay /\ RowsOK' /\ \A t \in Requests : LockKept(t)
  BY <1>1, <1>9, <1>11, DecidedRows DEF ContractPaymentStatus
<1>13. raced' \subseteq Schedules /\ req' \in [Requests -> Request]
  BY <1>1, <1>2, RacedTyped, Ended
<1>14. InvoiceTypeOK'
  BY <1>2, <1>7, <1>8, <1>9, <1>13 DEF TypeInv, InvoiceTypeOK, LedgerTypeOK
<1>15. TypeInv'
  BY <1>2, <1>12, <1>14, EndedWrite
<1> QED
  BY <1>3, <1>4, <1>6, <1>8, <1>9, <1>15 DEF s, i, n

-----------------------------------------------------------------------------
(* Types are kept: the steps on invoices *)

\* Types of a step that writes no schedule and no payment.
LEMMA InvoiceWrite ==
  ASSUME TypeInv, InvoiceFrame, ops' \in 0..MaxOps, inv' \in [Invoices -> InvoiceRow],
         req' \in [Requests -> Request], 
         settledBy' \in [Invoices -> {"none", "verification", "schedule", "webhook", "hand"}],
         reports' \in [Invoices -> Nat], synced' \in [Invoices -> Nat],
         redecided' \subseteq Invoices, contested' \subseteq Invoices
  PROVE  InvoiceTypeOK' /\ RowsStay /\ RowsOK' /\ \A t \in Requests : LockKept(t)
<1>1. InvoiceTypeOK'
  BY DEF TypeInv, InvoiceTypeOK, LedgerTypeOK, InvoiceFrame, scheduleHistory
<1>2. RowsStay /\ RowsOK' /\ \A t \in Requests : LockKept(t)
  BY RowsLeft DEF InvoiceFrame, scheduleHistory
<1> QED
  BY <1>1, <1>2

\* The report of an invoice is replaced.
LEMMA ReportTyped ==
  ASSUME TypeInv, NEW i \in Invoices, NEW x \in Report, inv' = [inv EXCEPT ![i].report = x]
  PROVE  /\ inv' \in [Invoices -> InvoiceRow]
         /\ inv'[i].status = inv[i].status /\ inv'[i].report = x
         /\ \A j \in Invoices : j # i => inv'[j] = inv[j]
BY DEF TypeInv, InvoiceTypeOK, LedgerTypeOK, InvoiceRow

LEMMA ReportOnInvoiceType ==
  ASSUME TypeInv, NEW r \in Requests, ReportOnInvoice(r)
  PROVE  LET i == req[r].row
         IN  /\ TypeInv' /\ i \in Invoices
             /\ inv'[i].status = inv[i].status /\ inv'[i].report.decision = "open"
             /\ \A j \in Invoices : j # i => inv'[j] = inv[j]
<1> USE DEF ReportOnInvoice
<1> DEFINE i == req[r].row
           x == [decision |-> "open", amount |-> req[r].amount]
<1>1. i \in Invoices /\ x \in Report
  BY FieldTypes DEF RequestOK, ReportPc, Report
<1>2. inv' = [inv EXCEPT ![i].report = x] /\ Contest(i, r)
  OBVIOUS
<1>3. x.decision = "open"
  OBVIOUS
<1> HIDE DEF i, x
<1>4. /\ inv' \in [Invoices -> InvoiceRow]
      /\ inv'[i].status = inv[i].status /\ inv'[i].report.decision = "open"
      /\ \A j \in Invoices : j # i => inv'[j] = inv[j]
  BY <1>1, <1>2, <1>3, ReportTyped
<1>5. reports' \in [Invoices -> Nat]
  BY <1>1 DEF i, TypeInv, InvoiceTypeOK
<1>6. InvoiceTypeOK' /\ RowsStay /\ RowsOK' /\ \A t \in Requests : LockKept(t)
  BY <1>1, <1>2, <1>4, <1>5, InvoiceWrite, OpsBounded, ContestedTyped, Ended DEF TypeInv, InvoiceTypeOK
<1>7. TypeInv'
  BY <1>6, EndedWrite
<1> QED
  BY <1>1, <1>4, <1>7 DEF i

LEMMA RejectOnInvoiceType ==
  ASSUME TypeInv, NEW r \in Requests, RejectOnInvoice(r)
  PROVE  LET i == req[r].row
         IN  /\ TypeInv' /\ i \in Invoices
             /\ inv'[i].status = inv[i].status /\ inv'[i].report.decision = "rejected"
             /\ \A j \in Invoices : j # i => inv'[j] = inv[j]
<1> USE DEF RejectOnInvoice
<1> DEFINE i == req[r].row
           x == [decision |-> "rejected", amount |-> req[r].seen]
<1>1. i \in Invoices /\ x \in Report
  BY FieldTypes DEF RequestOK, ReportPc, Report
<1>2. inv' = [inv EXCEPT ![i].report = x] /\ Contest(i, r)
  OBVIOUS
<1>3. x.decision = "rejected"
  OBVIOUS
<1> HIDE DEF i, x
<1>4. /\ inv' \in [Invoices -> InvoiceRow]
      /\ inv'[i].status = inv[i].status /\ inv'[i].report.decision = "rejected"
      /\ \A j \in Invoices : j # i => inv'[j] = inv[j]
  BY <1>1, <1>2, <1>3, ReportTyped
<1>6. InvoiceTypeOK' /\ RowsStay /\ RowsOK' /\ \A t \in Requests : LockKept(t)
  BY <1>1, <1>2, <1>4, InvoiceWrite, OpsBounded, ContestedTyped, Ended DEF TypeInv, InvoiceTypeOK
<1>7. TypeInv'
  BY <1>6, EndedWrite
<1> QED
  BY <1>1, <1>4, <1>7 DEF i

LEMMA ConfirmOnInvoiceType ==
  ASSUME TypeInv, NEW r \in Requests, ConfirmOnInvoice(r)
  PROVE  LET i == req[r].row
         IN  /\ TypeInv' /\ i \in Invoices /\ settledBy'[i] = "verification"
             /\ req'[r].pc = "sync" /\ req'[r].row = i /\ req'[r].schedule = req[r].schedule
             /\ \A t \in Requests : t # r => req'[t] = req[t]
             /\ inv'[i].status = "paid" /\ inv'[i].report.decision = "confirmed"
             /\ \A j \in Invoices : j # i => inv'[j] = inv[j] /\ settledBy'[j] = settledBy[j]
<1> DEFINE i == req[r].row
           x == ConfirmedInvoice(r)
           q == [req[r] EXCEPT !.pc = "sync"]
<1>1. i \in Invoices /\ RequestOK(r)
  BY FieldTypes DEF RequestOK, ReportPc, ConfirmOnInvoice
<1>2. x \in InvoiceRow
  BY FieldTypes DEF Report, InvoiceRow, ConfirmedInvoice, InvoiceStatus
<1>3. x.status = "paid" /\ x.report.decision = "confirmed"
  BY DEF ConfirmedInvoice
<1>4. q \in Request /\ q.pc = "sync" /\ q.row = i /\ q.schedule = req[r].schedule
  <2>1. \A t \in Request : [t EXCEPT !.pc = "sync"] \in Request
    BY DEF Request, InvoicePc
  <2>2. \A t \in Request : [t EXCEPT !.pc = "sync"].pc = "sync" /\ [t EXCEPT !.pc = "sync"].row = t.row
                          /\ [t EXCEPT !.pc = "sync"].schedule = t.schedule
    BY DEF Request
  <2>3. req[r] \in Request
    BY DEF TypeInv, InvoiceTypeOK, LedgerTypeOK
  <2> QED BY <2>1, <2>2, <2>3
<1>5. inv' = [inv EXCEPT ![i] = x]
  BY DEF ConfirmOnInvoice
<1>6. req' = [req EXCEPT ![r] = q]
  BY DEF Goto, ConfirmOnInvoice
<1>7. settledBy' = [settledBy EXCEPT ![i] = "verification"] /\ Contest(i, r)
  BY DEF ConfirmOnInvoice
<1> HIDE DEF i, x, q
<1>8. inv' \in [Invoices -> InvoiceRow] /\ inv'[i] = x /\ \A j \in Invoices : j # i => inv'[j] = inv[j]
  BY <1>1, <1>2, <1>5 DEF TypeInv, InvoiceTypeOK, LedgerTypeOK
<1>9. /\ settledBy' \in [Invoices -> {"none", "verification", "schedule", "webhook", "hand"}]
      /\ settledBy'[i] = "verification" /\ \A j \in Invoices : j # i => settledBy'[j] = settledBy[j]
  BY <1>1, <1>7 DEF TypeInv, InvoiceTypeOK
<1>10. /\ req' \in [Requests -> Request] /\ req'[r] = q
       /\ \A t \in Requests : t # r => req'[t] = req[t]
  BY <1>4, <1>6, Becomes DEF TypeInv, InvoiceTypeOK
<1>11. InvoiceTypeOK' /\ RowsStay /\ RowsOK' /\ \A t \in Requests : LockKept(t)
  BY <1>1, <1>7, <1>8, <1>9, <1>10, InvoiceWrite, OpsBounded, ContestedTyped
     DEF ConfirmOnInvoice, TypeInv, InvoiceTypeOK
<1>12. RequestOK(r)'
  BY <1>1, <1>4, <1>10 DEF i, RequestOK, PaymentPc, LockingPc, ReportPc, ConfirmOnInvoice, InvoiceFrame
<1>13. TypeInv'
  BY <1>4, <1>10, <1>11, <1>12, TypeKept DEF LockingPc
<1> QED
  BY <1>1, <1>3, <1>4, <1>8, <1>9, <1>10, <1>13 DEF i

LEMMA UpdateInvoiceType ==
  ASSUME TypeInv, NEW i \in Invoices, NEW x \in InvoiceStatus \cup {NoRow},
         NEW a \in Amounts \cup {NoRow}, UpdateInvoice(i, x, a)
  PROVE  /\ TypeInv' /\ inv'[i].report = inv[i].report
         /\ \/ settledBy'[i] = "hand"
            \/ inv'[i].status = inv[i].status /\ settledBy'[i] = settledBy[i]
         /\ \A j \in Invoices : j # i => inv'[j] = inv[j] /\ settledBy'[j] = settledBy[j]
<1> DEFINE st == IF x = NoRow THEN inv[i].status ELSE x
           n == IF a # NoRow THEN a ELSE IF x = "paid" THEN Total[i] ELSE inv[i].paid
           by == IF x = NoRow THEN settledBy[i] ELSE "hand"
<1>1. n \in Nat /\ st \in InvoiceStatus
  BY InvoiceFacts
<1>2. inv' = [inv EXCEPT ![i].status = st, ![i].paid = n] /\ settledBy' = [settledBy EXCEPT ![i] = by]
  BY DEF UpdateInvoice, TypeInv, InvoiceTypeOK, LedgerTypeOK
<1>7. by = "hand" \/ (st = inv[i].status /\ by = settledBy[i])
  OBVIOUS
<1> HIDE DEF n, st, by
<1>3. /\ inv' \in [Invoices -> InvoiceRow] /\ inv'[i].status = st /\ inv'[i].report = inv[i].report
      /\ \A j \in Invoices : j # i => inv'[j] = inv[j]
  BY <1>1, <1>2, PaidTyped
<1>4. /\ settledBy' \in [Invoices -> {"none", "verification", "schedule", "webhook", "hand"}]
      /\ settledBy'[i] = by /\ \A j \in Invoices : j # i => settledBy'[j] = settledBy[j]
  BY <1>2, <1>7 DEF TypeInv, InvoiceTypeOK
<1>5. InvoiceTypeOK' /\ RowsStay /\ RowsOK' /\ \A t \in Requests : LockKept(t)
  BY <1>3, <1>4, InvoiceWrite, OpsBounded, ContestedTyped
     DEF UpdateInvoice, TypeInv, InvoiceTypeOK, LedgerTypeOK
<1> QED
  BY <1>3, <1>4, <1>5, <1>7, TypeKeptByOthers DEF UpdateInvoice

LEMMA SettleByWebhookType ==
  ASSUME TypeInv, NEW i \in Invoices, NEW a \in Amounts, SettleByWebhook(i, a)
  PROVE  /\ TypeInv' /\ settledBy'[i] = "webhook"
         /\ inv'[i].status = "paid" /\ inv'[i].report = inv[i].report
         /\ \A j \in Invoices : j # i => inv'[j] = inv[j] /\ settledBy'[j] = settledBy[j]
<1>1. a \in Nat /\ "paid" \in InvoiceStatus
  BY DEF InvoiceStatus
<1>2. inv' = [inv EXCEPT ![i].status = "paid", ![i].paid = a]
  BY DEF SettleByWebhook
<1>3. /\ inv' \in [Invoices -> InvoiceRow] /\ inv'[i].status = "paid" /\ inv'[i].report = inv[i].report
      /\ \A j \in Invoices : j # i => inv'[j] = inv[j]
  BY <1>1, <1>2, PaidTyped
<1>4. /\ settledBy' \in [Invoices -> {"none", "verification", "schedule", "webhook", "hand"}]
      /\ settledBy'[i] = "webhook" /\ \A j \in Invoices : j # i => settledBy'[j] = settledBy[j]
  BY DEF SettleByWebhook, TypeInv, InvoiceTypeOK
<1>5. InvoiceTypeOK' /\ RowsStay /\ RowsOK' /\ \A t \in Requests : LockKept(t)
  BY <1>3, <1>4, InvoiceWrite, OpsBounded, ContestedTyped
     DEF SettleByWebhook, TypeInv, InvoiceTypeOK, LedgerTypeOK
<1> QED
  BY <1>3, <1>4, <1>5, TypeKeptByOthers DEF SettleByWebhook

LEMMA MarkInvoicesOverdueType ==
  ASSUME TypeInv, NEW r \in Requests, MarkInvoicesOverdue(r)
  PROVE  /\ TypeInv'
         /\ \A i \in Invoices : /\ inv'[i].status = IF i \in req[r].swept THEN "overdue" ELSE inv[i].status
                                /\ inv'[i].report = inv[i].report
<1> USE DEF MarkInvoicesOverdue, invoiceHistory
<1>1. \A i \in Invoices : inv[i] \in InvoiceRow
  BY DEF TypeInv, InvoiceTypeOK, LedgerTypeOK
<1>2. \A t \in InvoiceRow : /\ [t EXCEPT !.status = "overdue"] \in InvoiceRow
                            /\ [t EXCEPT !.status = "overdue"].status = "overdue"
                            /\ [t EXCEPT !.status = "overdue"].report = t.report
  BY DEF InvoiceRow, InvoiceStatus
<1>3. \A i \in Invoices : /\ inv'[i] \in InvoiceRow
                          /\ inv'[i].status = IF i \in req[r].swept THEN "overdue" ELSE inv[i].status
                          /\ inv'[i].report = inv[i].report
  BY <1>1, <1>2
<1>4. inv' = [i \in Invoices |-> inv'[i]]
  OBVIOUS
<1>5. InvoiceTypeOK' /\ RowsStay /\ RowsOK' /\ \A t \in Requests : LockKept(t)
  BY <1>3, <1>4, InvoiceWrite, OpsBounded, Ended DEF TypeInv, InvoiceTypeOK
<1>6. TypeInv'
  BY <1>5, EndedWrite
<1> QED
  BY <1>3, <1>6

-----------------------------------------------------------------------------
(* Types are kept: the next-state relation *)

LEMMA TypeStep == TypeInv /\ [LedgerNext]_invoiceVars => TypeInv'
<1> SUFFICES ASSUME TypeInv, [LedgerNext]_invoiceVars PROVE TypeInv'
  OBVIOUS
<1>1. ASSUME NEW i \in Invoices, NEW x \in InvoiceStatus \cup {NoRow},
             NEW a \in Amounts \cup {NoRow}, UpdateInvoice(i, x, a)
      PROVE  TypeInv'
  BY <1>1, UpdateInvoiceType
<1>2. ASSUME NEW i \in Invoices, NEW a \in Amounts, SettleByWebhook(i, a) PROVE TypeInv'
  BY <1>2, SettleByWebhookType
<1>3. ASSUME NEW r \in Requests, NEW i \in Invoices, NEW a \in Amounts, OpenReport(r, i, a)
      PROVE  TypeInv'
  BY <1>3, OpenReportType
<1>4. ASSUME NEW r \in Requests, NEW i \in Invoices, NEW a \in Amounts, NEW d \in InvoiceDecisions,
             OpenInvoiceVerification(r, i, d, a)
      PROVE  TypeInv'
  BY <1>4, OpenInvoiceVerificationType
<1>5. ASSUME NEW r \in Requests,
             \/ ReportOnInvoice(r) \/ ConfirmOnInvoice(r) \/ RejectOnInvoice(r)
             \/ SyncPaymentToSchedule(r) \/ CreditFromInvoice(r) \/ FailCredit(r)
             \/ OpenOverdue(r) \/ MarkInvoicesOverdue(r) \/ ConfirmWithInvoice(r)
      PROVE  TypeInv'
  <2>1. CASE FailCredit(r)
    BY <2>1, EndType DEF FailCredit
  <2> QED
    BY <1>5, <2>1, ReportOnInvoiceType, ConfirmOnInvoiceType, RejectOnInvoiceType,
       SyncPaymentToScheduleType, CreditFromInvoiceType, OpenOverdueType,
       MarkInvoicesOverdueType, ConfirmWithInvoiceType
<1>6. ASSUME NEW s \in Schedules, NEW a \in Amounts, ReportPayment(s, a) \/ CreditByWebhook(s, a),
             UNCHANGED invoiceHistory
      PROVE  TypeInv'
  BY <1>6, ReportPaymentType, CreditByWebhookType
<1>7. ASSUME NEW s \in Schedules, UNCHANGED invoiceHistory,
             CreateSchedule(s) \/ \E x \in PaymentStatus : UpdateSchedule(s, x)
      PROVE  TypeInv'
  BY <1>7, CreateScheduleType, UpdateScheduleType
<1>8. ASSUME NEW r \in Requests, NEW p \in Payments, NEW d \in Decisions, NEW a \in Amounts,
             OpenVerification(r, p, d, a), UNCHANGED invoiceHistory
      PROVE  TypeInv'
  BY <1>8, OpenVerificationType
<1>9. ASSUME NEW r \in Requests, NEW p \in Payments, OpenDeletion(r, p), UNCHANGED invoiceHistory
      PROVE  TypeInv'
  BY <1>9, OpenDeletionType
<1>10. ASSUME NEW r \in Requests, NEW s \in Schedules, NEW a \in Amounts,
              OpenRecording(r, s, a), UNCHANGED invoiceHistory
       PROVE  TypeInv'
  BY <1>10, OpenRecordingType
<1>11. ASSUME NEW r \in Requests, NEW s \in Schedules, OpenDrop(r, s), UNCHANGED invoiceHistory
       PROVE  TypeInv'
  BY <1>11, OpenDropType
<1>12. ASSUME NEW r \in Requests, UNCHANGED invoiceHistory,
              \/ EnterVerification(r) \/ LookUpInvoice(r) \/ CountReported(r)
              \/ RejectPayment(r) \/ KeepReported(r) \/ RecordPayment(r)
              \/ SumRemaining(r) \/ DeletePayment(r) \/ DeleteSchedule(r) \/ FailRequest(r)
       PROVE  TypeInv'
  <2>1. CASE FailRequest(r)
    BY <1>12, <2>1, EndType DEF FailRequest
  <2> QED
    BY <1>12, <2>1, EnterVerificationType, LookUpInvoiceType, CountReportedType,
       RejectPaymentType, KeepReportedType, RecordPaymentType,
       SumRemainingType, DeletePaymentType, DeleteScheduleType
<1>13. CASE Restart /\ UNCHANGED invoiceHistory
  BY <1>13, RestartType
<1>14. CASE UNCHANGED invoiceVars
  BY <1>14 DEF invoiceVars, scheduleVars, scheduleHistory, invoiceHistory, TypeInv, InvoiceTypeOK,
     LedgerTypeOK, RowsOK, LocksOK, RequestOK, Exists, Recorded
<1>15. CASE \/ \E i \in Invoices :
                 \/ \E status \in InvoiceStatus \cup {NoRow}, a \in Amounts \cup {NoRow} :
                      UpdateInvoice(i, status, a)
                 \/ \E a \in Amounts : SettleByWebhook(i, a)
            \/ \E r \in Requests :
                 \/ \E i \in Invoices, a \in Amounts :
                      \/ OpenReport(r, i, a)
                      \/ \E d \in InvoiceDecisions : OpenInvoiceVerification(r, i, d, a)
                 \/ ReportOnInvoice(r) \/ ConfirmOnInvoice(r) \/ RejectOnInvoice(r)
                 \/ SyncPaymentToSchedule(r) \/ CreditFromInvoice(r) \/ FailCredit(r)
                 \/ OpenOverdue(r) \/ MarkInvoicesOverdue(r)
                 \/ ConfirmWithInvoice(r)
  BY <1>15, <1>1, <1>2, <1>3, <1>4, <1>5
<1> QED
  BY <1>6, <1>7, <1>8, <1>9, <1>10, <1>11, <1>12, <1>13, <1>14, <1>15 DEF LedgerNext

\* The variables, the rows and the requests' records have their types, whatever
\* the requests and webhooks do in whatever order.
THEOREM LedgerTyped == LedgerSpec => []InvoiceTypeOK
<1>1. LedgerSpec => []TypeInv
  BY TypeInit, TypeStep, PTL DEF LedgerSpec
<1>2. TypeInv => InvoiceTypeOK
  BY DEF TypeInv
<1> QED
  BY <1>1, <1>2, PTL

-----------------------------------------------------------------------------
(* Schedules: sums of payments that a step leaves alone *)

LEMMA NothingAdded ==
  ASSUME NEW row, \A p \in Payments : row[p].amount \in Nat
  PROVE  Added(row, {}) = 0
<1>1. PICK g :
         AddsUp(g, [p \in Payments |-> row[p].amount], Payments) /\ \A Q \in SUBSET Payments : Added(row, Q) = g[Q]
  BY PaymentSums
<1>2. g[{}] = 0
  BY <1>1 DEF AddsUp
<1> QED
  BY <1>1, <1>2

\* The recorded payments of a schedule are the same after the step.
PaymentsSame(s) ==
    /\ PaymentsOf(s)' = PaymentsOf(s)
    /\ \A p \in PaymentsOf(s) : pay'[p] = pay[p]

LEMMA AmountsTyped ==
  TypeInv => \A p \in Payments : pay[p].amount \in Nat
BY DEF TypeInv, InvoiceTypeOK, LedgerTypeOK, PaymentRow

LEMMA AmountsTypedNext ==
  TypeInv' => \A p \in Payments : pay'[p].amount \in Nat
BY DEF TypeInv, InvoiceTypeOK, LedgerTypeOK, PaymentRow

LEMMA SumSame ==
  ASSUME TypeInv, TypeInv', NEW P \in SUBSET Payments, \A p \in P : pay'[p] = pay[p]
  PROVE  Added(pay', P) = AmountOf(P)
<1>1. \A p \in Payments : pay[p].amount \in Nat /\ pay'[p].amount \in Nat
  BY AmountsTyped, AmountsTypedNext
<1>2. Added(pay', P) = Added(pay, P)
  BY <1>1, AddedSame
<1> QED
  BY <1>2, AmountAdded

LEMMA ConfirmedSame ==
  ASSUME TypeInv, TypeInv', NEW s \in Schedules, PaymentsSame(s)
  PROVE  Confirmed(s)' = Confirmed(s) /\ AmountOf(Confirmed(s))' = AmountOf(Confirmed(s))
<1>1. Confirmed(s)' = Confirmed(s)
  BY DEF Confirmed, PaymentsSame
<1>2. Confirmed(s) \in SUBSET Payments /\ \A p \in Confirmed(s) : pay'[p] = pay[p]
  BY DEF Confirmed, PaymentsOf, PaymentsSame
<1>3. Added(pay', Confirmed(s)) = AmountOf(Confirmed(s))
  BY <1>2, SumSame
<1>4. AmountOf(Confirmed(s))' = Added(pay', Confirmed(s)')
  BY AmountAdded
<1> QED
  BY <1>1, <1>3, <1>4

\* The requests that have the schedule in hand had it before, and read it so.
HandSame(s) == \A t \in Requests : req'[t].schedule = s => req'[t] = req[t]

\* History only grows.
HistoryKept ==
    raced \subseteq raced' /\ miscounted \subseteq miscounted' /\ forced \subseteq forced'

\* What a request knows of a schedule that a step leaves alone.
LEMMA CurrentKept ==
  ASSUME TypeInv, TypeInv', NEW s \in Schedules, NEW r \in Requests,
         sched'[s] = sched[s], PaymentsSame(s), req'[r] = req[r], req[r].schedule = s, Current(r)
  PROVE  Current(r)'
<1> DEFINE q == req[r]
<1>1. q.pc \in {"confirm", "lookup", "commit", "reject", "count", "revert", "keep"} =>
         pay'[q.row].status = "reported"
  <2> SUFFICES ASSUME q.pc \in {"confirm", "lookup", "commit", "reject", "count", "revert", "keep"}
               PROVE  pay'[q.row].status = "reported"
    OBVIOUS
  <2>1. q.row \in Payments /\ pay[q.row].schedule = s /\ pay[q.row].status = "reported"
    BY FieldTypes DEF RequestOK, PaymentPc, Current
  <2>2. q.row \in PaymentsOf(s)
    BY <2>1 DEF PaymentsOf, Recorded, ContractPaymentStatus
  <2> QED BY <2>1, <2>2 DEF PaymentsSame
<1>2. OthersReported(r)' = OthersReported(r)
  BY DEF OthersReported, PaymentsSame
<1>3. Remaining(r)' = Remaining(r) /\ AmountOf(Remaining(r))' = AmountOf(Remaining(r))
  <2>1. Remaining(r)' = Remaining(r)
    BY DEF Remaining, PaymentsSame
  <2>2. Remaining(r) \in SUBSET Payments /\ \A p \in Remaining(r) : pay'[p] = pay[p]
    BY DEF Remaining, PaymentsOf, PaymentsSame
  <2>3. Added(pay', Remaining(r)) = AmountOf(Remaining(r))
    BY <2>2, SumSame
  <2>4. AmountOf(Remaining(r))' = Added(pay', Remaining(r)')
    BY AmountAdded
  <2> QED BY <2>1, <2>3, <2>4
<1>4. PaymentsOf(s)' = PaymentsOf(s)
  BY DEF PaymentsSame
<1> QED
  BY <1>1, <1>2, <1>3, <1>4 DEF Current

LEMMA ScheduleLeft ==
  ASSUME TypeInv, TypeInv', NEW s \in Schedules, Known(s), MoneyOK(s), ReportOK(s),
         sched'[s] = sched[s], credited'[s] = credited[s], HistoryKept,
         PaymentsSame(s), HandSame(s)
  PROVE  Known(s)' /\ MoneyOK(s)' /\ ReportOK(s)'
<1>1. Known(s)'
  <2> SUFFICES ASSUME s \notin raced', NEW q \in InHand(s)', NEW r \in InHand(s)'
               PROVE  q = r /\ Current(q)'
    BY DEF Known
  <2>1. /\ q \in Requests /\ req'[q].schedule = s /\ req'[q] = req[q] 
        /\ r \in Requests /\ req'[r].schedule = s /\ req'[r] = req[r]
    BY DEF InHand, HandSame
  <2>2. q \in InHand(s) /\ r \in InHand(s) /\ s \notin raced
    BY <2>1 DEF InHand, HistoryKept
  <2>3. q = r /\ Current(q)
    BY <2>2 DEF Known
  <2> QED BY <2>1, <2>3, CurrentKept
<1>2. MoneyOK(s)'
  BY ConfirmedSame DEF MoneyOK, HistoryKept, Exists
<1>3. ReportOK(s)'
  BY DEF ReportOK, HistoryKept, PaymentsSame
<1> QED
  BY <1>1, <1>2, <1>3

\* Nothing is said of a schedule that was raced.
LEMMA ScheduleRaced == ASSUME NEW s, s \in raced' PROVE Known(s)' /\ MoneyOK(s)' /\ ReportOK(s)'
BY DEF Known, MoneyOK, ReportOK

\* A schedule a request touches alone is in no other hands.
LEMMA TouchedAlone ==
  ASSUME TypeInv, NEW s \in Schedules, NEW r, Touch(s, r), s \notin raced'
  PROVE  s \notin raced /\ \A t \in Requests : t # r => req[t].schedule # s
BY DEF Touch, InHand

\* A step touches one schedule and the others keep their races.
LEMMA TouchKeeps ==
  ASSUME NEW s, NEW r, Touch(s, r), miscounted \subseteq miscounted', forced \subseteq forced'
  PROVE  HistoryKept
BY DEF Touch, HistoryKept

\* A request that ends has no schedule in hand.
LEMMA EndedHands ==
  ASSUME TypeInv, NEW r \in Requests, End(r)
  PROVE  \A s \in Schedules : HandSame(s)
BY Ended, IdleIsRequest DEF HandSame

LEMMA EndedKnown ==
  ASSUME TypeInv, NEW r \in Requests, End(r), NEW s \in Schedules, Touch(s, r)
  PROVE  Known(s)'
<1> SUFFICES ASSUME s \notin raced' PROVE InHand(s)' = {}
  BY DEF Known
<1>1. \A t \in Requests : req'[t].schedule # s
  BY Ended, IdleIsRequest, TouchedAlone
<1> QED
  BY <1>1 DEF InHand

\* No request has in hand what a step of none touches alone.
LEMMA TouchedKnown ==
  ASSUME TypeInv, req' = req, NEW s \in Schedules, Touch(s, NoRow)
  PROVE  Known(s)'
<1> SUFFICES ASSUME s \notin raced' PROVE InHand(s)' = {}
  BY DEF Known
<1>1. \A t \in Requests : req'[t].schedule # s
  BY TouchedAlone
<1> QED
  BY <1>1 DEF InHand

\* A request that has a schedule in hand that was not raced has it alone.
LEMMA Alone ==
  ASSUME ScheduleInv, NEW r \in Requests, req[r].schedule \in Schedules, req[r].schedule \notin raced
  PROVE  Current(r) /\ \A t \in Requests : t # r => req[t].schedule # req[r].schedule
BY DEF ScheduleInv, Known, InHand

\* A step that writes no schedule and no payment, of one request.
LEMMA QuietStep ==
  ASSUME TypeInv, TypeInv', ScheduleInv, UNCHANGED <<sched, pay, credited>>, HistoryKept,
         NEW r \in Requests, \A t \in Requests : t # r => req'[t] = req[t],
         req'[r].schedule \in Schedules =>
            \/ req'[r].schedule \in raced'
            \/ Current(r)' /\ \A t \in Requests : t # r => req[t].schedule # req'[r].schedule
  PROVE  ScheduleInv'
<1> SUFFICES ASSUME NEW s \in Schedules PROVE Known(s)' /\ MoneyOK(s)' /\ ReportOK(s)'
  BY DEF ScheduleInv
<1>1. Known(s) /\ MoneyOK(s) /\ ReportOK(s)
  BY DEF ScheduleInv
<1>2. PaymentsSame(s)
  BY DEF PaymentsSame, PaymentsOf, Recorded
<1>3. CASE req'[r].schedule # s
  <2>1. HandSame(s)
    BY <1>3 DEF HandSame
  <2> QED BY <1>1, <1>2, <2>1, ScheduleLeft
<1>4. CASE s \in raced'
  BY <1>4, ScheduleRaced
<1>5. CASE req'[r].schedule = s /\ s \notin raced'
  <2>1. Known(s)'
    BY <1>5 DEF Known, InHand
  <2>2. MoneyOK(s)'
    BY <1>1, <1>2, ConfirmedSame DEF MoneyOK, HistoryKept, Exists
  <2>3. ReportOK(s)'
    BY <1>1, <1>2 DEF ReportOK, HistoryKept, PaymentsSame
  <2> QED BY <2>1, <2>2, <2>3
<1> QED
  BY <1>3, <1>4, <1>5

\* A step that changes nothing a schedule depends on.
LEMMA QuietOthers ==
  ASSUME TypeInv, TypeInv', ScheduleInv, UNCHANGED <<sched, pay, credited, req>>, HistoryKept
  PROVE  ScheduleInv'
<1> SUFFICES ASSUME NEW s \in Schedules PROVE Known(s)' /\ MoneyOK(s)' /\ ReportOK(s)'
  BY DEF ScheduleInv
<1>1. Known(s) /\ MoneyOK(s) /\ ReportOK(s)
  BY DEF ScheduleInv
<1>2. PaymentsSame(s) /\ HandSame(s)
  BY DEF PaymentsSame, PaymentsOf, Recorded, HandSame
<1> QED BY <1>1, <1>2, ScheduleLeft

\* A step that writes one schedule or payments of it.
LEMMA OthersLeft ==
  ASSUME TypeInv, TypeInv', ScheduleInv, NEW s \in Schedules, HistoryKept,
         \A t \in Schedules : t # s =>
            sched'[t] = sched[t] /\ credited'[t] = credited[t] /\ PaymentsSame(t) /\ HandSame(t),
         s \notin raced' => Known(s)' /\ MoneyOK(s)' /\ ReportOK(s)'
  PROVE  ScheduleInv'
<1> SUFFICES ASSUME NEW t \in Schedules PROVE Known(t)' /\ MoneyOK(t)' /\ ReportOK(t)'
  BY DEF ScheduleInv
<1>1. Known(t) /\ MoneyOK(t) /\ ReportOK(t)
  BY DEF ScheduleInv
<1> QED BY <1>1, ScheduleLeft, ScheduleRaced

LEMMA PaymentsMade ==
  ASSUME NEW s \in Schedules, NEW p \in Payments, NEW n, NEW y \in ContractPaymentStatus,
         Made(p, s, n, y)
  PROVE  /\ \A t \in Schedules : t # s => PaymentsSame(t)
         /\ PaymentsOf(s)' = PaymentsOf(s) \cup {p} /\ p \notin PaymentsOf(s)
         /\ \A q \in PaymentsOf(s) : pay'[q] = pay[q]
<1>1. \A q \in Payments : Recorded(q) => q # p
  BY DEF Made, Recorded, ContractPaymentStatus
<1>2. \A q \in Payments : q # p => pay'[q] = pay[q]
  BY DEF Made
<1>3. Recorded(p)' /\ pay'[p].schedule = s
  BY DEF Made, Recorded
<1>4. \A t \in Schedules : t # s => PaymentsOf(t)' = PaymentsOf(t)
  BY <1>1, <1>2, <1>3 DEF PaymentsOf, Recorded
<1>5. PaymentsOf(s)' = PaymentsOf(s) \cup {p}
  BY <1>1, <1>2, <1>3 DEF PaymentsOf, Recorded
<1> QED
  BY <1>1, <1>2, <1>4, <1>5 DEF PaymentsSame, PaymentsOf

\* A payment of the schedule is written: it is recorded after it, or not.
LEMMA PaymentsWritten ==
  ASSUME NEW p \in Payments, NEW s \in Schedules, Recorded(p), pay[p].schedule = s,
         pay'[p].schedule = s, \A q \in Payments : q # p => pay'[q] = pay[q]
  PROVE  /\ \A t \in Schedules : t # s => PaymentsSame(t)
         /\ p \in PaymentsOf(s)
         /\ Recorded(p)' => PaymentsOf(s)' = PaymentsOf(s)
         /\ ~Recorded(p)' => PaymentsOf(s)' = PaymentsOf(s) \ {p}
<1>1. \A t \in Schedules : t # s => PaymentsOf(t)' = PaymentsOf(t) /\ p \notin PaymentsOf(t)
  BY DEF PaymentsOf, Recorded
<1>2. Recorded(p)' => PaymentsOf(s)' = PaymentsOf(s)
  BY DEF PaymentsOf, Recorded
<1>3. ~Recorded(p)' => PaymentsOf(s)' = PaymentsOf(s) \ {p}
  BY DEF PaymentsOf, Recorded
<1> QED
  BY <1>1, <1>2, <1>3 DEF PaymentsSame, PaymentsOf

\* One more confirmed payment.
LEMMA ConfirmedGrows ==
  ASSUME TypeInv, TypeInv', NEW s \in Schedules, NEW p \in Payments, p \notin Confirmed(s),
         Confirmed(s)' = Confirmed(s) \cup {p}, \A q \in Confirmed(s) : pay'[q] = pay[q]
  PROVE  AmountOf(Confirmed(s))' = pay'[p].amount + AmountOf(Confirmed(s))
<1> DEFINE P == Confirmed(s)
<1>1. P \in SUBSET Payments /\ P \cup {p} \in SUBSET Payments /\ (P \cup {p}) \ {p} = P
  BY DEF Confirmed, PaymentsOf
<1>2. AmountOf(Confirmed(s))' = Added(pay', P \cup {p})
  BY AmountAdded
<1>3. \A q \in Payments : pay'[q].amount \in Nat
  BY AmountsTypedNext
<1>4. Added(pay', P) = AmountOf(P)
  BY <1>1, SumSame
<1> HIDE DEF P
<1>5. \A Q \in SUBSET Payments : \A q \in Q : Added(pay', Q) = pay'[q].amount + Added(pay', Q \ {q})
  BY <1>3, AddedFacts
<1>6. Added(pay', P \cup {p}) = pay'[p].amount + Added(pay', P)
  BY <1>1, <1>5
<1> QED
  BY <1>2, <1>4, <1>6 DEF P

-----------------------------------------------------------------------------
(* Schedules: the steps that write no schedule *)

\* What a request reads as it takes a schedule in hand is so.
LEMMA OpenedSchedule ==
  ASSUME TypeInv, TypeInv', ScheduleInv, NEW r \in Requests, NEW s \in Schedules, Touch(s, r),
         UNCHANGED <<sched, pay, credited, miscounted, forced>>,
         \A t \in Requests : t # r => req'[t] = req[t],
         req'[r].schedule = s, Current(r)'
  PROVE  ScheduleInv'
BY QuietStep, TouchKeeps, TouchedAlone

LEMMA OpenVerificationSchedule ==
  ASSUME TypeInv, ScheduleInv, NEW r \in Requests, NEW p \in Payments, NEW d \in Decisions,
         NEW a \in Amounts, OpenVerification(r, p, d, a), UNCHANGED invoiceHistory
  PROVE  ScheduleInv'
<1>1. PICK s : s = pay[p].schedule
  OBVIOUS
<1> DEFINE q == [Idle EXCEPT !.pc = d, !.row = p, !.schedule = s, !.amount = a,
                             !.seen = sched[s].received]
<1>2. q.pc = d /\ q.row = p /\ q.schedule = s /\ q.seen = sched[s].received
  BY DEF Idle
<1>3. req' = [req EXCEPT ![r] = q] /\ Touch(s, r) /\ pay[p].status = "reported"
      /\ UNCHANGED <<sched, pay, credited, miscounted, forced>>
  BY <1>1 DEF OpenVerification
<1> HIDE DEF q
<1>4. req'[r] = q /\ \A t \in Requests : t # r => req'[t] = req[t]
  BY <1>3 DEF TypeInv, InvoiceTypeOK, LedgerTypeOK
<1>5. s \in Schedules
  BY <1>1, <1>3, RecordedFacts DEF Recorded, ContractPaymentStatus
<1>6. Current(r)'
  BY <1>2, <1>3, <1>4 DEF Current, Decisions
<1> QED
  BY <1>2, <1>3, <1>4, <1>5, <1>6, OpenVerificationType, OpenedSchedule

LEMMA OpenDeletionSchedule ==
  ASSUME TypeInv, ScheduleInv, NEW r \in Requests, NEW p \in Payments,
         OpenDeletion(r, p), UNCHANGED invoiceHistory
  PROVE  ScheduleInv'
<1>1. PICK s : s = pay[p].schedule
  OBVIOUS
<1> DEFINE q == [Idle EXCEPT !.pc = "delete", !.row = p, !.schedule = s]
<1>2. q.pc = "delete" /\ q.schedule = s
  BY DEF Idle
<1>3. req' = [req EXCEPT ![r] = q] /\ Touch(s, r) /\ Recorded(p)
      /\ UNCHANGED <<sched, pay, credited, miscounted, forced>>
  BY <1>1 DEF OpenDeletion
<1> HIDE DEF q
<1>4. req'[r] = q /\ \A t \in Requests : t # r => req'[t] = req[t]
  BY <1>3 DEF TypeInv, InvoiceTypeOK, LedgerTypeOK
<1>5. s \in Schedules
  BY <1>1, <1>3, RecordedFacts
<1>6. Current(r)'
  BY <1>2, <1>4 DEF Current
<1> QED
  BY <1>2, <1>3, <1>4, <1>5, <1>6, OpenDeletionType, OpenedSchedule

LEMMA OpenRecordingSchedule ==
  ASSUME TypeInv, ScheduleInv, NEW r \in Requests, NEW s \in Schedules, NEW a \in Amounts,
         OpenRecording(r, s, a), UNCHANGED invoiceHistory
  PROVE  ScheduleInv'
<1> DEFINE q == [Idle EXCEPT !.pc = "record", !.row = s, !.schedule = s, !.amount = a,
                             !.seen = sched[s].received, !.old = sched[s].status]
<1>2. q.pc = "record" /\ q.schedule = s /\ q.seen = sched[s].received /\ q.old = sched[s].status
  BY DEF Idle
<1>3. req' = [req EXCEPT ![r] = q] /\ Touch(s, r)
      /\ UNCHANGED <<sched, pay, credited, miscounted, forced>>
  BY DEF OpenRecording
<1> HIDE DEF q
<1>4. req'[r] = q /\ \A t \in Requests : t # r => req'[t] = req[t]
  BY <1>3 DEF TypeInv, InvoiceTypeOK, LedgerTypeOK
<1>6. Current(r)'
  BY <1>2, <1>3, <1>4 DEF Current
<1> QED
  BY <1>2, <1>3, <1>4, <1>6, OpenRecordingType, OpenedSchedule

LEMMA OpenDropSchedule ==
  ASSUME TypeInv, ScheduleInv, NEW r \in Requests, NEW s \in Schedules,
         OpenDrop(r, s), UNCHANGED invoiceHistory
  PROVE  ScheduleInv'
<1> DEFINE q == [Idle EXCEPT !.pc = "drop", !.row = s, !.schedule = s]
<1>2. q.pc = "drop" /\ q.schedule = s
  BY DEF Idle
<1>3. req' = [req EXCEPT ![r] = q] /\ Touch(s, r) /\ PaymentsOf(s) = {}
      /\ UNCHANGED <<sched, pay, credited, miscounted, forced>>
  BY DEF OpenDrop
<1> HIDE DEF q
<1>4. req'[r] = q /\ \A t \in Requests : t # r => req'[t] = req[t]
  BY <1>3 DEF TypeInv, InvoiceTypeOK, LedgerTypeOK
<1>5. PaymentsOf(s)' = {}
  BY <1>3 DEF PaymentsOf, Recorded
<1>6. Current(r)'
  BY <1>2, <1>3, <1>4, <1>5 DEF Current
<1> QED
  BY <1>2, <1>3, <1>4, <1>6, OpenDropType, OpenedSchedule

\* A request that goes on knows what it knew.
LEMMA GoesOn ==
  ASSUME TypeInv, TypeInv', ScheduleInv, NEW r \in Requests,
         UNCHANGED <<sched, pay, scheduleHistory>>,
         \A t \in Requests : t # r => req'[t] = req[t],
         req'[r].schedule = req[r].schedule,
         req[r].schedule \in Schedules /\ Current(r) => Current(r)'
  PROVE  ScheduleInv'
<1>1. HistoryKept
  BY DEF HistoryKept, scheduleHistory
<1>2. ASSUME req'[r].schedule \in Schedules
      PROVE  \/ req'[r].schedule \in raced'
             \/ Current(r)' /\ \A t \in Requests : t # r => req[t].schedule # req'[r].schedule
  BY <1>2, Alone DEF scheduleHistory
<1> QED
  BY <1>1, <1>2, QuietStep DEF scheduleHistory

LEMMA EnterVerificationSchedule ==
  ASSUME TypeInv, ScheduleInv, NEW r \in Requests, EnterVerification(r), UNCHANGED invoiceHistory
  PROVE  ScheduleInv'
<1>1. PICK x \in {"lookup", "count"} : Goto(r, x) /\ (req[r].pc = "confirm" <=> x = "lookup")
  BY DEF EnterVerification
<1> DEFINE q == [req[r] EXCEPT !.pc = x]
<1>2. q.pc = x /\ q.row = req[r].row /\ q.schedule = req[r].schedule /\ q.seen = req[r].seen
  BY Moved DEF SchedulePc
<1>3. req' = [req EXCEPT ![r] = q]
  BY <1>1 DEF Goto
<1> HIDE DEF q
<1>4. req'[r] = q /\ \A t \in Requests : t # r => req'[t] = req[t]
  BY <1>3 DEF TypeInv, InvoiceTypeOK, LedgerTypeOK
<1>5. Current(r) => Current(r)'
  BY <1>1, <1>2, <1>4 DEF Current, EnterVerification
<1> QED
  BY <1>2, <1>4, <1>5, EnterVerificationType, GoesOn DEF EnterVerification

LEMMA LookUpInvoiceSchedule ==
  ASSUME TypeInv, ScheduleInv, NEW r \in Requests, LookUpInvoice(r), UNCHANGED invoiceHistory
  PROVE  ScheduleInv'
<1>1. PICK i : i = InvoiceOf[req[r].schedule]
  OBVIOUS
<1>2. req[r] \in Request
  BY DEF TypeInv, InvoiceTypeOK, LedgerTypeOK
<1> DEFINE q == IF i = NoRow THEN [req[r] EXCEPT !.pc = "commit"]
                ELSE [req[r] EXCEPT !.pc = "commit", !.old = inv[i].status, !.paid = inv[i].paid]
<1>3. q.pc = "commit" /\ q.row = req[r].row /\ q.schedule = req[r].schedule /\ q.seen = req[r].seen
  BY <1>2 DEF Request
<1>4. req' = [req EXCEPT ![r] = q]
  BY <1>1 DEF LookUpInvoice
<1> HIDE DEF q
<1>5. req'[r] = q /\ \A t \in Requests : t # r => req'[t] = req[t]
  BY <1>4 DEF TypeInv, InvoiceTypeOK, LedgerTypeOK
<1>6. Current(r) => Current(r)'
  BY <1>3, <1>5 DEF Current, LookUpInvoice
<1> QED
  BY <1>3, <1>5, <1>6, LookUpInvoiceType, GoesOn DEF LookUpInvoice

LEMMA CountReportedSchedule ==
  ASSUME TypeInv, ScheduleInv, NEW r \in Requests, CountReported(r), UNCHANGED invoiceHistory
  PROVE  ScheduleInv'
<1>1. PICK n : n = Cardinality(OthersReported(r))
  OBVIOUS
<1>2. req[r] \in Request
  BY DEF TypeInv, InvoiceTypeOK, LedgerTypeOK
<1> DEFINE q == [req[r] EXCEPT !.pc = "revert", !.seen = n]
<1>3. q.pc = "revert" /\ q.row = req[r].row /\ q.schedule = req[r].schedule /\ q.seen = n
  BY <1>2 DEF Request
<1>4. req' = [req EXCEPT ![r] = q] /\ req[r].pc = "count"
  BY <1>1 DEF CountReported
<1> HIDE DEF q
<1>5. req'[r] = q /\ \A t \in Requests : t # r => req'[t] = req[t]
  BY <1>4 DEF TypeInv, InvoiceTypeOK, LedgerTypeOK
<1>6. n > 0 => OthersReported(r) # {}
  <2>1. Cardinality({}) = 0
    BY FS_EmptySet
  <2>2. OthersReported(r) = {} => n = 0
    BY <1>1, <2>1
  <2> QED BY <2>2
<1>7. OthersReported(r)' = OthersReported(r)
  BY <1>3, <1>5 DEF OthersReported, PaymentsOf, Recorded, CountReported
<1>8. Current(r) => Current(r)'
  BY <1>3, <1>4, <1>5, <1>6, <1>7 DEF Current, CountReported
<1> QED
  BY <1>3, <1>5, <1>8, CountReportedType, GoesOn DEF CountReported

LEMMA SumRemainingSchedule ==
  ASSUME TypeInv, ScheduleInv, NEW r \in Requests, SumRemaining(r), UNCHANGED invoiceHistory
  PROVE  ScheduleInv'
<1>1. PICK n : n = AmountOf(Remaining(r))
  OBVIOUS
<1>2. req[r] \in Request
  BY DEF TypeInv, InvoiceTypeOK, LedgerTypeOK
<1> DEFINE q == [req[r] EXCEPT !.pc = "sum", !.seen = n]
<1>3. q.pc = "sum" /\ q.row = req[r].row /\ q.schedule = req[r].schedule /\ q.seen = n
  BY <1>2 DEF Request
<1>4. req' = [req EXCEPT ![r] = q] /\ pay' = pay
  BY <1>1 DEF SumRemaining
<1> HIDE DEF q
<1>5. req'[r] = q /\ \A t \in Requests : t # r => req'[t] = req[t]
  BY <1>4 DEF TypeInv, InvoiceTypeOK, LedgerTypeOK
<1>6. Remaining(r)' = Remaining(r)
  BY <1>3, <1>4, <1>5 DEF Remaining, PaymentsOf, Recorded
<1>7. AmountOf(Remaining(r))' = n
  BY <1>1, <1>4, <1>6, AmountAdded
<1>8. Current(r)'
  BY <1>3, <1>5, <1>7 DEF Current
<1> QED
  BY <1>3, <1>5, <1>8, SumRemainingType, GoesOn DEF SumRemaining

\* A request that ends, or goes on without a schedule, writing none.
LEMMA EndsSchedule ==
  ASSUME TypeInv, TypeInv', ScheduleInv, NEW r \in Requests, End(r),
         UNCHANGED <<sched, pay, scheduleHistory>>
  PROVE  ScheduleInv'
<1>1. HistoryKept
  BY DEF HistoryKept, scheduleHistory
<1> QED
  BY <1>1, Ended, IdleIsRequest, QuietStep DEF scheduleHistory

LEMMA OpensNone ==
  ASSUME TypeInv, TypeInv', ScheduleInv, NEW r \in Requests,
         UNCHANGED <<sched, pay, scheduleHistory>>,
         NEW q, q.schedule = NoRow, req' = [req EXCEPT ![r] = q]
  PROVE  ScheduleInv'
<1>1. HistoryKept
  BY DEF HistoryKept, scheduleHistory
<1>2. req'[r] = q /\ \A t \in Requests : t # r => req'[t] = req[t]
  BY DEF TypeInv, InvoiceTypeOK, LedgerTypeOK
<1> QED
  BY <1>1, <1>2, QuietStep DEF scheduleHistory

LEMMA OpenReportSchedule ==
  ASSUME TypeInv, ScheduleInv, NEW r \in Requests, NEW i \in Invoices, NEW a \in Amounts, OpenReport(r, i, a)
  PROVE  ScheduleInv'
<1> DEFINE q == [Idle EXCEPT !.pc = "report", !.row = i, !.amount = a]
<1>1. q.schedule = NoRow /\ req' = [req EXCEPT ![r] = q]
  BY DEF Idle, OpenReport
<1> HIDE DEF q
<1> QED
  BY <1>1, OpenReportType, OpensNone DEF OpenReport, InvoiceFrame

LEMMA OpenInvoiceVerificationSchedule ==
  ASSUME TypeInv, ScheduleInv, NEW r \in Requests, NEW i \in Invoices, NEW d \in InvoiceDecisions,
         NEW a \in Amounts, OpenInvoiceVerification(r, i, d, a)
  PROVE  ScheduleInv'
<1>1. PICK n : n = inv[i].report.amount
  OBVIOUS
<1> DEFINE q == [Idle EXCEPT !.pc = d, !.row = i, !.amount = a, !.seen = n]
<1>2. q.schedule = NoRow /\ req' = [req EXCEPT ![r] = q]
  BY <1>1 DEF Idle, OpenInvoiceVerification
<1> HIDE DEF q
<1> QED
  BY <1>2, OpenInvoiceVerificationType, OpensNone DEF OpenInvoiceVerification, InvoiceFrame

LEMMA OpenOverdueSchedule ==
  ASSUME TypeInv, ScheduleInv, NEW r \in Requests, OpenOverdue(r)
  PROVE  ScheduleInv'
<1>1. PICK found : req' = [req EXCEPT ![r] = [Idle EXCEPT !.pc = "sweep", !.swept = found]]
  BY DEF OpenOverdue
<1> DEFINE q == [Idle EXCEPT !.pc = "sweep", !.swept = found]
<1>2. q.schedule = NoRow /\ req' = [req EXCEPT ![r] = q]
  BY <1>1 DEF Idle
<1> HIDE DEF q
<1> QED
  BY <1>2, OpenOverdueType, OpensNone DEF OpenOverdue, InvoiceFrame

LEMMA ConfirmOnInvoiceSchedule ==
  ASSUME TypeInv, ScheduleInv, NEW r \in Requests, ConfirmOnInvoice(r)
  PROVE  ScheduleInv'
<1>1. UNCHANGED <<sched, pay, scheduleHistory>>
  BY DEF ConfirmOnInvoice, InvoiceFrame
<1>2. /\ TypeInv' /\ req'[r].pc = "sync" /\ req'[r].schedule = req[r].schedule
      /\ \A t \in Requests : t # r => req'[t] = req[t]
  BY ConfirmOnInvoiceType
<1>3. Current(r)'
  BY <1>2 DEF Current
<1> QED
  BY <1>1, <1>2, <1>3, GoesOn

LEMMA SyncPaymentToScheduleSchedule ==
  ASSUME TypeInv, ScheduleInv, NEW r \in Requests, SyncPaymentToSchedule(r)
  PROVE  ScheduleInv'
<1>1. CASE End(r) /\ UNCHANGED raced
  BY <1>1, SyncPaymentToScheduleType, EndsSchedule DEF SyncPaymentToSchedule, scheduleHistory
<1>2. CASE \E s \in OpenSchedules(req[r].row) :
             /\ req' = [req EXCEPT ![r].pc = "credit", ![r].schedule = s,
                                   ![r].seen = sched[s].received]
             /\ Touch(s, r)
  <2>1. PICK s \in OpenSchedules(req[r].row) :
             /\ req' = [req EXCEPT ![r].pc = "credit", ![r].schedule = s,
                                   ![r].seen = sched[s].received]
             /\ Touch(s, r)
    BY <1>2
  <2>2. req[r] \in Request /\ req[r].row \in Invoices
    BY FieldTypes DEF SyncPaymentToSchedule, RequestOK, ReportPc, TypeInv, InvoiceTypeOK, LedgerTypeOK
  <2>3. s \in Schedules
    BY <2>2 DEF OpenSchedules
  <2>4. PICK n : n = sched[s].received
    OBVIOUS
  <2> DEFINE q == [req[r] EXCEPT !.pc = "credit", !.schedule = s, !.seen = n]
  <2>5. q.pc = "credit" /\ q.schedule = s /\ q.seen = n
    BY <2>2 DEF Request
  <2>6. req' = [req EXCEPT ![r] = q]
    BY <2>1, <2>4
  <2> HIDE DEF q
  <2>7. req'[r] = q /\ \A t \in Requests : t # r => req'[t] = req[t]
    BY <2>6 DEF TypeInv, InvoiceTypeOK, LedgerTypeOK
  <2>8. Current(r)'
    BY <2>4, <2>5, <2>7 DEF Current, SyncPaymentToSchedule
  <2> QED
    BY <2>1, <2>3, <2>5, <2>7, <2>8, SyncPaymentToScheduleType, OpenedSchedule DEF SyncPaymentToSchedule
<1> QED
  BY <1>1, <1>2 DEF SyncPaymentToSchedule

-----------------------------------------------------------------------------
(* Schedules: the steps that write schedules and payments *)

\* The money of a schedule whose confirmed payments a step leaves alone.
LEMMA MoneyKept ==
  ASSUME TypeInv, TypeInv', NEW s \in Schedules, s \notin raced, MoneyOK(s), Exists(s),
         miscounted \subseteq miscounted', sched'[s].received = sched[s].received,
         credited'[s] = credited[s], Confirmed(s)' = Confirmed(s),
         \A p \in Confirmed(s) : pay'[p] = pay[p]
  PROVE  MoneyOK(s)'
<1>1. Confirmed(s) \in SUBSET Payments
  BY DEF Confirmed, PaymentsOf
<1>2. AmountOf(Confirmed(s))' = Added(pay', Confirmed(s))
  BY AmountAdded
<1>3. AmountOf(Confirmed(s))' = AmountOf(Confirmed(s))
  BY <1>1, <1>2, SumSame
<1> QED
  BY <1>3 DEF MoneyOK

LEMMA ReportPaymentSchedule ==
  ASSUME TypeInv, ScheduleInv, NEW s \in Schedules, NEW a \in Amounts, ReportPayment(s, a),
         UNCHANGED invoiceHistory
  PROVE  ScheduleInv'
<1>1. /\ TypeInv' /\ StatusSet(s, "reported") /\ \E p \in Payments : Made(p, s, a, "reported")
  BY ReportPaymentType
<1>2. Touch(s, NoRow) /\ Exists(s) /\ UNCHANGED <<inv, req, credited, miscounted, forced>>
  BY DEF ReportPayment
<1>3. HistoryKept
  BY <1>2, TouchKeeps
<1>4. PICK p \in Payments : Made(p, s, a, "reported")
  BY <1>1
<1>5. /\ \A t \in Schedules : t # s => PaymentsSame(t)
      /\ PaymentsOf(s)' = PaymentsOf(s) \cup {p} /\ p \notin PaymentsOf(s)
      /\ \A q \in PaymentsOf(s) : pay'[q] = pay[q]
  BY <1>4, PaymentsMade DEF ContractPaymentStatus
<1>6. \A t \in Schedules : HandSame(t)
  BY <1>2 DEF HandSame
<1>7. ASSUME s \notin raced' PROVE Known(s)' /\ MoneyOK(s)' /\ ReportOK(s)'
  <2>1. Known(s)'
    BY <1>2, TouchedKnown
  <2>2. pay'[p].status = "reported"
    BY <1>4 DEF Made
  <2>3. ReportOK(s)'
    BY <1>5, <2>2 DEF ReportOK
  <2>4. Confirmed(s)' = Confirmed(s)
    BY <1>5, <2>2 DEF Confirmed
  <2>5. s \notin raced /\ MoneyOK(s)
    BY <1>2, <1>7, TouchedAlone DEF ScheduleInv
  <2>6. MoneyOK(s)'
    BY <1>1, <1>2, <1>5, <2>4, <2>5, MoneyKept DEF StatusSet, Confirmed
  <2> QED BY <2>1, <2>3, <2>6
<1> QED
  BY <1>1, <1>2, <1>3, <1>5, <1>6, <1>7, OthersLeft DEF StatusSet

\* A request writes the payment it has decided on: the frame of such a step.
LEMMA DecidedFrame ==
  ASSUME TypeInv, NEW r \in Requests, NEW d \in ContractPaymentStatus, DecidedRow(r, d),
         req[r].pc \in {"commit", "revert", "keep"}, Recorded(req[r].row),
         NEW p, p = req[r].row, NEW s, s = req[r].schedule
  PROVE  /\ p \in Payments /\ s \in Schedules /\ Recorded(p) /\ pay[p].schedule = s
         /\ pay'[p].status = d /\ pay'[p].amount = req[r].amount
         /\ \A t \in Schedules : t # s => PaymentsSame(t)
         /\ PaymentsOf(s)' = PaymentsOf(s) /\ p \in PaymentsOf(s)
         /\ \A q \in Payments : q # p => pay'[q] = pay[q]
<1>1. p \in Payments /\ s \in Schedules /\ Recorded(p) /\ pay[p].schedule = s
  BY FieldTypes DEF RequestOK, PaymentPc
<1>2. /\ pay'[p].status = d /\ pay'[p].amount = req[r].amount /\ pay'[p].schedule = s
      /\ \A q \in Payments : q # p => pay'[q] = pay[q]
  BY <1>1 DEF DecidedRow
<1>3. Recorded(p)'
  BY <1>2 DEF Recorded
<1> QED
  BY <1>1, <1>2, <1>3, PaymentsWritten

LEMMA KeepReportedSchedule ==
  ASSUME TypeInv, ScheduleInv, NEW r \in Requests, KeepReported(r), UNCHANGED invoiceHistory
  PROVE  ScheduleInv'
<1>1. PICK s, p : s = req[r].schedule /\ p = req[r].row
  OBVIOUS
<1>2. /\ Touch(s, r) /\ Recorded(p) /\ End(r) /\ req[r].pc = "keep"
      /\ UNCHANGED <<sched, credited, miscounted, forced>>
  BY <1>1 DEF KeepReported
<1>3. TypeInv' /\ DecidedRow(r, "reported")
  BY KeepReportedType
<1>4. /\ p \in Payments /\ s \in Schedules /\ pay'[p].status = "reported"
      /\ \A t \in Schedules : t # s => PaymentsSame(t)
      /\ PaymentsOf(s)' = PaymentsOf(s) /\ p \in PaymentsOf(s)
      /\ \A q \in Payments : q # p => pay'[q] = pay[q]
  BY <1>1, <1>2, <1>3, DecidedFrame DEF ContractPaymentStatus
<1>5. HistoryKept
  BY <1>2, TouchKeeps
<1>6. \A t \in Schedules : HandSame(t)
  BY <1>2, EndedHands
<1>7. ASSUME s \notin raced' PROVE Known(s)' /\ MoneyOK(s)' /\ ReportOK(s)'
  <2>1. Known(s)'
    BY <1>2, <1>4, EndedKnown
  <2>2. s \notin raced /\ MoneyOK(s)
    BY <1>2, <1>4, <1>7, TouchedAlone DEF ScheduleInv
  <2>3. pay[p].status = "reported"
    BY <1>1, <1>2, <1>4, <2>2, Alone DEF Current
  <2>4. ReportOK(s)'
    BY <1>4 DEF ReportOK
  <2>5. Confirmed(s)' = Confirmed(s) /\ p \notin Confirmed(s) /\ Confirmed(s) \subseteq Payments
    BY <1>4, <2>3 DEF Confirmed, PaymentsOf
  <2>6. Exists(s)
    BY <1>4, RecordedFacts DEF PaymentsOf
  <2>7. MoneyOK(s)'
    BY <1>2, <1>3, <1>4, <2>2, <2>5, <2>6, MoneyKept
  <2> QED BY <2>1, <2>4, <2>7
<1> QED
  BY <1>2, <1>3, <1>4, <1>5, <1>6, <1>7, OthersLeft

LEMMA RejectPaymentSchedule ==
  ASSUME TypeInv, ScheduleInv, NEW r \in Requests, RejectPayment(r), UNCHANGED invoiceHistory
  PROVE  ScheduleInv'
<1>1. PICK s, p : s = req[r].schedule /\ p = req[r].row
  OBVIOUS
<1>2. /\ Touch(s, r) /\ End(r) /\ req[r].pc = "revert"
      /\ UNCHANGED <<credited, miscounted, forced>>
      /\ \/ req[r].seen > 0 /\ sched' = sched
         \/ sched' = [sched EXCEPT ![s].status = DueStatus(s)]
  BY <1>1 DEF RejectPayment
<1>3. TypeInv' /\ DecidedRow(r, "rejected")
  BY RejectPaymentType
<1>4. Recorded(req[r].row)
  BY <1>2, FieldTypes DEF RequestOK, LockingPc
<1>5. /\ p \in Payments /\ s \in Schedules /\ pay'[p].status = "rejected"
      /\ \A t \in Schedules : t # s => PaymentsSame(t)
      /\ PaymentsOf(s)' = PaymentsOf(s) /\ p \in PaymentsOf(s)
      /\ \A q \in Payments : q # p => pay'[q] = pay[q]
  BY <1>1, <1>2, <1>3, <1>4, DecidedFrame DEF ContractPaymentStatus
<1>6. HistoryKept
  BY <1>2, TouchKeeps
<1>7. \A t \in Schedules : HandSame(t)
  BY <1>2, EndedHands
<1>8. DueStatus(s) \in {"pending", "overdue"}
  BY DEF DueStatus
<1>9. /\ sched'[s].received = sched[s].received
      /\ sched'[s].status = "reported" => req[r].seen > 0 /\ sched' = sched
      /\ \A t \in Schedules : t # s => sched'[t] = sched[t]
  BY <1>2, <1>5, <1>8 DEF TypeInv, InvoiceTypeOK, LedgerTypeOK, ScheduleRow
<1>10. ASSUME s \notin raced' PROVE Known(s)' /\ MoneyOK(s)' /\ ReportOK(s)'
  <2>1. Known(s)'
    BY <1>2, <1>5, EndedKnown
  <2>2. s \notin raced /\ MoneyOK(s)
    BY <1>2, <1>5, <1>10, TouchedAlone DEF ScheduleInv
  <2>3. Current(r)
    BY <1>1, <1>5, <2>2, Alone
  <2>4. pay[p].status = "reported"
    BY <1>1, <1>2, <2>3 DEF Current
  <2>5. req[r].seen > 0 => \E q \in PaymentsOf(s) \ {p} : pay[q].status = "reported"
    BY <1>1, <1>2, <2>3 DEF Current, OthersReported
  <2>6. ReportOK(s)'
    BY <1>5, <1>9, <2>5 DEF ReportOK, PaymentsOf
  <2>7. Confirmed(s)' = Confirmed(s) /\ p \notin Confirmed(s) /\ Confirmed(s) \subseteq Payments
    BY <1>5, <2>4 DEF Confirmed, PaymentsOf
  <2>8. Exists(s)
    BY <1>5, RecordedFacts DEF PaymentsOf
  <2>9. MoneyOK(s)'
    BY <1>2, <1>3, <1>5, <1>9, <2>2, <2>7, <2>8, MoneyKept
  <2> QED BY <2>1, <2>6, <2>9
<1> QED
  BY <1>2, <1>3, <1>5, <1>6, <1>7, <1>9, <1>10, OthersLeft

\* A schedule receives a payment in full or in part.
LEMMA StatusForCases ==
  ASSUME NEW s, NEW n, NEW y
  PROVE  StatusFor(s, n, y) = "reported" => y = "reported"
BY DEF StatusFor

\* The money of a schedule that receives one more confirmed payment.
LEMMA MoneyGrows ==
  ASSUME TypeInv, TypeInv', NEW s \in Schedules, s \notin raced, MoneyOK(s), Exists(s),
         UNCHANGED <<credited, miscounted>>, NEW p \in Payments, p \notin Confirmed(s),
         Confirmed(s)' = Confirmed(s) \cup {p}, \A q \in Confirmed(s) : pay'[q] = pay[q],
         sched'[s].received = sched[s].received + pay'[p].amount
  PROVE  MoneyOK(s)'
<1>1. AmountOf(Confirmed(s))' = pay'[p].amount + AmountOf(Confirmed(s))
  BY ConfirmedGrows
<1>2. pay'[p].amount \in Nat /\ AmountOf(Confirmed(s)) \in Nat /\ credited[s] \in Nat
  BY AmountsTypedNext, AmountTyped, ScheduleFacts DEF Confirmed, PaymentsOf
<1> QED
  BY <1>1, <1>2 DEF MoneyOK

LEMMA ConfirmWithInvoiceSchedule ==
  ASSUME TypeInv, ScheduleInv, NEW r \in Requests, ConfirmWithInvoice(r)
  PROVE  ScheduleInv'
<1>1. PICK s, p, n : s = req[r].schedule /\ p = req[r].row /\ n = req[r].seen + req[r].amount
  OBVIOUS
<1>2. /\ Touch(s, r) /\ End(r) /\ req[r].pc = "commit"
      /\ UNCHANGED <<credited, miscounted, forced>>
  BY <1>1 DEF ConfirmWithInvoice, ConfirmPayment
<1>3. TypeInv' /\ DecidedRow(r, "confirmed") /\ Received(s, n, "pending")
  BY <1>1, ConfirmWithInvoiceType
<1>4. Recorded(req[r].row)
  BY <1>2, FieldTypes DEF RequestOK, LockingPc
<1>5. /\ p \in Payments /\ s \in Schedules
      /\ pay'[p].status = "confirmed" /\ pay'[p].amount = req[r].amount
      /\ \A t \in Schedules : t # s => PaymentsSame(t)
      /\ PaymentsOf(s)' = PaymentsOf(s) /\ p \in PaymentsOf(s)
      /\ \A q \in Payments : q # p => pay'[q] = pay[q]
  BY <1>1, <1>2, <1>3, <1>4, DecidedFrame DEF ContractPaymentStatus
<1>6. HistoryKept
  BY <1>2, TouchKeeps
<1>7. \A t \in Schedules : HandSame(t)
  BY <1>2, EndedHands
<1>8. ASSUME s \notin raced' PROVE Known(s)' /\ MoneyOK(s)' /\ ReportOK(s)'
  <2>1. Known(s)'
    BY <1>2, <1>5, EndedKnown
  <2>2. s \notin raced /\ MoneyOK(s)
    BY <1>2, <1>5, <1>8, TouchedAlone DEF ScheduleInv
  <2>3. pay[p].status = "reported" /\ req[r].seen = sched[s].received
    BY <1>1, <1>2, <1>5, <2>2, Alone DEF Current
  <2>4. ReportOK(s)'
    BY <1>3, StatusForCases DEF ReportOK, Received
  <2>5. p \notin Confirmed(s) /\ Confirmed(s)' = Confirmed(s) \cup {p}
    BY <1>5, <2>3 DEF Confirmed, PaymentsOf
  <2>6. \A q \in Confirmed(s) : pay'[q] = pay[q]
    BY <1>5, <2>5 DEF Confirmed, PaymentsOf
  <2>7. Exists(s)
    BY <1>5, RecordedFacts DEF PaymentsOf
  <2>8. sched'[s].received = sched[s].received + pay'[p].amount
    BY <1>1, <1>3, <1>5, <2>3 DEF Received
  <2>9. MoneyOK(s)'
    BY <1>2, <1>3, <1>5, <2>2, <2>5, <2>6, <2>7, <2>8, MoneyGrows
  <2> QED BY <2>1, <2>4, <2>9
<1> QED
  BY <1>2, <1>3, <1>5, <1>6, <1>7, <1>8, OthersLeft DEF Received

\* A payment recorded by an administrator or credited from an invoice.
LEMMA PaymentReceived ==
  ASSUME TypeInv, TypeInv', ScheduleInv, NEW r \in Requests, NEW s \in Schedules,
         s = req[r].schedule, Touch(s, r), End(r), Exists(s), req[r].pc \in {"record", "credit"},
         UNCHANGED <<credited, miscounted, forced>>, NEW y, y = "reported" => y = req[r].old /\ req[r].pc = "record",
         Received(s, req[r].seen + req[r].amount, y),
         NEW p \in Payments, Made(p, s, req[r].amount, "confirmed")
  PROVE  ScheduleInv'
<1>1. HistoryKept
  BY TouchKeeps
<1>2. \A t \in Schedules : HandSame(t)
  BY EndedHands
<1>3. PICK n : n = req[r].amount
  OBVIOUS
<1>4. /\ \A t \in Schedules : t # s => PaymentsSame(t)
      /\ PaymentsOf(s)' = PaymentsOf(s) \cup {p} /\ p \notin PaymentsOf(s)
      /\ \A q \in PaymentsOf(s) : pay'[q] = pay[q]
  BY PaymentsMade DEF ContractPaymentStatus
<1>5. pay'[p].status = "confirmed" /\ pay'[p].amount = req[r].amount
  BY DEF Made
<1>6. ASSUME s \notin raced' PROVE Known(s)' /\ MoneyOK(s)' /\ ReportOK(s)'
  <2>1. Known(s)'
    BY EndedKnown
  <2>2. s \notin raced /\ MoneyOK(s) /\ ReportOK(s)
    BY <1>6, TouchedAlone DEF ScheduleInv
  <2>3. Current(r)
    BY <2>2, Alone
  <2>4. req[r].seen = sched[s].received
    BY <2>3 DEF Current
  <2>5. sched'[s].status = "reported" => sched[s].status = "reported"
    BY <2>3, StatusForCases DEF Received, Current
  <2>6. ReportOK(s)'
    BY <1>4, <2>2, <2>5 DEF ReportOK
  <2>7. p \notin Confirmed(s) /\ Confirmed(s)' = Confirmed(s) \cup {p}
    BY <1>4, <1>5 DEF Confirmed
  <2>8. \A q \in Confirmed(s) : pay'[q] = pay[q]
    BY <1>4 DEF Confirmed
  <2>9. sched'[s].received = sched[s].received + pay'[p].amount
    BY <1>5, <2>4 DEF Received
  <2>10. MoneyOK(s)'
    BY <2>2, <2>7, <2>8, <2>9, MoneyGrows
  <2> QED BY <2>1, <2>6, <2>10
<1> QED
  BY <1>1, <1>2, <1>4, <1>6, OthersLeft DEF Received

LEMMA RecordPaymentSchedule ==
  ASSUME TypeInv, ScheduleInv, NEW r \in Requests, RecordPayment(r), UNCHANGED invoiceHistory
  PROVE  ScheduleInv'
<1>1. PICK s, y : s = req[r].schedule /\ y = req[r].old
  OBVIOUS
<1>2. /\ Touch(s, r) /\ End(r) /\ req[r].pc = "record" /\ Exists(s)
      /\ UNCHANGED <<credited, miscounted, forced>>
  BY <1>1 DEF RecordPayment
<1>3. s \in Schedules
  BY <1>1, <1>2, FieldTypes DEF RequestOK
<1>4. TypeInv' /\ Received(s, req[r].seen + req[r].amount, y)
  BY <1>1, RecordPaymentType
<1>5. PICK p \in Payments : Made(p, s, req[r].amount, "confirmed")
  BY <1>1, RecordPaymentType
<1> QED
  BY <1>1, <1>2, <1>3, <1>4, <1>5, PaymentReceived

LEMMA CreditFromInvoiceSchedule ==
  ASSUME TypeInv, ScheduleInv, NEW r \in Requests, CreditFromInvoice(r)
  PROVE  ScheduleInv'
<1>1. PICK s, y : s = req[r].schedule /\ y = "pending"
  OBVIOUS
<1>2. /\ Touch(s, r) /\ End(r) /\ req[r].pc = "credit" /\ Exists(s)
      /\ UNCHANGED <<credited, miscounted, forced>>
  BY <1>1 DEF CreditFromInvoice, End, AfterCredit
<1>3. s \in Schedules
  BY <1>1, <1>2, FieldTypes DEF RequestOK
<1>4. TypeInv' /\ Received(s, req[r].seen + req[r].amount, y)
  BY <1>1, CreditFromInvoiceType
<1>5. PICK p \in Payments : Made(p, s, req[r].amount, "confirmed")
  BY <1>1, CreditFromInvoiceType
<1>6. y = "reported" => y = req[r].old /\ req[r].pc = "record"
  BY <1>1
<1>7. s = req[r].schedule /\ req[r].pc \in {"record", "credit"}
  BY <1>1, <1>2
<1> QED
  BY <1>2, <1>3, <1>4, <1>5, <1>6, <1>7, PaymentReceived

LEMMA DeletePaymentSchedule ==
  ASSUME TypeInv, ScheduleInv, NEW r \in Requests, DeletePayment(r), UNCHANGED invoiceHistory
  PROVE  ScheduleInv'
<1>1. PICK s, p, n : s = req[r].schedule /\ p = req[r].row /\ n = req[r].seen
  OBVIOUS
<1>2. /\ Touch(s, r) /\ End(r) /\ req[r].pc = "sum"
      /\ UNCHANGED <<credited, forced>>
      /\ miscounted' =
           IF credited[s] > 0 \/ \E q \in Remaining(r) : pay[q].status # "confirmed"
           THEN miscounted \cup {s} ELSE miscounted
  BY <1>1 DEF DeletePayment
<1>3. TypeInv' /\ DeletedRow(r) /\ Received(s, n, DueStatus(s))
  BY <1>1, DeletePaymentType
<1>4. /\ p \in Payments /\ s \in Schedules /\ Recorded(p) /\ pay[p].schedule = s
  BY <1>1, <1>2, FieldTypes DEF RequestOK, PaymentPc, LockingPc
<1>5. /\ pay'[p].status = "deleted" /\ pay'[p].schedule = s
      /\ \A q \in Payments : q # p => pay'[q] = pay[q]
  BY <1>1, <1>3, <1>4 DEF DeletedRow
<1>6. ~Recorded(p)'
  BY <1>5 DEF Recorded, ContractPaymentStatus
<1>7. /\ \A t \in Schedules : t # s => PaymentsSame(t)
      /\ PaymentsOf(s)' = PaymentsOf(s) \ {p}
  BY <1>4, <1>5, <1>6, PaymentsWritten
<1>8. HistoryKept
  BY <1>2, TouchKeeps
<1>9. \A t \in Schedules : HandSame(t)
  BY <1>2, EndedHands
<1>10. ASSUME s \notin raced' PROVE Known(s)' /\ MoneyOK(s)' /\ ReportOK(s)'
  <2>1. Known(s)'
    BY <1>2, <1>4, EndedKnown
  <2>2. s \notin raced
    BY <1>2, <1>4, <1>10, TouchedAlone
  <2>3. n = AmountOf(Remaining(r)) /\ Remaining(r) = PaymentsOf(s) \ {p}
    BY <1>1, <1>2, <1>4, <2>2, Alone DEF Current, Remaining
  <2>4. ReportOK(s)'
    <3>1. DueStatus(s) # "reported"
      BY DEF DueStatus
    <3> QED BY <1>3, <3>1, StatusForCases DEF ReportOK, Received
  <2>5. ASSUME s \notin miscounted' PROVE MoneyOK(s)'
    <3>1. credited[s] = 0 /\ \A q \in Remaining(r) : pay[q].status = "confirmed"
      BY <1>2, <1>4, <2>5, ScheduleFacts
    <3>2. Confirmed(s)' = Remaining(r)
      <4>1. \A q \in Remaining(r) : pay'[q] = pay[q]
        BY <1>5, <2>3 DEF PaymentsOf
      <4> QED BY <1>7, <2>3, <3>1, <4>1 DEF Confirmed
    <3>3. Remaining(r) \in SUBSET Payments /\ \A q \in Remaining(r) : pay'[q] = pay[q]
      BY <1>5, <2>3 DEF PaymentsOf
    <3>4. AmountOf(Confirmed(s))' = Added(pay', Remaining(r))
      BY <3>2, AmountAdded
    <3>5. AmountOf(Confirmed(s))' = n
      BY <1>3, <2>3, <3>3, <3>4, SumSame
    <3>6. n \in Nat
      BY <1>1, FieldTypes
    <3> QED BY <1>2, <1>3, <3>1, <3>5, <3>6 DEF MoneyOK, Received
  <2>6. MoneyOK(s)'
    BY <2>5 DEF MoneyOK
  <2> QED BY <2>1, <2>4, <2>6
<1> QED
  BY <1>2, <1>3, <1>4, <1>7, <1>8, <1>9, <1>10, OthersLeft DEF Received

LEMMA DeleteScheduleSchedule ==
  ASSUME TypeInv, ScheduleInv, NEW r \in Requests, DeleteSchedule(r), UNCHANGED invoiceHistory
  PROVE  ScheduleInv'
<1>1. PICK s : s = req[r].schedule
  OBVIOUS
<1>2. /\ Touch(s, r) /\ End(r) /\ req[r].pc = "drop"
      /\ UNCHANGED <<credited, miscounted, forced>>
  BY <1>1 DEF DeleteSchedule
<1>3. TypeInv' /\ StatusSet(s, "deleted")
      /\ \A p \in Payments : pay'[p] =
            IF p \in PaymentsOf(s) THEN [pay[p] EXCEPT !.status = "deleted"] ELSE pay[p]
  BY <1>1, DeleteScheduleType
<1>4. s \in Schedules
  BY <1>1, <1>2, FieldTypes DEF RequestOK
<1>5. \A p \in Payments : IF p \in PaymentsOf(s) THEN pay'[p].status = "deleted" ELSE pay'[p] = pay[p]
  BY <1>3 DEF TypeInv, InvoiceTypeOK, LedgerTypeOK, PaymentRow
<1>6. \A t \in Schedules : t # s => PaymentsSame(t)
  <2> SUFFICES ASSUME NEW t \in Schedules, t # s PROVE PaymentsSame(t)
    OBVIOUS
  <2>1. \A p \in Payments : p \in PaymentsOf(s) => ~Recorded(p)' /\ p \notin PaymentsOf(t)
    BY <1>5 DEF PaymentsOf, Recorded, ContractPaymentStatus
  <2>2. \A p \in Payments : p \notin PaymentsOf(s) => pay'[p] = pay[p]
    BY <1>5
  <2>3. PaymentsOf(t)' = PaymentsOf(t)
    BY <2>1, <2>2 DEF PaymentsOf, Recorded
  <2> QED BY <2>1, <2>2, <2>3 DEF PaymentsSame, PaymentsOf
<1>7. HistoryKept
  BY <1>2, TouchKeeps
<1>8. \A t \in Schedules : HandSame(t)
  BY <1>2, EndedHands
<1>9. Known(s)' /\ MoneyOK(s)' /\ ReportOK(s)'
  <2>1. Known(s)'
    BY <1>2, <1>4, EndedKnown
  <2>2. MoneyOK(s)' /\ ReportOK(s)'
    BY <1>3 DEF MoneyOK, ReportOK, StatusSet, Exists
  <2> QED BY <2>1, <2>2
<1> QED
  BY <1>2, <1>3, <1>4, <1>6, <1>7, <1>8, <1>9, OthersLeft DEF StatusSet

LEMMA CreateScheduleSchedule ==
  ASSUME TypeInv, ScheduleInv, NEW s \in Schedules, CreateSchedule(s), UNCHANGED invoiceHistory
  PROVE  ScheduleInv'
<1>1. TypeInv' /\ StatusSet(s, "pending")
  BY CreateScheduleType
<1>2. sched[s].status = "absent" /\ UNCHANGED <<pay, req, credited, raced, miscounted, forced>>
  BY DEF CreateSchedule, scheduleHistory
<1>3. \A t \in Schedules : PaymentsSame(t) /\ HandSame(t)
  BY <1>2 DEF PaymentsSame, PaymentsOf, Recorded, HandSame
<1>4. \A r \in Requests : req[r].schedule # s
  BY <1>2, FieldTypes DEF RequestOK
<1>5. Known(s)'
  BY <1>2, <1>4 DEF Known, InHand
<1>6. ReportOK(s)'
  BY <1>1 DEF ReportOK, StatusSet
<1>7. MoneyOK(s)'
  <2>1. sched[s].received = 0 /\ credited[s] = 0
    BY <1>2 DEF TypeInv, RowsOK
  <2>2. PaymentsOf(s) = {}
    BY <1>2, RecordedFacts DEF PaymentsOf
  <2>3. Confirmed(s)' = {}
    BY <1>3, <2>2 DEF Confirmed, PaymentsSame
  <2>4. AmountOf(Confirmed(s))' = Added(pay', {})
    BY <2>3, AmountAdded
  <2>5. Added(pay', {}) = 0
    BY <1>1, AmountsTypedNext, NothingAdded
  <2> QED BY <1>1, <1>2, <2>1, <2>4, <2>5 DEF MoneyOK, StatusSet
<1> QED
  BY <1>1, <1>2, <1>3, <1>5, <1>6, <1>7, OthersLeft DEF StatusSet, HistoryKept

LEMMA UpdateScheduleSchedule ==
  ASSUME TypeInv, ScheduleInv, NEW s \in Schedules, NEW y \in PaymentStatus, UpdateSchedule(s, y),
         UNCHANGED invoiceHistory
  PROVE  ScheduleInv'
<1>1. TypeInv' /\ StatusSet(s, y)
  BY UpdateScheduleType
<1>2. /\ Touch(s, NoRow) /\ Exists(s) /\ UNCHANGED <<pay, req, credited, miscounted>>
      /\ forced' = forced \cup {s}
  BY DEF UpdateSchedule
<1>3. HistoryKept
  BY <1>2, TouchKeeps
<1>4. \A t \in Schedules : PaymentsSame(t) /\ HandSame(t)
  BY <1>2 DEF PaymentsSame, PaymentsOf, Recorded, HandSame
<1>5. ASSUME s \notin raced' PROVE Known(s)' /\ MoneyOK(s)' /\ ReportOK(s)'
  <2>1. Known(s)'
    BY <1>2, TouchedKnown
  <2>2. s \notin raced /\ MoneyOK(s)
    BY <1>2, <1>5, TouchedAlone DEF ScheduleInv
  <2>3. Confirmed(s)' = Confirmed(s)
    BY <1>2 DEF Confirmed, PaymentsOf, Recorded
  <2>4. MoneyOK(s)'
    BY <1>1, <1>2, <2>2, <2>3, MoneyKept DEF StatusSet
  <2>5. ReportOK(s)'
    BY <1>2 DEF ReportOK
  <2> QED BY <2>1, <2>4, <2>5
<1> QED
  BY <1>1, <1>2, <1>3, <1>4, <1>5, OthersLeft DEF StatusSet

LEMMA CreditByWebhookSchedule ==
  ASSUME TypeInv, ScheduleInv, NEW s \in Schedules, NEW a \in Amounts, CreditByWebhook(s, a),
         UNCHANGED invoiceHistory
  PROVE  ScheduleInv'
<1>1. /\ TypeInv' /\ sched'[s].received = sched[s].received + a
      /\ sched'[s].status \in {"paid", "partial"}
      /\ \A t \in Schedules : t # s => sched'[t] = sched[t]
      /\ credited' = [credited EXCEPT ![s] = credited[s] + a]
  BY CreditByWebhookType
<1>2. /\ Touch(s, NoRow) /\ Exists(s) /\ UNCHANGED <<pay, req, miscounted, forced>>
  BY DEF CreditByWebhook
<1>3. HistoryKept
  BY <1>2, TouchKeeps
<1>4. \A t \in Schedules : PaymentsSame(t) /\ HandSame(t)
  BY <1>2 DEF PaymentsSame, PaymentsOf, Recorded, HandSame
<1>5. credited'[s] = credited[s] + a /\ \A t \in Schedules : t # s => credited'[t] = credited[t]
  BY <1>1 DEF TypeInv, InvoiceTypeOK, LedgerTypeOK
<1>6. ASSUME s \notin raced' PROVE Known(s)' /\ MoneyOK(s)' /\ ReportOK(s)'
  <2>1. Known(s)'
    BY <1>2, TouchedKnown
  <2>2. s \notin raced /\ MoneyOK(s)
    BY <1>2, <1>6, TouchedAlone DEF ScheduleInv
  <2>3. AmountOf(Confirmed(s))' = AmountOf(Confirmed(s)) /\ AmountOf(Confirmed(s)) \in Nat
    BY <1>1, <1>4, ConfirmedSame, AmountTyped DEF Confirmed, PaymentsOf
  <2>4. a \in Nat /\ sched[s].received \in Nat /\ credited[s] \in Nat
    BY ScheduleFacts
  <2>5. MoneyOK(s)'
    BY <1>1, <1>2, <1>5, <2>2, <2>3, <2>4 DEF MoneyOK
  <2>6. ReportOK(s)'
    BY <1>1 DEF ReportOK
  <2> QED BY <2>1, <2>5, <2>6
<1> QED
  BY <1>1, <1>2, <1>3, <1>4, <1>5, <1>6, OthersLeft

LEMMA RestartSchedule ==
  ASSUME TypeInv, ScheduleInv, Restart, UNCHANGED invoiceHistory
  PROVE  ScheduleInv'
<1> SUFFICES ASSUME NEW s \in Schedules PROVE Known(s)' /\ MoneyOK(s)' /\ ReportOK(s)'
  BY DEF ScheduleInv
<1>1. /\ TypeInv' /\ \A r \in Requests : req'[r] = Idle
      /\ sched'[s].received = sched[s].received
      /\ sched'[s].status \in {sched[s].status, "overdue"}
      /\ sched'[s].status # sched[s].status => sched[s].status = "pending"
  BY RestartType
<1>2. UNCHANGED <<pay, credited, raced, miscounted, forced>>
  BY DEF Restart, scheduleHistory
<1>3. Known(s)'
  BY <1>1, IdleIsRequest DEF Known, InHand
<1>4. PaymentsSame(s)
  BY <1>2 DEF PaymentsSame, PaymentsOf, Recorded
<1>5. MoneyOK(s) /\ ReportOK(s)
  BY DEF ScheduleInv
<1>6. MoneyOK(s)'
  BY <1>1, <1>2, <1>4, <1>5, ConfirmedSame DEF MoneyOK, Exists
<1>7. ReportOK(s)'
  BY <1>1, <1>2, <1>4, <1>5 DEF ReportOK, PaymentsSame
<1> QED
  BY <1>3, <1>6, <1>7

-----------------------------------------------------------------------------
(* Schedules: the next-state relation and the theorems *)

LEMMA ScheduleInvInit == InvoiceInit => ScheduleInv
<1> SUFFICES ASSUME InvoiceInit, NEW s \in Schedules PROVE Known(s) /\ MoneyOK(s) /\ ReportOK(s)
  BY DEF ScheduleInv
<1> USE DEF InvoiceInit, ScheduleInit
<1>1. InHand(s) = {}
  BY IdleIsRequest DEF InHand
<1>2. PaymentsOf(s) = {} /\ \A p \in Payments : pay[p].amount \in Nat
  BY DEF PaymentsOf, Recorded, Absent, ContractPaymentStatus
<1>3. AmountOf(Confirmed(s)) = 0
  BY <1>2, AmountAdded, NothingAdded DEF Confirmed
<1>4. sched[s].received = 0 /\ sched[s].status # "reported" /\ credited[s] = 0
  OBVIOUS
<1> QED
  BY <1>1, <1>3, <1>4 DEF Known, MoneyOK, ReportOK

LEMMA ScheduleStep == TypeInv /\ ScheduleInv /\ [LedgerNext]_invoiceVars => ScheduleInv'
<1> SUFFICES ASSUME TypeInv, ScheduleInv, [LedgerNext]_invoiceVars PROVE ScheduleInv'
  OBVIOUS
<1>0. TypeInv'
  BY TypeStep
<1>1. ASSUME NEW i \in Invoices, NEW x \in InvoiceStatus \cup {NoRow},
             NEW a \in Amounts \cup {NoRow}, UpdateInvoice(i, x, a)
      PROVE  ScheduleInv'
  BY <1>0, <1>1, QuietOthers DEF UpdateInvoice, InvoiceFrame, scheduleHistory, HistoryKept
<1>2. ASSUME NEW i \in Invoices, NEW a \in Amounts, SettleByWebhook(i, a) PROVE ScheduleInv'
  BY <1>0, <1>2, QuietOthers DEF SettleByWebhook, InvoiceFrame, scheduleHistory, HistoryKept
<1>3. ASSUME NEW r \in Requests, NEW i \in Invoices, NEW a \in Amounts, OpenReport(r, i, a)
      PROVE  ScheduleInv'
  BY <1>3, OpenReportSchedule
<1>4. ASSUME NEW r \in Requests, NEW i \in Invoices, NEW a \in Amounts, NEW d \in InvoiceDecisions,
             OpenInvoiceVerification(r, i, d, a)
      PROVE  ScheduleInv'
  BY <1>4, OpenInvoiceVerificationSchedule
<1>5. ASSUME NEW r \in Requests,
             \/ ReportOnInvoice(r) \/ ConfirmOnInvoice(r) \/ RejectOnInvoice(r)
             \/ SyncPaymentToSchedule(r) \/ CreditFromInvoice(r) \/ FailCredit(r)
             \/ OpenOverdue(r) \/ MarkInvoicesOverdue(r) \/ ConfirmWithInvoice(r)
      PROVE  ScheduleInv'
  <2>1. CASE ReportOnInvoice(r) \/ RejectOnInvoice(r) \/ FailCredit(r) \/ MarkInvoicesOverdue(r)
    <3>1. End(r) /\ UNCHANGED <<sched, pay, scheduleHistory>>
      BY <2>1 DEF ReportOnInvoice, RejectOnInvoice, FailCredit, MarkInvoicesOverdue, InvoiceFrame
    <3> QED BY <1>0, <3>1, EndsSchedule
  <2> QED
    BY <1>5, <2>1, ConfirmOnInvoiceSchedule, SyncPaymentToScheduleSchedule,
       CreditFromInvoiceSchedule, OpenOverdueSchedule, ConfirmWithInvoiceSchedule
<1>6. ASSUME NEW s \in Schedules, NEW a \in Amounts, ReportPayment(s, a) \/ CreditByWebhook(s, a),
             UNCHANGED invoiceHistory
      PROVE  ScheduleInv'
  BY <1>6, ReportPaymentSchedule, CreditByWebhookSchedule
<1>7. ASSUME NEW s \in Schedules, UNCHANGED invoiceHistory,
             CreateSchedule(s) \/ \E x \in PaymentStatus : UpdateSchedule(s, x)
      PROVE  ScheduleInv'
  BY <1>7, CreateScheduleSchedule, UpdateScheduleSchedule
<1>8. ASSUME NEW r \in Requests, NEW p \in Payments, NEW d \in Decisions, NEW a \in Amounts,
             OpenVerification(r, p, d, a), UNCHANGED invoiceHistory
      PROVE  ScheduleInv'
  BY <1>8, OpenVerificationSchedule
<1>9. ASSUME NEW r \in Requests, NEW p \in Payments, OpenDeletion(r, p), UNCHANGED invoiceHistory
      PROVE  ScheduleInv'
  BY <1>9, OpenDeletionSchedule
<1>10. ASSUME NEW r \in Requests, NEW s \in Schedules, NEW a \in Amounts,
              OpenRecording(r, s, a), UNCHANGED invoiceHistory
       PROVE  ScheduleInv'
  BY <1>10, OpenRecordingSchedule
<1>11. ASSUME NEW r \in Requests, NEW s \in Schedules, OpenDrop(r, s), UNCHANGED invoiceHistory
       PROVE  ScheduleInv'
  BY <1>11, OpenDropSchedule
<1>12. ASSUME NEW r \in Requests, UNCHANGED invoiceHistory,
              \/ EnterVerification(r) \/ LookUpInvoice(r) \/ CountReported(r)
              \/ RejectPayment(r) \/ KeepReported(r) \/ RecordPayment(r)
              \/ SumRemaining(r) \/ DeletePayment(r) \/ DeleteSchedule(r) \/ FailRequest(r)
       PROVE  ScheduleInv'
  <2>1. CASE FailRequest(r)
    BY <1>0, <2>1, EndsSchedule DEF FailRequest
  <2> QED
    BY <1>12, <2>1, EnterVerificationSchedule, LookUpInvoiceSchedule, CountReportedSchedule,
       RejectPaymentSchedule, KeepReportedSchedule, RecordPaymentSchedule,
       SumRemainingSchedule, DeletePaymentSchedule, DeleteScheduleSchedule
<1>13. CASE Restart /\ UNCHANGED invoiceHistory
  BY <1>13, RestartSchedule
<1>14. CASE UNCHANGED invoiceVars
  BY <1>0, <1>14, QuietOthers DEF invoiceVars, scheduleVars, scheduleHistory, HistoryKept
<1>15. CASE \/ \E i \in Invoices :
                 \/ \E status \in InvoiceStatus \cup {NoRow}, a \in Amounts \cup {NoRow} :
                      UpdateInvoice(i, status, a)
                 \/ \E a \in Amounts : SettleByWebhook(i, a)
            \/ \E r \in Requests :
                 \/ \E i \in Invoices, a \in Amounts :
                      \/ OpenReport(r, i, a)
                      \/ \E d \in InvoiceDecisions : OpenInvoiceVerification(r, i, d, a)
                 \/ ReportOnInvoice(r) \/ ConfirmOnInvoice(r) \/ RejectOnInvoice(r)
                 \/ SyncPaymentToSchedule(r) \/ CreditFromInvoice(r) \/ FailCredit(r)
                 \/ OpenOverdue(r) \/ MarkInvoicesOverdue(r)
                 \/ ConfirmWithInvoice(r)
  BY <1>15, <1>1, <1>2, <1>3, <1>4, <1>5
<1> QED
  BY <1>6, <1>7, <1>8, <1>9, <1>10, <1>11, <1>12, <1>13, <1>14, <1>15 DEF LedgerNext

LEMMA ScheduleInvariant == LedgerSpec => [](TypeInv /\ ScheduleInv)
<1>1. InvoiceInit => TypeInv /\ ScheduleInv
  BY TypeInit, ScheduleInvInit
<1>2. TypeInv /\ ScheduleInv /\ [LedgerNext]_invoiceVars => (TypeInv /\ ScheduleInv)'
  BY TypeStep, ScheduleStep
<1> QED
  BY <1>1, <1>2, PTL DEF LedgerSpec

\* What a schedule has received is what its confirmed payments and the webhooks'
\* credits add up to, for every number of requests and any amounts, unless two
\* requests had it in hand at once or a deletion recomputed it.
THEOREM LedgerMoney == LedgerSpec => []ReceivedMatchesPayments
<1>1. ScheduleInv => ReceivedMatchesPayments
  BY DEF ScheduleInv, MoneyOK, ReceivedMatchesPayments
<1> QED
  BY <1>1, ScheduleInvariant, PTL

\* A schedule shown as reported has a report to decide, unless it was raced or
\* set by hand.
THEOREM LedgerReports == LedgerSpec => []ReportAwaitsDecision
<1>1. ScheduleInv => ReportAwaitsDecision
  BY DEF ScheduleInv, ReportOK, ReportAwaitsDecision
<1> QED
  BY <1>1, ScheduleInvariant, PTL

\* How a payment goes, if it goes at all.
PaymentGoes(p) ==
    Recorded(p) /\ ~Recorded(p)' =>
        \/ \E r \in Requests : req[r].pc = "sum" /\ req[r].row = p
        \/ pay[p].schedule \in raced'

LEMMA PaymentKept ==
  ASSUME TypeInv, ScheduleInv, [LedgerNext]_invoiceVars, NEW p \in Payments
  PROVE  PaymentGoes(p)
<1> SUFFICES ASSUME Recorded(p), ~Recorded(p)'
             PROVE  \/ \E r \in Requests : req[r].pc = "sum" /\ req[r].row = p
                    \/ pay[p].schedule \in raced'
  BY DEF PaymentGoes
<1>1. pay' # pay
  BY DEF Recorded
<1>2. ASSUME NEW t \in Payments, NEW s \in Schedules, NEW n, NEW y \in ContractPaymentStatus, Made(t, s, n, y)
      PROVE  FALSE
  BY <1>2 DEF Made, Recorded, ContractPaymentStatus
<1>3. ASSUME NEW r \in Requests, NEW d \in ContractPaymentStatus, DecidedRow(r, d)
      PROVE  FALSE
  BY <1>3 DEF DecidedRow, Recorded
<1>4. ASSUME NEW s \in Schedules, NEW a \in Amounts, ReportPayment(s, a), UNCHANGED invoiceHistory
      PROVE  FALSE
  <2>1. "reported" \in ContractPaymentStatus
    BY DEF ContractPaymentStatus
  <2> QED BY <1>2, <1>4, <2>1, ReportPaymentType
<1>5. ASSUME NEW r \in Requests, CreditFromInvoice(r) \/ (UNCHANGED invoiceHistory /\ RecordPayment(r))
      PROVE  FALSE
  <2>1. PICK s : s = req[r].schedule
    OBVIOUS
  <2>2. s \in Schedules /\ "confirmed" \in ContractPaymentStatus
    BY <1>5, <2>1, FieldTypes DEF CreditFromInvoice, RecordPayment, RequestOK, ContractPaymentStatus
  <2>3. \E t \in Payments : Made(t, s, req[r].amount, "confirmed")
    BY <1>5, <2>1, CreditFromInvoiceType, RecordPaymentType
  <2> QED BY <1>2, <2>2, <2>3
<1>6. ASSUME NEW r \in Requests, ConfirmWithInvoice(r) PROVE FALSE
  <2>1. "confirmed" \in ContractPaymentStatus
    BY DEF ContractPaymentStatus
  <2> QED BY <1>3, <1>6, <2>1, ConfirmWithInvoiceType
<1>18. ASSUME NEW r \in Requests, UNCHANGED invoiceHistory, RejectPayment(r) \/ KeepReported(r)
       PROVE FALSE
  <2>1. {"rejected", "reported"} \subseteq ContractPaymentStatus
    BY DEF ContractPaymentStatus
  <2> QED BY <1>3, <1>18, <2>1, RejectPaymentType, KeepReportedType
<1>7. ASSUME NEW r \in Requests, DeletePayment(r), UNCHANGED invoiceHistory
      PROVE  req[r].pc = "sum" /\ req[r].row = p
  BY <1>7, DeletePaymentType DEF DeletedRow, DeletePayment, Recorded
<1>8. ASSUME NEW r \in Requests, DeleteSchedule(r), UNCHANGED invoiceHistory
      PROVE  pay[p].schedule \in raced'
  <2>1. PICK s : s = req[r].schedule
    OBVIOUS
  <2>2. s \in Schedules /\ Touch(s, r) /\ req[r].pc = "drop"
    BY <1>8, <2>1, FieldTypes DEF DeleteSchedule, RequestOK
  <2>3. p \in PaymentsOf(s)
    BY <1>8, <2>1 DEF DeleteSchedule, Recorded
  <2>4. s \in raced
    BY <2>1, <2>2, <2>3, Alone DEF Current
  <2> QED BY <2>2, <2>3, <2>4, RacedTyped DEF PaymentsOf
<1>9. ASSUME NEW i, NEW x, NEW a, UpdateInvoice(i, x, a) \/ SettleByWebhook(i, a) PROVE FALSE
  BY <1>9, <1>1 DEF UpdateInvoice, SettleByWebhook, InvoiceFrame
<1>10. ASSUME NEW r, NEW i, NEW d, NEW a, OpenReport(r, i, a) \/ OpenInvoiceVerification(r, i, d, a)
       PROVE  FALSE
  BY <1>10, <1>1 DEF OpenReport, OpenInvoiceVerification, InvoiceFrame
<1>11. ASSUME NEW r, \/ ReportOnInvoice(r) \/ ConfirmOnInvoice(r) \/ RejectOnInvoice(r)
                    \/ SyncPaymentToSchedule(r) \/ FailCredit(r)
                    \/ OpenOverdue(r) \/ MarkInvoicesOverdue(r)
       PROVE  FALSE
  BY <1>11, <1>1 DEF ReportOnInvoice, ConfirmOnInvoice, RejectOnInvoice, SyncPaymentToSchedule,
     FailCredit, OpenOverdue, MarkInvoicesOverdue, InvoiceFrame
<1>12. ASSUME NEW r, NEW q, NEW d, NEW a, OpenVerification(r, q, d, a) \/ OpenDeletion(r, q)
       PROVE  FALSE
  BY <1>12, <1>1 DEF OpenVerification, OpenDeletion
<1>15. ASSUME NEW r, NEW s, NEW a, OpenRecording(r, s, a) \/ OpenDrop(r, s) PROVE FALSE
  BY <1>15, <1>1 DEF OpenRecording, OpenDrop
<1>16. ASSUME NEW s, NEW a, CreditByWebhook(s, a) \/ CreateSchedule(s) \/ UpdateSchedule(s, a)
       PROVE  FALSE
  BY <1>16, <1>1 DEF CreditByWebhook, CreateSchedule, UpdateSchedule
<1>17. CASE \/ \E i \in Invoices :
                 \/ \E status \in InvoiceStatus \cup {NoRow}, a \in Amounts \cup {NoRow} :
                      UpdateInvoice(i, status, a)
                 \/ \E a \in Amounts : SettleByWebhook(i, a)
            \/ \E r \in Requests :
                 \/ \E i \in Invoices, a \in Amounts :
                      \/ OpenReport(r, i, a)
                      \/ \E d \in InvoiceDecisions : OpenInvoiceVerification(r, i, d, a)
                 \/ ReportOnInvoice(r) \/ ConfirmOnInvoice(r) \/ RejectOnInvoice(r)
                 \/ SyncPaymentToSchedule(r) \/ CreditFromInvoice(r) \/ FailCredit(r)
                 \/ OpenOverdue(r) \/ MarkInvoicesOverdue(r)
                 \/ ConfirmWithInvoice(r)
  <2>1. ASSUME NEW i \in Invoices,
               \/ \E status \in InvoiceStatus \cup {NoRow}, a \in Amounts \cup {NoRow} :
                    UpdateInvoice(i, status, a)
               \/ \E a \in Amounts : SettleByWebhook(i, a)
        PROVE  FALSE
    BY <2>1, <1>9
  <2>2. ASSUME NEW r \in Requests, NEW i \in Invoices, NEW a \in Amounts,
               \/ OpenReport(r, i, a)
               \/ \E d \in InvoiceDecisions : OpenInvoiceVerification(r, i, d, a)
        PROVE  FALSE
    BY <2>2, <1>10
  <2>3. ASSUME NEW r \in Requests,
               \/ ReportOnInvoice(r) \/ ConfirmOnInvoice(r) \/ RejectOnInvoice(r)
               \/ SyncPaymentToSchedule(r) \/ CreditFromInvoice(r) \/ FailCredit(r)
               \/ OpenOverdue(r) \/ MarkInvoicesOverdue(r)
               \/ ConfirmWithInvoice(r)
        PROVE  FALSE
    <3>1. CASE CreditFromInvoice(r)
      <4>1. CreditFromInvoice(r) \/ (UNCHANGED invoiceHistory /\ RecordPayment(r))
        BY <3>1
      <4> QED BY <4>1, <1>5
    <3>2. CASE ConfirmWithInvoice(r)
      BY <3>2, <1>6
    <3>3. CASE \/ ReportOnInvoice(r) \/ ConfirmOnInvoice(r) \/ RejectOnInvoice(r)
               \/ SyncPaymentToSchedule(r) \/ FailCredit(r)
               \/ OpenOverdue(r) \/ MarkInvoicesOverdue(r)
      BY <3>3, <1>11
    <3> QED BY <2>3, <3>1, <3>2, <3>3
  <2> QED BY <1>17, <2>1, <2>2, <2>3
<1>13. ASSUME NEW r \in Requests, UNCHANGED invoiceHistory,
              \/ EnterVerification(r) \/ LookUpInvoice(r) \/ CountReported(r)
              \/ RejectPayment(r) \/ KeepReported(r) \/ RecordPayment(r)
              \/ SumRemaining(r) \/ DeletePayment(r) \/ DeleteSchedule(r) \/ FailRequest(r)
       PROVE  \/ req[r].pc = "sum" /\ req[r].row = p
              \/ pay[p].schedule \in raced'
  BY <1>13, <1>1, <1>5, <1>7, <1>8, <1>18
     DEF EnterVerification, LookUpInvoice, CountReported, SumRemaining, FailRequest
<1>14. CASE Restart \/ UNCHANGED invoiceVars
  BY <1>14, <1>1 DEF Restart, invoiceVars, scheduleVars
<1> QED
  BY <1>4, <1>12, <1>13, <1>14, <1>15, <1>16, <1>17 DEF LedgerNext

\* A payment row goes only by its own deletion, or with a schedule found empty
\* before it was made and deleted after.
THEOREM LedgerPayments == LedgerSpec => PaymentsKept
<1>1. TypeInv /\ ScheduleInv /\ [LedgerNext]_invoiceVars =>
         [\A p \in Payments :
           Recorded(p) /\ ~Recorded(p)' =>
              \/ \E r \in Requests : req[r].pc = "sum" /\ req[r].row = p
              \/ pay[p].schedule \in raced']_scheduleVars
  BY PaymentKept DEF PaymentGoes
<1> QED
  BY <1>1, ScheduleInvariant, PTL DEF LedgerSpec, PaymentsKept

-----------------------------------------------------------------------------
(* Invoices: reports and the decisions on them *)

\* The requests about the invoice were about it before; one may have found the
\* schedule to credit.
AboutStays(i) ==
    \A t \in Requests : req'[t].pc \in ReportPc /\ req'[t].row = i =>
        /\ req[t].pc \in ReportPc /\ req[t].row = i
        /\ req'[t].pc = req[t].pc \/ (req[t].pc = "sync" /\ req'[t].pc = "credit")

\* What a step that neither reports, decides nor credits leaves of an invoice.
LEMMA InvoiceLeft ==
  ASSUME NEW i \in Invoices, InvoiceOK(i), inv'[i].report = inv[i].report,
         PaidByVerification(i)' => PaidByVerification(i),
         reports'[i] = reports[i], synced'[i] = synced[i],
         redecided \subseteq redecided', contested \subseteq contested', AboutStays(i)
  PROVE  InvoiceOK(i)'
<1> SUFFICES ASSUME i \notin redecided', i \notin contested'
             PROVE  /\ (\A q, r \in About(i) : q = r)'
                    /\ synced'[i] <= reports'[i]
                    /\ inv'[i].report.decision = "open" => synced'[i] < reports'[i]
                    /\ PaidByVerification(i)' => inv'[i].report.decision = "confirmed"
                    /\ \A r \in About(i)' :
                         /\ req'[r].pc \in {"approve", "sync", "credit"} => synced'[i] < reports'[i]
                         /\ req'[r].pc \in {"sync", "credit"} => inv'[i].report.decision = "confirmed"
                         /\ req'[r].pc \in {"report", "refuse"} => ~PaidByVerification(i)'
  BY DEF InvoiceOK
<1>1. i \notin redecided /\ i \notin contested
  OBVIOUS
<1>2. \A r \in About(i)' : /\ r \in About(i)
                           /\ req'[r].pc = req[r].pc \/ (req[r].pc = "sync" /\ req'[r].pc = "credit")
  BY DEF About, AboutStays
<1> QED
  BY <1>1, <1>2 DEF InvoiceOK

\* A step that leaves all the invoices, of a request that is about none after it.
LEMMA InvoicesLeft ==
  ASSUME InvoiceInv, inv' = inv, UNCHANGED invoiceHistory, NEW r \in Requests,
         \A t \in Requests : t # r => req'[t] = req[t], req'[r].pc \notin ReportPc
  PROVE  InvoiceInv'
<1> SUFFICES ASSUME NEW i \in Invoices PROVE InvoiceOK(i)'
  BY DEF InvoiceInv
<1>1. InvoiceOK(i) /\ AboutStays(i)
  BY DEF InvoiceInv, AboutStays
<1> QED
  BY <1>1, InvoiceLeft DEF invoiceHistory, PaidByVerification

\* The same of a request that begins, goes on or ends.
LEMMA InvoicesLeftByOpening ==
  ASSUME TypeInv, InvoiceInv, inv' = inv, UNCHANGED invoiceHistory, NEW r \in Requests,
         NEW q, req' = [req EXCEPT ![r] = q], q.pc \notin ReportPc
  PROVE  InvoiceInv'
<1>1. req'[r] = q /\ \A t \in Requests : t # r => req'[t] = req[t]
  BY DEF TypeInv, InvoiceTypeOK, LedgerTypeOK
<1> QED
  BY <1>1, InvoicesLeft

LEMMA InvoicesLeftByEnd ==
  ASSUME TypeInv, InvoiceInv, inv' = inv, UNCHANGED invoiceHistory, NEW r \in Requests, End(r)
  PROVE  InvoiceInv'
<1>1. req'[r].pc \notin ReportPc
  BY Ended, IdleIsRequest DEF ReportPc
<1> QED
  BY <1>1, Ended, InvoicesLeft

LEMMA InvoicesLeftByOthers ==
  ASSUME InvoiceInv, UNCHANGED <<inv, req>>, UNCHANGED invoiceHistory
  PROVE  InvoiceInv'
<1> SUFFICES ASSUME NEW i \in Invoices PROVE InvoiceOK(i)'
  BY DEF InvoiceInv
<1>1. InvoiceOK(i) /\ AboutStays(i)
  BY DEF InvoiceInv, AboutStays
<1> QED
  BY <1>1, InvoiceLeft DEF invoiceHistory, PaidByVerification

\* An invoice a request has in hand uncontested is in no other hands.
LEMMA HeldAlone ==
  ASSUME NEW i, NEW r, Contest(i, r)
  PROVE  /\ contested \subseteq contested'
         /\ i \notin contested' => \A t \in Requests : t # r => req[t].row # i
BY DEF Contest, Holders

\* A step that touches one invoice.
LEMMA OtherInvoices ==
  ASSUME InvoiceInv, NEW i \in Invoices, NEW r, Contest(i, r), redecided \subseteq redecided',
         \A j \in Invoices : j # i =>
            /\ inv'[j] = inv[j] /\ settledBy'[j] = settledBy[j]
            /\ reports'[j] = reports[j] /\ synced'[j] = synced[j],
         \A t \in Requests : t # r => req'[t] = req[t],
         r \in Requests => req'[r].row \in {i, req[r].row, NoRow},
         r \in Requests /\ req'[r].row = req[r].row /\ req[r].row # i => req'[r].pc \notin ReportPc,
         i \notin contested' /\ i \notin redecided' => InvoiceOK(i)'
  PROVE  InvoiceInv'
<1> SUFFICES ASSUME NEW j \in Invoices PROVE InvoiceOK(j)'
  BY DEF InvoiceInv
<1>1. CASE j = i
  BY <1>1 DEF InvoiceOK
<1>2. CASE j # i
  <2>1. AboutStays(j)
    BY <1>2, RowAssumption DEF AboutStays
  <2> QED
    BY <1>2, <2>1, InvoiceLeft, HeldAlone DEF InvoiceInv, PaidByVerification
<1> QED
  BY <1>1, <1>2

\* The request that touches an uncontested invoice is the only one about it.
LEMMA OneAbout ==
  ASSUME NEW i, NEW r \in Requests, Contest(i, r), i \notin contested',
         \A t \in Requests : t # r => req'[t] = req[t]
  PROVE  i \notin contested /\ About(i)' \subseteq {r} /\ About(i) \subseteq {r}
BY HeldAlone DEF About

LEMMA OpenReportInvoice ==
  ASSUME TypeInv, InvoiceInv, NEW r \in Requests, NEW i \in Invoices, NEW a \in Amounts,
         OpenReport(r, i, a)
  PROVE  InvoiceInv'
<1> DEFINE q == [Idle EXCEPT !.pc = "report", !.row = i, !.amount = a]
<1>1. q.pc = "report" /\ q.row = i /\ req' = [req EXCEPT ![r] = q]
  BY DEF Idle, OpenReport
<1> HIDE DEF q
<1>2. /\ req'[r].pc = "report" /\ req'[r].row = i
      /\ \A t \in Requests : t # r => req'[t] = req[t]
  BY <1>1 DEF TypeInv, InvoiceTypeOK, LedgerTypeOK
<1>3. /\ Contest(i, r) /\ UNCHANGED <<inv, settledBy, reports, synced, redecided>>
      /\ inv[i].status # "paid"
  BY DEF OpenReport, MayReport
<1>4. ASSUME i \notin contested', i \notin redecided' PROVE InvoiceOK(i)'
  <2>1. InvoiceOK(i) /\ About(i)' \subseteq {r} /\ i \notin contested /\ i \notin redecided
    BY <1>2, <1>3, <1>4, OneAbout DEF InvoiceInv
  <2>2. /\ synced'[i] <= reports'[i]
        /\ inv'[i].report.decision = "open" => synced'[i] < reports'[i]
        /\ ~PaidByVerification(i)'
    BY <1>3, <2>1 DEF InvoiceOK, PaidByVerification
  <2> QED
    BY <1>2, <2>1, <2>2 DEF InvoiceOK
<1> QED
  BY <1>2, <1>3, <1>4, OtherInvoices

LEMMA OpenInvoiceVerificationInvoice ==
  ASSUME TypeInv, InvoiceInv, NEW r \in Requests, NEW i \in Invoices, NEW d \in InvoiceDecisions,
         NEW a \in Amounts, OpenInvoiceVerification(r, i, d, a)
  PROVE  InvoiceInv'
<1>1. PICK n : n = inv[i].report.amount
  OBVIOUS
<1> DEFINE q == [Idle EXCEPT !.pc = d, !.row = i, !.amount = a, !.seen = n]
<1>2. q.pc = d /\ q.row = i /\ req' = [req EXCEPT ![r] = q]
  BY <1>1 DEF Idle, OpenInvoiceVerification
<1> HIDE DEF q
<1>3. /\ req'[r].pc = d /\ req'[r].row = i
      /\ \A t \in Requests : t # r => req'[t] = req[t]
  BY <1>2 DEF TypeInv, InvoiceTypeOK, LedgerTypeOK
<1>4. /\ Contest(i, r) /\ UNCHANGED <<inv, settledBy, reports, synced>>
      /\ redecided \subseteq redecided'
      /\ i \notin redecided' => i \notin redecided /\ inv[i].report.decision = "open"
  BY DEF OpenInvoiceVerification
<1>5. ASSUME i \notin contested', i \notin redecided' PROVE InvoiceOK(i)'
  <2>1. InvoiceOK(i) /\ About(i)' \subseteq {r} /\ i \notin contested /\ i \notin redecided
    BY <1>3, <1>4, <1>5, OneAbout DEF InvoiceInv
  <2>2. inv'[i].report.decision = "open" /\ synced'[i] < reports'[i] /\ ~PaidByVerification(i)'
    BY <1>4, <1>5, <2>1 DEF InvoiceOK, PaidByVerification
  <2>3. synced'[i] <= reports'[i]
    BY <2>2, <1>4 DEF TypeInv, InvoiceTypeOK
  <2>4. d \notin {"sync", "credit"}
    BY DEF InvoiceDecisions
  <2> QED
    BY <1>3, <2>1, <2>2, <2>3, <2>4 DEF InvoiceOK
<1> QED
  BY <1>3, <1>4, <1>5, OtherInvoices

LEMMA ReportOnInvoiceInvoice ==
  ASSUME TypeInv, InvoiceInv, NEW r \in Requests, ReportOnInvoice(r)
  PROVE  InvoiceInv'
<1>1. PICK i : i = req[r].row
  OBVIOUS
<1>2. /\ i \in Invoices /\ inv'[i].status = inv[i].status /\ inv'[i].report.decision = "open"
      /\ \A j \in Invoices : j # i => inv'[j] = inv[j]
  BY <1>1, ReportOnInvoiceType
<1>3. /\ Contest(i, r) /\ End(r) /\ UNCHANGED <<settledBy, synced, redecided>>
      /\ reports' = [reports EXCEPT ![i] = @ + 1] /\ req[r].pc = "report"
  BY <1>1 DEF ReportOnInvoice
<1>4. /\ reports[i] \in Nat /\ synced[i] \in Nat /\ reports'[i] = reports[i] + 1
      /\ \A j \in Invoices : j # i => reports'[j] = reports[j]
  BY <1>2, <1>3 DEF TypeInv, InvoiceTypeOK
<1>5. /\ req'[r].pc \notin ReportPc /\ req'[r].row = NoRow
      /\ \A t \in Requests : t # r => req'[t] = req[t]
  BY <1>3, Ended DEF Idle, ReportPc
<1>6. ASSUME i \notin contested', i \notin redecided' PROVE InvoiceOK(i)'
  <2>1. InvoiceOK(i) /\ About(i)' \subseteq {r} /\ i \notin contested /\ i \notin redecided
    BY <1>2, <1>3, <1>5, <1>6, OneAbout DEF InvoiceInv
  <2>2. About(i)' = {}
    BY <1>5, <2>1 DEF About
  <2>3. r \in About(i)
    BY <1>1, <1>3 DEF About, ReportPc
  <2>4. synced[i] <= reports[i] /\ ~PaidByVerification(i)
    BY <1>3, <2>1, <2>3 DEF InvoiceOK
  <2>5. synced'[i] <= reports'[i] /\ synced'[i] < reports'[i] /\ ~PaidByVerification(i)'
    BY <1>2, <1>3, <1>4, <2>4 DEF PaidByVerification
  <2> QED
    BY <2>2, <2>5 DEF InvoiceOK
<1> QED
  BY <1>2, <1>3, <1>4, <1>5, <1>6, OtherInvoices

LEMMA RejectOnInvoiceInvoice ==
  ASSUME TypeInv, InvoiceInv, NEW r \in Requests, RejectOnInvoice(r)
  PROVE  InvoiceInv'
<1>1. PICK i : i = req[r].row
  OBVIOUS
<1>2. /\ i \in Invoices /\ inv'[i].status = inv[i].status /\ inv'[i].report.decision = "rejected"
      /\ \A j \in Invoices : j # i => inv'[j] = inv[j]
  BY <1>1, RejectOnInvoiceType
<1>3. /\ Contest(i, r) /\ End(r) /\ UNCHANGED <<settledBy, reports, synced, redecided>>
      /\ req[r].pc = "refuse"
  BY <1>1 DEF RejectOnInvoice
<1>5. /\ req'[r].pc \notin ReportPc /\ req'[r].row = NoRow
      /\ \A t \in Requests : t # r => req'[t] = req[t]
  BY <1>3, Ended DEF Idle, ReportPc
<1>6. ASSUME i \notin contested', i \notin redecided' PROVE InvoiceOK(i)'
  <2>1. InvoiceOK(i) /\ About(i)' \subseteq {r} /\ i \notin contested /\ i \notin redecided
    BY <1>2, <1>3, <1>5, <1>6, OneAbout DEF InvoiceInv
  <2>2. About(i)' = {}
    BY <1>5, <2>1 DEF About
  <2>3. r \in About(i)
    BY <1>1, <1>3 DEF About, ReportPc
  <2>4. synced[i] <= reports[i] /\ ~PaidByVerification(i)
    BY <1>3, <2>1, <2>3 DEF InvoiceOK
  <2>5. synced'[i] <= reports'[i] /\ ~PaidByVerification(i)'
    BY <1>2, <1>3, <2>4 DEF PaidByVerification
  <2> QED
    BY <1>2, <2>2, <2>5 DEF InvoiceOK
<1> QED
  BY <1>2, <1>3, <1>5, <1>6, OtherInvoices

LEMMA ConfirmOnInvoiceInvoice ==
  ASSUME TypeInv, InvoiceInv, NEW r \in Requests, ConfirmOnInvoice(r)
  PROVE  InvoiceInv'
<1>1. PICK i : i = req[r].row
  OBVIOUS
<1>2. /\ i \in Invoices /\ inv'[i].report.decision = "confirmed"
      /\ req'[r].pc = "sync" /\ req'[r].row = i
      /\ \A t \in Requests : t # r => req'[t] = req[t]
      /\ \A j \in Invoices : j # i => inv'[j] = inv[j] /\ settledBy'[j] = settledBy[j]
  BY <1>1, ConfirmOnInvoiceType
<1>3. Contest(i, r) /\ UNCHANGED <<reports, synced, redecided>> /\ req[r].pc = "approve"
  BY <1>1 DEF ConfirmOnInvoice
<1>4. ASSUME i \notin contested', i \notin redecided' PROVE InvoiceOK(i)'
  <2>1. InvoiceOK(i) /\ About(i)' \subseteq {r} /\ i \notin contested /\ i \notin redecided
    BY <1>2, <1>3, <1>4, OneAbout DEF InvoiceInv
  <2>2. r \in About(i)
    BY <1>1, <1>3 DEF About, ReportPc
  <2>3. synced'[i] <= reports'[i] /\ synced'[i] < reports'[i]
    BY <1>3, <2>1, <2>2 DEF InvoiceOK
  <2> QED
    BY <1>2, <2>1, <2>3 DEF InvoiceOK
<1> QED
  BY <1>2, <1>3, <1>4, OtherInvoices

LEMMA SyncPaymentToScheduleInvoice ==
  ASSUME TypeInv, InvoiceInv, NEW r \in Requests, SyncPaymentToSchedule(r)
  PROVE  InvoiceInv'
<1>0. inv' = inv /\ UNCHANGED invoiceHistory /\ req[r].pc = "sync" /\ req[r] \in Request
  BY DEF SyncPaymentToSchedule, TypeInv, InvoiceTypeOK, LedgerTypeOK
<1>1. CASE End(r)
  BY <1>0, <1>1, InvoicesLeftByEnd
<1>2. CASE \E s \in OpenSchedules(req[r].row) :
             req' = [req EXCEPT ![r].pc = "credit", ![r].schedule = s, ![r].seen = sched[s].received]
  <2>1. PICK s, n : req' = [req EXCEPT ![r].pc = "credit", ![r].schedule = s, ![r].seen = n]
    BY <1>2
  <2> DEFINE q == [req[r] EXCEPT !.pc = "credit", !.schedule = s, !.seen = n]
  <2>2. q.pc = "credit" /\ q.row = req[r].row
    BY <1>0 DEF Request
  <2>3. req' = [req EXCEPT ![r] = q]
    BY <2>1
  <2> HIDE DEF q
  <2>4. /\ req'[r].pc = "credit" /\ req'[r].row = req[r].row
        /\ \A t \in Requests : t # r => req'[t] = req[t]
    BY <2>2, <2>3 DEF TypeInv, InvoiceTypeOK, LedgerTypeOK
  <2>5. \A i \in Invoices : AboutStays(i)
    BY <1>0, <2>4 DEF AboutStays, ReportPc
  <2> QED
    BY <1>0, <2>5, InvoiceLeft DEF InvoiceInv, invoiceHistory, PaidByVerification
<1> QED
  BY <1>1, <1>2 DEF SyncPaymentToSchedule

LEMMA CreditFromInvoiceInvoice ==
  ASSUME TypeInv, InvoiceInv, NEW r \in Requests, CreditFromInvoice(r)
  PROVE  InvoiceInv'
<1>1. PICK i : i = req[r].row
  OBVIOUS
<1>2. i \in Invoices /\ req[r].pc = "credit"
  BY <1>1, FieldTypes DEF CreditFromInvoice, RequestOK, ReportPc
<1>3. /\ End(r) /\ UNCHANGED <<inv, settledBy, reports, redecided, contested>>
      /\ synced' = [synced EXCEPT ![i] = @ + 1]
  BY <1>1 DEF CreditFromInvoice, AfterCredit, End
<1>4. /\ reports[i] \in Nat /\ synced[i] \in Nat /\ synced'[i] = synced[i] + 1
      /\ \A j \in Invoices : j # i => synced'[j] = synced[j]
  BY <1>2, <1>3 DEF TypeInv, InvoiceTypeOK
<1>5. /\ req'[r].pc \notin ReportPc /\ req'[r].row = NoRow
      /\ \A t \in Requests : t # r => req'[t] = req[t]
  BY <1>3, Ended DEF Idle, ReportPc
<1>6. ASSUME i \notin contested', i \notin redecided' PROVE InvoiceOK(i)'
  <2>1. InvoiceOK(i) /\ i \notin contested /\ i \notin redecided
    BY <1>2, <1>3, <1>6 DEF InvoiceInv
  <2>2. r \in About(i)
    BY <1>1, <1>2 DEF About, ReportPc
  <2>3. /\ \A t \in About(i) : t = r
        /\ synced[i] < reports[i] /\ inv[i].report.decision = "confirmed"
    BY <1>2, <2>1, <2>2 DEF InvoiceOK
  <2>4. About(i)' = {}
    BY <1>5, <2>3 DEF About
  <2>5. synced'[i] <= reports'[i] /\ inv'[i].report.decision = "confirmed"
    BY <1>3, <1>4, <2>3
  <2> QED
    BY <2>4, <2>5 DEF InvoiceOK
<1>7. ASSUME NEW j \in Invoices, j # i PROVE InvoiceOK(j)'
  <2>1. AboutStays(j) /\ InvoiceOK(j)
    BY <1>5 DEF AboutStays, InvoiceInv
  <2> QED
    BY <1>3, <1>4, <1>7, <2>1, InvoiceLeft DEF PaidByVerification
<1>8. InvoiceOK(i)'
  BY <1>6 DEF InvoiceOK
<1> QED
  BY <1>7, <1>8 DEF InvoiceInv

LEMMA OpenOverdueInvoice ==
  ASSUME TypeInv, InvoiceInv, NEW r \in Requests, OpenOverdue(r)
  PROVE  InvoiceInv'
<1>1. PICK found : req' = [req EXCEPT ![r] = [Idle EXCEPT !.pc = "sweep", !.swept = found]]
  BY DEF OpenOverdue
<1> DEFINE q == [Idle EXCEPT !.pc = "sweep", !.swept = found]
<1>2. q.pc \notin ReportPc /\ req' = [req EXCEPT ![r] = q]
  BY <1>1 DEF Idle, ReportPc
<1> HIDE DEF q
<1> QED
  BY <1>2, InvoicesLeftByOpening DEF OpenOverdue

\* The sweep makes no invoice paid and replaces no report.
LEMMA MarkInvoicesOverdueInvoice ==
  ASSUME TypeInv, InvoiceInv, NEW r \in Requests, MarkInvoicesOverdue(r)
  PROVE  InvoiceInv'
<1> SUFFICES ASSUME NEW i \in Invoices PROVE InvoiceOK(i)'
  BY DEF InvoiceInv
<1>1. inv'[i].report = inv[i].report /\ (PaidByVerification(i)' => PaidByVerification(i))
  BY MarkInvoicesOverdueType DEF PaidByVerification, MarkInvoicesOverdue, invoiceHistory
<1>2. AboutStays(i)
  BY Ended, IdleIsRequest DEF AboutStays, ReportPc, MarkInvoicesOverdue
<1> QED
  BY <1>1, <1>2, InvoiceLeft DEF InvoiceInv, MarkInvoicesOverdue, invoiceHistory

\* The other operations that settle an invoice, or change its status, say so.
LEMMA ConfirmWithInvoiceInvoice ==
  ASSUME TypeInv, InvoiceInv, NEW r \in Requests, ConfirmWithInvoice(r)
  PROVE  InvoiceInv'
<1> SUFFICES ASSUME NEW j \in Invoices PROVE InvoiceOK(j)'
  BY DEF InvoiceInv
<1>1. PICK i : i = InvoiceOf[req[r].schedule]
  OBVIOUS
<1>2. /\ i = NoRow => UNCHANGED <<inv, settledBy, contested>>
      /\ i # NoRow =>
           /\ i \in Invoices /\ settledBy' = [settledBy EXCEPT ![i] = "schedule"]
           /\ inv'[i].report = inv[i].report
           /\ \A k \in Invoices : k # i => inv'[k] = inv[k]
           /\ Contest(i, r)
  BY <1>1, ConfirmWithInvoiceType
<1>3. End(r) /\ UNCHANGED <<reports, synced, redecided>>
  BY DEF ConfirmWithInvoice, ConfirmPayment
<1>4. AboutStays(j)
  BY <1>3, Ended, IdleIsRequest DEF AboutStays, ReportPc
<1>5. inv'[j].report = inv[j].report /\ contested \subseteq contested'
  BY <1>2, HeldAlone
<1>6. PaidByVerification(j)' => PaidByVerification(j)
  BY <1>2 DEF PaidByVerification, TypeInv, InvoiceTypeOK
<1> QED
  BY <1>3, <1>4, <1>5, <1>6, InvoiceLeft DEF InvoiceInv

LEMMA SettledByOthersInvoice ==
  ASSUME TypeInv, InvoiceInv, NEW i \in Invoices, Contest(i, NoRow),
         UNCHANGED <<req, reports, synced, redecided>>,
         inv'[i].report = inv[i].report,
         \/ settledBy'[i] # "verification"
         \/ inv'[i].status = inv[i].status /\ settledBy'[i] = settledBy[i],
         \A j \in Invoices : j # i => inv'[j] = inv[j] /\ settledBy'[j] = settledBy[j]
  PROVE  InvoiceInv'
<1> SUFFICES ASSUME NEW j \in Invoices PROVE InvoiceOK(j)'
  BY DEF InvoiceInv
<1>1. inv'[j].report = inv[j].report /\ contested \subseteq contested' /\ AboutStays(j)
  BY HeldAlone DEF AboutStays
<1>2. PaidByVerification(j)' => PaidByVerification(j)
  BY DEF PaidByVerification
<1> QED
  BY <1>1, <1>2, InvoiceLeft DEF InvoiceInv

LEMMA UpdateInvoiceInvoice ==
  ASSUME TypeInv, InvoiceInv, NEW i \in Invoices, NEW x \in InvoiceStatus \cup {NoRow},
         NEW a \in Amounts \cup {NoRow}, UpdateInvoice(i, x, a)
  PROVE  InvoiceInv'
BY UpdateInvoiceType, SettledByOthersInvoice DEF UpdateInvoice

LEMMA SettleByWebhookInvoice ==
  ASSUME TypeInv, InvoiceInv, NEW i \in Invoices, NEW a \in Amounts, SettleByWebhook(i, a)
  PROVE  InvoiceInv'
BY SettleByWebhookType, SettledByOthersInvoice DEF SettleByWebhook

-----------------------------------------------------------------------------
(* Invoices: the steps on schedules leave them *)

LEMMA OpenVerificationInvoice ==
  ASSUME TypeInv, InvoiceInv, NEW r \in Requests, NEW p \in Payments, NEW d \in Decisions,
         NEW a \in Amounts, OpenVerification(r, p, d, a), UNCHANGED invoiceHistory
  PROVE  InvoiceInv'
<1>1. PICK s, n : req' = [req EXCEPT ![r] = [Idle EXCEPT !.pc = d, !.row = p, !.schedule = s,
                                                         !.amount = a, !.seen = n]]
  BY DEF OpenVerification
<1> DEFINE q == [Idle EXCEPT !.pc = d, !.row = p, !.schedule = s, !.amount = a, !.seen = n]
<1>2. q.pc \notin ReportPc /\ req' = [req EXCEPT ![r] = q]
  BY <1>1 DEF Idle, ReportPc, Decisions
<1> HIDE DEF q
<1> QED
  BY <1>2, InvoicesLeftByOpening DEF OpenVerification

LEMMA OpenDeletionInvoice ==
  ASSUME TypeInv, InvoiceInv, NEW r \in Requests, NEW p \in Payments, OpenDeletion(r, p),
         UNCHANGED invoiceHistory
  PROVE  InvoiceInv'
<1>1. PICK s : req' = [req EXCEPT ![r] = [Idle EXCEPT !.pc = "delete", !.row = p, !.schedule = s]]
  BY DEF OpenDeletion
<1> DEFINE q == [Idle EXCEPT !.pc = "delete", !.row = p, !.schedule = s]
<1>2. q.pc \notin ReportPc /\ req' = [req EXCEPT ![r] = q]
  BY <1>1 DEF Idle, ReportPc
<1> HIDE DEF q
<1> QED
  BY <1>2, InvoicesLeftByOpening DEF OpenDeletion

LEMMA OpenRecordingInvoice ==
  ASSUME TypeInv, InvoiceInv, NEW r \in Requests, NEW s \in Schedules, NEW a \in Amounts,
         OpenRecording(r, s, a), UNCHANGED invoiceHistory
  PROVE  InvoiceInv'
<1>1. PICK n, x : req' = [req EXCEPT ![r] = [Idle EXCEPT !.pc = "record", !.row = s, !.schedule = s,
                                                         !.amount = a, !.seen = n, !.old = x]]
  BY DEF OpenRecording
<1> DEFINE q == [Idle EXCEPT !.pc = "record", !.row = s, !.schedule = s, !.amount = a, !.seen = n,
                             !.old = x]
<1>2. q.pc \notin ReportPc /\ req' = [req EXCEPT ![r] = q]
  BY <1>1 DEF Idle, ReportPc
<1> HIDE DEF q
<1> QED
  BY <1>2, InvoicesLeftByOpening DEF OpenRecording

LEMMA OpenDropInvoice ==
  ASSUME TypeInv, InvoiceInv, NEW r \in Requests, NEW s \in Schedules, OpenDrop(r, s),
         UNCHANGED invoiceHistory
  PROVE  InvoiceInv'
<1> DEFINE q == [Idle EXCEPT !.pc = "drop", !.row = s, !.schedule = s]
<1>2. q.pc \notin ReportPc /\ req' = [req EXCEPT ![r] = q]
  BY DEF Idle, ReportPc, OpenDrop
<1> HIDE DEF q
<1> QED
  BY <1>2, InvoicesLeftByOpening DEF OpenDrop

LEMMA GoesOnInvoice ==
  ASSUME TypeInv, InvoiceInv, NEW r \in Requests, UNCHANGED invoiceHistory,
         \/ EnterVerification(r) \/ LookUpInvoice(r) \/ CountReported(r) \/ SumRemaining(r)
  PROVE  InvoiceInv'
<1>1. req[r] \in Request
  BY DEF TypeInv, InvoiceTypeOK, LedgerTypeOK
<1>2. CASE EnterVerification(r)
  <2>1. PICK x \in {"lookup", "count"} : Goto(r, x)
    BY <1>2 DEF EnterVerification
  <2> DEFINE q == [req[r] EXCEPT !.pc = x]
  <2>2. q.pc \notin ReportPc /\ req' = [req EXCEPT ![r] = q]
    BY <2>1, <1>1 DEF Goto, Request, ReportPc
  <2> HIDE DEF q
  <2> QED BY <1>2, <2>2, InvoicesLeftByOpening DEF EnterVerification
<1>3. CASE LookUpInvoice(r)
  <2>1. PICK i, x, n : req' = [req EXCEPT ![r] = IF i = NoRow THEN [req[r] EXCEPT !.pc = "commit"]
                                  ELSE [req[r] EXCEPT !.pc = "commit", !.old = x, !.paid = n]]
    BY <1>3 DEF LookUpInvoice
  <2> DEFINE q == IF i = NoRow THEN [req[r] EXCEPT !.pc = "commit"]
                  ELSE [req[r] EXCEPT !.pc = "commit", !.old = x, !.paid = n]
  <2>2. q.pc = "commit"
    BY <1>1 DEF Request
  <2>3. q.pc \notin ReportPc /\ req' = [req EXCEPT ![r] = q]
    BY <2>1, <2>2 DEF ReportPc
  <2> HIDE DEF q
  <2> QED BY <1>3, <2>3, InvoicesLeftByOpening DEF LookUpInvoice
<1>4. CASE CountReported(r)
  <2>1. PICK n : req' = [req EXCEPT ![r].pc = "revert", ![r].seen = n]
    BY <1>4 DEF CountReported
  <2> DEFINE q == [req[r] EXCEPT !.pc = "revert", !.seen = n]
  <2>2. q.pc = "revert"
    BY <1>1 DEF Request
  <2>3. req' = [req EXCEPT ![r] = q]
    BY <2>1
  <2> HIDE DEF q
  <2>4. q.pc \notin ReportPc
    BY <2>2 DEF ReportPc
  <2> QED BY <1>4, <2>3, <2>4, InvoicesLeftByOpening DEF CountReported
<1>5. CASE SumRemaining(r)
  <2>1. PICK n : req' = [req EXCEPT ![r].pc = "sum", ![r].seen = n]
    BY <1>5 DEF SumRemaining
  <2> DEFINE q == [req[r] EXCEPT !.pc = "sum", !.seen = n]
  <2>2. q.pc = "sum"
    BY <1>1 DEF Request
  <2>3. req' = [req EXCEPT ![r] = q]
    BY <2>1
  <2> HIDE DEF q
  <2>4. q.pc \notin ReportPc
    BY <2>2 DEF ReportPc
  <2> QED BY <1>5, <2>3, <2>4, InvoicesLeftByOpening DEF SumRemaining
<1> QED
  BY <1>2, <1>3, <1>4, <1>5

LEMMA RestartInvoice ==
  ASSUME TypeInv, InvoiceInv, Restart, UNCHANGED invoiceHistory
  PROVE  InvoiceInv'
<1> SUFFICES ASSUME NEW i \in Invoices PROVE InvoiceOK(i)'
  BY DEF InvoiceInv
<1>1. AboutStays(i)
  BY IdleIsRequest DEF AboutStays, Restart, ReportPc
<1> QED
  BY <1>1, InvoiceLeft DEF InvoiceInv, invoiceHistory, Restart, PaidByVerification

LEMMA InvoiceInvInit == InvoiceInit => InvoiceInv
<1> SUFFICES ASSUME InvoiceInit, NEW i \in Invoices PROVE InvoiceOK(i)
  BY DEF InvoiceInv
<1> USE DEF InvoiceInit, ScheduleInit
<1>1. About(i) = {}
  BY IdleIsRequest DEF About, ReportPc
<1>2. inv[i].status = "pending" /\ inv[i].report = NoReport
  OBVIOUS
<1> QED
  BY <1>1, <1>2 DEF InvoiceOK, NoReport, PaidByVerification

LEMMA InvoiceStep == TypeInv /\ InvoiceInv /\ [LedgerNext]_invoiceVars => InvoiceInv'
<1> SUFFICES ASSUME TypeInv, InvoiceInv, [LedgerNext]_invoiceVars PROVE InvoiceInv'
  OBVIOUS
<1>1. ASSUME NEW i \in Invoices, NEW x \in InvoiceStatus \cup {NoRow},
             NEW a \in Amounts \cup {NoRow}, UpdateInvoice(i, x, a)
      PROVE  InvoiceInv'
  BY <1>1, UpdateInvoiceInvoice
<1>2. ASSUME NEW i \in Invoices, NEW a \in Amounts, SettleByWebhook(i, a) PROVE InvoiceInv'
  BY <1>2, SettleByWebhookInvoice
<1>3. ASSUME NEW r \in Requests, NEW i \in Invoices, NEW a \in Amounts, OpenReport(r, i, a)
      PROVE  InvoiceInv'
  BY <1>3, OpenReportInvoice
<1>4. ASSUME NEW r \in Requests, NEW i \in Invoices, NEW a \in Amounts, NEW d \in InvoiceDecisions,
             OpenInvoiceVerification(r, i, d, a)
      PROVE  InvoiceInv'
  BY <1>4, OpenInvoiceVerificationInvoice
<1>5. ASSUME NEW r \in Requests,
             \/ ReportOnInvoice(r) \/ ConfirmOnInvoice(r) \/ RejectOnInvoice(r)
             \/ SyncPaymentToSchedule(r) \/ CreditFromInvoice(r) \/ FailCredit(r)
             \/ OpenOverdue(r) \/ MarkInvoicesOverdue(r) \/ ConfirmWithInvoice(r)
      PROVE  InvoiceInv'
  <2>1. CASE FailCredit(r)
    BY <2>1, InvoicesLeftByEnd DEF FailCredit
  <2> QED
    BY <1>5, <2>1, ReportOnInvoiceInvoice, ConfirmOnInvoiceInvoice, RejectOnInvoiceInvoice,
       SyncPaymentToScheduleInvoice, CreditFromInvoiceInvoice, OpenOverdueInvoice,
       MarkInvoicesOverdueInvoice, ConfirmWithInvoiceInvoice
<1>6. ASSUME NEW s \in Schedules, NEW a \in Amounts, ReportPayment(s, a) \/ CreditByWebhook(s, a),
             UNCHANGED invoiceHistory
      PROVE  InvoiceInv'
  BY <1>6, InvoicesLeftByOthers DEF ReportPayment, CreditByWebhook
<1>7. ASSUME NEW s \in Schedules, UNCHANGED invoiceHistory,
             CreateSchedule(s) \/ \E x \in PaymentStatus : UpdateSchedule(s, x)
      PROVE  InvoiceInv'
  BY <1>7, InvoicesLeftByOthers DEF CreateSchedule, UpdateSchedule
<1>8. ASSUME NEW r \in Requests, NEW p \in Payments, NEW d \in Decisions, NEW a \in Amounts,
             OpenVerification(r, p, d, a), UNCHANGED invoiceHistory
      PROVE  InvoiceInv'
  BY <1>8, OpenVerificationInvoice
<1>9. ASSUME NEW r \in Requests, NEW p \in Payments, OpenDeletion(r, p), UNCHANGED invoiceHistory
      PROVE  InvoiceInv'
  BY <1>9, OpenDeletionInvoice
<1>10. ASSUME NEW r \in Requests, NEW s \in Schedules, NEW a \in Amounts,
              OpenRecording(r, s, a), UNCHANGED invoiceHistory
       PROVE  InvoiceInv'
  BY <1>10, OpenRecordingInvoice
<1>11. ASSUME NEW r \in Requests, NEW s \in Schedules, OpenDrop(r, s), UNCHANGED invoiceHistory
       PROVE  InvoiceInv'
  BY <1>11, OpenDropInvoice
<1>12. ASSUME NEW r \in Requests, UNCHANGED invoiceHistory,
              \/ EnterVerification(r) \/ LookUpInvoice(r) \/ CountReported(r)
              \/ RejectPayment(r) \/ KeepReported(r) \/ RecordPayment(r)
              \/ SumRemaining(r) \/ DeletePayment(r) \/ DeleteSchedule(r) \/ FailRequest(r)
       PROVE  InvoiceInv'
  <2>1. CASE \/ RejectPayment(r) \/ KeepReported(r) \/ RecordPayment(r)
             \/ DeletePayment(r) \/ DeleteSchedule(r) \/ FailRequest(r)
    <3>1. inv' = inv /\ End(r)
      BY <2>1 DEF RejectPayment, KeepReported, RecordPayment, DeletePayment, DeleteSchedule, FailRequest
    <3> QED BY <1>12, <3>1, InvoicesLeftByEnd
  <2>2. CASE EnterVerification(r) \/ LookUpInvoice(r) \/ CountReported(r) \/ SumRemaining(r)
    BY <1>12, <2>2, GoesOnInvoice
  <2> QED
    BY <1>12, <2>1, <2>2
<1>13. CASE Restart /\ UNCHANGED invoiceHistory
  BY <1>13, RestartInvoice
<1>14. CASE UNCHANGED invoiceVars
  <2>1. UNCHANGED <<inv, req>> /\ UNCHANGED invoiceHistory
    BY <1>14 DEF invoiceVars, scheduleVars
  <2> QED BY <2>1, InvoicesLeftByOthers
<1>15. CASE \/ \E i \in Invoices :
                 \/ \E status \in InvoiceStatus \cup {NoRow}, a \in Amounts \cup {NoRow} :
                      UpdateInvoice(i, status, a)
                 \/ \E a \in Amounts : SettleByWebhook(i, a)
            \/ \E r \in Requests :
                 \/ \E i \in Invoices, a \in Amounts :
                      \/ OpenReport(r, i, a)
                      \/ \E d \in InvoiceDecisions : OpenInvoiceVerification(r, i, d, a)
                 \/ ReportOnInvoice(r) \/ ConfirmOnInvoice(r) \/ RejectOnInvoice(r)
                 \/ SyncPaymentToSchedule(r) \/ CreditFromInvoice(r) \/ FailCredit(r)
                 \/ OpenOverdue(r) \/ MarkInvoicesOverdue(r)
                 \/ ConfirmWithInvoice(r)
  BY <1>15, <1>1, <1>2, <1>3, <1>4, <1>5
<1> QED
  BY <1>6, <1>7, <1>8, <1>9, <1>10, <1>11, <1>12, <1>13, <1>14, <1>15 DEF LedgerNext

LEMMA InvoiceInvariant == LedgerSpec => [](TypeInv /\ InvoiceInv)
<1>1. InvoiceInit => TypeInv /\ InvoiceInv
  BY TypeInit, InvoiceInvInit
<1>2. TypeInv /\ InvoiceInv /\ [LedgerNext]_invoiceVars => (TypeInv /\ InvoiceInv)'
  BY TypeStep, InvoiceStep
<1> QED
  BY <1>1, <1>2, PTL DEF LedgerSpec

\* A report on an invoice is credited to the schedules at most once, through
\* crashes, edits and sweeps, unless the invoice was decided again or contested.
THEOREM LedgerSyncedOnce == LedgerSpec => []SyncedOncePerReport
<1>1. InvoiceInv => SyncedOncePerReport
  BY DEF InvoiceInv, InvoiceOK, SyncedOncePerReport
<1> QED
  BY <1>1, InvoiceInvariant, PTL

\* An invoice a verification paid shows the decision, unless it was decided
\* again or contested.
THEOREM LedgerDecisions == LedgerSpec => []DecisionShown
<1>1. InvoiceInv => DecisionShown
  BY DEF InvoiceInv, InvoiceOK, PaidByVerification, DecisionShown
<1> QED
  BY <1>1, InvoiceInvariant, PTL

-----------------------------------------------------------------------------
(* Invoices: what is paid stays paid *)

\* An invoice one step makes unpaid again.
Unpaid(i) == inv[i].status = "paid" /\ inv'[i].status # "paid"

\* A verification that read the invoice paid in full leaves it so.
LEMMA ConfirmKeepsPaid ==
  ASSUME TypeInv, NEW r \in Requests, ConfirmWithInvoice(r), NEW i \in Invoices, Unpaid(i)
  PROVE  r \in Late(i)
<1>1. PICK j : j = InvoiceOf[req[r].schedule]
  OBVIOUS
<1>2. /\ j # NoRow => inv'[j].status = InvoiceStatusFor(j, req[r].old, PaidWith(r))
      /\ j # NoRow => \A k \in Invoices : k # j => inv'[k] = inv[k]
      /\ j = NoRow => inv' = inv
  BY <1>1, ConfirmWithInvoiceType
<1>3. j = i /\ j # NoRow
  BY <1>2, RowAssumption DEF Unpaid
<1>4. req[r].pc = "commit"
  BY DEF ConfirmWithInvoice, ConfirmPayment
<1>5. /\ req[r].paid \in Nat /\ req[r].amount \in Nat /\ Total[i] \in Nat
  BY FieldTypes, LedgerAssumption
<1>6. req[r].old = "paid" => req[r].paid < Total[i]
  <2> SUFFICES ASSUME req[r].old = "paid", req[r].paid >= Total[i] PROVE FALSE
    BY <1>5
  <2>1. PaidWith(r) >= Total[i]
    BY <1>5 DEF PaidWith
  <2> QED
    BY <1>2, <1>3, <2>1 DEF InvoiceStatusFor, Unpaid
<1> QED
  BY <1>1, <1>3, <1>4, <1>6 DEF Late

LEMMA PaidKept ==
  ASSUME TypeInv, [LedgerNext]_invoiceVars, NEW i \in Invoices, Unpaid(i)
  PROVE  settledBy'[i] = "hand" \/ Late(i) # {}
<1>0. inv' # inv
  BY DEF Unpaid
<1>1. ASSUME NEW j \in Invoices, NEW x \in InvoiceStatus \cup {NoRow},
             NEW a \in Amounts \cup {NoRow}, UpdateInvoice(j, x, a)
      PROVE  settledBy'[i] = "hand"
  BY <1>1, UpdateInvoiceType DEF Unpaid
<1>2. ASSUME NEW j \in Invoices, NEW a \in Amounts, SettleByWebhook(j, a) PROVE FALSE
  BY <1>2, SettleByWebhookType DEF Unpaid
<1>3. ASSUME NEW r \in Requests, ReportOnInvoice(r) \/ ConfirmOnInvoice(r) \/ RejectOnInvoice(r)
      PROVE  FALSE
  BY <1>3, ReportOnInvoiceType, ConfirmOnInvoiceType, RejectOnInvoiceType DEF Unpaid
<1>4. ASSUME NEW r \in Requests, MarkInvoicesOverdue(r) PROVE r \in Late(i)
  BY <1>4, MarkInvoicesOverdueType DEF Unpaid, Late
<1>5. ASSUME NEW r \in Requests, ConfirmWithInvoice(r) PROVE r \in Late(i)
  BY <1>5, ConfirmKeepsPaid
<1>6. ASSUME NEW r, NEW j, NEW d, NEW a, OpenReport(r, j, a) \/ OpenInvoiceVerification(r, j, d, a)
      PROVE  FALSE
  BY <1>0, <1>6 DEF OpenReport, OpenInvoiceVerification
<1>7. ASSUME NEW r, \/ SyncPaymentToSchedule(r) \/ CreditFromInvoice(r) \/ FailCredit(r) \/ OpenOverdue(r)
      PROVE  FALSE
  BY <1>0, <1>7 DEF SyncPaymentToSchedule, CreditFromInvoice, FailCredit, OpenOverdue
<1>8. ASSUME NEW s, NEW a, \/ ReportPayment(s, a) \/ CreditByWebhook(s, a)
                           \/ CreateSchedule(s) \/ UpdateSchedule(s, a)
      PROVE  FALSE
  BY <1>0, <1>8 DEF ReportPayment, CreditByWebhook, CreateSchedule, UpdateSchedule
<1>9. ASSUME NEW r, NEW p, NEW d, NEW a, OpenVerification(r, p, d, a) \/ OpenDeletion(r, p)
      PROVE  FALSE
  BY <1>0, <1>9 DEF OpenVerification, OpenDeletion
<1>10. ASSUME NEW r, NEW s, NEW a, OpenRecording(r, s, a) \/ OpenDrop(r, s) PROVE FALSE
  BY <1>0, <1>10 DEF OpenRecording, OpenDrop
<1>11. ASSUME NEW r, \/ EnterVerification(r) \/ LookUpInvoice(r) \/ CountReported(r)
                     \/ RejectPayment(r) \/ KeepReported(r) \/ RecordPayment(r)
                     \/ SumRemaining(r) \/ DeletePayment(r) \/ DeleteSchedule(r) \/ FailRequest(r)
       PROVE  FALSE
  BY <1>0, <1>11 DEF EnterVerification, LookUpInvoice, CountReported, RejectPayment, KeepReported,
     RecordPayment, SumRemaining, DeletePayment, DeleteSchedule, FailRequest
<1>12. CASE Restart \/ UNCHANGED invoiceVars
  BY <1>0, <1>12 DEF Restart, invoiceVars, scheduleVars
<1>13. CASE \/ \E j \in Invoices :
                 \/ \E status \in InvoiceStatus \cup {NoRow}, a \in Amounts \cup {NoRow} :
                      UpdateInvoice(j, status, a)
                 \/ \E a \in Amounts : SettleByWebhook(j, a)
            \/ \E r \in Requests :
                 \/ \E j \in Invoices, a \in Amounts :
                      \/ OpenReport(r, j, a)
                      \/ \E d \in InvoiceDecisions : OpenInvoiceVerification(r, j, d, a)
                 \/ ReportOnInvoice(r) \/ ConfirmOnInvoice(r) \/ RejectOnInvoice(r)
                 \/ SyncPaymentToSchedule(r) \/ CreditFromInvoice(r) \/ FailCredit(r)
                 \/ OpenOverdue(r) \/ MarkInvoicesOverdue(r)
                 \/ ConfirmWithInvoice(r)
  <2>1. ASSUME NEW r \in Requests, NEW j \in Invoices, NEW a \in Amounts,
               \/ OpenReport(r, j, a)
               \/ \E d \in InvoiceDecisions : OpenInvoiceVerification(r, j, d, a)
        PROVE  FALSE
    BY <2>1, <1>6
  <2>2. ASSUME NEW r \in Requests,
               \/ ReportOnInvoice(r) \/ ConfirmOnInvoice(r) \/ RejectOnInvoice(r)
               \/ SyncPaymentToSchedule(r) \/ CreditFromInvoice(r) \/ FailCredit(r)
               \/ OpenOverdue(r) \/ MarkInvoicesOverdue(r)
               \/ ConfirmWithInvoice(r)
        PROVE  Late(i) # {}
    BY <2>2, <1>3, <1>4, <1>5, <1>7
  <2> QED BY <1>13, <1>1, <1>2, <2>1, <2>2
<1> QED
  BY <1>8, <1>9, <1>10, <1>11, <1>12, <1>13 DEF LedgerNext

\* An invoice paid becomes unpaid only by hand, or by a sweep or a verification
\* that read it before it was paid in full.
THEOREM LedgerPaid == LedgerSpec => PaidStaysUnlessLate
<1>1. TypeInv /\ [LedgerNext]_invoiceVars =>
         [\A i \in Invoices :
           inv[i].status = "paid" /\ inv'[i].status # "paid" =>
              settledBy'[i] = "hand" \/ Late(i) # {}]_invoiceVars
  BY PaidKept DEF Unpaid
<1> QED
  BY <1>1, InvoiceInvariant, PTL DEF LedgerSpec, PaidStaysUnlessLate

=============================================================================
