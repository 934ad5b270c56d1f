------------------------ MODULE PaymentWebhookProofs ------------------------
(***************************************************************************)
(* Proofs, for every number of payments, rows, requests and accountants,   *)
(* every amount and every reference, that the safety properties of         *)
(* PaymentWebhook are invariants of its specification.                     *)
(***************************************************************************)
EXTENDS PaymentWebhook, FiniteSetTheorems, TLAPS

USE DisjointAssumption, DataAssumption, BoundAssumption

-----------------------------------------------------------------------------
(* Type correctness *)

\* A handler has a payment in hand exactly between taking and forgetting it,
\* and a row only once the lookups are done.
HandlerOK ==
    \A h \in Handlers :
        /\ IF pc[h] \in {"idle", "next"} THEN cur[h] = NoTx ELSE cur[h] \in Tx
        /\ pc[h] \notin {"write", "post"} => target[h] = NoEntity

StaffOK ==
    \A p \in Staff :
        /\ act[p].pc # "idle" => act[p].tx \in Tx
        /\ act[p].pc \in {"match", "notify"} => act[p].invoice \in Invoices

TypeInv == TypeOK /\ HandlerOK /\ StaffOK

\* The initial states have the right types.
LEMMA InitTypeInv == Init => TypeInv
  BY DEF Init, TypeInv, TypeOK, HandlerOK, StaffOK, InvoiceRow, ScheduleRow,
         UnmatchedRow, Request, IdleRequest, UnmatchedStatus, ScheduleStatus,
         Collectable, PcValues

\* The starts of batches keep the types.
LEMMA BatchTypeInv ==
  ASSUME TypeInv, NEW h \in Handlers,
         \/ \E B \in SUBSET owed : Webhook(h, B)
         \/ ScheduledReconciliation(h)
         \/ Reconcile(h)
  PROVE  TypeInv'
<1> USE DEF TypeInv, TypeOK, HandlerOK, StaffOK, PcValues, dbVars, historyVars
<1>1. CASE \E B \in SUBSET owed : Webhook(h, B)
  BY <1>1 DEF Webhook, BeginBatch
<1>2. CASE ScheduledReconciliation(h)
  BY <1>2 DEF ScheduledReconciliation, BeginBatch
<1>3. CASE Reconcile(h)
  BY <1>3 DEF Reconcile, BeginBatch
<1> QED BY <1>1, <1>2, <1>3

\* A lookup that finds a row, or passes on to the next statement, keeps the types.
LEMMA FoundTypeInv ==
  ASSUME TypeInv, NEW h \in Handlers, pc[h] \in {"ref", "textInv", "textSch"},
         NEW e \in Entities, Found(h, e), LookupFrame
  PROVE  TypeInv'
<1> USE DEF TypeInv, TypeOK
<1>1. (IF e \in Schedules THEN sch[e].received ELSE 0) \in Nat
  BY DEF ScheduleRow
<1>2. /\ target' \in [Handlers -> Entities \cup {NoEntity}]
      /\ seen' \in [Handlers -> Nat]
      /\ pc' \in [Handlers -> PcValues]
  BY <1>1 DEF Found, Goto, PcValues, InTransaction
<1> QED BY <1>2 DEF LookupFrame, Found, Goto, HandlerOK, StaffOK,
                    gatewayVars, dbVars, historyVars, boundVars

LEMMA NotFoundTypeInv ==
  ASSUME TypeInv, NEW h \in Handlers, pc[h] \in {"ref", "textInv", "textSch"},
         NEW l \in {"textInv", "textSch", "write"}, NotFound(h, l), LookupFrame
  PROVE  TypeInv'
BY DEF TypeInv, TypeOK, LookupFrame, NotFound, Goto, HandlerOK, StaffOK, PcValues,
       InTransaction, gatewayVars, dbVars, historyVars, boundVars

\* The statements of processPayments and processPayment keep the types.
LEMMA HandlerTypeInv ==
  ASSUME TypeInv, NEW h \in Handlers, HandlerStep(h)
  PROVE  TypeInv'
<1> USE DEF TypeInv, TypeOK, HandlerOK, StaffOK, PcValues, InTransaction,
            gatewayVars, dbVars, boundVars, Goto, Forget
<1>1. CASE StartPayment(h)
  BY <1>1 DEF StartPayment
<1>2. CASE CheckIdempotency(h)
  BY <1>2 DEF CheckIdempotency, FollowingRead
<1>3. CASE FindByReference(h)
  BY <1>3, FoundTypeInv, NotFoundTypeInv DEF FindByReference
<1>4. CASE FindInvoiceByText(h)
  BY <1>4, FoundTypeInv, NotFoundTypeInv
  DEF FindInvoiceByText, InvoiceCandidates, Entities
<1>5. CASE FindScheduleByText(h)
  BY <1>5, FoundTypeInv, NotFoundTypeInv
  DEF FindScheduleByText, ScheduleCandidates, Entities
<1>6. CASE PayInvoice(h)
  BY <1>6 DEF PayInvoice, Settled, Overwrite, InvoiceRow, InvoiceStatus
<1>7. CASE CreditSchedule(h)
  <2>1. cur[h] \in Tx /\ Amount[cur[h]] \in Nat
    BY <1>7 DEF CreditSchedule
  <2>2. Credited(h) \in ScheduleRow
    BY <2>1 DEF Credited, ScheduleRow, ScheduleStatus
  <2>3. sch' \in [Schedules -> ScheduleRow] /\ applied' \in [Schedules -> Nat]
    BY <1>7, <2>1, <2>2 DEF CreditSchedule
  <2>4. overwritten' \subseteq Tx
    BY <1>7 DEF CreditSchedule, Overwrite, ScheduleRow
  <2> QED BY <1>7, <2>1, <2>3, <2>4 DEF CreditSchedule
<1>8. CASE StoreUnmatched(h)
  <2>1. unm' \in [Tx -> UnmatchedRow]
    BY <1>8 DEF StoreUnmatched, UnmatchedRow, UnmatchedStatus
  <2> QED BY <1>8, <2>1 DEF StoreUnmatched
<1>9. CASE HandlePostProcessing(h)
  BY <1>9 DEF HandlePostProcessing
<1>10. CASE Answer(h)
  BY <1>10 DEF Answer, historyVars
<1> QED BY <1>1, <1>2, <1>3, <1>4, <1>5, <1>6, <1>7, <1>8, <1>9, <1>10
           DEF HandlerStep

\* The accountants' requests keep the types.
LEMMA StaffTypeInv ==
  ASSUME TypeInv, NEW p \in Staff, StaffStep(p)
  PROVE  TypeInv'
<1> USE DEF TypeInv, TypeOK, HandlerOK, StaffOK, Request, StaffFrame,
            gatewayVars, handlerVars, boundVars
<1>1. ASSUME NEW t \in Tx, OpenReject(p, t)
      PROVE  TypeInv'
  BY <1>1 DEF OpenReject, Race
<1>2. ASSUME NEW t \in Tx, NEW i \in Invoices, OpenMatch(p, t, i)
      PROVE  TypeInv'
  BY <1>2 DEF OpenMatch, Race
<1>3. CASE MatchToInvoice(p)
  <2>1. unm' \in [Tx -> UnmatchedRow]
    BY <1>3 DEF MatchToInvoice, UnmatchedRow, UnmatchedStatus
  <2>2. inv' \in [Invoices -> InvoiceRow]
    BY <1>3 DEF MatchToInvoice, Settled, InvoiceRow, InvoiceStatus
  <2>3. overwritten' \subseteq Tx
    BY <1>3 DEF MatchToInvoice, Overwrite, InvoiceRow
  <2> QED BY <1>3, <2>1, <2>2, <2>3 DEF MatchToInvoice
<1>4. CASE NotifyMatch(p)
  BY <1>4 DEF NotifyMatch, IdleRequest
<1>5. CASE Reject(p)
  <2>1. unm' \in [Tx -> UnmatchedRow]
    BY <1>5 DEF Reject, UnmatchedRow, UnmatchedStatus
  <2> QED BY <1>5, <2>1 DEF Reject, IdleRequest
<1> QED BY <1>1, <1>2, <1>3, <1>4, <1>5 DEF StaffStep

\* Faults keep the types.
LEMMA FaultTypeInv ==
  ASSUME TypeInv, FaultStep
  PROVE  TypeInv'
<1> USE DEF TypeInv, TypeOK, HandlerOK, StaffOK, PcValues, Fault, dbVars,
            historyVars
<1>1. ASSUME NEW h \in Handlers, FailPayment(h)
      PROVE  TypeInv'
  BY <1>1 DEF FailPayment, Forget, Goto
<1>2. ASSUME NEW h \in Handlers, LoseAnswer(h)
      PROVE  TypeInv'
  BY <1>2 DEF LoseAnswer, Goto
<1>3. ASSUME NEW t \in Tx, LoseWebhook(t)
      PROVE  TypeInv'
  BY <1>3 DEF LoseWebhook, handlerVars
<1>4. CASE Crash
  BY <1>4 DEF Crash, IdleRequest, Request
<1>5. CASE FailFetch
  BY <1>5 DEF FailFetch, handlerVars
<1> QED BY <1>1, <1>2, <1>3, <1>4, <1>5 DEF FaultStep

LEMMA NextTypeInv == TypeInv /\ [Next]_vars => TypeInv'
<1> SUFFICES ASSUME TypeInv, [Next]_vars
             PROVE  TypeInv'
  OBVIOUS
<1>1. ASSUME NEW t \in Tx, Pay(t)
      PROVE  TypeInv'
  BY <1>1 DEF Pay, TypeInv, TypeOK, HandlerOK, StaffOK, dbVars, handlerVars,
              historyVars, boundVars
<1>2. ASSUME NEW h \in Handlers,
             \/ \E B \in SUBSET owed : Webhook(h, B)
             \/ ScheduledReconciliation(h) \/ Reconcile(h)
      PROVE  TypeInv'
  BY <1>2, BatchTypeInv
<1>3. ASSUME NEW h \in Handlers, HandlerStep(h)
      PROVE  TypeInv'
  BY <1>3, HandlerTypeInv
<1>4. ASSUME NEW p \in Staff, StaffStep(p)
      PROVE  TypeInv'
  BY <1>4, StaffTypeInv
<1>5. CASE FaultStep
  BY <1>5, FaultTypeInv
<1>6. CASE UNCHANGED vars
  BY <1>6 DEF vars, gatewayVars, dbVars, handlerVars, historyVars, boundVars,
              TypeInv, TypeOK, HandlerOK, StaffOK
<1> QED BY <1>1, <1>2, <1>3, <1>4, <1>5, <1>6 DEF Next

\* Every variable keeps its type, with every number of requests and faults.
THEOREM TypeCorrect == Spec => []TypeOK
<1>1. Spec => []TypeInv
  BY InitTypeInv, NextTypeInv, PTL DEF Spec
<1>2. TypeInv => TypeOK
  BY DEF TypeInv
<1> QED BY <1>1, <1>2, PTL
-----------------------------------------------------------------------------
(* No phantom money *)

\* A handler about to credit a schedule holds an amount read from the row, and
\* what was credited in all only grows: a stale read loses money at worst.
SnapshotOK ==
    \A h \in Handlers :
        pc[h] = "write" /\ target[h] \in Schedules => seen[h] <= applied[target[h]]

MoneyInv == NoPhantomMoney /\ SnapshotOK

LEMMA InitMoneyInv == Init => MoneyInv
  BY DEF Init, MoneyInv, NoPhantomMoney, SnapshotOK

\* A row found by a lookup is read with the amount it shows.
LEMMA FoundMoneyInv ==
  ASSUME TypeInv, MoneyInv, NEW h \in Handlers, NEW e \in Entities,
         Found(h, e), LookupFrame
  PROVE  MoneyInv'
BY DEF TypeInv, TypeOK, MoneyInv, NoPhantomMoney, SnapshotOK, Found, Goto,
       LookupFrame, ScheduleRow, dbVars, historyVars

LEMMA HandlerMoneyInv ==
  ASSUME TypeInv, MoneyInv, NEW h \in Handlers, HandlerStep(h)
  PROVE  MoneyInv'
<1> USE DEF MoneyInv, NoPhantomMoney, SnapshotOK, TypeInv, TypeOK, dbVars, Goto,
            Forget
<1>1. CASE StartPayment(h)
  BY <1>1 DEF StartPayment
<1>2. CASE CheckIdempotency(h)
  BY <1>2 DEF CheckIdempotency, FollowingRead
<1>3. CASE FindByReference(h)
  <2>1. CASE Ref[cur[h]] # NoEntity
    <3>1. Ref[cur[h]] \in Entities
      BY <1>3, <2>1 DEF FindByReference, HandlerOK
    <3> QED BY <1>3, <2>1, <3>1, FoundMoneyInv DEF FindByReference
  <2>2. CASE Ref[cur[h]] = NoEntity
    BY <1>3, <2>2 DEF FindByReference, NotFound, LookupFrame, historyVars
  <2> QED BY <2>1, <2>2
<1>4. CASE FindInvoiceByText(h)
  <2>1. ASSUME NEW i \in InvoiceCandidates(cur[h]), Found(h, i)
        PROVE  MoneyInv'
    BY <1>4, <2>1, FoundMoneyInv DEF FindInvoiceByText, InvoiceCandidates, Entities
  <2>2. CASE NotFound(h, "textSch")
    BY <1>4, <2>2 DEF FindInvoiceByText, NotFound, LookupFrame, historyVars
  <2> QED BY <1>4, <2>1, <2>2 DEF FindInvoiceByText
<1>5. CASE FindScheduleByText(h)
  <2>1. ASSUME NEW s \in ScheduleCandidates(cur[h]), Found(h, s)
        PROVE  MoneyInv'
    BY <1>5, <2>1, FoundMoneyInv DEF FindScheduleByText, ScheduleCandidates, Entities
  <2>2. CASE NotFound(h, "write")
    BY <1>5, <2>2 DEF FindScheduleByText, NotFound, LookupFrame, historyVars,
                      HandlerOK, Entities
  <2> QED BY <1>5, <2>1, <2>2 DEF FindScheduleByText
<1>6. CASE PayInvoice(h)
  BY <1>6 DEF PayInvoice
<1>7. CASE CreditSchedule(h)
  BY <1>7 DEF CreditSchedule, Credited, HandlerOK
<1>8. CASE StoreUnmatched(h)
  BY <1>8 DEF StoreUnmatched
<1>9. CASE HandlePostProcessing(h)
  BY <1>9 DEF HandlePostProcessing
<1>10. CASE Answer(h)
  BY <1>10 DEF Answer, historyVars
<1> QED BY <1>1, <1>2, <1>3, <1>4, <1>5, <1>6, <1>7, <1>8, <1>9, <1>10
           DEF HandlerStep

LEMMA NextMoneyInv == TypeInv /\ MoneyInv /\ [Next]_vars => MoneyInv'
<1> SUFFICES ASSUME TypeInv, MoneyInv, [Next]_vars
             PROVE  MoneyInv'
  OBVIOUS
<1> USE DEF MoneyInv, NoPhantomMoney, SnapshotOK, TypeInv, TypeOK, dbVars,
            historyVars, handlerVars
<1>1. ASSUME NEW t \in Tx, Pay(t)
      PROVE  MoneyInv'
  BY <1>1 DEF Pay
<1>2. ASSUME NEW h \in Handlers,
             \/ \E B \in SUBSET owed : Webhook(h, B)
             \/ ScheduledReconciliation(h) \/ Reconcile(h)
      PROVE  MoneyInv'
  BY <1>2 DEF Webhook, ScheduledReconciliation, Reconcile, BeginBatch
<1>3. ASSUME NEW h \in Handlers, HandlerStep(h)
      PROVE  MoneyInv'
  BY <1>3, HandlerMoneyInv
<1>4. ASSUME NEW p \in Staff, StaffStep(p)
      PROVE  MoneyInv'
  BY <1>4 DEF StaffStep, OpenReject, OpenMatch, MatchToInvoice, NotifyMatch,
              Reject, StaffFrame
<1>5. CASE FaultStep
  BY <1>5 DEF FaultStep, Fault, FailPayment, LoseAnswer, LoseWebhook, Crash,
              FailFetch, Forget, Goto
<1>6. CASE UNCHANGED vars
  BY <1>6 DEF vars
<1> QED BY <1>1, <1>2, <1>3, <1>4, <1>5, <1>6 DEF Next

\* A schedule never shows more money than was credited to it, whatever
\* the interleaving of any number of requests.
THEOREM MoneyCorrect == Spec => []NoPhantomMoney
<1>1. Spec => [](TypeInv /\ MoneyInv)
  BY InitTypeInv, NextTypeInv, InitMoneyInv, NextMoneyInv, PTL DEF Spec
<1>2. MoneyInv => NoPhantomMoney
  BY DEF MoneyInv
<1> QED BY <1>1, <1>2, PTL

-----------------------------------------------------------------------------
(* No payment dropped *)

\* An id stored in a row was credited; a payment past its commit is recorded.
RecordInv ==
    /\ \A t \in Tx, i \in Invoices : inv[i].ext = t => times[t] > 0
    /\ \A t \in Tx, s \in Schedules : sch[s].ext = t => times[t] > 0
    /\ \A h \in Handlers : pc[h] = "post" => Recorded(cur[h])
    /\ NoPaymentDropped

LEMMA InitRecordInv == Init => RecordInv
  BY DEF Init, RecordInv, NoPaymentDropped

LEMMA HandlerRecordInv ==
  ASSUME TypeInv, RecordInv, NEW h \in Handlers, HandlerStep(h)
  PROVE  RecordInv'
<1> USE DEF RecordInv, Recorded, NoPaymentDropped, TypeInv, TypeOK, HandlerOK,
            dbVars, Goto, Forget
<1>1. CASE StartPayment(h)
  BY <1>1 DEF StartPayment
<1>2. CASE CheckIdempotency(h)
  <2>1. cur[h] \in Tx /\ pc[h] \in {"inv", "sch", "unm"}
    BY <1>2 DEF CheckIdempotency
  <2>2. Stored(cur[h], pc[h]) => Recorded(cur[h])
    BY <2>1 DEF Stored
  <2>3. pc'[h] # "post" /\ \A g \in Handlers \ {h} : pc'[g] = pc[g] /\ cur'[g] = cur[g]
    BY <1>2, <2>1 DEF CheckIdempotency, FollowingRead
  <2> QED BY <1>2, <2>1, <2>2, <2>3 DEF CheckIdempotency
<1>3. CASE FindByReference(h) \/ FindInvoiceByText(h) \/ FindScheduleByText(h)
  BY <1>3 DEF FindByReference, FindInvoiceByText, FindScheduleByText, Found,
              NotFound, LookupFrame, historyVars
<1>4. CASE PayInvoice(h)
  BY <1>4 DEF PayInvoice, Settled
<1>5. CASE CreditSchedule(h)
  BY <1>5 DEF CreditSchedule, Credited
<1>6. CASE StoreUnmatched(h)
  <2>1. cur[h] \in Tx /\ \A t \in Tx : t = cur[h] => Recorded(t)'
    BY <1>6 DEF StoreUnmatched
  <2>2. \A t \in Tx : Recorded(t) => Recorded(t)'
    BY <1>6 DEF StoreUnmatched
  <2>3. \A g \in Handlers : pc'[g] = "post" => Recorded(cur[g])' /\ cur'[g] = cur[g]
    BY <1>6, <2>1, <2>2 DEF StoreUnmatched
  <2>4. NoPaymentDropped'
    BY <1>6, <2>1, <2>2 DEF StoreUnmatched
  <2> QED BY <1>6, <2>3, <2>4 DEF StoreUnmatched
<1>7. CASE HandlePostProcessing(h)
  BY <1>7 DEF HandlePostProcessing
<1>8. CASE Answer(h)
  BY <1>8 DEF Answer, historyVars
<1> QED BY <1>1, <1>2, <1>3, <1>4, <1>5, <1>6, <1>7, <1>8 DEF HandlerStep

LEMMA NextRecordInv == TypeInv /\ RecordInv /\ [Next]_vars => RecordInv'
<1> SUFFICES ASSUME TypeInv, RecordInv, [Next]_vars
             PROVE  RecordInv'
  OBVIOUS
<1> USE DEF RecordInv, Recorded, NoPaymentDropped, TypeInv, TypeOK, dbVars,
            historyVars, handlerVars
<1>1. ASSUME NEW t \in Tx, Pay(t)
      PROVE  RecordInv'
  BY <1>1 DEF Pay
<1>2. ASSUME NEW h \in Handlers,
             \/ \E B \in SUBSET owed : Webhook(h, B)
             \/ ScheduledReconciliation(h) \/ Reconcile(h)
      PROVE  RecordInv'
  BY <1>2 DEF Webhook, ScheduledReconciliation, Reconcile, BeginBatch
<1>3. ASSUME NEW h \in Handlers, HandlerStep(h)
      PROVE  RecordInv'
  BY <1>3, HandlerRecordInv
<1>4. ASSUME NEW p \in Staff, StaffStep(p)
      PROVE  RecordInv'
  <2> USE DEF StaffFrame, StaffOK
  <2>1. CASE \/ \E t \in Tx : OpenReject(p, t) \/ \E i \in Invoices : OpenMatch(p, t, i)
             \/ NotifyMatch(p)
    BY <2>1 DEF OpenReject, OpenMatch, NotifyMatch
  <2>2. CASE MatchToInvoice(p)
    BY <2>2 DEF MatchToInvoice, Settled, HandlerOK
  <2>3. CASE Reject(p)
    BY <2>3 DEF Reject, HandlerOK
  <2> QED BY <1>4, <2>1, <2>2, <2>3 DEF StaffStep
<1>5. CASE FaultStep
  BY <1>5 DEF FaultStep, Fault, FailPayment, LoseAnswer, LoseWebhook, Crash,
              FailFetch, Forget, Goto
<1>6. CASE UNCHANGED vars
  BY <1>6 DEF vars
<1> QED BY <1>1, <1>2, <1>3, <1>4, <1>5, <1>6 DEF Next

\* A payment that processPayments has finished with, and no fault has hit, is
\* recorded, for every number of requests and every reference.
THEOREM NothingDropped == Spec => []NoPaymentDropped
<1>1. Spec => [](TypeInv /\ RecordInv)
  BY InitTypeInv, NextTypeInv, InitRecordInv, NextRecordInv, PTL DEF Spec
<1>2. RecordInv => NoPaymentDropped
  BY DEF RecordInv
<1> QED BY <1>1, <1>2, PTL

-----------------------------------------------------------------------------
(* Accounted for once, unless raced or overwritten *)

Clean(t) == t \notin raced /\ t \notin overwritten

\* Some row holds the id of the transaction.
InvoiceMark(t) == \E i \in Invoices : inv[i].ext = t
ScheduleMark(t) == \E s \in Schedules : sch[s].ext = t
Marked(t) == InvoiceMark(t) \/ ScheduleMark(t)

Lookups == {"ref", "textInv", "textSch", "write"}
Open(p) == act[p].pc \in {"match", "reject"}

\* One handler at most, and one accountant at most, have a clean payment in hand.
OneHandler ==
    \A g, h \in Handlers : cur[g] = cur[h] /\ cur[h] \in Tx /\ Clean(cur[h]) => g = h
OneAccountant ==
    \A p, q \in Staff :
        Open(p) /\ Open(q) /\ act[p].tx = act[q].tx /\ Clean(act[p].tx) => p = q

\* A clean payment is credited at most once, a row still holds its id then, and
\* what is in the accountants' queue has not been credited.
CreditOnce ==
    \A t \in Tx : Clean(t) =>
        /\ times[t] \in {0, 1}
        /\ times[t] = 1 => Marked(t)
        /\ unm[t].status \in {"pending", "rejected"} => times[t] = 0

\* What the idempotency reads done so far have established still holds, unless
\* the payment is in the accountants' queue, where the third read finds it.
ReadsHold ==
    \A h \in Handlers, t \in Tx : cur[h] = t /\ Clean(t) =>
        /\ pc[h] = "sch" /\ unm[t].status = "none" => ~InvoiceMark(t)
        /\ pc[h] = "unm" /\ unm[t].status = "none" => ~Marked(t)
        /\ pc[h] \in Lookups => unm[t].status = "none" /\ ~Marked(t)

\* What an accountant's request has checked still holds.
RequestsHold ==
    \A p \in Staff : Open(p) /\ Clean(act[p].tx) => unm[act[p].tx].status = "pending"

OnceInv == OneHandler /\ OneAccountant /\ CreditOnce /\ ReadsHold /\ RequestsHold

LEMMA InitOnceInv == Init => OnceInv
  BY DEF Init, OnceInv, OneHandler, OneAccountant, CreditOnce, ReadsHold,
         RequestsHold, Clean, Marked, InvoiceMark, ScheduleMark, Lookups, Open,
         IdleRequest

\* A step that writes no row and takes no payment in hand: handlers keep their
\* payment and what they know of it, or forget it.
Quiet ==
    /\ UNCHANGED <<inv, sch, unm, times, raced, overwritten>>
    /\ \A h \in Handlers :
        \/ cur'[h] = NoTx
        \/ cur'[h] = cur[h] /\ \/ pc'[h] = pc[h]
                               \/ pc[h] \in Lookups /\ pc'[h] \in Lookups
                               \/ pc'[h] \in {"idle", "next", "post"}
    /\ \A p \in Staff : act'[p] = act[p] \/ ~Open(p)'

LEMMA QuietOnceInv ==
  ASSUME OnceInv, Quiet
  PROVE  OnceInv'
<1> USE DEF OnceInv, Quiet, Clean, Marked, InvoiceMark, ScheduleMark
<1>1. OneHandler'
  BY DEF OneHandler
<1>2. OneAccountant'
  BY DEF OneAccountant, Open
<1>3. CreditOnce'
  BY DEF CreditOnce
<1>4. ReadsHold'
  BY DEF ReadsHold, Lookups
<1>5. RequestsHold'
  BY DEF RequestsHold, Open
<1> QED BY <1>1, <1>2, <1>3, <1>4, <1>5

LEMMA StartPaymentOnceInv ==
  ASSUME TypeInv, OnceInv, NEW h \in Handlers, StartPayment(h)
  PROVE  OnceInv'
<1> USE DEF OnceInv, TypeInv, TypeOK, StartPayment, Goto, Clean, Marked,
            InvoiceMark, ScheduleMark, dbVars
<1>1. PICK t \in todo[h] :
        /\ cur' = [cur EXCEPT ![h] = t]
        /\ raced' = raced \cup {u \in {t} : \E g \in Handlers \ {h} : cur[g] = u}
  OBVIOUS
<1>2. OneHandler'
  <2> SUFFICES ASSUME NEW f \in Handlers, NEW g \in Handlers, cur'[f] = cur'[g],
                      cur'[g] \in Tx, Clean(cur[g])', f # g
               PROVE  FALSE
    BY DEF OneHandler
  <2>1. CASE f # h /\ g # h
    BY <1>1, <2>1 DEF OneHandler
  <2>2. CASE f = h \/ g = h
    BY <1>1, <2>2
  <2> QED BY <2>1, <2>2
<1>3. OneAccountant' /\ CreditOnce' /\ RequestsHold'
  BY <1>1 DEF OneAccountant, CreditOnce, RequestsHold, Open
<1>4. ReadsHold'
  BY <1>1 DEF ReadsHold, Lookups
<1> QED BY <1>2, <1>3, <1>4

LEMMA CheckIdempotencyOnceInv ==
  ASSUME TypeInv, OnceInv, NEW h \in Handlers, CheckIdempotency(h)
  PROVE  OnceInv'
<1> USE DEF TypeInv, TypeOK, CheckIdempotency, Goto, dbVars
<1>1. CASE Forget(h)
  <2>1. Quiet
    BY <1>1 DEF Quiet, Forget
  <2> QED BY <2>1, QuietOnceInv
<1>2. CASE ~Stored(cur[h], pc[h]) /\ pc' = [pc EXCEPT ![h] = FollowingRead[pc[h]]]
           /\ UNCHANGED cur
  <2> USE DEF OnceInv, Clean, Marked, InvoiceMark, ScheduleMark
  <2>1. OneHandler' /\ OneAccountant' /\ CreditOnce' /\ RequestsHold'
    BY <1>2 DEF OneHandler, OneAccountant, CreditOnce, RequestsHold, Open
  <2>2. ReadsHold'
    <3> SUFFICES ASSUME NEW g \in Handlers, NEW t \in Tx, cur[g] = t, Clean(t)
                 PROVE  /\ pc'[g] = "sch" /\ unm[t].status = "none" => ~InvoiceMark(t)
                        /\ pc'[g] = "unm" /\ unm[t].status = "none" => ~Marked(t)
                        /\ pc'[g] \in Lookups => unm[t].status = "none" /\ ~Marked(t)
      BY <1>2 DEF ReadsHold
    <3>1. CASE g # h
      BY <1>2, <3>1 DEF ReadsHold
    <3>2. CASE g = h /\ pc[h] = "inv"
      BY <1>2, <3>2 DEF Stored, FollowingRead, Lookups
    <3>3. CASE g = h /\ pc[h] = "sch"
      BY <1>2, <3>3 DEF Stored, FollowingRead, Lookups, ReadsHold
    <3>4. CASE g = h /\ pc[h] = "unm"
      BY <1>2, <3>4 DEF Stored, FollowingRead, Lookups, ReadsHold
    <3> QED BY <3>1, <3>2, <3>3, <3>4
  <2> QED BY <2>1, <2>2
<1> QED BY <1>1, <1>2

\* Crediting a row: what the three writers have in common. Only t's own marks
\* and the marks of payments that become overwritten change.
LEMMA CreditKeepsMarks ==
  ASSUME TypeInv, NEW t \in Tx, NEW u \in Tx, u # t, Clean(u)',
         \/ \E i \in Invoices : /\ inv' = [inv EXCEPT ![i] = Settled(t)]
                                /\ Overwrite(inv[i], t)
                                /\ UNCHANGED sch
         \/ \E s \in Schedules : /\ \E row : row.ext = t /\ sch' = [sch EXCEPT ![s] = row]
                                 /\ Overwrite(sch[s], t)
                                 /\ UNCHANGED inv
  PROVE  (InvoiceMark(u)' <=> InvoiceMark(u)) /\ (ScheduleMark(u)' <=> ScheduleMark(u))
<1> USE DEF TypeInv, TypeOK, InvoiceMark, ScheduleMark, Overwrite, Clean, Settled
<1>1. ASSUME NEW i \in Invoices, inv' = [inv EXCEPT ![i] = Settled(t)],
             Overwrite(inv[i], t), UNCHANGED sch
      PROVE  (InvoiceMark(u)' <=> InvoiceMark(u)) /\ (ScheduleMark(u)' <=> ScheduleMark(u))
  <2>1. inv[i].ext # u
    BY <1>1
  <2> QED BY <1>1, <2>1
<1>2. ASSUME NEW s \in Schedules, NEW row, row.ext = t,
             sch' = [sch EXCEPT ![s] = row], Overwrite(sch[s], t), UNCHANGED inv
      PROVE  (InvoiceMark(u)' <=> InvoiceMark(u)) /\ (ScheduleMark(u)' <=> ScheduleMark(u))
  <2>1. sch[s].ext # u
    BY <1>2
  <2> QED BY <1>2, <2>1
<1> QED BY <1>1, <1>2

\* A handler that credits a row.
LEMMA CreditOnceInv ==
  ASSUME TypeInv, OnceInv, NEW h \in Handlers, PayInvoice(h) \/ CreditSchedule(h)
  PROVE  OnceInv'
<1> USE DEF TypeInv, TypeOK, OnceInv, HandlerOK
<1> DEFINE t == cur[h]
<1>1. /\ pc[h] = "write" /\ t \in Tx
      /\ times' = [times EXCEPT ![t] = @ + 1]
      /\ pc' = [pc EXCEPT ![h] = "post"]
      /\ overwritten \subseteq overwritten'
      /\ UNCHANGED <<cur, unm, act, raced>>
  BY DEF PayInvoice, CreditSchedule, Goto, Overwrite
<1>2. \A u \in Tx : u # t /\ Clean(u)' =>
        (InvoiceMark(u)' <=> InvoiceMark(u)) /\ (ScheduleMark(u)' <=> ScheduleMark(u))
  <2>1. CASE PayInvoice(h)
    BY <1>1, <2>1, CreditKeepsMarks DEF PayInvoice
  <2>2. CASE CreditSchedule(h)
    <3>1. Credited(h).ext = t
      BY DEF Credited
    <3> QED BY <1>1, <2>2, <3>1, CreditKeepsMarks DEF CreditSchedule
  <2> QED BY <2>1, <2>2
<1>3. Marked(t)'
  BY <1>1 DEF PayInvoice, CreditSchedule, Marked, InvoiceMark, ScheduleMark,
              Settled, Credited
<1>4. \A u \in Tx : Clean(u)' => Clean(u)
  BY <1>1 DEF Clean
<1>5. OneHandler' /\ OneAccountant' /\ RequestsHold'
  BY <1>1, <1>4 DEF OneHandler, OneAccountant, RequestsHold, Open, Clean
<1>6. CreditOnce'
  <2> SUFFICES ASSUME NEW u \in Tx, Clean(u)'
               PROVE  /\ times'[u] \in {0, 1}
                      /\ times'[u] = 1 => Marked(u)'
                      /\ unm[u].status \in {"pending", "rejected"} => times'[u] = 0
    BY <1>1 DEF CreditOnce
  <2>1. CASE u # t
    BY <1>1, <1>2, <1>4, <2>1 DEF CreditOnce, Marked
  <2>2. CASE u = t
    <3>1. Clean(t) /\ unm[t].status = "none" /\ ~Marked(t)
      BY <1>1, <1>4, <2>2 DEF ReadsHold, Lookups
    <3>2. times[t] = 0
      BY <1>1, <3>1 DEF CreditOnce
    <3> QED BY <1>1, <1>3, <2>2, <3>1, <3>2
  <2> QED BY <2>1, <2>2
<1>7. ReadsHold'
  <2> SUFFICES ASSUME NEW g \in Handlers, NEW u \in Tx, cur[g] = u, Clean(u)'
               PROVE  /\ pc'[g] = "sch" /\ unm[u].status = "none" => ~InvoiceMark(u)'
                      /\ pc'[g] = "unm" /\ unm[u].status = "none" => ~Marked(u)'
                      /\ pc'[g] \in Lookups => unm[u].status = "none" /\ ~Marked(u)'
    BY <1>1 DEF ReadsHold
  <2>1. CASE u # t
    BY <1>1, <1>2, <1>4, <2>1 DEF ReadsHold, Marked
  <2>2. CASE u = t
    <3>1. g = h
      BY <1>1, <1>4, <2>2 DEF OneHandler
    <3> QED BY <1>1, <3>1 DEF Lookups
  <2> QED BY <2>1, <2>2
<1> QED BY <1>5, <1>6, <1>7

LEMMA StoreUnmatchedOnceInv ==
  ASSUME TypeInv, OnceInv, NEW h \in Handlers, StoreUnmatched(h)
  PROVE  OnceInv'
<1> USE DEF TypeInv, TypeOK, HandlerOK, StoreUnmatched
<1> DEFINE t == cur[h]
<1>1. CASE Forget(h) /\ UNCHANGED unm
  <2>1. Quiet
    BY <1>1 DEF Quiet, Forget, Goto
  <2> QED BY <2>1, QuietOnceInv
<1>2. CASE /\ unm[t].status = "none"
           /\ unm' = [unm EXCEPT ![t] = [status |-> "pending", invoice |-> NoEntity]]
           /\ Goto(h, "post") /\ UNCHANGED cur
  <2> USE DEF OnceInv, Goto, Clean, Marked, InvoiceMark, ScheduleMark
  <2>1. t \in Tx
    BY <1>2
  <2>2. OneHandler' /\ OneAccountant'
    BY <1>2 DEF OneHandler, OneAccountant, Open
  <2>3. CreditOnce'
    <3>1. Clean(t) => times[t] = 0
      BY <2>1 DEF ReadsHold, Lookups, CreditOnce
    <3> QED BY <1>2, <2>1, <3>1 DEF CreditOnce
  <2>4. ReadsHold'
    <3> SUFFICES ASSUME NEW g \in Handlers, NEW u \in Tx, cur[g] = u, Clean(u)
                 PROVE  /\ pc'[g] = "sch" /\ unm'[u].status = "none" => ~InvoiceMark(u)
                        /\ pc'[g] = "unm" /\ unm'[u].status = "none" => ~Marked(u)
                        /\ pc'[g] \in Lookups => unm'[u].status = "none" /\ ~Marked(u)
      BY <1>2 DEF ReadsHold
    <3>1. CASE u # t
      BY <1>2, <3>1 DEF ReadsHold, Lookups
    <3>2. CASE u = t
      <4>1. g = h
        BY <2>1, <3>2 DEF OneHandler
      <4> QED BY <1>2, <4>1 DEF Lookups
    <3> QED BY <3>1, <3>2
  <2>5. RequestsHold'
    BY <1>2, <2>1 DEF RequestsHold, Open
  <2> QED BY <2>2, <2>3, <2>4, <2>5
<1> QED BY <1>1, <1>2

\* An accountant's request that has made its checks.
LEMMA OpenOnceInv ==
  ASSUME TypeInv, OnceInv, NEW p \in Staff, NEW t \in Tx,
         OpenReject(p, t) \/ \E i \in Invoices : OpenMatch(p, t, i)
  PROVE  OnceInv'
<1> USE DEF TypeInv, TypeOK, OnceInv, Clean, Marked, InvoiceMark, ScheduleMark
<1>1. /\ unm[t].status = "pending"
      /\ act'[p].tx = t
      /\ \A q \in Staff \ {p} : act'[q] = act[q]
      /\ Race(p, t)
      /\ UNCHANGED <<inv, sch, unm, times, overwritten, pc, cur>>
  BY DEF OpenReject, OpenMatch, StaffFrame, handlerVars
<1>2. OneHandler' /\ CreditOnce' /\ ReadsHold'
  BY <1>1 DEF OneHandler, CreditOnce, ReadsHold, Race
<1>3. OneAccountant'
  <2> SUFFICES ASSUME NEW q \in Staff, NEW r \in Staff, Open(q)', Open(r)',
                      act'[q].tx = act'[r].tx, Clean(act[q].tx)', q # r
               PROVE  FALSE
    BY DEF OneAccountant
  <2>1. CASE q # p /\ r # p
    BY <1>1, <2>1 DEF OneAccountant, Open, Race
  <2>2. CASE q = p \/ r = p
    BY <1>1, <2>2 DEF Open, Race
  <2> QED BY <2>1, <2>2
<1>4. RequestsHold'
  BY <1>1 DEF RequestsHold, Open, Race
<1> QED BY <1>2, <1>3, <1>4

LEMMA MatchOnceInv ==
  ASSUME TypeInv, OnceInv, NEW p \in Staff, MatchToInvoice(p)
  PROVE  OnceInv'
<1> USE DEF TypeInv, TypeOK, OnceInv, StaffOK, MatchToInvoice
<1> DEFINE t == act[p].tx
<1>1. /\ t \in Tx /\ Open(p) /\ ~Open(p)'
      /\ times' = [times EXCEPT ![t] = @ + 1]
      /\ \A q \in Staff : act'[q] = act[q] \/ ~Open(q)'
      /\ \A u \in Tx : u # t => unm'[u] = unm[u]
      /\ unm'[t].status = "matched"
      /\ overwritten \subseteq overwritten'
      /\ UNCHANGED <<cur, pc, raced>>
  BY DEF Open, StaffFrame, handlerVars, Overwrite, Request
<1>2. \A u \in Tx : u # t /\ Clean(u)' =>
        (InvoiceMark(u)' <=> InvoiceMark(u)) /\ (ScheduleMark(u)' <=> ScheduleMark(u))
  BY <1>1, CreditKeepsMarks DEF StaffFrame
<1>3. Marked(t)'
  BY DEF Marked, InvoiceMark, Settled
<1>4. \A u \in Tx : Clean(u)' => Clean(u)
  BY <1>1 DEF Clean
<1>5. OneHandler' /\ OneAccountant'
  BY <1>1, <1>4 DEF OneHandler, OneAccountant, Clean, Open
<1>6. RequestsHold'
  <2> SUFFICES ASSUME NEW q \in Staff, Open(q)', Clean(act[q].tx)'
               PROVE  unm'[act'[q].tx].status = "pending"
    BY DEF RequestsHold
  <2>1. act'[q] = act[q] /\ Open(q) /\ q # p /\ act[q].tx \in Tx
    BY <1>1 DEF Open
  <2>2. act[q].tx # t
    BY <1>1, <1>4, <2>1 DEF OneAccountant
  <2> QED BY <1>1, <1>4, <2>1, <2>2 DEF RequestsHold
<1>7. Clean(t) => unm[t].status = "pending" /\ times[t] = 0
  BY <1>1 DEF RequestsHold, CreditOnce
<1>8. CreditOnce'
  <2> SUFFICES ASSUME NEW u \in Tx, Clean(u)'
               PROVE  /\ times'[u] \in {0, 1}
                      /\ times'[u] = 1 => Marked(u)'
                      /\ unm'[u].status \in {"pending", "rejected"} => times'[u] = 0
    BY DEF CreditOnce
  <2>1. CASE u # t
    BY <1>1, <1>2, <1>4, <2>1 DEF CreditOnce, Marked
  <2>2. CASE u = t
    BY <1>1, <1>3, <1>4, <1>7, <2>2
  <2> QED BY <2>1, <2>2
<1>9. ReadsHold'
  <2> SUFFICES ASSUME NEW g \in Handlers, NEW u \in Tx, cur[g] = u, Clean(u)'
               PROVE  /\ pc[g] = "sch" /\ unm'[u].status = "none" => ~InvoiceMark(u)'
                      /\ pc[g] = "unm" /\ unm'[u].status = "none" => ~Marked(u)'
                      /\ pc[g] \in Lookups => unm'[u].status = "none" /\ ~Marked(u)'
    BY <1>1 DEF ReadsHold
  <2>1. CASE u # t
    BY <1>1, <1>2, <1>4, <2>1 DEF ReadsHold, Marked
  <2>2. CASE u = t
    BY <1>1, <1>4, <1>7, <2>2 DEF ReadsHold
  <2> QED BY <2>1, <2>2
<1> QED BY <1>5, <1>6, <1>8, <1>9

LEMMA RejectOnceInv ==
  ASSUME TypeInv, OnceInv, NEW p \in Staff, Reject(p)
  PROVE  OnceInv'
<1> USE DEF TypeInv, TypeOK, OnceInv, StaffOK, Reject, StaffFrame, handlerVars,
            Clean, Marked, InvoiceMark, ScheduleMark
<1> DEFINE t == act[p].tx
<1>1. /\ t \in Tx /\ Open(p) /\ ~Open(p)'
      /\ \A q \in Staff \ {p} : act'[q] = act[q]
      /\ \A u \in Tx : u # t => unm'[u] = unm[u]
      /\ unm'[t].status = "rejected"
  BY DEF Open, IdleRequest
<1>2. Clean(t) => unm[t].status = "pending" /\ times[t] = 0
  BY <1>1 DEF RequestsHold, CreditOnce
<1>3. OneHandler' /\ OneAccountant'
  BY <1>1 DEF OneHandler, OneAccountant, Open
<1>4. CreditOnce'
  BY <1>1, <1>2 DEF CreditOnce
<1>5. ReadsHold'
  BY <1>1, <1>2 DEF ReadsHold
<1>6. RequestsHold'
  <2> SUFFICES ASSUME NEW q \in Staff, Open(q)', Clean(act'[q].tx)
               PROVE  unm'[act'[q].tx].status = "pending"
    BY DEF RequestsHold
  <2>1. act'[q] = act[q] /\ Open(q) /\ q # p /\ act[q].tx \in Tx
    BY <1>1 DEF Open
  <2>2. act[q].tx # t
    BY <1>1, <2>1 DEF OneAccountant
  <2> QED BY <1>1, <2>1, <2>2 DEF RequestsHold
<1> QED BY <1>3, <1>4, <1>5, <1>6

LEMMA NextOnceInv == TypeInv /\ OnceInv /\ [Next]_vars => OnceInv'
<1> SUFFICES ASSUME TypeInv, OnceInv, [Next]_vars
             PROVE  OnceInv'
  OBVIOUS
<1> USE DEF TypeInv, TypeOK, dbVars, historyVars, handlerVars
<1>1. ASSUME NEW t \in Tx, Pay(t)
      PROVE  OnceInv'
  BY <1>1, QuietOnceInv DEF Pay, Quiet
<1>2. ASSUME NEW h \in Handlers,
             \/ \E B \in SUBSET owed : Webhook(h, B)
             \/ ScheduledReconciliation(h) \/ Reconcile(h)
      PROVE  OnceInv'
  BY <1>2, QuietOnceInv
  DEF Webhook, ScheduledReconciliation, Reconcile, BeginBatch, Quiet
<1>3. ASSUME NEW h \in Handlers, HandlerStep(h)
      PROVE  OnceInv'
  <2>1. CASE \/ FindByReference(h) \/ FindInvoiceByText(h) \/ FindScheduleByText(h)
    BY <2>1, QuietOnceInv
    DEF FindByReference, FindInvoiceByText, FindScheduleByText, Found, NotFound,
        LookupFrame, Goto, Quiet, Lookups
  <2>2. CASE HandlePostProcessing(h) \/ Answer(h)
    BY <2>2, QuietOnceInv DEF HandlePostProcessing, Answer, Forget, Goto, Quiet
  <2> QED BY <1>3, <2>1, <2>2, StartPaymentOnceInv, CheckIdempotencyOnceInv,
             CreditOnceInv, StoreUnmatchedOnceInv DEF HandlerStep
<1>4. ASSUME NEW p \in Staff, StaffStep(p)
      PROVE  OnceInv'
  <2>1. CASE NotifyMatch(p)
    BY <2>1, QuietOnceInv DEF NotifyMatch, StaffFrame, IdleRequest, Quiet, Open
  <2> QED BY <1>4, <2>1, OpenOnceInv, MatchOnceInv, RejectOnceInv DEF StaffStep
<1>5. CASE FaultStep
  BY <1>5, QuietOnceInv
  DEF FaultStep, Fault, FailPayment, LoseAnswer, LoseWebhook, Crash, FailFetch,
      Forget, Goto, Quiet, IdleRequest, Open
<1>6. CASE UNCHANGED vars
  BY <1>6, QuietOnceInv DEF vars, Quiet
<1> QED BY <1>1, <1>2, <1>3, <1>4, <1>5, <1>6 DEF Next

\* A payment is accounted for once, for every number of requests, accountants,
\* payments, duplicates and faults, unless two requests had it in hand at the
\* same time or another payment overwrote its id.
THEOREM AccountedOnceUnlessRaced == Spec => []OnceUnlessRaced
<1>1. Spec => [](TypeInv /\ OnceInv)
  BY InitTypeInv, NextTypeInv, InitOnceInv, NextOnceInv, PTL DEF Spec
<1>2. TypeInv /\ OnceInv => OnceUnlessRaced
  BY DEF TypeInv, TypeOK, UnmatchedRow, UnmatchedStatus, OnceInv, CreditOnce,
         OnceUnlessRaced, AccountedOnce, Clean
<1> QED BY <1>1, <1>2, PTL

-----------------------------------------------------------------------------
(* No notice without a credit *)

\* The requests about to queue a confirmation of the payment.
Confirming(t) == {h \in Handlers : pc[h] = "post" /\ cur[h] = t /\ target[h] \in Entities}
Notifying(t) == {p \in Staff : act[p].pc = "notify" /\ act[p].tx = t}

\* n notices sent, and those about to be sent from P and from Q, are m at most.
\* P and Q may be infinite: it is said of their finite subsets.
AtMost(n, P, Q, m) ==
    \A A \in SUBSET P, B \in SUBSET Q :
        IsFiniteSet(A) /\ IsFiniteSet(B) => n + Cardinality(A) + Cardinality(B) <= m

NoticeInv == \A t \in Tx : AtMost(sent[t], Confirming(t), Notifying(t), times[t])

LEMMA InitNoticeInv == Init => NoticeInv
<1> SUFFICES ASSUME Init, NEW t \in Tx PROVE AtMost(sent[t], Confirming(t), Notifying(t), times[t])
  BY DEF NoticeInv
<1>1. Confirming(t) = {} /\ Notifying(t) = {}
  BY DEF Init, Confirming, Notifying, IdleRequest
<1>2. sent[t] = 0 /\ times[t] = 0
  BY DEF Init
<1> QED
  BY <1>1, <1>2, FS_EmptySet DEF AtMost

LEMMA FewerAtMost ==
  ASSUME NEW n, NEW m, NEW P, NEW Q, NEW R \in SUBSET P, NEW S \in SUBSET Q, AtMost(n, P, Q, m)
  PROVE  AtMost(n, R, S, m)
BY DEF AtMost

LEMMA SwappedAtMost ==
  ASSUME NEW n \in Nat, NEW m \in Nat, NEW P, NEW Q, AtMost(n, P, Q, m)
  PROVE  AtMost(n, Q, P, m)
<1> SUFFICES ASSUME NEW A \in SUBSET Q, NEW B \in SUBSET P, IsFiniteSet(A), IsFiniteSet(B)
             PROVE  n + Cardinality(A) + Cardinality(B) <= m
  BY DEF AtMost
<1>1. Cardinality(A) \in Nat /\ Cardinality(B) \in Nat
  BY FS_CardinalityType
<1>2. n + Cardinality(B) + Cardinality(A) <= m
  BY DEF AtMost
<1> QED
  BY <1>1, <1>2

\* One more credit allows one more request.
LEMMA OneMore ==
  ASSUME NEW n \in Nat, NEW m \in Nat, NEW P, NEW Q, NEW x, AtMost(n, P, Q, m)
  PROVE  AtMost(n, P \cup {x}, Q, m + 1)
<1> SUFFICES ASSUME NEW A \in SUBSET (P \cup {x}), NEW B \in SUBSET Q, IsFiniteSet(A), IsFiniteSet(B)
             PROVE  n + Cardinality(A) + Cardinality(B) <= m + 1
  BY DEF AtMost
<1>1. /\ IsFiniteSet(A \ {x})
      /\ Cardinality(A \ {x}) = IF x \in A THEN Cardinality(A) - 1 ELSE Cardinality(A)
  BY FS_RemoveElement
<1>2. Cardinality(A) \in Nat /\ Cardinality(B) \in Nat
  BY FS_CardinalityType
<1>3. n + Cardinality(A \ {x}) + Cardinality(B) <= m
  BY <1>1 DEF AtMost
<1> QED
  BY <1>1, <1>2, <1>3

\* A request that has sent its notice is not about to.
LEMMA OneSent ==
  ASSUME NEW n \in Nat, NEW m \in Nat, NEW P, NEW Q, NEW x \in P, AtMost(n, P, Q, m)
  PROVE  AtMost(n + 1, P \ {x}, Q, m)
<1> SUFFICES ASSUME NEW A \in SUBSET (P \ {x}), NEW B \in SUBSET Q, IsFiniteSet(A), IsFiniteSet(B)
             PROVE  n + 1 + Cardinality(A) + Cardinality(B) <= m
  BY DEF AtMost
<1>1. IsFiniteSet(A \cup {x}) /\ Cardinality(A \cup {x}) = Cardinality(A) + 1
  BY FS_AddElement
<1>2. Cardinality(A) \in Nat /\ Cardinality(B) \in Nat
  BY FS_CardinalityType
<1>3. n + Cardinality(A \cup {x}) + Cardinality(B) <= m
  BY <1>1 DEF AtMost
<1> QED
  BY <1>1, <1>2, <1>3

\* The steps that credit nothing and send nothing put no notice in hand.
Silent ==
    /\ UNCHANGED <<times, sent>>
    /\ \A t \in Tx : Confirming(t)' \subseteq Confirming(t) /\ Notifying(t)' \subseteq Notifying(t)

LEMMA SilentNoticeInv ==
  ASSUME NoticeInv, Silent
  PROVE  NoticeInv'
<1> SUFFICES ASSUME NEW t \in Tx PROVE AtMost(sent'[t], Confirming(t)', Notifying(t)', times'[t])
  BY DEF NoticeInv, AtMost
<1>1. AtMost(sent[t], Confirming(t)', Notifying(t)', times[t])
  BY FewerAtMost DEF NoticeInv, Silent
<1> QED
  BY <1>1 DEF Silent

\* A step about one payment; the others keep what is said of them.
LEMMA OneNotice ==
  ASSUME NoticeInv, NEW t \in Tx, AtMost(sent'[t], Confirming(t)', Notifying(t)', times'[t]),
         \A u \in Tx : u # t =>
            /\ sent'[u] = sent[u] /\ times'[u] = times[u]
            /\ Confirming(u)' \subseteq Confirming(u) /\ Notifying(u)' \subseteq Notifying(u)
  PROVE  NoticeInv'
<1> SUFFICES ASSUME NEW u \in Tx PROVE AtMost(sent'[u], Confirming(u)', Notifying(u)', times'[u])
  BY DEF NoticeInv, AtMost
<1>1. CASE u = t
  BY <1>1
<1>2. CASE u # t
  <2>1. AtMost(sent[u], Confirming(u)', Notifying(u)', times[u])
    BY <1>2, FewerAtMost DEF NoticeInv
  <2> QED BY <1>2, <2>1
<1> QED BY <1>1, <1>2

\* A handler that credits a row has a notice to send.
LEMMA CreditNoticeInv ==
  ASSUME TypeInv, NoticeInv, NEW h \in Handlers, PayInvoice(h) \/ CreditSchedule(h)
  PROVE  NoticeInv'
<1>1. PICK t : t = cur[h]
  OBVIOUS
<1>2. /\ t \in Tx /\ times' = [times EXCEPT ![t] = @ + 1]
      /\ UNCHANGED <<cur, target, sent, act>>
      /\ \A g \in Handlers : g # h => pc'[g] = pc[g]
  BY <1>1 DEF PayInvoice, CreditSchedule, Goto, TypeInv, TypeOK, HandlerOK
<1>3. /\ times[t] \in Nat /\ sent[t] \in Nat /\ times'[t] = times[t] + 1 /\ sent'[t] = sent[t]
      /\ \A u \in Tx : u # t => times'[u] = times[u]
  BY <1>2 DEF TypeInv, TypeOK
<1>4. \A u \in Tx : Notifying(u)' = Notifying(u)
  BY <1>2 DEF Notifying
<1>5. /\ \A u \in Tx : u # t => Confirming(u)' \subseteq Confirming(u)
      /\ Confirming(t)' \subseteq Confirming(t) \cup {h}
  BY <1>1, <1>2 DEF Confirming
<1>6. AtMost(sent[t], Confirming(t) \cup {h}, Notifying(t), times[t] + 1)
  BY <1>2, <1>3, OneMore DEF NoticeInv
<1>7. AtMost(sent[t], Confirming(t)', Notifying(t)', times[t] + 1)
  BY <1>2, <1>4, <1>5, <1>6, FewerAtMost
<1> QED
  BY <1>2, <1>3, <1>4, <1>5, <1>7, OneNotice

LEMMA HandlerNoticeInv ==
  ASSUME TypeInv, NoticeInv, NEW h \in Handlers, HandlePostProcessing(h)
  PROVE  NoticeInv'
<1>1. PICK t : t = cur[h]
  OBVIOUS
<1>2. /\ t \in Tx /\ pc[h] = "post" /\ UNCHANGED <<times, act>>
      /\ sent' = IF target[h] \in Tenanted THEN [sent EXCEPT ![t] = @ + 1] ELSE sent
      /\ pc'[h] # "post"
      /\ \A g \in Handlers : g # h => pc'[g] = pc[g] /\ cur'[g] = cur[g] /\ target'[g] = target[g]
  BY <1>1 DEF HandlePostProcessing, Forget, Goto, TypeInv, TypeOK, HandlerOK
<1>3. \A u \in Tx : Notifying(u)' = Notifying(u)
  BY <1>2 DEF Notifying
<1>4. \A u \in Tx : Confirming(u)' \subseteq Confirming(u) \ {h}
  BY <1>2 DEF Confirming
<1>5. CASE target[h] \notin Tenanted
  <2>1. Silent
    BY <1>2, <1>3, <1>4, <1>5 DEF Silent
  <2> QED BY <2>1, SilentNoticeInv
<1>6. CASE target[h] \in Tenanted
  <2>1. h \in Confirming(t)
    BY <1>1, <1>2, <1>6 DEF Confirming
  <2>2. /\ times[t] \in Nat /\ sent[t] \in Nat /\ sent'[t] = sent[t] + 1 /\ times'[t] = times[t]
        /\ \A u \in Tx : u # t => sent'[u] = sent[u]
    BY <1>2, <1>6 DEF TypeInv, TypeOK
  <2>3. AtMost(sent[t] + 1, Confirming(t) \ {h}, Notifying(t), times[t])
    BY <1>2, <2>1, <2>2, OneSent DEF NoticeInv
  <2>4. AtMost(sent[t] + 1, Confirming(t)', Notifying(t)', times[t])
    BY <1>2, <1>3, <1>4, <2>3, FewerAtMost
  <2> QED
    BY <1>2, <1>3, <1>4, <2>2, <2>4, OneNotice
<1> QED
  BY <1>5, <1>6

\* An accountant's match credits, and sends its notice after.
LEMMA MatchNoticeInv ==
  ASSUME TypeInv, NoticeInv, NEW p \in Staff, MatchToInvoice(p)
  PROVE  NoticeInv'
<1>1. PICK t : t = act[p].tx
  OBVIOUS
<1>2. /\ t \in Tx /\ times' = [times EXCEPT ![t] = @ + 1] /\ UNCHANGED <<pc, cur, target, sent>>
      /\ act' = [act EXCEPT ![p].pc = "notify"]
  BY <1>1 DEF MatchToInvoice, StaffFrame, handlerVars, TypeInv, StaffOK
<1>3. /\ times[t] \in Nat /\ sent[t] \in Nat /\ times'[t] = times[t] + 1 /\ sent'[t] = sent[t]
      /\ \A u \in Tx : u # t => times'[u] = times[u]
  BY <1>2 DEF TypeInv, TypeOK
<1>4. \A u \in Tx : Confirming(u)' = Confirming(u)
  BY <1>2 DEF Confirming
<1>5. act'[p].tx = t /\ \A q \in Staff : q # p => act'[q] = act[q]
  BY <1>1, <1>2 DEF TypeInv, TypeOK, Request
<1>6. /\ \A u \in Tx : u # t => Notifying(u)' \subseteq Notifying(u)
      /\ Notifying(t)' \subseteq Notifying(t) \cup {p}
  BY <1>5 DEF Notifying
<1>7. AtMost(sent[t], Notifying(t) \cup {p}, Confirming(t), times[t] + 1)
  BY <1>2, <1>3, OneMore, SwappedAtMost DEF NoticeInv
<1>8. AtMost(sent[t], Confirming(t), Notifying(t) \cup {p}, times[t] + 1)
  <2>1. times[t] + 1 \in Nat
    BY <1>3
  <2> QED BY <1>3, <1>7, <2>1, SwappedAtMost
<1>9. AtMost(sent[t], Confirming(t)', Notifying(t)', times[t] + 1)
  BY <1>2, <1>4, <1>6, <1>8, FewerAtMost
<1> QED
  BY <1>2, <1>3, <1>4, <1>6, <1>9, OneNotice

LEMMA NotifyNoticeInv ==
  ASSUME TypeInv, NoticeInv, NEW p \in Staff, NotifyMatch(p)
  PROVE  NoticeInv'
<1>1. PICK t : t = act[p].tx
  OBVIOUS
<1>2. /\ t \in Tx /\ act[p].pc = "notify" /\ UNCHANGED <<times, pc, cur, target>>
      /\ sent' = IF act[p].invoice \in Tenanted THEN [sent EXCEPT ![t] = @ + 1] ELSE sent
      /\ act' = [act EXCEPT ![p] = IdleRequest]
  BY <1>1 DEF NotifyMatch, StaffFrame, handlerVars, TypeInv, StaffOK
<1>3. act'[p].pc # "notify" /\ \A q \in Staff : q # p => act'[q] = act[q]
  BY <1>2 DEF TypeInv, TypeOK, IdleRequest
<1>4. \A u \in Tx : Confirming(u)' = Confirming(u) /\ Notifying(u)' \subseteq Notifying(u) \ {p}
  BY <1>2, <1>3 DEF Confirming, Notifying
<1>5. CASE act[p].invoice \notin Tenanted
  <2>1. Silent
    BY <1>2, <1>4, <1>5 DEF Silent
  <2> QED BY <2>1, SilentNoticeInv
<1>6. CASE act[p].invoice \in Tenanted
  <2>1. p \in Notifying(t)
    BY <1>1, <1>2 DEF Notifying
  <2>2. /\ times[t] \in Nat /\ sent[t] \in Nat /\ sent'[t] = sent[t] + 1 /\ times'[t] = times[t]
        /\ \A u \in Tx : u # t => sent'[u] = sent[u]
    BY <1>2, <1>6 DEF TypeInv, TypeOK
  <2>3. AtMost(sent[t] + 1, Notifying(t) \ {p}, Confirming(t), times[t])
    BY <1>2, <2>1, <2>2, OneSent, SwappedAtMost DEF NoticeInv
  <2>4. AtMost(sent[t] + 1, Confirming(t), Notifying(t) \ {p}, times[t])
    <3>1. sent[t] + 1 \in Nat
      BY <2>2
    <3> QED BY <2>2, <2>3, <3>1, SwappedAtMost
  <2>5. AtMost(sent[t] + 1, Confirming(t)', Notifying(t)', times[t])
    BY <1>2, <1>4, <2>4, FewerAtMost
  <2> QED
    BY <1>2, <1>4, <2>2, <2>5, OneNotice
<1> QED
  BY <1>5, <1>6

LEMMA NextNoticeInv == TypeInv /\ NoticeInv /\ [Next]_vars => NoticeInv'
<1> SUFFICES ASSUME TypeInv, NoticeInv, [Next]_vars
             PROVE  NoticeInv'
  OBVIOUS
<1> USE DEF TypeInv, TypeOK, dbVars, historyVars, handlerVars
<1>1. ASSUME NEW t \in Tx, Pay(t)
      PROVE  Silent
  BY <1>1 DEF Pay, Silent, Confirming, Notifying
<1>2. ASSUME NEW h \in Handlers,
             \/ \E B \in SUBSET owed : Webhook(h, B)
             \/ ScheduledReconciliation(h) \/ Reconcile(h)
      PROVE  Silent
  BY <1>2 DEF Webhook, ScheduledReconciliation, Reconcile, BeginBatch, Silent, Confirming, Notifying
<1>3. ASSUME NEW h \in Handlers, HandlerStep(h)
      PROVE  NoticeInv'
  <2>1. CASE StartPayment(h) \/ CheckIdempotency(h) \/ Answer(h)
    <3>1. Silent
      BY <2>1 DEF StartPayment, CheckIdempotency, FollowingRead, Answer, Forget, Goto, Silent,
                  Confirming, Notifying
    <3> QED BY <3>1, SilentNoticeInv
  <2>2. CASE FindByReference(h) \/ FindInvoiceByText(h) \/ FindScheduleByText(h)
    <3>1. Silent
      BY <2>2 DEF FindByReference, FindInvoiceByText, FindScheduleByText, Found, NotFound,
                  LookupFrame, Goto, Silent, Confirming, Notifying
    <3> QED BY <3>1, SilentNoticeInv
  <2>3. CASE StoreUnmatched(h)
    <3>1. UNCHANGED <<times, sent, act>> /\ target[h] = NoEntity
      BY <2>3 DEF StoreUnmatched
    <3>2. /\ pc'[h] # "post" \/ target'[h] = NoEntity
          /\ \A g \in Handlers : g # h => pc'[g] = pc[g] /\ cur'[g] = cur[g] /\ target'[g] = target[g]
      BY <2>3 DEF StoreUnmatched, Forget, Goto
    <3>3. Silent
      BY <3>1, <3>2 DEF Silent, Confirming, Notifying
    <3> QED BY <3>3, SilentNoticeInv
  <2> QED BY <1>3, <2>1, <2>2, <2>3, CreditNoticeInv, HandlerNoticeInv DEF HandlerStep
<1>4. ASSUME NEW p \in Staff, StaffStep(p)
      PROVE  NoticeInv'
  <2>1. CASE \/ \E t \in Tx : OpenReject(p, t) \/ \E i \in Invoices : OpenMatch(p, t, i)
             \/ Reject(p)
    <3>1. Silent
      BY <2>1 DEF OpenReject, OpenMatch, Reject, StaffFrame, IdleRequest, Silent, Confirming, Notifying
    <3> QED BY <3>1, SilentNoticeInv
  <2> QED BY <1>4, <2>1, MatchNoticeInv, NotifyNoticeInv DEF StaffStep
<1>5. CASE FaultStep
  <2>1. Silent
    BY <1>5 DEF FaultStep, Fault, FailPayment, LoseAnswer, LoseWebhook, Crash, FailFetch, Forget, Goto,
                IdleRequest, Silent, Confirming, Notifying
  <2> QED BY <2>1, SilentNoticeInv
<1>6. CASE UNCHANGED vars
  BY <1>6, SilentNoticeInv DEF vars, Silent, Confirming, Notifying
<1> QED BY <1>1, <1>2, <1>3, <1>4, <1>5, <1>6, SilentNoticeInv DEF Next

\* A tenant is never told of a payment more often than it was credited, for
\* every number of requests and accountants, finite or not.
THEOREM NoticesCorrect == Spec => []NoticePerCredit
<1>1. Spec => [](TypeInv /\ NoticeInv)
  BY InitTypeInv, NextTypeInv, InitNoticeInv, NextNoticeInv, PTL DEF Spec
<1>2. TypeInv /\ NoticeInv => NoticePerCredit
  <2> SUFFICES ASSUME TypeInv, NoticeInv, NEW t \in Tx PROVE sent[t] <= times[t]
    BY DEF NoticePerCredit
  <2>1. sent[t] + Cardinality({}) + Cardinality({}) <= times[t]
    BY FS_EmptySet DEF NoticeInv, AtMost
  <2> QED BY <2>1, FS_EmptySet DEF TypeInv, TypeOK
<1> QED BY <1>1, <1>2, PTL

-----------------------------------------------------------------------------
(* One batch at a time: the webhook implements PaymentIntake *)

\* One handler, no accountants, and references that only the text lookup finds.
Serial ==
    /\ \A g, h \in Handlers : g = h
    /\ Staff = {}
    /\ \A t \in Tx : Ref[t] = NoEntity
    /\ "queue" \notin Entities \cup {NoEntity}

\* No id is in two rows, or both in a row and in the queue.
OneRow ==
    /\ \A i, j \in Invoices : inv[i].ext = inv[j].ext /\ inv[i].ext \in Tx => i = j
    /\ \A r, s \in Schedules : sch[r].ext = sch[s].ext /\ sch[r].ext \in Tx => r = s
    /\ \A i \in Invoices, s \in Schedules : inv[i].ext \in Tx => inv[i].ext # sch[s].ext
    /\ \A t \in Tx : unm[t].status # "none" => ~Marked(t)

\* A row that holds an id is no longer collectable, and the row a lookup has
\* found still is, with the amount it has read.
SerialInv ==
    /\ raced = {} /\ overwritten = {}
    /\ OneRow
    /\ \A i \in Invoices : inv[i].status \in Collectable => inv[i].ext = NoTx
    /\ \A s \in Schedules : sch[s].status \in Collectable => sch[s].ext = NoTx
    /\ \A h \in Handlers : pc[h] = "write" =>
         /\ target[h] \in Invoices => inv[target[h]].status \in Collectable
         /\ target[h] \in Schedules =>
              sch[target[h]].status \in Collectable /\ seen[h] = sch[target[h]].received

LEMMA InitSerialInv == Init => SerialInv
<1> SUFFICES ASSUME Init PROVE SerialInv
  OBVIOUS
<1>1. OneRow
  BY DEF Init, OneRow, Marked, InvoiceMark, ScheduleMark
<1> QED
  BY <1>1 DEF Init, SerialInv

\* A step that writes no row and finds none.
Untouched ==
    /\ UNCHANGED <<inv, sch, unm, overwritten>> /\ raced' = {}
    /\ \A h \in Handlers : pc'[h] = "write" =>
         \/ pc[h] = "write" /\ target'[h] = target[h] /\ seen'[h] = seen[h]
         \/ target'[h] = NoEntity

LEMMA UntouchedSerialInv ==
  ASSUME SerialInv, Untouched
  PROVE  SerialInv'
<1>1. OneRow'
  BY DEF SerialInv, Untouched, OneRow, Marked, InvoiceMark, ScheduleMark
<1>2. \A h \in Handlers : pc'[h] = "write" =>
         /\ target'[h] \in Invoices => inv[target'[h]].status \in Collectable
         /\ target'[h] \in Schedules =>
              sch[target'[h]].status \in Collectable /\ seen'[h] = sch[target'[h]].received
  BY DEF SerialInv, Untouched, Entities
<1> QED
  BY <1>1, <1>2 DEF SerialInv, Untouched

\* A lookup by text finds a collectable row.
LEMMA FoundSerialInv ==
  ASSUME TypeInv, SerialInv, NEW h \in Handlers, NEW e \in Entities, Found(h, e), LookupFrame,
         e \in Invoices => inv[e].status \in Collectable,
         e \in Schedules => sch[e].status \in Collectable
  PROVE  SerialInv'
<1>1. /\ UNCHANGED <<inv, sch, unm, overwritten, raced>>
      /\ target'[h] = e /\ (e \in Schedules => seen'[h] = sch[e].received)
      /\ \A g \in Handlers : g # h => pc'[g] = pc[g] /\ target'[g] = target[g] /\ seen'[g] = seen[g]
  BY DEF Found, Goto, LookupFrame, dbVars, historyVars, TypeInv, TypeOK
<1>2. OneRow'
  BY <1>1 DEF SerialInv, OneRow, Marked, InvoiceMark, ScheduleMark
<1>3. \A g \in Handlers : pc'[g] = "write" =>
         /\ target'[g] \in Invoices => inv[target'[g]].status \in Collectable
         /\ target'[g] \in Schedules =>
              sch[target'[g]].status \in Collectable /\ seen'[g] = sch[target'[g]].received
  <2> SUFFICES ASSUME NEW g \in Handlers, pc'[g] = "write"
               PROVE  /\ target'[g] \in Invoices => inv[target'[g]].status \in Collectable
                      /\ target'[g] \in Schedules =>
                           sch[target'[g]].status \in Collectable /\ seen'[g] = sch[target'[g]].received
    OBVIOUS
  <2>1. CASE g = h
    BY <1>1, <2>1
  <2>2. CASE g # h
    BY <1>1, <2>2 DEF SerialInv
  <2> QED BY <2>1, <2>2
<1> QED
  BY <1>1, <1>2, <1>3 DEF SerialInv

\* A row that a lone handler is about to write holds no id, and its payment is
\* nowhere yet.
LEMMA AboutToWrite ==
  ASSUME TypeInv, OnceInv, SerialInv, NEW h \in Handlers, pc[h] = "write"
  PROVE  /\ cur[h] \in Tx /\ ~Marked(cur[h]) /\ unm[cur[h]].status = "none"
         /\ target[h] \in Invoices => inv[target[h]].ext = NoTx
         /\ target[h] \in Schedules =>
              sch[target[h]].ext = NoTx /\ seen[h] = sch[target[h]].received
<1>1. cur[h] \in Tx /\ Clean(cur[h])
  BY DEF TypeInv, HandlerOK, SerialInv, Clean
<1>2. unm[cur[h]].status = "none" /\ ~Marked(cur[h])
  BY <1>1 DEF OnceInv, ReadsHold, Lookups
<1> QED
  BY <1>1, <1>2 DEF SerialInv

LEMMA PayInvoiceSerialInv ==
  ASSUME Serial, TypeInv, OnceInv, SerialInv, NEW h \in Handlers, PayInvoice(h)
  PROVE  SerialInv'
<1>1. PICK t, i : t = cur[h] /\ i = target[h]
  OBVIOUS
<1>2. /\ t \in Tx /\ i \in Invoices /\ ~Marked(t) /\ unm[t].status = "none"
      /\ inv[i].ext = NoTx
  BY <1>1, AboutToWrite DEF PayInvoice
<1>3. /\ inv' = [inv EXCEPT ![i] = Settled(t)] /\ overwritten' = {}
      /\ UNCHANGED <<sch, unm, target, seen, raced>> /\ pc' = [pc EXCEPT ![h] = "post"]
  BY <1>1, <1>2 DEF PayInvoice, Overwrite, Goto, SerialInv
<1>4. /\ inv'[i].status = "paid" /\ inv'[i].ext = t
      /\ \A j \in Invoices : j # i => inv'[j] = inv[j]
  BY <1>2, <1>3 DEF Settled, TypeInv, TypeOK
<1>5. OneRow'
  <2>1. \A j \in Invoices : inv[j].ext # t
    BY <1>2 DEF Marked, InvoiceMark
  <2>2. \A s \in Schedules : sch[s].ext # t
    BY <1>2 DEF Marked, ScheduleMark
  <2>3. \A u \in Tx : unm[u].status # "none" => ~Marked(u)'
    BY <1>2, <1>3, <1>4, <2>1, <2>2 DEF SerialInv, OneRow, Marked, InvoiceMark, ScheduleMark
  <2>4. \A j, k \in Invoices : inv'[j].ext = inv'[k].ext /\ inv'[j].ext \in Tx => j = k
    BY <1>4, <2>1 DEF SerialInv, OneRow
  <2>5. \A j \in Invoices, s \in Schedules : inv'[j].ext \in Tx => inv'[j].ext # sch[s].ext
    BY <1>4, <2>2 DEF SerialInv, OneRow
  <2> QED BY <1>3, <2>3, <2>4, <2>5 DEF SerialInv, OneRow
<1>6. \A j \in Invoices : inv'[j].status \in Collectable => inv'[j].ext = NoTx
  BY <1>4 DEF SerialInv, Collectable
<1>7. \A g \in Handlers : pc'[g] # "write"
  BY <1>3 DEF Serial, TypeInv, TypeOK
<1> QED
  BY <1>3, <1>5, <1>6, <1>7 DEF SerialInv

LEMMA CreditScheduleSerialInv ==
  ASSUME Serial, TypeInv, OnceInv, SerialInv, NEW h \in Handlers, CreditSchedule(h)
  PROVE  SerialInv'
<1>1. PICK t, s : t = cur[h] /\ s = target[h]
  OBVIOUS
<1>2. /\ t \in Tx /\ s \in Schedules /\ ~Marked(t) /\ unm[t].status = "none"
      /\ sch[s].ext = NoTx
  BY <1>1, AboutToWrite DEF CreditSchedule
<1>3. /\ sch' = [sch EXCEPT ![s] = Credited(h)] /\ overwritten' = {}
      /\ UNCHANGED <<inv, unm, target, seen, raced>> /\ pc' = [pc EXCEPT ![h] = "post"]
  BY <1>1, <1>2 DEF CreditSchedule, Overwrite, Goto, SerialInv
<1>8. Credited(h).ext = t /\ Credited(h).status \in {"paid", "partial"}
  BY <1>1 DEF Credited
<1>4. /\ sch'[s].status \notin Collectable /\ sch'[s].ext = t
      /\ \A r \in Schedules : r # s => sch'[r] = sch[r]
  BY <1>2, <1>3, <1>8 DEF TypeInv, TypeOK, Collectable
<1>5. OneRow'
  <2>1. \A j \in Invoices : inv[j].ext # t
    BY <1>2 DEF Marked, InvoiceMark
  <2>2. \A r \in Schedules : sch[r].ext # t
    BY <1>2 DEF Marked, ScheduleMark
  <2>3. \A u \in Tx : unm[u].status # "none" => ~Marked(u)'
    BY <1>2, <1>3, <1>4, <2>1, <2>2 DEF SerialInv, OneRow, Marked, InvoiceMark, ScheduleMark
  <2>4. \A q, r \in Schedules : sch'[q].ext = sch'[r].ext /\ sch'[q].ext \in Tx => q = r
    BY <1>4, <2>2 DEF SerialInv, OneRow
  <2>5. \A j \in Invoices, r \in Schedules : inv[j].ext \in Tx => inv[j].ext # sch'[r].ext
    BY <1>4, <2>1 DEF SerialInv, OneRow
  <2> QED BY <1>3, <2>3, <2>4, <2>5 DEF SerialInv, OneRow
<1>6. \A r \in Schedules : sch'[r].status \in Collectable => sch'[r].ext = NoTx
  BY <1>4 DEF SerialInv
<1>7. \A g \in Handlers : pc'[g] # "write"
  BY <1>3 DEF Serial, TypeInv, TypeOK
<1> QED
  BY <1>3, <1>5, <1>6, <1>7 DEF SerialInv

LEMMA StoreUnmatchedSerialInv ==
  ASSUME Serial, TypeInv, OnceInv, SerialInv, NEW h \in Handlers, StoreUnmatched(h)
  PROVE  SerialInv'
<1>1. PICK t : t = cur[h]
  OBVIOUS
<1>2. t \in Tx /\ ~Marked(t) /\ unm[t].status = "none" /\ pc[h] = "write"
  BY <1>1, AboutToWrite DEF StoreUnmatched
<1>3. /\ unm' = [unm EXCEPT ![t] = [status |-> "pending", invoice |-> NoEntity]]
      /\ UNCHANGED <<inv, sch, target, seen, raced, overwritten>> /\ pc' = [pc EXCEPT ![h] = "post"]
  BY <1>1, <1>2 DEF StoreUnmatched, Goto
<1>4. \A u \in Tx : unm'[u].status # "none" => unm[u].status # "none" \/ u = t
  BY <1>2, <1>3 DEF TypeInv, TypeOK
<1>5. OneRow'
  BY <1>2, <1>3, <1>4 DEF SerialInv, OneRow, Marked, InvoiceMark, ScheduleMark
<1>7. \A g \in Handlers : pc'[g] # "write"
  BY <1>3 DEF Serial, TypeInv, TypeOK
<1> QED
  BY <1>3, <1>5, <1>7 DEF SerialInv

LEMMA NextSerialInv ==
  ASSUME Serial, TypeInv, OnceInv, SerialInv, [Next]_vars
  PROVE  SerialInv'
<1> USE DEF TypeInv, TypeOK, dbVars, historyVars, handlerVars
<1>0. raced = {}
  BY DEF SerialInv
<1>1. ASSUME NEW t \in Tx, Pay(t)
      PROVE  Untouched
  BY <1>0, <1>1 DEF Pay, Untouched
<1>2. ASSUME NEW h \in Handlers,
             \/ \E B \in SUBSET owed : Webhook(h, B)
             \/ ScheduledReconciliation(h) \/ Reconcile(h)
      PROVE  Untouched
  BY <1>0, <1>2 DEF Webhook, ScheduledReconciliation, Reconcile, BeginBatch, Untouched
<1>3. ASSUME NEW h \in Handlers, HandlerStep(h)
      PROVE  SerialInv'
  <2>1. CASE StartPayment(h)
    <3>1. raced' = {}
      BY <1>0, <2>1 DEF StartPayment, Serial
    <3>2. Untouched
      BY <2>1, <3>1 DEF StartPayment, Goto, Untouched
    <3> QED BY <3>2, UntouchedSerialInv
  <2>2. CASE CheckIdempotency(h) \/ HandlePostProcessing(h) \/ Answer(h)
    <3>1. Untouched
      BY <1>0, <2>2 DEF CheckIdempotency, FollowingRead, HandlePostProcessing, Answer, Forget, Goto,
                  Untouched
    <3> QED BY <3>1, UntouchedSerialInv
  <2>3. CASE FindByReference(h)
    <3>1. Untouched
      <4>1. cur[h] \in Tx
        BY <2>3 DEF FindByReference, HandlerOK
      <4> QED BY <1>0, <2>3, <4>1 DEF FindByReference, Serial, NotFound, LookupFrame, Goto, Untouched
    <3> QED BY <3>1, UntouchedSerialInv
  <2>4. CASE FindInvoiceByText(h)
    <3>1. CASE NotFound(h, "textSch")
      <4>1. Untouched
        BY <1>0, <2>4, <3>1 DEF FindInvoiceByText, NotFound, LookupFrame, Goto, Untouched
      <4> QED BY <4>1, UntouchedSerialInv
    <3>2. ASSUME NEW i \in InvoiceCandidates(cur[h]), Found(h, i)
          PROVE  SerialInv'
      BY <2>4, <3>2, FoundSerialInv DEF FindInvoiceByText, InvoiceCandidates, Entities
    <3> QED BY <2>4, <3>1, <3>2 DEF FindInvoiceByText
  <2>5. CASE FindScheduleByText(h)
    <3>1. CASE NotFound(h, "write")
      <4>1. target[h] = NoEntity
        BY <2>5 DEF FindScheduleByText, HandlerOK
      <4>2. Untouched
        BY <1>0, <2>5, <3>1, <4>1 DEF FindScheduleByText, NotFound, LookupFrame, Goto, Untouched
      <4> QED BY <4>2, UntouchedSerialInv
    <3>2. ASSUME NEW s \in ScheduleCandidates(cur[h]), Found(h, s)
          PROVE  SerialInv'
      BY <2>5, <3>2, FoundSerialInv DEF FindScheduleByText, ScheduleCandidates, Entities
    <3> QED BY <2>5, <3>1, <3>2 DEF FindScheduleByText
  <2> QED BY <1>3, <2>1, <2>2, <2>3, <2>4, <2>5, PayInvoiceSerialInv, CreditScheduleSerialInv,
             StoreUnmatchedSerialInv DEF HandlerStep
<1>5. CASE FaultStep
  <2>1. Untouched
    BY <1>0, <1>5 DEF FaultStep, Fault, FailPayment, LoseAnswer, LoseWebhook, Crash, FailFetch, Forget,
                Goto, Untouched
  <2> QED BY <2>1, UntouchedSerialInv
<1>6. CASE UNCHANGED vars
  BY <1>0, <1>6, UntouchedSerialInv DEF vars, Untouched
<1> QED BY <1>1, <1>2, <1>3, <1>5, <1>6, UntouchedSerialInv DEF Next, Serial

\* Where the rows say, once, that the payment went.
At(t, x) ==
    \/ x = "queue" /\ unm[t].status # "none"
    \/ unm[t].status = "none" /\ x \in Invoices /\ inv[x].ext = t
    \/ unm[t].status = "none" /\ x \in Schedules /\ sch[x].ext = t
    \/ unm[t].status = "none" /\ x = NoEntity /\ ~Marked(t)

LEMMA PlaceAt == \A t \in Tx : \A x : OneRow /\ At(t, x) => Place(t) = x
<1> SUFFICES ASSUME NEW t \in Tx, NEW x, OneRow, At(t, x)
             PROVE  Place(t) = x
  OBVIOUS
<1>1. CASE unm[t].status # "none"
  BY <1>1 DEF At, Place
<1>2. CASE unm[t].status = "none" /\ InvoiceMark(t)
  <2>1. x \in Invoices /\ inv[x].ext = t
    BY <1>2 DEF At, InvoiceMark, Marked, OneRow
  <2>2. \A i \in Invoices : inv[i].ext = t => i = x
    BY <2>1 DEF OneRow
  <2>3. (CHOOSE i \in Invoices : inv[i].ext = t) = x
    BY <2>1, <2>2
  <2> QED BY <1>2, <2>3 DEF Place, InvoiceMark
<1>3. CASE unm[t].status = "none" /\ ~InvoiceMark(t) /\ ScheduleMark(t)
  <2>1. x \in Schedules /\ sch[x].ext = t
    BY <1>3 DEF At, InvoiceMark, ScheduleMark, Marked
  <2>2. \A s \in Schedules : sch[s].ext = t => s = x
    BY <2>1 DEF OneRow
  <2>3. (CHOOSE s \in Schedules : sch[s].ext = t) = x
    BY <2>1, <2>2
  <2> QED BY <1>3, <2>3 DEF Place, InvoiceMark, ScheduleMark
<1>4. CASE unm[t].status = "none" /\ ~Marked(t)
  <2>1. x = NoEntity
    BY <1>4 DEF At, Marked, InvoiceMark, ScheduleMark
  <2> QED BY <1>4, <2>1 DEF Place, Marked, InvoiceMark, ScheduleMark
<1> QED
  BY <1>1, <1>2, <1>3, <1>4 DEF Marked

\* The same of the next state.
LEMMA PlaceNext == \A t \in Tx : \A x : OneRow' /\ At(t, x)' => Place(t)' = x
<1>1. (\A t \in Tx : \A x : OneRow /\ At(t, x) => Place(t) = x)'
  BY PlaceAt, PTL
<1> QED
  BY <1>1

LEMMA Somewhere == ASSUME NEW t \in Tx PROVE \E x : At(t, x)
BY DEF At, Marked, InvoiceMark, ScheduleMark

LEMMA SerialInit == Init => Intake!Init
<1> SUFFICES ASSUME Init PROVE Intake!Init
  OBVIOUS
<1>1. \A t \in Tx : At(t, NoEntity)
  BY DEF Init, At, Marked, InvoiceMark, ScheduleMark
<1>2. \A t \in Tx : Place(t) = NoEntity
  BY <1>1, PlaceAt, InitSerialInv DEF SerialInv
<1>3. \A s \in Schedules : sch[s].received = 0
  BY DEF Init
<1> QED
  BY <1>2, <1>3 DEF Intake!Init

\* A step that writes no row is a stutter.
LEMMA UnwrittenStutters ==
  ASSUME OneRow, OneRow', UNCHANGED <<inv, sch, unm>>
  PROVE  UNCHANGED Intake!vars
<1>1. ASSUME NEW t \in Tx PROVE Place(t)' = Place(t)
  <2>1. PICK x : At(t, x)
    BY Somewhere
  <2>2. At(t, x)'
    BY <2>1 DEF At, Marked, InvoiceMark, ScheduleMark
  <2> QED BY <2>1, <2>2, PlaceAt, PlaceNext
<1>2. [t \in Tx |-> Place(t)]' = [t \in Tx |-> Place(t)]
  BY <1>1
<1> QED
  BY <1>2 DEF Intake!vars

\* A payment that was nowhere is put somewhere; the others stay.
LEMMA Moves ==
  ASSUME OneRow, OneRow', NEW t \in Tx, NEW x, At(t, NoEntity), At(t, x)',
         \A u \in Tx : u # t => \A y : At(u, y) => At(u, y)'
  PROVE  /\ [u \in Tx |-> Place(u)][t] = NoEntity
         /\ [u \in Tx |-> Place(u)]' = [[u \in Tx |-> Place(u)] EXCEPT ![t] = x]
<1>1. Place(t) = NoEntity /\ Place(t)' = x
  BY PlaceAt, PlaceNext
<1>2. ASSUME NEW u \in Tx, u # t PROVE Place(u)' = Place(u)
  <2>1. PICK y : At(u, y)
    BY Somewhere
  <2>2. At(u, y)'
    BY <1>2, <2>1
  <2> QED BY <2>1, <2>2, PlaceAt, PlaceNext
<1> QED
  BY <1>1, <1>2

LEMMA PayInvoiceImplements ==
  ASSUME Serial, TypeInv, OnceInv, SerialInv, SerialInv', NEW h \in Handlers, PayInvoice(h)
  PROVE  Intake!Next
<1>1. PICK t, i : t = cur[h] /\ i = target[h]
  OBVIOUS
<1>2. /\ t \in Tx /\ i \in Invoices /\ ~Marked(t) /\ unm[t].status = "none"
      /\ inv[i].ext = NoTx
  BY <1>1, AboutToWrite DEF PayInvoice
<1>3. /\ UNCHANGED <<sch, unm>> /\ inv'[i].ext = t
      /\ \A j \in Invoices : j # i => inv'[j] = inv[j]
  BY <1>1, <1>2 DEF PayInvoice, Settled, TypeInv, TypeOK
<1>4. At(t, NoEntity) /\ At(t, i)'
  BY <1>2, <1>3 DEF At
<1>5. ASSUME NEW u \in Tx, u # t, NEW y, At(u, y) PROVE At(u, y)'
  BY <1>2, <1>3, <1>5 DEF At, Marked, InvoiceMark, ScheduleMark
<1>6. OneRow /\ OneRow'
  BY DEF SerialInv
<1>7. /\ [u \in Tx |-> Place(u)][t] = NoEntity
      /\ [u \in Tx |-> Place(u)]' = [[u \in Tx |-> Place(u)] EXCEPT ![t] = i]
  BY <1>2, <1>4, <1>5, <1>6, Moves
<1>8. ASSUME NEW u \in Tx PROVE Place(u) # i
  <2>1. PICK y : At(u, y)
    BY Somewhere
  <2>2. y # i
    BY <1>2, <2>1 DEF At, Serial, Entities
  <2> QED BY <1>6, <2>1, <2>2, PlaceAt
<1>9. Intake!SettleInvoice(t, i)
  BY <1>3, <1>7, <1>8 DEF Intake!SettleInvoice, Intake!Assign
<1> QED
  BY <1>2, <1>9 DEF Intake!Next

LEMMA CreditScheduleImplements ==
  ASSUME Serial, TypeInv, OnceInv, SerialInv, SerialInv', NEW h \in Handlers, CreditSchedule(h)
  PROVE  Intake!Next
<1>1. PICK t, s : t = cur[h] /\ s = target[h]
  OBVIOUS
<1>2. /\ t \in Tx /\ s \in Schedules /\ ~Marked(t) /\ unm[t].status = "none"
      /\ sch[s].ext = NoTx /\ seen[h] = sch[s].received
  BY <1>1, AboutToWrite DEF CreditSchedule
<1>3. /\ UNCHANGED <<inv, unm>> /\ sch'[s] = Credited(h)
      /\ \A r \in Schedules : r # s => sch'[r] = sch[r]
  BY <1>1, <1>2 DEF CreditSchedule, TypeInv, TypeOK
<1>4. sch'[s].ext = t /\ sch'[s].received = sch[s].received + Amount[t]
  BY <1>1, <1>2, <1>3 DEF Credited
<1>5. At(t, NoEntity) /\ At(t, s)'
  BY <1>2, <1>3, <1>4 DEF At
<1>6. ASSUME NEW u \in Tx, u # t, NEW y, At(u, y) PROVE At(u, y)'
  BY <1>2, <1>3, <1>4, <1>6 DEF At, Marked, InvoiceMark, ScheduleMark
<1>7. OneRow /\ OneRow'
  BY DEF SerialInv
<1>8. /\ [u \in Tx |-> Place(u)][t] = NoEntity
      /\ [u \in Tx |-> Place(u)]' = [[u \in Tx |-> Place(u)] EXCEPT ![t] = s]
  BY <1>2, <1>5, <1>6, <1>7, Moves
<1>9. [r \in Schedules |-> sch[r].received]' =
         [[r \in Schedules |-> sch[r].received] EXCEPT ![s] = @ + Amount[t]]
  BY <1>2, <1>3, <1>4
<1>10. Intake!CreditSchedule(t, s)
  BY <1>8, <1>9 DEF Intake!CreditSchedule, Intake!Assign
<1> QED
  BY <1>2, <1>10 DEF Intake!Next

LEMMA StoreUnmatchedImplements ==
  ASSUME Serial, TypeInv, OnceInv, SerialInv, SerialInv', NEW h \in Handlers, StoreUnmatched(h)
  PROVE  Intake!Next
<1>1. PICK t : t = cur[h]
  OBVIOUS
<1>2. t \in Tx /\ ~Marked(t) /\ unm[t].status = "none"
  BY <1>1, AboutToWrite DEF StoreUnmatched
<1>3. /\ UNCHANGED <<inv, sch>> /\ unm'[t].status = "pending"
      /\ \A u \in Tx : u # t => unm'[u] = unm[u]
  BY <1>1, <1>2 DEF StoreUnmatched, TypeInv, TypeOK
<1>4. At(t, NoEntity) /\ At(t, "queue")'
  BY <1>2, <1>3 DEF At
<1>5. ASSUME NEW u \in Tx, u # t, NEW y, At(u, y) PROVE At(u, y)'
  BY <1>2, <1>3, <1>5 DEF At, Marked, InvoiceMark, ScheduleMark
<1>6. OneRow /\ OneRow'
  BY DEF SerialInv
<1>7. /\ [u \in Tx |-> Place(u)][t] = NoEntity
      /\ [u \in Tx |-> Place(u)]' = [[u \in Tx |-> Place(u)] EXCEPT ![t] = "queue"]
  BY <1>2, <1>4, <1>5, <1>6, Moves
<1>8. Intake!KeepUnmatched(t)
  BY <1>3, <1>7 DEF Intake!KeepUnmatched, Intake!Assign
<1> QED
  BY <1>2, <1>8 DEF Intake!Next

\* Every step puts one payment in one place, or writes no row.
LEMMA SerialStep ==
  ASSUME Serial, TypeInv, OnceInv, SerialInv, SerialInv', [Next]_vars
  PROVE  [Intake!Next]_(Intake!vars)
<1> USE DEF dbVars, historyVars, handlerVars
<1>0. OneRow /\ OneRow'
  BY DEF SerialInv
<1>1. ASSUME NEW t \in Tx, Pay(t)
      PROVE  UNCHANGED <<inv, sch, unm>>
  BY <1>1 DEF Pay
<1>2. ASSUME NEW h \in Handlers,
             \/ \E B \in SUBSET owed : Webhook(h, B)
             \/ ScheduledReconciliation(h) \/ Reconcile(h)
      PROVE  UNCHANGED <<inv, sch, unm>>
  BY <1>2 DEF Webhook, ScheduledReconciliation, Reconcile, BeginBatch
<1>3. ASSUME NEW h \in Handlers, HandlerStep(h)
      PROVE  Intake!Next \/ UNCHANGED <<inv, sch, unm>>
  <2>1. CASE StartPayment(h) \/ CheckIdempotency(h) \/ HandlePostProcessing(h) \/ Answer(h)
    BY <2>1 DEF StartPayment, CheckIdempotency, HandlePostProcessing, Answer
  <2>2. CASE FindByReference(h) \/ FindInvoiceByText(h) \/ FindScheduleByText(h)
    BY <2>2 DEF FindByReference, FindInvoiceByText, FindScheduleByText, LookupFrame
  <2> QED BY <1>3, <2>1, <2>2, PayInvoiceImplements, CreditScheduleImplements,
             StoreUnmatchedImplements DEF HandlerStep
<1>4. ASSUME FaultStep PROVE UNCHANGED <<inv, sch, unm>>
  BY <1>4 DEF FaultStep, Fault, FailPayment, LoseAnswer, LoseWebhook, Crash, FailFetch
<1>5. ASSUME UNCHANGED vars PROVE UNCHANGED <<inv, sch, unm>>
  BY <1>5 DEF vars
<1> QED
  BY <1>0, <1>1, <1>2, <1>3, <1>4, <1>5, UnwrittenStutters DEF Next, Serial

\* Handled one batch at a time, payments are taken in as PaymentIntake says: each
\* goes to one place once, whatever is repeated, reconciled again, lost or crashes.
THEOREM SerialIntake == ASSUME Serial PROVE Spec => ExactlyOnce
<1>1. Init => TypeInv /\ OnceInv /\ SerialInv
  BY InitTypeInv, InitOnceInv, InitSerialInv
<1>2. TypeInv /\ OnceInv /\ SerialInv /\ [Next]_vars => (TypeInv /\ OnceInv /\ SerialInv)'
  BY NextTypeInv, NextOnceInv, NextSerialInv
<1>3. TypeInv /\ OnceInv /\ SerialInv /\ SerialInv' /\ [Next]_vars => [Intake!Next]_(Intake!vars)
  BY SerialStep
<1> QED
  BY <1>1, <1>2, <1>3, SerialInit, PTL DEF Spec, ExactlyOnce, Intake!Spec
=============================================================================
