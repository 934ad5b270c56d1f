--------------------------- MODULE PaymentWebhook ---------------------------
(***************************************************************************)
(* Bank payments entering the system: the gateway's webhooks, the daily    *)
(* and the manual reconciliation, and the accountants who work the queue   *)
(* of unmatched payments.                                                  *)
(*                                                                         *)
(* The database runs transactions at READ COMMITTED: every read of         *)
(* processPayment sees what is committed at that moment, so each read is   *)
(* a step of its own and only the final write is atomic.                   *)
(***************************************************************************)
EXTENDS Integers, FiniteSets

CONSTANTS Tx,            \* bank transactions, by gateway transaction id
          Invoices,      \* rows of invoices
          Schedules,     \* rows of contract_payment_schedules
          Handlers,      \* requests and cron runs executing processPayments
          Staff,         \* accountants working on unmatched payments
          NoTx, NoEntity \* null values

CONSTANTS Amount,        \* amount of each transaction
          Expected,      \* expected_amount of each schedule
          Ref,           \* row a VULLY-INV/CTR reference in the text denotes
          Mentions,      \* rows whose normalised reference the text contains
          Tenanted,      \* rows whose contract names a tenant
          InitialStatus  \* invoice statuses other components may have left

CONSTANTS MaxFaults,     \* bound: faults of any kind
          MaxManual      \* bound: manual reconciliations

Entities == Invoices \cup Schedules

InvoiceStatus == {"draft", "pending", "overdue", "paid", "cancelled"}
ScheduleStatus == {"pending", "overdue", "partial", "paid"}
UnmatchedStatus == {"none", "pending", "matched", "rejected"}

\* A mutant: the text lookup also considers paid rows.
CollectableOrPaid == {"pending", "overdue", "paid"}

\* The statuses the text lookup considers.
Collectable == {"pending", "overdue"}

ASSUME DisjointAssumption ==
    /\ Invoices \cap Schedules = {}
    /\ NoEntity \notin Entities
    /\ NoTx \notin Tx

ASSUME DataAssumption ==
    /\ Amount \in [Tx -> Nat \ {0}]
    /\ Expected \in [Schedules -> Nat]
    /\ Ref \in [Tx -> Entities \cup {NoEntity}]
    /\ Mentions \in [Tx -> SUBSET Entities]
    /\ Tenanted \subseteq Entities
    /\ InitialStatus \subseteq InvoiceStatus

ASSUME BoundAssumption == MaxFaults \in Nat /\ MaxManual \in Nat

VARIABLES made,      \* transactions the bank has executed
          owed,      \* of these, webhooks the gateway has yet to see answered
          recent,    \* of these, what the next daily 24 h fetch returns
          inv,       \* invoices: status, external_transaction_id
          sch,       \* schedules: status, received_amount, external_transaction_id
          unm,       \* unmatched_payments by transaction_id
          pc,        \* handler: its next statement
          todo,      \* handler: payments of the batch not yet started
          batch,     \* handler: payments whose webhook its answer settles
          cur,       \* handler: the payment being processed
          target,    \* handler: the row the lookup found
          seen,      \* handler: received_amount read with the schedule
          act,       \* staff: the request being executed
          faults, manual

\* History, which no guard reads: how often a transaction was credited, what
\* was credited to a schedule in all, payments whose processing met no fault,
\* confirmations queued, payments two requests had in hand at once, and
\* payments whose id was overwritten in the row that held it.
VARIABLES times, applied, done, sent, raced, overwritten

gatewayVars == <<made, owed, recent>>
dbVars == <<inv, sch, unm>>
handlerVars == <<pc, todo, batch, cur, target, seen>>
historyVars == <<times, applied, done, sent, raced, overwritten>>
boundVars == <<faults, manual>>
vars == <<gatewayVars, dbVars, handlerVars, act, historyVars, boundVars>>

InvoiceRow == [status : InvoiceStatus, ext : Tx \cup {NoTx}]
ScheduleRow == [status : ScheduleStatus, received : Nat, ext : Tx \cup {NoTx}]
UnmatchedRow == [status : UnmatchedStatus, invoice : Invoices \cup {NoEntity}]

\* The statements of processPayment, in order; "next" is the loop head of
\* processPayments.
InTransaction == {"inv", "sch", "unm", "ref", "textInv", "textSch", "write"}
PcValues == InTransaction \cup {"idle", "next", "post"}

IdleRequest == [pc |-> "idle", tx |-> NoTx, invoice |-> NoEntity]
Request == [pc : {"idle", "match", "notify", "reject"},
            tx : Tx \cup {NoTx}, invoice : Invoices \cup {NoEntity}]

TypeOK ==
    /\ made \subseteq Tx /\ owed \subseteq made /\ recent \subseteq made
    /\ inv \in [Invoices -> InvoiceRow]
    /\ sch \in [Schedules -> ScheduleRow]
    /\ unm \in [Tx -> UnmatchedRow]
    /\ pc \in [Handlers -> PcValues]
    /\ todo \in [Handlers -> SUBSET Tx]
    /\ batch \in [Handlers -> SUBSET Tx]
    /\ cur \in [Handlers -> Tx \cup {NoTx}]
    /\ target \in [Handlers -> Entities \cup {NoEntity}]
    /\ seen \in [Handlers -> Nat]
    /\ act \in [Staff -> Request]
    /\ times \in [Tx -> Nat] /\ sent \in [Tx -> Nat]
    /\ applied \in [Schedules -> Nat]
    /\ done \subseteq Tx /\ raced \subseteq Tx /\ overwritten \subseteq Tx
    /\ faults \in 0..MaxFaults /\ manual \in 0..MaxManual

Init ==
    /\ made = {} /\ owed = {} /\ recent = {}
    /\ inv \in [Invoices -> [status : InitialStatus, ext : {NoTx}]]
    /\ sch \in [Schedules -> [status : Collectable, received : {0}, ext : {NoTx}]]
    /\ unm = [t \in Tx |-> [status |-> "none", invoice |-> NoEntity]]
    /\ pc = [h \in Handlers |-> "idle"]
    /\ todo = [h \in Handlers |-> {}]
    /\ batch = [h \in Handlers |-> {}]
    /\ cur = [h \in Handlers |-> NoTx]
    /\ target = [h \in Handlers |-> NoEntity]
    /\ seen = [h \in Handlers |-> 0]
    /\ act = [p \in Staff |-> IdleRequest]
    /\ times = [t \in Tx |-> 0] /\ sent = [t \in Tx |-> 0]
    /\ applied = [s \in Schedules |-> 0]
    /\ done = {} /\ raced = {} /\ overwritten = {}
    /\ faults = 0 /\ manual = 0

-----------------------------------------------------------------------------
(* The bank and its gateway *)

\* A tenant transfers money.
Pay(t) ==
    /\ t \notin made
    /\ made' = made \cup {t}
    /\ owed' = owed \cup {t}
    /\ recent' = recent \cup {t}
    /\ UNCHANGED <<dbVars, handlerVars, act, historyVars, boundVars>>

\* A request or a cron run enters processPayments with the payments B;
\* acks are those whose webhook its answer settles.
BeginBatch(h, B, acks) ==
    /\ pc[h] = "idle"
    /\ pc' = [pc EXCEPT ![h] = "next"]
    /\ todo' = [todo EXCEPT ![h] = B]
    /\ batch' = [batch EXCEPT ![h] = acks]
    /\ UNCHANGED <<made, owed, dbVars, cur, target, seen, act, historyVars, faults>>

\* The gateway posts webhooks it has no answer for yet, again when the
\* answer is slow. Casso puts several transactions into one webhook.
Webhook(h, B) ==
    /\ B # {} /\ B \subseteq owed
    /\ BeginBatch(h, B, B)
    /\ UNCHANGED <<recent, manual>>

\* The cron run of 6 AM fetches the last 24 hours; what it returns has left
\* the window when the next run comes.
ScheduledReconciliation(h) ==
    /\ recent # {}
    /\ BeginBatch(h, recent, {})
    /\ recent' = {}
    /\ UNCHANGED manual

\* An accountant reconciles by hand, over as many hours as wanted.
Reconcile(h) ==
    /\ manual < MaxManual /\ made # {}
    /\ BeginBatch(h, made, {})
    /\ manual' = manual + 1
    /\ UNCHANGED recent

-----------------------------------------------------------------------------
(* processPayments and processPayment *)

Goto(h, l) == pc' = [pc EXCEPT ![h] = l]

\* The handler forgets its payment and returns to the loop of processPayments.
Forget(h) ==
    /\ Goto(h, "next")
    /\ cur' = [cur EXCEPT ![h] = NoTx]
    /\ target' = [target EXCEPT ![h] = NoEntity]
    /\ seen' = [seen EXCEPT ![h] = 0]
    /\ UNCHANGED <<todo, batch>>

StartPayment(h) ==
    /\ pc[h] = "next"
    /\ \E t \in todo[h] :
        /\ todo' = [todo EXCEPT ![h] = @ \ {t}]
        /\ cur' = [cur EXCEPT ![h] = t]
        /\ raced' = raced \cup {u \in {t} : \E g \in Handlers \ {h} : cur[g] = u}
    /\ Goto(h, "inv")
    /\ UNCHANGED <<gatewayVars, dbVars, batch, target, seen, act,
                   times, applied, done, sent, overwritten, boundVars>>

\* A mutant: a payment that settled an invoice is not recognised.
StoredElsewhere(t, table) ==
    \/ table = "sch" /\ \E s \in Schedules : sch[s].ext = t
    \/ table = "unm" /\ unm[t].status # "none"

\* The three idempotency reads: what each looks for and what follows it.
Stored(t, table) ==
    CASE table = "inv" -> \E i \in Invoices : inv[i].ext = t
      [] table = "sch" -> \E s \in Schedules : sch[s].ext = t
      [] table = "unm" -> unm[t].status # "none"

\* A mutant: the read of the schedules is missing.
SkipScheduleRead == [inv |-> "unm", unm |-> "ref", sch |-> "ref"]

FollowingRead == [inv |-> "sch", sch |-> "unm", unm |-> "ref"]

CheckIdempotency(h) ==
    /\ pc[h] \in {"inv", "sch", "unm"}
    /\ \/ /\ Stored(cur[h], pc[h])
          /\ Forget(h)
          /\ done' = done \cup {cur[h]}
       \/ /\ ~Stored(cur[h], pc[h])
          /\ Goto(h, FollowingRead[pc[h]])
          /\ UNCHANGED <<todo, batch, cur, target, seen, done>>
    /\ UNCHANGED <<gatewayVars, dbVars, act, times, applied, sent, raced,
                   overwritten, boundVars>>

\* The row found goes to the write; a schedule's amount is read with it.
Found(h, e) ==
    /\ target' = [target EXCEPT ![h] = e]
    /\ seen' = [seen EXCEPT ![h] = IF e \in Schedules THEN sch[e].received ELSE 0]
    /\ Goto(h, "write")

NotFound(h, l) == Goto(h, l) /\ UNCHANGED <<target, seen>>

LookupFrame == UNCHANGED <<gatewayVars, dbVars, todo, batch, cur, act,
                           historyVars, boundVars>>

\* A VULLY reference finds its row whatever the row's status.
FindByReference(h) ==
    /\ pc[h] = "ref"
    /\ IF Ref[cur[h]] # NoEntity
       THEN Found(h, Ref[cur[h]])
       ELSE NotFound(h, "textInv")
    /\ LookupFrame

\* The text lookups take the first of unordered rows, invoices first.
InvoiceCandidates(t) ==
    {i \in Invoices \cap Mentions[t] : inv[i].status \in Collectable}

ScheduleCandidates(t) ==
    {s \in Schedules \cap Mentions[t] : sch[s].status \in Collectable}

FindInvoiceByText(h) ==
    /\ pc[h] = "textInv"
    /\ \/ \E i \in InvoiceCandidates(cur[h]) : Found(h, i)
       \/ InvoiceCandidates(cur[h]) = {} /\ NotFound(h, "textSch")
    /\ LookupFrame

FindScheduleByText(h) ==
    /\ pc[h] = "textSch"
    /\ \/ \E s \in ScheduleCandidates(cur[h]) : Found(h, s)
       \/ ScheduleCandidates(cur[h]) = {} /\ NotFound(h, "write")
    /\ LookupFrame

\* Writing t into a row that holds another transaction's id.
Overwrite(row, t) == overwritten' = overwritten \cup ({row.ext} \ {t, NoTx})

\* A mutant: the invoice gets a status of another table.
SettledAsMatched(t) == [status |-> "matched", ext |-> t]

Settled(t) == [status |-> "paid", ext |-> t]

\* paid_amount is the amount of the transaction in ext: both are written together.
PayInvoice(h) ==
    /\ pc[h] = "write" /\ target[h] \in Invoices
    /\ inv' = [inv EXCEPT ![target[h]] = Settled(cur[h])]
    /\ Overwrite(inv[target[h]], cur[h])
    /\ times' = [times EXCEPT ![cur[h]] = @ + 1]
    /\ Goto(h, "post")
    /\ UNCHANGED <<gatewayVars, sch, unm, todo, batch, cur, target, seen, act,
                   applied, done, sent, raced, boundVars>>

\* A mutant: whatever was transferred, the schedule shows it all received.
CreditedInFull(h) ==
    [status |-> "paid", received |-> Expected[target[h]], ext |-> cur[h]]

\* The new amount is computed from the amount read by the lookup.
Credited(h) ==
    LET received == seen[h] + Amount[cur[h]]
    IN  [status |-> IF received >= Expected[target[h]] THEN "paid" ELSE "partial",
         received |-> received,
         ext |-> cur[h]]

CreditSchedule(h) ==
    /\ pc[h] = "write" /\ target[h] \in Schedules
    /\ sch' = [sch EXCEPT ![target[h]] = Credited(h)]
    /\ Overwrite(sch[target[h]], cur[h])
    /\ times' = [times EXCEPT ![cur[h]] = @ + 1]
    /\ applied' = [applied EXCEPT ![target[h]] = @ + Amount[cur[h]]]
    /\ Goto(h, "post")
    /\ UNCHANGED <<gatewayVars, inv, unm, todo, batch, cur, target, seen, act,
                   done, sent, raced, boundVars>>

\* A mutant: a payment that matches nothing is only announced.
AnnounceUnmatched(h) ==
    /\ pc[h] = "write" /\ target[h] = NoEntity
    /\ Goto(h, "post")
    /\ UNCHANGED <<gatewayVars, dbVars, todo, batch, cur, target, seen, act,
                   historyVars, boundVars>>

\* transaction_id is unique: a second row is refused and the payment skipped.
StoreUnmatched(h) ==
    /\ pc[h] = "write" /\ target[h] = NoEntity
    /\ \/ /\ unm[cur[h]].status = "none"
          /\ unm' = [unm EXCEPT ![cur[h]] = [status |-> "pending", invoice |-> NoEntity]]
          /\ Goto(h, "post")
          /\ UNCHANGED <<todo, batch, cur, target, seen, done>>
       \/ /\ unm[cur[h]].status # "none"
          /\ Forget(h)
          /\ done' = done \cup {cur[h]}
          /\ UNCHANGED unm
    /\ UNCHANGED <<gatewayVars, inv, sch, act, times, applied, sent, raced,
                   overwritten, boundVars>>

\* A mutant: the confirmation is sent whatever the result.
ConfirmAlways(h) ==
    /\ pc[h] = "post"
    /\ sent' = [sent EXCEPT ![cur[h]] = @ + 1]
    /\ done' = done \cup {cur[h]}
    /\ Forget(h)
    /\ UNCHANGED <<gatewayVars, dbVars, act, times, applied, raced, overwritten,
                   boundVars>>

\* After the commit the tenant's confirmation is queued. The notice of an
\* unmatched payment to the accountants is not recorded.
HandlePostProcessing(h) ==
    /\ pc[h] = "post"
    /\ sent' = IF target[h] \in Tenanted
               THEN [sent EXCEPT ![cur[h]] = @ + 1] ELSE sent
    /\ done' = done \cup {cur[h]}
    /\ Forget(h)
    /\ UNCHANGED <<gatewayVars, dbVars, act, times, applied, raced, overwritten,
                   boundVars>>

\* The answer is 200 whatever the results, so the gateway sends no more.
Answer(h) ==
    /\ pc[h] = "next" /\ todo[h] = {}
    /\ owed' = owed \ batch[h]
    /\ Goto(h, "idle")
    /\ batch' = [batch EXCEPT ![h] = {}]
    /\ UNCHANGED <<made, recent, dbVars, todo, cur, target, seen, act,
                   historyVars, boundVars>>

HandlerStep(h) ==
    \/ StartPayment(h) \/ CheckIdempotency(h)
    \/ FindByReference(h) \/ FindInvoiceByText(h) \/ FindScheduleByText(h)
    \/ PayInvoice(h) \/ CreditSchedule(h) \/ StoreUnmatched(h)
    \/ HandlePostProcessing(h) \/ Answer(h)

-----------------------------------------------------------------------------
(* Unmatched payments: both checks are made before the writing transaction *)

StaffFrame == UNCHANGED <<gatewayVars, sch, handlerVars, applied, done, boundVars>>

\* Another accountant has the payment open, its check made and its write not.
Race(p, t) ==
    raced' = raced \cup {u \in {t} : \E q \in Staff \ {p} :
                            act[q].pc \in {"match", "reject"} /\ act[q].tx = u}

\* One step stands for both reads: a paid invoice stays paid here, so reading
\* it with the payment row allows the same outcomes as reading it after.
OpenMatch(p, t, i) ==
    /\ act[p].pc = "idle"
    /\ unm[t].status = "pending"
    /\ inv[i].status # "paid"
    /\ Race(p, t)
    /\ act' = [act EXCEPT ![p] = [pc |-> "match", tx |-> t, invoice |-> i]]
    /\ UNCHANGED <<inv, unm, times, sent, overwritten>> /\ StaffFrame

MatchToInvoice(p) ==
    /\ act[p].pc = "match"
    /\ inv' = [inv EXCEPT ![act[p].invoice] = Settled(act[p].tx)]
    /\ unm' = [unm EXCEPT ![act[p].tx] =
                 [status |-> "matched", invoice |-> act[p].invoice]]
    /\ Overwrite(inv[act[p].invoice], act[p].tx)
    /\ times' = [times EXCEPT ![act[p].tx] = @ + 1]
    /\ act' = [act EXCEPT ![p].pc = "notify"]
    /\ UNCHANGED <<sent, raced>> /\ StaffFrame

NotifyMatch(p) ==
    /\ act[p].pc = "notify"
    /\ sent' = IF act[p].invoice \in Tenanted
               THEN [sent EXCEPT ![act[p].tx] = @ + 1] ELSE sent
    /\ act' = [act EXCEPT ![p] = IdleRequest]
    /\ UNCHANGED <<inv, unm, times, raced, overwritten>> /\ StaffFrame

OpenReject(p, t) ==
    /\ act[p].pc = "idle"
    /\ unm[t].status = "pending"
    /\ Race(p, t)
    /\ act' = [act EXCEPT ![p] = [pc |-> "reject", tx |-> t, invoice |-> NoEntity]]
    /\ UNCHANGED <<inv, unm, times, sent, overwritten>> /\ StaffFrame

Reject(p) ==
    /\ act[p].pc = "reject"
    /\ unm' = [unm EXCEPT ![act[p].tx] = [status |-> "rejected", invoice |-> @.invoice]]
    /\ act' = [act EXCEPT ![p] = IdleRequest]
    /\ UNCHANGED <<inv, times, sent, raced, overwritten>> /\ StaffFrame

StaffStep(p) ==
    \/ \E t \in Tx : OpenReject(p, t) \/ \E i \in Invoices : OpenMatch(p, t, i)
    \/ MatchToInvoice(p) \/ NotifyMatch(p) \/ Reject(p)

-----------------------------------------------------------------------------
(* Faults *)

Fault ==
    /\ faults < MaxFaults
    /\ faults' = faults + 1
    /\ UNCHANGED <<made, dbVars, historyVars, manual>>

\* The database fails or times out, or after the commit the queue does:
\* processPayments catches the error and reports the payment skipped.
FailPayment(h) ==
    /\ Fault
    /\ pc[h] \in InTransaction \cup {"post"}
    /\ Forget(h)
    /\ UNCHANGED <<owed, recent, act>>

\* The server is restarted and what its requests had in hand is gone.
Crash ==
    /\ Fault
    /\ \E h \in Handlers : pc[h] # "idle"
    /\ pc' = [h \in Handlers |-> "idle"]
    /\ todo' = [h \in Handlers |-> {}]
    /\ batch' = [h \in Handlers |-> {}]
    /\ cur' = [h \in Handlers |-> NoTx]
    /\ target' = [h \in Handlers |-> NoEntity]
    /\ seen' = [h \in Handlers |-> 0]
    /\ act' = [p \in Staff |-> IdleRequest]
    /\ UNCHANGED <<owed, recent>>

\* The gateway gives up on a webhook.
LoseWebhook(t) ==
    /\ Fault
    /\ t \in owed
    /\ owed' = owed \ {t}
    /\ UNCHANGED <<recent, handlerVars, act>>

\* The answer does not reach the gateway, which will send again.
LoseAnswer(h) ==
    /\ Fault
    /\ pc[h] = "next" /\ todo[h] = {} /\ batch[h] # {}
    /\ Goto(h, "idle")
    /\ batch' = [batch EXCEPT ![h] = {}]
    /\ UNCHANGED <<owed, recent, todo, cur, target, seen, act>>

\* The daily fetch fails: the adapter logs the error and returns no payments.
FailFetch ==
    /\ Fault
    /\ recent # {}
    /\ recent' = {}
    /\ UNCHANGED <<owed, handlerVars, act>>

FaultStep ==
    \/ \E h \in Handlers : FailPayment(h) \/ LoseAnswer(h)
    \/ \E t \in Tx : LoseWebhook(t)
    \/ Crash \/ FailFetch

-----------------------------------------------------------------------------
Next ==
    \/ \E t \in Tx : Pay(t)
    \/ \E h \in Handlers :
        \/ \E B \in SUBSET owed : Webhook(h, B)
        \/ ScheduledReconciliation(h) \/ Reconcile(h)
        \/ HandlerStep(h)
    \/ \E p \in Staff : StaffStep(p)
    \/ FaultStep

Spec == Init /\ [][Next]_vars

\* A request once started runs on; the gateway repeats a webhook until it is
\* answered; cron fires every day.
Fairness ==
    /\ \A h \in Handlers : WF_vars(HandlerStep(h))
    /\ \A t \in Tx : WF_vars(\E h \in Handlers, B \in SUBSET owed :
                                t \in B /\ Webhook(h, B))
    /\ WF_vars(\E h \in Handlers : ScheduledReconciliation(h))

FairSpec == Spec /\ Fairness

-----------------------------------------------------------------------------
(* Properties *)

\* A transaction the database knows of: credited, or kept for the accountants.
Recorded(t) == times[t] > 0 \/ unm[t].status # "none"

\* Unless a fault hit it, a payment that processPayment has finished with is
\* recorded, also where it ended as already processed or was refused by the
\* unique transaction_id while another handler had it in hand.
NoPaymentDropped == \A t \in done : Recorded(t)

\* However webhooks, reconciliations and their stale reads interleave, a
\* schedule never shows more money than was credited to it.
NoPhantomMoney == \A s \in Schedules : sch[s].received <= applied[s]

\* Credited at most once, and not both credited and kept for the accountants.
AccountedOnce(t) ==
    \/ times[t] = 0
    \/ times[t] = 1 /\ unm[t].status \in {"none", "matched"}

\* A payment is accounted for once, through any duplicates, reconciliations,
\* retries, crashes and manual matches, unless two requests had it in hand at
\* the same time or another payment overwrote its id in the row it settled.
OnceUnlessRaced ==
    \A t \in Tx : AccountedOnce(t) \/ t \in raced \/ t \in overwritten

\* A tenant is never told of a payment more often than it was credited.
NoticePerCredit == \A t \in Tx : sent[t] <= times[t]

\* With at most one fault anywhere, a payment the bank has made is recorded
\* in the end: a failed webhook is made good by the reconciliation and a
\* failed reconciliation by the webhook.
EveryPaymentRecorded == \A t \in Tx : t \in made ~> Recorded(t)

\* Where the rows say a transaction went.
Place(t) ==
    IF unm[t].status # "none" THEN "queue"
    ELSE IF \E i \in Invoices : inv[i].ext = t
         THEN CHOOSE i \in Invoices : inv[i].ext = t
    ELSE IF \E s \in Schedules : sch[s].ext = t
         THEN CHOOSE s \in Schedules : sch[s].ext = t
    ELSE NoEntity

Intake == INSTANCE PaymentIntake WITH
    Nowhere <- NoEntity,
    Queue <- "queue",
    account <- [t \in Tx |-> Place(t)],
    received <- [s \in Schedules |-> sch[s].received]

\* Handled one batch at a time, with the references this version generates
\* (which only the text lookup finds), payments go to one place once, through
\* duplicates, reconciliations, lost answers and crashes.
ExactlyOnce == Intake!Spec

\* What processPayment's comment promises of webhooks repeated during a slow
\* response: the duplicate does not put a payment that has settled an invoice
\* into the accountants' queue as well.
NoRaceOnRetry ==
    \A t \in Tx, i \in Invoices : inv[i].ext = t => unm[t].status # "pending"

\* What the class comment promises: no duplicate webhook is credited again.
NoDoubleCredit == \A t \in Tx : times[t] <= 1
=============================================================================
