# Vully in TLA+

TLA+ models of the Vully API (`src/apps/api`), the back end of an apartment
management platform: payments from banks, monthly invoices, contracts, parking and
access cards, notifications, incidents and sessions. The models follow the code
at the grain at which its processes interleave: HTTP requests, BullMQ workers and cron
jobs of one or more Node processes over one PostgreSQL database at READ COMMITTED.

TLC checks small instances, TLAPS proves the safety properties for all values of
the constants.

## The system

All paths are relative to `src/apps/api/src/modules/`.

| Component | State | Operations | Interacts with |
|---|---|---|---|
| Payment webhooks, reconciliation (`payments-webhook/`) | `invoices`, `contract_payment_schedules` (status, amount, `external_transaction_id`), `unmatched_payments` | three gateways' webhooks, `processPayments`, daily and manual `reconcile` | gateways (at-least-once), notification queue, invoice and schedule screens |
| Unmatched payments (`unmatched-payments.service.ts`) | `unmatched_payments`, `invoices` | `matchToInvoice`, `reject` | accountants, webhooks |
| Billing (`billing/`) | `billing_jobs`, the BullMQ queue `billing`, `invoices`, `invoice_line_items` | enqueue, the processor's two passes, `create`, `supplementInvoice`, numbers | contracts, meter readings, vacant apartments, payments |
| Invoice payments (`billing/invoices/`) | invoice status, `price_snapshot`, schedules | report, verify, reject, synchronise with schedules, edit, overdue list | tenants, administrators, webhooks, schedules |
| Payment schedules (`apartments/payment-schedules/`) | schedules, `contract_payments` | report, verify, record, delete, create, update, drop, overdue sweep at startup | webhooks, invoices |
| Payment generator (`apartments/payment-generator/`) | schedules | rents, lease-to-own, milestones of a purchase | contracts |
| Contracts (`apartments/contracts/`) | contracts, an apartment's status, tenancy and residents | create, update, terminate | billing, payment generator |
| Building policies, bank accounts, buildings, apartments (`apartments/`) | versions of policies, accounts with a primary one, single rows | create, update, delete | access cards, payments |
| Parking, access cards, requests (`apartments/parking`, `access-cards`, `access-card-requests`) | slots, cards, requests | assign, create, deactivate, lift, approve | policies (limits) |
| Notifications (`notifications/`) | notifications, queue `notifications` | create, send, deliver per channel, in batches | everything |
| Identity (`identity/`) | users, roles, `refresh_tokens`, reset tokens, `oauth_accounts`, cached list of technicians | login, Google sign-in, refresh, logouts, reset, link, unlink, roles, changes by an administrator, `listTechnicians` | everything |
| Incidents (`incidents/`) | incident status, assignment | create, assign, update status, delete | notifications, sockets, the list of technicians |
| Meter readings, utility types | readings | single-row reads and writes | billing |
| Assistant, statistics, management board, web | caches, none | read only | - |

### What is hard here

- Nearly every service checks first and writes later, and the check is made
  against rows read without a lock, inside a transaction or not. Two requests
  can both pass the check.
- Money enters several times: webhooks are repeated until answered, the daily
  reconciliation fetches the same payments, accountants reconcile by hand.
- `processPayments` swallows errors and the webhook is answered 200 all the same.
- A schedule remembers one transaction id only.
- Bulk jobs are retried and re-run over what they have billed already, five at a time,
  while contracts end, readings arrive and invoices are paid.
- Side effects (queued notifications, progress, rows of jobs) come after the
  commit and can be lost in a crash.
- People change by hand what other code maintains: an apartment's columns, the schedules of a
  plan, a contract's terms, who is a technician.
- What is done in two statements can stop between them: roles, primary accounts,
  approvals, an invoice and its schedule, a row and the job that delivers it.
- Numbers of invoices, cards and slots are found by comparing text.

`PROJECT.json` lists each of these hazards at the line where it bites, with the
properties that cover it.

## The modules

| Module | What it is |
|---|---|
| `PaymentWebhook` | webhooks, reconciliation and unmatched payments |
| `PaymentIntake` | abstract specification: each payment goes to one place, once |
| `MCPaymentWebhook` | the small instances TLC checks |
| `PaymentWebhookProofs` | inductive invariants and theorems |
| `BillingRun` | bulk jobs and single requests that make a month's invoices |
| `MCBillingRun` | the small instances TLC checks |
| `BillingRunProofs` | inductive invariants and theorems |
| `ScheduleLedger` | schedules and the payments recorded against them |
| `InvoicePayments` | extends it by the payments reported on invoices and their synchronisation |
| `MCLedger` | the small instance TLC checks |
| `FiniteSums` | lemmas on sums over finite sets and on greatest numbers |
| `LedgerProofs` | inductive invariants and theorems of the ledger |
| `OfficeRequests` | requests as sequences of statements, shared by the components of `Office` and `Desk` |
| `PaymentPlans` | the generated schedules as functions of a contract's terms |
| `Contracts`, `BuildingPolicies`, `AccessCards`, `Parking`, `BankAccounts`, `MeterReadings` | one component each; `AccessCards` extends `BuildingPolicies` |
| `Office` | these together; `MCOffice` gives the instance |
| `Sessions`, `UserRoles`, `Incidents`, `Notifications` | one component each |
| `Desk` | these together; `MCDesk` gives the instance |
| `RequestProofs` | lemmas on requests for the next three |
| `OfficeProofs` | inductive invariants and theorems on accounts, readings, parking, contracts and their plans |
| `CardProofs` | extends it by those on policies and cards, and the types of all of `Office` |
| `DeskProofs` | inductive invariants and theorems on roles, sessions, incidents, and the types of all of `Desk` |

### PaymentWebhook

`processPayment` runs in one Prisma transaction, but READ COMMITTED gives every
statement its own snapshot and locks nothing it reads. So each read is a step, and
only the final write is atomic. A handler's `pc` follows the code:

| pc | code (`payments-webhook.service.ts`) | action |
|---|---|---|
| `next` | loop of `processPayments`, 330-349 | `StartPayment`, `Answer` |
| `inv`, `sch`, `unm` | idempotency reads, 64-98 | `CheckIdempotency` |
| `ref` | lookup by VULLY-INV/CTR reference, 127-140 | `FindByReference` |
| `textInv`, `textSch` | lookup by text, 142-175 | `FindInvoiceByText`, `FindScheduleByText` |
| `write` | 177-239 | `PayInvoice`, `CreditSchedule`, `StoreUnmatched` |
| `post` | confirmation after the commit, 242-325 | `HandlePostProcessing` |

`cur`, `target` and `seen` are the locals: the payment, the row found and the amount
read with it. `made`, `owed` and `recent` stand for the bank and its gateway: executed
payments, webhooks to be answered, and payments the next daily fetch returns.
Accountants check in one step (`OpenMatch`, `OpenReject`) and write in another.

Abstractions:

- A transaction's text is reduced to the row a VULLY reference denotes (`Ref`) and
  the rows whose own reference it contains (`Mentions`). `Mentions` may name several
  rows: the code tests for substrings, so 105_RENT is found in 1105_RENT.
- An invoice's `paid_amount` is the amount of the transaction in `ext`: both are
  written by the same statement.
- `OpenMatch` takes the payment and the invoice in one step: an invoice once paid stays
  paid here.
- The notice of an unmatched payment to the accountants is not recorded.
- `times`, `applied`, `done`, `sent`, `raced` and `overwritten` are history: no guard
  reads them.

### BillingRun

An executor is a job (a bulk run) or a clerk (an administrator's `create`). Its
`run` record holds the locals: `pc`, the debtor, contracts or apartments still to do,
the items read or to be charged, the invoice number, and whether a failure was
counted. An invoice is found by its unique `payment_reference`.

| pc | code | action |
|---|---|---|
| - | `billing-queue.service.ts` 24-97 | `Enqueue`, `FailEnqueue` |
| - | `billing.processor.ts` 47-81 | `Begin` |
| `loop` | 91-104 | `FindExisting` |
| `read`, `calculate`, `append` | `invoices-core.service.ts` 187-285 | `ReadInvoice`, `Recalculate`, `Append` |
| `check`, `price`, `number`, `create` | `invoices-core.service.ts` 57-170 | `CheckContract`, `CalculateInvoice`, `GenerateInvoiceNumber`, `CreateInvoice` |
| `progress` | processor 190-201 | `UpdateProgress` |
| `vacant` | processor 206-251, `vacant-billing.service.ts` | `FindBillableVacantApartments`, `GenerateVacantInvoice` |
| `report` | processor 259-295 | `Finish`, `Report` |

Abstractions:

- Prices are left out. `lines` counts how often an item is charged, `total` is the
  same count of what `total_amount` was increased by.
- An invoice is `open` or not: paid and cancelled are alike to billing.
- `Padded` is the last number of the padded width (9999 in the code).
- Signing and ending a contract are a step each. The races of signing belong to a
  later module.
- A worker's death is a stall: the queue hands the job out again `MaxStalls` times
  (BullMQ's default is 1). Two workers on one stalled job are not modelled.
- `asked`, `raced`, `late` and `ended` are history; `ended` only keeps an ended
  contract from being signed again.

### ScheduleLedger and InvoicePayments

A request (`req[r]`) has read its rows and stands before the statement `pc` names.
Inside a transaction a read is a step too, and the rows written before it are locked:
`ScheduleLocked` and `PaymentLocked` are the guards the database adds to everybody
else's writes. A row that is gone makes the statement fail (`FailRequest`).

| Code | Actions |
|---|---|
| `payment-verification.service.ts` 41-113 | `ReportPayment` |
| 119-238, confirmed | `OpenVerification`, `EnterVerification`, `LookUpInvoice`, `ConfirmPayment` (with `SyncInvoice`) |
| 239-263, rejected | `OpenVerification`, `EnterVerification`, `CountReported`, `RejectPayment` |
| the same, with `reported` as the decision | `OpenVerification`, `KeepReported` |
| `payment-recording.service.ts` | `OpenRecording`, `RecordPayment`; `OpenDeletion`, `SumRemaining`, `DeletePayment` |
| `schedules-core.service.ts` | `CreateSchedule`, `UpdateSchedule`; `OpenDrop`, `DeleteSchedule` |
| `invoices-payment.service.ts` | `OpenReport`, `ReportOnInvoice`; `OpenInvoiceVerification`, `ConfirmOnInvoice`, `RejectOnInvoice` |
| `invoices-schedule-sync.helper.ts` | `SyncPaymentToSchedule`, `CreditFromInvoice`, `FailCredit` |
| `invoices-core.service.ts` 408-482 | `UpdateInvoice`; `OpenOverdue`, `MarkInvoicesOverdue` |
| `payment-generator.service.ts` 346-367, called at startup | `MarkOverdue` in `Restart` |

The webhook's writes are single steps here (`CreditByWebhook`, `SettleByWebhook`);
`PaymentWebhook` has its reads. `OpenVerification` takes any decision of the
enumeration: `reported` is one, and the code lets it change the amount. `UpdateInvoice` takes any
status and paid amount, either of them or both. Schedules keep their expected amount and date here;
changes of these by hand are in `Contracts`, which has no payments.

### OfficeRequests and Office

In these services a request checks, perhaps reads more, and writes. `task[r]` holds
its next statement (`op`), the objects it is about (`on`), the row it writes and what
it has read (`seen`, `kind`). `Open` is the first statement, `Proceed`, `Goto` and
`Close` are the others, `AtOnce` a request of one statement, and `Fail` ends a request at any
point: an error of the database, or a restart. `raced` records the objects that two
requests had in hand at once, `cut` those a failed request left half done; no guard reads
either.

The services are composed in `Office`. No two of them write the same column, so a
behaviour takes the requests of one of them, its `area` (of two in the case
of policies, which set the limits of cards). This bound leaves out no
interleaving that a property could tell apart, and adds the areas' state spaces up instead of
multiplying them.

- `Contracts`: `SignContract` leaves the request in the generation of the schedules, which is
  another transaction and may fail alone. `ValidateContract` reads the terms, from which the rows
  are worked out, and `GenerateSchedules` writes these: `UpdateContract` may change end, rent and
  deposit in between, and `basis` is history, the terms a plan was generated from. `AddSchedule`,
  `ChangeSchedule` and `DropSchedule` are the rows by hand of `schedules-core.service`; a row says
  whether it was entered by hand, which the table does not. `EditApartment` writes any
  status, rented flag and residents. In the area `plans` the instances run through the terms of
  a contract instead of through requests, in `schedules` through requests about one plan. `PaymentPlans` has dates (months from
  a leap year, days), the shift of a due day that is over, the pro-rated month, rounding, and
  the progress payments the deadline cuts off.
- `BuildingPolicies`: versions with a first and a last day; `Tick` lets days pass.
- `AccessCards`: an issue is number, limit, count, insertion, each a statement; an
  approval adds the write of the request, a reactivation begins at the limit. A number is
  what text comparison finds: `Padded` is the last of the padded width, `ByHand` a number with
  the month's prefix that no digits sort after, `NaN` what the code makes of its successor. The limit
  of the apartment is the override or else the older column, and may be 0; a limit of 0 in a policy
  counts as none and gives the default.
- `Parking`: slots are their numbers; creation in bulk skips numbers there already.
- `BankAccounts`: all accounts of one holder.
- `MeterReadings`: one meter; `BillReading` is the charge by an invoice.

### Desk

`Desk` composes in the same way:

- `Sessions`: one user. Tokens point back to the first of their sign-in (`from`), so that rotation and
  logout can be told of the sign-in as a whole. `ended` is history: sign-ins ended when no request
  was carrying them on. `OpenUpdate` and `UpdateUser` are an administrator's update. It
  may give the user a password, which ends no sign-in, or deactivate the user, which ends all.
- `UserRoles`: one user, the roles and the primary one. A replacement (`OpenReplacement`,
  `ReplaceRoles`) deletes the rows there are at its first statement and commits later. An update
  with roles alone writes no column of the user before that, so it waits for nobody, except another
  replacement of the same rows, whose new rows it does not delete; a role inserted
  twice breaks a unique key and rolls it back (`RefuseReplacement`).
- `Incidents`: status, technician and whether a date of resolution is shown; who has the role of a
  technician and whose account is active. A listing reads the holders of the role, which of them are
  active, then their incidents, and caches the three as one list (`members`, `work`, by
  incident where the code counts); a list without holders is not cached. `restaffed` is history: technicians whose
  role or account changed since the reading of the list began.
- `Notifications`: rows, jobs (`send`, `deliver-batch`) as loops over recipients with their position, and
  a bag of `deliver` jobs. The request writes row by row and passes over the rows it cannot
  write; the batch pairs users and rows by position. Channels are constant. When a worker dies, the
  queue hands out its job again (`StallJob`, `StallDelivery`), `MaxStalls` times. A worker that
  lost its lock and runs on beside the new one is left out.

## What is checked

| Run | Instance | Shows |
|---|---|---|
| `PaymentWebhookRaces` | 2 payments, 1 invoice (pending or cancelled), 1 schedule, 2 handlers, 2 accountants, 1 manual reconciliation | nothing processed is dropped; a schedule shows no money that was not credited; only a race or an overwritten id makes a payment count twice; no confirmation without credit |
| `PaymentWebhookSerial` | 3 payments, 2 invoices, 1 schedule, 1 handler, 2 faults | one batch at a time, with the references this version generates, implements `PaymentIntake` |
| `PaymentWebhookLiveness` | 2 payments for one invoice, 2 handlers, 1 fault | every payment is recorded in the end |
| `BillingRunSafety` | 2 jobs, 2 successive contracts of one apartment, 2 faults, `Padded = 1` | totals match lines; completed means billed; nothing charged twice and no settled invoice changed unless two executors, or the payment and an executor, overlapped |
| `BillingRunProgress` | 1 job, 1 clerk, 2 apartments with equal unit numbers, 1 fault | a job that the queue took ends and its row says so |
| `Ledger` | 2 schedules, the later one yet to be made, 1 invoice, 2 payments, 2 requests, 5 operations | the amount received is what was confirmed and credited; a reported schedule has a report to decide; a report is credited once, its decision shown; payments do not vanish; a paid invoice stays paid |
| `Office` | 2 requests; 1 apartment and 2 contracts, 3 policies over 3 days, 3 cards, 4 slots, 2 accounts, 3 readings; 1 to 4 operations of an area | one active contract, which the apartment shows; plans complete, in order and not doubled, beside rows by hand and amended terms; one policy a day; limits and free numbers of cards, requests that match them; slots and readings kept; one primary account |
| `Desk` | 2 requests; 3 tokens, 2 reset tokens, 2 Google accounts, 4 roles, 2 incidents and technicians, 2 users to notify; 1 to 5 operations of an area; 2 failures or deaths of workers | one token a sign-in, none once ended; a way in; one to three roles, the primary among them; the status table; a list of the technicians on duty and their work; every notification tried |

The bounds are the least in which the cases of the hazards happen. Two handlers
and two payments give every pairwise race; a third payment adds only the overwritten id,
which is in `Serial` and `Duplicate`. Two jobs over the same invoice give every
race of supplements and of numbers. Both numbers of the padded width and the
one beyond it occur with `Padded = 1`. Two faults allow a failure in the retry of a
failure.

In the newer instances two requests give every pairwise race, and the number of
operations (`MaxOps`, by area) lets a third one follow them: one that finds what the race
or the failure left. Five operations in `Ledger` are what report, verification, deletion and
two others between them take. Of policies, three are needed for one that overtakes another; of cards,
three for a number beyond the padded width of two; of tokens, three for two rotations of
one sign-in; the terms in `plans` take in the ends of January, February in a common and
in a leap year, and deadlines before, at and after the first payments. Three operations in
`schedules` are a generation with a row entered before or after it and an amendment or deletion. A batch has two attempts
instead of three: the second is both a retry and the last. Two faults let a job stall in its
retry, and stall once more than it survives. `SigningMonths = 2` (12 in the code) keeps
the plan of a contract just signed short; `plans` has those of 12 months.

Many properties say "unless two requests had it in hand at once". That is what the code
is: it locks nothing. What they show is everything else, over any sequence of calls,
failures and restarts, and that nothing but a race of requests about that very object
breaks them. Where a race does not break the property, there is no such exception. They are upper
bounds, too, where a race only loses something: `NoPhantomMoney` does not say that all that was received is
shown, nor `SyncedOncePerReport` that a report is synchronised, which a failure between the invoice
and its schedule prevents.

Some have other exceptions, which are what the code leaves open:

| Property | Except |
|---|---|
| `ApartmentMatchesContract` | an apartment changed by hand since a contract of it was last signed or terminated, or with a contract whose status was: nothing holds the columns to the contract then |
| `ScheduledOnce` | a row entered by hand after the other; a deposit or option fee generated although one was there, entered by hand or left when rows were deleted, for neither keeps a plan from being generated |
| `PlanSound` | a plan changed by hand; a purchase whose deadline is before its start. It is about the terms the plan was generated from: an amendment leaves the plan. Amounts are negative where the rent was made so or the down payment is above the price |
| `ListCurrent` | technicians whose role or account changed since the list was read; deleted incidents. Neither change drops the list |
| `SyncedOncePerReport`, `DecisionShown` | a report decided again, which nothing prevents (see below) |
| `RolesKept` | a revocation that failed before another role became the primary one |
| `OneTokenUntilEnded` | nothing, but a password given by an administrator does not count as an end: it ends no sign-in |
| `NoticeTried` | a request stopped before it queued the batch; a job out of attempts or stalls; a `send` or `deliver` that failed; a worker that died with a new row in hand; a row taken for that of an earlier user |

Deadlock is not checked: every instance stops when its payments are
processed, its jobs done or its operations used up.

Four runs find what a comment or a specification of the repository says is not so:

| Run | Statement | Counterexample |
|---|---|---|
| `PaymentWebhookRetry` | one transaction prevents races when gateways retry | the retry reads before the first request commits, and stores the credited payment as unmatched |
| `PaymentWebhookDuplicate` | duplicates are not credited again | a second instalment overwrites the first one's id, a late duplicate of the first is credited again |
| `BillingRunInstalment` | bulk runs make no milestone lines | the second run supplements the invoice, and the supplement is calculated with milestones |
| `BillingRunVacant` | a vacant apartment that has an invoice is left out | the invoice of the contract that ended does not name the apartment |

One comment needs no run. `invoices-payment.service.ts` 158-162 says that a verification clears the
reported payment, whichever way it decides. The code writes the decision beside the report in
`price_snapshot` (188-208, 249-262), and its only check is that there is a report (178-181). So
a report can be decided again, and every confirmation credits its schedule: `redecided` has the
invoices this happened to.

### Fairness

`PaymentWebhook!Fairness`: a request once started runs on (Node schedules every
pending promise); the gateway repeats a webhook until it is answered; cron fires every
day. Nothing is assumed of payers, accountants or manual reconciliation. Liveness is
claimed for one fault: a lost webhook and a failed fetch together do lose a payment.

`BillingRun!Fairness`: a worker takes up waiting jobs and runs them on. With two
faults `JobEnds` is false: a job that stalls twice is failed by the queue and its row
says processing for ever.

`DeskSpec` has one weak fairness, on `NoticeWork`: a request that writes notifications
runs on, and workers take up what is queued. Nothing is assumed of new requests, and
failures and deletions are free; `NoticeTried` names the failures after which the code
tries nothing again.

## What is proved

Every safety property of a passing run, invariants and action properties alike, and the refinement of
`PaymentIntake` are theorems, for all values of the constants that satisfy the named assumptions. TLC has checked
each property, and the less obvious inductive invariants, on the small instances first.

| Theorem | Argument |
|---|---|
| `PaymentWebhookProofs!TypeCorrect` | `TypeInv`: a handler has a payment in hand exactly between taking and forgetting it, a row only after the lookups |
| `MoneyCorrect` | the amount a handler has read never exceeds what was credited (`SnapshotOK`), so what it writes does not either |
| `NothingDropped` | a payment found already processed is recorded, one that reaches `post` has been written |
| `AccountedOnceUnlessRaced` | for an unraced payment one handler has it in hand and one accountant has it open; what its idempotency reads have excluded stays excluded (`ReadsHold`) |
| `NoticesCorrect` | `NoticeInv`: the confirmations sent and those about to be sent, by any finite set of handlers and accountants, are not more than the credits |
| `SerialIntake` | one handler, no accountants, references only the text lookup finds (`Serial`, a condition on the constants). `SerialInv`: no id in two rows, and the row a lookup has found is still as it was read. Each step then is one step of the abstract intake or leaves what it shows |
| `BillingRunProofs!TypeCorrect` | a job is executed only when active, and handed out only with attempts and stalls left |
| `CompletedJobsBilled` | unless a failure was counted, what is not billed is still ahead in the first pass and nothing is left after it; invoices remain with their debtor |
| `TotalsCorrect` | lines and total grow together, whoever else appends |
| `SettledInvoicesStay`, `ItemsChargedOnce` | `SupplementInv`: what a supplement has read of its invoice is all there is on it unless another executor supplements it, too, and the invoice is open unless settled late |
| `LedgerProofs!LedgerTyped` | `TypeInv`: a request has rows of the kind its statement is about, a payment has one lock, recorded payments have a schedule that exists |
| `LedgerMoney`, `LedgerReports` | `ScheduleInv`: a schedule that was not raced is in the hands of one request, and the amount, status and sum that one has read are still true (`Current`), so what it writes keeps the sum |
| `LedgerPayments` | a request about to delete a schedule found it without payments, and it still has none unless raced |
| `LedgerSyncedOnce`, `LedgerDecisions` | `InvoiceInv`: unless contested, one request is about the invoice; an open report is one more than was credited; one a verification paid shows it |
| `LedgerPaid` | follows the four statements that may write the status of an invoice |
| `OfficeProofs!OneContractActive`, `ApartmentsMatchContracts` | `ContractInv`: the apartment of a request about to sign has no active contract, the contract of one about to terminate is still active, or the apartment was raced, edited, or changed by hand since. A signature and a termination write all three columns, so they end the last of these |
| `ScheduledOnceKept`, `PlansSound` | first, lemmas on `PaymentPlans`: whatever the terms, months, number of payments and percentage, a generated plan is sound and names nothing twice (`PlanGood`, from the calendar, rounding and the division of what remains). Then `PlanInv`: unless excused, the plan of a contract names nothing twice (`OnceFor`), has a row that blocks a generation, or rows by hand only, or lost rows (`Kept`), and if not altered is sound for the terms it was generated from (`AsGenerated`). A request about to generate holds a sound plan for terms of the contract's type, and has found no blocking row, which only a request in a race with it can have added |
| `OnePrimaryAccountKept` | `AccountsInv`: after the first of two statements no account is primary, and the request at the second has the holder in hand |
| `SlotsStayKept` | `SlotInv`: a slot found available stays so until the request has assigned it |
| `SlotsCreatedAsAsked` | `NumberInv`: the number a request starts from is beyond all slots, unless they outgrew the padded width |
| `BilledReadingsStay` | `MeterInv`: a reading about to be changed is on no invoice, or was in the hands of two |
| `CardProofs!PoliciesFollow` | `PolicyInv`: the policies form a chain (`PolicyChain`): one is current, it begins after the last days of all others, and days are covered from the first policy on; who is about to replace it has read which it is |
| `RequestsMatchCards`, `NumbersFree`, `LimitKept` | `CardInv`: what a request has read of numbers, limits and cards still holds unless the apartment was raced (`CardsFresh`); a request for a card is approved with the one card issued for it, or none is issued, or its approval is between the two (`CardsDecided`) |
| `OfficeTyped` | `TypeInv`: what the requests have read or been given has its types, besides the invariants of all parts |
| `DeskProofs!RolesStayKept` | `RolesInv`: a revocation that is to promote has the role of the user in hand and the roles it read without the one revoked; a replacement that was not raced deletes all roles there are |
| `SignInsEnd` | `SessionInv`: a token belongs to a sign-in that exists, a request has in hand the sign-in it carries on, and no request in hand means no token to come; an ended sign-in is carried on by nobody |
| `UsersGetIn` | a request that found another way in has the links in hand, and the way is still there unless another changed them |
| `TechnicianListCurrent` | `IncidentInv`: the members a listing has read, and those cached, are the technicians on duty but for the restaffed; what it has counted, and what is cached, is the work of these as it is now, or the technician is restaffed, or a request that will invalidate the list is about the incident, or one was cut short or overlapped. `restaffed` starts anew only when no listing is under way |
| `ChangesFollowTable` | a request about to change a status still finds the status and the technician it was checked against |
| `DeskTyped` | `TypeInv`: a job stands at a user of its list and has channels left only for one whose row it has (`JobTyped`); a revocation has read roles, a listing has counted work |

Hardly any of the properties is inductive by itself: they speak of rows, and what a
handler is about to write rests on what it read earlier. The inductive invariants add
what the locals of each execution mean for the rows. `RequestProofs` has what all requests have in
common: a request of one area leaves the variables of the others, a request's objects stay its own
until it ends, and an object in the hands of two is raced from then on. The proofs of `Office` and `Desk` rest on
it, and on the areas: outside its own area a component stays as it began.

Sums over payments and the greatest of several numbers need induction over finite sets. `FiniteSums` has it as a
statement about sets: a set of subsets of a finite set has a least member (`LeastSubset`), so that the least
subset for which a claim fails is either empty or fails for one element less. The folds of the community modules are
unfolded with it.

Assumptions named in the modules, which TLC evaluates for every instance:

- null values that are no rows, and kinds of rows that are disjoint;
- finite sets where the code reads a table and counts, sums or takes the greatest: payments, cards, slots, periods,
  roles and Google accounts, with at least one role and account;
- amounts, limits, days and counts that are whole numbers; amounts of transactions are positive;
- references, earlier schedules and types that name rows that exist;
- terms that `CreateContractDto` accepts (`IsTerms`): a date, a due day from 1 to 28, amounts that are not negative
  (the deposit may be); a percentage from 1 to 100 and at least one month and payment asked for. The code's
  amounts are decimals; here they are whole, as amounts in dong are;
- an amended rent or deposit that is any whole number, an end that is a date; a row by hand with one of the types, a
  number from 1 and an amount not negative; an apartment changed by hand to any status, flag and number of residents;
- lists of users and of their channels, at least one attempt, and any limits on stalls and faults.

Only model-checked: the liveness properties (`EveryPaymentRecorded`, `JobEnds`, `NoticeTried`), out of the
prover's reach like `ENABLED`.

## Not modelled

- Expiry of tokens, rate limits, Zalo accounts, profiles and building assignments; sign-in by Google covers
  the steps of linking.
- Comments and texts of incidents, sockets, read flags, device tokens, and changes of preferences.
- Single rows nothing else is checked against: buildings and their maps, zones, utility types and tariffs, other
  columns of apartments.
- The link of a parking card to a slot (`linkParkingCard`, `unlinkParkingCard`): nothing calls it.
- The signature checks and payload formats of the gateways, QR codes and payment reminders.
- The assistant (calls of a language model, a search and a cache), statistics (read-only aggregates), the
  management board (empty controllers), and the web application, which keeps no state the API relies on. They are
  most of the lines of the repository.

## Plan

Done: all modules named above, and the theorems for every safety property and the refinement.

Left:

1. An instance of `BillingRun` with two items of one category, and the vacant pass of billing against the
   steps of signing.
2. The safety half of the liveness properties: that a payment not yet recorded is still with the payer, the
   gateway, a handler or the next fetch, and a notification that owes an attempt is still with a request, a job or
   the outbox, as invariants with proofs.
