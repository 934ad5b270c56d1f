------------------------------ MODULE BillingRun ------------------------------
(***************************************************************************)
(* Generating the invoices of one billing period: bulk jobs on the BullMQ  *)
(* queue and administrators' single requests, while meter readings are     *)
(* entered, invoices settled and contracts signed and ended.               *)
(*                                                                         *)
(* Jobs run concurrently, and every read that later steps rely on and every *)
(* write is a step of its own, so checks are made against rows that may     *)
(* have changed since.                                                      *)
(***************************************************************************)
EXTENDS Integers, FiniteSets

CONSTANTS Contracts,      \* rows of contracts
          Apartments,     \* apartments with an owner
          Jobs, Clerks,   \* bulk runs; requests that create one invoice
          NoOne           \* null value

CONSTANTS Readings, Fees, Instalments  \* what a line item can charge

CONSTANTS Home,           \* apartment of each contract
          Debts,          \* line items a contract or a vacant apartment owes
          Category,       \* category of each line item
          Scope,          \* line items in the categories of a job or request
          Reference,      \* payment_reference of an invoice to the debtor
          InitiallyActive \* contracts active at first

CONSTANTS Padded,         \* the last invoice number of the padded width
          Attempts,       \* attempts of a job
          MaxStalls,      \* stalls a job survives
          MaxFaults       \* bound: faults of any kind

Debtors == Contracts \cup Apartments
Items == Readings \cup Fees \cup Instalments
Executors == Jobs \cup Clerks
References == {Reference[d] : d \in Debtors}

ASSUME PartyAssumption ==
    /\ Contracts \cap Apartments = {} /\ NoOne \notin Debtors
    /\ Jobs \cap Clerks = {}
    /\ Home \in [Contracts -> Apartments]
    /\ InitiallyActive \subseteq Contracts

ASSUME ItemAssumption ==
    /\ Debts \in [Debtors -> SUBSET Items]
    /\ \A a \in Apartments : Debts[a] \subseteq Fees
    /\ Scope \in [Executors -> SUBSET Items]

ASSUME NumberAssumption ==
    /\ Padded \in Nat \ {0} /\ Attempts \in Nat \ {0}
    /\ MaxStalls \in Nat /\ MaxFaults \in Nat

VARIABLES active,    \* contracts with status active
          entered,   \* meter readings entered for the period
          invoice,   \* invoices of the period by payment_reference
          status,    \* billing_jobs.status of each job
          queue,     \* where BullMQ has the job
          attempts,  \* failed attempts of each job
          stalls,    \* times the worker died under each job
          run,       \* execution of each job and request
          faults

\* History, which no guard reads: contracts a job's run has to bill, debtors
\* two executors supplemented at once, debtors that settled while an executor
\* was supplementing their invoice, and contracts that have ended.
VARIABLES asked, raced, late, ended

tableVars == <<active, entered, invoice>>
jobVars == <<status, queue, attempts, stalls>>
historyVars == <<asked, raced, late, ended>>
vars == <<tableVars, jobVars, run, faults, historyVars>>

\* Lines count how often an item is charged; total_amount is abstracted to the
\* items whose prices it is the sum of. A closed invoice is paid or cancelled.
NoLines == [i \in Items |-> 0]
NoInvoice == [debtor |-> NoOne, number |-> 0, open |-> FALSE,
              lines |-> NoLines, total |-> NoLines]
Invoice == [debtor : Debtors \cup {NoOne}, number : Nat, open : BOOLEAN,
            lines : [Items -> Nat], total : [Items -> Nat]]

IdleRun == [pc |-> "idle", who |-> NoOne, todo |-> {}, have |-> {}, add |-> {},
            number |-> 0, failed |-> FALSE]
Run == [pc : {"idle", "loop", "read", "calculate", "append", "check", "price",
              "number", "create", "progress", "vacant", "report"},
        who : Debtors \cup {NoOne}, todo : SUBSET Debtors,
        have : SUBSET Items, add : SUBSET Items, number : Nat, failed : BOOLEAN]

TypeOK ==
    /\ active \subseteq Contracts /\ entered \subseteq Readings
    /\ invoice \in [References -> Invoice]
    /\ status \in [Jobs -> {"none", "pending", "processing", "completed", "failed"}]
    /\ queue \in [Jobs -> {"none", "waiting", "active", "completed", "failed"}]
    /\ attempts \in [Jobs -> 0..Attempts]
    /\ stalls \in [Jobs -> 0..(MaxStalls + 1)]
    /\ run \in [Executors -> Run]
    /\ faults \in 0..MaxFaults
    /\ asked \in [Jobs -> SUBSET Contracts]
    /\ raced \subseteq Debtors /\ late \subseteq Debtors /\ ended \subseteq Contracts

Init ==
    /\ active = InitiallyActive /\ entered = {}
    /\ invoice = [r \in References |-> NoInvoice]
    /\ status = [j \in Jobs |-> "none"] /\ queue = [j \in Jobs |-> "none"]
    /\ attempts = [j \in Jobs |-> 0] /\ stalls = [j \in Jobs |-> 0]
    /\ run = [e \in Executors |-> IdleRun]
    /\ faults = 0
    /\ asked = [j \in Jobs |-> {}]
    /\ raced = {} /\ late = {} /\ ended = {}

-----------------------------------------------------------------------------
(* The rest of the system *)

EnterReading(r) ==
    /\ r \notin entered
    /\ entered' = entered \cup {r}
    /\ UNCHANGED <<active, invoice, jobVars, run, faults, historyVars>>

Supplementing(e, d) == run[e].pc \in {"calculate", "append"} /\ run[e].who = d

\* A payment settles an invoice, or an administrator cancels it.
Settle(d) ==
    /\ invoice[Reference[d]].debtor = d /\ invoice[Reference[d]].open
    /\ invoice' = [invoice EXCEPT ![Reference[d]].open = FALSE]
    /\ late' = late \cup {x \in {d} : \E e \in Executors : Supplementing(e, x)}
    /\ UNCHANGED <<active, entered, jobVars, run, faults, asked, raced, ended>>

Vacant(a) == \A c \in active : Home[c] # a

\* Signing and ending are one transaction each here; that two may be signed at
\* once for one apartment is beyond this module.
SignContract(c) ==
    /\ c \notin active \cup ended /\ Vacant(Home[c])
    /\ active' = active \cup {c}
    /\ UNCHANGED <<entered, invoice, jobVars, run, faults, historyVars>>

EndContract(c) ==
    /\ c \in active
    /\ active' = active \ {c}
    /\ ended' = ended \cup {c}
    /\ UNCHANGED <<entered, invoice, jobVars, run, faults, asked, raced, late>>

-----------------------------------------------------------------------------
(* Executing a job or a request *)

At(e, l) == run[e].pc = l
Goto(e, l) == run' = [run EXCEPT ![e].pc = l]

\* The executor is through with its debtor: a request ends, a job continues at
\* l, and counts the failure if there was one.
Return(e, l, failed) ==
    run' = [run EXCEPT ![e] =
              IF e \in Clerks THEN IdleRun
              ELSE [IdleRun EXCEPT !.pc = l, !.todo = run[e].todo,
                                   !.failed = run[e].failed \/ failed]]

\* Failures of a vacant apartment are not counted.
ReturnFromCreate(e, failed) ==
    IF run[e].who \in Apartments
    THEN Return(e, "vacant", FALSE)
    ELSE Return(e, "progress", failed)

RunFrame == UNCHANGED <<active, entered, jobVars, faults, late, ended>>
ReadOnly == RunFrame /\ UNCHANGED <<invoice, raced>>

\* The billing job's row and the queue's job are created.
Enqueue(j) ==
    /\ status[j] = "none"
    /\ status' = [status EXCEPT ![j] = "pending"]
    /\ queue' = [queue EXCEPT ![j] = "waiting"]
    /\ UNCHANGED <<tableVars, attempts, stalls, run, faults, historyVars>>

\* A mutant: the row gets the queue's status.
BeginActive(j) ==
    /\ queue[j] = "waiting"
    /\ queue' = [queue EXCEPT ![j] = "active"]
    /\ status' = [status EXCEPT ![j] = "active"]
    /\ run' = [run EXCEPT ![j] = [IdleRun EXCEPT !.pc = "loop", !.todo = active]]
    /\ asked' = [asked EXCEPT ![j] = active]
    /\ UNCHANGED <<tableVars, attempts, stalls, faults, raced, late, ended>>

\* A worker takes the job up, from the start also after a failed attempt.
Begin(j) ==
    /\ queue[j] = "waiting"
    /\ queue' = [queue EXCEPT ![j] = "active"]
    /\ status' = [status EXCEPT ![j] = "processing"]
    /\ run' = [run EXCEPT ![j] = [IdleRun EXCEPT !.pc = "loop", !.todo = active]]
    /\ asked' = [asked EXCEPT ![j] = active]
    /\ UNCHANGED <<tableVars, attempts, stalls, faults, raced, late, ended>>

Invoiced(d) == invoice[Reference[d]].debtor = d

FindExisting(j) ==
    /\ At(j, "loop")
    /\ \E c \in run[j].todo :
        run' = [run EXCEPT ![j].pc = IF Invoiced(c) THEN "read" ELSE "check",
                           ![j].who = c, ![j].todo = @ \ {c}]
    /\ ReadOnly /\ UNCHANGED asked

-----------------------------------------------------------------------------
(* supplementInvoice *)

\* A mutant: the status of the invoice is not looked at.
ReadAnyInvoice(e) ==
    /\ At(e, "read")
    /\ run' = [run EXCEPT ![e].pc = "calculate",
                          ![e].have = {i \in Items : invoice[Reference[run[e].who]].lines[i] > 0}]
    /\ raced' = raced \cup
                  {d \in {run[e].who} : \E f \in Executors : Supplementing(f, d)}
    /\ RunFrame /\ UNCHANGED <<invoice, asked>>

ReadInvoice(e) ==
    LET row == invoice[Reference[run[e].who]]
    IN  /\ At(e, "read")
        /\ \/ /\ ~row.open
              /\ Return(e, "loop", FALSE)
              /\ UNCHANGED raced
           \/ /\ row.open
              /\ run' = [run EXCEPT ![e].pc = "calculate",
                                    ![e].have = {i \in Items : row.lines[i] > 0}]
              /\ raced' = raced \cup
                   {d \in {run[e].who} : \E f \in Executors : Supplementing(f, d)}
        /\ RunFrame /\ UNCHANGED <<invoice, asked>>

\* What the executor's debtor owes at the moment.
Due(e, withInstalments) ==
    {i \in Debts[run[e].who] \cap Scope[e] :
        /\ i \in Readings => i \in entered
        /\ i \in Instalments => withInstalments}

\* A mutant: meter readings, too, are told apart by category.
MissingByCategory(items, have) ==
    {i \in items : Category[i] \notin {Category[k] : k \in have \ Readings}}

\* A meter reading is missing if it is not on the invoice, any other item if
\* none of its category is.
Missing(items, have) ==
    {i \in items : IF i \in Readings
                   THEN i \notin have
                   ELSE Category[i] \notin {Category[k] : k \in have \ Readings}}

\* The supplement is calculated with instalments, unlike the invoice.
Recalculate(e) ==
    LET missing == Missing(Due(e, TRUE), run[e].have)
    IN  /\ At(e, "calculate")
        /\ IF missing = {}
           THEN Return(e, "loop", FALSE)
           ELSE run' = [run EXCEPT ![e].pc = "append", ![e].add = missing]
        /\ ReadOnly /\ UNCHANGED asked

Charge(items, lines) == [i \in Items |-> lines[i] + (IF i \in items THEN 1 ELSE 0)]

\* A mutant: the total is computed from the lines read before.
AppendToRead(e) ==
    /\ At(e, "append")
    /\ invoice' = [invoice EXCEPT
         ![Reference[run[e].who]].lines = Charge(run[e].add, @),
         ![Reference[run[e].who]].total = Charge(run[e].add \cup run[e].have, NoLines)]
    /\ Return(e, "loop", FALSE)
    /\ RunFrame /\ UNCHANGED <<raced, asked>>

\* Lines and total grow in one transaction, whatever the status is by now.
Append(e) ==
    /\ At(e, "append")
    /\ invoice' = [invoice EXCEPT
         ![Reference[run[e].who]].lines = Charge(run[e].add, @),
         ![Reference[run[e].who]].total = Charge(run[e].add, @)]
    /\ Return(e, "loop", FALSE)
    /\ RunFrame /\ UNCHANGED <<raced, asked>>

-----------------------------------------------------------------------------
(* create *)

Request(k, c) ==
    /\ At(k, "idle") /\ k \in Clerks
    /\ run' = [run EXCEPT ![k].pc = "check", ![k].who = c]
    /\ ReadOnly /\ UNCHANGED asked

CheckContract(e) ==
    /\ At(e, "check")
    /\ IF run[e].who \in active /\ ~Invoiced(run[e].who)
       THEN Goto(e, "price")
       ELSE ReturnFromCreate(e, TRUE)
    /\ ReadOnly /\ UNCHANGED asked

\* Nothing to charge is an error, which a job counts as skipped.
CalculateInvoice(e) ==
    LET due == Due(e, e \in Clerks)
    IN  /\ At(e, "price")
        /\ IF due = {}
           THEN ReturnFromCreate(e, FALSE)
           ELSE run' = [run EXCEPT ![e].pc = "number", ![e].add = due]
        /\ asked' = IF due = {} /\ e \in Jobs
                    THEN [asked EXCEPT ![e] = @ \ {run[e].who}] ELSE asked
        /\ ReadOnly

\* Numbers are compared as strings: one beyond the padded width sorts below the
\* last padded one and is never seen as the last.
PaddedNumbers == {0} \cup ({invoice[r].number : r \in References} \cap 0..Padded)

GenerateInvoiceNumber(e) ==
    /\ At(e, "number")
    /\ \E last \in PaddedNumbers :
         /\ \A n \in PaddedNumbers : n <= last
         /\ run' = [run EXCEPT ![e].pc = "create", ![e].number = last + 1]
    /\ ReadOnly /\ UNCHANGED asked

Unique(e) ==
    /\ \A r \in References : invoice[r].number # run[e].number
    /\ invoice[Reference[run[e].who]] = NoInvoice

\* A mutant: the error of the database goes unnoticed.
CreateUnnoticed(e) ==
    /\ At(e, "create")
    /\ \/ /\ Unique(e)
          /\ invoice' = [invoice EXCEPT ![Reference[run[e].who]] =
               [debtor |-> run[e].who, number |-> run[e].number, open |-> TRUE,
                lines |-> Charge(run[e].add, NoLines),
                total |-> Charge(run[e].add, NoLines)]]
       \/ /\ ~Unique(e)
          /\ UNCHANGED invoice
    /\ ReturnFromCreate(e, FALSE)
    /\ RunFrame /\ UNCHANGED <<raced, asked>>

\* Number and reference are unique in the database.
CreateInvoice(e) ==
    /\ At(e, "create")
    /\ \/ /\ Unique(e)
          /\ invoice' = [invoice EXCEPT ![Reference[run[e].who]] =
               [debtor |-> run[e].who, number |-> run[e].number, open |-> TRUE,
                lines |-> Charge(run[e].add, NoLines),
                total |-> Charge(run[e].add, NoLines)]]
          /\ ReturnFromCreate(e, FALSE)
       \/ /\ ~Unique(e)
          /\ ReturnFromCreate(e, TRUE)
          /\ UNCHANGED invoice
    /\ RunFrame /\ UNCHANGED <<raced, asked>>

\* The job's progress and counts are written.
UpdateProgress(j) ==
    /\ At(j, "progress")
    /\ Goto(j, "loop")
    /\ ReadOnly /\ UNCHANGED asked

-----------------------------------------------------------------------------
(* Vacant apartments, and the end of the job *)

\* The second pass begins: apartments that are vacant and have no invoice.
FindBillableVacantApartments(j) ==
    /\ At(j, "loop") /\ run[j].todo = {}
    /\ run' = [run EXCEPT ![j].pc = "vacant",
                          ![j].todo = {a \in Apartments : Vacant(a) /\ ~Invoiced(a)}]
    /\ ReadOnly /\ UNCHANGED asked

GenerateVacantInvoice(j) ==
    /\ At(j, "vacant")
    /\ \E a \in run[j].todo :
        \/ /\ Debts[a] = {}
           /\ run' = [run EXCEPT ![j].todo = @ \ {a}]
        \/ /\ Debts[a] # {}
           /\ run' = [run EXCEPT ![j].pc = "number", ![j].who = a,
                                 ![j].todo = @ \ {a}, ![j].add = Debts[a]]
    /\ ReadOnly /\ UNCHANGED asked

Finish(j) ==
    /\ At(j, "vacant") /\ run[j].todo = {}
    /\ status' = [status EXCEPT ![j] = IF run[j].failed THEN "failed" ELSE "completed"]
    /\ Goto(j, "report")
    /\ UNCHANGED <<tableVars, queue, attempts, stalls, faults, historyVars>>

\* The last progress update; the queue takes the job as completed.
Report(j) ==
    /\ At(j, "report")
    /\ queue' = [queue EXCEPT ![j] = "completed"]
    /\ run' = [run EXCEPT ![j] = IdleRun]
    /\ UNCHANGED <<tableVars, status, attempts, stalls, faults, historyVars>>

JobStep(j) ==
    \/ Begin(j) \/ FindExisting(j) \/ UpdateProgress(j)
    \/ FindBillableVacantApartments(j) \/ GenerateVacantInvoice(j)
    \/ Finish(j) \/ Report(j)

CreateStep(e) ==
    \/ CheckContract(e) \/ CalculateInvoice(e) \/ GenerateInvoiceNumber(e)
    \/ CreateInvoice(e)

SupplementStep(e) == ReadInvoice(e) \/ Recalculate(e) \/ Append(e)

-----------------------------------------------------------------------------
(* Faults *)

Fault ==
    /\ faults < MaxFaults
    /\ faults' = faults + 1
    /\ UNCHANGED <<tableVars, historyVars>>

\* The row of the job is there but the queue does not take the job.
FailEnqueue(j) ==
    /\ Fault
    /\ status[j] = "none"
    /\ status' = [status EXCEPT ![j] = "pending"]
    /\ UNCHANGED <<queue, attempts, stalls, run>>

\* The database fails on one debtor: a failure to supplement counts as skipped.
\* If it fails on the search for vacant apartments, none is billed.
FailDebtor(e) ==
    /\ Fault
    /\ \/ /\ run[e].pc \in {"read", "calculate", "append"}
          /\ Return(e, "loop", FALSE)
       \/ /\ run[e].pc \in {"check", "price", "number", "create"}
          /\ ReturnFromCreate(e, TRUE)
       \/ /\ At(e, "loop")
          /\ \E c \in run[e].todo :
               run' = [run EXCEPT ![e].pc = "progress", ![e].failed = TRUE,
                                  ![e].todo = @ \ {c}]
       \/ /\ At(e, "loop") /\ run[e].todo = {}
          /\ Goto(e, "vacant")
    /\ UNCHANGED jobVars

\* A mutant: the failed attempt is the last one.
GiveUp(j) ==
    /\ attempts' = [attempts EXCEPT ![j] = @ + 1]
    /\ queue' = [queue EXCEPT ![j] = "active"]

\* A failed attempt is repeated while there are attempts left.
Retry(j) ==
    /\ attempts' = [attempts EXCEPT ![j] = @ + 1]
    /\ queue' = [queue EXCEPT ![j] =
                   IF attempts[j] + 1 < Attempts THEN "waiting" ELSE "failed"]

\* An update of the job's row or its progress fails, before the first contract,
\* between two or at the end, and perhaps the update to failed as well.
FailJob(j) ==
    /\ Fault
    /\ \/ queue[j] = "waiting"
       \/ run[j].pc \in {"progress", "report"}
       \/ At(j, "vacant") /\ run[j].todo = {}
    /\ \E s \in {"failed", status[j]} \cup {x \in {"processing"} : queue[j] = "waiting"} :
          status' = [status EXCEPT ![j] = s]
    /\ Retry(j)
    /\ run' = [run EXCEPT ![j] = IdleRun]
    /\ UNCHANGED stalls

\* The server dies with the jobs and requests it executes. The queue hands a
\* stalled job out again, but not for ever.
Crash ==
    /\ Fault
    /\ \E e \in Executors : ~At(e, "idle")
    /\ run' = [e \in Executors |-> IdleRun]
    /\ stalls' = [j \in Jobs |-> IF queue[j] = "active" THEN stalls[j] + 1 ELSE stalls[j]]
    /\ queue' = [j \in Jobs |->
                   IF queue[j] # "active" THEN queue[j]
                   ELSE IF stalls[j] < MaxStalls THEN "waiting" ELSE "failed"]
    /\ UNCHANGED <<status, attempts>>

-----------------------------------------------------------------------------
Next ==
    \/ \E r \in Readings : EnterReading(r)
    \/ \E d \in Debtors : Settle(d)
    \/ \E c \in Contracts : SignContract(c) \/ EndContract(c)
    \/ \E j \in Jobs : Enqueue(j) \/ JobStep(j) \/ FailEnqueue(j) \/ FailJob(j)
    \/ \E k \in Clerks, c \in Contracts : Request(k, c)
    \/ \E e \in Executors : CreateStep(e) \/ SupplementStep(e) \/ FailDebtor(e)
    \/ Crash

Spec == Init /\ [][Next]_vars

\* Workers take waiting jobs up and run them on.
Fairness == \A j \in Jobs : WF_vars(JobStep(j) \/ CreateStep(j) \/ SupplementStep(j))

FairSpec == Spec /\ Fairness

-----------------------------------------------------------------------------
(* Properties *)

\* However supplements interleave, an invoice's total is that of its lines.
TotalMatchesLines == \A r \in References : invoice[r].total = invoice[r].lines

\* A job shown as completed has left no contract it read without an invoice,
\* unless there was nothing to charge, through retries, stalled runs, numbers
\* taken by others and administrators creating the same invoices.
CompletedMeansBilled ==
    \A j \in Jobs : status[j] = "completed" => \A c \in asked[j] : Invoiced(c)

\* Nothing is charged twice on an invoice, run how often the job may, unless
\* two executors supplemented it at the same time.
ChargedOnceUnlessRaced ==
    \A d \in Debtors \ raced :
        Invoiced(d) => \A i \in Items : invoice[Reference[d]].lines[i] <= 1

\* A settled invoice stays as it was paid, unless it was settled while an
\* executor was supplementing it.
SettledStaysUnlessLate ==
    [][\A d \in Debtors \ late :
         Invoiced(d) /\ ~invoice[Reference[d]].open
             => invoice'[Reference[d]] = invoice[Reference[d]]]_vars

\* With at most one fault, a job the queue has taken ends, and its row says so.
JobEnds ==
    \A j \in Jobs :
        queue[j] = "waiting" ~> /\ queue[j] = "completed"
                                /\ status[j] \in {"completed", "failed"}

\* What REQ Bulk Generate Excludes Property Payments asks: the bulk generator
\* creates no line item for a milestone or an instalment.
OperationalOnly ==
    \A r \in References, i \in Instalments : invoice[r].lines[i] = 0

\* What findBillableVacantApartments claims to check: a vacant apartment is not
\* invoiced in a period for which it has an invoice.
VacantNotInvoicedAgain ==
    [][\A c \in Contracts :
         Invoiced(c) /\ ~Invoiced(Home[c]) => ~Invoiced(Home[c])']_vars
=============================================================================
