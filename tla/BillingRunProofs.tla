--------------------------- MODULE BillingRunProofs ---------------------------
(***************************************************************************)
(* Proofs, for every number of contracts, jobs, requests, stalls and       *)
(* faults, of the safety properties of BillingRun.                         *)
(***************************************************************************)
EXTENDS BillingRun, TLAPS

USE PartyAssumption, ItemAssumption, NumberAssumption

-----------------------------------------------------------------------------
(* Type correctness *)

SupplementPc == {"read", "calculate", "append"}
CreatePc == {"check", "price", "number", "create"}

\* An execution r is at the contracts, before the vacant apartments.
FirstPass(r) ==
    \/ r.pc \in SupplementPc \cup {"loop", "progress"}
    \/ r.pc \in CreatePc /\ r.who \notin Apartments

\* An execution r is at the vacant apartments.
SecondPass(r) ==
    \/ r.pc = "vacant"
    \/ r.pc \in CreatePc /\ r.who \in Apartments

RunOK(r) ==
    /\ r.pc = "idle" => r.todo = {}
    /\ r.pc \in CreatePc => r.who \in Debtors
    /\ r.pc \in SupplementPc => r.who \in Contracts
    /\ FirstPass(r) => r.todo \subseteq Contracts
    /\ SecondPass(r) => r.todo \subseteq Apartments

\* Only a job that its row knows of is in the queue, only an active one is
\* executed, and one with no attempts or stalls left is not handed out again.
JobOK(j) ==
    /\ status[j] = "none" => queue[j] = "none" /\ attempts[j] = 0 /\ stalls[j] = 0
    /\ queue[j] = "none" => attempts[j] = 0 /\ stalls[j] = 0
    /\ queue[j] \in {"waiting", "active"} =>
         attempts[j] < Attempts /\ stalls[j] <= MaxStalls
    /\ run[j].pc # "idle" => queue[j] = "active"

TypeInv ==
    /\ TypeOK
    /\ \A e \in Executors : RunOK(run[e])
    /\ \A j \in Jobs : JobOK(j)

\* The initial states have the right types.
LEMMA InitTypeInv == Init => TypeInv
<1> SUFFICES ASSUME Init PROVE TypeInv
  OBVIOUS
<1>1. IdleRun \in Run /\ RunOK(IdleRun)
  BY DEF IdleRun, Run, RunOK, FirstPass, SecondPass, SupplementPc, CreatePc
<1>2. NoInvoice \in Invoice
  BY DEF NoInvoice, NoLines, Invoice
<1>3. TypeOK
  BY <1>1, <1>2 DEF Init, TypeOK
<1>4. \A j \in Jobs : JobOK(j)
  BY DEF Init, JobOK, IdleRun, Executors
<1> QED BY <1>1, <1>3, <1>4 DEF Init, TypeInv

\* A step of an executor that only moves its execution to r, and perhaps
\* writes an invoice, keeps the types.
LEMMA RunTypeInv ==
  ASSUME TypeInv, NEW e \in Executors, e \in Clerks \/ run[e].pc # "idle",
         NEW r, r \in Run, RunOK(r), run' = [run EXCEPT ![e] = r],
         invoice' \in [References -> Invoice], raced' \subseteq Debtors,
         asked' \in [Jobs -> SUBSET Contracts], faults' \in 0..MaxFaults,
         UNCHANGED <<active, entered, jobVars, late, ended>>
  PROVE  TypeInv'
<1>1. TypeOK'
  BY DEF TypeInv, TypeOK, jobVars
<1>2. \A f \in Executors : RunOK(run'[f])
  BY DEF TypeInv, TypeOK
<1>3. \A j \in Jobs : JobOK(j)'
  BY DEF TypeInv, TypeOK, JobOK, jobVars, Executors
<1> QED BY <1>1, <1>2, <1>3 DEF TypeInv, RunOK, FirstPass, SecondPass

\* Where an executor may return to.
LEMMA ReturnOK ==
  ASSUME TypeInv, NEW e \in Executors, NEW failed \in BOOLEAN,
         NEW l \in {"loop", "progress", "vacant"},
         IF l = "vacant" THEN SecondPass(run[e]) ELSE FirstPass(run[e]),
         Return(e, l, failed)
  PROVE  \E r \in Run : RunOK(r) /\ run' = [run EXCEPT ![e] = r]
<1> DEFINE r == IF e \in Clerks THEN IdleRun
                ELSE [IdleRun EXCEPT !.pc = l, !.todo = run[e].todo,
                                     !.failed = run[e].failed \/ failed]
<1>0. run[e] \in Run /\ RunOK(run[e])
  BY DEF TypeInv, TypeOK
<1>1. r \in Run
  BY <1>0 DEF Run, IdleRun
<1>2. RunOK(r)
  BY <1>0 DEF RunOK, FirstPass, SecondPass, SupplementPc, CreatePc, IdleRun
<1> QED BY <1>1, <1>2 DEF Return

LEMMA ReturnFromCreateOK ==
  ASSUME TypeInv, NEW e \in Executors, NEW failed \in BOOLEAN,
         run[e].pc \in CreatePc, ReturnFromCreate(e, failed)
  PROVE  \E r \in Run : RunOK(r) /\ run' = [run EXCEPT ![e] = r]
BY ReturnOK DEF ReturnFromCreate, FirstPass, SecondPass

\* The lines charged, and the records written, have their types.
LEMMA ChargeType ==
  ASSUME NEW items \in SUBSET Items, NEW lines \in [Items -> Nat]
  PROVE  Charge(items, lines) \in [Items -> Nat]
BY DEF Charge

LEMMA NoLinesType == NoLines \in [Items -> Nat]
BY DEF NoLines

\* Supplementing an invoice keeps the types.
LEMMA SupplementTypeInv ==
  ASSUME TypeInv, NEW e \in Executors, SupplementStep(e)
  PROVE  TypeInv'
<1>0. /\ run \in [Executors -> Run] /\ run[e] \in Run /\ RunOK(run[e])
      /\ invoice \in [References -> Invoice] /\ raced \subseteq Debtors
      /\ asked \in [Jobs -> SUBSET Contracts] /\ faults \in 0..MaxFaults
  BY DEF TypeInv, TypeOK
<1>1. CASE ReadInvoice(e)
  <2>1. \E r \in Run : RunOK(r) /\ run' = [run EXCEPT ![e] = r]
    <3>1. CASE Return(e, "loop", FALSE)
      BY <1>1, <3>1, ReturnOK DEF ReadInvoice, At, FirstPass, SupplementPc
    <3> DEFINE have == {i \in Items : invoice[Reference[run[e].who]].lines[i] > 0}
               r == [run[e] EXCEPT !.pc = "calculate", !.have = have]
    <3>2. CASE run' = [run EXCEPT ![e] = r]
      <4>1. r \in Run
        BY <1>0 DEF Run
      <4>2. RunOK(r)
        BY <1>0, <1>1 DEF ReadInvoice, At, RunOK, FirstPass, SecondPass, SupplementPc, CreatePc, Run
      <4> QED BY <3>2, <4>1, <4>2
    <3>3. Return(e, "loop", FALSE) \/ run' = [run EXCEPT ![e] = r]
      BY <1>0, <1>1 DEF ReadInvoice
    <3> QED BY <3>1, <3>2, <3>3
  <2>2. raced' \subseteq Debtors
    BY <1>0, <1>1 DEF ReadInvoice, At, RunOK, SupplementPc, Debtors
  <2> QED BY <1>0, <1>1, <2>1, <2>2, RunTypeInv DEF ReadInvoice, At, RunFrame
<1>2. CASE Recalculate(e)
  <2> DEFINE missing == Missing(Due(e, TRUE), run[e].have)
             r == [run[e] EXCEPT !.pc = "append", !.add = missing]
  <2>1. missing \in SUBSET Items
    BY DEF Missing, Due
  <2>2. r \in Run
    BY <1>0, <2>1 DEF Run
  <2>3. RunOK(r)
    BY <1>0, <1>2 DEF Recalculate, At, RunOK, FirstPass, SecondPass, SupplementPc, CreatePc, Run
  <2>4. Return(e, "loop", FALSE) \/ run' = [run EXCEPT ![e] = r]
    BY <1>0, <1>2 DEF Recalculate
  <2>5. \E s \in Run : RunOK(s) /\ run' = [run EXCEPT ![e] = s]
    BY <1>2, <2>2, <2>3, <2>4, ReturnOK DEF Recalculate, At, FirstPass, SupplementPc
  <2> QED BY <1>0, <1>2, <2>5, RunTypeInv DEF Recalculate, At, ReadOnly, RunFrame
<1>3. CASE Append(e)
  <2>1. \E r \in Run : RunOK(r) /\ run' = [run EXCEPT ![e] = r]
    BY <1>3, ReturnOK DEF Append, At, FirstPass, SupplementPc
  <2>2. invoice' \in [References -> Invoice]
    <3> DEFINE row == invoice[Reference[run[e].who]]
               new == [row EXCEPT !.lines = Charge(run[e].add, @),
                                  !.total = Charge(run[e].add, @)]
    <3>1. Reference[run[e].who] \in References
      BY <1>0, <1>3 DEF Append, At, RunOK, SupplementPc, Debtors, References
    <3>2. row \in Invoice /\ run[e].add \in SUBSET Items
      BY <1>0, <3>1 DEF Run
    <3>3. /\ Charge(run[e].add, row.lines) \in [Items -> Nat]
          /\ Charge(run[e].add, row.total) \in [Items -> Nat]
      BY <3>2, ChargeType DEF Invoice
    <3>4. new \in Invoice
      BY <3>2, <3>3 DEF Invoice
    <3>5. invoice' = [invoice EXCEPT ![Reference[run[e].who]] = new]
      BY <1>0, <1>3, <3>1 DEF Append
    <3> HIDE DEF new
    <3> QED BY <1>0, <3>4, <3>5
  <2> QED BY <1>0, <1>3, <2>1, <2>2, RunTypeInv DEF Append, At, RunFrame
<1> QED BY <1>1, <1>2, <1>3 DEF SupplementStep

\* Creating an invoice keeps the types.
LEMMA CreateTypeInv ==
  ASSUME TypeInv, NEW e \in Executors, CreateStep(e)
  PROVE  TypeInv'
<1>0. /\ run \in [Executors -> Run] /\ run[e] \in Run /\ RunOK(run[e])
      /\ invoice \in [References -> Invoice] /\ raced \subseteq Debtors
      /\ asked \in [Jobs -> SUBSET Contracts] /\ faults \in 0..MaxFaults
  BY DEF TypeInv, TypeOK
<1>1. CASE CheckContract(e)
  <2> DEFINE r == [run[e] EXCEPT !.pc = "price"]
  <2>1. r \in Run /\ RunOK(r)
    BY <1>0, <1>1 DEF CheckContract, At, Run, RunOK, FirstPass, SecondPass, SupplementPc, CreatePc
  <2>2. ReturnFromCreate(e, TRUE) \/ run' = [run EXCEPT ![e] = r]
    BY <1>0, <1>1 DEF CheckContract, Goto
  <2>3. \E s \in Run : RunOK(s) /\ run' = [run EXCEPT ![e] = s]
    BY <1>1, <2>1, <2>2, ReturnFromCreateOK DEF CheckContract, At, CreatePc
  <2> QED BY <1>0, <1>1, <2>3, RunTypeInv DEF CheckContract, At, ReadOnly, RunFrame
<1>2. CASE CalculateInvoice(e)
  <2> DEFINE due == Due(e, e \in Clerks)
             r == [run[e] EXCEPT !.pc = "number", !.add = due]
  <2>1. due \in SUBSET Items
    BY DEF Due
  <2>2. r \in Run
    BY <1>0, <2>1 DEF Run
  <2>3. RunOK(r)
    BY <1>0, <1>2 DEF CalculateInvoice, At, Run, RunOK, FirstPass, SecondPass, SupplementPc, CreatePc
  <2>4. ReturnFromCreate(e, FALSE) \/ run' = [run EXCEPT ![e] = r]
    BY <1>0, <1>2 DEF CalculateInvoice
  <2>5. \E s \in Run : RunOK(s) /\ run' = [run EXCEPT ![e] = s]
    BY <1>2, <2>2, <2>3, <2>4, ReturnFromCreateOK DEF CalculateInvoice, At, CreatePc
  <2>6. asked' \in [Jobs -> SUBSET Contracts]
    BY <1>0, <1>2 DEF CalculateInvoice
  <2> QED BY <1>0, <1>2, <2>5, <2>6, RunTypeInv
          DEF CalculateInvoice, At, ReadOnly, RunFrame
<1>3. CASE GenerateInvoiceNumber(e)
  <2>1. PICK last \in PaddedNumbers :
          run' = [run EXCEPT ![e].pc = "create", ![e].number = last + 1]
    BY <1>3 DEF GenerateInvoiceNumber
  <2>2. last + 1 \in Nat
    BY DEF PaddedNumbers
  <2> DEFINE n == last + 1
             r == [run[e] EXCEPT !.pc = "create", !.number = n]
  <2>3. r \in Run
    <3>1. n \in Nat
      BY <2>2
    <3> HIDE DEF n
    <3> QED BY <1>0, <3>1 DEF Run
  <2>4. RunOK(r)
    BY <1>0, <1>3 DEF GenerateInvoiceNumber, At, Run, RunOK, FirstPass, SecondPass, SupplementPc, CreatePc
  <2>5. run' = [run EXCEPT ![e] = r]
    BY <1>0, <2>1
  <2> QED BY <1>0, <1>3, <2>3, <2>4, <2>5, RunTypeInv
          DEF GenerateInvoiceNumber, At, ReadOnly, RunFrame
<1>4. CASE CreateInvoice(e)
  <2>1. \E r \in Run : RunOK(r) /\ run' = [run EXCEPT ![e] = r]
    BY <1>4, ReturnFromCreateOK DEF CreateInvoice, At, CreatePc
  <2>2. [debtor |-> run[e].who, number |-> run[e].number, open |-> TRUE,
         lines |-> Charge(run[e].add, NoLines),
         total |-> Charge(run[e].add, NoLines)] \in Invoice
    BY <1>0, ChargeType, NoLinesType DEF Run, Invoice
  <2>3. invoice' \in [References -> Invoice]
    BY <1>0, <1>4, <2>2 DEF CreateInvoice
  <2> QED BY <1>0, <1>4, <2>1, <2>3, RunTypeInv DEF CreateInvoice, At, RunFrame
<1> QED BY <1>1, <1>2, <1>3, <1>4 DEF CreateStep

\* A job's steps keep the types.
LEMMA JobTypeInv ==
  ASSUME TypeInv, NEW j \in Jobs, JobStep(j)
  PROVE  TypeInv'
<1>0. /\ run \in [Executors -> Run] /\ run[j] \in Run /\ RunOK(run[j])
      /\ j \in Executors
      /\ invoice \in [References -> Invoice] /\ raced \subseteq Debtors
      /\ asked \in [Jobs -> SUBSET Contracts] /\ faults \in 0..MaxFaults
      /\ active \subseteq Contracts
  BY DEF TypeInv, TypeOK, Executors
<1>1. CASE Begin(j)
  <2> DEFINE r == [IdleRun EXCEPT !.pc = "loop", !.todo = active]
  <2>1. r \in Run /\ RunOK(r)
    BY <1>0 DEF IdleRun, Run, RunOK, FirstPass, SecondPass, SupplementPc, CreatePc, Debtors
  <2>2. run' = [run EXCEPT ![j] = r]
    BY <1>1 DEF Begin
  <2>3. TypeOK'
    BY <1>0, <1>1, <2>1, <2>2 DEF TypeInv, TypeOK, Begin, tableVars
  <2>4. \A i \in Jobs : JobOK(i)'
    BY <1>0, <1>1, <2>2 DEF TypeInv, TypeOK, JobOK, Begin, Executors
  <2>5. \A e \in Executors : RunOK(run'[e])
    BY <1>0, <2>1, <2>2 DEF TypeInv
  <2> QED BY <2>3, <2>4, <2>5 DEF TypeInv, RunOK, FirstPass, SecondPass
<1>2. CASE FindExisting(j)
  <2>1. PICK c \in run[j].todo :
          run' = [run EXCEPT ![j].pc = IF Invoiced(c) THEN "read" ELSE "check",
                             ![j].who = c, ![j].todo = @ \ {c}]
    BY <1>2 DEF FindExisting
  <2> DEFINE r == [run[j] EXCEPT !.pc = IF Invoiced(c) THEN "read" ELSE "check",
                                 !.who = c, !.todo = @ \ {c}]
  <2>2. c \in Contracts /\ run[j].todo \subseteq Contracts
    BY <1>0, <1>2 DEF FindExisting, At, RunOK, FirstPass, SecondPass
  <2>3. r \in Run
    BY <1>0, <2>2 DEF Run, Debtors
  <2>4. RunOK(r)
    BY <1>0, <2>2 DEF RunOK, FirstPass, SecondPass, SupplementPc, CreatePc, Debtors, Run
  <2>5. run' = [run EXCEPT ![j] = r]
    BY <1>0, <2>1
  <2> QED BY <1>0, <1>2, <2>3, <2>4, <2>5, RunTypeInv
          DEF FindExisting, At, ReadOnly, RunFrame
<1>3. CASE UpdateProgress(j)
  <2> DEFINE r == [run[j] EXCEPT !.pc = "loop"]
  <2>1. r \in Run /\ RunOK(r)
    BY <1>0, <1>3 DEF UpdateProgress, At, Run, RunOK, FirstPass, SecondPass, SupplementPc, CreatePc
  <2>2. run' = [run EXCEPT ![j] = r]
    BY <1>0, <1>3 DEF UpdateProgress, Goto
  <2> QED BY <1>0, <1>3, <2>1, <2>2, RunTypeInv
          DEF UpdateProgress, At, ReadOnly, RunFrame
<1>4. CASE FindBillableVacantApartments(j)
  <2> DEFINE vacant == {a \in Apartments : Vacant(a) /\ ~Invoiced(a)}
             r == [run[j] EXCEPT !.pc = "vacant", !.todo = vacant]
  <2>1. r \in Run
    BY <1>0 DEF Run, Debtors
  <2>2. RunOK(r)
    BY <1>0 DEF RunOK, FirstPass, SecondPass, SupplementPc, CreatePc, Run
  <2>3. run' = [run EXCEPT ![j] = r]
    BY <1>0, <1>4 DEF FindBillableVacantApartments
  <2> QED BY <1>0, <1>4, <2>1, <2>2, <2>3, RunTypeInv
          DEF FindBillableVacantApartments, At, ReadOnly, RunFrame
<1>5. CASE GenerateVacantInvoice(j)
  <2> DEFINE skip(a) == [run[j] EXCEPT !.todo = @ \ {a}]
             make(a) == [run[j] EXCEPT !.pc = "number", !.who = a, !.todo = @ \ {a},
                                       !.add = Debts[a]]
  <2>1. PICK a \in run[j].todo :
          \/ run' = [run EXCEPT ![j] = skip(a)]
          \/ run' = [run EXCEPT ![j] = make(a)]
    BY <1>0, <1>5 DEF GenerateVacantInvoice
  <2>2. run[j].pc = "vacant"
    BY <1>5 DEF GenerateVacantInvoice, At
  <2>3. run[j].todo \subseteq Apartments
    BY <1>0, <2>2 DEF RunOK, SecondPass
  <2>4. a \in Apartments /\ a \in Debtors
    BY <2>1, <2>3 DEF Debtors
  <2>5. skip(a) \in Run /\ make(a) \in Run
    BY <1>0, <2>4 DEF Run
  <2>6. RunOK(skip(a))
    BY <1>0, <2>2 DEF RunOK, FirstPass, SecondPass, SupplementPc, CreatePc, Run
  <2>7. RunOK(make(a))
    BY <1>0, <2>3, <2>4 DEF RunOK, FirstPass, SecondPass, SupplementPc, CreatePc, Run
  <2> HIDE DEF skip, make
  <2>8. \E r \in Run : RunOK(r) /\ run' = [run EXCEPT ![j] = r]
    BY <2>1, <2>5, <2>6, <2>7
  <2> QED BY <1>0, <1>5, <2>2, <2>8, RunTypeInv
          DEF GenerateVacantInvoice, ReadOnly, RunFrame
<1>6. CASE Finish(j)
  <2> DEFINE r == [run[j] EXCEPT !.pc = "report"]
  <2>1. r \in Run /\ RunOK(r)
    BY <1>0 DEF Run, RunOK, FirstPass, SecondPass, SupplementPc, CreatePc
  <2>2. run' = [run EXCEPT ![j] = r]
    BY <1>0, <1>6 DEF Finish, Goto
  <2>3. TypeOK'
    BY <1>0, <1>6, <2>1, <2>2 DEF TypeInv, TypeOK, Finish, tableVars, historyVars
  <2>4. \A i \in Jobs : JobOK(i)'
    BY <1>0, <1>6, <2>2 DEF TypeInv, TypeOK, JobOK, Finish, At, Executors
  <2>5. \A e \in Executors : RunOK(run'[e])
    BY <1>0, <2>1, <2>2 DEF TypeInv
  <2> QED BY <2>3, <2>4, <2>5 DEF TypeInv, RunOK, FirstPass, SecondPass
<1>7. CASE Report(j)
  <2>1. IdleRun \in Run /\ RunOK(IdleRun)
    BY DEF IdleRun, Run, RunOK, FirstPass, SecondPass, SupplementPc, CreatePc
  <2>2. TypeOK'
    BY <1>0, <1>7, <2>1 DEF TypeInv, TypeOK, Report, tableVars, historyVars
  <2>3. \A i \in Jobs : JobOK(i)'
    BY <1>0, <1>7 DEF TypeInv, TypeOK, JobOK, Report, At, Executors, IdleRun
  <2>4. \A e \in Executors : RunOK(run'[e])
    BY <1>0, <1>7, <2>1 DEF TypeInv, Report
  <2> QED BY <2>2, <2>3, <2>4 DEF TypeInv, RunOK, FirstPass, SecondPass
<1> QED BY <1>1, <1>2, <1>3, <1>4, <1>5, <1>6, <1>7 DEF JobStep

\* Where no execution moves, the types are kept if the tables and rows are.
LEMMA StillTypeInv ==
  ASSUME TypeInv, TypeOK', UNCHANGED run, \A j \in Jobs : JobOK(j)'
  PROVE  TypeInv'
BY DEF TypeInv, RunOK, FirstPass, SecondPass

\* The rest of the system, and the administrators, keep the types.
LEMMA EnvironmentTypeInv ==
  ASSUME TypeInv,
         \/ \E r \in Readings : EnterReading(r)
         \/ \E d \in Debtors : Settle(d)
         \/ \E c \in Contracts : SignContract(c) \/ EndContract(c)
         \/ \E j \in Jobs : Enqueue(j)
         \/ \E k \in Clerks, c \in Contracts : Request(k, c)
  PROVE  TypeInv'
<1>1. CASE \E r \in Readings : EnterReading(r)
  BY <1>1, StillTypeInv DEF EnterReading, TypeInv, TypeOK, JobOK, jobVars, historyVars
<1>2. ASSUME NEW d \in Debtors, Settle(d)
      PROVE  TypeInv'
  <2> DEFINE new == [invoice[Reference[d]] EXCEPT !.open = FALSE]
  <2>1. Reference[d] \in References /\ invoice \in [References -> Invoice]
    BY DEF References, TypeInv, TypeOK
  <2>2. new \in Invoice
    BY <2>1 DEF Invoice
  <2>3. invoice' = [invoice EXCEPT ![Reference[d]] = new]
    BY <1>2, <2>1 DEF Settle
  <2> HIDE DEF new
  <2>4. invoice' \in [References -> Invoice]
    BY <2>1, <2>2, <2>3
  <2>5. TypeOK'
    BY <1>2, <2>4 DEF Settle, TypeInv, TypeOK, jobVars
  <2> QED BY <1>2, <2>5, StillTypeInv DEF Settle, TypeInv, JobOK, jobVars
<1>3. CASE \E c \in Contracts : SignContract(c) \/ EndContract(c)
  BY <1>3, StillTypeInv
  DEF SignContract, EndContract, TypeInv, TypeOK, JobOK, jobVars, historyVars
<1>4. CASE \E j \in Jobs : Enqueue(j)
  BY <1>4, StillTypeInv DEF Enqueue, TypeInv, TypeOK, JobOK, tableVars, historyVars
<1>5. ASSUME NEW k \in Clerks, NEW c \in Contracts, Request(k, c)
      PROVE  TypeInv'
  <2> DEFINE r == [run[k] EXCEPT !.pc = "check", !.who = c]
  <2>0. /\ k \in Executors /\ run[k] \in Run /\ RunOK(run[k])
        /\ run \in [Executors -> Run]
    BY DEF Executors, TypeInv, TypeOK
  <2>1. r \in Run
    BY <2>0 DEF Run, Debtors
  <2>2. RunOK(r)
    BY <1>5, <2>0
    DEF Request, At, RunOK, FirstPass, SecondPass, SupplementPc, CreatePc, Debtors, Run
  <2>3. run' = [run EXCEPT ![k] = r]
    BY <1>5, <2>0 DEF Request
  <2> QED BY <1>5, <2>0, <2>1, <2>2, <2>3, RunTypeInv
          DEF Request, ReadOnly, RunFrame, TypeInv, TypeOK
<1> QED BY <1>1, <1>2, <1>3, <1>4, <1>5

\* Faults keep the types.
LEMMA FaultTypeInv ==
  ASSUME TypeInv,
         \/ \E j \in Jobs : FailEnqueue(j) \/ FailJob(j)
         \/ \E e \in Executors : FailDebtor(e)
         \/ Crash
  PROVE  TypeInv'
<1>0. /\ run \in [Executors -> Run]
      /\ \A e \in Executors : run[e] \in Run /\ RunOK(run[e])
      /\ Jobs \subseteq Executors
      /\ Fault => faults' \in 0..MaxFaults
      /\ IdleRun \in Run /\ RunOK(IdleRun)
  BY DEF TypeInv, TypeOK, Executors, Fault, IdleRun, Run, RunOK, FirstPass,
         SecondPass, SupplementPc, CreatePc
<1>1. CASE \E j \in Jobs : FailEnqueue(j)
  BY <1>0, <1>1, StillTypeInv
  DEF FailEnqueue, Fault, TypeInv, TypeOK, JobOK, tableVars, historyVars
<1>2. ASSUME NEW j \in Jobs, FailJob(j)
      PROVE  TypeInv'
  <2>1. queue[j] \in {"waiting", "active"}
    BY <1>2, <1>0 DEF FailJob, At, TypeInv, TypeOK, JobOK
  <2>2. attempts[j] < Attempts /\ attempts[j] \in 0..Attempts /\ status[j] # "none"
    BY <1>2, <2>1 DEF TypeInv, TypeOK, JobOK
  <2>3. TypeOK'
    BY <1>0, <1>2, <2>2 DEF FailJob, Retry, Fault, TypeInv, TypeOK, tableVars, historyVars
  <2>4. \A e \in Executors : RunOK(run'[e])
    BY <1>0, <1>2 DEF FailJob
  <2>5. \A i \in Jobs : JobOK(i)'
    BY <1>0, <1>2, <2>1, <2>2 DEF FailJob, Retry, TypeInv, TypeOK, JobOK, IdleRun
  <2> QED BY <2>3, <2>4, <2>5 DEF TypeInv, RunOK, FirstPass, SecondPass
<1>3. ASSUME NEW e \in Executors, FailDebtor(e)
      PROVE  TypeInv'
  <2>1. \E r \in Run : RunOK(r) /\ run' = [run EXCEPT ![e] = r]
    <3>1. CASE run[e].pc \in SupplementPc /\ Return(e, "loop", FALSE)
      BY <3>1, ReturnOK DEF FirstPass, SecondPass
    <3>2. CASE run[e].pc \in CreatePc /\ ReturnFromCreate(e, TRUE)
      BY <3>2, ReturnFromCreateOK
    <3>3. ASSUME At(e, "loop"), NEW c \in run[e].todo,
                 run' = [run EXCEPT ![e].pc = "progress", ![e].failed = TRUE,
                                    ![e].todo = @ \ {c}]
          PROVE  \E r \in Run : RunOK(r) /\ run' = [run EXCEPT ![e] = r]
      <4> DEFINE r == [run[e] EXCEPT !.pc = "progress", !.failed = TRUE,
                                     !.todo = @ \ {c}]
      <4>1. r \in Run
        BY <1>0 DEF Run
      <4>2. RunOK(r)
        BY <1>0, <3>3 DEF At, RunOK, FirstPass, SecondPass, SupplementPc, CreatePc, Run
      <4> QED BY <1>0, <3>3, <4>1, <4>2
    <3>4. CASE At(e, "loop") /\ run[e].todo = {} /\ Goto(e, "vacant")
      <4> DEFINE r == [run[e] EXCEPT !.pc = "vacant"]
      <4>1. r \in Run
        BY <1>0 DEF Run
      <4>2. RunOK(r)
        BY <1>0, <3>4 DEF At, RunOK, FirstPass, SecondPass, SupplementPc, CreatePc, Run
      <4> QED BY <1>0, <3>4, <4>1, <4>2 DEF Goto
    <3> QED BY <1>3, <3>1, <3>2, <3>3, <3>4 DEF FailDebtor, SupplementPc, CreatePc
  <2>2. run[e].pc # "idle"
    BY <1>3 DEF FailDebtor, At
  <2> QED BY <1>0, <1>3, <2>1, <2>2, RunTypeInv
          DEF FailDebtor, Fault, TypeInv, TypeOK, tableVars, historyVars
<1>4. CASE Crash
  <2>1. \A e \in Executors : run'[e] = IdleRun
    BY <1>4 DEF Crash
  <2>2. run' \in [Executors -> Run]
    BY <1>0, <1>4 DEF Crash
  <2>3. /\ stalls' \in [Jobs -> 0..(MaxStalls + 1)]
        /\ queue' \in [Jobs -> {"none", "waiting", "active", "completed", "failed"}]
    BY <1>4 DEF Crash, TypeInv, TypeOK, JobOK
  <2>4. TypeOK'
    BY <1>0, <1>4, <2>2, <2>3 DEF Crash, Fault, TypeInv, TypeOK, tableVars, historyVars
  <2>5. \A j \in Jobs : JobOK(j)'
    BY <1>0, <1>4, <2>1 DEF Crash, TypeInv, TypeOK, JobOK, IdleRun
  <2> QED BY <1>0, <2>1, <2>4, <2>5 DEF TypeInv, RunOK, FirstPass, SecondPass
<1> QED BY <1>1, <1>2, <1>3, <1>4

LEMMA NextTypeInv == TypeInv /\ [Next]_vars => TypeInv'
<1> SUFFICES ASSUME TypeInv, [Next]_vars PROVE TypeInv'
  OBVIOUS
<1>1. CASE UNCHANGED vars
  BY <1>1 DEF TypeInv, TypeOK, JobOK, RunOK, FirstPass, SecondPass, vars, tableVars,
              jobVars, historyVars
<1>2. CASE Next
  BY <1>2, EnvironmentTypeInv, JobTypeInv, CreateTypeInv, SupplementTypeInv, FaultTypeInv
  DEF Next
<1> QED BY <1>1, <1>2

\* TypeOK holds of every behaviour, for every number of jobs, attempts, stalls
\* and faults.
THEOREM TypeCorrect == Spec => []TypeOK
<1>1. TypeInv => TypeOK
  BY DEF TypeInv
<1> QED BY <1>1, InitTypeInv, NextTypeInv, PTL DEF Spec
-----------------------------------------------------------------------------
(* What a job reports *)

\* The contracts a job has to bill and has not billed.
Unbilled(j) == {c \in asked[j] : ~Invoiced(c)}

\* Those the job has still to come to.
Ahead(r) == r.todo \cup {d \in {r.who} : r.pc \in CreatePc}

\* Unless a failure was counted, what is not billed is ahead in the first pass,
\* and nothing is left after it.
ReportOK(j) ==
    /\ FirstPass(run[j]) /\ ~run[j].failed => Unbilled(j) \subseteq Ahead(run[j])
    /\ (SecondPass(run[j]) \/ run[j].pc = "report") /\ ~run[j].failed => Unbilled(j) = {}
    /\ status[j] = "completed" => Unbilled(j) = {}

ReportInv == \A j \in Jobs : ReportOK(j)

InvoicesStay == \A d \in Debtors : Invoiced(d) => Invoiced(d)'

\* The steps that write an invoice.
LEMMA InvoiceSteps ==
  ASSUME [Next]_vars
  PROVE  \/ UNCHANGED invoice
         \/ \E d \in Debtors : Settle(d)
         \/ \E e \in Executors : Append(e) \/ CreateInvoice(e)
<1> USE DEF tableVars, ReadOnly, RunFrame
<1>1. CASE \E j \in Jobs : JobStep(j)
  BY <1>1 DEF JobStep, Begin, FindExisting, UpdateProgress, Finish, Report,
              FindBillableVacantApartments, GenerateVacantInvoice
<1>2. CASE \E e \in Executors : CreateStep(e) \/ SupplementStep(e)
  BY <1>2 DEF CreateStep, SupplementStep, CheckContract, CalculateInvoice,
              GenerateInvoiceNumber, ReadInvoice, Recalculate
<1>3. CASE \/ \E j \in Jobs : FailEnqueue(j) \/ FailJob(j)
           \/ \E e \in Executors : FailDebtor(e)
           \/ Crash
  BY <1>3 DEF FailEnqueue, FailJob, FailDebtor, Crash, Fault
<1>4. CASE \/ \E r \in Readings : EnterReading(r)
           \/ \E c \in Contracts : SignContract(c) \/ EndContract(c)
           \/ \E j \in Jobs : Enqueue(j)
           \/ \E k \in Clerks, c \in Contracts : Request(k, c)
  BY <1>4 DEF EnterReading, SignContract, EndContract, Enqueue, Request
<1>5. CASE UNCHANGED vars
  BY <1>5 DEF vars
<1> QED BY <1>1, <1>2, <1>3, <1>4, <1>5 DEF Next

\* An invoice, once made out to a debtor, remains so.
LEMMA NextInvoicesStay ==
  ASSUME TypeInv, [Next]_vars
  PROVE  InvoicesStay
<1>0. /\ \A d \in Debtors : Reference[d] \in References
      /\ invoice \in [References -> Invoice]
  BY DEF References, TypeInv, TypeOK
<1>1. CASE UNCHANGED invoice
  BY <1>1 DEF InvoicesStay, Invoiced
<1>2. CASE \E d \in Debtors : Settle(d)
  BY <1>0, <1>2 DEF Settle, InvoicesStay, Invoiced
<1>3. CASE \E e \in Executors : Append(e)
  BY <1>0, <1>3 DEF Append, InvoicesStay, Invoiced
<1>4. CASE \E e \in Executors : CreateInvoice(e)
  <2>1. CASE UNCHANGED invoice
    BY <1>1, <2>1
  <2>2. ASSUME NEW f \in Executors, Unique(f), NEW d \in Debtors, Invoiced(d),
               NEW new, invoice' = [invoice EXCEPT ![Reference[run[f].who]] = new]
        PROVE  Invoiced(d)'
    <3>1. invoice[Reference[run[f].who]].debtor = NoOne
      BY <2>2 DEF Unique, NoInvoice
    <3>2. Reference[run[f].who] # Reference[d]
      BY <2>2, <3>1 DEF Invoiced
    <3> QED BY <1>0, <2>2, <3>2 DEF Invoiced
  <2>3. \A f \in Executors : CreateInvoice(f) =>
          \/ UNCHANGED invoice
          \/ Unique(f) /\ \E new : invoice' = [invoice EXCEPT ![Reference[run[f].who]] = new]
    BY DEF CreateInvoice
  <2> QED BY <1>4, <2>1, <2>2, <2>3 DEF InvoicesStay
<1> QED BY <1>1, <1>2, <1>3, <1>4, InvoiceSteps

\* A job that does not move keeps its report.
LEMMA StillReport ==
  ASSUME TypeInv, InvoicesStay, NEW j \in Jobs, ReportOK(j),
         run'[j] = run[j] \/ run'[j] = IdleRun,
         asked'[j] \subseteq asked[j], status'[j] \in {status[j], "pending", "processing", "failed"}
  PROVE  ReportOK(j)'
<1>1. Unbilled(j)' \subseteq Unbilled(j)
  BY DEF Unbilled, InvoicesStay, TypeInv, TypeOK, Debtors
<1> QED BY <1>1 DEF ReportOK, FirstPass, SecondPass, SupplementPc, CreatePc, Ahead, IdleRun

\* A job that returns from its debtor reports it, unless it counts a failure or
\* the debtor is billed or need not be.
LEMMA ReturnReport ==
  ASSUME TypeInv, InvoicesStay, NEW j \in Jobs, ReportOK(j),
         NEW failed \in BOOLEAN, NEW l \in {"loop", "progress", "vacant"},
         IF l = "vacant" THEN SecondPass(run[j]) ELSE FirstPass(run[j]),
         Return(j, l, failed), asked'[j] \subseteq asked[j], status' = status,
         NEW who, who = run[j].who,
         \/ failed \/ run[j].pc \notin CreatePc \/ Invoiced(who)'
         \/ who \notin asked'[j] \/ l = "vacant"
  PROVE  ReportOK(j)'
<1>0. j \in Executors /\ j \notin Clerks /\ run \in [Executors -> Run] /\ run[j] \in Run
  BY DEF Executors, TypeInv, TypeOK
<1>1. Unbilled(j)' \subseteq Unbilled(j)
  BY DEF Unbilled, InvoicesStay, TypeInv, TypeOK, Debtors
<1>2. /\ run'[j].pc = l /\ run'[j].todo = run[j].todo
      /\ run'[j].failed = (run[j].failed \/ failed)
  BY <1>0 DEF Return, IdleRun, Run
<1>3. l = "vacant" /\ ~run[j].failed => Unbilled(j)' = {}
  BY <1>1 DEF ReportOK
<1>4. l # "vacant" /\ ~run[j].failed /\ ~failed => Unbilled(j)' \subseteq run[j].todo
  <2> SUFFICES ASSUME l # "vacant", ~run[j].failed, ~failed, NEW c \in Unbilled(j)'
               PROVE  c \in run[j].todo
    OBVIOUS
  <2>1. c \in Ahead(run[j])
    BY <1>1 DEF ReportOK
  <2>2. ~(run[j].pc \in CreatePc /\ c = run[j].who)
    BY DEF Unbilled
  <2> QED BY <2>1, <2>2 DEF Ahead
<1>5. status'[j] = "completed" => Unbilled(j)' = {}
  BY <1>1 DEF ReportOK
<1>6. CASE l = "vacant"
  BY <1>2, <1>3, <1>5, <1>6 DEF ReportOK, FirstPass, SecondPass, SupplementPc, CreatePc
<1>7. CASE l # "vacant"
  BY <1>2, <1>4, <1>5, <1>7 DEF ReportOK, FirstPass, SecondPass, SupplementPc, CreatePc, Ahead
<1> QED BY <1>6, <1>7

LEMMA ReturnFromCreateReport ==
  ASSUME TypeInv, InvoicesStay, NEW j \in Jobs, ReportOK(j), run[j].pc \in CreatePc,
         NEW failed \in BOOLEAN, ReturnFromCreate(j, failed),
         asked'[j] \subseteq asked[j], status' = status,
         NEW who, who = run[j].who,
         failed \/ Invoiced(who)' \/ who \notin asked'[j] \/ who \in Apartments
  PROVE  ReportOK(j)'
<1>1. CASE run[j].who \in Apartments
  BY <1>1, ReturnReport DEF ReturnFromCreate, SecondPass
<1>2. CASE run[j].who \notin Apartments
  BY <1>2, ReturnReport DEF ReturnFromCreate, FirstPass
<1> QED BY <1>1, <1>2

\* A job that moves without returning keeps its report if no contract is passed
\* over.
LEMMA MoveReport ==
  ASSUME TypeInv, InvoicesStay, NEW j \in Jobs, ReportOK(j),
         NEW r \in Run, run' = [run EXCEPT ![j] = r], r.failed = run[j].failed,
         asked'[j] \subseteq asked[j], status' = status,
         FirstPass(r) => FirstPass(run[j]) /\ \A c \in Ahead(run[j]) : c \in Ahead(r) \/ Invoiced(c),
         SecondPass(r) => \/ SecondPass(run[j])
                          \/ FirstPass(run[j]) /\ Ahead(run[j]) = {},
         r.pc # "report"
  PROVE  ReportOK(j)'
<1>0. j \in Executors /\ run'[j] = r
  BY DEF Executors, TypeInv, TypeOK
<1>1. Unbilled(j)' \subseteq Unbilled(j)
  BY DEF Unbilled, InvoicesStay, TypeInv, TypeOK, Debtors
<1>2. FirstPass(r) /\ ~r.failed => Unbilled(j)' \subseteq Ahead(r)
  BY <1>1 DEF ReportOK, Unbilled
<1>3. SecondPass(r) /\ ~r.failed => Unbilled(j)' = {}
  BY <1>1 DEF ReportOK
<1>4. status'[j] = "completed" => Unbilled(j)' = {}
  BY <1>1 DEF ReportOK
<1> QED BY <1>0, <1>2, <1>3, <1>4 DEF ReportOK, FirstPass, SecondPass, Ahead

\* A job's own steps.
LEMMA JobReport ==
  ASSUME TypeInv, InvoicesStay, NEW j \in Jobs, ReportOK(j), JobStep(j)
  PROVE  ReportOK(j)'
<1>0. /\ run \in [Executors -> Run] /\ run[j] \in Run /\ RunOK(run[j])
      /\ j \in Executors
      /\ status \in [Jobs -> {"none", "pending", "processing", "completed", "failed"}]
      /\ asked \in [Jobs -> SUBSET Contracts] /\ active \subseteq Contracts
  BY DEF TypeInv, TypeOK, Executors
<1>1. CASE Begin(j)
  <2>1. /\ run'[j].pc = "loop" /\ run'[j].todo = active
        /\ asked'[j] = active /\ status'[j] = "processing"
    BY <1>0, <1>1 DEF Begin, IdleRun
  <2> QED BY <2>1 DEF ReportOK, SecondPass, CreatePc, Ahead, Unbilled
<1>2. CASE FindExisting(j)
  <2>1. PICK c \in run[j].todo :
          run' = [run EXCEPT ![j].pc = IF Invoiced(c) THEN "read" ELSE "check",
                             ![j].who = c, ![j].todo = @ \ {c}]
    BY <1>2 DEF FindExisting
  <2> DEFINE r == [run[j] EXCEPT !.pc = IF Invoiced(c) THEN "read" ELSE "check",
                                 !.who = c, !.todo = @ \ {c}]
  <2>2. run[j].pc = "loop" /\ c \in Contracts
    BY <1>0, <1>2 DEF FindExisting, At, RunOK, FirstPass
  <2>3. r \in Run /\ run' = [run EXCEPT ![j] = r] /\ r.failed = run[j].failed
    BY <1>0, <2>1, <2>2 DEF Run, Debtors
  <2>4. FirstPass(run[j]) /\ ~SecondPass(r) /\ r.pc # "report"
    BY <1>0, <2>2 DEF FirstPass, SecondPass, SupplementPc, CreatePc, Run
  <2>5. \A d \in Ahead(run[j]) : d \in Ahead(r) \/ Invoiced(d)
    BY <1>0, <2>2 DEF Ahead, CreatePc, Run
  <2> HIDE DEF r
  <2> QED BY <1>2, <2>3, <2>4, <2>5, MoveReport DEF FindExisting, ReadOnly, RunFrame, jobVars
<1>3. CASE UpdateProgress(j)
  <2> DEFINE r == [run[j] EXCEPT !.pc = "loop"]
  <2>1. r \in Run /\ run' = [run EXCEPT ![j] = r] /\ r.failed = run[j].failed
    BY <1>0, <1>3 DEF UpdateProgress, Goto, Run
  <2>2. /\ FirstPass(run[j]) /\ ~SecondPass(r) /\ r.pc # "report"
        /\ Ahead(run[j]) \subseteq Ahead(r)
    BY <1>0, <1>3 DEF UpdateProgress, At, FirstPass, SecondPass, CreatePc, Ahead, Run
  <2> HIDE DEF r
  <2> QED BY <1>3, <2>1, <2>2, MoveReport DEF UpdateProgress, ReadOnly, RunFrame, jobVars
<1>4. CASE FindBillableVacantApartments(j)
  <2> DEFINE vacant == {a \in Apartments : Vacant(a) /\ ~Invoiced(a)}
             r == [run[j] EXCEPT !.pc = "vacant", !.todo = vacant]
  <2>1. r \in Run /\ run' = [run EXCEPT ![j] = r] /\ r.failed = run[j].failed
    BY <1>0, <1>4 DEF FindBillableVacantApartments, Run, Debtors
  <2>2. FirstPass(run[j]) /\ Ahead(run[j]) = {} /\ ~FirstPass(r) /\ r.pc # "report"
    BY <1>0, <1>4 DEF FindBillableVacantApartments, At, FirstPass, SupplementPc,
                      CreatePc, Ahead, Run
  <2> HIDE DEF r
  <2> QED BY <1>4, <2>1, <2>2, MoveReport
          DEF FindBillableVacantApartments, ReadOnly, RunFrame, jobVars
<1>5. CASE GenerateVacantInvoice(j)
  <2> DEFINE skip(a) == [run[j] EXCEPT !.todo = @ \ {a}]
             make(a) == [run[j] EXCEPT !.pc = "number", !.who = a, !.todo = @ \ {a},
                                       !.add = Debts[a]]
  <2>1. PICK a \in run[j].todo :
          \/ run' = [run EXCEPT ![j] = skip(a)]
          \/ run' = [run EXCEPT ![j] = make(a)]
    BY <1>0, <1>5 DEF GenerateVacantInvoice
  <2>2. run[j].pc = "vacant" /\ SecondPass(run[j])
    BY <1>5 DEF GenerateVacantInvoice, At, SecondPass
  <2>3. a \in Apartments /\ a \in Debtors
    BY <1>0, <2>1, <2>2 DEF RunOK, Debtors
  <2>4. skip(a) \in Run /\ skip(a).failed = run[j].failed /\ skip(a).pc = "vacant"
    BY <1>0, <2>2 DEF Run
  <2>5. /\ make(a) \in Run /\ make(a).failed = run[j].failed
        /\ make(a).pc = "number" /\ make(a).who = a
    BY <1>0, <2>3 DEF Run
  <2> HIDE DEF skip, make
  <2>6. /\ ~FirstPass(skip(a)) /\ skip(a).pc # "report"
        /\ ~FirstPass(make(a)) /\ make(a).pc # "report"
    BY <2>3, <2>4, <2>5 DEF FirstPass, SupplementPc, CreatePc
  <2>7. asked'[j] \subseteq asked[j] /\ status' = status
    BY <1>5 DEF GenerateVacantInvoice, ReadOnly, RunFrame, jobVars
  <2> QED BY <2>1, <2>2, <2>4, <2>5, <2>6, <2>7, MoveReport
<1>6. CASE Finish(j)
  <2>1. run[j].pc = "vacant" /\ asked' = asked /\ invoice' = invoice
    BY <1>6 DEF Finish, At, historyVars, tableVars
  <2>2. Unbilled(j)' = Unbilled(j)
    BY <2>1 DEF Unbilled, Invoiced
  <2>3. run'[j].pc = "report" /\ run'[j].failed = run[j].failed
    BY <1>0, <1>6 DEF Finish, Goto, Run
  <2>4. status'[j] = IF run[j].failed THEN "failed" ELSE "completed"
    BY <1>0, <1>6 DEF Finish
  <2>5. ~run[j].failed => Unbilled(j) = {}
    BY <2>1 DEF ReportOK, SecondPass
  <2> QED BY <2>2, <2>3, <2>4, <2>5 DEF ReportOK, FirstPass, SupplementPc, CreatePc
<1>7. CASE Report(j)
  BY <1>0, <1>7, StillReport DEF Report, historyVars
<1> QED BY <1>1, <1>2, <1>3, <1>4, <1>5, <1>6, <1>7 DEF JobStep

\* A job that supplements an invoice.
LEMMA SupplementReport ==
  ASSUME TypeInv, InvoicesStay, NEW j \in Jobs, ReportOK(j), SupplementStep(j)
  PROVE  ReportOK(j)'
<1>0. /\ run \in [Executors -> Run] /\ run[j] \in Run /\ j \in Executors
      /\ run[j].pc \in SupplementPc /\ FirstPass(run[j])
      /\ asked' = asked /\ status' = status
  BY DEF TypeInv, TypeOK, Executors, SupplementStep, ReadInvoice, Recalculate, Append,
         At, SupplementPc, FirstPass, ReadOnly, RunFrame, jobVars
<1>1. CASE Return(j, "loop", FALSE)
  BY <1>0, <1>1, ReturnReport DEF SupplementPc, CreatePc
<1>2. ASSUME NEW r \in Run, run' = [run EXCEPT ![j] = r], r.failed = run[j].failed,
             r.todo = run[j].todo, r.pc \in SupplementPc
      PROVE  ReportOK(j)'
  <2>1. /\ FirstPass(r) /\ ~SecondPass(r) /\ r.pc # "report"
        /\ Ahead(run[j]) \subseteq Ahead(r)
    BY <1>0, <1>2 DEF FirstPass, SecondPass, SupplementPc, CreatePc, Ahead
  <2> QED BY <1>0, <1>2, <2>1, MoveReport
<1>3. CASE ReadInvoice(j)
  <2> DEFINE have == {i \in Items : invoice[Reference[run[j].who]].lines[i] > 0}
             r == [run[j] EXCEPT !.pc = "calculate", !.have = have]
  <2>1. Return(j, "loop", FALSE) \/ run' = [run EXCEPT ![j] = r]
    BY <1>0, <1>3 DEF ReadInvoice
  <2>2. /\ r \in Run /\ r.failed = run[j].failed /\ r.todo = run[j].todo
        /\ r.pc \in SupplementPc
    BY <1>0 DEF Run, SupplementPc
  <2> HIDE DEF r
  <2> QED BY <1>1, <1>2, <2>1, <2>2
<1>4. CASE Recalculate(j)
  <2> DEFINE missing == Missing(Due(j, TRUE), run[j].have)
             r == [run[j] EXCEPT !.pc = "append", !.add = missing]
  <2>1. Return(j, "loop", FALSE) \/ run' = [run EXCEPT ![j] = r]
    BY <1>0, <1>4 DEF Recalculate
  <2>2. missing \in SUBSET Items
    BY <1>0 DEF Missing, Due
  <2>3. /\ r \in Run /\ r.failed = run[j].failed /\ r.todo = run[j].todo
        /\ r.pc \in SupplementPc
    BY <1>0, <2>2 DEF Run, SupplementPc
  <2> HIDE DEF r
  <2> QED BY <1>1, <1>2, <2>1, <2>3
<1>5. CASE Append(j)
  BY <1>1, <1>5 DEF Append
<1> QED BY <1>3, <1>4, <1>5 DEF SupplementStep

\* A job that creates an invoice.
LEMMA CreateReport ==
  ASSUME TypeInv, InvoicesStay, NEW j \in Jobs, ReportOK(j), CreateStep(j)
  PROVE  ReportOK(j)'
<1>0. /\ run \in [Executors -> Run] /\ run[j] \in Run /\ j \in Executors
      /\ RunOK(run[j]) /\ asked \in [Jobs -> SUBSET Contracts]
  BY DEF TypeInv, TypeOK, Executors
<1>a. run[j].pc \in CreatePc /\ asked'[j] \subseteq asked[j] /\ status' = status
  <2>1. CASE CheckContract(j) \/ GenerateInvoiceNumber(j) \/ CreateInvoice(j)
    BY <2>1 DEF CheckContract, GenerateInvoiceNumber, CreateInvoice, At, CreatePc,
                ReadOnly, RunFrame, jobVars
  <2>2. CASE CalculateInvoice(j)
    BY <1>0, <2>2 DEF CalculateInvoice, At, CreatePc, ReadOnly, RunFrame, jobVars
  <2> QED BY <2>1, <2>2 DEF CreateStep
<1>1. CASE ReturnFromCreate(j, TRUE)
  BY <1>0, <1>a, <1>1, ReturnFromCreateReport
<1>2. ASSUME NEW r \in Run, run' = [run EXCEPT ![j] = r], r.failed = run[j].failed,
             r.todo = run[j].todo, r.who = run[j].who, r.pc \in CreatePc
      PROVE  ReportOK(j)'
  <2>1. /\ FirstPass(r) => FirstPass(run[j])
        /\ SecondPass(r) => SecondPass(run[j])
        /\ r.pc # "report" /\ Ahead(run[j]) \subseteq Ahead(r)
    BY <1>0, <1>a, <1>2 DEF FirstPass, SecondPass, SupplementPc, CreatePc, Ahead
  <2> QED BY <1>0, <1>a, <1>2, <2>1, MoveReport
<1>3. CASE CheckContract(j)
  <2> DEFINE r == [run[j] EXCEPT !.pc = "price"]
  <2>1. ReturnFromCreate(j, TRUE) \/ run' = [run EXCEPT ![j] = r]
    BY <1>0, <1>a, <1>3 DEF CheckContract, Goto
  <2>2. /\ r \in Run /\ r.failed = run[j].failed /\ r.todo = run[j].todo
        /\ r.who = run[j].who /\ r.pc \in CreatePc
    BY <1>0 DEF Run, CreatePc
  <2> HIDE DEF r
  <2> QED BY <1>1, <1>2, <2>1, <2>2
<1>4. CASE CalculateInvoice(j)
  <2> DEFINE due == Due(j, j \in Clerks)
             r == [run[j] EXCEPT !.pc = "number", !.add = due]
  <2>1. CASE due = {}
    <3>1. ReturnFromCreate(j, FALSE) /\ run[j].who \notin asked'[j]
      BY <1>0, <1>a, <1>4, <2>1 DEF CalculateInvoice
    <3> QED BY <1>0, <1>a, <3>1, ReturnFromCreateReport
  <2>2. CASE due # {}
    <3>1. run' = [run EXCEPT ![j] = r]
      BY <1>0, <1>a, <1>4, <2>2 DEF CalculateInvoice
    <3>2. due \in SUBSET Items
      BY <1>0, <1>a DEF Due
    <3>3. /\ r \in Run /\ r.failed = run[j].failed /\ r.todo = run[j].todo
          /\ r.who = run[j].who /\ r.pc \in CreatePc
      BY <1>0, <1>a, <3>2 DEF Run, CreatePc
    <3> HIDE DEF r
    <3> QED BY <1>2, <3>1, <3>3
  <2> QED BY <2>1, <2>2
<1>5. CASE GenerateInvoiceNumber(j)
  <2>1. PICK n \in Nat : run' = [run EXCEPT ![j].pc = "create", ![j].number = n]
    <3>1. \A last \in PaddedNumbers : last + 1 \in Nat
      BY DEF PaddedNumbers
    <3> QED BY <1>5, <3>1 DEF GenerateInvoiceNumber
  <2> DEFINE r == [run[j] EXCEPT !.pc = "create", !.number = n]
  <2>2. /\ r \in Run /\ r.failed = run[j].failed /\ r.todo = run[j].todo
        /\ r.who = run[j].who /\ r.pc \in CreatePc
    BY <1>0 DEF Run, CreatePc
  <2>3. run' = [run EXCEPT ![j] = r]
    BY <1>0, <1>a, <2>1
  <2> HIDE DEF r
  <2> QED BY <1>2, <2>2, <2>3
<1>6. CASE CreateInvoice(j)
  <2> DEFINE who == run[j].who
             new == [debtor |-> who, number |-> run[j].number, open |-> TRUE,
                     lines |-> Charge(run[j].add, NoLines),
                     total |-> Charge(run[j].add, NoLines)]
  <2>1. CASE ReturnFromCreate(j, FALSE) /\ invoice' = [invoice EXCEPT ![Reference[who]] = new]
    <3>1. Reference[who] \in References /\ invoice \in [References -> Invoice]
      BY <1>0, <1>a DEF References, RunOK, TypeInv, TypeOK
    <3>2. invoice'[Reference[who]].debtor = who
      BY <2>1, <3>1
    <3>3. \E d : d = run[j].who /\ Invoiced(d)'
      BY <3>2 DEF Invoiced
    <3> QED BY <1>0, <1>a, <2>1, <3>3, ReturnFromCreateReport
  <2> QED BY <1>1, <1>6, <2>1 DEF CreateInvoice
<1> QED BY <1>3, <1>4, <1>5, <1>6 DEF CreateStep

\* Faults are counted, or leave what is ahead.
LEMMA FaultReport ==
  ASSUME TypeInv, InvoicesStay, NEW j \in Jobs, ReportOK(j),
         FailDebtor(j) \/ FailEnqueue(j) \/ FailJob(j) \/ Crash
  PROVE  ReportOK(j)'
<1>0. /\ run \in [Executors -> Run] /\ run[j] \in Run /\ j \in Executors
      /\ status \in [Jobs -> {"none", "pending", "processing", "completed", "failed"}]
      /\ asked' = asked
  BY DEF TypeInv, TypeOK, Executors, FailDebtor, FailEnqueue, FailJob, Crash, Fault,
         historyVars
<1>1. CASE FailEnqueue(j) \/ FailJob(j) \/ Crash
  BY <1>0, <1>1, StillReport DEF FailEnqueue, FailJob, Crash
<1>2. CASE FailDebtor(j)
  <2>0. status' = status
    BY <1>2 DEF FailDebtor, jobVars
  <2>1. CASE run[j].pc \in SupplementPc /\ Return(j, "loop", FALSE)
    BY <1>0, <2>0, <2>1, ReturnReport DEF FirstPass, SupplementPc, CreatePc
  <2>2. CASE run[j].pc \in CreatePc /\ ReturnFromCreate(j, TRUE)
    BY <1>0, <2>0, <2>2, ReturnFromCreateReport
  <2>3. ASSUME At(j, "loop"), NEW c \in run[j].todo,
               run' = [run EXCEPT ![j].pc = "progress", ![j].failed = TRUE,
                                  ![j].todo = @ \ {c}]
        PROVE  ReportOK(j)'
    <3>1. run'[j].pc = "progress" /\ run'[j].failed = TRUE
      BY <1>0, <2>3 DEF Run
    <3>2. Unbilled(j)' \subseteq Unbilled(j)
      BY <1>0 DEF Unbilled, InvoicesStay, TypeInv, TypeOK, Debtors
    <3> QED BY <2>0, <3>1, <3>2 DEF ReportOK, SecondPass, CreatePc
  <2>4. CASE At(j, "loop") /\ run[j].todo = {} /\ Goto(j, "vacant")
    <3> DEFINE r == [run[j] EXCEPT !.pc = "vacant"]
    <3>1. r \in Run /\ run' = [run EXCEPT ![j] = r] /\ r.failed = run[j].failed
      BY <1>0, <2>4 DEF Goto, Run
    <3>2. FirstPass(run[j]) /\ Ahead(run[j]) = {} /\ ~FirstPass(r) /\ r.pc # "report"
      BY <1>0, <2>4 DEF At, FirstPass, SupplementPc, CreatePc, Ahead, Run
    <3> HIDE DEF r
    <3> QED BY <1>0, <2>0, <3>1, <3>2, MoveReport
  <2> QED BY <1>2, <2>1, <2>2, <2>3, <2>4 DEF FailDebtor, SupplementPc, CreatePc
<1> QED BY <1>1, <1>2

\* Every step keeps every job's report.
LEMMA NextReportInv == TypeInv /\ ReportInv /\ [Next]_vars => ReportInv'
<1> SUFFICES ASSUME TypeInv, ReportInv, [Next]_vars, NEW j \in Jobs PROVE ReportOK(j)'
  BY DEF ReportInv
<1>0. InvoicesStay /\ ReportOK(j) /\ Jobs \subseteq Executors /\ Clerks \subseteq Executors
  BY NextInvoicesStay DEF ReportInv, Executors
<1>1. CASE run'[j] = run[j] /\ asked'[j] \subseteq asked[j]
           /\ status'[j] \in {status[j], "pending"}
  BY <1>0, <1>1, StillReport
<1>2. ASSUME NEW e \in Executors \ {j},
             \/ CreateStep(e) \/ SupplementStep(e) \/ FailDebtor(e)
             \/ e \in Jobs /\ (JobStep(e) \/ Enqueue(e) \/ FailEnqueue(e) \/ FailJob(e))
      PROVE  /\ run'[j] = run[j] /\ asked'[j] \subseteq asked[j]
             /\ status'[j] = status[j]
  <2> USE DEF TypeInv, TypeOK
  <2>1. CASE CreateStep(e)
    BY <1>0, <1>2, <2>1 DEF CreateStep, CheckContract, CalculateInvoice,
       GenerateInvoiceNumber, CreateInvoice, Return, ReturnFromCreate, Goto,
       ReadOnly, RunFrame, jobVars
  <2>2. CASE SupplementStep(e)
    BY <1>0, <1>2, <2>2 DEF SupplementStep, ReadInvoice, Recalculate, Append, Return,
       ReadOnly, RunFrame, jobVars
  <2>3. CASE FailDebtor(e)
    BY <1>0, <1>2, <2>3 DEF FailDebtor, Return, ReturnFromCreate, Goto, Fault,
       historyVars, jobVars
  <2>4. CASE e \in Jobs /\ JobStep(e)
    BY <1>0, <1>2, <2>4 DEF JobStep, Begin, FindExisting, UpdateProgress,
       FindBillableVacantApartments, GenerateVacantInvoice, Finish, Report, Goto,
       ReadOnly, RunFrame, jobVars, historyVars
  <2>5. CASE e \in Jobs /\ (Enqueue(e) \/ FailEnqueue(e) \/ FailJob(e))
    BY <1>0, <1>2, <2>5 DEF Enqueue, FailEnqueue, FailJob, Fault, historyVars
  <2> QED BY <1>2, <2>1, <2>2, <2>3, <2>4, <2>5
<1>3. CASE JobStep(j) \/ CreateStep(j) \/ SupplementStep(j)
           \/ FailDebtor(j) \/ FailEnqueue(j) \/ FailJob(j) \/ Crash
  BY <1>0, <1>3, JobReport, CreateReport, SupplementReport, FaultReport
<1>4. CASE \/ \E r \in Readings : EnterReading(r)
           \/ \E d \in Debtors : Settle(d)
           \/ \E c \in Contracts : SignContract(c) \/ EndContract(c)
           \/ UNCHANGED vars
  BY <1>1, <1>4 DEF EnterReading, Settle, SignContract, EndContract, jobVars,
                    historyVars, vars
<1>5. ASSUME NEW k \in Clerks, NEW c \in Contracts, Request(k, c)
      PROVE  ReportOK(j)'
  BY <1>0, <1>1, <1>5 DEF Request, ReadOnly, RunFrame, jobVars, TypeInv, TypeOK
<1>6. CASE Enqueue(j)
  BY <1>0, <1>1, <1>6 DEF Enqueue, historyVars, TypeInv, TypeOK
<1> QED BY <1>0, <1>1, <1>2, <1>3, <1>4, <1>5, <1>6 DEF Next

\* A job shown as completed has billed every contract it read, for every number
\* of contracts, jobs, administrators, retries, stalls and faults.
THEOREM CompletedJobsBilled == Spec => []CompletedMeansBilled
<1>1. Init => ReportInv
  BY DEF Init, ReportInv, ReportOK, FirstPass, SecondPass, SupplementPc, CreatePc,
         IdleRun, Executors
<1>2. ReportInv => CompletedMeansBilled
  BY DEF ReportInv, ReportOK, Unbilled, CompletedMeansBilled
<1> QED BY <1>1, <1>2, InitTypeInv, NextTypeInv, NextReportInv, PTL DEF Spec
-----------------------------------------------------------------------------
(* What an invoice adds up to *)

LEMMA NextTotal == TypeInv /\ TotalMatchesLines /\ [Next]_vars => TotalMatchesLines'
<1> SUFFICES ASSUME TypeInv, TotalMatchesLines, [Next]_vars, NEW r \in References
             PROVE  invoice'[r].total = invoice'[r].lines
  BY DEF TotalMatchesLines
<1>0. /\ invoice \in [References -> Invoice] /\ invoice[r].total = invoice[r].lines
      /\ run \in [Executors -> Run]
  BY DEF TypeInv, TypeOK, TotalMatchesLines
<1>1. CASE UNCHANGED invoice
  BY <1>0, <1>1
<1>2. CASE \E d \in Debtors : Settle(d)
  BY <1>0, <1>2 DEF Settle, Invoice
<1>3. CASE \E e \in Executors : Append(e)
  BY <1>0, <1>3 DEF Append, Invoice
<1>4. CASE \E e \in Executors : CreateInvoice(e)
  <2>1. ASSUME NEW e \in Executors, CreateInvoice(e)
        PROVE  \/ UNCHANGED invoice
               \/ \E new : /\ new.total = new.lines
                           /\ invoice' = [invoice EXCEPT ![Reference[run[e].who]] = new]
    <3> DEFINE new == [debtor |-> run[e].who, number |-> run[e].number, open |-> TRUE,
                       lines |-> Charge(run[e].add, NoLines),
                       total |-> Charge(run[e].add, NoLines)]
    <3>1. new.total = new.lines
      OBVIOUS
    <3>2. UNCHANGED invoice \/ invoice' = [invoice EXCEPT ![Reference[run[e].who]] = new]
      BY <2>1 DEF CreateInvoice
    <3> HIDE DEF new
    <3> QED BY <3>1, <3>2
  <2> QED BY <1>0, <1>4, <2>1
<1> QED BY <1>1, <1>2, <1>3, <1>4, InvoiceSteps

\* However many executors supplement an invoice at once, its total is that of
\* its lines.
THEOREM TotalsCorrect == Spec => []TotalMatchesLines
<1>1. Init => TotalMatchesLines
  BY DEF Init, TotalMatchesLines, NoInvoice
<1> QED BY <1>1, InitTypeInv, NextTypeInv, NextTotal, PTL DEF Spec

-----------------------------------------------------------------------------
(* Supplementing *)

Changing == {"calculate", "append"}

\* A supplement is of an invoice of its debtor, which is open unless it was
\* settled meanwhile, and nothing it adds is among the lines it has read. Those
\* are all there are unless another executor supplements the invoice, too.
SupplementOK(e) ==
    /\ run[e].pc \in SupplementPc => Invoiced(run[e].who)
    /\ run[e].pc \in Changing /\ run[e].who \notin late =>
         invoice[Reference[run[e].who]].open
    /\ run[e].pc \in Changing /\ run[e].who \notin raced =>
         \A i \in Items \ run[e].have : invoice[Reference[run[e].who]].lines[i] = 0
    /\ run[e].pc = "append" => run[e].add \cap run[e].have = {}

Alone ==
    \A e, f \in Executors : \A d \in Debtors \ raced :
        Supplementing(e, d) /\ Supplementing(f, d) => e = f

SupplementInv ==
    /\ \A e \in Executors : SupplementOK(e)
    /\ Alone

\* An executor at a supplement has a debtor.
LEMMA WhoType ==
  ASSUME TypeInv, NEW e \in Executors, run[e].pc \in SupplementPc \cup CreatePc
  PROVE  run[e].who \in Debtors /\ Reference[run[e].who] \in References
BY DEF TypeInv, RunOK, Debtors, References

\* No invoice changes, and no execution enters or goes on with a supplement.
Calm ==
    /\ UNCHANGED invoice /\ raced \subseteq raced' /\ late \subseteq late'
    /\ \A e \in Executors : run'[e] = run[e] \/ run'[e].pc \notin SupplementPc

LEMMA CalmSupplement == SupplementInv /\ Calm => SupplementInv'
BY DEF SupplementInv, SupplementOK, Alone, Calm, Supplementing, SupplementPc, Changing, Invoiced

\* An executor that returns has nothing to do with a supplement.
LEMMA ReturnCalm ==
  ASSUME TypeInv, NEW e \in Executors, NEW failed,
         NEW l \in {"loop", "progress", "vacant"}, Return(e, l, failed)
  PROVE  \A f \in Executors :
           /\ f # e => run'[f] = run[f]
           /\ f = e => run'[f].pc \notin SupplementPc
BY DEF Return, TypeInv, TypeOK, IdleRun, SupplementPc

LEMMA ReturnFromCreateCalm ==
  ASSUME TypeInv, NEW e \in Executors, NEW failed, ReturnFromCreate(e, failed)
  PROVE  \A f \in Executors :
           /\ f # e => run'[f] = run[f]
           /\ f = e => run'[f].pc \notin SupplementPc
BY ReturnCalm DEF ReturnFromCreate

\* The steps that have nothing to do with supplements.
LEMMA OtherSupplement ==
  ASSUME TypeInv, SupplementInv,
         \/ \E r \in Readings : EnterReading(r)
         \/ \E c \in Contracts : SignContract(c) \/ EndContract(c)
         \/ \E j \in Jobs : Enqueue(j) \/ FailEnqueue(j) \/ FailJob(j)
         \/ \E k \in Clerks, c \in Contracts : Request(k, c)
         \/ \E e \in Executors : FailDebtor(e)
         \/ Crash
         \/ UNCHANGED vars
  PROVE  SupplementInv'
<1>0. run \in [Executors -> Run] /\ Jobs \subseteq Executors /\ Clerks \subseteq Executors
  BY DEF TypeInv, TypeOK, Executors
<1>1. CASE UNCHANGED <<invoice, raced, late, run>>
  BY <1>1, CalmSupplement DEF Calm
<1>2. CASE \/ \E r \in Readings : EnterReading(r)
           \/ \E c \in Contracts : SignContract(c) \/ EndContract(c)
           \/ \E j \in Jobs : Enqueue(j) \/ FailEnqueue(j)
           \/ UNCHANGED vars
  BY <1>1, <1>2 DEF EnterReading, SignContract, EndContract, Enqueue, FailEnqueue, Fault,
     tableVars, historyVars, vars
<1>3. CASE \E j \in Jobs : FailJob(j)
  BY <1>0, <1>3, CalmSupplement DEF Calm, FailJob, Fault, tableVars, historyVars, IdleRun,
     SupplementPc
<1>4. CASE \E k \in Clerks, c \in Contracts : Request(k, c)
  BY <1>0, <1>4, CalmSupplement DEF Calm, Request, ReadOnly, RunFrame, SupplementPc, Run
<1>5. ASSUME NEW e \in Executors, FailDebtor(e)
      PROVE  SupplementInv'
  <2>1. UNCHANGED <<invoice, raced, late>>
    BY <1>5 DEF FailDebtor, Fault, tableVars, historyVars
  <2>2. CASE \E c \in run[e].todo :
               run' = [run EXCEPT ![e].pc = "progress", ![e].failed = TRUE,
                                  ![e].todo = @ \ {c}]
    BY <1>0, <2>1, <2>2, CalmSupplement DEF Calm, SupplementPc, Run
  <2>3. CASE Goto(e, "vacant")
    BY <1>0, <2>1, <2>3, CalmSupplement DEF Calm, Goto, SupplementPc, Run
  <2>4. CASE Return(e, "loop", FALSE) \/ ReturnFromCreate(e, TRUE)
    <3>1. Calm
      BY <2>1, <2>4, ReturnCalm, ReturnFromCreateCalm DEF Calm
    <3> QED BY <3>1, CalmSupplement
  <2> QED BY <1>5, <2>2, <2>3, <2>4 DEF FailDebtor
<1>6. CASE Crash
  BY <1>0, <1>6, CalmSupplement DEF Calm, Crash, Fault, tableVars, historyVars, IdleRun,
     SupplementPc
<1> QED BY <1>2, <1>3, <1>4, <1>5, <1>6

\* A job finds an invoice to supplement; the rest of its own steps are calm.
LEMMA JobSupplement ==
  ASSUME TypeInv, SupplementInv, NEW j \in Jobs, JobStep(j)
  PROVE  SupplementInv'
<1>0. run \in [Executors -> Run] /\ j \in Executors /\ run[j] \in Run
  BY DEF TypeInv, TypeOK, Executors
<1>1. CASE FindExisting(j)
  <2>1. PICK c \in run[j].todo :
          run' = [run EXCEPT ![j].pc = IF Invoiced(c) THEN "read" ELSE "check",
                             ![j].who = c, ![j].todo = @ \ {c}]
    BY <1>1 DEF FindExisting
  <2>2. /\ UNCHANGED <<invoice, raced, late>>
        /\ \A e \in Executors : e # j => run'[e] = run[e]
        /\ run'[j].pc \in {"read", "check"}
        /\ run'[j].pc = "read" => run'[j].who = c /\ Invoiced(c)
    BY <1>0, <1>1, <2>1 DEF FindExisting, ReadOnly, RunFrame, Run
  <2>3. \A e \in Executors : SupplementOK(e)'
    BY <2>2 DEF SupplementInv, SupplementOK, Changing, SupplementPc, Invoiced
  <2>4. Alone'
    BY <2>2 DEF SupplementInv, Alone, Supplementing
  <2> QED BY <2>3, <2>4 DEF SupplementInv
<1>2. CASE Begin(j) \/ UpdateProgress(j) \/ FindBillableVacantApartments(j)
           \/ Finish(j) \/ Report(j)
  <2>1. UNCHANGED <<invoice, raced, late>>
    BY <1>2 DEF Begin, UpdateProgress, FindBillableVacantApartments, Finish, Report,
       ReadOnly, RunFrame, tableVars, historyVars
  <2>2. \A e \in Executors : e # j => run'[e] = run[e]
    BY <1>0, <1>2 DEF Begin, UpdateProgress, FindBillableVacantApartments, Finish, Report,
       Goto
  <2>3. CASE Begin(j) \/ Report(j)
    <3> DEFINE r == [IdleRun EXCEPT !.pc = "loop", !.todo = active]
    <3>1. run'[j] = r \/ run'[j] = IdleRun
      BY <1>0, <2>3 DEF Begin, Report
    <3>2. r.pc = "loop" /\ IdleRun.pc = "idle"
      BY DEF IdleRun
    <3> HIDE DEF r
    <3> QED BY <2>1, <2>2, <3>1, <3>2, CalmSupplement DEF Calm, SupplementPc
  <2>4. CASE UpdateProgress(j) \/ FindBillableVacantApartments(j) \/ Finish(j)
    <3>1. run'[j].pc \in {"loop", "vacant", "report"}
      BY <1>0, <2>4 DEF UpdateProgress, FindBillableVacantApartments, Finish, Goto, Run
    <3> QED BY <2>1, <2>2, <3>1, CalmSupplement DEF Calm, SupplementPc
  <2> QED BY <1>2, <2>3, <2>4
<1>3. CASE GenerateVacantInvoice(j)
  <2>1. UNCHANGED <<invoice, raced, late>> /\ run[j].pc = "vacant"
    BY <1>3 DEF GenerateVacantInvoice, ReadOnly, RunFrame, At
  <2>2. \A e \in Executors : e # j => run'[e] = run[e]
    BY <1>0, <1>3 DEF GenerateVacantInvoice
  <2>3. run'[j].pc \in {"vacant", "number"}
    BY <1>0, <1>3, <2>1 DEF GenerateVacantInvoice, Run
  <2>4. Calm
    BY <2>1, <2>2, <2>3 DEF Calm, SupplementPc
  <2> QED BY <2>4, CalmSupplement
<1> QED BY <1>1, <1>2, <1>3 DEF JobStep

\* A settled invoice is noted as late for whoever is supplementing it.
LEMMA SettleSupplement ==
  ASSUME TypeInv, SupplementInv, NEW d \in Debtors, Settle(d)
  PROVE  SupplementInv'
<1>0. /\ invoice \in [References -> Invoice] /\ Reference[d] \in References
      /\ run' = run /\ raced' = raced /\ late \subseteq late'
  BY DEF TypeInv, TypeOK, References, Settle
<1>1. /\ \A r \in References :
           /\ invoice'[r].debtor = invoice[r].debtor
           /\ invoice'[r].lines = invoice[r].lines
           /\ r # Reference[d] => invoice'[r].open = invoice[r].open
  BY <1>0 DEF Settle, Invoice
<1>2. ASSUME NEW e \in Executors PROVE SupplementOK(e)'
  <2>1. SupplementOK(e)
    BY DEF SupplementInv
  <2>2. ASSUME run[e].pc \in SupplementPc
        PROVE  Reference[run[e].who] \in References /\ Invoiced(run[e].who)
    BY <2>1, <2>2, WhoType DEF SupplementOK
  <2>3. ASSUME run[e].pc \in Changing, run[e].who \notin late'
        PROVE  invoice'[Reference[run[e].who]].open
    <3>1. run[e].who # d
      <4>1. SUFFICES ASSUME run[e].who = d PROVE FALSE
        OBVIOUS
      <4>2. Supplementing(e, d)
        BY <2>3, <4>1 DEF Supplementing, Changing
      <4>3. d \in late'
        BY <4>2 DEF Settle
      <4> QED BY <2>3, <4>1, <4>3
    <3>2. Reference[run[e].who] # Reference[d]
      BY <2>2, <2>3, <3>1 DEF Settle, Invoiced, Changing, SupplementPc
    <3> QED BY <1>0, <1>1, <2>1, <2>2, <2>3, <3>2 DEF SupplementOK, Changing, SupplementPc
  <2> QED BY <1>0, <1>1, <2>1, <2>2, <2>3 DEF SupplementOK, Invoiced, Changing, SupplementPc
<1>3. Alone'
  BY <1>0 DEF SupplementInv, Alone, Supplementing
<1> QED BY <1>2, <1>3 DEF SupplementInv

\* What is found missing is not on the invoice.
LEMMA MissingNotThere ==
  ASSUME NEW items, NEW have
  PROVE  Missing(items, have) \cap have = {}
BY DEF Missing

\* An executor that starts on an invoice another one is supplementing races it.
LEMMA ReadSupplement ==
  ASSUME TypeInv, SupplementInv, NEW e \in Executors, ReadInvoice(e)
  PROVE  SupplementInv'
<1>0. /\ run \in [Executors -> Run] /\ run[e] \in Run /\ run[e].pc = "read"
      /\ run[e].who \in Debtors /\ invoice' = invoice /\ late' = late
      /\ invoice \in [References -> Invoice] /\ Reference[run[e].who] \in References
  BY WhoType DEF TypeInv, TypeOK, ReadInvoice, At, RunFrame, SupplementPc
<1>1. CASE Return(e, "loop", FALSE) /\ UNCHANGED raced
  <2>1. Calm
    BY <1>0, <1>1, ReturnCalm DEF Calm
  <2> QED BY <2>1, CalmSupplement
<1>2. CASE /\ invoice[Reference[run[e].who]].open
           /\ run' = [run EXCEPT ![e].pc = "calculate",
                ![e].have = {i \in Items : invoice[Reference[run[e].who]].lines[i] > 0}]
           /\ raced' = raced \cup
                {d \in {run[e].who} : \E f \in Executors : Supplementing(f, d)}
  <2>1. /\ \A f \in Executors : f # e => run'[f] = run[f]
        /\ run'[e].pc = "calculate" /\ run'[e].who = run[e].who
    BY <1>0, <1>2 DEF Run
  <2>2. run'[e].have = {i \in Items : invoice[Reference[run[e].who]].lines[i] > 0}
    BY <1>0, <1>2 DEF Run
  <2>3. \A i \in Items \ run'[e].have : invoice[Reference[run[e].who]].lines[i] = 0
    <3>1. invoice[Reference[run[e].who]].lines \in [Items -> Nat]
      BY <1>0 DEF Invoice
    <3> QED BY <2>2, <3>1
  <2>4. Invoiced(run[e].who)
    BY <1>0 DEF SupplementInv, SupplementOK, SupplementPc
  <2>5. SupplementOK(e)'
    BY <1>0, <1>2, <2>1, <2>3, <2>4 DEF SupplementOK, Invoiced, Changing
  <2>6. \A f \in Executors : f # e => SupplementOK(f)'
    BY <1>0, <1>2, <2>1 DEF SupplementInv, SupplementOK, Invoiced
  <2>7. Alone'
    <3> SUFFICES ASSUME NEW f \in Executors, NEW g \in Executors, NEW d \in Debtors,
                        d \notin raced', Supplementing(f, d)', Supplementing(g, d)'
                 PROVE  f = g
      BY DEF Alone
    <3>1. \A h \in Executors : Supplementing(h, d)' /\ h # e => Supplementing(h, d)
      BY <2>1 DEF Supplementing
    <3>2. Supplementing(e, d)' => \A h \in Executors : ~Supplementing(h, d)
      BY <1>2, <2>1 DEF Supplementing
    <3>3. d \notin raced
      BY <1>2
    <3> QED BY <3>1, <3>2, <3>3 DEF SupplementInv, Alone
  <2> QED BY <2>5, <2>6, <2>7 DEF SupplementInv
<1> QED BY <1>1, <1>2 DEF ReadInvoice

\* The supplement is of what is not among the lines read.
LEMMA RecalculateSupplement ==
  ASSUME TypeInv, SupplementInv, NEW e \in Executors, Recalculate(e)
  PROVE  SupplementInv'
<1>0. /\ run \in [Executors -> Run] /\ run[e] \in Run /\ run[e].pc = "calculate"
      /\ invoice' = invoice /\ late' = late /\ raced' = raced
  BY DEF TypeInv, TypeOK, Recalculate, At, RunFrame, ReadOnly
<1>1. CASE Return(e, "loop", FALSE)
  <2>1. Calm
    BY <1>0, <1>1, ReturnCalm DEF Calm
  <2> QED BY <2>1, CalmSupplement
<1>2. CASE run' = [run EXCEPT ![e].pc = "append",
                     ![e].add = Missing(Due(e, TRUE), run[e].have)]
  <2>1. /\ \A f \in Executors : f # e => run'[f] = run[f]
        /\ run'[e].pc = "append" /\ run'[e].who = run[e].who
        /\ run'[e].have = run[e].have
        /\ run'[e].add = Missing(Due(e, TRUE), run[e].have)
    BY <1>0, <1>2 DEF Run
  <2>2. run'[e].add \cap run'[e].have = {}
    BY <2>1, MissingNotThere
  <2>3. SupplementOK(e)'
    <3>1. /\ Invoiced(run[e].who)
          /\ run[e].who \notin late => invoice[Reference[run[e].who]].open
          /\ run[e].who \notin raced =>
               \A i \in Items \ run[e].have : invoice[Reference[run[e].who]].lines[i] = 0
      BY <1>0 DEF SupplementInv, SupplementOK, SupplementPc, Changing
    <3> QED BY <1>0, <2>1, <2>2, <3>1 DEF SupplementOK, Invoiced
  <2>4. \A f \in Executors : f # e => SupplementOK(f)'
    BY <1>0, <2>1 DEF SupplementInv, SupplementOK, Invoiced
  <2>5. Alone'
    BY <1>0, <2>1 DEF SupplementInv, Alone, Supplementing
  <2> QED BY <2>3, <2>4, <2>5 DEF SupplementInv
<1> QED BY <1>1, <1>2 DEF Recalculate

\* An executor that appends lines goes on; another one of the same invoice has
\* raced it.
LEMMA AppendSupplement ==
  ASSUME TypeInv, SupplementInv, NEW e \in Executors, Append(e)
  PROVE  SupplementInv'
<1> DEFINE at == Reference[run[e].who]
<1>0. /\ run[e].pc = "append" /\ run[e].who \in Debtors /\ at \in References
      /\ invoice \in [References -> Invoice] /\ late' = late /\ raced' = raced
      /\ Invoiced(run[e].who)
  BY WhoType DEF TypeInv, TypeOK, Append, At, RunFrame, SupplementPc, SupplementInv,
     SupplementOK
<1>1. \A f \in Executors : /\ f # e => run'[f] = run[f]
                           /\ f = e => run'[f].pc \notin SupplementPc
  BY ReturnCalm DEF Append
<1>2. \A r \in References :
        /\ invoice'[r].debtor = invoice[r].debtor
        /\ invoice'[r].open = invoice[r].open
        /\ r # at => invoice'[r].lines = invoice[r].lines
  BY <1>0 DEF Append, Invoice
<1>3. ASSUME NEW f \in Executors PROVE SupplementOK(f)'
  <2>1. CASE f = e
    BY <1>1, <2>1 DEF SupplementOK, SupplementPc, Changing
  <2>2. CASE f # e
    <3>1. SupplementOK(f) /\ run'[f] = run[f]
      BY <1>1, <2>2 DEF SupplementInv
    <3>2. ASSUME run[f].pc \in SupplementPc
          PROVE  Reference[run[f].who] \in References /\ run[f].who \in Debtors
                 /\ Invoiced(run[f].who)
      BY <3>1, <3>2, WhoType DEF SupplementOK
    <3>3. ASSUME run[f].pc \in Changing, run[f].who \notin raced
          PROVE  Reference[run[f].who] # at
      <4>1. run[f].who # run[e].who
        <5> SUFFICES ASSUME run[f].who = run[e].who PROVE FALSE
          OBVIOUS
        <5>1. Supplementing(f, run[e].who) /\ Supplementing(e, run[e].who)
          BY <1>0, <3>3 DEF Supplementing, Changing
        <5> QED BY <1>0, <2>2, <3>3, <5>1 DEF SupplementInv, Alone
      <4> QED BY <1>0, <3>2, <3>3, <4>1 DEF Invoiced, Changing, SupplementPc
    <3> QED BY <1>0, <1>2, <3>1, <3>2, <3>3 DEF SupplementOK, Invoiced, SupplementPc, Changing
  <2> QED BY <2>1, <2>2
<1>4. Alone'
  BY <1>0, <1>1 DEF SupplementInv, Alone, Supplementing, SupplementPc
<1> QED BY <1>3, <1>4 DEF SupplementInv

\* A new invoice is of a debtor whose invoice nobody supplements.
LEMMA CreateSupplement ==
  ASSUME TypeInv, SupplementInv, NEW e \in Executors, CreateInvoice(e)
  PROVE  SupplementInv'
<1> DEFINE at == Reference[run[e].who]
<1>0. /\ run[e].pc = "create" /\ run[e].who \in Debtors /\ at \in References
      /\ invoice \in [References -> Invoice] /\ late' = late /\ raced' = raced
  BY WhoType DEF TypeInv, TypeOK, CreateInvoice, At, RunFrame, CreatePc
<1>1. \A f \in Executors : /\ f # e => run'[f] = run[f]
                           /\ f = e => run'[f].pc \notin SupplementPc
  BY ReturnFromCreateCalm DEF CreateInvoice
<1>2. CASE UNCHANGED invoice
  BY <1>0, <1>1, <1>2, CalmSupplement DEF Calm
<1>3. ASSUME Unique(e), NEW new, invoice' = [invoice EXCEPT ![at] = new]
      PROVE  SupplementInv'
  <2>1. ASSUME NEW f \in Executors, f # e PROVE SupplementOK(f)'
    <3>1. SupplementOK(f) /\ run'[f] = run[f]
      BY <1>1, <2>1 DEF SupplementInv
    <3>2. ASSUME run[f].pc \in SupplementPc
          PROVE  Reference[run[f].who] # at
      <4>1. invoice[Reference[run[f].who]].debtor = run[f].who /\ run[f].who \in Debtors
        BY <3>1, <3>2, WhoType DEF SupplementOK, Invoiced
      <4>2. invoice[at].debtor = NoOne
        BY <1>3 DEF Unique, NoInvoice
      <4> QED BY <4>1, <4>2
    <3>3. run[f].pc \in SupplementPc =>
            invoice'[Reference[run[f].who]] = invoice[Reference[run[f].who]]
      BY <1>0, <1>3, <3>2, WhoType
    <3> QED BY <1>0, <3>1, <3>3 DEF SupplementOK, Invoiced, SupplementPc, Changing
  <2>2. SupplementOK(e)'
    BY <1>1 DEF SupplementOK, SupplementPc, Changing
  <2>3. Alone'
    BY <1>0, <1>1 DEF SupplementInv, Alone, Supplementing, SupplementPc
  <2> QED BY <2>1, <2>2, <2>3 DEF SupplementInv
<1>4. \/ UNCHANGED invoice
      \/ Unique(e) /\ \E new : invoice' = [invoice EXCEPT ![at] = new]
  BY DEF CreateInvoice
<1> QED BY <1>2, <1>3, <1>4

\* Every step keeps what is known of the supplements.
LEMMA NextSupplementInv == TypeInv /\ SupplementInv /\ [Next]_vars => SupplementInv'
<1> SUFFICES ASSUME TypeInv, SupplementInv, [Next]_vars PROVE SupplementInv'
  OBVIOUS
<1>1. CASE \/ \E r \in Readings : EnterReading(r)
           \/ \E c \in Contracts : SignContract(c) \/ EndContract(c)
           \/ \E j \in Jobs : Enqueue(j) \/ FailEnqueue(j) \/ FailJob(j)
           \/ \E k \in Clerks, c \in Contracts : Request(k, c)
           \/ \E e \in Executors : FailDebtor(e)
           \/ Crash
           \/ UNCHANGED vars
  BY <1>1, OtherSupplement
<1>2. CASE \E j \in Jobs : JobStep(j)
  BY <1>2, JobSupplement
<1>3. CASE \E d \in Debtors : Settle(d)
  BY <1>3, SettleSupplement
<1>4. CASE \E e \in Executors : SupplementStep(e)
  BY <1>4, ReadSupplement, RecalculateSupplement, AppendSupplement DEF SupplementStep
<1>5. ASSUME NEW e \in Executors, CreateStep(e)
      PROVE  SupplementInv'
  <2>1. CASE CreateInvoice(e)
    BY <2>1, CreateSupplement
  <2>2. ASSUME CheckContract(e) \/ CalculateInvoice(e) \/ GenerateInvoiceNumber(e)
        PROVE  SupplementInv'
    <3>0. /\ run \in [Executors -> Run] /\ run[e] \in Run
          /\ UNCHANGED <<invoice, raced, late>>
      BY <2>2 DEF CheckContract, CalculateInvoice, GenerateInvoiceNumber, ReadOnly,
         RunFrame, TypeInv, TypeOK
    <3>1. CASE ReturnFromCreate(e, TRUE) \/ ReturnFromCreate(e, FALSE)
      <4>1. Calm
        BY <3>0, <3>1, ReturnFromCreateCalm DEF Calm
      <4> QED BY <4>1, CalmSupplement
    <3>2. CASE \E r : r.pc \notin SupplementPc /\ run' = [run EXCEPT ![e] = r]
      BY <3>0, <3>2, CalmSupplement DEF Calm
    <3>3. CASE CheckContract(e)
      <4> DEFINE r == [run[e] EXCEPT !.pc = "price"]
      <4>1. ReturnFromCreate(e, TRUE) \/ run' = [run EXCEPT ![e] = r]
        BY <3>0, <3>3 DEF CheckContract, Goto
      <4>2. r.pc \notin SupplementPc
        BY <3>0 DEF Run, SupplementPc
      <4> QED BY <3>1, <3>2, <4>1, <4>2
    <3>4. CASE CalculateInvoice(e)
      <4> DEFINE r == [run[e] EXCEPT !.pc = "number", !.add = Due(e, e \in Clerks)]
      <4>1. ReturnFromCreate(e, FALSE) \/ run' = [run EXCEPT ![e] = r]
        BY <3>0, <3>4 DEF CalculateInvoice
      <4>2. r.pc \notin SupplementPc
        BY <3>0 DEF Run, SupplementPc
      <4> QED BY <3>1, <3>2, <4>1, <4>2
    <3>5. CASE GenerateInvoiceNumber(e)
      <4>1. PICK n : run' = [run EXCEPT ![e].pc = "create", ![e].number = n]
        BY <3>5 DEF GenerateInvoiceNumber
      <4> DEFINE r == [run[e] EXCEPT !.pc = "create", !.number = n]
      <4>2. run' = [run EXCEPT ![e] = r]
        BY <3>0, <4>1
      <4>3. r.pc \notin SupplementPc
        BY <3>0 DEF Run, SupplementPc
      <4> QED BY <3>2, <4>2, <4>3
    <3> QED BY <2>2, <3>3, <3>4, <3>5
  <2> QED BY <1>5, <2>1, <2>2 DEF CreateStep
<1>6. CASE \E e \in Executors : CreateStep(e)
  BY <1>5, <1>6
<1>7. CASE Next
  BY <1>1, <1>2, <1>3, <1>4, <1>6, <1>7 DEF Next
<1> QED BY <1>1, <1>7

LEMMA InitSupplementInv == Init => SupplementInv
BY DEF Init, SupplementInv, SupplementOK, Alone, Supplementing, SupplementPc, Changing,
       IdleRun

\* A step leaves a settled invoice alone, unless it was settled under a supplement.
LEMMA NextSettledStays ==
  ASSUME TypeInv, SupplementInv, [Next]_vars, NEW d \in Debtors, d \notin late,
         Invoiced(d), ~invoice[Reference[d]].open
  PROVE  invoice'[Reference[d]] = invoice[Reference[d]]
<1>0. /\ invoice \in [References -> Invoice] /\ Reference[d] \in References
      /\ invoice[Reference[d]].debtor = d
  BY DEF TypeInv, TypeOK, References, Invoiced
<1>1. CASE UNCHANGED invoice
  BY <1>1
<1>2. ASSUME NEW c \in Debtors, Settle(c)
      PROVE  invoice'[Reference[d]] = invoice[Reference[d]]
  <2>1. Reference[c] # Reference[d]
    BY <1>2 DEF Settle
  <2> QED BY <1>0, <1>2, <2>1 DEF Settle
<1>3. ASSUME NEW e \in Executors, Append(e)
      PROVE  invoice'[Reference[d]] = invoice[Reference[d]]
  <2>1. run[e].pc = "append" /\ SupplementOK(e)
    BY <1>3 DEF Append, At, SupplementInv
  <2>2. run[e].who # d
    BY <2>1 DEF SupplementOK, Changing
  <2>3. Reference[run[e].who] # Reference[d]
    BY <1>0, <2>1, <2>2 DEF SupplementOK, SupplementPc, Invoiced
  <2> QED BY <1>0, <1>3, <2>3 DEF Append
<1>4. ASSUME NEW e \in Executors, CreateInvoice(e)
      PROVE  invoice'[Reference[d]] = invoice[Reference[d]]
  <2>1. \/ UNCHANGED invoice
        \/ Unique(e) /\ \E new : invoice' = [invoice EXCEPT ![Reference[run[e].who]] = new]
    BY <1>4 DEF CreateInvoice
  <2>2. Unique(e) => Reference[run[e].who] # Reference[d]
    BY <1>0 DEF Unique, NoInvoice
  <2> QED BY <1>0, <2>1, <2>2
<1> QED BY <1>1, <1>2, <1>3, <1>4, InvoiceSteps

\* Lines charged once where none of them was there are there once.
LEMMA ChargedOnce ==
  ASSUME NEW items, NEW lines, NEW i \in Items,
         lines[i] \in Nat, lines[i] <= 1, i \in items => lines[i] = 0
  PROVE  Charge(items, lines)[i] <= 1
BY DEF Charge

\* A step charges nothing twice unless two executors raced.
LEMMA NextChargedOnce ==
  ASSUME TypeInv, TypeInv', SupplementInv, ChargedOnceUnlessRaced, [Next]_vars
  PROVE  ChargedOnceUnlessRaced'
<1>0. /\ invoice \in [References -> Invoice] /\ invoice' \in [References -> Invoice]
      /\ raced \subseteq raced'
  <2>1. raced \subseteq raced'
    BY DEF Next, EnterReading, Settle, SignContract, EndContract, Enqueue, JobStep,
       FailEnqueue, FailJob, Request, CreateStep, SupplementStep, FailDebtor, Crash, Begin,
       FindExisting, UpdateProgress, FindBillableVacantApartments, GenerateVacantInvoice,
       Finish, Report, CheckContract, CalculateInvoice, GenerateInvoiceNumber,
       CreateInvoice, ReadInvoice, Recalculate, Append, ReadOnly, RunFrame, Fault,
       historyVars, vars
  <2> QED BY <2>1 DEF TypeInv, TypeOK
<1>1. SUFFICES ASSUME NEW d \in Debtors, d \notin raced, Invoiced(d)', NEW i \in Items
               PROVE  invoice'[Reference[d]].lines[i] <= 1
  BY <1>0 DEF ChargedOnceUnlessRaced
<1>2. Reference[d] \in References /\ invoice'[Reference[d]].debtor = d
  BY <1>1 DEF References, Invoiced
<1>3. Invoiced(d) => invoice[Reference[d]].lines[i] <= 1
  BY <1>1 DEF ChargedOnceUnlessRaced
<1>4. CASE /\ invoice'[Reference[d]].lines = invoice[Reference[d]].lines
           /\ invoice'[Reference[d]].debtor = invoice[Reference[d]].debtor
  BY <1>2, <1>3, <1>4 DEF Invoiced
<1>5. CASE \E c \in Debtors : Settle(c)
  BY <1>0, <1>2, <1>4, <1>5 DEF Settle, Invoice
<1>6. ASSUME NEW e \in Executors, Append(e)
      PROVE  invoice'[Reference[d]].lines[i] <= 1
  <2> DEFINE at == Reference[run[e].who]
  <2>1. /\ run[e].pc = "append" /\ at \in References /\ Invoiced(run[e].who)
        /\ SupplementOK(e)
    BY <1>6, WhoType DEF Append, At, SupplementPc, SupplementInv, SupplementOK
  <2>2. CASE at # Reference[d]
    BY <1>0, <1>2, <1>4, <1>6, <2>1, <2>2 DEF Append
  <2>3. CASE at = Reference[d]
    <3>1. invoice'[Reference[d]].debtor = invoice[Reference[d]].debtor
      BY <1>0, <1>2, <1>6 DEF Append, Invoice
    <3>2. run[e].who = d /\ Invoiced(d)
      BY <1>2, <2>1, <2>3, <3>1 DEF Invoiced
    <3>3. i \in run[e].add => invoice[Reference[d]].lines[i] = 0
      BY <1>1, <2>1, <3>2 DEF SupplementOK, Changing
    <3>4. invoice[Reference[d]].lines \in [Items -> Nat]
      BY <1>0, <1>2 DEF Invoice
    <3>5. Charge(run[e].add, invoice[Reference[d]].lines)[i] <= 1
      BY <1>3, <3>2, <3>3, <3>4, ChargedOnce
    <3>6. invoice'[Reference[d]].lines = Charge(run[e].add, invoice[Reference[d]].lines)
      BY <1>0, <1>2, <1>6, <3>2 DEF Append, Invoice
    <3> QED BY <3>5, <3>6
  <2> QED BY <2>2, <2>3
<1>7. ASSUME NEW e \in Executors, CreateInvoice(e)
      PROVE  invoice'[Reference[d]].lines[i] <= 1
  <2>1. CASE UNCHANGED invoice
    BY <1>4, <2>1
  <2>2. CASE invoice' = [invoice EXCEPT ![Reference[run[e].who]] =
               [debtor |-> run[e].who, number |-> run[e].number, open |-> TRUE,
                lines |-> Charge(run[e].add, NoLines),
                total |-> Charge(run[e].add, NoLines)]]
    <3>1. CASE Reference[run[e].who] # Reference[d]
      BY <1>0, <1>2, <1>4, <2>2, <3>1
    <3>2. CASE Reference[run[e].who] = Reference[d]
      <4>1. invoice'[Reference[d]].lines = Charge(run[e].add, NoLines)
        BY <1>0, <1>2, <2>2, <3>2
      <4>2. NoLines[i] = 0
        BY DEF NoLines
      <4> QED BY <4>1, <4>2, ChargedOnce
    <3> QED BY <3>1, <3>2
  <2> QED BY <1>7, <2>1, <2>2 DEF CreateInvoice
<1>8. CASE UNCHANGED invoice
  BY <1>4, <1>8
<1> QED BY <1>5, <1>6, <1>7, <1>8, InvoiceSteps

\* SettledStaysUnlessLate holds of every behaviour: however many jobs and
\* requests supplement invoices, one that is settled grows no more unless it was
\* settled while an executor was supplementing it.
THEOREM SettledInvoicesStay == Spec => SettledStaysUnlessLate
<1>1. TypeInv /\ SupplementInv /\ [Next]_vars
      => [\A d \in Debtors \ late :
            Invoiced(d) /\ ~invoice[Reference[d]].open
                => invoice'[Reference[d]] = invoice[Reference[d]]]_vars
  BY NextSettledStays
<1> QED BY <1>1, InitTypeInv, NextTypeInv, InitSupplementInv, NextSupplementInv,
           PTL DEF Spec, SettledStaysUnlessLate

\* ChargedOnceUnlessRaced holds of every behaviour: no retry and no other job
\* charges an item again that is on the invoice, unless two executors were
\* supplementing it at once.
THEOREM ItemsChargedOnce == Spec => []ChargedOnceUnlessRaced
<1>1. Init => ChargedOnceUnlessRaced
  BY DEF Init, ChargedOnceUnlessRaced, Invoiced, NoInvoice, References
<1>2. TypeInv /\ SupplementInv /\ ChargedOnceUnlessRaced /\ [Next]_vars
      => ChargedOnceUnlessRaced'
  BY NextChargedOnce, NextTypeInv
<1> QED BY <1>1, <1>2, InitTypeInv, NextTypeInv, InitSupplementInv, NextSupplementInv,
           PTL DEF Spec
=============================================================================
