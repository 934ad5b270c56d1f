------------------------------ MODULE Contracts ------------------------------
(***************************************************************************)
(* Contracts, the apartments they occupy and the schedules generated for   *)
(* them: when a contract is signed, and by hand.                           *)
(***************************************************************************)
EXTENDS OfficeRequests, PaymentPlans

CONSTANTS Apartments, Contracts,
          Terms,       \* Terms[a]: terms contracts are signed on in area a
          Residents,   \* numbers of residents
          Ends, Rents, Deposits,   \* Ends[a]...: what terms may be changed to in area a
          Edits,       \* what the row of an apartment may be changed to by hand
          HandRows,    \* schedules entered by hand
          Counts,      \* Counts[a]: months, or progress payments, asked for by
                       \* hand in area a
          Percents,    \* percentages of the price asked for as down payment
          SigningMonths, SigningCount, SigningPercent   \* 12, 3 and 30 in the code

ApartmentStatus == {"vacant", "occupied", "maintenance", "reserved"}
ApartmentRow == [status : ApartmentStatus, rented : BOOLEAN, residents : Nat]

ASSUME ContractAssumption ==
    /\ Contracts # {} /\ Apartments \cap Contracts = {}
    /\ \A a \in Areas : (\A t \in Terms[a] : IsTerms(t)) /\ Counts[a] \subseteq Nat \ {0}
    /\ {SigningMonths, SigningCount} \subseteq Nat \ {0}
    /\ Percents \cup {SigningPercent} \subseteq 1..100 /\ Residents \subseteq Nat
    /\ \A a \in Areas : /\ (\A d \in Ends[a] : IsDate(d)) /\ NoRow \notin Ends[a]
                       /\ Rents[a] \cup Deposits[a] \subseteq Int
    /\ NoRow \notin Int
    /\ HandRows \subseteq RowByHand /\ Edits \subseteq ApartmentRow

VARIABLES apt,        \* apartments: status, is_rented, current_resident_count
          contract,   \* contracts: status, apartment, number_of_residents, terms
          plan        \* contract_payment_schedules of each contract

\* History: apartments that had a contract's status set by hand; those whose own
\* row was changed by hand since a contract was signed or terminated; contracts
\* whose schedules were changed by hand, or deleted; the terms the plan of each
\* contract was generated from.
VARIABLES edited, adjusted, altered, thinned, basis

contractVars == <<apt, contract, plan, edited, adjusted, altered, thinned, basis>>

ContractStatus == {"draft", "active", "expired", "terminated"}

IsContract(row) ==
    /\ DOMAIN row = {"status", "apartment", "residents", "terms"}
    /\ row.status \in ContractStatus \cup {"absent"}
    /\ row.apartment \in Apartments \cup {NoRow} /\ row.residents \in Nat \cup {NoRow}
    /\ row.terms = NoRow \/ IsTerms(row.terms)

NoContract == [status |-> "absent", apartment |-> NoRow, residents |-> NoRow, terms |-> NoRow]
Vacant == [status |-> "vacant", rented |-> FALSE, residents |-> 0]

ContractTypeOK ==
    /\ apt \in [Apartments -> ApartmentRow]
    /\ \A c \in Contracts : /\ IsContract(contract[c])
                            /\ \A i \in DOMAIN plan[c] : plan[c][i].amount \in Int
    /\ edited \cup adjusted \subseteq Apartments /\ thinned \subseteq altered

\* A value that may be given, or else stays.
Given(v, old) == IF v = NoRow THEN old ELSE v

OrNone(n) == IF n = NoRow THEN 0 ELSE n
Occupied(n) == [status |-> "occupied", rented |-> TRUE, residents |-> OrNone(n)]
NewlySigned(a, n, t) ==
    [status |-> "active", apartment |-> a, residents |-> n, terms |-> t]

\* After signing, the schedules are generated, in other transactions.
AfterSigning(a, c, t) ==
    [op |-> "plan", on |-> {a, c}, row |-> c, kind |-> SigningPercent,
     seen |-> IF t.type = "purchase" THEN SigningCount ELSE SigningMonths]

\* In the areas of plans and schedules, a contract has just been signed, on any
\* terms.
ContractInit ==
    /\ \/ /\ area \notin {"plans", "schedules"}
          /\ contract = [c \in Contracts |-> NoContract]
          /\ apt = [a \in Apartments |-> Vacant]
          /\ task = [r \in Requests |-> Idle]
       \/ /\ area \in {"plans", "schedules"}
          /\ \E a \in Apartments, t \in Terms[area] :
               LET new == CHOOSE c \in Contracts : TRUE
                   r == CHOOSE q \in Requests : TRUE
               IN  /\ contract = [c \in Contracts |->
                         IF c = new THEN NewlySigned(a, NoRow, t) ELSE NoContract]
                   /\ apt = [b \in Apartments |-> IF a = b THEN Occupied(NoRow) ELSE Vacant]
                   /\ task = [q \in Requests |-> IF q = r THEN AfterSigning(a, new, t) ELSE Idle]
    /\ plan = [c \in Contracts |-> <<>>]
    /\ edited = {} /\ adjusted = {} /\ altered = {} /\ thinned = {}
    /\ basis = [c \in Contracts |-> NoRow]

Signed(c) == contract[c].status # "absent"
ActiveOn(a) ==
    {c \in Contracts : contract[c].status = "active" /\ contract[c].apartment = a}

-----------------------------------------------------------------------------
(* contracts.service.create *)

\* A mutant: a contract is no obstacle once it has a plan.
MaySignPlanned(a) == \A c \in ActiveOn(a) : plan[c] # <<>>

MaySign(a) == ActiveOn(a) = {}

OpenSigning(r, a) ==
    /\ MaySign(a)
    /\ Open(r, {"contracts"}, [Idle EXCEPT !.op = "sign", !.on = {a}, !.row = a])
    /\ UNCHANGED contractVars

\* Which row is the new one does not matter.
NewContract == CHOOSE c \in Contracts : ~Signed(c)

SignContract(r, n) ==
    LET a == task[r].row
        c == NewContract
    IN  /\ At(r, "sign") /\ ~\A d \in Contracts : Signed(d)
        /\ \E t \in Terms[area] :
             /\ contract' = [contract EXCEPT ![c] = NewlySigned(a, n, t)]
             /\ Proceed(r, AfterSigning(a, c, t))
        /\ apt' = [apt EXCEPT ![a] = Occupied(n)]
        /\ adjusted' = adjusted \ {a}
        /\ UNCHANGED <<plan, edited, altered, thinned, basis>>

-----------------------------------------------------------------------------
(* payment-generator.service *)

\* By hand, for contracts of two types.
OpenGeneration(r, c, count, percent) ==
    /\ Signed(c) /\ contract[c].terms.type \in {"rental", "purchase"}
    /\ Open(r, {"contracts", "plans", "schedules"},
            [op |-> "plan", on |-> {c}, row |-> c, seen |-> count, kind |-> percent])
    /\ UNCHANGED contractVars

\* A mutant: the deposit is looked for.
BlockingDeposit(c) == {i \in DOMAIN plan[c] : plan[c][i].kind = "deposit"}

\* The rows that keep a plan from being generated again; deposits and option
\* fees do not, except for a purchase.
Blocking(c) ==
    CASE contract[c].terms.type = "rental" -> {i \in DOMAIN plan[c] : plan[c][i].kind = "rent"}
      [] contract[c].terms.type = "lease_to_own" ->
           {i \in DOMAIN plan[c] : plan[c][i].kind = "installment"}
      [] OTHER -> DOMAIN plan[c]

PlanOf(t, count, percent) ==
    CASE t.type = "rental" -> RentPlan(t, count)
      [] t.type = "lease_to_own" -> LeasePlan(t, count)
      [] OTHER -> MilestonePlan(t, percent, count)

\* What is refused when a contract is signed is only logged. The schedules are
\* worked out from the terms as they are read here.
ValidateContract(r) ==
    LET c == task[r].row
        t == contract[c].terms
    IN  /\ At(r, "plan")
        /\ IF Blocking(c) = {} /\ (t.type = "purchase" => t.price > 0)
           THEN Proceed(r, [task[r] EXCEPT !.op = "generate",
                   !.seen = [terms |-> t, rows |-> PlanOf(t, task[r].seen, task[r].kind)]])
           ELSE Close(r)
        /\ UNCHANGED contractVars

GenerateSchedules(r) ==
    LET c == task[r].row
    IN  /\ At(r, "generate")
        /\ plan' = [plan EXCEPT ![c] = @ \o task[r].seen.rows]
        /\ basis' = [basis EXCEPT ![c] = task[r].seen.terms]
        /\ Close(r)
        /\ UNCHANGED <<apt, contract, edited, adjusted, altered, thinned>>

-----------------------------------------------------------------------------
(* schedules-core.service: the same rows, by hand *)

AlterPlan(c, rows) ==
    /\ AtOnce({"schedules"}, {c})
    /\ plan' = [plan EXCEPT ![c] = rows]
    /\ altered' = altered \cup {c}
    /\ UNCHANGED <<apt, contract, edited, adjusted, basis>>

AddSchedule(c, row) ==
    /\ Signed(c)
    /\ AlterPlan(c, Append(plan[c], row))
    /\ UNCHANGED thinned

\* due and amount are NoRow if not given; what is paid for stays.
ChangeSchedule(c, i, due, amount) ==
    /\ i \in DOMAIN plan[c]
    /\ AlterPlan(c, [plan[c] EXCEPT ![i].due = Given(due, @), ![i].amount = Given(amount, @)])
    /\ UNCHANGED thinned

\* Of a schedule without payments.
DropSchedule(c, i) ==
    /\ i \in DOMAIN plan[c]
    /\ AlterPlan(c, RemoveAt(plan[c], i))
    /\ thinned' = thinned \cup {c}

-----------------------------------------------------------------------------
(* contracts.service.update and terminate, apartments.service.update *)

Amendments ==
    [end : Ends[area] \cup {NoRow}, rent : Rents[area] \cup {NoRow},
     deposit : Deposits[area] \cup {NoRow}]

Amended(t, new) ==
    [t EXCEPT !.end = Given(new.end, @), !.rent = Given(new.rent, @),
              !.deposit = Given(new.deposit, @)]

\* n is NoRow if the number of residents is not given; any status goes.
UpdateContract(c, status, n, new) ==
    LET a == contract[c].apartment
    IN  /\ Signed(c)
        /\ AtOnce({"contracts", "schedules"}, {a})
        /\ contract' = [contract EXCEPT ![c].status = status,
                                        ![c].residents = Given(n, @),
                                        ![c].terms = Amended(@, new)]
        /\ apt' = IF n # NoRow /\ status = "active"
                  THEN [apt EXCEPT ![a].residents = n] ELSE apt
        /\ edited' = IF status # contract[c].status THEN edited \cup {a} ELSE edited
        /\ UNCHANGED <<plan, adjusted, altered, thinned, basis>>

OpenTermination(r, c) ==
    /\ contract[c].status = "active"
    /\ Open(r, {"contracts"}, [Idle EXCEPT !.op = "terminate", !.row = c,
                                           !.on = {contract[c].apartment}])
    /\ UNCHANGED contractVars

\* Mutants: the count of residents is cleared, residents stay counted.
VacatedUncounted(a) == [Vacant EXCEPT !.residents = NoRow]
VacatedKeeping(a) == [apt[a] EXCEPT !.status = "vacant", !.rented = FALSE]

Vacated(a) == Vacant

Terminate(r, end) ==
    LET c == task[r].row
        a == contract[c].apartment
    IN  /\ At(r, "terminate")
        /\ contract' = [contract EXCEPT ![c].status = "terminated", ![c].terms.end = end]
        /\ apt' = [apt EXCEPT ![a] = Vacated(a)]
        /\ adjusted' = adjusted \ {a}
        /\ Close(r)
        /\ UNCHANGED <<plan, edited, altered, thinned, basis>>

\* Any of the three columns, whatever the contracts say.
EditApartment(a, row) ==
    /\ AtOnce({"contracts"}, {a})
    /\ apt' = [apt EXCEPT ![a] = row]
    /\ adjusted' = adjusted \cup {a}
    /\ UNCHANGED <<contract, plan, edited, altered, thinned, basis>>

-----------------------------------------------------------------------------
(* Properties *)

\* An apartment has at most one active contract, unless two requests had it in
\* hand at once or a contract was made active again by hand, neither of which
\* anything refuses.
OneActiveContract ==
    \A a \in Apartments : Raced(a) \/ a \in edited \/ Cardinality(ActiveOn(a)) <= 1

\* An apartment is occupied, and by as many residents, as its active contract
\* says, through signing, renewal, changes and termination, unless two requests
\* had it in hand at once, a contract's status was set by hand, or the apartment
\* was itself changed by hand since a contract was last signed or terminated:
\* nothing holds its three columns to the contract then.
ApartmentMatchesContract ==
    \A a \in Apartments :
        \/ Raced(a) \/ a \in edited \cup adjusted
        \/ ActiveOn(a) = {} /\ apt[a] = Vacant
        \/ \E c \in ActiveOn(a) :
              apt[a] = [status |-> "occupied", rented |-> TRUE,
                        residents |-> OrNone(contract[c].residents)]

\* There is one deposit and one option fee, whatever the number on the row.
SamePayment(x, y) ==
    x.kind = y.kind /\ (x.number = y.number \/ x.kind \in {"deposit", "option_fee"})

\* A payment is scheduled once, though schedules are generated when the contract
\* is signed and by hand, and rows are entered, changed and deleted by hand,
\* unless two requests had the plan in hand at once. Two exceptions: a row
\* entered by hand after the other, which nothing checks, and a deposit or option
\* fee, which does not keep a plan from being generated: it is asked for again
\* when the one before it was entered by hand, or was left when rows of the plan
\* were deleted.
ScheduledOnce ==
    \A c \in Contracts : \A i, j \in DOMAIN plan[c] :
        i < j /\ SamePayment(plan[c][i], plan[c][j]) =>
            \/ Raced(c) \/ plan[c][j].byHand
            \/ /\ plan[c][i].kind \in {"deposit", "option_fee"}
               /\ contract[c].terms.type # "purchase"
               /\ plan[c][i].byHand \/ c \in thinned

InOrder(rows) == \A i \in 1..(Len(rows) - 1) : ~Before(rows[i + 1].due, rows[i].due)

\* The milestones of a purchase add up to its price, whatever the divisions
\* leave over and however few payments the time allows, and every plan asks for
\* its payments in order, none before the contract starts, on the terms it was
\* generated from: unless the deadline of a purchase is before its start, or the
\* plan was changed by hand. No payment is negative, unless the rent was made
\* so or the down payment is above the price.
PlanSound ==
    \A c \in Contracts :
        LET t == basis[c]
        IN  plan[c] # <<>> =>
              \/ Raced(c) \/ c \in altered
              \/ t.type = "purchase" /\ Before(Deadline(t), t.start)
              \/ /\ t.type = "purchase" => SumOf(plan[c]) = t.price
                 /\ \/ \A i \in DOMAIN plan[c] : plan[c][i].amount >= 0
                    \/ IF t.type = "purchase" THEN t.down > t.price ELSE t.rent < 0
                 /\ InOrder(plan[c])
                 /\ ~Before(plan[c][1].due, t.start)
=============================================================================
