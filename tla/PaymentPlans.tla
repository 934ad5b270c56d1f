----------------------------- MODULE PaymentPlans -----------------------------
(***************************************************************************)
(* The schedules generated for a contract, as functions of its terms.      *)
(* A date is a month, counted from a January of a leap year, and a day.    *)
(***************************************************************************)
EXTENDS Integers, Sequences, SequencesExt, FiniteSetsExt

Date(m, d) == [month |-> m, day |-> d]

DaysIn(m) ==
    CASE m % 12 = 1 -> IF m % 48 = 1 THEN 29 ELSE 28
      [] m % 12 \in {3, 5, 8, 10} -> 30
      [] OTHER -> 31

IsDate(d) == d \in [month : Nat, day : 1..31] /\ d.day <= DaysIn(d.month)

\* addMonths stays within the month it reaches.
AddMonths(d, n) == Date(d.month + n, Min({d.day, DaysIn(d.month + n)}))

Before(d, e) ==
    \/ d.month < e.month
    \/ d.month = e.month /\ d.day < e.day

LaterOf(d, e) == IF Before(d, e) THEN e ELSE d

\* The difference of two times, in days.
DayNumber(d) == MapThenSumSet(DaysIn, 0..(d.month - 1)) + d.day

\* Math.round: halves are rounded up.
RoundDiv(n, k) == (2 * n + k) \div (2 * k)

Row(kind, number, due, amount) ==
    [kind |-> kind, number |-> number, due |-> due, amount |-> amount, byHand |-> FALSE]

PaymentType == {"downpayment", "installment", "rent", "deposit", "option_fee", "penalty",
                "adjustment"}

\* What is entered by hand is numbered from 1 and not negative.
RowByHand == [kind : PaymentType, number : Nat \ {0}, due : [month : Nat, day : 1..31],
              amount : Nat, byHand : {TRUE}]

\* The row of an amount that is asked for once, if it is.
Once(kind, due, amount) ==
    IF amount > 0 THEN <<Row(kind, 0, due, amount)>> ELSE <<>>

-----------------------------------------------------------------------------
(* generateRentSchedules and generateLeaseToOwnSchedules *)

\* The day of the first month may be over when the contract starts.
FirstDue(start, dueDay) ==
    LET due == Date(start.month, dueDay)
    IN  IF Before(due, start) THEN AddMonths(due, 1) ELSE due

ProRated(amount, start) ==
    LET days == DaysIn(start.month)
    IN  IF start.day > 1 THEN RoundDiv(amount * (days - start.day + 1), days)
        ELSE amount

Monthly(kind, t, months) ==
    [i \in 1..months |->
       IF i = 1 THEN Row(kind, 1, FirstDue(t.start, t.dueDay), ProRated(t.rent, t.start))
       ELSE Row(kind, i, Date(t.start.month + i - 1, t.dueDay), t.rent)]

RentPlan(t, months) ==
    Once("deposit", t.start, t.deposit) \o Monthly("rent", t, months)

LeasePlan(t, months) ==
    Once("option_fee", t.start, t.optionFee) \o Once("deposit", t.start, t.deposit)
      \o Monthly("installment", t, months)

-----------------------------------------------------------------------------
(* generatePurchaseMilestones *)

\* The down payment agreed on, or else a percentage of the price.
DownPayment(t, percent) ==
    IF t.down > 0 THEN t.down ELSE (t.price * percent) \div 100

Never == Date(-1, 0)

\* What a contract may be on: the deposit may be any number, and so may the rent
\* once it was changed.
IsTerms(t) ==
    /\ t \in [type : {"rental", "lease_to_own", "purchase"}, start : [month : Nat, day : 1..31],
              dueDay : 1..28, rent : Int, deposit : Int, optionFee : Nat, price : Nat, down : Nat,
              transfer : [month : Int, day : Nat], end : [month : Int, day : Nat]]
    /\ IsDate(t.start)
    /\ \A d \in {t.transfer, t.end} \ {Never} : IsDate(d)

Deadline(t) ==
    LET dates == {t.transfer, t.end} \ {Never}
    IN  IF dates = {} THEN AddMonths(t.start, 12) ELSE LaterOf(t.transfer, t.end)

\* Months of 30 days.
TotalMonths(t) ==
    Max({1, RoundDiv(DayNumber(Deadline(t)) - DayNumber(t.start), 30)})

ProgressCount(t, count) == Min({count, Max({0, TotalMonths(t) - 1})})

\* A mutant: what the division leaves over is asked for nowhere.
FinalAmountOfEqualParts(remaining, count, done) == remaining \div (count + 1)

\* The last payment takes what the progress payments made leave over.
FinalAmount(remaining, count, done) ==
    remaining - (remaining \div (count + 1)) * done

MilestonePlan(t, percent, asked) ==
    LET remaining == t.price - DownPayment(t, percent)
        count == ProgressCount(t, asked)
        interval == TotalMonths(t) \div (count + 1)
        due(i) == AddMonths(t.start, i * interval)
        \* The loop stops at the first one that is not before the deadline.
        done == Max({0} \cup {i \in 1..count : \A j \in 1..i : Before(due(j), Deadline(t))})
    IN  <<Row("downpayment", 1, t.start, DownPayment(t, percent))>>
          \o [i \in 1..done |->
                Row("installment", i + 1, due(i), remaining \div (count + 1))]
          \o <<Row("installment", done + 2, Deadline(t), FinalAmount(remaining, count, done))>>

-----------------------------------------------------------------------------
SumOf(plan) == FoldSeq(LAMBDA row, sum : row.amount + sum, 0, plan)
=============================================================================
