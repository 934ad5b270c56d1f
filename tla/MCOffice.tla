------------------------------- MODULE MCOffice -------------------------------
(* Small instances of Office. *)
EXTENDS Office, TLC

CONSTANTS q1, q2, a1

TypesOf == q1 :> "building" @@ q2 :> "parking"

AreaOps == [contracts |-> 4, plans |-> 1, schedules |-> 3, policies |-> 4, cards |-> 3,
            parking |-> 4, accounts |-> 4, meters |-> 4]

Rental == [type |-> "rental", start |-> Date(0, 31), dueDay |-> 5, rent |-> 7, deposit |-> 2,
           optionFee |-> 0, price |-> 0, down |-> 0, transfer |-> Never, end |-> Never]

Purchase == [Rental EXCEPT !.type = "purchase", !.price = 100, !.start = Date(1, 1)]

\* Starts at the ends and the middle of a long, a short and a leap month.
Starts == {Date(m, d) : m \in {0, 1, 13}, d \in {1, 15, 28}} \cup {Date(0, 31), Date(3, 30)}
Deadlines == {Never, Date(0, 10), Date(2, 20), Date(4, 1), Date(61, 28)}

Rentals == {[Rental EXCEPT !.type = type, !.start = s, !.dueDay = d, !.rent = n,
                           !.deposit = b, !.optionFee = b] :
              type \in {"rental", "lease_to_own"}, s \in Starts, d \in {1, 15, 28},
              n \in {0, 7, 1000}, b \in {0, 3}}

Purchases == {[Purchase EXCEPT !.start = s, !.price = n, !.down = d, !.transfer = e, !.end = f] :
                s \in Starts, n \in {0, 1010}, d \in {0, 400, 1100},
                e \in Deadlines, f \in Deadlines}

TermsOf == [contracts |-> {Rental, [Rental EXCEPT !.deposit = 0]}, plans |-> Rentals \cup Purchases,
             schedules |-> {Rental, [Rental EXCEPT !.type = "lease_to_own", !.optionFee = 1],
                            [Purchase EXCEPT !.transfer = Date(4, 1)]}]
           @@ [a \in Areas |-> {}]

CountsOf == [contracts |-> {1}, plans |-> {1, 12}, schedules |-> {1}] @@ [a \in Areas |-> {}]

\* A deposit and a month's rent.
EnteredByHand ==
    {[Row(k, 1, Date(0, 31), 3) EXCEPT !.byHand = TRUE] : k \in {"deposit", "rent"}}

\* Each column once as no contract has it.
ByHandRows == {[status |-> "maintenance", rented |-> FALSE, residents |-> 0],
               [status |-> "occupied", rented |-> FALSE, residents |-> 2],
               [status |-> "vacant", rented |-> TRUE, residents |-> 0]}

EndsOf == [a \in Areas |-> {Date(2, 20)}]
RentsOf == [schedules |-> {9}] @@ [a \in Areas |-> {}]
DepositsOf == [schedules |-> {0}] @@ [a \in Areas |-> {}]

Symmetry == Permutations(Requests)
=============================================================================
