------------------------------- MODULE MCLedger -------------------------------
(* Small instances of InvoicePayments. *)
EXTENDS InvoicePayments, TLC

CONSTANTS s1, s2, i1

\* The rent of a month, whose invoice is i1, and another schedule of the
\* contract that is due later; both are past due, the second yet to be made.
ExpectedOf == s1 :> 2 @@ s2 :> 1
TotalOf == i1 :> 2
MonthOf == s1 :> i1 @@ s2 :> NoRow
EarlierOf == s1 :> {} @@ s2 :> {s1}
MatchingOf == i1 :> {s1, s2}

Symmetry == Permutations(Payments) \cup Permutations(Requests)
=============================================================================
