----------------------------- MODULE MCBillingRun -----------------------------
(* Small instances of BillingRun. *)
EXTENDS BillingRun, TLC

CONSTANTS rental, purchase, twin, a1, a2, j1, j2, k1, water, upkeep, milestone

\* A rented apartment is billed water and the management fee. Another one, or
\* the same after the tenancy, is sold and billed the fee and a milestone.
HomeOf == rental :> a1 @@ purchase :> a2
SuccessiveHome == rental :> a1 @@ purchase :> a1
DebtsOf ==
    rental :> {water, upkeep} @@ purchase :> {upkeep, milestone}
    @@ [a \in Apartments |-> {upkeep}]
OwnReference == [d \in Debtors |-> d]

\* Rented apartments with the same unit number in two buildings; the second has
\* no fees of its own when vacant.
TwinHome == rental :> a1 @@ twin :> a2
TwinDebts ==
    rental :> {water, upkeep} @@ twin :> {upkeep} @@ a1 :> {upkeep} @@ a2 :> {}
TwinReference == [d \in Debtors |-> IF d = twin THEN rental ELSE d]

CategoryOf == [i \in Items |-> i]
FullScope == [e \in Executors |-> Items]
Symmetry == Permutations(Jobs)
=============================================================================
