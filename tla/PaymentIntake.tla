---------------------------- MODULE PaymentIntake ----------------------------
(***************************************************************************)
(* What the webhook component promises: every bank transaction goes to     *)
(* exactly one place, an invoice, a payment schedule or the accountants'   *)
(* queue, once; an invoice takes one payment; a schedule shows the sum of  *)
(* the payments it took.                                                   *)
(***************************************************************************)
EXTENDS Integers

CONSTANTS Tx, Invoices, Schedules, Amount,
          Nowhere, Queue   \* not yet processed; kept for the accountants

VARIABLES account,   \* where each transaction went
          received   \* what each schedule shows

vars == <<account, received>>

Init ==
    /\ account = [t \in Tx |-> Nowhere]
    /\ received = [s \in Schedules |-> 0]

Assign(t, place) ==
    /\ account[t] = Nowhere
    /\ account' = [account EXCEPT ![t] = place]

SettleInvoice(t, i) ==
    /\ \A u \in Tx : account[u] # i
    /\ Assign(t, i)
    /\ UNCHANGED received

CreditSchedule(t, s) ==
    /\ Assign(t, s)
    /\ received' = [received EXCEPT ![s] = @ + Amount[t]]

KeepUnmatched(t) ==
    /\ Assign(t, Queue)
    /\ UNCHANGED received

Next == \E t \in Tx :
    \/ \E i \in Invoices : SettleInvoice(t, i)
    \/ \E s \in Schedules : CreditSchedule(t, s)
    \/ KeepUnmatched(t)

Spec == Init /\ [][Next]_vars
=============================================================================
