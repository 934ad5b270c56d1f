-------------------------- MODULE MCPaymentWebhook --------------------------
(* Small instances of PaymentWebhook. *)
EXTENDS PaymentWebhook, TLC

CONSTANTS t1, t2, t3, i1, i2, s1, h1, h2, p1, p2

\* Two payments of 1 and 2 towards a schedule of 2 that both name by reference
\* or text, and an invoice that one of them also mentions.
AmountOf == t1 :> 1 @@ t2 :> 2
ExpectedOf == [s \in Schedules |-> 2]

RaceRef == t1 :> s1 @@ t2 :> NoEntity
RaceMentions == t1 :> {s1} @@ t2 :> {s1, i1}
\* Three payments: two for an invoice, whose reference is part of that of
\* another invoice, and two for a schedule.
SerialAmount == [t \in Tx |-> IF t = t2 THEN 2 ELSE 1]
SerialMentions ==
    [t \in Tx |-> CASE t = t1 -> {i1, i2} [] t = t2 -> {i1, s1} [] t = t3 -> {s1}]
\* Two payments naming the same invoice.
RivalMentions == [t \in Tx |-> {i1}]
\* Two instalments of one schedule, both transferred with its reference.
NamedRef == [t \in Tx |-> s1]
NamedMentions == [t \in Tx |-> {s1}]
NoRef == [t \in Tx |-> NoEntity]

Symmetry == Permutations(Handlers) \cup Permutations(Staff)
=============================================================================
