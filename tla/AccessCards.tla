----------------------------- MODULE AccessCards -----------------------------
(***************************************************************************)
(* The access cards of an apartment: their limit and numbers, the requests *)
(* of residents they are issued for, deactivation and reactivation.        *)
(***************************************************************************)
EXTENDS BuildingPolicies, FiniteSetsExt

CONSTANTS Cards, CardRequests,
          TypeOf,         \* the type of card each request asks for
          ByHand, NaN,    \* numbers with the prefix of the month that are not of
                          \* the generated form: one given by hand, which no
                          \* digits sort after, and its successor
          Padded,         \* the last number of the padded width, 99999 in the code
          DefaultLimit,   \* 4 in the code
          Overrides       \* limits an apartment may have of its own

VARIABLES card,       \* access_cards: status, type, number
          cardReq,    \* access_card_requests: status and issued_card_id
          override    \* of the apartment: access_card_limit_override and the
                      \* older access_card_limit

\* History: the request each card was issued for.
VARIABLE issuedFor

cardVars == <<card, cardReq, override, issuedFor>>

CardTypes == {"building", "parking"}
Numbers == Nat \cup {ByHand, NaN}

ASSUME CardAssumption ==
    /\ IsFiniteSet(Cards) /\ Cards \cap CardRequests = {}
    /\ NoRow \notin Cards \cup CardRequests /\ NoRow \notin Numbers
    /\ TypeOf \in [CardRequests -> CardTypes]
    /\ Padded \in Nat /\ DefaultLimit \in Nat /\ Overrides \subseteq Nat
    /\ ByHand \notin Nat /\ NaN \notin Nat

CardRow == [status : {"active", "lost", "deactivated", "absent"}, type : CardTypes,
            number : Numbers \cup {NoRow}]
CardRequestRow == [status : {"absent", "pending", "approved", "rejected"},
                   issued : Cards \cup {NoRow}]

LimitColumns == [own : Overrides \cup {NoRow}, older : Overrides \cup {NoRow}]

CardTypeOK ==
    /\ card \in [Cards -> CardRow]
    /\ cardReq \in [CardRequests -> CardRequestRow]
    /\ override \in LimitColumns
    /\ issuedFor \in [Cards -> CardRequests \cup {NoRow}]

NoCard == [status |-> "absent", type |-> "building", number |-> NoRow]
FirstCard == [status |-> "active", type |-> "building", number |-> 1]

\* A first card may have been issued before.
CardInit ==
    /\ card \in {[k \in Cards |-> IF k = first THEN new ELSE NoCard] :
                    first \in {CHOOSE k \in Cards : TRUE},
                    new \in {NoCard} \cup IF area = "cards" THEN {FirstCard} ELSE {}}
    /\ cardReq = [q \in CardRequests |-> [status |-> "absent", issued |-> NoRow]]
    /\ override = [own |-> NoRow, older |-> NoRow]
    /\ issuedFor = [k \in Cards |-> NoRow]

CardFrame == UNCHANGED <<cardReq, override, issuedFor, policyVars>>

-----------------------------------------------------------------------------
(* access-cards-helpers.service *)

Issued(k) == card[k].status # "absent"
\* Which row is the new one does not matter.
NewCard == CHOOSE k \in Cards : ~Issued(k)
NumbersOf(type) == {card[k].number : k \in {c \in Cards : Issued(c) /\ card[c].type = type}}
ActiveBuildingCards == {k \in Cards : card[k].type = "building" /\ card[k].status = "active"}

ApartmentLimit == IF override.own # NoRow THEN override.own ELSE override.older

\* A limit of 0 counts as none, but only in a policy.
OrDefault(n) == IF n = 0 THEN DefaultLimit ELSE n

\* The policy without an end is taken, in force or not; any of several.
EffectiveLimits ==
    IF ApartmentLimit # NoRow THEN {ApartmentLimit}
    ELSE IF Current = {} THEN {DefaultLimit}
    ELSE {OrDefault(policy[p].limit) : p \in Current}

\* As text, a number beyond the padded width sorts below the last padded one.
LastNumber(N) == IF Padded \in N THEN Padded ELSE Max(N \cup {0})

\* A mutant: the cards are counted.
NextNumberByCount(type) == Cardinality({k \in Cards : card[k].status = "active" /\ card[k].type = type}) + 1

\* What follows a number by hand is not one; what follows that is the first.
NextNumber(type) ==
    LET N == NumbersOf(type)
    IN  IF ByHand \in N THEN NaN
        ELSE IF NaN \in N THEN 1
        ELSE LastNumber(N) + 1

-----------------------------------------------------------------------------
(* access-cards.service.create, by an administrator or for a request *)

\* kind is the type and row the request the card is for; seen the number.
OpenCard(r, type, number) ==
    /\ number \notin NumbersOf(type)
    /\ Open(r, {"cards"}, [op |-> IF number = NoRow THEN "number" ELSE "limit",
                           on |-> {Home}, row |-> NoRow, seen |-> number, kind |-> type])
    /\ UNCHANGED cardVars /\ UNCHANGED policyVars

OpenApproval(r, q) ==
    /\ cardReq[q].status = "pending"
    /\ Open(r, {"cards"}, [op |-> "number", on |-> {Home, q}, row |-> q,
                           seen |-> NoRow, kind |-> TypeOf[q]])
    /\ UNCHANGED cardVars /\ UNCHANGED policyVars

GenerateNumber(r) ==
    /\ At(r, "number")
    /\ Proceed(r, [task[r] EXCEPT !.op = "limit", !.seen = NextNumber(task[r].kind)])
    /\ UNCHANGED card /\ CardFrame

AfterLimit(r) == IF task[r].row \in Cards THEN "revive" ELSE "insert"

\* Only building cards are limited; kind holds their limit until the count.
ReadLimit(r) ==
    /\ At(r, "limit")
    /\ IF task[r].kind = "parking" THEN Goto(r, AfterLimit(r))
       ELSE \E n \in EffectiveLimits :
              Proceed(r, [task[r] EXCEPT !.op = "count", !.kind = n])
    /\ UNCHANGED card /\ CardFrame

\* A mutant: one card more.
WithinOneMore(n) == Cardinality(ActiveBuildingCards) <= n

Within(n) == Cardinality(ActiveBuildingCards) < n

CountCards(r) ==
    /\ At(r, "count")
    /\ IF Within(task[r].kind)
       THEN Proceed(r, [task[r] EXCEPT !.op = AfterLimit(r), !.kind = "building"])
       ELSE Close(r)
    /\ UNCHANGED card /\ CardFrame

\* The number is unique among all cards of the type's prefix.
InsertCard(r) ==
    LET k == NewCard
    IN  /\ At(r, "insert") /\ ~\A c \in Cards : Issued(c)
        /\ task[r].seen \notin NumbersOf(task[r].kind)
        /\ card' = [card EXCEPT ![k] = [status |-> "active", type |-> task[r].kind,
                                        number |-> task[r].seen]]
        /\ issuedFor' = [issuedFor EXCEPT ![k] = task[r].row]
        /\ IF task[r].row = NoRow THEN Close(r)
           ELSE Proceed(r, [task[r] EXCEPT !.op = "approve", !.seen = k])
        /\ UNCHANGED <<cardReq, override, policyVars>>

RefuseNumber(r) ==
    /\ At(r, "insert") /\ task[r].seen \in NumbersOf(task[r].kind)
    /\ Close(r)
    /\ UNCHANGED card /\ CardFrame

-----------------------------------------------------------------------------
(* access-card-requests.service *)

RequestCard(q) ==
    /\ cardReq[q].status = "absent"
    /\ AtOnce({"cards"}, {q})
    /\ cardReq' = [cardReq EXCEPT ![q].status = "pending"]
    /\ UNCHANGED <<card, override, issuedFor, policyVars>>

ApproveRequest(r) ==
    /\ At(r, "approve")
    /\ cardReq' = [cardReq EXCEPT ![task[r].row] = [status |-> "approved", issued |-> task[r].seen]]
    /\ Close(r)
    /\ UNCHANGED <<card, override, issuedFor, policyVars>>

\* A mutant: a request is rejected whatever was decided.
MayRejectAny(q) == cardReq[q].status # "absent"

MayReject(q) == cardReq[q].status = "pending"

OpenRejection(r, q) ==
    /\ MayReject(q)
    /\ Open(r, {"cards"}, [Idle EXCEPT !.op = "reject", !.on = {q}, !.row = q])
    /\ UNCHANGED cardVars /\ UNCHANGED policyVars

RejectRequest(r) ==
    /\ At(r, "reject")
    /\ cardReq' = [cardReq EXCEPT ![task[r].row].status = "rejected"]
    /\ Close(r)
    /\ UNCHANGED <<card, override, issuedFor, policyVars>>

-----------------------------------------------------------------------------
(* access-cards-lifecycle.service, apartments.service.update *)

OpenDeactivation(r, k, status) ==
    /\ card[k].status = "active"
    /\ Open(r, {"cards"}, [Idle EXCEPT !.op = "deactivate", !.on = {Home}, !.row = k,
                                       !.kind = status])
    /\ UNCHANGED cardVars /\ UNCHANGED policyVars

DeactivateCard(r) ==
    /\ At(r, "deactivate")
    /\ card' = [card EXCEPT ![task[r].row].status = task[r].kind]
    /\ Close(r)
    /\ CardFrame

OpenReactivation(r, k) ==
    /\ card[k].status \in {"lost", "deactivated"}
    /\ Open(r, {"cards"}, [op |-> "limit", on |-> {Home}, row |-> k, seen |-> NoRow,
                           kind |-> card[k].type])
    /\ UNCHANGED cardVars /\ UNCHANGED policyVars

ReactivateCard(r) ==
    /\ At(r, "revive")
    /\ card' = [card EXCEPT ![task[r].row].status = "active"]
    /\ Close(r)
    /\ CardFrame

SetOverride(n) ==
    /\ AtOnce({"cards"}, {Home})
    /\ override' = n
    /\ UNCHANGED <<card, cardReq, issuedFor, policyVars>>
-----------------------------------------------------------------------------
(* Properties *)

\* Cards are issued and reactivated up to the limit of the apartment, whatever
\* that is changed to, unless two requests had the apartment or its limit in
\* hand at once.
CardLimitKept ==
    [][Cardinality(ActiveBuildingCards') > Cardinality(ActiveBuildingCards) =>
         \/ Raced(Home)'
         \/ \E n \in EffectiveLimits : Cardinality(ActiveBuildingCards') <= n]_cardVars

\* The number generated for a card is free, though cards are deactivated and
\* numbers entered by hand, unless two requests generated one at once, a number
\* by hand has no successor, or there are more cards than the padded width
\* counts: then no card gets a number until the month is over.
GeneratedNumberFree ==
    \A r \in Requests :
        At(r, "insert") /\ task[r].seen \in NumbersOf(task[r].kind) =>
            \/ Raced(Home)
            \/ {ByHand, NaN, Padded + 1} \cap NumbersOf(task[r].kind) # {}

\* The card issued for a request is the one the request shows, and one that is
\* not approved has none but while the approval is being written, unless two
\* decisions were taken at once or an approval stopped half way.
RequestMatchesCard ==
    \A q \in CardRequests :
        LET issued == {k \in Cards : issuedFor[k] = q}
        IN  \/ Raced(q) \/ q \in cut
            \/ cardReq[q].status = "approved" /\ issued = {cardReq[q].issued}
            \/ issued = {}
            \/ \E r \in Requests : At(r, "approve") /\ task[r].row = q
=============================================================================
