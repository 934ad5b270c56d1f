--------------------------- MODULE BuildingPolicies ---------------------------
(***************************************************************************)
(* The versions of a building's policy: each is created to replace the     *)
(* current one, from today or a later day on. The current policy is the    *)
(* one without an end, in force already or not.                            *)
(***************************************************************************)
EXTENDS OfficeRequests

CONSTANTS Policies,      \* rows of building_policies, of one building
          Building,      \* the building
          Home,          \* an apartment of it, which takes its limits from it
          Limits,        \* values of access_card_limit_default
          LastDay        \* bound: days that pass

ASSUME PolicyAssumption ==
    /\ LastDay \in Nat /\ Limits \subseteq Nat
    /\ NoRow \notin Policies /\ NoRow \notin (-1)..LastDay

VARIABLES policy,   \* effective_from, effective_to and the limit of each row
          today

\* History: policies whose first day was changed.
VARIABLE moved

policyVars == <<policy, today, moved>>

Days == 0..LastDay
PolicyRow == [from : Days \cup {NoRow}, to : (-1)..LastDay \cup {NoRow}, limit : Limits \cup {NoRow}]
NoPolicy == [from |-> NoRow, to |-> NoRow, limit |-> NoRow]

Created(p) == policy[p].from # NoRow
Current == {p \in Policies : Created(p) /\ policy[p].to = NoRow}

PolicyTypeOK ==
    /\ policy \in [Policies -> PolicyRow]
    /\ today \in Days
    /\ moved \subseteq Policies

PolicyInit ==
    /\ policy = [p \in Policies |-> NoPolicy]
    /\ today = 0
    /\ moved = {}

-----------------------------------------------------------------------------
\* The transaction finds the current policy, of which there may be several if
\* two were created at once, and then closes it and creates the new one.
OpenPolicy(r, from, limit) ==
    /\ from >= today
    /\ \E p \in IF Current = {} THEN {NoRow} ELSE Current :
         Open(r, {"policies", "cards"}, [op |-> "policy", on |-> {Building, Home}, row |-> p,
                                         seen |-> from, kind |-> limit])
    /\ UNCHANGED policyVars

\* A mutant: the old policy ends on the day the new one begins.
LastDayBeforeSame(from) == from

LastDayBefore(from) == from - 1

\* Which row is the new one does not matter.
NewPolicy == CHOOSE p \in Policies : ~Created(p)

CreatePolicy(r) ==
    /\ At(r, "policy") /\ ~\A p \in Policies : Created(p)
    /\ policy' = [q \in Policies |->
          IF q = NewPolicy THEN [from |-> task[r].seen, to |-> NoRow, limit |-> task[r].kind]
          ELSE IF q = task[r].row THEN [policy[q] EXCEPT !.to = LastDayBefore(task[r].seen)]
          ELSE policy[q]]
    /\ Close(r)
    /\ UNCHANGED <<today, moved>>

\* Only policies of the future change; the ones before them stay as they are.
OpenAmendment(r, p, from, limit) ==
    /\ Created(p) /\ policy[p].from > today
    /\ Open(r, {"policies", "cards"}, [op |-> "amend", on |-> {p, Home}, row |-> p,
                                       seen |-> from, kind |-> limit])
    /\ UNCHANGED policyVars

AmendPolicy(r) ==
    LET p == task[r].row
    IN  /\ At(r, "amend")
        /\ policy' = [policy EXCEPT ![p].from = task[r].seen, ![p].limit = task[r].kind]
        /\ moved' = IF policy[p].from = task[r].seen THEN moved ELSE moved \cup {p}
        /\ Close(r)
        /\ UNCHANGED today

Tick ==
    /\ area = "policies" /\ today < LastDay
    /\ today' = today + 1
    /\ UNCHANGED <<policy, moved, requestVars>>

-----------------------------------------------------------------------------
(* Properties *)

InForce(d) ==
    {p \in Policies : Created(p) /\ policy[p].from <= d /\ (policy[p].to = NoRow \/ d <= policy[p].to)}

\* A policy that was replaced by one starting before it.
Overtaken == \E p \in Policies : policy[p].to # NoRow /\ policy[p].to < policy[p].from - 1

\* From the first policy on, one policy is in force on each day and one is
\* current: versions neither leave a gap nor overlap, unless two were created
\* at once, the first day of one was changed afterwards, or one was overtaken:
\* it leaves the days it would have begun on to the version before it, too.
OnePolicyADay ==
    \/ Raced(Building) \/ moved # {}
    \/ /\ Cardinality(Current) <= 1
       /\ \A d \in Days :
            (\E p \in Policies : Created(p) /\ policy[p].from <= d) =>
                 /\ InForce(d) # {}
                 /\ Overtaken \/ Cardinality(InForce(d)) = 1
=============================================================================
