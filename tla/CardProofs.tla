----------------------------- MODULE CardProofs ------------------------------
(***************************************************************************)
(* Proofs, for every number of requests, policies, cards and requests for  *)
(* them, that the policies follow one another and that cards are issued as *)
(* the policies allow; and, from the invariants of all of the office's     *)
(* modules, that every value keeps its type.                               *)
(***************************************************************************)
EXTENDS OfficeProofs

-----------------------------------------------------------------------------
(* Policies *)

PoliciesExcused == Raced(Building) \/ moved # {}

\* Who is about to replace the current policy has read which one that is, unless
\* another request was about to do the same.
PolicyTask(r) ==
    /\ At(r, "policy") =>
         /\ {Building, Home} \subseteq task[r].on
         /\ task[r].seen \in Days /\ task[r].kind \in Limits
         /\ task[r].row # NoRow => task[r].row \in Policies /\ Created(task[r].row)
         /\ Raced(Building) \/ IF Current = {} THEN task[r].row = NoRow ELSE task[r].row \in Current
    /\ At(r, "amend") =>
         /\ Home \in task[r].on
         /\ task[r].row \in Policies /\ Created(task[r].row)
         /\ task[r].seen \in Days /\ task[r].kind \in Limits

PolicyRowsOK ==
    /\ policy \in [Policies -> PolicyRow]
    /\ moved \subseteq Policies
    /\ \A p \in Policies : IF Created(p) THEN policy[p].limit \in Limits ELSE policy[p] = NoPolicy

\* Policies form a chain: the current one begins where the one before it ends,
\* and no two are in force on one day unless one was overtaken.
PolicyChain ==
    /\ \A p, q \in Current : p = q
    /\ \A p \in Policies : Created(p) => Current # {}
    /\ \A d \in Days : \A p \in Policies : Created(p) /\ policy[p].from <= d => InForce(d) # {}
    /\ \/ Overtaken
       \/ /\ \A c \in Current : \A p \in Policies \ {c} : Created(p) => policy[p].to < policy[c].from
          /\ \A d \in Days : \A p, q \in InForce(d) : p = q

\* Only requests about policies and cards have them in hand.
Guarded(o) == area \in CardAreas => Exclusive(o)

PolicyInv ==
    /\ InArea /\ Guarded(Building)
    /\ PolicyRowsOK
    /\ \A r \in Requests : PolicyTask(r)
    /\ PoliciesExcused \/ PolicyChain

\* A request at a statement about policies or cards: the behaviour is about them.
LEMMA PolicyHands ==
  ASSUME InArea, NEW r \in Requests, task[r].op \in CardOps
  PROVE  area \in CardAreas /\ TasksOK
  BY GoesOn DEF Fits

LEMMA PoliciesInit == OfficeInit => PolicyInv
<1> SUFFICES ASSUME OfficeInit PROVE PolicyInv
  OBVIOUS
<1>1. policy = [p \in Policies |-> NoPolicy] /\ moved = {}
  BY DEF OfficeInit, PolicyInit
<1>2. \A p \in Policies : ~Created(p)
  BY <1>1 DEF Created, NoPolicy
<1>3. PolicyRowsOK
  BY <1>1, <1>2 DEF PolicyRowsOK, NoPolicy, PolicyRow
<1>4. PolicyChain
  BY <1>2 DEF PolicyChain, Current, InForce
<1>5. area \in CardAreas => \A r \in Requests : task[r] = Idle
  BY DEF OfficeInit, ContractInit, CardAreas
<1>6. \A r \in Requests : PolicyTask(r)
  <2>1. CASE area \in CardAreas
    BY <1>5, <2>1 DEF PolicyTask, At, Idle
  <2>2. CASE area \notin CardAreas
    BY <2>2, OfficeStarts DEF InArea, Fits, OpsOf, PolicyTask, At, ContractOps, ParkingOps,
       AccountOps, MeterOps, CardAreas
  <2> QED
    BY <2>1, <2>2
<1>7. Exclusive(Building)
  <2>1. CASE area \notin {"plans", "schedules"}
    BY <2>1 DEF OfficeInit, ContractInit, Exclusive, Idle
  <2>2. CASE area \in {"plans", "schedules"}
    <3>1. PICK r : \A q \in Requests : q # r => task[q] = Idle
      BY <2>2 DEF OfficeInit, ContractInit
    <3> QED
      BY <3>1 DEF Exclusive, Idle
  <2> QED
    BY <2>1, <2>2
<1> QED
  BY <1>3, <1>4, <1>6, <1>7, OfficeStarts DEF PolicyInv, Guarded

\* Where no policy changes, requests that are not about policies matter not.
LEMMA PoliciesQuiet ==
  ASSUME PolicyInv, InArea', Guarded(Building)', raced \subseteq raced', UNCHANGED <<policy, moved>>,
         \A r \in Requests : task'[r] = task[r] \/ task'[r].op \notin {"policy", "amend"}
                             \/ PolicyTask(r)'
  PROVE  PolicyInv'
<1>1. PolicyRowsOK' /\ (PoliciesExcused \/ PolicyChain)'
  BY DEF PolicyInv, PolicyRowsOK, PoliciesExcused, PolicyChain, Raced, Created, Current, InForce,
     Overtaken
<1>2. ASSUME NEW r \in Requests PROVE PolicyTask(r)'
  BY DEF PolicyInv, PolicyTask, At, Raced, Current, Created
<1> QED
  BY <1>1, <1>2 DEF PolicyInv

\* A request about a policy is made.
LEMMA PoliciesOpen ==
  ASSUME PolicyInv, InArea', NEW r \in Requests, NEW from \in Days, NEW limit \in Limits,
         \/ OpenPolicy(r, from, limit)
         \/ \E p \in Policies : OpenAmendment(r, p, from, limit)
  PROVE  PolicyInv'
<1>0. UNCHANGED <<policy, moved>> /\ TasksOK
  BY DEF OpenPolicy, OpenAmendment, policyVars, PolicyInv, InArea, Fits
<1>1. PICK new : /\ Open(r, {"policies", "cards"}, new) /\ Shape(new)
                 /\ Home \in new.on /\ new.seen = from /\ new.kind = limit
                 /\ \/ /\ new.op = "policy" /\ {Building, Home} \subseteq new.on
                       /\ IF Current = {} THEN new.row = NoRow ELSE new.row \in Current
                       /\ new.row # NoRow => new.row \in Policies /\ Created(new.row)
                    \/ new.op = "amend" /\ new.row \in Policies /\ Created(new.row)
  <2>0. \A p \in Current : p \in Policies /\ Created(p)
    BY DEF Current
  <2>1. CASE OpenPolicy(r, from, limit)
    <3>1. PICK p, new : /\ IF Current = {} THEN p = NoRow ELSE p \in Current
                        /\ Open(r, {"policies", "cards"}, new)
                        /\ new = [op |-> "policy", on |-> {Building, Home}, row |-> p,
                                  seen |-> from, kind |-> limit]
      BY <2>1 DEF OpenPolicy
    <3> QED
      BY <2>0, <3>1 DEF Shape
  <2>2. CASE \E p \in Policies : OpenAmendment(r, p, from, limit)
    <3>0. PICK p \in Policies : OpenAmendment(r, p, from, limit)
      BY <2>2
    <3>1. PICK new :
            /\ Created(p)
            /\ Open(r, {"policies", "cards"}, new)
            /\ new = [op |-> "amend", on |-> {p, Home}, row |-> p, seen |-> from, kind |-> limit]
      BY <3>0 DEF OpenAmendment
    <3> QED
      BY <3>1 DEF Shape
  <2> QED
    BY <2>1, <2>2
<1>2. task'[r] = new /\ raced \subseteq raced' /\ \A q \in Requests : q # r => task'[q] = task[q]
  BY <1>0, <1>1, OpenFacts DEF Becomes
<1>3. Guarded(Building)'
  BY <1>0, <1>1, OpenExclusive DEF PolicyInv, Guarded, Open, CardAreas
<1>4. PolicyTask(r)'
  BY <1>0, <1>1, <1>2 DEF PolicyTask, At, Current, Created
<1> QED
  BY <1>0, <1>2, <1>3, <1>4, PoliciesQuiet

Replaces(n, from, limit, row) ==
    policy' = [q \in Policies |->
        IF q = n THEN [from |-> from, to |-> NoRow, limit |-> limit]
        ELSE IF q = row THEN [policy[q] EXCEPT !.to = LastDayBefore(from)]
        ELSE policy[q]]

\* The chain grows by one policy.
LEMMA ChainGrows ==
  ASSUME PolicyRowsOK, PolicyChain, NEW n \in Policies, ~Created(n), NEW from \in Days,
         NEW limit \in Limits, NEW row, IF Current = {} THEN row = NoRow ELSE row \in Current,
         moved' = moved, Replaces(n, from, limit, row)
  PROVE  PolicyRowsOK' /\ PolicyChain'
<1> USE DEF Replaces
<1> DEFINE first == [from |-> from, to |-> NoRow, limit |-> limit]
<1>0. /\ NoRow \notin Policies /\ NoRow \notin Days /\ LastDay \in Nat
      /\ NoRow \notin (-1)..LastDay /\ policy \in [Policies -> PolicyRow]
      /\ row # n /\ LastDayBefore(from) \in (-1)..LastDay /\ LastDayBefore(from) = from - 1
  BY PolicyAssumption DEF Days, Current, LastDayBefore, PolicyRowsOK
<1>1. policy'[n] = first /\ Created(n)'
  BY <1>0 DEF Created
<1>2. ASSUME NEW q \in Policies, q # n, q # row PROVE policy'[q] = policy[q]
  BY <1>2
<1>3. ASSUME row # NoRow
      PROVE  /\ row \in Policies /\ Created(row) /\ policy[row].to = NoRow
             /\ policy'[row].from = policy[row].from /\ policy'[row].to = from - 1
             /\ policy'[row].limit = policy[row].limit /\ policy'[row] \in PolicyRow
  <2>1. row \in Policies /\ Created(row) /\ policy[row].to = NoRow
    BY <1>3 DEF Current
  <2>2. PICK to : to = LastDayBefore(from) /\ policy'[row] = [policy[row] EXCEPT !.to = to]
    BY <1>0, <2>1
  <2> QED
    BY <1>0, <2>1, <2>2 DEF PolicyRow
<1>4. ASSUME NEW q \in Policies, q # n
      PROVE  /\ Created(q)' <=> Created(q)
             /\ policy'[q].from = policy[q].from /\ policy'[q].limit = policy[q].limit
             /\ q = row \/ policy'[q] = policy[q]
             /\ policy'[q] \in PolicyRow
  BY <1>0, <1>2, <1>3, <1>4 DEF Created
<1>5. PolicyRowsOK'
  <2>1. first \in PolicyRow
    BY <1>0 DEF PolicyRow
  <2>2. policy' \in [Policies -> PolicyRow]
    BY <1>1, <1>4, <2>1
  <2>3. ASSUME NEW p \in Policies
        PROVE  IF Created(p)' THEN policy'[p].limit \in Limits ELSE policy'[p] = NoPolicy
    <3>1. CASE p = n
      BY <1>1, <3>1
    <3>2. CASE p = row
      <4>1. row # NoRow /\ policy[p].limit \in Limits
        BY <1>0, <1>3, <3>2 DEF PolicyRowsOK
      <4> QED
        BY <1>0, <1>3, <1>4, <3>2, <4>1
    <3>3. CASE p # n /\ p # row
      BY <1>2, <1>4, <3>3 DEF PolicyRowsOK
    <3> QED
      BY <3>1, <3>2, <3>3
  <2>4. moved' \subseteq Policies
    BY DEF PolicyRowsOK
  <2> QED
    BY <2>2, <2>3, <2>4 DEF PolicyRowsOK
<1>6. \A q \in Policies : q # n /\ Created(q) /\ q # row => policy[q].to # NoRow
  BY DEF PolicyChain, Current, Created
<1>7. Current' = {n}
  <2>1. \A q \in Policies : q # n /\ Created(q)' => policy'[q].to # NoRow
    <3> SUFFICES ASSUME NEW q \in Policies, q # n, Created(q)' PROVE policy'[q].to # NoRow
      OBVIOUS
    <3>1. CASE q = row
      BY <1>0, <1>3, <3>1
    <3>2. CASE q # row
      BY <1>2, <1>4, <1>6, <3>2
    <3> QED
      BY <3>1, <3>2
  <2> QED
    BY <1>1, <2>1 DEF Current
<1>8. \A q \in Policies : q # n /\ Created(q) =>
        /\ policy[q].from \in Days /\ policy'[q].to \in (-1)..LastDay
  BY <1>0, <1>3, <1>4, <1>6 DEF PolicyRow, Created
<1>9. ASSUME NEW d \in Days, NEW p \in Policies, Created(p)', policy'[p].from <= d
      PROVE  InForce(d)' # {}
  <2>1. CASE from <= d
    <3>1. n \in InForce(d)'
      BY <1>1, <2>1 DEF InForce
    <3> QED
      BY <3>1
  <2>2. CASE ~(from <= d)
    <3>1. p # n /\ Created(p) /\ policy[p].from <= d
      BY <1>1, <1>4, <1>9, <2>2
    <3>2. PICK q : q \in InForce(d)
      BY <3>1 DEF PolicyChain
    <3>3. q \in Policies /\ Created(q) /\ q # n /\ policy[q].from <= d
      BY <3>2 DEF InForce
    <3>4. q \in InForce(d)'
      <4>1. CASE q = row
        <5>1. d <= from - 1
          BY <2>2 DEF Days
        <5> QED
          BY <1>3, <1>4, <3>3, <4>1, <5>1, <1>0 DEF InForce
      <4>2. CASE q # row
        <5>1. policy'[q] = policy[q] /\ Created(q)'
          BY <1>4, <3>3, <4>2
        <5> QED
          BY <3>2, <3>3, <5>1 DEF InForce
      <4> QED
        BY <4>1, <4>2
    <3> QED
      BY <3>4
  <2> QED
    BY <2>1, <2>2
<1>10. ASSUME ~Overtaken' PROVE ~Overtaken
  <2>1. ASSUME NEW p \in Policies, policy[p].to # NoRow, policy[p].to < policy[p].from - 1
        PROVE  FALSE
    <3>1. p # n
      BY <2>1 DEF PolicyRowsOK, Created, NoPolicy
    <3>2. p # row
      BY <1>3, <2>1, <1>0
    <3>3. policy'[p] = policy[p]
      BY <1>2, <3>1, <3>2
    <3> QED
      BY <1>10, <2>1, <3>3 DEF Overtaken
  <2> QED
    BY <2>1 DEF Overtaken
<1>11. ASSUME ~Overtaken', NEW p \in Policies, p # n, Created(p)'
       PROVE  policy'[p].to < policy'[n].from
  <2>1. policy[p].from \in Days /\ Created(p) /\ from \in Int
    <3>1. Created(p)
      BY <1>4, <1>11
    <3>2. policy[p].from \in Days
      BY <1>8, <1>11, <3>1
    <3> QED
      BY <1>0, <3>1, <3>2 DEF Days
  <2>2. CASE p = row
    BY <1>0, <1>1, <1>3, <2>1, <2>2
  <2>3. CASE p # row
    <3>1. policy'[p] = policy[p] /\ policy[p].to \in (-1)..LastDay
      BY <1>4, <1>8, <1>11, <2>1, <2>3
    <3>2. row # NoRow /\ row \in Current
      BY <1>0, <2>1 DEF PolicyChain, Current
    <3>3. policy[p].to < policy[row].from
      BY <1>10, <1>11, <2>1, <2>3, <3>2 DEF PolicyChain
    <3>4. policy[row].from \in Days
      BY <1>0, <1>3, <1>8, <3>2
    <3>5. ~(policy'[row].to < policy'[row].from - 1)
      BY <1>0, <1>3, <1>11, <3>2 DEF Overtaken
    <3>6. ~(from - 1 < policy[row].from - 1)
      BY <1>3, <3>2, <3>5
    <3> QED
      BY <1>0, <1>1, <3>1, <3>3, <3>4, <3>6 DEF Days
  <2> QED
    BY <2>2, <2>3
<1>12. ASSUME ~Overtaken', NEW d \in Days, NEW p \in InForce(d)', NEW q \in InForce(d)'
       PROVE  p = q
  <2>1. ASSUME NEW s \in InForce(d)', s # n
        PROVE  /\ s \in InForce(d) /\ policy'[s].to < from /\ d <= policy'[s].to
               /\ policy'[s].to \in (-1)..LastDay
    <3>1. /\ s \in Policies /\ Created(s)' /\ policy'[s].from <= d
          /\ policy'[s].to = NoRow \/ d <= policy'[s].to
      BY DEF InForce
    <3>2. policy'[s].to < from /\ policy'[s].to # NoRow /\ Created(s)
          /\ policy'[s].to \in (-1)..LastDay
      BY <1>0, <1>1, <1>4, <1>8, <1>11, <1>12, <2>1, <3>1
    <3>3. s \in InForce(d)
      <4>1. policy[s].from = policy'[s].from /\ (policy[s].to = NoRow \/ policy[s].to = policy'[s].to)
        BY <1>0, <1>3, <1>4, <2>1, <3>1
      <4> QED
        BY <3>1, <3>2, <4>1 DEF InForce
    <3> QED
      BY <3>1, <3>2, <3>3
  <2>2. n \in InForce(d)' => from <= d
    BY <1>1 DEF InForce
  <2>3. \A s \in InForce(d)' : s # n => n \notin InForce(d)'
    BY <2>1, <2>2, <1>0 DEF Days
  <2>4. CASE p = n \/ q = n
    BY <2>3, <2>4
  <2>5. CASE p # n /\ q # n
    BY <1>10, <1>12, <2>1, <2>5 DEF PolicyChain
  <2> QED
    BY <2>4, <2>5
<1>13. PolicyChain'
  <2>1. \A p, q \in Current' : p = q
    BY <1>7
  <2>2. \A c \in Current' : \A p \in Policies \ {c} :
          ~Overtaken' /\ Created(p)' => policy'[p].to < policy'[c].from
    BY <1>7, <1>11
  <2> QED
    BY <1>7, <1>9, <1>12, <2>1, <2>2 DEF PolicyChain
<1> QED
  BY <1>5, <1>13

\* A policy is created, to replace the one read.
LEMMA PoliciesCreated ==
  ASSUME PolicyInv, InArea', NEW r \in Requests, CreatePolicy(r)
  PROVE  PolicyInv'
<1> DEFINE n == NewPolicy
           row == task[r].row
<1>0. /\ task[r].op = "policy" /\ PolicyTask(r) /\ TasksOK /\ PolicyRowsOK
      /\ n \in Policies /\ ~Created(n) /\ moved' = moved
      /\ Exclusive(Building)
  <2>1. n \in Policies /\ ~Created(n)
    BY DEF CreatePolicy, NewPolicy
  <2>2. Exclusive(Building)
    BY PolicyHands DEF CreatePolicy, At, PolicyInv, Guarded, CardOps
  <2> QED
    BY <2>1, <2>2 DEF CreatePolicy, At, PolicyInv, InArea, Fits
<1>1. /\ Building \in task[r].on /\ task[r].seen \in Days /\ task[r].kind \in Limits
      /\ row # NoRow => row \in Policies /\ Created(row)
      /\ Raced(Building) \/ IF Current = {} THEN row = NoRow ELSE row \in Current
  BY <1>0 DEF PolicyTask, At
<1>2. /\ task'[r] = Idle /\ raced' = raced /\ Exclusive(Building)'
      /\ \A q \in Requests : q # r => task'[q] = task[q]
  BY <1>0, CloseFacts DEF CreatePolicy, Becomes
<1>3. policy' = [q \in Policies |->
         IF q = n THEN [from |-> task[r].seen, to |-> NoRow, limit |-> task[r].kind]
         ELSE IF q = row THEN [policy[q] EXCEPT !.to = LastDayBefore(task[r].seen)]
         ELSE policy[q]]
  BY DEF CreatePolicy
<1> HIDE DEF n, row
<1>5. /\ PolicyRowsOK'
      /\ \A p \in Policies : Created(p) => Created(p)'
  <2>1. task[r].seen # NoRow /\ LastDayBefore(task[r].seen) \in (-1)..LastDay
    BY <1>1, PolicyAssumption DEF Days, LastDayBefore
  <2>2. ASSUME NEW q \in Policies
        PROVE  /\ policy'[q] \in PolicyRow
               /\ Created(q) => Created(q)'
               /\ IF Created(q)' THEN policy'[q].limit \in Limits ELSE policy'[q] = NoPolicy
    <3>0. policy[q] \in PolicyRow /\ policy \in [Policies -> PolicyRow]
      BY <1>0 DEF PolicyRowsOK
    <3>1. CASE q = n
      <4>1. PICK first : /\ first = [from |-> task[r].seen, to |-> NoRow, limit |-> task[r].kind]
                         /\ policy'[q] = first
        BY <1>3, <3>1
      <4> QED
        BY <1>1, <2>1, <4>1 DEF PolicyRow, Created
    <3>2. CASE q # n /\ q = row
      <4>1. Created(q)
        BY <1>1, <3>2, PolicyAssumption
      <4>2. PICK to : to = LastDayBefore(task[r].seen) /\ policy'[q] = [policy[q] EXCEPT !.to = to]
        BY <1>3, <3>2
      <4>3. policy'[q] \in PolicyRow
        BY <2>1, <3>0, <4>2 DEF PolicyRow
      <4>4. policy'[q].from = policy[q].from /\ policy'[q].limit = policy[q].limit
        BY <3>0, <4>2 DEF PolicyRow
      <4> QED
        BY <1>0, <4>1, <4>3, <4>4 DEF PolicyRowsOK, Created
    <3>3. CASE q # n /\ q # row
      <4>1. policy'[q] = policy[q]
        BY <1>3, <3>3
      <4> QED
        BY <1>0, <3>0, <4>1 DEF PolicyRowsOK, Created
    <3> QED
      BY <3>1, <3>2, <3>3
  <2>3. policy' \in [Policies -> PolicyRow]
    BY <1>3, <2>2
  <2> QED
    BY <1>0, <2>2, <2>3 DEF PolicyRowsOK
<1>6. ASSUME NEW q \in Requests PROVE PolicyTask(q)'
  <2>1. CASE q = r
    BY <1>2, <2>1 DEF PolicyTask, At, Idle
  <2>2. CASE q # r /\ task[q].op = "policy"
    <3>1. PolicyTask(q) /\ Building \in task[q].on
      BY <2>2 DEF PolicyInv, PolicyTask, At
    <3>2. Raced(Building)
      BY <1>0, <1>1, <2>2, <3>1 DEF Exclusive, Raced
    <3> QED
      BY <1>2, <1>5, <2>2, <3>1, <3>2 DEF PolicyTask, At, Raced
  <2>3. CASE q # r /\ task[q].op # "policy"
    <3>1. PolicyTask(q) /\ task'[q] = task[q]
      BY <1>2, <2>3 DEF PolicyInv
    <3> QED
      BY <1>5, <2>3, <3>1 DEF PolicyTask, At
  <2> QED
    BY <2>1, <2>2, <2>3
<1>7. (PoliciesExcused \/ PolicyChain)'
  <2>1. CASE PoliciesExcused
    BY <1>0, <1>2, <2>1 DEF PoliciesExcused, Raced
  <2>2. CASE ~PoliciesExcused
    <3>1. PolicyChain /\ IF Current = {} THEN row = NoRow ELSE row \in Current
      BY <1>1, <2>2 DEF PolicyInv, PoliciesExcused
    <3>2. PICK new, from, limit, old :
            new = n /\ from = task[r].seen /\ limit = task[r].kind /\ old = row
      OBVIOUS
    <3>3. Replaces(new, from, limit, old)
      BY <1>3, <3>2 DEF Replaces
    <3>4. PolicyRowsOK /\ PolicyChain
      BY <1>0, <3>1
    <3>5. new \in Policies /\ ~Created(new)
      BY <1>0, <3>2
    <3>6. from \in Days /\ limit \in Limits
      BY <1>1, <3>2
    <3>7. IF Current = {} THEN old = NoRow ELSE old \in Current
      BY <3>1, <3>2
    <3>8. moved' = moved
      BY <1>0
    <3>9. PolicyChain'
      BY <3>3, <3>4, <3>5, <3>6, <3>7, <3>8, ChainGrows
    <3> QED
      BY <3>9
  <2> QED
    BY <2>1, <2>2
<1> QED
  BY <1>2, <1>5, <1>6, <1>7 DEF PolicyInv, Guarded

\* Where the days of the policies stay, so does the chain.
LEMMA ChainStays ==
  ASSUME PolicyChain,
         \A p \in Policies : policy'[p].from = policy[p].from /\ policy'[p].to = policy[p].to
  PROVE  PolicyChain'
<1>1. /\ Current' = Current
      /\ \A d \in Days : InForce(d)' = InForce(d)
      /\ Overtaken' = Overtaken
      /\ \A p \in Policies : Created(p)' = Created(p)
  BY DEF Current, Created, InForce, Overtaken
<1> QED
  BY <1>1 DEF PolicyChain, Current

\* A policy is changed; if its first day is, that is recorded.
LEMMA PoliciesAmended ==
  ASSUME PolicyInv, InArea', NEW r \in Requests, AmendPolicy(r)
  PROVE  PolicyInv'
<1> DEFINE p == task[r].row
<1>0. /\ task[r].op = "amend" /\ PolicyTask(r) /\ TasksOK /\ PolicyRowsOK
      /\ p \in Policies /\ Created(p) /\ task[r].seen \in Days /\ task[r].kind \in Limits
      /\ Exclusive(Building)
  <2>1. Exclusive(Building)
    BY PolicyHands DEF AmendPolicy, At, PolicyInv, Guarded, CardOps
  <2> QED
    BY <2>1 DEF AmendPolicy, At, PolicyInv, InArea, Fits, PolicyTask
<1>1. /\ task'[r] = Idle /\ raced' = raced /\ Exclusive(Building)'
      /\ \A q \in Requests : q # r => task'[q] = task[q]
  BY <1>0, CloseFacts DEF AmendPolicy, Becomes
<1>2. PICK new : /\ new = [policy[p] EXCEPT !.from = task[r].seen, !.limit = task[r].kind]
                 /\ policy' = [policy EXCEPT ![p] = new]
  BY <1>0 DEF AmendPolicy, PolicyRowsOK
<1>3. policy[p] \in PolicyRow /\ policy \in [Policies -> PolicyRow]
  BY <1>0 DEF PolicyRowsOK
<1>4. new \in PolicyRow
  BY <1>0, <1>2, <1>3 DEF PolicyRow
<1>5. new.from = task[r].seen
  BY <1>0, <1>2, <1>3 DEF PolicyRow
<1>6. new.to = policy[p].to /\ new.limit = task[r].kind
  BY <1>0, <1>2, <1>3 DEF PolicyRow
<1>7. /\ policy'[p] = new /\ policy' \in [Policies -> PolicyRow]
      /\ \A q \in Policies : q # p => policy'[q] = policy[q]
  BY <1>0, <1>2, <1>3, <1>4
<1>8. \A q \in Policies : Created(q)' <=> Created(q)
  BY <1>0, <1>5, <1>7, PolicyAssumption DEF Created, Days
<1>9. moved \subseteq moved' /\ moved' \subseteq Policies
      /\ (new.from # policy[p].from => p \in moved')
  BY <1>0, <1>5 DEF AmendPolicy, PolicyRowsOK
<1>10. PolicyRowsOK'
  <2>1. ASSUME NEW q \in Policies
        PROVE  IF Created(q)' THEN policy'[q].limit \in Limits ELSE policy'[q] = NoPolicy
    <3>1. CASE q = p
      BY <1>0, <1>6, <1>7, <1>8, <3>1
    <3>2. CASE q # p
      BY <1>0, <1>7, <1>8, <3>2 DEF PolicyRowsOK
    <3> QED
      BY <3>1, <3>2
  <2> QED
    BY <1>7, <1>9, <2>1 DEF PolicyRowsOK
<1>11. Current' = Current
  BY <1>6, <1>7, <1>8 DEF Current
<1>12. ASSUME NEW q \in Requests PROVE PolicyTask(q)'
  <2>1. CASE q = r
    BY <1>1, <2>1 DEF PolicyTask, At, Idle
  <2>2. CASE q # r
    <3>1. PolicyTask(q) /\ task'[q] = task[q]
      BY <1>1, <2>2 DEF PolicyInv
    <3> QED
      BY <1>1, <1>8, <1>11, <3>1 DEF PolicyTask, At, Raced
  <2> QED
    BY <2>1, <2>2
<1>13. (PoliciesExcused \/ PolicyChain)'
  <2>1. CASE PoliciesExcused \/ new.from # policy[p].from
    BY <1>1, <1>9, <2>1 DEF PoliciesExcused, Raced
  <2>2. CASE ~PoliciesExcused /\ new.from = policy[p].from
    <3>1. \A q \in Policies : policy'[q].from = policy[q].from /\ policy'[q].to = policy[q].to
      BY <1>6, <1>7, <2>2
    <3> QED
      BY <2>2, <3>1, ChainStays DEF PolicyInv
  <2> QED
    BY <2>1, <2>2
<1> QED
  BY <1>1, <1>10, <1>12, <1>13 DEF PolicyInv, Guarded

\* A request about cards goes on with what it has in hand.
Carries(r, op, seen, kind) ==
    Later(r, op) /\ task'[r].seen = seen /\ task'[r].kind = kind

LEMMA ProceedCarries ==
  ASSUME TasksOK, NEW r \in Requests, NEW new, Shape(new), Proceed(r, new), new.op # "idle",
         new.on = task[r].on, new.row = task[r].row
  PROVE  Carries(r, new.op, new.seen, new.kind)
  BY ProceedFacts, ProceedExclusive DEF Carries, Later, Becomes

LEMMA NumberGenerated ==
  ASSUME InArea, NEW r \in Requests, GenerateNumber(r)
  PROVE  Carries(r, "limit", NextNumber(task[r].kind), task[r].kind)
<1>1. TasksOK /\ Shape(task[r])
  BY DEF InArea, Fits, TasksOK
<1> DEFINE seen == NextNumber(task[r].kind)
<1>2. PICK new : Proceed(r, new) /\ new = [task[r] EXCEPT !.op = "limit", !.seen = seen]
  BY DEF GenerateNumber
<1> HIDE DEF seen
<1>3. Shape(new)
  BY <1>1, <1>2 DEF Shape
<1>4. new.op = "limit"
  BY <1>1, <1>2 DEF Shape
<1>5. new.on = task[r].on /\ new.row = task[r].row
  BY <1>1, <1>2 DEF Shape
<1>6. new.seen = seen /\ new.kind = task[r].kind
  BY <1>1, <1>2 DEF Shape
<1>7. Carries(r, "limit", seen, task[r].kind)
  BY <1>1, <1>2, <1>3, <1>4, <1>5, <1>6, ProceedCarries
<1> QED
  BY <1>7 DEF seen

LEMMA LimitRead ==
  ASSUME InArea, NEW r \in Requests, ReadLimit(r)
  PROVE  IF task[r].kind = "parking" THEN Carries(r, AfterLimit(r), task[r].seen, task[r].kind)
         ELSE \E n \in EffectiveLimits : Carries(r, "count", task[r].seen, n)
<1>1. TasksOK /\ Shape(task[r])
  BY DEF InArea, Fits, TasksOK
<1>2. CASE task[r].kind = "parking"
  <2>1. PICK new : Proceed(r, new) /\ new = [task[r] EXCEPT !.op = AfterLimit(r)]
    BY <1>2 DEF ReadLimit, Goto
  <2>2. PICK op : op = AfterLimit(r) /\ op # "idle" /\ new = [task[r] EXCEPT !.op = op]
    BY <2>1 DEF AfterLimit
  <2>3. Shape(new)
    BY <1>1, <2>2 DEF Shape
  <2>4. new.op = op
    BY <1>1, <2>2 DEF Shape
  <2>5. new.on = task[r].on /\ new.row = task[r].row
    BY <1>1, <2>2 DEF Shape
  <2>6. new.seen = task[r].seen /\ new.kind = task[r].kind
    BY <1>1, <2>2 DEF Shape
  <2>7. Carries(r, new.op, new.seen, new.kind)
    BY <1>1, <2>1, <2>2, <2>3, <2>4, <2>5, ProceedCarries
  <2> QED
    BY <1>2, <2>2, <2>4, <2>6, <2>7
<1>3. CASE task[r].kind # "parking"
  <2>1. ASSUME NEW n \in EffectiveLimits, Proceed(r, [task[r] EXCEPT !.op = "count", !.kind = n])
        PROVE  Carries(r, "count", task[r].seen, n)
    <3>2. PICK new : Proceed(r, new) /\ new = [task[r] EXCEPT !.op = "count", !.kind = n]
      BY <2>1
    <3>3. Shape(new)
      BY <1>1, <3>2 DEF Shape
    <3>4. new.op = "count"
      BY <1>1, <3>2 DEF Shape
    <3>5. new.on = task[r].on /\ new.row = task[r].row
      BY <1>1, <3>2 DEF Shape
    <3>6. new.seen = task[r].seen /\ new.kind = n
      BY <1>1, <3>2 DEF Shape
    <3>7. Carries(r, new.op, new.seen, new.kind)
      BY <1>1, <3>2, <3>3, <3>4, <3>5, ProceedCarries
    <3> QED
      BY <3>4, <3>6, <3>7
  <2>2. \E n \in EffectiveLimits : Carries(r, "count", task[r].seen, n)
    BY <1>3, <2>1, ZenonT(30) DEF ReadLimit
  <2> QED
    BY <1>3, <2>2
<1> QED
  BY <1>2, <1>3

LEMMA CardsCounted ==
  ASSUME InArea, NEW r \in Requests, CountCards(r)
  PROVE  IF Within(task[r].kind) THEN Carries(r, AfterLimit(r), task[r].seen, "building")
         ELSE Later(r, "idle")
<1>1. TasksOK /\ Shape(task[r])
  BY DEF InArea, Fits, TasksOK
<1>2. CASE Within(task[r].kind)
  <2> DEFINE op == AfterLimit(r)
  <2>0. PICK new : /\ Proceed(r, new)
                   /\ new = [task[r] EXCEPT !.op = op, !.kind = "building"]
    BY <1>2 DEF CountCards
  <2>1. op # "idle"
    BY DEF AfterLimit
  <2> HIDE DEF op
  <2>2. Shape(new)
    BY <1>1, <2>0 DEF Shape
  <2>3. new.op = op
    BY <1>1, <2>0 DEF Shape
  <2>4. new.on = task[r].on /\ new.row = task[r].row
    BY <1>1, <2>0 DEF Shape
  <2>5. new.seen = task[r].seen /\ new.kind = "building"
    BY <1>1, <2>0 DEF Shape
  <2>6. Carries(r, new.op, new.seen, new.kind)
    BY <1>1, <2>0, <2>1, <2>2, <2>3, <2>4, ProceedCarries
  <2> QED
    BY <1>2, <2>3, <2>5, <2>6 DEF op
<1> QED
  BY <1>1, <1>2, LaterFacts DEF CountCards

LEMMA CardInserted ==
  ASSUME InArea, NEW r \in Requests, InsertCard(r)
  PROVE  IF task[r].row = NoRow THEN Later(r, "idle")
         ELSE Carries(r, "approve", NewCard, task[r].kind)
<1>1. TasksOK /\ Shape(task[r])
  BY DEF InArea, Fits, TasksOK
<1>2. CASE task[r].row # NoRow
  <2> DEFINE k == NewCard
  <2>1. PICK new : Proceed(r, new) /\ new = [task[r] EXCEPT !.op = "approve", !.seen = k]
    BY <1>2 DEF InsertCard
  <2> HIDE DEF k
  <2>2. Shape(new)
    BY <1>1, <2>1 DEF Shape
  <2>3. new.op = "approve"
    BY <1>1, <2>1 DEF Shape
  <2>4. new.on = task[r].on /\ new.row = task[r].row
    BY <1>1, <2>1 DEF Shape
  <2>5. new.seen = k /\ new.kind = task[r].kind
    BY <1>1, <2>1 DEF Shape
  <2>6. Carries(r, new.op, new.seen, new.kind)
    BY <1>1, <2>1, <2>2, <2>3, <2>4, ProceedCarries
  <2> QED
    BY <1>2, <2>3, <2>5, <2>6 DEF k
<1> QED
  BY <1>1, <1>2, LaterFacts DEF InsertCard

\* The statements that end a request about cards.
EndsCard(r) ==
    \/ RefuseNumber(r) \/ ApproveRequest(r) \/ RejectRequest(r)
    \/ DeactivateCard(r) \/ ReactivateCard(r)

\* The requests about cards that are made, with what they have in hand.
OpensCard(r, new) ==
    \/ \E type \in CardTypes, number \in {NoRow, Padded + 1, ByHand} :
         /\ number \notin NumbersOf(type)
         /\ new = [op |-> IF number = NoRow THEN "number" ELSE "limit",
                   on |-> {Home}, row |-> NoRow, seen |-> number, kind |-> type]
    \/ \E q \in CardRequests :
         /\ cardReq[q].status = "pending"
         /\ \/ new = [op |-> "number", on |-> {Home, q}, row |-> q, seen |-> NoRow, kind |-> TypeOf[q]]
            \/ new = [op |-> "reject", on |-> {q}, row |-> q, seen |-> 0, kind |-> NoRow]
    \/ \E k \in Cards :
         \/ /\ card[k].status = "active"
            /\ \E status \in {"lost", "deactivated"} :
                 new = [op |-> "deactivate", on |-> {Home}, row |-> k, seen |-> 0, kind |-> status]
         \/ /\ card[k].status \in {"lost", "deactivated"}
            /\ new = [op |-> "limit", on |-> {Home}, row |-> k, seen |-> NoRow, kind |-> card[k].type]

\* Every step about cards is one of these.
LEMMA CardCases ==
  ASSUME InArea, CardStep
  PROVE  \/ \E r \in Requests : \E new :
              /\ Open(r, {"cards"}, new) /\ OpensCard(r, new) /\ Shape(new)
              /\ UNCHANGED cardVars /\ UNCHANGED policyVars
         \/ \E r \in Requests : \/ GenerateNumber(r) \/ ReadLimit(r) \/ CountCards(r)
                                \/ InsertCard(r) \/ EndsCard(r)
         \/ \E q \in CardRequests : RequestCard(q)
         \/ \E n \in LimitColumns : SetOverride(n)
<1> DEFINE Made == \E r \in Requests : \E new :
              /\ Open(r, {"cards"}, new) /\ OpensCard(r, new) /\ Shape(new)
              /\ UNCHANGED cardVars /\ UNCHANGED policyVars
<1>1. ASSUME NEW r \in Requests, NEW type \in CardTypes, NEW number \in {NoRow, Padded + 1, ByHand},
             OpenCard(r, type, number)
      PROVE  Made
  <2>1. PICK new : /\ Open(r, {"cards"}, new)
                   /\ new = [op |-> IF number = NoRow THEN "number" ELSE "limit",
                             on |-> {Home}, row |-> NoRow, seen |-> number, kind |-> type]
    BY <1>1 DEF OpenCard
  <2>2. Shape(new)
    BY <2>1 DEF Shape
  <2>3. OpensCard(r, new)
    BY <1>1, <2>1 DEF OpenCard, OpensCard
  <2> QED
    BY <1>1, <2>1, <2>2, <2>3 DEF OpenCard
<1>2. ASSUME NEW r \in Requests, NEW q \in CardRequests, OpenApproval(r, q)
      PROVE  Made
  <2>1. PICK new : /\ Open(r, {"cards"}, new)
                   /\ new = [op |-> "number", on |-> {Home, q}, row |-> q, seen |-> NoRow,
                             kind |-> TypeOf[q]]
    BY <1>2 DEF OpenApproval
  <2>2. Shape(new)
    BY <2>1 DEF Shape
  <2>3. OpensCard(r, new)
    BY <1>2, <2>1 DEF OpenApproval, OpensCard
  <2> QED
    BY <1>2, <2>1, <2>2, <2>3 DEF OpenApproval
<1>3. ASSUME NEW r \in Requests, NEW q \in CardRequests, OpenRejection(r, q)
      PROVE  Made
  <2>0. PICK new : Open(r, {"cards"}, new) /\ new = [Idle EXCEPT !.op = "reject", !.on = {q}, !.row = q]
    BY <1>3 DEF OpenRejection
  <2>1. /\ Open(r, {"cards"}, new)
        /\ new = [op |-> "reject", on |-> {q}, row |-> q, seen |-> 0, kind |-> NoRow]
    BY <2>0 DEF Idle
  <2>2. Shape(new)
    BY <2>1 DEF Shape
  <2>3. OpensCard(r, new)
    BY <1>3, <2>1 DEF OpenRejection, OpensCard, MayReject
  <2> QED
    BY <1>3, <2>1, <2>2, <2>3 DEF OpenRejection
<1>4. ASSUME NEW r \in Requests, NEW k \in Cards, NEW status \in {"lost", "deactivated"},
             OpenDeactivation(r, k, status)
      PROVE  Made
  <2>0. PICK new : /\ Open(r, {"cards"}, new)
                   /\ new = [Idle EXCEPT !.op = "deactivate", !.on = {Home}, !.row = k, !.kind = status]
    BY <1>4 DEF OpenDeactivation
  <2>1. /\ Open(r, {"cards"}, new)
        /\ new = [op |-> "deactivate", on |-> {Home}, row |-> k, seen |-> 0, kind |-> status]
    BY <2>0 DEF Idle
  <2>2. Shape(new)
    BY <2>1 DEF Shape
  <2>3. OpensCard(r, new)
    BY <1>4, <2>1 DEF OpenDeactivation, OpensCard
  <2> QED
    BY <1>4, <2>1, <2>2, <2>3 DEF OpenDeactivation
<1>5. ASSUME NEW r \in Requests, NEW k \in Cards, OpenReactivation(r, k)
      PROVE  Made
  <2>1. PICK new : /\ Open(r, {"cards"}, new)
                   /\ new = [op |-> "limit", on |-> {Home}, row |-> k, seen |-> NoRow,
                             kind |-> card[k].type]
    BY <1>5 DEF OpenReactivation
  <2>2. Shape(new)
    BY <2>1 DEF Shape
  <2>3. OpensCard(r, new)
    BY <1>5, <2>1 DEF OpenReactivation, OpensCard
  <2> QED
    BY <1>5, <2>1, <2>2, <2>3 DEF OpenReactivation
<1> HIDE DEF Made
<1>6. ASSUME NEW r \in Requests,
             \/ \E type \in CardTypes, number \in {NoRow, Padded + 1, ByHand} : OpenCard(r, type, number)
             \/ \E q \in CardRequests : OpenApproval(r, q) \/ OpenRejection(r, q)
             \/ \E k \in Cards :
                  \/ \E status \in {"lost", "deactivated"} : OpenDeactivation(r, k, status)
                  \/ OpenReactivation(r, k)
      PROVE  Made
  BY <1>1, <1>2, <1>3, <1>4, <1>5, <1>6
<1>7. \/ Made
      \/ \E r \in Requests : \/ GenerateNumber(r) \/ ReadLimit(r) \/ CountCards(r)
                             \/ InsertCard(r) \/ EndsCard(r)
      \/ \E q \in CardRequests : RequestCard(q)
      \/ \E n \in LimitColumns : SetOverride(n)
  BY <1>6 DEF CardStep, EndsCard
<1> QED
  BY <1>7 DEF Made

\* What the other requests about cards do to the requests about policies.
LEMMA CardsBesidePolicies ==
  ASSUME InArea, CardStep
  PROVE  /\ UNCHANGED policyVars
         /\ \A o : Exclusive(o) => Exclusive(o)'
         /\ \A r \in Requests : task'[r] = task[r] \/ task'[r].op \notin {"policy", "amend"}
<1>0. TasksOK
  BY DEF InArea, Fits
<1>1. CASE \E r \in Requests : \E new :
              /\ Open(r, {"cards"}, new) /\ OpensCard(r, new) /\ Shape(new)
              /\ UNCHANGED cardVars /\ UNCHANGED policyVars
  <2>0. PICK r \in Requests : \E new :
              /\ Open(r, {"cards"}, new) /\ OpensCard(r, new) /\ Shape(new)
              /\ UNCHANGED cardVars /\ UNCHANGED policyVars
    BY <1>1
  <2>1. PICK new : /\ Open(r, {"cards"}, new) /\ OpensCard(r, new) /\ Shape(new)
                   /\ UNCHANGED policyVars
    BY <2>0
  <2>2. new.op \notin {"policy", "amend"}
    BY <2>1 DEF OpensCard
  <2>3. Becomes(r, new) /\ \A o : Exclusive(o) => Exclusive(o)'
    BY <1>0, <2>1, OpenFacts, OpenExclusive
  <2> QED
    BY <2>1, <2>2, <2>3 DEF Becomes
<1>2. ASSUME NEW r \in Requests, NEW op, op \notin {"policy", "amend"}, Later(r, op)
      PROVE  /\ \A o : Exclusive(o) => Exclusive(o)'
             /\ \A q \in Requests : task'[q] = task[q] \/ task'[q].op \notin {"policy", "amend"}
  BY <1>2 DEF Later
<1>3. ASSUME NEW r \in Requests,
             \/ GenerateNumber(r) \/ ReadLimit(r) \/ CountCards(r) \/ InsertCard(r) \/ EndsCard(r)
      PROVE  UNCHANGED policyVars /\ \E op : op \notin {"policy", "amend"} /\ Later(r, op)
  <2>1. AfterLimit(r) \notin {"policy", "amend"}
    BY DEF AfterLimit
  <2>2. CASE GenerateNumber(r)
    <3>1. \E op : op \notin {"policy", "amend"} /\ Later(r, op)
      BY <2>1, <2>2, NumberGenerated DEF Carries
    <3> QED
      BY <2>2, <3>1 DEF GenerateNumber, CardFrame
  <2>3. CASE ReadLimit(r)
    <3>1. \E op : op \notin {"policy", "amend"} /\ Later(r, op)
      BY <2>1, <2>3, LimitRead DEF Carries
    <3>2. CardFrame
      BY <2>3, ZenonT(30) DEF ReadLimit
    <3> QED
      BY <3>1, <3>2 DEF CardFrame
  <2>4. CASE CountCards(r)
    <3>1. \E op : op \notin {"policy", "amend"} /\ Later(r, op)
      BY <2>1, <2>4, CardsCounted DEF Carries
    <3> QED
      BY <2>4, <3>1 DEF CountCards, CardFrame
  <2>5. CASE InsertCard(r)
    <3>1. \E op : op \notin {"policy", "amend"} /\ Later(r, op)
      BY <2>1, <2>5, CardInserted DEF Carries
    <3> QED
      BY <2>5, <3>1 DEF InsertCard
  <2>6. CASE EndsCard(r)
    BY <1>0, <2>6, LaterFacts DEF EndsCard, RefuseNumber, ApproveRequest, RejectRequest,
       DeactivateCard, ReactivateCard, CardFrame
  <2> QED
    BY <1>3, <2>2, <2>3, <2>4, <2>5, <2>6
<1>4. CASE (\E q \in CardRequests : RequestCard(q)) \/ \E n \in LimitColumns : SetOverride(n)
  BY <1>0, <1>4, AtOnceFacts DEF RequestCard, SetOverride
<1>5. CASE \E r \in Requests : \/ GenerateNumber(r) \/ ReadLimit(r) \/ CountCards(r)
                               \/ InsertCard(r) \/ EndsCard(r)
  BY <1>2, <1>3, <1>5
<1> QED
  BY <1>1, <1>4, <1>5, CardCases

LEMMA PoliciesStep == PolicyInv /\ [OfficeNext]_officeVars => PolicyInv'
<1> SUFFICES ASSUME PolicyInv, [OfficeNext]_officeVars PROVE PolicyInv'
  OBVIOUS
<1>1. CASE UNCHANGED officeVars
  <2>1. UNCHANGED <<area, ops, task, raced, cut, policy, today, moved>>
    BY <1>1 DEF officeVars, requestVars, policyVars
  <2>2. InArea' = InArea /\ Guarded(Building)' = Guarded(Building)
    BY <2>1 DEF InArea, Fits, TasksOK, Shape, OpsOf, Guarded, Exclusive
  <2> QED
    BY <2>1, <2>2, PoliciesQuiet DEF PolicyInv
<1>2. ASSUME OfficeNext
      PROVE  PolicyInv'
  <2>0. InArea' /\ area' = area /\ raced \subseteq raced' /\ InArea /\ TasksOK
    BY <1>2, OfficeRuns DEF PolicyInv, InArea, Fits
  <2>1. CASE PolicyStep
    <3>1. CASE \E r \in Requests, from \in Days, limit \in Limits :
                 \/ OpenPolicy(r, from, limit)
                 \/ \E p \in Policies : OpenAmendment(r, p, from, limit)
      BY <2>0, <3>1, PoliciesOpen
    <3>2. CASE \E r \in Requests : CreatePolicy(r) \/ AmendPolicy(r)
      BY <2>0, <3>2, PoliciesCreated, PoliciesAmended
    <3>3. CASE Tick
      <4>1. UNCHANGED <<policy, moved, task, raced>>
        BY <3>3 DEF Tick, requestVars
      <4>2. Guarded(Building)'
        BY <2>0, <4>1 DEF PolicyInv, Guarded, Exclusive
      <4> QED
        BY <2>0, <4>1, <4>2, PoliciesQuiet
    <3> QED
      BY <2>1, <3>1, <3>2, <3>3 DEF PolicyStep
  <2>2. CASE CardStep
    BY <2>0, <2>2, CardsBesidePolicies, PoliciesQuiet DEF PolicyInv, Guarded, policyVars
  <2>3. ASSUME NEW r \in Requests, Fail(r), UNCHANGED policyVars
        PROVE  PolicyInv'
    <3>1. Becomes(r, Idle) /\ Guarded(Building)'
      BY <2>0, <2>3, FailFacts DEF PolicyInv, Guarded
    <3>2. \A q \in Requests : task'[q] = task[q] \/ task'[q].op \notin {"policy", "amend"}
      BY <3>1 DEF Becomes, Idle
    <3> QED
      BY <2>0, <2>3, <3>1, <3>2, PoliciesQuiet DEF policyVars
  <2>4. CASE /\ ContractStep \/ ParkingStep \/ AccountStep \/ MeterStep
             /\ UNCHANGED policyVars
    <3>1. area \notin CardAreas
      BY <2>0, <2>4, ContractRuns, ParkingRuns, AccountRuns, MeterRuns DEF ContractAreas, CardAreas
    <3>2. \A q \in Requests : task'[q].op \notin {"policy", "amend"}
      BY <2>0, <3>1 DEF InArea, Fits, OpsOf, ContractOps, ParkingOps, AccountOps, MeterOps, CardAreas
    <3> QED
      BY <2>0, <2>4, <3>1, <3>2, PoliciesQuiet DEF policyVars, Guarded
  <2> QED
    BY <1>2, <2>1, <2>2, <2>3, <2>4 DEF OfficeNext, FailAny, BesidesContracts, BesidesParking,
       BesidesAccounts, BesidesMeters
<1> QED
  BY <1>1, <1>2

\* Whatever versions of the policy are created, on each day one is in force and
\* one is current.
THEOREM PoliciesFollow == OfficeSpec => []OnePolicyADay
<1>1. ASSUME NEW S, \A p, q \in S : p = q
      PROVE  Cardinality(S) <= 1 /\ (S # {} => Cardinality(S) = 1)
  <2>1. S = {} \/ \E p \in S : S = {p}
    BY <1>1
  <2>2. S = {} => Cardinality(S) = 0
    BY FS_EmptySet
  <2>3. S # {} => Cardinality(S) = 1
    BY <2>1, FS_Singleton
  <2> QED
    BY <2>2, <2>3
<1>2. PolicyInv => OnePolicyADay
  <2> SUFFICES ASSUME PolicyInv, ~PoliciesExcused
               PROVE  /\ Cardinality(Current) <= 1
                      /\ \A d \in Days :
                           (\E p \in Policies : Created(p) /\ policy[p].from <= d) =>
                             /\ InForce(d) # {}
                             /\ Overtaken \/ Cardinality(InForce(d)) = 1
    BY DEF OnePolicyADay, PoliciesExcused
  <2>1. PolicyChain
    BY DEF PolicyInv
  <2>2. Cardinality(Current) <= 1
    BY <1>1, <2>1 DEF PolicyChain
  <2>3. ASSUME NEW d \in Days, \E p \in Policies : Created(p) /\ policy[p].from <= d
        PROVE  InForce(d) # {} /\ (Overtaken \/ Cardinality(InForce(d)) = 1)
    <3>1. InForce(d) # {}
      BY <2>1, <2>3 DEF PolicyChain
    <3>2. Overtaken \/ \A p, q \in InForce(d) : p = q
      BY <2>1 DEF PolicyChain
    <3> QED
      BY <1>1, <3>1, <3>2
  <2> QED
    BY <2>2, <2>3
<1> QED
  BY <1>2, PoliciesInit, PoliciesStep, PTL DEF OfficeSpec

-----------------------------------------------------------------------------
(* Access cards *)

\* The type of the card a request is about.
KindOf(r) == IF At(r, "count") THEN "building" ELSE task[r].kind
Exhausted(type) == {ByHand, NaN, Padded + 1} \cap NumbersOf(type) # {}
IssuedTo(q) == {k \in Cards : issuedFor[k] = q}
Undecided(q) == cardReq[q].status = "pending" /\ IssuedTo(q) = {}
Room == \E n \in EffectiveLimits : Cardinality(ActiveBuildingCards) < n

Deciding == {"number", "limit", "count", "insert", "approve", "reject"}

\* What a request has in hand, and what it has read.
CardTaskTyped(r) ==
    /\ task[r].op \in {"number", "limit", "count", "insert", "revive", "deactivate"} =>
         Home \in task[r].on
    /\ task[r].op \in {"number", "limit", "insert", "revive"} => task[r].kind \in CardTypes
    /\ task[r].op \in {"number", "insert"} => task[r].row \in CardRequests \cup {NoRow}
    /\ task[r].op \in {"limit", "count"} => task[r].row \in Cards \cup CardRequests \cup {NoRow}
    /\ task[r].op \in {"deactivate", "revive"} => task[r].row \in Cards
    /\ At(r, "deactivate") => task[r].kind \in {"lost", "deactivated"}
    /\ task[r].op \in {"limit", "count", "insert"} /\ task[r].row \notin Cards =>
         task[r].seen \in Numbers
    /\ task[r].op \in {"limit", "count", "revive", "deactivate"} /\ task[r].row \in Cards =>
         Issued(task[r].row)
    /\ task[r].op \in {"limit", "count", "revive"} /\ task[r].row \in Cards =>
         card[task[r].row].type = KindOf(r)
    /\ task[r].op \in {"approve", "reject"} => task[r].row \in CardRequests
    /\ At(r, "approve") => task[r].seen \in Cards
    /\ task[r].op \in Deciding /\ task[r].row \in CardRequests => task[r].row \in task[r].on

\* Unless another request had the apartment in hand, the number and the limit
\* read are still what they were.
CardTaskFresh(r) ==
    /\ task[r].op \in {"limit", "count", "insert"} /\ task[r].row \notin Cards =>
         task[r].seen \notin NumbersOf(KindOf(r)) \/ Exhausted(KindOf(r))
    /\ At(r, "count") => task[r].kind \in EffectiveLimits
    /\ task[r].op \in {"insert", "revive"} /\ task[r].kind = "building" => Room

\* Unless another request had it in hand, a request for a card is decided once.
CardTaskDecides(r) ==
    LET q == task[r].row
    IN  IF At(r, "approve") THEN cardReq[q].status = "pending" /\ IssuedTo(q) = {task[r].seen}
        ELSE Undecided(q)

CardRequestExcused(q) == Raced(q) \/ q \in cut

CardRequestOK(q) ==
    \/ cardReq[q].status = "approved" /\ IssuedTo(q) = {cardReq[q].issued}
    \/ cardReq[q].status # "approved" /\ IssuedTo(q) = {}
    \/ \E r \in Requests : At(r, "approve") /\ task[r].row = q

CardRowsOK ==
    /\ CardTypeOK
    /\ \A k \in Cards : IF Issued(k) THEN card[k].number # NoRow ELSE issuedFor[k] = NoRow

CardsTyped ==
    /\ PolicyInv /\ CardRowsOK
    /\ Guarded(Home) /\ \A q \in CardRequests : Guarded(q)
    /\ \A r \in Requests : CardTaskTyped(r)

CardsFresh == Raced(Home) \/ \A r \in Requests : CardTaskFresh(r)

CardsDecided ==
    /\ \A r \in Requests :
         task[r].op \in Deciding /\ task[r].row \in CardRequests
           /\ ~CardRequestExcused(task[r].row) => CardTaskDecides(r)
    /\ \A q \in CardRequests : CardRequestExcused(q) \/ CardRequestOK(q)

CardInv == CardsTyped /\ CardsFresh /\ CardsDecided

\* No step has two requests about policies and cards share an object unrecorded.
LEMMA GuardKept ==
  ASSUME InArea, InArea', area' = area, raced \subseteq raced', OfficeNext, NEW o, Guarded(o)
  PROVE  Guarded(o)'
<1>0. TasksOK
  BY DEF InArea, Fits
<1> SUFFICES ASSUME area \in CardAreas, Exclusive(o) PROVE Exclusive(o)'
  BY DEF Guarded
<1>1. CASE CardStep
  BY <1>1, CardsBesidePolicies
<1>2. ASSUME NEW r \in Requests, NEW from, NEW limit, OpenPolicy(r, from, limit)
      PROVE  Exclusive(o)'
  <2>1. PICK p, new : /\ Open(r, {"policies", "cards"}, new)
                      /\ new = [op |-> "policy", on |-> {Building, Home}, row |-> p,
                                seen |-> from, kind |-> limit]
    BY <1>2 DEF OpenPolicy
  <2> QED
    BY <1>0, <2>1, OpenExclusive DEF Shape
<1>3. ASSUME NEW r \in Requests, NEW p, NEW from, NEW limit, OpenAmendment(r, p, from, limit)
      PROVE  Exclusive(o)'
  <2>1. PICK new : /\ Open(r, {"policies", "cards"}, new)
                   /\ new = [op |-> "amend", on |-> {p, Home}, row |-> p,
                             seen |-> from, kind |-> limit]
    BY <1>3 DEF OpenAmendment
  <2> QED
    BY <1>0, <2>1, OpenExclusive DEF Shape
<1>4. ASSUME NEW r \in Requests, CreatePolicy(r) \/ AmendPolicy(r)
      PROVE  Exclusive(o)'
  BY <1>0, <1>4, CloseFacts DEF CreatePolicy, AmendPolicy
<1>5. CASE Tick
  BY <1>5 DEF Tick, requestVars, Exclusive
<1>6. CASE PolicyStep
  BY <1>2, <1>3, <1>4, <1>5, <1>6 DEF PolicyStep
<1>7. CASE FailAny
  BY <1>0, <1>7, FailFacts DEF FailAny
<1>8. CASE ContractStep \/ ParkingStep \/ AccountStep \/ MeterStep
  BY <1>8, ContractRuns, ParkingRuns, AccountRuns, MeterRuns DEF ContractAreas, CardAreas
<1> QED
  BY <1>1, <1>6, <1>7, <1>8 DEF OfficeNext

LEMMA CardsInit == OfficeInit => CardInv
<1> SUFFICES ASSUME OfficeInit PROVE CardInv
  OBVIOUS
<1>1. PolicyInv /\ InArea /\ TasksOK
  BY PoliciesInit DEF PolicyInv, InArea, Fits
<1>2. /\ cardReq = [q \in CardRequests |-> [status |-> "absent", issued |-> NoRow]]
      /\ override = [own |-> NoRow, older |-> NoRow] /\ issuedFor = [k \in Cards |-> NoRow]
  BY DEF OfficeInit, CardInit
<1>3. card \in [Cards -> CardRow] /\ \A k \in Cards : Issued(k) => card[k].number # NoRow
  <2>0. PICK first \in {CHOOSE k \in Cards : TRUE},
             new \in {NoCard} \cup IF area = "cards" THEN {FirstCard} ELSE {} :
               card = [k \in Cards |-> IF k = first THEN new ELSE NoCard]
    BY DEF OfficeInit, CardInit
  <2>1. /\ card = [k \in Cards |-> IF k = first THEN new ELSE NoCard]
        /\ new \in {NoCard, FirstCard}
    BY <2>0
  <2>2. /\ NoCard \in CardRow /\ FirstCard \in CardRow
        /\ NoCard.status = "absent" /\ FirstCard.number # NoRow
    BY CardAssumption DEF NoCard, FirstCard, CardRow, CardTypes, Numbers
  <2> HIDE DEF NoCard, FirstCard, CardRow
  <2>3. \A k \in Cards : card[k] \in {NoCard, FirstCard}
    BY <2>1
  <2> QED
    BY <2>1, <2>2, <2>3 DEF Issued
<1>4. CardRowsOK
  BY <1>2, <1>3 DEF CardRowsOK, CardTypeOK, CardRequestRow, LimitColumns
<1>5. area \in CardAreas => \A r \in Requests : task[r] = Idle
  BY DEF OfficeInit, ContractInit, CardAreas
<1>6. \A o : Guarded(o)
  BY <1>5 DEF Guarded, Exclusive, Idle
<1>7. ASSUME NEW r \in Requests
      PROVE  task[r].op \notin CardOps
  <2>1. CASE area \in CardAreas
    BY <1>5, <2>1 DEF Idle, CardOps
  <2>2. CASE area \notin CardAreas
    BY <1>1, <2>2 DEF InArea, Fits, OpsOf, ContractOps, ParkingOps, AccountOps, MeterOps, CardAreas,
       CardOps
  <2> QED
    BY <2>1, <2>2
<1>8. ASSUME NEW r \in Requests
      PROVE  CardTaskTyped(r) /\ CardTaskFresh(r) /\ task[r].op \notin Deciding
  BY <1>7 DEF CardTaskTyped, CardTaskFresh, CardOps, At, Deciding
<1>9. \A q \in CardRequests : CardRequestOK(q)
  <2>1. \A k \in Cards, q \in CardRequests : issuedFor[k] # q
    BY <1>2, CardAssumption
  <2> QED
    BY <1>2, <2>1 DEF CardRequestOK, IssuedTo
<1> QED
  BY <1>1, <1>4, <1>6, <1>8, <1>9 DEF CardInv, CardsTyped, CardsFresh, CardsDecided

\* The number generated is free, unless there is none.
LEMMA NumberFree ==
  ASSUME CardRowsOK, NEW type \in CardTypes
  PROVE  /\ NextNumber(type) \in Numbers
         /\ NextNumber(type) \notin NumbersOf(type) \/ Exhausted(type)
<1> DEFINE N == NumbersOf(type)
           P == {k \in Cards : Issued(k) /\ card[k].type = type}
           f == [k \in Cards |-> card[k].number]
<1>1. N \subseteq Numbers /\ N = {f[k] : k \in P} /\ IsFiniteSet(P)
  <2>1. IsFiniteSet(P)
    BY FS_Subset, CardAssumption
  <2>2. \A k \in P : card[k].number \in Numbers
    BY DEF CardRowsOK, CardTypeOK, CardRow
  <2> QED
    BY <2>1, <2>2 DEF NumbersOf
<1>2. CASE ByHand \in N \/ NaN \in N
  BY <1>2 DEF NextNumber, Exhausted, Numbers
<1>3. CASE ByHand \notin N /\ NaN \notin N
  <2>1. N \subseteq Nat
    BY <1>1, <1>3 DEF Numbers
  <2>2. \A k \in P : f[k] \in Nat
    BY <1>1, <2>1
  <2> HIDE DEF N, P, f
  <2>3. PICK n \in {f[k] : k \in P} \cup {0} : \A k \in P : f[k] <= n
    BY <1>1, <2>2, GreatestNumber
  <2>4. n \in N \cup {0} /\ \A x \in N \cup {0} : n >= x
    BY <1>1, <2>1, <2>2, <2>3
  <2>5. /\ Max(N \cup {0}) \in N \cup {0}
        /\ \A x \in N \cup {0} : Max(N \cup {0}) >= x
    BY <2>4 DEF Max
  <2>6. NextNumber(type) = LastNumber(N) + 1
    BY <1>3 DEF NextNumber, N
  <2>7. CASE Padded \in N
    BY <2>6, <2>7, CardAssumption DEF LastNumber, Numbers, Exhausted, N
  <2>8. CASE Padded \notin N
    BY <2>1, <2>5, <2>6, <2>8 DEF LastNumber, Numbers, Exhausted, N
  <2> QED
    BY <2>7, <2>8
<1> QED
  BY <1>2, <1>3

\* Every step is one about cards or leaves them alone.
CardsAside == UNCHANGED cardVars

LEMMA CardStepCases ==
  ASSUME OfficeNext
  PROVE  CardStep \/ (CardsAside /\ (PolicyStep \/ UNCHANGED policyVars))
<1>1. CASE PolicyStep /\ UNCHANGED cardVars
  BY <1>1 DEF CardsAside
<1>2. CASE (ContractStep /\ BesidesContracts) \/ (ParkingStep /\ BesidesParking)
  BY <1>2 DEF BesidesContracts, BesidesParking, CardsAside
<1>3. CASE (AccountStep /\ BesidesAccounts) \/ (MeterStep /\ BesidesMeters)
  BY <1>3 DEF BesidesAccounts, BesidesMeters, CardsAside
<1>4. CASE FailAny
  BY <1>4 DEF FailAny, CardsAside
<1> QED
  BY <1>1, <1>2, <1>3, <1>4 DEF OfficeNext

\* What was issued stays issued, of the same type.
CardsStay ==
    \A k \in Cards : Issued(k) => Issued(k)' /\ card'[k].type = card[k].type

LEMMA CardRowsKept ==
  ASSUME CardsTyped, OfficeNext
  PROVE  CardRowsOK' /\ CardsStay
<1>0. CardRowsOK /\ InArea
  BY DEF CardsTyped, PolicyInv
<1>1. CASE UNCHANGED cardVars
  BY <1>0, <1>1 DEF cardVars, CardRowsOK, CardTypeOK, CardsStay, Issued
<1>2. ASSUME NEW r \in Requests, CardTaskTyped(r), InsertCard(r)
      PROVE  CardRowsOK' /\ CardsStay
  <2>1. PICK k \in Cards : k = NewCard /\ ~Issued(k)
    BY <1>2 DEF InsertCard, NewCard
  <2>2. PICK new : /\ new = [status |-> "active", type |-> task[r].kind, number |-> task[r].seen]
                   /\ card' = [card EXCEPT ![k] = new]
                   /\ issuedFor' = [issuedFor EXCEPT ![k] = task[r].row]
                   /\ cardReq' = cardReq /\ override' = override
    BY <1>2, <2>1 DEF InsertCard
  <2>3. /\ task[r].kind \in CardTypes /\ task[r].row \in CardRequests \cup {NoRow}
        /\ task[r].seen \in Numbers /\ task[r].seen # NoRow
    BY <1>2, CardAssumption DEF CardTaskTyped, InsertCard, At
  <2>4. new \in CardRow
    BY <2>2, <2>3 DEF CardRow
  <2>5. /\ card'[k] = new /\ card' \in [Cards -> CardRow]
        /\ \A c \in Cards : c # k => card'[c] = card[c] /\ issuedFor'[c] = issuedFor[c]
        /\ issuedFor' \in [Cards -> CardRequests \cup {NoRow}]
    BY <1>0, <2>2, <2>3, <2>4 DEF CardRowsOK, CardTypeOK
  <2>6. new.status = "active" /\ new.number # NoRow
    BY <2>2, <2>3
  <2> QED
    BY <1>0, <2>1, <2>2, <2>5, <2>6 DEF CardRowsOK, CardTypeOK, CardsStay, Issued
<1>3. ASSUME NEW r \in Requests, CardTaskTyped(r), DeactivateCard(r) \/ ReactivateCard(r)
      PROVE  CardRowsOK' /\ CardsStay
  <2>1. PICK status \in {"active", "lost", "deactivated"} :
          /\ card' = [card EXCEPT ![task[r].row].status = status]
          /\ UNCHANGED <<cardReq, override, issuedFor>>
    BY <1>3 DEF CardTaskTyped, DeactivateCard, ReactivateCard, At, CardFrame
  <2>2. task[r].row \in Cards /\ Issued(task[r].row)
    BY <1>3 DEF CardTaskTyped, DeactivateCard, ReactivateCard, At
  <2>a. PICK k \in Cards : k = task[r].row /\ Issued(k)
    BY <2>2
  <2>3. PICK new : /\ k \in Cards /\ Issued(k)
                   /\ new = [card[k] EXCEPT !.status = status]
                   /\ card' = [card EXCEPT ![k] = new]
    BY <1>0, <2>1, <2>a DEF CardRowsOK, CardTypeOK
  <2>4. card[k] \in CardRow /\ card \in [Cards -> CardRow]
    BY <1>0 DEF CardRowsOK, CardTypeOK
  <2>5. new \in CardRow
    BY <2>1, <2>3, <2>4 DEF CardRow
  <2>6. new.status = status /\ new.type = card[k].type /\ new.number = card[k].number
    BY <2>1, <2>3, <2>4 DEF CardRow
  <2>7. /\ card'[k] = new /\ card' \in [Cards -> CardRow]
        /\ \A c \in Cards : c # k => card'[c] = card[c]
    BY <2>3, <2>4, <2>5
  <2>8. new.status # "absent" /\ UNCHANGED <<cardReq, override, issuedFor>>
    BY <2>1, <2>6
  <2> QED
    BY <1>0, <2>a, <2>6, <2>7, <2>8 DEF CardRowsOK, CardTypeOK, CardsStay, Issued
<1>4. ASSUME NEW q \in CardRequests, NEW new \in CardRequestRow,
             cardReq' = [cardReq EXCEPT ![q] = new], UNCHANGED <<card, override, issuedFor>>
      PROVE  CardRowsOK' /\ CardsStay
  BY <1>0, <1>4 DEF CardRowsOK, CardTypeOK, CardsStay, Issued
<1>5. ASSUME NEW q \in CardRequests, NEW status \in {"pending", "rejected"},
             cardReq' = [cardReq EXCEPT ![q].status = status], UNCHANGED <<card, override, issuedFor>>
      PROVE  CardRowsOK' /\ CardsStay
  <2>1. PICK new : new = [cardReq[q] EXCEPT !.status = status] /\ cardReq' = [cardReq EXCEPT ![q] = new]
    BY <1>0, <1>5 DEF CardRowsOK, CardTypeOK
  <2>2. cardReq[q] \in CardRequestRow
    BY <1>0 DEF CardRowsOK, CardTypeOK
  <2>3. new \in CardRequestRow
    BY <2>1, <2>2 DEF CardRequestRow
  <2> QED
    BY <1>4, <1>5, <2>1, <2>3
<1>6. ASSUME NEW r \in Requests, CardTaskTyped(r), ApproveRequest(r)
      PROVE  CardRowsOK' /\ CardsStay
  <2>1. PICK new : /\ new = [status |-> "approved", issued |-> task[r].seen]
                   /\ cardReq' = [cardReq EXCEPT ![task[r].row] = new]
    BY <1>6 DEF ApproveRequest
  <2>2. task[r].row \in CardRequests /\ new \in CardRequestRow
    BY <1>6, <2>1 DEF ApproveRequest, CardTaskTyped, At, CardRequestRow
  <2> QED
    BY <1>4, <1>6, <2>1, <2>2 DEF ApproveRequest
<1>7. ASSUME NEW r \in Requests, CardTaskTyped(r), RejectRequest(r)
      PROVE  CardRowsOK' /\ CardsStay
  BY <1>5, <1>7 DEF RejectRequest, CardTaskTyped, At
<1>8. ASSUME NEW q \in CardRequests, RequestCard(q)
      PROVE  CardRowsOK' /\ CardsStay
  BY <1>5, <1>8 DEF RequestCard
<1>9. CASE \E n \in LimitColumns : SetOverride(n)
  BY <1>0, <1>9 DEF SetOverride, CardRowsOK, CardTypeOK, CardsStay, Issued
<1>10. ASSUME NEW r \in Requests, GenerateNumber(r) \/ ReadLimit(r) \/ CountCards(r) \/ RefuseNumber(r)
       PROVE  UNCHANGED cardVars
  <2>1. CardFrame /\ UNCHANGED card
    BY <1>10, ZenonT(30) DEF GenerateNumber, ReadLimit, CountCards, RefuseNumber
  <2> QED
    BY <2>1 DEF CardFrame, cardVars
<1>11. \A r \in Requests : CardTaskTyped(r)
  BY DEF CardsTyped
<1>12. CASE CardStep
  <2>1. ASSUME NEW r \in Requests,
               \/ GenerateNumber(r) \/ ReadLimit(r) \/ CountCards(r) \/ InsertCard(r) \/ EndsCard(r)
        PROVE  CardRowsOK' /\ CardsStay
    BY <1>1, <1>2, <1>3, <1>6, <1>7, <1>10, <1>11, <2>1 DEF EndsCard
  <2> QED
    BY <1>0, <1>1, <1>8, <1>9, <1>12, <2>1, CardCases
<1> QED
  BY <1>1, <1>12, CardStepCases DEF CardsAside

\* A request about cards that goes on, or is made, has what it needs.
LEMMA TypedGoesOn ==
  ASSUME CardsTyped, CardsStay, NEW r \in Requests,
         GenerateNumber(r) \/ ReadLimit(r) \/ CountCards(r) \/ InsertCard(r) \/ EndsCard(r)
  PROVE  /\ CardTaskTyped(r)'
         /\ \A q \in Requests : q # r => task'[q] = task[q]
         /\ raced' = raced
<1>0. InArea /\ TasksOK /\ CardTaskTyped(r) /\ CardRowsOK
  BY DEF CardsTyped, PolicyInv, InArea, Fits
<1>1. CASE GenerateNumber(r)
  <2>a. task[r].op = "number"
    BY <1>1, Zenon DEF GenerateNumber, At
  <2>1. Carries(r, "limit", NextNumber(task[r].kind), task[r].kind) /\ task[r].op = "number"
    BY <1>0, <1>1, <2>a, NumberGenerated
  <2>2. task[r].kind \in CardTypes /\ task[r].row \notin Cards
    BY <1>0, <2>1, CardAssumption DEF CardTaskTyped
  <2>3. task'[r].seen \in Numbers
    BY <1>0, <2>1, <2>2, NumberFree DEF Carries
  <2>4. /\ task'[r].op = "limit" /\ task'[r].on = task[r].on /\ task'[r].row = task[r].row
        /\ task'[r].kind = task[r].kind /\ raced' = raced
        /\ \A q \in Requests : q # r => task'[q] = task[q]
    BY <2>1 DEF Carries, Later
  <2> QED
    BY <1>0, <2>1, <2>2, <2>3, <2>4 DEF CardTaskTyped, At, KindOf, Deciding
<1>2. ASSUME NEW op, op = AfterLimit(r), NEW kind \in CardTypes, kind = KindOf(r),
             task[r].op \in {"limit", "count"}, Carries(r, op, task[r].seen, kind)
      PROVE  CardTaskTyped(r)'
  <2>1. /\ task'[r].op = op /\ task'[r].on = task[r].on /\ task'[r].row = task[r].row
        /\ task'[r].kind = kind /\ task'[r].seen = task[r].seen
        /\ op = IF task[r].row \in Cards THEN "revive" ELSE "insert"
    BY <1>2 DEF Carries, Later, AfterLimit
  <2>2. CASE task[r].row \in Cards
    <3>1. PICK k \in Cards : k = task[r].row
      BY <2>2
    <3>2. Issued(k) /\ card[k].type = kind
      BY <1>0, <1>2, <3>1 DEF CardTaskTyped
    <3>3. Issued(k)' /\ card'[k].type = kind
      BY <3>2 DEF CardsStay
    <3>4. k \notin CardRequests
      BY CardAssumption
    <3>5. task'[r].row = k /\ task'[r].op = "revive" /\ Home \in task'[r].on /\ task'[r].kind = kind
      BY <1>0, <1>2, <2>1, <3>1 DEF CardTaskTyped
    <3> QED
      BY <3>3, <3>4, <3>5 DEF CardTaskTyped, At, KindOf, Deciding
  <2>3. CASE task[r].row \notin Cards
    BY <1>0, <1>2, <2>1, <2>3 DEF CardTaskTyped, At, KindOf, Deciding
  <2> QED
    BY <2>2, <2>3
<1>3. CASE ReadLimit(r)
  <2>a. task[r].op = "limit"
    BY <1>3, ZenonT(30) DEF ReadLimit, At
  <2>1. task[r].op = "limit" /\ task[r].kind \in CardTypes /\ KindOf(r) = task[r].kind
    BY <1>0, <2>a DEF At, CardTaskTyped, KindOf
  <2>2. CASE task[r].kind = "parking"
    <3>1. Carries(r, AfterLimit(r), task[r].seen, task[r].kind)
      BY <1>0, <1>3, <2>2, LimitRead
    <3> QED
      BY <1>2, <2>1, <3>1 DEF Carries, Later
  <2>3. CASE task[r].kind # "parking"
    <3>1. PICK n : Carries(r, "count", task[r].seen, n)
      BY <1>0, <1>3, <2>3, LimitRead
    <3>2. /\ task'[r].op = "count" /\ task'[r].on = task[r].on /\ task'[r].row = task[r].row
          /\ task'[r].seen = task[r].seen /\ raced' = raced
          /\ \A q \in Requests : q # r => task'[q] = task[q]
      BY <3>1 DEF Carries, Later
    <3>3. task[r].kind = "building"
      BY <2>1, <2>3 DEF CardTypes
    <3>4. PICK k : k = task[r].row
      OBVIOUS
    <3>5. k \in Cards => Issued(k) /\ card[k].type = "building"
      BY <1>0, <2>1, <3>3, <3>4 DEF CardTaskTyped
    <3>6. k \in Cards => Issued(k)' /\ card'[k].type = "building"
      BY <3>5 DEF CardsStay
    <3>7. /\ k \in Cards \cup CardRequests \cup {NoRow} /\ Home \in task[r].on
          /\ k \notin Cards => task[r].seen \in Numbers
          /\ k \in CardRequests => k \in task[r].on
      BY <1>0, <2>1, <3>4 DEF CardTaskTyped, Deciding
    <3>8. CardTaskTyped(r)'
      BY <3>2, <3>4, <3>6, <3>7 DEF CardTaskTyped, At, KindOf, Deciding
    <3> QED
      BY <3>2, <3>8
  <2> QED
    BY <2>2, <2>3
<1>4. ASSUME Later(r, "idle")
      PROVE  CardTaskTyped(r)'
  BY <1>4 DEF Later, CardTaskTyped, At, Deciding
<1>5. CASE CountCards(r)
  <2>1. task[r].op = "count" /\ KindOf(r) = "building" /\ "building" \in CardTypes
    BY <1>5 DEF CountCards, At, KindOf, CardTypes
  <2>2. CASE Carries(r, AfterLimit(r), task[r].seen, "building")
    BY <1>2, <2>1, <2>2 DEF Carries, Later
  <2> QED
    BY <1>0, <1>4, <1>5, <2>2, CardsCounted DEF Later
<1>6. CASE InsertCard(r)
  <2>1. CASE task[r].row = NoRow
    BY <1>0, <1>4, <1>6, <2>1, CardInserted DEF Later
  <2>2. CASE task[r].row # NoRow
    <3>a. task[r].op = "insert" /\ NewCard \in Cards
      BY <1>6, Zenon DEF InsertCard, At, NewCard
    <3>1. Carries(r, "approve", NewCard, task[r].kind) /\ task[r].op = "insert" /\ NewCard \in Cards
      BY <1>0, <1>6, <2>2, <3>a, CardInserted
    <3>2. /\ task'[r].op = "approve" /\ task'[r].on = task[r].on /\ task'[r].row = task[r].row
          /\ task'[r].seen \in Cards /\ raced' = raced
          /\ \A q \in Requests : q # r => task'[q] = task[q]
      BY <3>1 DEF Carries, Later
    <3>3. task[r].row \in CardRequests /\ task[r].row \in task[r].on
      BY <1>0, <2>2, <3>1 DEF CardTaskTyped, Deciding
    <3> QED
      BY <3>2, <3>3 DEF CardTaskTyped, At, Deciding
  <2> QED
    BY <2>1, <2>2
<1>7. CASE EndsCard(r)
  <2>1. Later(r, "idle")
    BY <1>0, <1>7, LaterFacts DEF EndsCard, RefuseNumber, ApproveRequest, RejectRequest,
       DeactivateCard, ReactivateCard
  <2> QED
    BY <1>4, <2>1 DEF Later
<1> QED
  BY <1>1, <1>3, <1>5, <1>6, <1>7

LEMMA TypedOpens ==
  ASSUME CardsTyped, CardsStay, UNCHANGED cardVars, NEW r \in Requests, NEW new,
         Open(r, {"cards"}, new), OpensCard(r, new), Shape(new)
  PROVE  /\ CardTaskTyped(r)' /\ task'[r] = new /\ new.op \notin {"count", "insert", "revive", "approve"}
         /\ new.row \in CardRequests => cardReq[new.row].status = "pending"
         /\ \A q \in Requests : q # r => task'[q] = task[q]
<1>0. TasksOK /\ CardRowsOK /\ card' = card
  BY DEF CardsTyped, PolicyInv, InArea, Fits, cardVars
<1>1. task'[r] = new /\ \A q \in Requests : q # r => task'[q] = task[q]
  BY <1>0, OpenFacts DEF Becomes
<1>2. ASSUME NEW type \in CardTypes, NEW number \in {NoRow, Padded + 1, ByHand},
             new = [op |-> IF number = NoRow THEN "number" ELSE "limit",
                    on |-> {Home}, row |-> NoRow, seen |-> number, kind |-> type]
      PROVE  CardTaskTyped(r)' /\ new.op \in {"number", "limit"} /\ new.row \notin CardRequests
  <2>1. number # NoRow => number \in Numbers
    BY CardAssumption DEF Numbers
  <2>2. /\ new.op \in {"number", "limit"} /\ new.on = {Home} /\ new.row = NoRow
        /\ new.kind = type /\ new.seen = number /\ (new.op = "limit" => number # NoRow)
    BY <1>2
  <2> QED
    BY <1>1, <1>2, <2>1, <2>2, CardAssumption DEF CardTaskTyped, At, Deciding
<1>3. ASSUME NEW q \in CardRequests,
             \/ new = [op |-> "number", on |-> {Home, q}, row |-> q, seen |-> NoRow, kind |-> TypeOf[q]]
             \/ new = [op |-> "reject", on |-> {q}, row |-> q, seen |-> 0, kind |-> NoRow]
      PROVE  CardTaskTyped(r)' /\ new.op \in {"number", "reject"} /\ new.row = q
  <2>1. TypeOf[q] \in CardTypes
    BY <1>3, CardAssumption
  <2> QED
    BY <1>1, <1>3, <2>1 DEF CardTaskTyped, At, Deciding
<1>4. ASSUME NEW k \in Cards, card[k].status \in {"active", "lost", "deactivated"},
             \/ \E status \in {"lost", "deactivated"} :
                  new = [op |-> "deactivate", on |-> {Home}, row |-> k, seen |-> 0, kind |-> status]
             \/ new = [op |-> "limit", on |-> {Home}, row |-> k, seen |-> NoRow, kind |-> card[k].type]
      PROVE  CardTaskTyped(r)' /\ new.op \in {"deactivate", "limit"} /\ new.row \notin CardRequests
  <2>1. Issued(k)' /\ card'[k].type = card[k].type /\ card[k].type \in CardTypes
    BY <1>0, <1>4 DEF Issued, CardRowsOK, CardTypeOK, CardRow
  <2>2. k \notin CardRequests
    BY <1>4, CardAssumption
  <2> QED
    BY <1>1, <1>4, <2>1, <2>2 DEF CardTaskTyped, At, Deciding, KindOf
<1> QED
  BY <1>1, <1>2, <1>3, <1>4 DEF OpensCard

LEMMA PolicyOpens ==
  ASSUME TasksOK, NEW r \in Requests, NEW from, NEW limit,
         OpenPolicy(r, from, limit) \/ \E p \in Policies : OpenAmendment(r, p, from, limit)
  PROVE  \E new : Becomes(r, new) /\ new.op \in {"policy", "amend"}
<1>1. CASE OpenPolicy(r, from, limit)
  <2>1. PICK p, new : /\ Open(r, {"policies", "cards"}, new)
                      /\ new = [op |-> "policy", on |-> {Building, Home}, row |-> p,
                                seen |-> from, kind |-> limit]
    BY <1>1 DEF OpenPolicy
  <2> QED
    BY <2>1, OpenFacts DEF Shape
<1>2. ASSUME NEW p, OpenAmendment(r, p, from, limit)
      PROVE  \E new : Becomes(r, new) /\ new.op \in {"policy", "amend"}
  <2>1. PICK new : /\ Open(r, {"policies", "cards"}, new)
                   /\ new = [op |-> "amend", on |-> {p, Home}, row |-> p,
                             seen |-> from, kind |-> limit]
    BY <1>2 DEF OpenAmendment
  <2> QED
    BY <2>1, OpenFacts DEF Shape
<1> QED
  BY <1>1, <1>2

LEMMA CardsTypedStep ==
  ASSUME CardsTyped, OfficeNext
  PROVE  CardsTyped'
<1>0. /\ InArea /\ TasksOK /\ PolicyInv'
      /\ InArea' /\ area' = area /\ raced \subseteq raced' /\ CardRowsOK' /\ CardsStay
  BY PoliciesStep, OfficeRuns, CardRowsKept DEF CardsTyped, PolicyInv, InArea, Fits
<1>1. Guarded(Home)' /\ \A q \in CardRequests : Guarded(q)'
  BY <1>0, GuardKept DEF CardsTyped
<1>2. ASSUME NEW q \in Requests, task'[q] = task[q]
      PROVE  CardTaskTyped(q)'
  <2>1. CardTaskTyped(q)
    BY DEF CardsTyped
  <2>2. \A k \in Cards : Issued(k) => Issued(k)' /\ card'[k].type = card[k].type
    BY <1>0 DEF CardsStay
  <2> QED
    BY <1>2, <2>1, <2>2 DEF CardTaskTyped, At, KindOf, Deciding
<1>3. ASSUME NEW q \in Requests,
             task'[q].op \notin Deciding \cup {"revive", "deactivate"}
      PROVE  CardTaskTyped(q)'
  BY <1>3 DEF CardTaskTyped, At, Deciding
<1>4. ASSUME NEW q \in Requests
      PROVE  CardTaskTyped(q)'
  <2>1. CASE CardStep
    <3>1. CASE \E r \in Requests : \E new :
              /\ Open(r, {"cards"}, new) /\ OpensCard(r, new) /\ Shape(new)
              /\ UNCHANGED cardVars /\ UNCHANGED policyVars
      <4>1. PICK r \in Requests : \E new :
              /\ Open(r, {"cards"}, new) /\ OpensCard(r, new) /\ Shape(new)
              /\ UNCHANGED cardVars /\ UNCHANGED policyVars
        BY <3>1
      <4>2. PICK new : Open(r, {"cards"}, new) /\ OpensCard(r, new) /\ Shape(new)
                       /\ UNCHANGED cardVars
        BY <4>1
      <4> QED
        BY <1>0, <1>2, <4>2, TypedOpens
    <3>2. CASE \E r \in Requests : \/ GenerateNumber(r) \/ ReadLimit(r) \/ CountCards(r)
                                   \/ InsertCard(r) \/ EndsCard(r)
      BY <1>0, <1>2, <3>2, TypedGoesOn
    <3>3. CASE (\E c \in CardRequests : RequestCard(c)) \/ \E n \in LimitColumns : SetOverride(n)
      BY <1>2, <3>3 DEF RequestCard, SetOverride, AtOnce
    <3> QED
      BY <1>0, <2>1, <3>1, <3>2, <3>3, CardCases
  <2>2. ASSUME NEW r \in Requests,
               \E from \in Days, limit \in Limits :
                 OpenPolicy(r, from, limit) \/ \E p \in Policies : OpenAmendment(r, p, from, limit)
        PROVE  CardTaskTyped(q)'
    <3>1. PICK new : Becomes(r, new) /\ new.op \in {"policy", "amend"}
      BY <1>0, <2>2, PolicyOpens
    <3> QED
      BY <1>2, <1>3, <3>1 DEF Becomes, Deciding
  <2>3. ASSUME NEW r \in Requests, CreatePolicy(r) \/ AmendPolicy(r) \/ Fail(r)
        PROVE  CardTaskTyped(q)'
    <3>1. Becomes(r, Idle)
      BY <1>0, <2>3, CloseFacts, FailFacts DEF CreatePolicy, AmendPolicy
    <3> QED
      BY <1>2, <1>3, <3>1 DEF Becomes, Idle, Deciding
  <2>4. CASE Tick
    BY <1>2, <2>4 DEF Tick, requestVars
  <2>5. CASE PolicyStep
    BY <2>2, <2>3, <2>4, <2>5 DEF PolicyStep
  <2>6. CASE FailAny
    BY <2>3, <2>6 DEF FailAny
  <2>7. CASE ContractStep \/ ParkingStep \/ AccountStep \/ MeterStep
    <3>1. area \notin CardAreas
      BY <1>0, <2>7, ContractRuns, ParkingRuns, AccountRuns, MeterRuns DEF ContractAreas, CardAreas
    <3>2. task'[q].op \notin Deciding \cup {"revive", "deactivate"}
      BY <1>0, <3>1 DEF InArea, Fits, OpsOf, ContractOps, ParkingOps, AccountOps, MeterOps, CardAreas,
         Deciding
    <3> QED
      BY <1>3, <3>2
  <2> QED
    BY <2>1, <2>5, <2>6, <2>7 DEF OfficeNext
<1> QED
  BY <1>0, <1>1, <1>4 DEF CardsTyped

\* What the steps that are not about cards do: requests about cards stay or end.
LEMMA CardsBeside ==
  ASSUME CardsTyped, OfficeNext
  PROVE  \/ CardStep
         \/ /\ UNCHANGED cardVars
            /\ \A q \in Requests :
                 \/ task'[q] = task[q]
                 \/ /\ task'[q].op \notin Deciding \cup {"revive", "deactivate"}
                    /\ task[q].op = "approve" => task[q].row \in cut'
            /\ \/ policy' = policy
               \/ \E r \in Requests : Home \in task[r].on /\ Becomes(r, Idle)
<1> DEFINE Finished(q) == /\ task'[q].op \notin Deciding \cup {"revive", "deactivate"}
                          /\ task[q].op = "approve" => task[q].row \in cut'
<1> SUFFICES ASSUME ~CardStep
             PROVE  /\ UNCHANGED cardVars
                    /\ \A q \in Requests : task'[q] = task[q] \/ Finished(q)
                    /\ \/ policy' = policy
                       \/ \E r \in Requests : Home \in task[r].on /\ Becomes(r, Idle)
  OBVIOUS
<1>0. /\ InArea /\ TasksOK /\ PolicyInv /\ InArea' /\ area' = area
      /\ UNCHANGED cardVars /\ (PolicyStep \/ UNCHANGED policyVars)
  BY OfficeRuns, CardStepCases DEF CardsTyped, PolicyInv, InArea, Fits, CardsAside
<1>1. ASSUME NEW r \in Requests, NEW from \in Days, NEW limit \in Limits,
             OpenPolicy(r, from, limit) \/ \E p \in Policies : OpenAmendment(r, p, from, limit)
      PROVE  policy' = policy /\ \A q \in Requests : task'[q] = task[q] \/ Finished(q)
  <2>1. PICK new : Becomes(r, new) /\ new.op \in {"policy", "amend"}
    BY <1>0, <1>1, PolicyOpens
  <2>2. policy' = policy /\ task[r].op = "idle"
    BY <1>1 DEF OpenPolicy, OpenAmendment, policyVars, Open, Free
  <2> QED
    BY <2>1, <2>2 DEF Becomes, Deciding
<1>2. ASSUME NEW r \in Requests, CreatePolicy(r) \/ AmendPolicy(r)
      PROVE  /\ Home \in task[r].on /\ Becomes(r, Idle)
             /\ \A q \in Requests : task'[q] = task[q] \/ Finished(q)
  <2>1. Becomes(r, Idle) /\ task[r].op \in {"policy", "amend"} /\ PolicyTask(r)
    BY <1>0, <1>2, CloseFacts DEF CreatePolicy, AmendPolicy, At, PolicyInv
  <2> QED
    BY <2>1 DEF Becomes, Idle, Deciding, PolicyTask, At
<1>3. CASE FailAny
  <2>1. PICK r \in Requests : Fail(r) /\ UNCHANGED policyVars
    BY <1>3 DEF FailAny
  <2>2. Becomes(r, Idle) /\ task[r].on \subseteq cut'
    BY <1>0, <2>1, FailFacts
  <2>3. task[r].op = "approve" => task[r].row \in task[r].on
    BY DEF CardsTyped, CardTaskTyped, Deciding
  <2> QED
    BY <1>0, <2>1, <2>2, <2>3 DEF Becomes, Idle, Deciding, policyVars
<1>4. CASE Tick
  BY <1>0, <1>4 DEF Tick, requestVars
<1>5. CASE PolicyStep
  BY <1>0, <1>1, <1>2, <1>4, <1>5 DEF PolicyStep
<1>6. CASE ContractStep \/ ParkingStep \/ AccountStep \/ MeterStep
  <2>1. area \notin CardAreas
    BY <1>0, <1>6, ContractRuns, ParkingRuns, AccountRuns, MeterRuns DEF ContractAreas, CardAreas
  <2>2. \A q \in Requests : Finished(q)
    BY <1>0, <2>1 DEF InArea, Fits, OpsOf, ContractOps, ParkingOps, AccountOps, MeterOps, CardAreas,
       Deciding
  <2>3. PolicyStep => area \in CardAreas
    BY <1>0, PolicyRuns
  <2> QED
    BY <1>0, <2>1, <2>2, <2>3 DEF policyVars
<1> QED
  BY <1>3, <1>5, <1>6 DEF OfficeNext

\* What a request has read is fresh until another has the apartment in hand.
LEMMA CardsFreshStep ==
  ASSUME CardsTyped, CardsFresh, CardsTyped', OfficeNext
  PROVE  CardsFresh'
<1> DEFINE Hot == {"limit", "count", "insert", "revive"}
<1>0. InArea /\ TasksOK /\ raced \subseteq raced' /\ CardRowsOK /\ CardsStay
  BY OfficeRuns, CardRowsKept DEF CardsTyped, PolicyInv, InArea, Fits
<1> SUFFICES ASSUME ~Raced(Home)', NEW q \in Requests, task'[q].op \in Hot PROVE CardTaskFresh(q)'
  BY DEF CardsFresh, CardTaskFresh, At
<1>1. ~Raced(Home) /\ \A r \in Requests : CardTaskFresh(r)
  BY <1>0 DEF Raced, CardsFresh
<1>2. ASSUME NEW r \in Requests, task[r].op \in CardOps, Home \in task[r].on,
             NEW s \in Requests, Home \in task[s].on
      PROVE  r = s
  BY <1>0, <1>1, <1>2, PolicyHands DEF CardsTyped, Guarded, Exclusive, Raced
<1>3. ASSUME task'[q] = task[q], UNCHANGED <<card, override, policy>>
      PROVE  CardTaskFresh(q)'
  <2>1. CardTaskFresh(q)
    BY <1>1
  <2>2. /\ \A type : NumbersOf(type)' = NumbersOf(type) /\ Exhausted(type)' = Exhausted(type)
        /\ EffectiveLimits' = EffectiveLimits /\ Room' = Room
    BY <1>3 DEF NumbersOf, Issued, Exhausted, EffectiveLimits, ApartmentLimit, OrDefault, Current,
       Created, Room, ActiveBuildingCards
  <2> QED
    BY <1>3, <2>1, <2>2 DEF CardTaskFresh, At, KindOf
<1>4. ASSUME NEW r \in Requests, task'[r].op \notin Hot, Home \in task[r].on,
             \A s \in Requests : s # r => task'[s] = task[s]
      PROVE  FALSE
  <2>1. q # r /\ task[q].op \in Hot /\ Home \in task[q].on
    BY <1>4 DEF CardsTyped, CardTaskTyped
  <2> QED
    BY <1>2, <1>4, <2>1 DEF CardOps
<1>5. CASE \E r \in Requests : \E new :
              /\ Open(r, {"cards"}, new) /\ OpensCard(r, new) /\ Shape(new)
              /\ UNCHANGED cardVars /\ UNCHANGED policyVars
  <2>1. PICK r \in Requests : \E new :
              /\ Open(r, {"cards"}, new) /\ OpensCard(r, new) /\ Shape(new)
              /\ UNCHANGED cardVars /\ UNCHANGED policyVars
    BY <1>5
  <2>2. PICK new : Open(r, {"cards"}, new) /\ OpensCard(r, new) /\ Shape(new)
                   /\ UNCHANGED cardVars /\ UNCHANGED policyVars
    BY <2>1
  <2>3. task'[r] = new /\ \A s \in Requests : s # r => task'[s] = task[s]
    BY <1>0, <2>2, TypedOpens
  <2>4. UNCHANGED <<card, override, policy>>
    BY <2>2 DEF cardVars, policyVars
  <2>5. CASE q = r
    <3>1. ASSUME NEW type \in CardTypes, NEW number \in {NoRow, Padded + 1, ByHand},
                 number \notin NumbersOf(type),
                 new = [op |-> IF number = NoRow THEN "number" ELSE "limit",
                        on |-> {Home}, row |-> NoRow, seen |-> number, kind |-> type]
          PROVE  CardTaskFresh(r)'
      <4>1. NumbersOf(type)' = NumbersOf(type)
        BY <2>4 DEF NumbersOf, Issued
      <4>2. new.op \in {"number", "limit"} /\ new.seen = number /\ new.kind = type
        BY <3>1
      <4> QED
        BY <2>3, <3>1, <4>1, <4>2 DEF CardTaskFresh, At, KindOf
    <3>2. ASSUME new.op \notin Hot \/ (new.op = "limit" /\ new.row \in Cards)
          PROVE  CardTaskFresh(r)'
      BY <2>3, <3>2 DEF CardTaskFresh, At
    <3> QED
      BY <2>2, <2>5, <3>1, <3>2 DEF OpensCard
  <2>6. CASE q # r
    BY <1>3, <2>3, <2>4, <2>6
  <2> QED
    BY <2>5, <2>6
<1>6. ASSUME NEW r \in Requests, GenerateNumber(r) \/ ReadLimit(r) \/ CountCards(r)
      PROVE  CardTaskFresh(q)'
  <2>1. UNCHANGED <<card, override, policy>>
    <3>1. CardFrame /\ UNCHANGED card
      BY <1>6, ZenonT(30) DEF GenerateNumber, ReadLimit, CountCards
    <3> QED
      BY <3>1 DEF CardFrame, policyVars
  <2>2. /\ \A type : NumbersOf(type)' = NumbersOf(type) /\ Exhausted(type)' = Exhausted(type)
        /\ EffectiveLimits' = EffectiveLimits /\ Room' = Room
    BY <2>1 DEF NumbersOf, Issued, Exhausted, EffectiveLimits, ApartmentLimit, OrDefault, Current,
       Created, Room, ActiveBuildingCards
  <2>3. CASE q # r
    <3>1. task'[q] = task[q]
      BY <1>0, <1>6, <2>3, TypedGoesOn
    <3> QED
      BY <1>3, <2>1, <3>1
  <2>4. CASE q = r /\ GenerateNumber(r)
    <3>1. task[r].op = "number" /\ CardTaskTyped(r)
      BY <2>4, Zenon DEF GenerateNumber, At, CardsTyped
    <3>2. Carries(r, "limit", NextNumber(task[r].kind), task[r].kind)
      BY <1>0, <2>4, NumberGenerated
    <3>3. PICK type \in CardTypes : type = task[r].kind
      BY <3>1 DEF CardTaskTyped
    <3>4. NextNumber(type) \notin NumbersOf(type) \/ Exhausted(type)
      BY <1>0, NumberFree
    <3>5. task'[r].op = "limit" /\ task'[r].seen = NextNumber(type) /\ task'[r].kind = type
      BY <3>2, <3>3 DEF Carries, Later
    <3> QED
      BY <2>2, <2>4, <3>4, <3>5 DEF CardTaskFresh, At, KindOf
  <2>5. CASE q = r /\ ReadLimit(r)
    <3>0. task[r].op = "limit"
      BY <2>5, ZenonT(30) DEF ReadLimit, At
    <3>1. /\ CardTaskTyped(r) /\ CardTaskFresh(r) /\ task[r].kind \in CardTypes
          /\ KindOf(r) = task[r].kind
      BY <1>1, <3>0 DEF CardsTyped, CardTaskTyped, KindOf, At
    <3>2. CASE task[r].kind = "parking"
      <4>1. Carries(r, AfterLimit(r), task[r].seen, task[r].kind)
        BY <1>0, <2>5, <3>2, LimitRead
      <4>2. /\ task'[r].op \in {"insert", "revive"} /\ task'[r].kind = "parking"
            /\ task'[r].seen = task[r].seen /\ task'[r].row = task[r].row
        BY <3>2, <4>1 DEF Carries, Later, AfterLimit
      <4> QED
        BY <2>2, <2>5, <3>0, <3>1, <3>2, <4>2 DEF CardTaskFresh, At, KindOf
    <3>3. CASE task[r].kind # "parking"
      <4>1. PICK n \in EffectiveLimits : Carries(r, "count", task[r].seen, n)
        BY <1>0, <2>5, <3>3, LimitRead
      <4>2. /\ task'[r].op = "count" /\ task'[r].kind = n
            /\ task'[r].seen = task[r].seen /\ task'[r].row = task[r].row
        BY <4>1 DEF Carries, Later
      <4>3. KindOf(r) = "building" /\ KindOf(r)' = "building"
        BY <3>1, <3>3, <4>2 DEF CardTypes, KindOf, At
      <4> QED
        BY <2>2, <2>5, <3>0, <3>1, <4>1, <4>2, <4>3 DEF CardTaskFresh, At
    <3> QED
      BY <3>2, <3>3
  <2>6. CASE q = r /\ CountCards(r)
    <3>0. task[r].op = "count"
      BY <2>6, ZenonT(30) DEF CountCards, At
    <3>1. CardTaskFresh(r) /\ KindOf(r) = "building"
      BY <1>1, <3>0 DEF KindOf, At
    <3>2. CASE Within(task[r].kind)
      <4>1. Carries(r, AfterLimit(r), task[r].seen, "building")
        BY <1>0, <2>6, <3>2, CardsCounted
      <4>2. /\ task'[r].op \in {"insert", "revive"} /\ task'[r].kind = "building"
            /\ task'[r].seen = task[r].seen /\ task'[r].row = task[r].row
        BY <4>1 DEF Carries, Later, AfterLimit
      <4>3. Room
        BY <3>0, <3>1, <3>2 DEF CardTaskFresh, At, Room, Within
      <4> QED
        BY <2>2, <2>6, <3>0, <3>1, <4>2, <4>3 DEF CardTaskFresh, At, KindOf
    <3>3. CASE ~Within(task[r].kind)
      <4>1. Later(r, "idle")
        BY <1>0, <2>6, <3>3, CardsCounted
      <4> QED
        BY <2>6, <4>1 DEF Later
    <3> QED
      BY <3>2, <3>3
  <2> QED
    BY <1>6, <2>3, <2>4, <2>5, <2>6
<1>7. ASSUME NEW r \in Requests, InsertCard(r) \/ DeactivateCard(r) \/ ReactivateCard(r)
      PROVE  FALSE
  <2>1. task[r].op \in {"insert", "deactivate", "revive"}
    BY <1>7, ZenonT(30) DEF InsertCard, DeactivateCard, ReactivateCard, At
  <2>2. Home \in task[r].on
    BY <2>1 DEF CardsTyped, CardTaskTyped
  <2>3. task'[r].op \in {"idle", "approve"}
    BY <1>0, <1>7, CardInserted, LaterFacts DEF Carries, Later, DeactivateCard, ReactivateCard
  <2>4. \A s \in Requests : s # r => task'[s] = task[s]
    BY <1>0, <1>7, TypedGoesOn DEF EndsCard
  <2> QED
    BY <1>4, <2>2, <2>3, <2>4
<1>8. ASSUME NEW r \in Requests, RefuseNumber(r) \/ ApproveRequest(r) \/ RejectRequest(r)
      PROVE  CardTaskFresh(q)'
  <2>1. UNCHANGED <<card, override, policy>>
    BY <1>8 DEF RefuseNumber, ApproveRequest, RejectRequest, CardFrame, policyVars
  <2>2. Becomes(r, Idle)
    BY <1>0, <1>8, CloseFacts DEF RefuseNumber, ApproveRequest, RejectRequest
  <2> QED
    BY <1>3, <2>1, <2>2 DEF Becomes, Idle
<1>9. CASE \E c \in CardRequests : RequestCard(c)
  BY <1>3, <1>9 DEF RequestCard, AtOnce, policyVars
<1>10. CASE \E n \in LimitColumns : SetOverride(n)
  <2>1. AtOnce({"cards"}, {Home})
    BY <1>10 DEF SetOverride
  <2>2. task' = task /\ (Home \in task[q].on => Home \in raced')
    BY <1>0, <2>1, AtOnceFacts
  <2>3. Home \in task[q].on
    BY <2>2 DEF CardsTyped, CardTaskTyped
  <2> QED
    BY <2>2, <2>3 DEF Raced
<1>11. CASE CardStep
  <2>1. ASSUME NEW r \in Requests,
               \/ GenerateNumber(r) \/ ReadLimit(r) \/ CountCards(r) \/ InsertCard(r) \/ EndsCard(r)
        PROVE  CardTaskFresh(q)'
    BY <1>6, <1>7, <1>8, <2>1 DEF EndsCard
  <2> QED
    BY <1>0, <1>5, <1>9, <1>10, <1>11, <2>1, CardCases
<1>12. CASE ~CardStep
  <2>1. /\ UNCHANGED cardVars
        /\ task'[q] = task[q]
        /\ \/ policy' = policy
           \/ \E r \in Requests : Home \in task[r].on /\ Becomes(r, Idle)
    BY <1>12, CardsBeside DEF Deciding
  <2>2. CASE policy' = policy
    BY <1>3, <2>1, <2>2 DEF cardVars
  <2>3. CASE \E r \in Requests : Home \in task[r].on /\ Becomes(r, Idle)
    BY <1>4, <2>3 DEF Becomes, Idle
  <2> QED
    BY <2>1, <2>2, <2>3
<1> QED
  BY <1>11, <1>12

\* Cards become active by one at most, and only where there is room.
LEMMA LimitStep ==
  ASSUME CardsTyped, CardsFresh, OfficeNext,
         Cardinality(ActiveBuildingCards') > Cardinality(ActiveBuildingCards)
  PROVE  \/ Raced(Home)'
         \/ \E n \in EffectiveLimits : Cardinality(ActiveBuildingCards') <= n
<1>0. /\ InArea /\ TasksOK /\ CardRowsOK /\ CardRowsOK' /\ raced \subseteq raced'
      /\ IsFiniteSet(ActiveBuildingCards) /\ IsFiniteSet(ActiveBuildingCards')
  <2>1. IsFiniteSet(ActiveBuildingCards) /\ IsFiniteSet(ActiveBuildingCards')
    BY CardAssumption, FS_Subset DEF ActiveBuildingCards
  <2> QED
    BY <2>1, OfficeRuns, CardRowsKept DEF CardsTyped, PolicyInv, InArea, Fits
<1>1. ASSUME ActiveBuildingCards' \subseteq ActiveBuildingCards
      PROVE  FALSE
  <2>1. Cardinality(ActiveBuildingCards') <= Cardinality(ActiveBuildingCards)
    BY <1>0, <1>1, FS_Subset
  <2>2. Cardinality(ActiveBuildingCards') \in Nat /\ Cardinality(ActiveBuildingCards) \in Nat
    BY <1>0, FS_CardinalityType
  <2> QED
    BY <2>1, <2>2
<1>2. EffectiveLimits \subseteq Nat
  <2>1. \A p \in Current : policy[p].limit \in Nat
    BY PolicyAssumption DEF Current, CardsTyped, PolicyInv, PolicyRowsOK
  <2>2. ApartmentLimit # NoRow => ApartmentLimit \in Nat
    BY <1>0, CardAssumption DEF CardRowsOK, CardTypeOK, LimitColumns, ApartmentLimit
  <2>3. DefaultLimit \in Nat /\ \A p \in Current : OrDefault(policy[p].limit) \in Nat
    BY <2>1, CardAssumption DEF OrDefault
  <2> QED
    BY <2>2, <2>3 DEF EffectiveLimits
<1>3. ASSUME NEW k, ActiveBuildingCards' \subseteq ActiveBuildingCards \cup {k}, Room
      PROVE  \E n \in EffectiveLimits : Cardinality(ActiveBuildingCards') <= n
  <2>1. PICK n \in EffectiveLimits : Cardinality(ActiveBuildingCards) < n
    BY <1>3 DEF Room
  <2>a. Cardinality(ActiveBuildingCards) \in Nat
    BY <1>0, FS_CardinalityType
  <2>b. /\ IsFiniteSet(ActiveBuildingCards \cup {k})
        /\ Cardinality(ActiveBuildingCards \cup {k}) =
             IF k \in ActiveBuildingCards THEN Cardinality(ActiveBuildingCards)
             ELSE Cardinality(ActiveBuildingCards) + 1
    BY <1>0, FS_AddElement
  <2>2. /\ IsFiniteSet(ActiveBuildingCards \cup {k})
        /\ Cardinality(ActiveBuildingCards \cup {k}) <= Cardinality(ActiveBuildingCards) + 1
        /\ Cardinality(ActiveBuildingCards) \in Nat
    BY <2>a, <2>b
  <2>3. Cardinality(ActiveBuildingCards') <= Cardinality(ActiveBuildingCards \cup {k})
    BY <1>3, <2>2, FS_Subset
  <2>4. /\ Cardinality(ActiveBuildingCards') \in Nat
        /\ Cardinality(ActiveBuildingCards \cup {k}) \in Nat /\ n \in Nat
    BY <1>0, <1>2, <2>2, FS_CardinalityType
  <2> QED
    BY <2>1, <2>2, <2>3, <2>4
<1>4. ASSUME UNCHANGED card PROVE FALSE
  BY <1>1, <1>4 DEF ActiveBuildingCards
<1>5. ASSUME NEW r \in Requests, task[r].op \in {"insert", "revive"}, task[r].kind = "building",
             ~Raced(Home)'
      PROVE  Room
  BY <1>0, <1>5 DEF CardsFresh, CardTaskFresh, Raced
<1>6. ASSUME NEW r \in Requests, InsertCard(r), ~Raced(Home)'
      PROVE  \E n \in EffectiveLimits : Cardinality(ActiveBuildingCards') <= n
  <2>1. PICK k, new : /\ k = NewCard /\ card' = [card EXCEPT ![k] = new]
                      /\ new = [status |-> "active", type |-> task[r].kind, number |-> task[r].seen]
    BY <1>6, Zenon DEF InsertCard
  <2>2. task[r].op = "insert" /\ card \in [Cards -> CardRow]
    BY <1>0, <1>6, Zenon DEF InsertCard, At, CardRowsOK, CardTypeOK
  <2>3. \A c \in Cards : card'[c] = IF c = k THEN new ELSE card[c]
    BY <2>1, <2>2
  <2>4. ActiveBuildingCards' \subseteq ActiveBuildingCards \cup {k}
    BY <2>3 DEF ActiveBuildingCards
  <2>5. CASE task[r].kind = "building"
    BY <1>3, <1>5, <1>6, <2>2, <2>4, <2>5
  <2>6. CASE task[r].kind # "building"
    <3>1. ActiveBuildingCards' \subseteq ActiveBuildingCards
      BY <2>1, <2>3, <2>6 DEF ActiveBuildingCards
    <3> QED
      BY <1>1, <3>1
  <2> QED
    BY <2>5, <2>6
<1>7. ASSUME NEW r \in Requests, NEW status, task[r].row \in Cards,
             card' = [card EXCEPT ![task[r].row].status = status]
      PROVE  /\ card'[task[r].row].status = status
             /\ card'[task[r].row].type = card[task[r].row].type
             /\ \A c \in Cards : c # task[r].row => card'[c] = card[c]
  <2>1. PICK k \in Cards : k = task[r].row
    BY <1>7
  <2>2. card[k] \in CardRow /\ card \in [Cards -> CardRow]
    BY <1>0 DEF CardRowsOK, CardTypeOK
  <2>3. card'[k] = [card[k] EXCEPT !.status = status] /\ \A c \in Cards : c # k => card'[c] = card[c]
    BY <1>7, <2>1, <2>2
  <2>4. card'[k].status = status
    BY <2>2, <2>3 DEF CardRow
  <2>5. card'[k].type = card[k].type
    BY <2>2, <2>3 DEF CardRow
  <2> QED
    BY <2>1, <2>3, <2>4, <2>5
<1>8. ASSUME NEW r \in Requests, ReactivateCard(r), ~Raced(Home)'
      PROVE  \E n \in EffectiveLimits : Cardinality(ActiveBuildingCards') <= n
  <2>1. /\ task[r].op = "revive" /\ task[r].row \in Cards /\ task[r].kind \in CardTypes
        /\ card[task[r].row].type = task[r].kind
    BY <1>8 DEF ReactivateCard, At, CardsTyped, CardTaskTyped, KindOf
  <2>2. /\ card'[task[r].row].type = card[task[r].row].type
        /\ \A c \in Cards : c # task[r].row => card'[c] = card[c]
    BY <1>7, <1>8, <2>1 DEF ReactivateCard
  <2>3. ActiveBuildingCards' \subseteq ActiveBuildingCards \cup {task[r].row}
    BY <2>2 DEF ActiveBuildingCards
  <2>4. CASE task[r].kind = "building"
    BY <1>3, <1>5, <1>8, <2>1, <2>3, <2>4
  <2>5. CASE task[r].kind # "building"
    <3>1. ActiveBuildingCards' \subseteq ActiveBuildingCards
      BY <2>1, <2>2, <2>5 DEF ActiveBuildingCards
    <3> QED
      BY <1>1, <3>1
  <2> QED
    BY <2>4, <2>5
<1>9. ASSUME NEW r \in Requests, DeactivateCard(r)
      PROVE  FALSE
  <2>1. task[r].op = "deactivate" /\ task[r].row \in Cards /\ task[r].kind # "active"
    BY <1>9 DEF DeactivateCard, At, CardsTyped, CardTaskTyped
  <2>2. /\ card'[task[r].row].status = task[r].kind
        /\ \A c \in Cards : c # task[r].row => card'[c] = card[c]
    BY <1>7, <1>9, <2>1 DEF DeactivateCard
  <2>3. ActiveBuildingCards' \subseteq ActiveBuildingCards
    BY <2>1, <2>2 DEF ActiveBuildingCards
  <2> QED
    BY <1>1, <2>3
<1>10. ASSUME NEW r \in Requests,
              \/ GenerateNumber(r) \/ ReadLimit(r) \/ CountCards(r) \/ RefuseNumber(r)
              \/ ApproveRequest(r) \/ RejectRequest(r)
       PROVE  UNCHANGED card
  BY <1>10, ZenonT(30) DEF GenerateNumber, ReadLimit, CountCards, RefuseNumber, ApproveRequest,
     RejectRequest
<1>11. CASE CardStep
  <2>1. CASE \E r \in Requests : \/ GenerateNumber(r) \/ ReadLimit(r) \/ CountCards(r)
                                 \/ InsertCard(r) \/ EndsCard(r)
    BY <1>4, <1>6, <1>8, <1>9, <1>10, <2>1 DEF EndsCard
  <2>2. CASE UNCHANGED cardVars
    BY <1>4, <2>2 DEF cardVars
  <2>3. CASE \/ \E c \in CardRequests : RequestCard(c)
             \/ \E n \in LimitColumns : SetOverride(n)
    BY <1>4, <2>3 DEF RequestCard, SetOverride
  <2> QED
    BY <1>0, <1>11, <2>1, <2>2, <2>3, CardCases
<1> QED
  BY <1>4, <1>11, CardStepCases DEF CardsAside, cardVars

\* A request for a card is decided by one request to the office.
LEMMA CardsDecidedStep ==
  ASSUME CardsTyped, CardsDecided, CardsTyped', OfficeNext
  PROVE  CardsDecided'
<1> DEFINE Decided(r) ==
             task[r].op \in Deciding /\ task[r].row \in CardRequests
               /\ ~CardRequestExcused(task[r].row) => CardTaskDecides(r)
           Settled(q) == CardRequestExcused(q) \/ CardRequestOK(q)
           AtWork(r, q) == task[r].op \in Deciding /\ task[r].row = q
<1>0. /\ InArea /\ TasksOK /\ raced \subseteq raced' /\ cut \subseteq cut'
      /\ CardRowsOK /\ CardRowsOK' /\ CardsStay
      /\ \A r \in Requests : CardTaskTyped(r) /\ Decided(r)
      /\ \A q \in CardRequests : Settled(q)
  BY OfficeRuns, CardRowsKept DEF CardsTyped, CardsDecided, PolicyInv, InArea, Fits
<1>1. \A q \in CardRequests : CardRequestExcused(q) => CardRequestExcused(q)'
  BY <1>0 DEF CardRequestExcused, Raced
\* Two requests at work on one for a card: it is excused.
<1>2. ASSUME NEW q \in CardRequests, NEW r \in Requests, NEW s \in Requests, AtWork(r, q), AtWork(s, q)
      PROVE  r = s \/ CardRequestExcused(q)
  <2>1. q \in task[r].on /\ q \in task[s].on /\ task[r].op \in CardOps
    BY <1>0, <1>2 DEF CardTaskTyped, Deciding, CardOps
  <2> QED
    BY <1>0, <2>1, PolicyHands DEF CardsTyped, Guarded, Exclusive, CardRequestExcused, Raced
\* Where the requests for cards stay, so does what was found out.
<1>3. ASSUME UNCHANGED <<cardReq, issuedFor>>,
             NEW r \in Requests, task'[r] = task[r]
      PROVE  Decided(r)'
  BY <1>0, <1>1, <1>3 DEF CardTaskDecides, At, Undecided, IssuedTo
<1>4. ASSUME UNCHANGED <<cardReq, issuedFor>>, NEW q \in CardRequests,
             \A r \in Requests : At(r, "approve") =>
                 task'[r] = task[r] \/ task[r].row \in cut'
      PROVE  Settled(q)'
  BY <1>0, <1>1, <1>4 DEF CardRequestOK, At, IssuedTo, CardRequestExcused
<1>5. CASE \E r \in Requests : \E new :
              /\ Open(r, {"cards"}, new) /\ OpensCard(r, new) /\ Shape(new)
              /\ UNCHANGED cardVars /\ UNCHANGED policyVars
  <2>1. PICK r \in Requests : \E new :
              /\ Open(r, {"cards"}, new) /\ OpensCard(r, new) /\ Shape(new)
              /\ UNCHANGED cardVars /\ UNCHANGED policyVars
    BY <1>5
  <2>2. PICK new : /\ Open(r, {"cards"}, new) /\ OpensCard(r, new) /\ Shape(new)
                   /\ UNCHANGED cardVars
    BY <2>1
  <2>3. /\ task'[r] = new /\ \A s \in Requests : s # r => task'[s] = task[s]
        /\ new.op \notin {"count", "insert", "revive", "approve"}
        /\ new.row \in CardRequests => cardReq[new.row].status = "pending"
        /\ task[r].op = "idle"
    BY <1>0, <2>2, TypedOpens, OpenFacts
  <2>4. UNCHANGED <<cardReq, issuedFor>>
    BY <2>2 DEF cardVars
  <2>5. \A q \in CardRequests : Settled(q)'
    BY <1>4, <2>3, <2>4 DEF At
  <2>6. ASSUME new.op \in Deciding, new.row \in CardRequests, ~CardRequestExcused(new.row)'
        PROVE  CardTaskDecides(r)'
    <3>1. PICK q \in CardRequests : q = new.row
      BY <2>6
    <3>2. q \in new.on
      BY <2>3, <2>6, <3>1 DEF CardsTyped, CardTaskTyped
    <3>3. ~CardRequestExcused(q) /\ cardReq[q].status = "pending"
      BY <1>1, <2>3, <2>6, <3>1
    <3>4. ASSUME NEW s \in Requests, At(s, "approve"), task[s].row = q
          PROVE  FALSE
      <4>1. q \in task[s].on /\ s # r
        BY <1>0, <2>3, <3>4 DEF CardTaskTyped, At, Deciding
      <4>2. q \in raced'
        BY <2>2, <3>2, <4>1 DEF Open, Touch, InHand
      <4> QED
        BY <2>6, <3>1, <4>2 DEF CardRequestExcused, Raced
    <3>5. IssuedTo(q) = {}
      BY <1>0, <3>3, <3>4 DEF CardRequestOK
    <3>6. task'[r].row = q /\ task'[r].op # "approve"
      BY <2>3, <3>1
    <3> QED
      BY <2>4, <3>3, <3>5, <3>6 DEF CardTaskDecides, At, Undecided, IssuedTo
  <2>7. Decided(r)'
    BY <2>3, <2>6
  <2> QED
    BY <1>3, <2>3, <2>4, <2>5, <2>7 DEF CardsDecided
<1>6. ASSUME NEW r \in Requests, GenerateNumber(r) \/ ReadLimit(r) \/ CountCards(r) \/ RefuseNumber(r)
      PROVE  CardsDecided'
  <2>1. UNCHANGED <<cardReq, issuedFor>>
    <3>1. CardFrame
      BY <1>6, ZenonT(30) DEF GenerateNumber, ReadLimit, CountCards, RefuseNumber
    <3> QED
      BY <3>1 DEF CardFrame
  <2>2. task[r].op \in {"number", "limit", "count", "insert"}
    BY <1>6, ZenonT(30) DEF GenerateNumber, ReadLimit, CountCards, RefuseNumber, At
  <2>3. /\ \A s \in Requests : s # r => task'[s] = task[s]
        /\ task'[r].op # "approve"
        /\ task'[r].op # "idle" => task'[r].row = task[r].row
    <3>1. AfterLimit(r) # "approve"
      BY DEF AfterLimit
    <3>2. \E op : op # "approve" /\ Later(r, op)
      <4>1. CASE GenerateNumber(r)
        BY <1>0, <4>1, NumberGenerated DEF Carries
      <4>2. CASE ReadLimit(r)
        BY <1>0, <3>1, <4>2, LimitRead DEF Carries
      <4>3. CASE CountCards(r)
        BY <1>0, <3>1, <4>3, CardsCounted DEF Carries
      <4>4. CASE RefuseNumber(r)
        BY <1>0, <4>4, LaterFacts DEF RefuseNumber
      <4> QED
        BY <1>6, <4>1, <4>2, <4>3, <4>4
    <3> QED
      BY <3>2 DEF Later
  <2>4. \A q \in CardRequests : Settled(q)'
    BY <1>4, <2>1, <2>2, <2>3 DEF At
  <2>5. Decided(r)'
    <3> SUFFICES ASSUME task'[r].op \in Deciding, task'[r].row \in CardRequests,
                        ~CardRequestExcused(task[r].row)'
                 PROVE  CardTaskDecides(r)'
      OBVIOUS
    <3>1. PICK q \in CardRequests : q = task[r].row /\ task'[r].row = q
      BY <2>3 DEF Deciding
    <3>2. CardTaskDecides(r) /\ task[r].op # "approve"
      BY <1>0, <1>1, <2>2, <3>1 DEF Deciding
    <3>3. Undecided(q)
      BY <3>1, <3>2 DEF CardTaskDecides, At
    <3>4. Undecided(q)'
      BY <2>1, <3>3 DEF Undecided, IssuedTo
    <3> QED
      BY <2>3, <3>1, <3>4 DEF CardTaskDecides, At
  <2> QED
    BY <1>3, <2>1, <2>3, <2>4, <2>5 DEF CardsDecided
<1>7. ASSUME NEW r \in Requests, InsertCard(r)
      PROVE  CardsDecided'
  <2>1. /\ task[r].op = "insert" /\ cardReq' = cardReq
        /\ issuedFor' = [issuedFor EXCEPT ![NewCard] = task[r].row]
    BY <1>7, Zenon DEF InsertCard, At
  <2>2. PICK k \in Cards : k = NewCard /\ ~Issued(k)
    BY <1>7 DEF InsertCard, NewCard
  <2>3. /\ issuedFor[k] = NoRow /\ issuedFor'[k] = task[r].row
        /\ \A c \in Cards : c # k => issuedFor'[c] = issuedFor[c]
    BY <1>0, <2>1, <2>2 DEF CardRowsOK, CardTypeOK
  <2>4. /\ \A s \in Requests : s # r => task'[s] = task[s]
        /\ task[r].row = NoRow => task'[r].op = "idle"
        /\ task[r].row # NoRow => task'[r].op = "approve" /\ task'[r].row = task[r].row
                                  /\ task'[r].seen = k
    BY <1>0, <1>7, <2>2, CardInserted DEF Carries, Later
  <2>5. ASSUME NEW q \in CardRequests, q # task[r].row
        PROVE  IssuedTo(q)' = IssuedTo(q)
    BY <2>3, <2>5, CardAssumption DEF IssuedTo
  <2>6. ASSUME NEW q \in CardRequests, q # task[r].row
        PROVE  Settled(q)'
    <3>1. \A s \in Requests : At(s, "approve") /\ task[s].row = q => At(s, "approve")' /\ task'[s].row = q
      BY <2>4, <2>6 DEF At
    <3> QED
      BY <1>0, <1>1, <2>1, <2>5, <2>6, <3>1 DEF CardRequestOK, At
  <2>7. ASSUME NEW q \in CardRequests, q = task[r].row
        PROVE  Settled(q)' /\ Decided(r)' /\ \A s \in Requests : s # r => Decided(s)'
    <3>1. task'[r].op = "approve" /\ task'[r].row = q /\ task'[r].seen = k
      BY <2>4, <2>7, CardAssumption
    <3>2. Settled(q)'
      BY <3>1 DEF CardRequestOK, At
    <3>3. ~CardRequestExcused(q) => Undecided(q)
      BY <1>0, <2>1, <2>7 DEF CardTaskDecides, At, Deciding
    <3>4. ~CardRequestExcused(q) => IssuedTo(q)' = {k}
      BY <2>2, <2>3, <2>7, <3>3 DEF Undecided, IssuedTo
    <3>5. Decided(r)'
      BY <1>1, <2>1, <3>1, <3>3, <3>4 DEF CardTaskDecides, At, Undecided
    <3>6. ASSUME NEW s \in Requests, s # r PROVE Decided(s)'
      <4>1. task'[s] = task[s]
        BY <2>4, <3>6
      <4>2. CASE AtWork(s, q)
        BY <1>1, <1>2, <2>1, <2>7, <3>6, <4>1, <4>2 DEF Deciding
      <4>3. CASE ~AtWork(s, q)
        BY <1>0, <1>1, <2>1, <2>5, <2>7, <4>1, <4>3 DEF CardTaskDecides, At, Undecided
      <4> QED
        BY <4>2, <4>3
    <3> QED
      BY <3>2, <3>5, <3>6
  <2>8. ASSUME task[r].row \notin CardRequests
        PROVE  \A s \in Requests : Decided(s)'
    <3>1. task[r].row = NoRow
      BY <1>0, <2>1, <2>8 DEF CardTaskTyped
    <3>2. Decided(r)'
      BY <2>4, <3>1 DEF Deciding
    <3>3. ASSUME NEW s \in Requests, s # r PROVE Decided(s)'
      BY <1>0, <1>1, <2>1, <2>4, <2>5, <2>8, <3>3 DEF CardTaskDecides, At, Undecided
    <3> QED
      BY <3>2, <3>3
  <2>9. \A q \in CardRequests : Settled(q)'
    BY <2>6, <2>7
  <2>10. \A s \in Requests : Decided(s)'
    BY <2>7, <2>8
  <2> QED
    BY <2>9, <2>10 DEF CardsDecided
\* The decision is written: by this request alone.
<1>8. ASSUME NEW r \in Requests, task[r].op \in {"approve", "reject"}, Becomes(r, Idle),
             issuedFor' = issuedFor, NEW q \in CardRequests, q = task[r].row,
             \A c \in CardRequests : c # q => cardReq'[c] = cardReq[c],
             \/ /\ At(r, "approve")
                /\ cardReq'[q].status = "approved" /\ cardReq'[q].issued = task[r].seen
             \/ At(r, "reject") /\ cardReq'[q].status = "rejected"
      PROVE  CardsDecided'
  <2>1. \A c : IssuedTo(c)' = IssuedTo(c)
    BY <1>8 DEF IssuedTo
  <2>2. task'[r].op = "idle" /\ \A s \in Requests : s # r => task'[s] = task[s]
    BY <1>8 DEF Becomes, Idle
  <2>3. ASSUME NEW c \in CardRequests, c # q PROVE Settled(c)'
    <3>1. \A s \in Requests : At(s, "approve") /\ task[s].row = c => At(s, "approve")' /\ task'[s].row = c
      BY <1>8, <2>2, <2>3 DEF At
    <3> QED
      BY <1>0, <1>1, <1>8, <2>1, <2>3, <3>1 DEF CardRequestOK
  <2>4. Settled(q)'
    <3>1. ~CardRequestExcused(q) => CardTaskDecides(r)
      BY <1>0, <1>8 DEF Deciding
    <3>2. At(r, "reject") => ~At(r, "approve")
      BY DEF At
    <3> QED
      BY <1>1, <1>8, <2>1, <3>1, <3>2 DEF CardTaskDecides, CardRequestOK, Undecided
  <2>5. ASSUME NEW s \in Requests PROVE Decided(s)'
    <3>1. CASE s = r
      BY <2>2, <3>1 DEF Deciding
    <3>2. CASE s # r /\ AtWork(s, q)
      BY <1>1, <1>2, <1>8, <2>2, <3>2 DEF Deciding
    <3>3. CASE s # r /\ ~AtWork(s, q)
      BY <1>0, <1>1, <1>8, <2>1, <2>2, <3>3 DEF CardTaskDecides, At, Undecided
    <3> QED
      BY <3>1, <3>2, <3>3
  <2> QED
    BY <2>3, <2>4, <2>5 DEF CardsDecided
<1>9. ASSUME NEW r \in Requests, ApproveRequest(r) \/ RejectRequest(r)
      PROVE  CardsDecided'
  <2>1. Becomes(r, Idle) /\ issuedFor' = issuedFor /\ (At(r, "approve") \/ At(r, "reject"))
    BY <1>0, <1>9, CloseFacts DEF ApproveRequest, RejectRequest
  <2>2. PICK q \in CardRequests : q = task[r].row
    BY <1>0, <2>1 DEF CardTaskTyped, At
  <2>3. cardReq \in [CardRequests -> CardRequestRow]
    BY <1>0 DEF CardRowsOK, CardTypeOK
  <2>4. CASE ApproveRequest(r)
    <3>1. PICK new : /\ new = [status |-> "approved", issued |-> task[r].seen]
                     /\ cardReq' = [cardReq EXCEPT ![q] = new]
      BY <2>2, <2>4 DEF ApproveRequest
    <3>2. new.status = "approved" /\ new.issued = task[r].seen
      BY <3>1
    <3>3. cardReq'[q] = new /\ \A c \in CardRequests : c # q => cardReq'[c] = cardReq[c]
      BY <2>3, <3>1
    <3>4. At(r, "approve")
      BY <2>4 DEF ApproveRequest
    <3> QED
      BY <1>8, <2>1, <2>2, <3>2, <3>3, <3>4 DEF At
  <2>5. CASE RejectRequest(r)
    <3>1. cardReq' = [cardReq EXCEPT ![q].status = "rejected"]
      BY <2>2, <2>5 DEF RejectRequest
    <3>2. cardReq'[q].status = "rejected" /\ \A c \in CardRequests : c # q => cardReq'[c] = cardReq[c]
      BY <2>3, <3>1 DEF CardRequestRow
    <3>3. At(r, "reject")
      BY <2>5 DEF RejectRequest
    <3> QED
      BY <1>8, <2>1, <2>2, <3>2, <3>3 DEF At
  <2> QED
    BY <1>9, <2>4, <2>5
<1>10. ASSUME NEW r \in Requests, DeactivateCard(r) \/ ReactivateCard(r)
       PROVE  CardsDecided'
  <2>1. UNCHANGED <<cardReq, issuedFor>> /\ Becomes(r, Idle) /\ task[r].op # "approve"
    BY <1>0, <1>10, CloseFacts DEF DeactivateCard, ReactivateCard, CardFrame, At
  <2>2. \A q \in CardRequests : Settled(q)'
    BY <1>4, <2>1 DEF Becomes, At
  <2>3. Decided(r)' /\ \A s \in Requests : s # r => Decided(s)'
    BY <1>3, <2>1 DEF Becomes, Idle, Deciding
  <2> QED
    BY <2>2, <2>3 DEF CardsDecided
<1>11. ASSUME NEW q \in CardRequests, RequestCard(q)
       PROVE  CardsDecided'
  <2>1. /\ task' = task /\ issuedFor' = issuedFor /\ cardReq[q].status = "absent"
        /\ cardReq' = [cardReq EXCEPT ![q].status = "pending"]
        /\ \A s \in Requests : q \in task[s].on => q \in raced'
    BY <1>0, <1>11, AtOnceFacts DEF RequestCard
  <2>2. cardReq \in [CardRequests -> CardRequestRow]
    BY <1>0 DEF CardRowsOK, CardTypeOK
  <2>3. cardReq'[q].status = "pending" /\ \A c \in CardRequests : c # q => cardReq'[c] = cardReq[c]
    BY <2>1, <2>2 DEF CardRequestRow
  <2>4. \A c : IssuedTo(c)' = IssuedTo(c)
    BY <2>1 DEF IssuedTo
  <2>5. ASSUME NEW c \in CardRequests PROVE Settled(c)'
    BY <1>0, <1>1, <2>1, <2>3, <2>4 DEF CardRequestOK, At
  <2>6. ASSUME NEW s \in Requests PROVE Decided(s)'
    <3>1. CASE AtWork(s, q)
      BY <1>0, <2>1, <3>1 DEF CardTaskTyped, CardRequestExcused, Raced
    <3>2. CASE ~AtWork(s, q)
      BY <1>0, <1>1, <2>1, <2>3, <2>4, <3>2 DEF CardTaskDecides, At, Undecided
    <3> QED
      BY <3>1, <3>2
  <2> QED
    BY <2>5, <2>6 DEF CardsDecided
<1>12. CASE \E n \in LimitColumns : SetOverride(n)
  <2>1. UNCHANGED <<task, cardReq, issuedFor>>
    BY <1>12 DEF SetOverride, AtOnce
  <2> QED
    BY <1>3, <1>4, <2>1 DEF CardsDecided
<1>13. CASE CardStep
  <2>1. ASSUME NEW r \in Requests,
               \/ GenerateNumber(r) \/ ReadLimit(r) \/ CountCards(r) \/ InsertCard(r) \/ EndsCard(r)
        PROVE  CardsDecided'
    BY <1>6, <1>7, <1>9, <1>10, <2>1 DEF EndsCard
  <2> QED
    BY <1>0, <1>5, <1>11, <1>12, <1>13, <2>1, CardCases
<1>14. CASE ~CardStep
  <2>1. /\ UNCHANGED <<cardReq, issuedFor>>
        /\ \A q \in Requests :
             \/ task'[q] = task[q]
             \/ task'[q].op \notin Deciding /\ (task[q].op = "approve" => task[q].row \in cut')
    BY <1>14, CardsBeside DEF cardVars
  <2>2. \A q \in CardRequests : Settled(q)'
    BY <1>4, <2>1 DEF At
  <2>3. ASSUME NEW r \in Requests PROVE Decided(r)'
    BY <1>3, <2>1
  <2> QED
    BY <2>2, <2>3 DEF CardsDecided
<1> QED
  BY <1>13, <1>14

LEMMA CardsStep == CardInv /\ [OfficeNext]_officeVars => CardInv'
<1>1. ASSUME CardInv, UNCHANGED officeVars PROVE CardInv'
  <2>1. UNCHANGED <<requestVars, policyVars, cardVars>>
    BY <1>1 DEF officeVars
  <2>2. UNCHANGED <<area, ops, task, raced, cut, policy, moved, card, cardReq, override, issuedFor>>
    BY <2>1 DEF requestVars, policyVars, cardVars
  <2>3. PolicyInv'
    BY <1>1, PoliciesStep DEF CardInv, CardsTyped
  <2>4. CardsTyped'
    BY <1>1, <2>2, <2>3 DEF CardInv, CardsTyped, CardRowsOK, CardTypeOK, Guarded, Exclusive,
       CardTaskTyped, At, KindOf, Issued
  <2>5. CardsFresh'
    <3>1. /\ \A type : NumbersOf(type)' = NumbersOf(type) /\ Exhausted(type)' = Exhausted(type)
          /\ EffectiveLimits' = EffectiveLimits /\ Room' = Room
      BY <2>2 DEF NumbersOf, Issued, Exhausted, EffectiveLimits, ApartmentLimit, OrDefault, Current,
         Created, Room, ActiveBuildingCards
    <3> QED
      BY <1>1, <2>2, <3>1 DEF CardInv, CardsFresh, CardTaskFresh, Raced, At, KindOf
  <2>6. CardsDecided'
    BY <1>1, <2>2 DEF CardInv, CardsDecided, CardTaskDecides, CardRequestExcused, CardRequestOK,
       At, Raced, IssuedTo, Undecided
  <2> QED
    BY <2>4, <2>5, <2>6 DEF CardInv
<1>2. ASSUME CardInv, OfficeNext PROVE CardInv'
  BY <1>2, CardsTypedStep, CardsFreshStep, CardsDecidedStep DEF CardInv
<1> QED
  BY <1>1, <1>2

\* The card issued for a request is the one the request shows, unless two
\* decisions were taken at once or an approval stopped half way.
THEOREM RequestsMatchCards == OfficeSpec => []RequestMatchesCard
<1>1. CardInv => RequestMatchesCard
  BY DEF CardInv, CardsDecided, CardRequestExcused, CardRequestOK, IssuedTo, RequestMatchesCard
<1> QED
  BY <1>1, CardsInit, CardsStep, PTL DEF OfficeSpec

\* The number generated for a card is free when the card is inserted, unless two
\* requests generated one at once or no number is left.
THEOREM NumbersFree == OfficeSpec => []GeneratedNumberFree
<1>1. CardInv => GeneratedNumberFree
  <2> SUFFICES ASSUME CardInv, NEW r \in Requests, At(r, "insert"), ~Raced(Home),
                      task[r].seen \in NumbersOf(task[r].kind)
               PROVE  Exhausted(task[r].kind)
    BY DEF GeneratedNumberFree, Exhausted
  <2>1. task[r].row \notin Cards /\ CardTaskFresh(r) /\ KindOf(r) = task[r].kind
    BY CardAssumption DEF CardInv, CardsTyped, CardTaskTyped, CardsFresh, At, KindOf
  <2> QED
    BY <2>1 DEF CardTaskFresh, At
<1> QED
  BY <1>1, CardsInit, CardsStep, PTL DEF OfficeSpec

\* Cards are issued and reactivated up to the limit of the apartment, unless two
\* requests had the apartment or its limit in hand at once.
THEOREM LimitKept == OfficeSpec => CardLimitKept
<1>1. ASSUME CardInv, [OfficeNext]_officeVars
      PROVE  [Cardinality(ActiveBuildingCards') > Cardinality(ActiveBuildingCards) =>
                \/ Raced(Home)'
                \/ \E n \in EffectiveLimits : Cardinality(ActiveBuildingCards') <= n]_cardVars
  BY <1>1, LimitStep DEF CardInv, officeVars
<1> QED
  BY <1>1, CardsInit, CardsStep, PTL DEF OfficeSpec, CardLimitKept

-----------------------------------------------------------------------------
(* Types *)

\* A step makes one request more, or none.
Counted == ops' = ops \/ (ops < MaxOps[area] /\ ops' = ops + 1)

LEMMA StatementsCount ==
  /\ \A r, a, new : Open(r, a, new) => Counted
  /\ \A a, objects : AtOnce(a, objects) => Counted
  /\ \A r, new : Proceed(r, new) => Counted
  /\ \A r, op : Goto(r, op) => Counted
  /\ \A r : Close(r) => Counted
  BY DEF Open, AtOnce, Proceed, Goto, Close, Counted

LEMMA RequestsCounted ==
  ASSUME OfficeNext
  PROVE  Counted
<1>1. CASE ContractStep
  <2>1. ASSUME NEW r \in Requests,
               \/ \E a \in Apartments : OpenSigning(r, a)
               \/ \E n : SignContract(r, n)
               \/ \E c \in Contracts : \/ OpenTermination(r, c)
                                       \/ \E count, percent : OpenGeneration(r, c, count, percent)
               \/ ValidateContract(r) \/ GenerateSchedules(r)
               \/ \E end : Terminate(r, end)
        PROVE  Counted
    <3>1. ASSUME NEW a, OpenSigning(r, a) PROVE Counted
      BY <3>1, StatementsCount, Zenon DEF OpenSigning
    <3>2. ASSUME NEW n, SignContract(r, n) PROVE Counted
      BY <3>2, StatementsCount, Zenon DEF SignContract
    <3>3. ASSUME NEW c, OpenTermination(r, c) PROVE Counted
      BY <3>3, StatementsCount, Zenon DEF OpenTermination
    <3>4. ASSUME NEW c, NEW count, NEW percent, OpenGeneration(r, c, count, percent) PROVE Counted
      BY <3>4, StatementsCount, Zenon DEF OpenGeneration
    <3>5. ASSUME ValidateContract(r) \/ GenerateSchedules(r) PROVE Counted
      BY <3>5, StatementsCount, Zenon DEF ValidateContract, GenerateSchedules
    <3>6. ASSUME NEW end, Terminate(r, end) PROVE Counted
      BY <3>6, StatementsCount, Zenon DEF Terminate
    <3> QED
      BY <2>1, <3>1, <3>2, <3>3, <3>4, <3>5, <3>6
  <2>2. ASSUME NEW c, \/ \E row : AddSchedule(c, row) \/ EditApartment(c, row)
                      \/ \E i : DropSchedule(c, i) \/ \E due, amount : ChangeSchedule(c, i, due, amount)
                      \/ \E status, n, new : UpdateContract(c, status, n, new)
        PROVE  Counted
    <3>1. ASSUME NEW row, AddSchedule(c, row) \/ EditApartment(c, row) PROVE Counted
      BY <3>1, StatementsCount, Zenon DEF AddSchedule, AlterPlan, EditApartment
    <3>2. ASSUME NEW i, DropSchedule(c, i) PROVE Counted
      BY <3>2, StatementsCount, Zenon DEF DropSchedule, AlterPlan
    <3>3. ASSUME NEW i, NEW due, NEW amount, ChangeSchedule(c, i, due, amount) PROVE Counted
      BY <3>3, StatementsCount, Zenon DEF ChangeSchedule, AlterPlan
    <3>4. ASSUME NEW status, NEW n, NEW new, UpdateContract(c, status, n, new) PROVE Counted
      BY <3>4, StatementsCount, Zenon DEF UpdateContract
    <3> QED
      BY <2>2, <3>1, <3>2, <3>3, <3>4
  <2> QED
    BY <1>1, <2>1, <2>2 DEF ContractStep
<1>2. CASE PolicyStep
  BY <1>2, StatementsCount DEF PolicyStep, OpenPolicy, OpenAmendment, CreatePolicy, AmendPolicy,
     Tick, requestVars, Counted
<1>3. CASE CardStep
  <2>1. ASSUME NEW r \in Requests,
               \/ \E type, number : OpenCard(r, type, number)
               \/ \E q : OpenApproval(r, q) \/ OpenRejection(r, q) \/ OpenReactivation(r, q)
               \/ \E k, status : OpenDeactivation(r, k, status)
        PROVE  Counted
    <3>1. ASSUME NEW type, NEW number, OpenCard(r, type, number) PROVE Counted
      BY <3>1, StatementsCount, Zenon DEF OpenCard
    <3>2. ASSUME NEW q, OpenApproval(r, q) \/ OpenRejection(r, q) \/ OpenReactivation(r, q)
          PROVE  Counted
      BY <3>2, StatementsCount, Zenon DEF OpenApproval, OpenRejection, OpenReactivation
    <3>3. ASSUME NEW k, NEW status, OpenDeactivation(r, k, status) PROVE Counted
      BY <3>3, StatementsCount, Zenon DEF OpenDeactivation
    <3> QED
      BY <2>1, <3>1, <3>2, <3>3
  <2>2. ASSUME NEW r \in Requests,
               \/ GenerateNumber(r) \/ ReadLimit(r) \/ CountCards(r) \/ InsertCard(r)
               \/ RefuseNumber(r) \/ ApproveRequest(r) \/ RejectRequest(r)
               \/ DeactivateCard(r) \/ ReactivateCard(r)
        PROVE  Counted
    <3>1. ASSUME GenerateNumber(r) \/ ReadLimit(r) \/ CountCards(r) PROVE Counted
      BY <3>1, StatementsCount, Zenon DEF GenerateNumber, ReadLimit, CountCards
    <3>2. ASSUME InsertCard(r) \/ RefuseNumber(r) PROVE Counted
      BY <3>2, StatementsCount, Zenon DEF InsertCard, RefuseNumber
    <3>3. ASSUME ApproveRequest(r) \/ RejectRequest(r) \/ DeactivateCard(r) \/ ReactivateCard(r)
          PROVE  Counted
      BY <3>3, StatementsCount, Zenon DEF ApproveRequest, RejectRequest, DeactivateCard, ReactivateCard
    <3> QED
      BY <2>2, <3>1, <3>2, <3>3
  <2>3. ASSUME \E q : RequestCard(q) \/ SetOverride(q)
        PROVE  Counted
    BY <2>3, StatementsCount DEF RequestCard, SetOverride
  <2> QED
    BY <1>3, <2>1, <2>2, <2>3 DEF CardStep
<1>4. CASE ParkingStep
  <2>1. ASSUME NEW r, NEW start, NEW count, OpenSlots(r, start, count) PROVE Counted
    BY <2>1, StatementsCount, Zenon DEF OpenSlots
  <2>2. ASSUME NEW r, NEW n, OpenRelease(r, n) \/ \E tenant : OpenAssignment(r, n, tenant)
        PROVE  Counted
    BY <2>2, StatementsCount, Zenon DEF OpenAssignment, OpenRelease, OpenSlot
  <2>3. ASSUME NEW r, CreateSlots(r) \/ AssignSlot(r) \/ UnassignSlot(r) PROVE Counted
    BY <2>3, StatementsCount, Zenon DEF CreateSlots, AssignSlot, UnassignSlot
  <2>4. ASSUME NEW n, NEW status, UpdateSlot(n, status) PROVE Counted
    BY <2>4, StatementsCount, Zenon DEF UpdateSlot
  <2> QED
    BY <1>4, <2>1, <2>2, <2>3, <2>4 DEF ParkingStep
<1>5. CASE AccountStep
  BY <1>5, StatementsCount DEF AccountStep, OpenAccount, UnsetPrimary, AddAccount, ChangeAccount,
     DeleteAccount
<1>6. CASE MeterStep
  <2>1. ASSUME NEW r, NEW p, NEW v, NEW previous, OpenReading(r, p, v, previous) PROVE Counted
    BY <2>1, StatementsCount, Zenon DEF OpenReading
  <2>2. ASSUME NEW r, NEW p, OpenRemoval(r, p) \/ \E v : OpenCorrection(r, p, v) PROVE Counted
    BY <2>2, StatementsCount, Zenon DEF OpenCorrection, OpenRemoval
  <2>3. ASSUME NEW r, ReadPrevious(r) \/ EnterReading(r) \/ CorrectReading(r) \/ RemoveReading(r)
        PROVE  Counted
    BY <2>3, StatementsCount, Zenon DEF ReadPrevious, EnterReading, CorrectReading, RemoveReading
  <2>4. ASSUME NEW p, BillReading(p) PROVE Counted
    BY <2>4, StatementsCount, Zenon DEF BillReading
  <2> QED
    BY <1>6, <2>1, <2>2, <2>3, <2>4 DEF MeterStep
<1>7. CASE FailAny
  BY <1>7 DEF FailAny, Fail, Counted
<1> QED
  BY <1>1, <1>2, <1>3, <1>4, <1>5, <1>6, <1>7 DEF OfficeNext

\* The rows of contracts and apartments, and what the histories name.
ContractTyped ==
    /\ apt \in [Apartments -> ApartmentRow]
    /\ \A c \in Contracts : IsContract(contract[c])
    /\ edited \cup adjusted \subseteq Apartments /\ thinned \subseteq altered

LEMMA NewContractTyped ==
  ASSUME NEW a \in Apartments, NEW n \in Residents \cup {NoRow}, NEW t, IsTerms(t)
  PROVE  IsContract(NewlySigned(a, n, t)) /\ Occupied(n) \in ApartmentRow
<1>1. n \in Nat \cup {NoRow}
  BY ContractAssumption
<1> QED
  BY <1>1, ContractAssumption DEF NewlySigned, IsContract, ContractStatus, Occupied, OrNone, ApartmentRow,
     ApartmentStatus

\* A contract whose status, residents or terms are changed.
LEMMA ContractChanged ==
  ASSUME NEW row, IsContract(row), NEW new, DOMAIN new = DOMAIN row,
         new.status \in ContractStatus, new.apartment = row.apartment,
         new.residents \in Nat \cup {NoRow}, IsTerms(new.terms)
  PROVE  IsContract(new)
  BY DEF IsContract

LEMMA ContractTypes ==
  ASSUME PlanInv, ContractTyped, [OfficeNext]_officeVars
  PROVE  ContractTyped'
<1>0. /\ \A a \in Apartments : apt[a] \in ApartmentRow
      /\ contract = [c \in Contracts |-> contract[c]] /\ area \in Areas
      /\ \A c \in Contracts : /\ IsContract(contract[c])
                              /\ Signed(c) => /\ IsTerms(contract[c].terms)
                                              /\ contract[c].apartment \in Apartments
  BY DEF ContractTyped, PlanInv, PlanOK, ContractInv
<1>1. CASE OfficeNext /\ ContractStep
  <2>0. area \in ContractAreas /\ \A r \in Requests : ContractTask(r)
    BY <1>1, ContractRuns DEF PlanInv, ContractInv
  <2>1. ASSUME UNCHANGED <<apt, contract, edited, adjusted, altered, thinned>> PROVE ContractTyped'
    BY <2>1 DEF ContractTyped
  <2>2. ASSUME NEW r \in Requests, NEW n \in Residents \cup {NoRow}, SignContract(r, n)
        PROVE  ContractTyped'
    <3>0. PICK a, c : a = task[r].row /\ c = NewContract
      OBVIOUS
    <3>1. PICK t \in Terms[area] :
            /\ contract' = [contract EXCEPT ![c] = NewlySigned(a, n, t)]
            /\ apt' = [apt EXCEPT ![a] = Occupied(n)]
            /\ adjusted' = adjusted \ {a} /\ UNCHANGED <<edited, altered, thinned>>
            /\ At(r, "sign")
      BY <2>2, <3>0 DEF SignContract
    <3>2. a \in Apartments
      BY <2>0, <3>0, <3>1 DEF ContractTask
    <3>3. IsTerms(t)
      BY <1>0, ContractAssumption
    <3>4. PICK new, here : /\ new = NewlySigned(a, n, t) /\ here = Occupied(n)
                           /\ IsContract(new) /\ here \in ApartmentRow
      BY <3>2, <3>3, NewContractTyped
    <3>5. \A d \in Contracts : contract'[d] = contract[d] \/ contract'[d] = new
      BY <1>0, <3>1, <3>4
    <3>6. \A d \in Contracts : IsContract(contract[d])'
      BY <1>0, <3>4, <3>5 DEF IsContract
    <3> QED
      BY <3>1, <3>4, <3>6 DEF ContractTyped
  <2>3. ASSUME NEW r \in Requests, NEW end \in Ends[area], Terminate(r, end) PROVE ContractTyped'
    <3>1. PICK c, a : c = task[r].row /\ a = contract[c].apartment
      OBVIOUS
    <3>2. /\ contract' = [contract EXCEPT ![c].status = "terminated", ![c].terms.end = end]
          /\ apt' = [apt EXCEPT ![a] = Vacant] /\ adjusted' = adjusted \ {a}
          /\ UNCHANGED <<edited, altered, thinned>> /\ At(r, "terminate")
      BY <2>3, <3>1 DEF Terminate, Vacated
    <3>3. c \in Contracts /\ Signed(c) /\ IsContract(contract[c]) /\ IsTerms(contract[c].terms)
      BY <1>0, <2>0, <3>1, <3>2 DEF ContractTask
    <3>4. Vacant \in ApartmentRow
      BY DEF Vacant, ApartmentRow, ApartmentStatus
    <3>5. PICK row, t : row = contract[c] /\ t = [row.terms EXCEPT !.end = end]
      OBVIOUS
    <3>6. IsTerms(t)
      <4>1. IsDate(end)
        BY <1>0, ContractAssumption
      <4> QED
        BY <3>3, <3>5, <4>1, EndChanged DEF Sames
    <3>7. IsContract(contract'[c])
      <4>1. /\ DOMAIN row = {"status", "apartment", "residents", "terms"}
            /\ row.residents \in Nat \cup {NoRow} /\ "terminated" \in ContractStatus
        BY <3>3, <3>5 DEF IsContract, ContractStatus
      <4>2. PICK new : /\ new = [row EXCEPT !.status = "terminated", !.residents = row.residents,
                                            !.terms = t]
                       /\ contract'[c] = new
        BY <1>0, <3>2, <3>3, <3>5, <4>1
      <4>3. /\ DOMAIN new = DOMAIN row /\ new.status = "terminated" /\ new.terms = t
            /\ new.apartment = row.apartment /\ new.residents = row.residents
        BY <4>1, <4>2
      <4>4. IsContract(new)
        BY <3>3, <3>5, <3>6, <4>1, <4>3, ContractChanged
      <4> QED
        BY <4>2, <4>4
    <3>8. \A d \in Contracts : d # c => contract'[d] = contract[d]
      BY <1>0, <3>2
    <3>9. \A d \in Contracts : IsContract(contract[d])'
      BY <1>0, <3>7, <3>8 DEF IsContract
    <3> QED
      BY <3>2, <3>4, <3>9 DEF ContractTyped
  <2>4. ASSUME NEW c \in Contracts,
               \/ \E row : AddSchedule(c, row)
               \/ \E i : DropSchedule(c, i) \/ \E due, amount : ChangeSchedule(c, i, due, amount)
        PROVE  ContractTyped'
    <3> DEFINE Altered == /\ UNCHANGED <<apt, contract, edited, adjusted>>
                          /\ altered' = altered \cup {c}
                          /\ thinned' = thinned \/ thinned' = thinned \cup {c}
    <3>1. ASSUME NEW row, AddSchedule(c, row) PROVE Altered
      BY <3>1, Zenon DEF AddSchedule, AlterPlan
    <3>2. ASSUME NEW i, DropSchedule(c, i) PROVE Altered
      BY <3>2, Zenon DEF DropSchedule, AlterPlan
    <3>3. ASSUME NEW i, NEW due, NEW amount, ChangeSchedule(c, i, due, amount) PROVE Altered
      BY <3>3, Zenon DEF ChangeSchedule, AlterPlan
    <3>4. Altered
      <4> HIDE DEF Altered
      <4> QED
        BY <2>4, <3>1, <3>2, <3>3
    <3> QED
      BY <3>4 DEF ContractTyped
  <2>5. ASSUME NEW c \in Contracts, NEW status \in ContractStatus, NEW n \in Residents \cup {NoRow},
               NEW new \in Amendments, UpdateContract(c, status, n, new)
        PROVE  ContractTyped'
    <3>1. PICK a, m, row, t :
            /\ a = contract[c].apartment /\ m = Given(n, contract[c].residents)
            /\ row = contract[c] /\ t = Amended(contract[c].terms, new)
      OBVIOUS
    <3>2. /\ Signed(c) /\ UNCHANGED <<adjusted, altered, thinned>>
          /\ contract' = [contract EXCEPT ![c].status = status, ![c].residents = Given(n, @),
                                          ![c].terms = Amended(@, new)]
          /\ apt' = IF n # NoRow /\ status = "active" THEN [apt EXCEPT ![a].residents = n] ELSE apt
          /\ edited' = IF status # contract[c].status THEN edited \cup {a} ELSE edited
      BY <2>5, <3>1 DEF UpdateContract
    <3>3. a \in Apartments /\ IsContract(row) /\ IsTerms(row.terms)
      BY <1>0, <3>1, <3>2
    <3>4. IsTerms(t)
      BY <1>0, <3>1, <3>3, AmendedSound DEF Sames
    <3>5. m \in Nat \cup {NoRow}
      BY <3>1, <3>3, ContractAssumption DEF IsContract, Given
    <3>6. IsContract(contract'[c])
      <4>1. DOMAIN row = {"status", "apartment", "residents", "terms"}
        BY <3>3 DEF IsContract
      <4>2. PICK whole : /\ whole = [row EXCEPT !.status = status, !.residents = m, !.terms = t]
                         /\ contract'[c] = whole
        BY <1>0, <3>1, <3>2, <4>1
      <4>3. /\ DOMAIN whole = DOMAIN row /\ whole.status = status /\ whole.terms = t
            /\ whole.apartment = row.apartment /\ whole.residents = m
        BY <4>1, <4>2
      <4>4. IsContract(whole)
        BY <3>3, <3>4, <3>5, <4>3, ContractChanged
      <4> QED
        BY <4>2, <4>4
    <3>7. \A d \in Contracts : d # c => contract'[d] = contract[d]
      BY <1>0, <3>2
    <3>8. \A d \in Contracts : IsContract(contract[d])'
      BY <1>0, <3>6, <3>7 DEF IsContract
    <3>9. apt' \in [Apartments -> ApartmentRow]
      <4>1. CASE n # NoRow /\ status = "active"
        <5>1. n \in Nat
          BY <4>1, ContractAssumption
        <5>2. [apt[a] EXCEPT !.residents = n] \in ApartmentRow
          BY <1>0, <3>3, <5>1 DEF ApartmentRow
        <5> QED
          BY <3>2, <4>1, <5>2 DEF ContractTyped
      <4>2. CASE ~(n # NoRow /\ status = "active")
        BY <3>2, <4>2 DEF ContractTyped
      <4> QED
        BY <4>1, <4>2
    <3> QED
      BY <3>2, <3>3, <3>8, <3>9 DEF ContractTyped
  <2>6. ASSUME NEW a \in Apartments, NEW row \in Edits, EditApartment(a, row)
        PROVE  ContractTyped'
    <3>1. /\ apt' = [apt EXCEPT ![a] = row] /\ adjusted' = adjusted \cup {a}
          /\ UNCHANGED <<contract, edited, altered, thinned>>
      BY <2>6 DEF EditApartment
    <3>2. row \in ApartmentRow
      BY ContractAssumption
    <3> QED
      BY <3>1, <3>2 DEF ContractTyped
  <2>7. ASSUME NEW r \in Requests,
               \/ \E a : OpenSigning(r, a)
               \/ \E c : OpenTermination(r, c) \/ \E count, percent : OpenGeneration(r, c, count, percent)
               \/ ValidateContract(r) \/ GenerateSchedules(r)
        PROVE  ContractTyped'
    <3>1. UNCHANGED <<apt, contract, edited, adjusted, altered, thinned>>
      <4>1. ASSUME \/ \E a : OpenSigning(r, a)
                   \/ \E c : OpenTermination(r, c) \/ \E count, percent : OpenGeneration(r, c, count, percent)
                   \/ ValidateContract(r)
            PROVE  UNCHANGED contractVars
        BY <4>1, Zenon DEF OpenSigning, OpenTermination, OpenGeneration, ValidateContract
      <4>2. ASSUME GenerateSchedules(r)
            PROVE  UNCHANGED <<apt, contract, edited, adjusted, altered, thinned>>
        BY <4>2, Zenon DEF GenerateSchedules
      <4> QED
        BY <2>7, <4>1, <4>2 DEF contractVars
    <3> QED
      BY <2>1, <3>1
  <2> QED
    BY <1>1, <2>2, <2>3, <2>4, <2>5, <2>6, <2>7 DEF ContractStep
<1>2. CASE OfficeNext /\ ~ContractStep
  BY <1>2 DEF OfficeNext, BesidesParking, BesidesCards, BesidesMeters, BesidesAccounts, FailAny,
     contractVars, ContractTyped
<1>3. CASE UNCHANGED officeVars
  BY <1>3 DEF officeVars, contractVars, ContractTyped
<1> QED
  BY <1>1, <1>2, <1>3

\* The rows of readings.
MeterTaskTyped(r) ==
    /\ task[r].op \in {"previous", "enter", "correct"} => task[r].kind \in Values
    /\ At(r, "enter") => task[r].seen \in Values \cup {NoRow}

MeterTyped ==
    /\ reading \in [Periods -> ReadingRow]
    /\ area = "meters" => \A r \in Requests : MeterTaskTyped(r)

LEMMA LastIsRead ==
  ASSUME reading \in [Periods -> ReadingRow], NEW p
  PROVE  LastBefore(p) \in Values \cup {NoRow}
<1> DEFINE before == {q \in Entered : q < p}
<1>1. before \subseteq Periods
  BY DEF Entered
<1>2. CASE before # {}
  <2>1. IsFiniteSet(before) /\ before \subseteq Nat
    BY <1>1, MeterAssumption, FS_Subset
  <2> HIDE DEF before
  <2>0. before # {}
    BY <1>2 DEF before
  <2> DEFINE f == [q \in before |-> q]
  <2>2. PICK m \in {f[q] : q \in before} \cup {0} : \A q \in before : f[q] <= m
    <3>1. \A q \in before : f[q] \in Nat
      BY <2>1
    <3> HIDE DEF f
    <3> QED
      BY <2>1, <3>1, GreatestNumber
  <2>3. \E q \in before : \A s \in before : s <= q
    <3>1. CASE m \in before
      BY <2>1, <2>2, <3>1
    <3>2. CASE m \notin before
      <4>1. m = 0
        BY <2>2, <3>2
      <4>2. PICK q : q \in before
        BY <2>0
      <4>3. q \in Nat /\ f[q] = q /\ f[q] <= m
        BY <2>1, <2>2, <4>2
      <4> QED
        BY <3>2, <4>1, <4>2, <4>3
    <3> QED
      BY <3>1, <3>2
  <2>4. PICK q \in before : q = CHOOSE x \in before : \A s \in before : s <= x
    BY <2>3
  <2>5. reading[q] \in ReadingRow
    BY <1>1
  <2>6. LastBefore(p) = reading[q].current
    BY <1>2, <2>4 DEF LastBefore, before
  <2> QED
    BY <2>5, <2>6 DEF ReadingRow
<1>3. CASE before = {}
  BY <1>3 DEF LastBefore
<1> QED
  BY <1>2, <1>3

LEMMA MeterTypes ==
  ASSUME MeterInv, MeterTyped, [OfficeNext]_officeVars
  PROVE  MeterTyped'
<1>0. NoReading \in ReadingRow /\ \A p \in Periods : reading[p] \in ReadingRow
  BY DEF MeterTyped, NoReading, ReadingRow
<1>1. CASE OfficeNext /\ MeterStep
  <2>0. /\ area = "meters" /\ area' = area /\ TasksOK
        /\ \A r \in Requests : MeterTask(r) /\ MeterTaskTyped(r)
    BY <1>1, MeterRuns, OfficeRuns DEF MeterInv, MeterTyped, InArea, Fits
  <2>1. ASSUME NEW r \in Requests, NEW new, Becomes(r, new), reading' \in [Periods -> ReadingRow],
               new.op \in {"previous", "enter", "correct"} => new.kind \in Values,
               new.op = "enter" => new.seen \in Values \cup {NoRow}
        PROVE  MeterTyped'
    <3>1. ASSUME NEW q \in Requests PROVE MeterTaskTyped(q)'
      BY <2>0, <2>1 DEF MeterTaskTyped, At, Becomes
    <3> QED
      BY <2>1, <3>1 DEF MeterTyped
  <2>2. ASSUME NEW r \in Requests, NEW new, Open(r, {"meters"}, new), Shape(new), UNCHANGED meterVars,
               new.op \in {"previous", "enter", "correct"} => new.kind \in Values,
               new.op = "enter" => new.seen \in Values \cup {NoRow}
        PROVE  MeterTyped'
    BY <2>0, <2>1, <2>2, OpenFacts DEF meterVars, MeterTyped
  <2>3. ASSUME NEW r \in Requests, NEW p \in Periods, NEW v \in Values,
               NEW previous \in Values \cup {NoRow}, OpenReading(r, p, v, previous)
        PROVE  MeterTyped'
    <3>1. PICK new : /\ Open(r, {"meters"}, new)
                     /\ new = [op |-> IF previous = NoRow THEN "previous" ELSE "enter",
                               on |-> Earlier(p), row |-> p, kind |-> v, seen |-> previous]
      BY <2>3 DEF OpenReading
    <3>2. Shape(new) /\ new.kind = v /\ new.seen = previous
      BY <3>1 DEF Shape
    <3> QED
      BY <2>2, <2>3, <3>1, <3>2 DEF OpenReading
  <2>4. ASSUME NEW r \in Requests, NEW p \in Periods, NEW v \in Values, OpenCorrection(r, p, v)
        PROVE  MeterTyped'
    <3>1. PICK new : /\ Open(r, {"meters"}, new)
                     /\ new = [Idle EXCEPT !.op = "correct", !.on = {p}, !.row = p, !.kind = v]
      BY <2>4, Zenon DEF OpenCorrection
    <3>2. Shape(new) /\ new.kind = v /\ new.op = "correct"
      BY <3>1 DEF Shape, Idle
    <3> QED
      BY <2>2, <2>4, <3>1, <3>2 DEF OpenCorrection
  <2>5. ASSUME NEW r \in Requests, NEW p \in Periods, OpenRemoval(r, p)
        PROVE  MeterTyped'
    <3>1. PICK new : /\ Open(r, {"meters"}, new)
                     /\ new = [Idle EXCEPT !.op = "remove", !.on = {p}, !.row = p]
      BY <2>5, Zenon DEF OpenRemoval
    <3>2. Shape(new) /\ new.op = "remove"
      BY <3>1 DEF Shape, Idle
    <3> QED
      BY <2>2, <2>5, <3>1, <3>2 DEF OpenRemoval
  <2>6. ASSUME NEW r \in Requests, ReadPrevious(r) PROVE MeterTyped'
    <3>1. PICK u, v : u = task[r] /\ v = LastBefore(u.row)
      OBVIOUS
    <3>2. PICK new : /\ Proceed(r, new) /\ new = [u EXCEPT !.op = "enter", !.seen = v]
                     /\ u.op = "previous"
      BY <2>6, <3>1, Zenon DEF ReadPrevious, At
    <3>3. Shape(u) /\ u.kind \in Values /\ v \in Values \cup {NoRow}
      BY <2>0, <3>1, <3>2, LastIsRead DEF TasksOK, MeterTaskTyped, MeterTyped
    <3>4. Shape(new) /\ new.op = "enter" /\ new.kind = u.kind /\ new.seen = v
      BY <3>2, <3>3 DEF Shape
    <3>5. Becomes(r, new) /\ reading' = reading
      BY <2>0, <2>6, <3>2, <3>4, ProceedFacts DEF ReadPrevious, meterVars
    <3> QED
      BY <2>1, <3>3, <3>4, <3>5 DEF MeterTyped
  <2>7. ASSUME NEW r \in Requests, Close(r), reading' \in [Periods -> ReadingRow] PROVE MeterTyped'
    BY <2>0, <2>1, <2>7, CloseFacts DEF Idle
  <2>8. ASSUME NEW r \in Requests, EnterReading(r) PROVE MeterTyped'
    <3>1. PICK u : u = task[r] /\ u.op = "enter"
      BY <2>8 DEF EnterReading, At
    <3>2. u.row \in Periods /\ u.kind \in Values /\ u.seen \in Values \cup {NoRow}
      BY <2>0, <3>1 DEF MeterTask, MeterTaskTyped, At
    <3>3. PICK row : row = [there |-> TRUE, previous |-> u.seen, current |-> u.kind] /\ row \in ReadingRow
      <4>1. PICK k, v : k = u.kind /\ v = u.seen
        OBVIOUS
      <4>2. [there |-> TRUE, previous |-> v, current |-> k] \in ReadingRow
        BY <3>2, <4>1 DEF ReadingRow
      <4> QED
        BY <4>1, <4>2
    <3>4. reading' = [reading EXCEPT ![u.row] = row] /\ Close(r)
      BY <2>8, <3>1, <3>3 DEF EnterReading
    <3> QED
      BY <2>7, <3>3, <3>4 DEF MeterTyped
  <2>9. ASSUME NEW r \in Requests, CorrectReading(r) PROVE MeterTyped'
    <3>1. PICK u : u = task[r] /\ u.op = "correct"
      BY <2>9 DEF CorrectReading, At
    <3>2. u.row \in Periods /\ u.kind \in Values
      BY <2>0, <3>1 DEF MeterTask, MeterTaskTyped, At
    <3>3. [reading[u.row] EXCEPT !.current = u.kind] \in ReadingRow
      BY <1>0, <3>2 DEF ReadingRow
    <3>4. reading' = [reading EXCEPT ![u.row].current = u.kind] /\ Close(r)
      BY <2>9, <3>1 DEF CorrectReading
    <3> QED
      BY <2>7, <3>3, <3>4 DEF MeterTyped
  <2>10. ASSUME NEW r \in Requests, RemoveReading(r) PROVE MeterTyped'
    BY <1>0, <2>7, <2>10 DEF RemoveReading, MeterTyped
  <2>11. ASSUME NEW p \in Periods, BillReading(p) PROVE MeterTyped'
    <3>1. task' = task /\ reading' = reading
      BY <2>11 DEF BillReading, AtOnce
    <3> QED
      BY <2>0, <3>1 DEF MeterTyped, MeterTaskTyped, At
  <2> QED
    BY <1>1, <2>3, <2>4, <2>5, <2>6, <2>8, <2>9, <2>10, <2>11 DEF MeterStep
<1>2. CASE OfficeNext /\ ~MeterStep
  <2>1. reading' = reading /\ area' = area
    BY <1>2, OfficeRuns DEF OfficeNext, BesidesContracts, BesidesCards, BesidesParking,
       BesidesAccounts, FailAny, meterVars, MeterInv
  <2>2. ASSUME area = "meters", NEW q \in Requests PROVE MeterTaskTyped(q)'
    <3>1. PICK r \in Requests : Fail(r)
      BY <1>2, <2>2, ContractRuns, PolicyRuns, CardRuns, ParkingRuns, AccountRuns
         DEF OfficeNext, FailAny, ContractAreas, CardAreas, MeterInv
    <3>2. Becomes(r, Idle)
      BY <3>1, FailFacts DEF MeterInv, InArea, Fits
    <3> QED
      BY <2>2, <3>2 DEF MeterTaskTyped, MeterTyped, Becomes, Idle, At
  <2> QED
    BY <2>1, <2>2 DEF MeterTyped
<1>3. CASE UNCHANGED officeVars
  <2>1. UNCHANGED <<area, task, reading>>
    BY <1>3 DEF officeVars, requestVars, meterVars
  <2> QED
    BY <2>1 DEF MeterTyped, MeterTaskTyped, At
<1> QED
  BY <1>1, <1>2, <1>3

\* What the type invariant says besides.
TypeInv ==
    /\ ops \in 0..MaxOps[area] /\ today \in Days /\ restated \subseteq Slots
    /\ ContractTyped /\ MeterTyped

LEMMA TypesInit == OfficeInit => TypeInv
<1> SUFFICES ASSUME OfficeInit PROVE TypeInv
  OBVIOUS
<1>1. ops \in 0..MaxOps[area] /\ today \in Days /\ restated \subseteq Slots
  <2>1. MaxOps[area] \in Nat /\ LastDay \in Nat
    BY RequestAssumption, PolicyAssumption DEF OfficeInit, RequestInit
  <2> QED
    BY <2>1 DEF OfficeInit, RequestInit, PolicyInit, ParkingInit, Days
<1>2. MeterTyped
  <2>1. NoReading \in ReadingRow
    BY DEF NoReading, ReadingRow
  <2>2. area = "meters" => \A r \in Requests : task[r].op = "idle"
    BY DEF OfficeInit, ContractInit, Idle
  <2> QED
    BY <2>1, <2>2 DEF OfficeInit, MeterInit, MeterTyped, MeterTaskTyped, At
<1>3. ContractTyped
  <2>0. /\ IsContract(NoContract) /\ Vacant \in ApartmentRow
        /\ edited = {} /\ adjusted = {} /\ altered = {} /\ thinned = {}
    BY DEF OfficeInit, ContractInit, NoContract, IsContract, Vacant, ApartmentRow, ApartmentStatus
  <2>1. CASE area \notin {"plans", "schedules"}
    <3>1. contract = [c \in Contracts |-> NoContract] /\ apt = [a \in Apartments |-> Vacant]
      BY <2>1 DEF OfficeInit, ContractInit
    <3> QED
      BY <2>0, <3>1 DEF ContractTyped
  <2>2. CASE area \in {"plans", "schedules"}
    <3> DEFINE first == CHOOSE c \in Contracts : TRUE
    <3>1. PICK b \in Apartments, t \in Terms[area] :
            /\ contract = [c \in Contracts |-> IF c = first THEN NewlySigned(b, NoRow, t) ELSE NoContract]
            /\ apt = [a \in Apartments |-> IF b = a THEN Occupied(NoRow) ELSE Vacant]
      BY <2>2 DEF OfficeInit, ContractInit
    <3>2. IsTerms(t)
      BY ContractAssumption DEF OfficeInit, RequestInit
    <3>3. PICK new, here : /\ new = NewlySigned(b, NoRow, t) /\ here = Occupied(NoRow)
                           /\ IsContract(new) /\ here \in ApartmentRow
      BY <3>2, NewContractTyped
    <3> HIDE DEF first
    <3>4. /\ contract = [c \in Contracts |-> IF c = first THEN new ELSE NoContract]
          /\ apt = [a \in Apartments |-> IF b = a THEN here ELSE Vacant]
      BY <3>1, <3>3
    <3>5. \A c \in Contracts : contract[c] \in {new, NoContract}
      BY <3>4
    <3>6. \A c \in Contracts : IsContract(contract[c])
      BY <2>0, <3>3, <3>5
    <3>7. apt \in [Apartments -> ApartmentRow]
      BY <2>0, <3>3, <3>4
    <3> QED
      BY <2>0, <3>6, <3>7 DEF ContractTyped
  <2> QED
    BY <2>1, <2>2
<1> QED
  BY <1>1, <1>2, <1>3 DEF TypeInv

LEMMA TypesStep ==
  ASSUME PlanInv, MeterInv, TypeInv, [OfficeNext]_officeVars
  PROVE  TypeInv'
<1>1. ContractTyped' /\ MeterTyped'
  BY ContractTypes, MeterTypes DEF TypeInv
<1>2. CASE OfficeNext
  <2>1. area' = area /\ Counted /\ MaxOps[area] \in Nat
    BY <1>2, OfficeRuns, RequestsCounted, RequestAssumption DEF PlanInv, ContractInv
  <2>2. ops' \in 0..MaxOps[area]'
    BY <2>1 DEF TypeInv, Counted
  <2>3. today' \in Days
    <3>1. CASE PolicyStep
      <4>1. ASSUME NEW r, \/ \E from, limit : \/ OpenPolicy(r, from, limit)
                                              \/ \E p : OpenAmendment(r, p, from, limit)
                          \/ CreatePolicy(r) \/ AmendPolicy(r)
            PROVE  today' = today
        BY <4>1, Zenon DEF OpenPolicy, OpenAmendment, CreatePolicy, AmendPolicy, policyVars
      <4>2. CASE Tick
        BY <4>2, PolicyAssumption DEF Tick, TypeInv, Days
      <4> QED
        BY <3>1, <4>1, <4>2 DEF PolicyStep, TypeInv
    <3>2. CASE CardStep
      <4>1. UNCHANGED today
        BY <3>2, CardsBesidePolicies DEF policyVars, PlanInv, ContractInv
      <4> QED
        BY <4>1 DEF TypeInv
    <3>3. CASE ~PolicyStep /\ ~CardStep
      BY <1>2, <3>3 DEF OfficeNext, BesidesContracts, BesidesParking, BesidesAccounts, BesidesMeters,
         FailAny, policyVars, TypeInv
    <3> QED
      BY <3>1, <3>2, <3>3
  <2>4. restated' \subseteq Slots
    <3>1. CASE ParkingStep
      <4>1. ASSUME NEW r, \/ \E start, count : OpenSlots(r, start, count)
                          \/ \E n : OpenRelease(r, n) \/ \E a : OpenAssignment(r, n, a)
                          \/ CreateSlots(r) \/ AssignSlot(r) \/ UnassignSlot(r)
            PROVE  restated' = restated
        BY <4>1, Zenon DEF OpenSlots, OpenAssignment, OpenRelease, OpenSlot, CreateSlots, AssignSlot,
           UnassignSlot, parkingVars
      <4>2. ASSUME NEW n \in Slots, NEW status, UpdateSlot(n, status)
            PROVE  restated' = restated \cup {n}
        BY <4>2, Zenon DEF UpdateSlot
      <4> QED
        BY <3>1, <4>1, <4>2 DEF ParkingStep, TypeInv
    <3>2. CASE ~ParkingStep
      BY <1>2, <3>2 DEF OfficeNext, BesidesContracts, BesidesCards, BesidesAccounts, BesidesMeters,
         FailAny, parkingVars, TypeInv
    <3> QED
      BY <3>1, <3>2
  <2> QED
    BY <1>1, <2>2, <2>3, <2>4 DEF TypeInv
<1>3. CASE UNCHANGED officeVars
  BY <1>1, <1>3 DEF officeVars, requestVars, policyVars, parkingVars, TypeInv
<1> QED
  BY <1>2, <1>3

\* Every value the office keeps stays of its type, in every module and for every
\* number of rows and requests: no statement writes a row that is not there, or
\* what the request has not read or been given, and the payments of every plan
\* are whole amounts, whatever is rounded.
THEOREM OfficeTyped == OfficeSpec => []OfficeTypeOK
<1>1. ASSUME PlanInv, MeterInv, AccountsInv, NumberInv, CardInv, TypeInv
      PROVE  OfficeTypeOK
  <2>1. ContractTypeOK
    <3>1. ASSUME NEW c \in Contracts, NEW i \in DOMAIN plan[c] PROVE plan[c][i].amount \in Int
      <4>1. PICK rows \in Seq(PlanRow) : rows = plan[c]
        BY <1>1 DEF PlanInv
      <4>2. rows[i] \in PlanRow
        BY <4>1
      <4> QED
        BY <4>1, <4>2 DEF PlanRow
    <3> QED
      BY <1>1, <3>1 DEF TypeInv, ContractTyped, ContractTypeOK
  <2>2. PolicyTypeOK /\ CardTypeOK
    BY <1>1 DEF TypeInv, CardInv, CardsTyped, CardRowsOK, PolicyInv, PolicyRowsOK, PolicyTypeOK
  <2>3. ParkingTypeOK /\ AccountTypeOK
    BY <1>1 DEF TypeInv, NumberInv, AccountsInv, ParkingTypeOK
  <2>4. MeterTypeOK
    <3>1. billed \subseteq Periods
      BY <1>1 DEF MeterInv, Entered
    <3> QED
      BY <1>1, <3>1 DEF TypeInv, MeterTyped, MeterTypeOK
  <2>5. area \in Areas /\ ops \in 0..MaxOps[area]
    BY <1>1 DEF PlanInv, TypeInv
  <2> QED
    BY <2>1, <2>2, <2>3, <2>4, <2>5 DEF OfficeTypeOK
<1>2. OfficeInit => PlanInv /\ MeterInv /\ AccountsInv /\ NumberInv /\ CardInv /\ TypeInv
  BY PlansInit, MetersInit, AccountsInit, NumbersInit, CardsInit, TypesInit
<1>3. ASSUME PlanInv, MeterInv, AccountsInv, NumberInv, CardInv, TypeInv, [OfficeNext]_officeVars
      PROVE  PlanInv' /\ MeterInv' /\ AccountsInv' /\ NumberInv' /\ CardInv' /\ TypeInv'
  BY <1>3, PlansStep, MetersStep, AccountsStep, NumbersStep, CardsStep, TypesStep
<1> QED
  BY <1>1, <1>2, <1>3, PTL DEF OfficeSpec
=============================================================================
