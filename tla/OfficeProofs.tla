----------------------------- MODULE OfficeProofs -----------------------------
(***************************************************************************)
(* Proofs, for every number of requests, apartments, contracts, accounts,  *)
(* readings and slots, that what the office records stays sound.           *)
(***************************************************************************)
EXTENDS Office, RequestProofs, FiniteSums, SequenceTheorems

ContractOps == {"sign", "plan", "generate", "terminate"}
CardOps == {"policy", "amend", "number", "limit", "count", "insert", "approve", "reject",
            "deactivate", "revive"}
ParkingOps == {"slots", "assign", "release"}
AccountOps == {"unset", "add", "change"}
MeterOps == {"previous", "enter", "correct", "remove"}

ContractAreas == {"contracts", "plans", "schedules"}
CardAreas == {"policies", "cards"}

\* The statements a request of the area is at.
OpsOf ==
    IF area \in ContractAreas THEN ContractOps
    ELSE IF area \in CardAreas THEN CardOps
    ELSE IF area = "parking" THEN ParkingOps
    ELSE IF area = "accounts" THEN AccountOps
    ELSE IF area = "meters" THEN MeterOps ELSE {}

\* No request is at a statement of another area.
InArea == Fits(OpsOf)

-----------------------------------------------------------------------------
(* Requests stay in their area *)

\* A request at a statement of some area: the behaviour is in that area, and
\* what closes the request or takes it to another statement keeps it there.
LEMMA GoesOn ==
  ASSUME InArea,
         NEW names, NEW there,
         \/ names = ContractOps /\ there = ContractAreas
         \/ names = CardOps /\ there = CardAreas
         \/ names = ParkingOps /\ there = {"parking"}
         \/ names = AccountOps /\ there = {"accounts"}
         \/ names = MeterOps /\ there = {"meters"},
         NEW r \in Requests, task[r].op \in names
  PROVE  /\ area \in there /\ Fits(names) /\ Shape(task[r])
         /\ Close(r) => Runs(names)
         /\ \A op \in names : Goto(r, op) => Runs(names)
         /\ \A new : Shape(new) /\ new.op \in names /\ Proceed(r, new) => Runs(names)
<1>1. area \in there
  BY DEF InArea, Fits, OpsOf, ContractOps, CardOps, ParkingOps, AccountOps, MeterOps,
     ContractAreas, CardAreas
<1>2. Fits(names)
  BY <1>1 DEF InArea, OpsOf, ContractAreas, CardAreas
<1>3. Shape(task[r])
  BY <1>2 DEF Fits, TasksOK
<1> QED
  BY <1>1, <1>2, <1>3, CloseFits, GotoFits, ProceedFits

LEMMA ContractRuns ==
  ASSUME InArea, ContractStep
  PROVE  area \in ContractAreas /\ Runs(ContractOps)
<1> DEFINE Fine == area \in ContractAreas /\ Runs(ContractOps)
<1> SUFFICES Fine
  OBVIOUS
<1>1. area \in ContractAreas => Fits(ContractOps)
  BY DEF InArea, OpsOf
<1>2. ASSUME NEW r \in Requests,
             \/ \E a \in Apartments : OpenSigning(r, a)
             \/ \E c \in Contracts : OpenTermination(r, c)
      PROVE  Fine
  <2> USE DEF Idle, Shape, Open, Touch, Fits, TasksOK, Runs, ContractAreas, ContractOps
  <2>1. CASE \E a \in Apartments : OpenSigning(r, a)
    BY <1>1, <2>1 DEF OpenSigning
  <2>2. CASE \E c \in Contracts : OpenTermination(r, c)
    BY <1>1, <2>2 DEF OpenTermination
  <2> QED
    BY <1>2, <2>1, <2>2
<1>3. ASSUME NEW r \in Requests, NEW c, NEW count, NEW percent,
             OpenGeneration(r, c, count, percent)
      PROVE  Fine
  <2>1. PICK new : /\ Open(r, {"contracts", "plans", "schedules"}, new)
                   /\ new = [op |-> "plan", on |-> {c}, row |-> c, seen |-> count, kind |-> percent]
    BY <1>3 DEF OpenGeneration
  <2>2. Shape(new) /\ new.op \in ContractOps /\ area \in ContractAreas
    BY <2>1 DEF Shape, ContractOps, Open, ContractAreas
  <2> QED
    BY <1>1, <2>1, <2>2, OpenFits
<1>4. ASSUME NEW r \in Requests, NEW n, SignContract(r, n)
      PROVE  Fine
  <2>1. PICK a, c, t : Proceed(r, AfterSigning(a, c, t)) /\ At(r, "sign")
    BY <1>4 DEF SignContract
  <2>2. Shape(AfterSigning(a, c, t)) /\ AfterSigning(a, c, t).op \in ContractOps
    BY DEF Shape, AfterSigning, ContractOps
  <2>3. task[r].op \in ContractOps
    BY <2>1 DEF At, ContractOps
  <2> QED
    BY <2>1, <2>2, <2>3, GoesOn
<1>5. ASSUME NEW r \in Requests, NEW end,
             ValidateContract(r) \/ GenerateSchedules(r) \/ Terminate(r, end)
      PROVE  Fine
  <2>1. task[r].op \in ContractOps /\ "generate" \in ContractOps
    BY <1>5 DEF ValidateContract, GenerateSchedules, Terminate, At, ContractOps
  <2>2. \/ Close(r)
        \/ \E planned : Proceed(r, [task[r] EXCEPT !.op = "generate", !.seen = planned])
    BY <1>5 DEF ValidateContract, GenerateSchedules, Terminate
  <2>3. ASSUME NEW planned, Proceed(r, [task[r] EXCEPT !.op = "generate", !.seen = planned])
        PROVE  Fine
    <3>1. PICK new : Proceed(r, new) /\ new = [task[r] EXCEPT !.op = "generate", !.seen = planned]
      BY <2>3
    <3>2. Shape(task[r])
      BY <2>1, GoesOn
    <3>3. Shape(new) /\ new.op = "generate"
      BY <3>1, <3>2 DEF Shape
    <3> QED
      BY <2>1, <3>1, <3>3, GoesOn
  <2> QED
    BY <2>1, <2>2, <2>3, GoesOn
<1>6. ASSUME NEW areas, NEW objects, areas \subseteq ContractAreas, AtOnce(areas, objects)
      PROVE  Fine
  BY <1>1, <1>6, AtOnceFits DEF AtOnce
<1>7. ASSUME NEW c \in Contracts,
             \/ \E row : AddSchedule(c, row)
             \/ \E i, due, amount : ChangeSchedule(c, i, due, amount)
             \/ \E i : DropSchedule(c, i)
      PROVE  Fine
  BY <1>6, <1>7 DEF AddSchedule, ChangeSchedule, DropSchedule, AlterPlan, ContractAreas
<1>8. ASSUME NEW c, NEW status, NEW n, NEW new, UpdateContract(c, status, n, new)
      PROVE  Fine
  BY <1>6, <1>8 DEF UpdateContract, ContractAreas
<1>9. ASSUME NEW a, NEW row, EditApartment(a, row)
      PROVE  Fine
  BY <1>6, <1>9 DEF EditApartment, ContractAreas
<1> HIDE DEF Fine
<1>10. ASSUME NEW r \in Requests,
              \/ \E a \in Apartments : OpenSigning(r, a)
              \/ \E n \in Residents \cup {NoRow} : SignContract(r, n)
              \/ \E c \in Contracts :
                    \/ \E count \in Counts[area], percent \in Percents :
                         OpenGeneration(r, c, count, percent)
                    \/ OpenTermination(r, c)
              \/ ValidateContract(r) \/ GenerateSchedules(r)
              \/ \E end \in Ends[area] : Terminate(r, end)
       PROVE  Fine
  BY <1>2, <1>3, <1>4, <1>5, <1>10
<1>11. ASSUME NEW c \in Contracts,
              \/ \E row \in HandRows : AddSchedule(c, row)
              \/ \E i \in DOMAIN plan[c] :
                    \/ \E due \in Ends[area] \cup {NoRow},
                          amount \in (Rents[area] \cap Nat) \cup {NoRow} :
                         ChangeSchedule(c, i, due, amount)
                    \/ DropSchedule(c, i)
              \/ \E status \in ContractStatus, n \in Residents \cup {NoRow}, new \in Amendments :
                   UpdateContract(c, status, n, new)
       PROVE  Fine
  BY <1>7, <1>8, <1>11
<1> QED
  BY <1>9, <1>10, <1>11 DEF ContractStep

\* Days may pass, too.
LEMMA PolicyRuns ==
  ASSUME InArea, PolicyStep
  PROVE  area \in CardAreas /\ (Runs(CardOps) \/ UNCHANGED requestVars)
<1> DEFINE Fine == area \in CardAreas /\ Runs(CardOps)
<1>1. area \in CardAreas => Fits(CardOps)
  BY DEF InArea, OpsOf, ContractAreas, CardAreas
<1>2. ASSUME NEW r \in Requests, NEW from, NEW limit, OpenPolicy(r, from, limit)
      PROVE  Fine
  <2>1. PICK p, new : /\ Open(r, {"policies", "cards"}, new)
                      /\ new = [op |-> "policy", on |-> {Building, Home}, row |-> p,
                                seen |-> from, kind |-> limit]
    BY <1>2 DEF OpenPolicy
  <2>2. Shape(new) /\ new.op \in CardOps /\ area \in CardAreas
    BY <2>1 DEF Shape, CardOps, Open, CardAreas
  <2> QED
    BY <1>1, <2>1, <2>2, OpenFits
<1>3. ASSUME NEW r \in Requests, NEW p, NEW from, NEW limit, OpenAmendment(r, p, from, limit)
      PROVE  Fine
  <2>1. PICK new : /\ Open(r, {"policies", "cards"}, new)
                   /\ new = [op |-> "amend", on |-> {p, Home}, row |-> p,
                             seen |-> from, kind |-> limit]
    BY <1>3 DEF OpenAmendment
  <2>2. Shape(new) /\ new.op \in CardOps /\ area \in CardAreas
    BY <2>1 DEF Shape, CardOps, Open, CardAreas
  <2> QED
    BY <1>1, <2>1, <2>2, OpenFits
<1>4. ASSUME NEW r \in Requests, CreatePolicy(r) \/ AmendPolicy(r)
      PROVE  Fine
  <2>1. task[r].op \in CardOps /\ Close(r)
    BY <1>4 DEF CreatePolicy, AmendPolicy, At, CardOps
  <2> QED
    BY <2>1, GoesOn
<1>5. CASE Tick
  BY <1>5 DEF Tick, CardAreas
<1> HIDE DEF Fine
<1>6. Fine \/ Tick
  BY <1>2, <1>3, <1>4 DEF PolicyStep
<1> QED
  BY <1>5, <1>6 DEF Fine, Tick

LEMMA CardRuns ==
  ASSUME InArea, CardStep
  PROVE  area \in CardAreas /\ Runs(CardOps)
<1> DEFINE Fine == area \in CardAreas /\ Runs(CardOps)
<1> SUFFICES Fine
  OBVIOUS
<1>1. area \in CardAreas => Fits(CardOps)
  BY DEF InArea, OpsOf, ContractAreas, CardAreas
<1>2. ASSUME NEW r \in Requests, NEW new, Shape(new), new.op \in CardOps, Open(r, {"cards"}, new)
      PROVE  Fine
  BY <1>1, <1>2, OpenFits DEF Open, CardAreas
<1>3. ASSUME NEW r \in Requests, NEW type, NEW number, OpenCard(r, type, number)
      PROVE  Fine
  <2>1. PICK new : /\ Open(r, {"cards"}, new)
                   /\ new = [op |-> IF number = NoRow THEN "number" ELSE "limit",
                             on |-> {Home}, row |-> NoRow, seen |-> number, kind |-> type]
    BY <1>3 DEF OpenCard
  <2> QED
    BY <1>2, <2>1 DEF Shape, CardOps
<1>4. ASSUME NEW r \in Requests, NEW q, OpenApproval(r, q)
      PROVE  Fine
  <2>1. PICK new : /\ Open(r, {"cards"}, new)
                   /\ new = [op |-> "number", on |-> {Home, q}, row |-> q,
                             seen |-> NoRow, kind |-> TypeOf[q]]
    BY <1>4 DEF OpenApproval
  <2> QED
    BY <1>2, <2>1 DEF Shape, CardOps
<1>5. ASSUME NEW r \in Requests, NEW k, OpenReactivation(r, k)
      PROVE  Fine
  <2>1. PICK new : /\ Open(r, {"cards"}, new)
                   /\ new = [op |-> "limit", on |-> {Home}, row |-> k, seen |-> NoRow,
                             kind |-> card[k].type]
    BY <1>5 DEF OpenReactivation
  <2> QED
    BY <1>2, <2>1 DEF Shape, CardOps
<1>6. ASSUME NEW r \in Requests, NEW q, OpenRejection(r, q)
      PROVE  Fine
  BY <1>1, <1>6 DEF OpenRejection, Idle, Shape, Open, Touch, Fits, TasksOK, Runs, CardOps, CardAreas
<1>7. ASSUME NEW r \in Requests, NEW k, NEW status, OpenDeactivation(r, k, status)
      PROVE  Fine
  BY <1>1, <1>7 DEF OpenDeactivation, Idle, Shape, Open, Touch, Fits, TasksOK, Runs, CardOps, CardAreas
<1>8. ASSUME NEW r \in Requests, task[r].op \in CardOps, Close(r)
      PROVE  Fine
  BY <1>8, GoesOn
<1>9. ASSUME NEW r \in Requests, task[r].op \in CardOps, NEW new, Shape(new), new.op \in CardOps,
             Proceed(r, new)
      PROVE  Fine
  BY <1>9, GoesOn
<1>10. ASSUME NEW r \in Requests, task[r].op \in CardOps
       PROVE  Shape(task[r])
  BY <1>10, GoesOn
<1>11. ASSUME NEW r \in Requests, task[r].op \in CardOps, NEW op \in CardOps, Goto(r, op)
       PROVE  Fine
  BY <1>11, GoesOn
<1>12. ASSUME NEW r \in Requests PROVE AfterLimit(r) \in CardOps
  BY DEF AfterLimit, CardOps
<1> HIDE DEF Fine
<1>13. ASSUME NEW r \in Requests, GenerateNumber(r)
       PROVE  Fine
  <2>1. task[r].op \in CardOps
    BY <1>13 DEF GenerateNumber, At, CardOps
  <2>2. PICK new : /\ Proceed(r, new)
                   /\ new = [task[r] EXCEPT !.op = "limit", !.seen = NextNumber(task[r].kind)]
    BY <1>13 DEF GenerateNumber
  <2>3. Shape(new)
    BY <1>10, <2>1, <2>2 DEF Shape
  <2>4. new.op = "limit"
    BY <1>10, <2>1, <2>2 DEF Shape
  <2> QED
    BY <1>9, <2>1, <2>2, <2>3, <2>4 DEF CardOps
<1>14. ASSUME NEW r \in Requests, ReadLimit(r)
       PROVE  Fine
  <2>1. task[r].op \in CardOps
    BY <1>14 DEF ReadLimit, At, CardOps
  <2>2. CASE Goto(r, AfterLimit(r))
    BY <1>11, <1>12, <2>1, <2>2
  <2>3. ASSUME NEW n, Proceed(r, [task[r] EXCEPT !.op = "count", !.kind = n])
        PROVE  Fine
    <3>1. PICK new : Proceed(r, new) /\ new = [task[r] EXCEPT !.op = "count", !.kind = n]
      BY <2>3
    <3>2. Shape(new)
      BY <1>10, <2>1, <3>1 DEF Shape
    <3>3. new.op = "count"
      BY <1>10, <2>1, <3>1 DEF Shape
    <3> QED
      BY <1>9, <2>1, <3>1, <3>2, <3>3 DEF CardOps
  <2> QED
    BY <1>14, <2>2, <2>3 DEF ReadLimit
<1>15. ASSUME NEW r \in Requests, CountCards(r)
       PROVE  Fine
  <2>1. task[r].op \in CardOps
    BY <1>15 DEF CountCards, At, CardOps
  <2>2. CASE Close(r)
    BY <1>8, <2>1, <2>2
  <2>3. CASE Proceed(r, [task[r] EXCEPT !.op = AfterLimit(r), !.kind = "building"])
    <3>1. PICK new : /\ Proceed(r, new)
                     /\ new = [task[r] EXCEPT !.op = AfterLimit(r), !.kind = "building"]
      BY <2>3
    <3>2. Shape(new)
      BY <1>10, <2>1, <3>1 DEF Shape
    <3>3. new.op = AfterLimit(r)
      BY <1>10, <2>1, <3>1 DEF Shape
    <3> QED
      BY <1>9, <1>12, <2>1, <3>1, <3>2, <3>3
  <2> QED
    BY <1>15, <2>2, <2>3 DEF CountCards
<1>16. ASSUME NEW r \in Requests, InsertCard(r)
       PROVE  Fine
  <2>1. task[r].op \in CardOps
    BY <1>16 DEF InsertCard, At, CardOps
  <2>2. CASE Close(r)
    BY <1>8, <2>1, <2>2
  <2>3. CASE Proceed(r, [task[r] EXCEPT !.op = "approve", !.seen = NewCard])
    <3>1. PICK new : Proceed(r, new) /\ new = [task[r] EXCEPT !.op = "approve", !.seen = NewCard]
      BY <2>3
    <3>2. Shape(new)
      BY <1>10, <2>1, <3>1 DEF Shape
    <3>3. new.op = "approve"
      BY <1>10, <2>1, <3>1 DEF Shape
    <3> QED
      BY <1>9, <2>1, <3>1, <3>2, <3>3 DEF CardOps
  <2> QED
    BY <1>16, <2>2, <2>3 DEF InsertCard
<1>17. ASSUME NEW r \in Requests,
              \/ RefuseNumber(r) \/ ApproveRequest(r) \/ RejectRequest(r)
              \/ DeactivateCard(r) \/ ReactivateCard(r)
       PROVE  Fine
  <2>1. task[r].op \in CardOps /\ Close(r)
    BY <1>17 DEF RefuseNumber, ApproveRequest, RejectRequest, DeactivateCard, ReactivateCard, At,
       CardOps
  <2> QED
    BY <1>8, <2>1
<1>18. ASSUME NEW objects, AtOnce({"cards"}, objects)
       PROVE  Fine
  BY <1>1, <1>18, AtOnceFits DEF AtOnce, CardAreas, Fine
<1>19. CASE \E q \in CardRequests : RequestCard(q)
  BY <1>18, <1>19 DEF RequestCard
<1>20. CASE \E n \in LimitColumns : SetOverride(n)
  BY <1>18, <1>20 DEF SetOverride
<1> QED
  BY <1>3, <1>4, <1>5, <1>6, <1>7, <1>13, <1>14, <1>15, <1>16, <1>17, <1>19, <1>20 DEF CardStep

LEMMA ParkingRuns ==
  ASSUME InArea, ParkingStep
  PROVE  area = "parking" /\ Runs(ParkingOps)
<1> DEFINE Fine == area = "parking" /\ Runs(ParkingOps)
<1> SUFFICES Fine
  OBVIOUS
<1>1. area = "parking" => Fits(ParkingOps)
  BY DEF InArea, OpsOf, ContractAreas, CardAreas
<1>2. ASSUME NEW r \in Requests, NEW start, NEW count, OpenSlots(r, start, count)
      PROVE  Fine
  <2>1. PICK new : /\ Open(r, {"parking"}, new)
                   /\ new = [op |-> "slots", on |-> {Zone}, kind |-> count,
                             row |-> IF start = 0 THEN NoRow ELSE Zone,
                             seen |-> IF start = 0 THEN LastSlot + 1 ELSE start]
    BY <1>2 DEF OpenSlots
  <2>2. Shape(new) /\ new.op \in ParkingOps /\ area = "parking"
    BY <2>1 DEF Shape, ParkingOps, Open
  <2> QED
    BY <1>1, <2>1, <2>2, OpenFits
<1>3. ASSUME NEW r \in Requests, NEW op \in ParkingOps, NEW n, NEW tenant, OpenSlot(r, op, n, tenant)
      PROVE  Fine
  BY <1>1, <1>3 DEF OpenSlot, Idle, Shape, Open, Touch, Fits, TasksOK, Runs
<1>4. ASSUME NEW r \in Requests, NEW n, (\E a : OpenAssignment(r, n, a)) \/ OpenRelease(r, n)
      PROVE  Fine
  BY <1>3, <1>4 DEF OpenAssignment, OpenRelease, ParkingOps
<1>5. ASSUME NEW r \in Requests, CreateSlots(r) \/ AssignSlot(r) \/ UnassignSlot(r)
      PROVE  Fine
  <2>1. task[r].op \in ParkingOps /\ Close(r)
    BY <1>5 DEF CreateSlots, AssignSlot, UnassignSlot, At, ParkingOps
  <2>2. area \in {"parking"} /\ Runs(ParkingOps)
    BY <2>1, GoesOn
  <2> QED
    BY <2>2
<1>6. ASSUME NEW n, NEW status, UpdateSlot(n, status)
      PROVE  Fine
  BY <1>1, <1>6, AtOnceFits DEF UpdateSlot, AtOnce
<1> HIDE DEF Fine
<1> QED
  BY <1>2, <1>4, <1>5, <1>6 DEF ParkingStep

LEMMA AccountRuns ==
  ASSUME InArea, AccountStep
  PROVE  area = "accounts" /\ Runs(AccountOps)
<1> DEFINE Fine == area = "accounts" /\ Runs(AccountOps)
<1> SUFFICES Fine
  OBVIOUS
<1>1. area = "accounts" => Fits(AccountOps)
  BY DEF InArea, OpsOf, ContractAreas, CardAreas
<1>2. ASSUME NEW r \in Requests, NEW b, NEW op \in {"add", "change"}, NEW primary, NEW isActive,
             OpenAccount(r, b, op, primary, isActive)
      PROVE  Fine
  <2>1. PICK new : /\ Open(r, {"accounts"}, new)
                   /\ new = [op |-> IF primary = 1 THEN "unset" ELSE op, on |-> {Holder},
                             row |-> b, seen |-> primary, kind |-> isActive]
    BY <1>2 DEF OpenAccount
  <2>2. Shape(new) /\ new.op \in AccountOps /\ area = "accounts"
    BY <2>1 DEF Shape, AccountOps, Open
  <2> QED
    BY <1>1, <2>1, <2>2, OpenFits
<1>3. ASSUME NEW r \in Requests, UnsetPrimary(r) \/ AddAccount(r) \/ ChangeAccount(r)
      PROVE  Fine
  <2>1. /\ task[r].op \in AccountOps
        /\ Close(r) \/ \E op \in AccountOps : Goto(r, op)
    BY <1>3 DEF UnsetPrimary, AddAccount, ChangeAccount, At, AccountOps
  <2>2. area \in {"accounts"} /\ Runs(AccountOps)
    BY <2>1, GoesOn
  <2> QED
    BY <2>2
<1>4. ASSUME NEW b, DeleteAccount(b)
      PROVE  Fine
  BY <1>1, <1>4, AtOnceFits DEF DeleteAccount, AtOnce
<1> HIDE DEF Fine
<1> QED
  BY <1>2, <1>3, <1>4 DEF AccountStep

LEMMA MeterRuns ==
  ASSUME InArea, MeterStep
  PROVE  area = "meters" /\ Runs(MeterOps)
<1> DEFINE Fine == area = "meters" /\ Runs(MeterOps)
<1> SUFFICES Fine
  OBVIOUS
<1>1. area = "meters" => Fits(MeterOps)
  BY DEF InArea, OpsOf, ContractAreas, CardAreas
<1>2. ASSUME NEW r \in Requests, NEW p, NEW v, NEW previous, OpenReading(r, p, v, previous)
      PROVE  Fine
  <2>1. PICK new : /\ Open(r, {"meters"}, new)
                   /\ new = [op |-> IF previous = NoRow THEN "previous" ELSE "enter",
                             on |-> Earlier(p), row |-> p, kind |-> v, seen |-> previous]
    BY <1>2 DEF OpenReading
  <2>2. Shape(new) /\ new.op \in MeterOps /\ area = "meters"
    BY <2>1 DEF Shape, MeterOps, Open
  <2> QED
    BY <1>1, <2>1, <2>2, OpenFits
<1>3. ASSUME NEW r \in Requests, NEW p, (\E v : OpenCorrection(r, p, v)) \/ OpenRemoval(r, p)
      PROVE  Fine
  <2> USE DEF Idle, Shape, Open, Touch, Fits, TasksOK, Runs, MeterOps
  <2>1. CASE \E v : OpenCorrection(r, p, v)
    BY <1>1, <2>1 DEF OpenCorrection
  <2>2. CASE OpenRemoval(r, p)
    BY <1>1, <2>2 DEF OpenRemoval
  <2> QED
    BY <1>3, <2>1, <2>2
<1>4. ASSUME NEW r \in Requests, ReadPrevious(r)
      PROVE  Fine
  <2>1. task[r].op \in MeterOps
    BY <1>4 DEF ReadPrevious, At, MeterOps
  <2>2. Shape(task[r])
    BY <2>1, GoesOn
  <2>3. PICK new : /\ Proceed(r, new)
                   /\ new = [task[r] EXCEPT !.op = "enter", !.seen = LastBefore(task[r].row)]
    BY <1>4 DEF ReadPrevious
  <2>4. Shape(new)
    BY <2>2, <2>3 DEF Shape
  <2>5. new.op = "enter"
    BY <2>2, <2>3 DEF Shape
  <2>6. new.op \in MeterOps
    BY <2>5 DEF MeterOps
  <2>7. area \in {"meters"} /\ Runs(MeterOps)
    BY <2>1, <2>3, <2>4, <2>6, GoesOn
  <2> QED
    BY <2>7
<1>5. ASSUME NEW r \in Requests, EnterReading(r) \/ CorrectReading(r) \/ RemoveReading(r)
      PROVE  Fine
  <2>1. task[r].op \in MeterOps /\ Close(r)
    BY <1>5 DEF EnterReading, CorrectReading, RemoveReading, At, MeterOps
  <2>2. area \in {"meters"} /\ Runs(MeterOps)
    BY <2>1, GoesOn
  <2> QED
    BY <2>2
<1>6. ASSUME NEW p, BillReading(p)
      PROVE  Fine
  BY <1>1, <1>6, AtOnceFits DEF BillReading, AtOnce
<1> HIDE DEF Fine
<1> QED
  BY <1>2, <1>3, <1>4, <1>5, <1>6 DEF MeterStep

\* Every step leaves the requests in their area.
LEMMA OfficeRuns ==
  ASSUME InArea, OfficeNext
  PROVE  InArea' /\ area' = area /\ raced \subseteq raced' /\ cut \subseteq cut'
<1>1. CASE ContractStep
  BY <1>1, ContractRuns DEF InArea, OpsOf, Runs
<1>2. CASE PolicyStep
  <2>1. CASE Runs(CardOps)
    BY <1>2, <2>1, PolicyRuns DEF InArea, OpsOf, Runs, ContractAreas, CardAreas
  <2>2. CASE UNCHANGED requestVars
    BY <2>2 DEF InArea, OpsOf, Fits, TasksOK, Shape, requestVars
  <2> QED
    BY <1>2, <2>1, <2>2, PolicyRuns
<1>3. CASE CardStep
  BY <1>3, CardRuns DEF InArea, OpsOf, Runs, ContractAreas, CardAreas
<1>4. CASE ParkingStep
  BY <1>4, ParkingRuns DEF InArea, OpsOf, Runs, ContractAreas, CardAreas
<1>5. CASE AccountStep
  BY <1>5, AccountRuns DEF InArea, OpsOf, Runs, ContractAreas, CardAreas
<1>6. CASE MeterStep
  BY <1>6, MeterRuns DEF InArea, OpsOf, Runs, ContractAreas, CardAreas
<1>7. CASE FailAny
  BY <1>7, FailFits DEF FailAny, InArea, OpsOf, Runs
<1> QED
  BY <1>1, <1>2, <1>3, <1>4, <1>5, <1>6, <1>7 DEF OfficeNext

LEMMA OfficeStarts == OfficeInit => InArea
<1> SUFFICES ASSUME OfficeInit PROVE InArea
  OBVIOUS
<1>1. CASE area \notin {"plans", "schedules"}
  <2>1. task = [r \in Requests |-> Idle]
    BY <1>1 DEF OfficeInit, ContractInit
  <2>2. Idle.op = "idle"
    BY DEF Idle
  <2> QED
    BY <2>1, <2>2, IdleShape DEF InArea, Fits, TasksOK
<1>2. CASE area \in {"plans", "schedules"}
  <2>1. PICK a \in Apartments, t \in Terms[area] :
          task = [q \in Requests |-> IF q = CHOOSE s \in Requests : TRUE
                                     THEN AfterSigning(a, CHOOSE c \in Contracts : TRUE, t) ELSE Idle]
    BY <1>2 DEF OfficeInit, ContractInit
  <2> DEFINE first == AfterSigning(a, CHOOSE c \in Contracts : TRUE, t)
  <2>2. Shape(first) /\ first.op = "plan" /\ Idle.op = "idle"
    BY DEF Shape, AfterSigning, Idle
  <2> HIDE DEF first
  <2>3. \A r \in Requests : task[r] \in {first, Idle}
    BY <2>1 DEF first
  <2>4. OpsOf = ContractOps /\ "plan" \in ContractOps
    BY <1>2 DEF OpsOf, ContractAreas, ContractOps
  <2>5. \A r \in Requests : Shape(task[r]) /\ task[r].op \in OpsOf \cup {"idle"}
    BY <2>2, <2>3, <2>4, IdleShape
  <2> QED
    BY <2>1, <2>5 DEF InArea, Fits, TasksOK
<1> QED
  BY <1>1, <1>2

-----------------------------------------------------------------------------
(* Bank accounts *)

AccountsExcused == Raced(Holder) \/ Holder \in cut

\* One account is primary if the holder chose one.
PrimaryAsChosen == IF chosen THEN \E b \in Accounts : Primary = {b} ELSE Primary = {}

\* What a request relies on: after the first of two statements none is primary.
AccountTask(r) ==
    /\ task[r].op # "idle" => /\ Holder \in task[r].on /\ task[r].row \in Accounts
                              /\ task[r].seen \in 0..2 /\ task[r].kind \in BOOLEAN
    /\ At(r, "unset") => task[r].seen = 1
    /\ ~AccountsExcused /\ ~Free(r) /\ ~At(r, "unset") /\ task[r].seen = 1 => Primary = {}

AccountsInv ==
    /\ InArea /\ AccountTypeOK
    /\ \A b \in Accounts : account[b].primary => account[b].there
    /\ IF area = "accounts" THEN Exclusive(Holder) /\ \A r \in Requests : AccountTask(r)
       ELSE Primary = {} /\ ~chosen
    /\ \/ AccountsExcused
       \/ \E r \in Requests : task[r].op \in {"add", "change"} /\ task[r].seen = 1
       \/ PrimaryAsChosen

LEMMA AccountsInit == OfficeInit => AccountsInv
<1> SUFFICES ASSUME OfficeInit PROVE AccountsInv
  OBVIOUS
<1>1. InArea
  BY OfficeStarts
<1>2. AccountTypeOK /\ Primary = {} /\ ~chosen /\ \A b \in Accounts : ~account[b].primary
  BY DEF OfficeInit, AccountInit, AccountTypeOK, NoAccount, Primary
<1>3. area = "accounts" => task = [r \in Requests |-> Idle]
  BY DEF OfficeInit, ContractInit
<1> QED
  BY <1>1, <1>2, <1>3 DEF AccountsInv, PrimaryAsChosen, Exclusive, AccountTask, Free, At, Idle

\* The first statement of a request.
LEMMA AccountsOpened ==
  ASSUME AccountsInv, area = "accounts", area' = area, InArea',
         NEW r \in Requests, NEW b \in Accounts, NEW op \in {"add", "change"},
         NEW given \in 0..2, NEW isActive \in BOOLEAN, OpenAccount(r, b, op, given, isActive)
  PROVE  AccountsInv'
<1> USE DEF AccountsInv, accountVars
<1>1. PICK new : /\ Open(r, {"accounts"}, new)
                 /\ new = [op |-> IF given = 1 THEN "unset" ELSE op, on |-> {Holder},
                           row |-> b, seen |-> given, kind |-> isActive]
  BY DEF OpenAccount
<1>2. Shape(new) /\ TasksOK
  BY <1>1 DEF Shape, InArea, Fits
<1>3. /\ task[r].op = "idle" /\ cut' = cut /\ raced \subseteq raced'
      /\ task'[r] = new /\ \A q \in Requests : q # r => task'[q] = task[q]
  BY <1>1, <1>2, OpenFacts DEF Becomes
<1>4. Exclusive(Holder)'
  BY <1>1, <1>2, OpenExclusive
<1>5. UNCHANGED <<account, chosen>>
  BY DEF OpenAccount
<1>6. AccountsExcused => AccountsExcused'
  BY <1>3 DEF AccountsExcused, Raced
<1>7. ASSUME NEW q \in Requests, q # r, task[q].op # "idle"
      PROVE  AccountsExcused'
  BY <1>1, <1>3, <1>4, <1>7 DEF AccountTask, Exclusive, AccountsExcused, Raced
<1>8. ASSUME NEW q \in Requests PROVE AccountTask(q)'
  <2>1. CASE q = r
    BY <1>1, <1>3, <2>1 DEF AccountTask, At
  <2>2. CASE q # r
    BY <1>3, <1>5, <1>7, <2>2 DEF AccountTask, At, Free, Primary
  <2> QED
    BY <2>1, <2>2
<1>9. \/ AccountsExcused'
      \/ PrimaryAsChosen'
  <2>1. ASSUME ~AccountsExcused' PROVE PrimaryAsChosen
    BY <1>3, <1>6, <1>7, <2>1
  <2> QED
    BY <1>5, <2>1 DEF PrimaryAsChosen, Primary
<1> QED
  BY <1>4, <1>5, <1>8, <1>9 DEF AccountTypeOK

\* Its later statements.
LEMMA AccountsGoOn ==
  ASSUME AccountsInv, area = "accounts", area' = area, InArea', cut' = cut,
         NEW r \in Requests, UnsetPrimary(r) \/ AddAccount(r) \/ ChangeAccount(r)
  PROVE  AccountsInv'
<1> USE DEF AccountsInv
<1> DEFINE b == task[r].row
           Kept == IF task'[r].op = "idle" THEN task'[r].on = {}
                   ELSE /\ task'[r].on = task[r].on /\ task'[r].row = b
                        /\ task'[r].seen = task[r].seen /\ task'[r].kind = task[r].kind
<1>1. /\ raced' = raced /\ Exclusive(Holder)' /\ Kept
      /\ \A q \in Requests : q # r => task'[q] = task[q]
      /\ UnsetPrimary(r) => task'[r].op \in {"add", "change"}
      /\ ~UnsetPrimary(r) => task'[r].op = "idle"
  <2>1. ASSUME NEW op \in {"add", "change"}, Goto(r, op), UnsetPrimary(r)
        PROVE  /\ raced' = raced /\ Exclusive(Holder)' /\ Kept
               /\ \A q \in Requests : q # r => task'[q] = task[q]
               /\ task'[r].op \in {"add", "change"}
    <3>1. PICK new : Becomes(r, new) /\ new = [task[r] EXCEPT !.op = op]
      BY <2>1, GotoFacts DEF InArea, Fits
    <3>2. /\ new.op = op /\ new.on = task[r].on /\ new.row = b
          /\ new.seen = task[r].seen /\ new.kind = task[r].kind
      BY <3>1 DEF InArea, Fits, TasksOK, Shape
    <3> QED
      BY <2>1, <3>1, <3>2, GotoFacts DEF Becomes, InArea, Fits
  <2>2. CASE Close(r) /\ ~UnsetPrimary(r)
    BY <2>2, CloseFacts DEF Becomes, InArea, Fits, Idle
  <2> QED
    BY <2>1, <2>2 DEF UnsetPrimary, AddAccount, ChangeAccount, At
<1>2. /\ b \in Accounts /\ task[r].seen \in 0..2 /\ task[r].kind \in BOOLEAN
      /\ task[r].op # "idle" /\ Holder \in task[r].on
  BY DEF UnsetPrimary, AddAccount, ChangeAccount, AccountTask, At
<1> DEFINE NewRow(primary, active) == [there |-> TRUE, primary |-> primary, active |-> active]
           first == IF task[r].seen = 2 THEN account[b].primary ELSE task[r].seen = 1
<1>10. AddAccount(r) => /\ account' = [account EXCEPT ![b] = NewRow(task[r].seen = 1, TRUE)]
                        /\ ~account[b].primary
  BY <1>2 DEF AddAccount
<1>11. ChangeAccount(r) => account' = [account EXCEPT ![b] = NewRow(first, task[r].kind)]
  BY <1>2 DEF ChangeAccount
<1>3. /\ AccountTypeOK'
      /\ \A c \in Accounts : account'[c].primary => account'[c].there
  <2>1. CASE UnsetPrimary(r)
    BY <2>1 DEF UnsetPrimary, UnsetAll, AccountTypeOK
  <2>2. ASSUME NEW primary \in BOOLEAN, NEW active \in BOOLEAN, chosen' \in BOOLEAN,
               account' = [account EXCEPT ![b] = NewRow(primary, active)]
        PROVE  /\ AccountTypeOK'
               /\ \A c \in Accounts : account'[c].primary => account'[c].there
    BY <1>2, <2>2 DEF AccountTypeOK
  <2>3. first \in BOOLEAN /\ (chosen' \in BOOLEAN \/ UnsetPrimary(r))
    BY <1>2 DEF AccountTypeOK, AddAccount, ChangeAccount
  <2> HIDE DEF first, NewRow
  <2> QED
    BY <1>2, <1>10, <1>11, <2>1, <2>2, <2>3
<1>4. AccountsExcused' = AccountsExcused
  BY <1>1 DEF AccountsExcused, Raced
<1>5. ASSUME NEW q \in Requests, q # r, ~AccountsExcused
      PROVE  task[q].op = "idle"
  BY <1>2, <1>5 DEF AccountTask, Exclusive, AccountsExcused, Raced
<1>6. ASSUME UnsetPrimary(r)
      PROVE  Primary' = {} /\ task[r].seen = 1
  BY <1>6 DEF UnsetPrimary, UnsetAll, Primary, AccountTask, AccountTypeOK
<1>7. ASSUME NEW q \in Requests PROVE AccountTask(q)'
  <2>1. CASE q = r
    BY <1>1, <1>2, <1>6, <2>1 DEF AccountTask, At, Free
  <2>2. CASE q # r /\ AccountsExcused
    BY <1>1, <1>4, <2>2 DEF AccountTask, At, Free
  <2>3. CASE q # r /\ ~AccountsExcused
    BY <1>1, <1>5, <2>3 DEF AccountTask, At, Free
  <2> QED
    BY <2>1, <2>2, <2>3
<1>12. chosen \in BOOLEAN /\ \A c \in Accounts : account[c].primary \in BOOLEAN
  BY DEF AccountTypeOK
<1>15. /\ task[r].seen = 0 => task[r].seen # 1 /\ task[r].seen # 2
       /\ task[r].seen = 1 => task[r].seen # 0 /\ task[r].seen # 2
       /\ task[r].seen = 2 => task[r].seen # 0 /\ task[r].seen # 1
  OBVIOUS
<1>13. ASSUME ~UnsetPrimary(r)
       PROVE  /\ task[r].seen = 1 => account'[b].primary = TRUE
              /\ task[r].seen = 0 => account'[b].primary = FALSE
              /\ task[r].seen = 2 => account'[b].primary = account[b].primary
              /\ \A c \in Accounts : c # b => account'[c] = account[c]
  <2>1. CASE AddAccount(r)
    <3>1. account'[b].primary = (task[r].seen = 1)
      BY <1>2, <1>10, <2>1 DEF AccountTypeOK
    <3>2. task[r].seen = 1 => account'[b].primary = TRUE
      BY <3>1
    <3>3. task[r].seen # 1 => account'[b].primary = FALSE
      BY <3>1
    <3>4. account[b].primary = FALSE
      BY <1>2, <1>10, <1>12, <2>1
    <3>5. task[r].seen # 1 => account'[b].primary = account[b].primary
      BY <3>3, <3>4
    <3>6. \A c \in Accounts : c # b => account'[c] = account[c]
      BY <1>2, <1>10, <2>1 DEF AccountTypeOK
    <3> QED
      BY <1>15, <3>2, <3>3, <3>5, <3>6, Zenon
  <2>2. CASE ChangeAccount(r)
    <3>1. task[r].seen = 2 => account'[b].primary = account[b].primary
      BY <1>2, <1>11, <2>2 DEF AccountTypeOK
    <3>2. task[r].seen # 2 => account'[b].primary = (task[r].seen = 1)
      BY <1>2, <1>11, <2>2 DEF AccountTypeOK
    <3>3. task[r].seen = 1 => account'[b].primary = TRUE
      BY <1>15, <3>2, Zenon
    <3>4. task[r].seen = 0 => account'[b].primary = FALSE
      BY <1>15, <3>2, Zenon
    <3>5. \A c \in Accounts : c # b => account'[c] = account[c]
      BY <1>2, <1>11, <2>2 DEF AccountTypeOK
    <3> QED
      BY <3>1, <3>3, <3>4, <3>5
  <2> QED
    BY <1>13, <2>1, <2>2
<1>14. ASSUME ~UnsetPrimary(r)
       PROVE  /\ task[r].seen = 1 => chosen' = TRUE
              /\ task[r].seen = 2 => chosen' = chosen
              /\ AddAccount(r) /\ task[r].seen = 0 => chosen' = chosen
              /\ ChangeAccount(r) /\ task[r].seen = 0 =>
                   chosen' = IF account[b].primary THEN FALSE ELSE chosen
  <2>1. CASE AddAccount(r)
    <3>1. chosen' = IF task[r].seen = 1 THEN TRUE ELSE chosen
      BY <2>1 DEF AddAccount
    <3>2. ~ChangeAccount(r)
      BY <2>1 DEF AddAccount, ChangeAccount, At
    <3>3. task[r].seen = 1 => chosen' = TRUE
      BY <3>1, Zenon
    <3>4. task[r].seen # 1 => chosen' = chosen
      BY <3>1, Zenon
    <3> QED
      BY <1>15, <3>2, <3>3, <3>4, Zenon
  <2>2. CASE ChangeAccount(r)
    <3>1. chosen' = IF task[r].seen = 1 THEN TRUE
                    ELSE IF task[r].seen = 0 /\ account[b].primary THEN FALSE ELSE chosen
      BY <2>2 DEF ChangeAccount
    <3>2. ~AddAccount(r)
      BY <2>2 DEF AddAccount, ChangeAccount, At
    <3>3. task[r].seen = 1 => chosen' = TRUE
      BY <3>1, Zenon
    <3>4. task[r].seen # 1 /\ task[r].seen # 0 => chosen' = chosen
      BY <3>1, Zenon
    <3>5. task[r].seen # 1 /\ task[r].seen = 0 =>
            chosen' = IF account[b].primary THEN FALSE ELSE chosen
      BY <3>1, Zenon
    <3> QED
      BY <1>15, <3>2, <3>3, <3>4, <3>5, Zenon
  <2> QED
    BY <1>14, <2>1, <2>2
<1>8. ASSUME ~AccountsExcused, ~UnsetPrimary(r)
      PROVE  PrimaryAsChosen'
  <2>1. CASE task[r].seen = 1
    <3>1. Primary = {}
      BY <1>2, <1>8, <2>1 DEF AccountTask, At, Free, AddAccount, ChangeAccount
    <3>2. Primary' = {b} /\ chosen' = TRUE
      BY <1>2, <1>8, <1>13, <1>14, <2>1, <3>1 DEF Primary
    <3> QED
      BY <1>2, <3>2 DEF PrimaryAsChosen
  <2>2. CASE task[r].seen # 1
    <3>1. PrimaryAsChosen
      BY <1>5, <1>8, <2>2
    <3>2. CASE task[r].seen = 2
      <4>1. Primary' = Primary /\ chosen' = chosen
        BY <1>2, <1>8, <1>13, <1>14, <3>2 DEF Primary
      <4> QED
        BY <3>1, <4>1 DEF PrimaryAsChosen
    <3>3. CASE task[r].seen = 0 /\ AddAccount(r)
      <4>1. Primary' = Primary /\ chosen' = chosen
        BY <1>2, <1>8, <1>10, <1>13, <1>14, <3>3 DEF Primary
      <4> QED
        BY <3>1, <4>1 DEF PrimaryAsChosen
    <3>4. CASE task[r].seen = 0 /\ ChangeAccount(r)
      <4>1. Primary' = Primary \ {b}
        BY <1>2, <1>8, <1>13, <3>4 DEF Primary
      <4>2. chosen' = IF b \in Primary THEN FALSE ELSE chosen
        BY <1>2, <1>8, <1>14, <3>4 DEF Primary
      <4> QED
        BY <3>1, <4>1, <4>2 DEF PrimaryAsChosen
    <3> QED
      BY <1>2, <1>8, <2>2, <3>2, <3>3, <3>4
  <2> QED
    BY <2>1, <2>2
<1>9. \/ AccountsExcused'
      \/ (\E q \in Requests : task[q].op \in {"add", "change"} /\ task[q].seen = 1)'
      \/ PrimaryAsChosen'
  BY <1>1, <1>4, <1>6, <1>8
<1> QED
  BY <1>1, <1>3, <1>7, <1>9

LEMMA AccountsDeleted ==
  ASSUME AccountsInv, area = "accounts", area' = area, InArea',
         NEW b \in Accounts, DeleteAccount(b)
  PROVE  AccountsInv'
<1> USE DEF AccountsInv
<1>1. /\ task' = task /\ Exclusive(Holder)' /\ cut' = cut /\ raced \subseteq raced'
      /\ \A q \in Requests : task[q].op # "idle" => AccountsExcused'
  BY AtOnceFacts DEF DeleteAccount, InArea, Fits, AccountTask, AccountsExcused, Raced
<1>2. AccountTypeOK' /\ \A c \in Accounts : account'[c].primary => account'[c].there
  BY DEF DeleteAccount, NoAccount, AccountTypeOK
<1>3. AccountsExcused => AccountsExcused'
  BY <1>1 DEF AccountsExcused, Raced
<1>4. ASSUME NEW q \in Requests PROVE AccountTask(q)'
  BY <1>1 DEF AccountTask, At, Free
<1>5. ASSUME ~AccountsExcused' PROVE PrimaryAsChosen'
  <2>1. PrimaryAsChosen
    BY <1>1, <1>3, <1>5
  <2>2. /\ \A c \in Accounts : c # b => account'[c] = account[c]
        /\ ~account'[b].primary /\ chosen' = (chosen /\ ~account[b].primary)
    BY DEF DeleteAccount, NoAccount, AccountTypeOK
  <2> QED
    BY <2>1, <2>2 DEF PrimaryAsChosen, Primary
<1> QED
  BY <1>1, <1>2, <1>4, <1>5

\* A step of another part leaves the accounts as they are.
LEMMA AccountsUntouched ==
  ASSUME AccountsInv, OfficeNext, ~AccountStep, InArea', area' = area,
         raced \subseteq raced', cut \subseteq cut'
  PROVE  AccountsInv'
<1> USE DEF AccountsInv
<1>1. UNCHANGED <<account, chosen>>
  BY DEF OfficeNext, BesidesContracts, BesidesCards, BesidesParking, BesidesMeters, FailAny,
     accountVars
<1>2. AccountsExcused => AccountsExcused'
  BY DEF AccountsExcused, Raced
<1>3. AccountTypeOK' /\ Primary' = Primary /\ PrimaryAsChosen' = PrimaryAsChosen
  BY <1>1 DEF AccountTypeOK, Primary, PrimaryAsChosen
<1>4. CASE area # "accounts"
  <2>1. PrimaryAsChosen
    BY <1>4 DEF PrimaryAsChosen
  <2> QED
    BY <1>1, <1>3, <1>4, <2>1
<1>5. CASE area = "accounts"
  <2>1. PICK r \in Requests : Fail(r)
    BY <1>5, ContractRuns, PolicyRuns, CardRuns, ParkingRuns, MeterRuns
       DEF OfficeNext, FailAny, ContractAreas, CardAreas
  <2>2. /\ task[r].op # "idle" /\ cut' = cut \cup task[r].on /\ Becomes(r, Idle) /\ Exclusive(Holder)'
    BY <1>5, <2>1, FailFacts DEF Fail, Free, InArea, Fits
  <2>3. AccountsExcused'
    BY <1>5, <2>2 DEF AccountsExcused, AccountTask
  <2>4. ASSUME NEW q \in Requests PROVE AccountTask(q)'
    BY <1>3, <1>5, <2>2, <2>3 DEF AccountTask, Becomes, Idle, At, Free
  <2> QED
    BY <1>1, <1>3, <1>5, <2>2, <2>3, <2>4
<1> QED
  BY <1>4, <1>5

LEMMA AccountsStep ==
  ASSUME AccountsInv, [OfficeNext]_officeVars
  PROVE  AccountsInv'
<1>1. CASE OfficeNext
  <2>1. InArea' /\ area' = area /\ raced \subseteq raced' /\ cut \subseteq cut'
    BY <1>1, OfficeRuns DEF AccountsInv
  <2>2. CASE AccountStep
    <3>1. area = "accounts"
      BY <2>2, AccountRuns DEF AccountsInv
    <3>2. ASSUME NEW r \in Requests, NEW b \in Accounts, NEW given \in 0..2,
                 \/ OpenAccount(r, b, "add", given, TRUE)
                 \/ \E active \in BOOLEAN : OpenAccount(r, b, "change", given, active)
          PROVE  AccountsInv'
      BY <2>1, <3>1, <3>2, AccountsOpened
    <3>3. ASSUME NEW r \in Requests, UnsetPrimary(r) \/ AddAccount(r) \/ ChangeAccount(r)
          PROVE  AccountsInv'
      <4>1. cut' = cut
        BY <3>3 DEF UnsetPrimary, AddAccount, ChangeAccount, Goto, Close, Proceed
      <4> QED
        BY <2>1, <3>1, <3>3, <4>1, AccountsGoOn
    <3>4. ASSUME NEW b \in Accounts, DeleteAccount(b)
          PROVE  AccountsInv'
      BY <2>1, <3>1, <3>4, AccountsDeleted
    <3> QED
      BY <2>2, <3>2, <3>3, <3>4 DEF AccountStep
  <2> QED
    BY <1>1, <2>1, <2>2, AccountsUntouched
<1>2. CASE UNCHANGED officeVars
  <2>1. UNCHANGED <<area, ops, task, raced, cut, account, chosen>>
    BY <1>2 DEF officeVars, requestVars, accountVars
  <2>2. Primary' = Primary /\ PrimaryAsChosen' = PrimaryAsChosen /\ AccountTypeOK' = AccountTypeOK
    BY <2>1 DEF Primary, PrimaryAsChosen, AccountTypeOK
  <2>3. InArea' = InArea /\ AccountsExcused' = AccountsExcused /\ Exclusive(Holder)' = Exclusive(Holder)
    BY <2>1 DEF InArea, Fits, TasksOK, Shape, OpsOf, AccountsExcused, Raced, Exclusive
  <2>4. ASSUME NEW r \in Requests PROVE AccountTask(r)' = AccountTask(r)
    BY <2>1, <2>2, <2>3 DEF AccountTask, At, Free
  <2> QED
    BY <2>1, <2>2, <2>3, <2>4 DEF AccountsInv
<1> QED
  BY <1>1, <1>2

\* The holder of accounts has the one primary account chosen last, for every
\* number of accounts and requests, unless two requests changed accounts at once
\* or one stopped between its two statements (bank-accounts.service).
THEOREM OnePrimaryAccountKept == OfficeSpec => []OnePrimaryAccount
<1>1. ASSUME AccountsInv PROVE OnePrimaryAccount
  <2>1. ASSUME PrimaryAsChosen PROVE Cardinality(Primary) = IF chosen THEN 1 ELSE 0
    BY <2>1, FS_Singleton, FS_EmptySet DEF PrimaryAsChosen
  <2> QED
    BY <1>1, <2>1 DEF AccountsInv, OnePrimaryAccount, AccountsExcused
<1> QED
  BY <1>1, AccountsInit, AccountsStep, PTL DEF OfficeSpec

-----------------------------------------------------------------------------
(* Meter readings *)

RowShape(row) ==
    row = [there |-> row.there, previous |-> row.previous, current |-> row.current]

\* A request that may change a reading found it not on an invoice: if it is on
\* one now, the two had it in hand at once.
MeterTask(r) ==
    /\ task[r].op # "idle" => task[r].row \in Periods
    /\ task[r].op \in {"correct", "remove"} =>
         /\ task[r].row \in task[r].on
         /\ task[r].row \in billed => Raced(task[r].row)

MeterInv ==
    /\ InArea
    /\ reading = [p \in Periods |-> reading[p]]
    /\ \A p \in Periods : RowShape(reading[p])
    /\ billed \subseteq Entered
    /\ area = "meters" => \A r \in Requests : MeterTask(r)

LEMMA MetersInit == OfficeInit => MeterInv
<1> SUFFICES ASSUME OfficeInit PROVE MeterInv
  OBVIOUS
<1>1. area = "meters" => task = [r \in Requests |-> Idle]
  BY DEF OfficeInit, ContractInit
<1>2. /\ RowShape(NoReading) /\ reading = [p \in Periods |-> NoReading] /\ billed = {}
  BY DEF OfficeInit, MeterInit, NoReading, RowShape
<1>3. area = "meters" => \A r \in Requests : MeterTask(r)
  BY <1>1 DEF MeterTask, Idle
<1> QED
  BY <1>2, <1>3, OfficeStarts DEF MeterInv

\* The first statement of a request about a reading.
LEMMA MetersOpened ==
  ASSUME MeterInv, area = "meters", InArea', UNCHANGED <<reading, billed>>,
         NEW r \in Requests, NEW new, Shape(new), new.row \in Periods,
         new.op \in {"correct", "remove"} => new.row \in new.on /\ new.row \notin billed,
         Open(r, {"meters"}, new)
  PROVE  MeterInv'
<1>1. /\ task'[r] = new /\ \A q \in Requests : q # r => task'[q] = task[q]
      /\ raced \subseteq raced'
  BY OpenFacts DEF Becomes, MeterInv, InArea, Fits
<1>2. ASSUME NEW q \in Requests PROVE MeterTask(q)'
  <2>1. CASE q = r
    BY <1>1, <2>1 DEF MeterTask
  <2>2. CASE q # r
    BY <1>1, <2>2 DEF MeterInv, MeterTask, Raced
  <2> QED
    BY <2>1, <2>2
<1> QED
  BY <1>2 DEF MeterInv, Entered

LEMMA MetersOpen ==
  ASSUME MeterInv, area = "meters", InArea', NEW r \in Requests, NEW p \in Periods,
         \/ \E v \in Values : \/ \E previous \in Values \cup {NoRow} : OpenReading(r, p, v, previous)
                              \/ OpenCorrection(r, p, v)
         \/ OpenRemoval(r, p)
  PROVE  MeterInv'
<1>1. ASSUME NEW v, NEW previous, OpenReading(r, p, v, previous)
      PROVE  MeterInv'
  <2>1. PICK new : /\ Open(r, {"meters"}, new)
                   /\ new = [op |-> IF previous = NoRow THEN "previous" ELSE "enter",
                             on |-> Earlier(p), row |-> p, kind |-> v, seen |-> previous]
    BY <1>1 DEF OpenReading
  <2>2. Shape(new) /\ new.row = p /\ new.op \notin {"correct", "remove"}
    BY <2>1 DEF Shape
  <2> QED
    BY <1>1, <2>1, <2>2, MetersOpened DEF OpenReading, meterVars
<1>2. ASSUME NEW v, OpenCorrection(r, p, v)
      PROVE  MeterInv'
  <2>1. PICK new : /\ Open(r, {"meters"}, new)
                   /\ new = [Idle EXCEPT !.op = "correct", !.on = {p}, !.row = p, !.kind = v]
    BY <1>2 DEF OpenCorrection
  <2>2. Shape(new) /\ new.row = p /\ p \in new.on
    BY <2>1 DEF Shape, Idle
  <2>3. p \notin billed
    BY <1>2 DEF OpenCorrection, MayCorrect, MayChange
  <2> QED
    BY <1>2, <2>1, <2>2, <2>3, MetersOpened DEF OpenCorrection, meterVars
<1>3. ASSUME OpenRemoval(r, p)
      PROVE  MeterInv'
  <2>1. PICK new : /\ Open(r, {"meters"}, new)
                   /\ new = [Idle EXCEPT !.op = "remove", !.on = {p}, !.row = p]
    BY <1>3 DEF OpenRemoval
  <2>2. Shape(new) /\ new.row = p /\ p \in new.on
    BY <2>1 DEF Shape, Idle
  <2>3. p \notin billed
    BY <1>3 DEF OpenRemoval, MayChange
  <2> QED
    BY <1>3, <2>1, <2>2, <2>3, MetersOpened DEF OpenRemoval, meterVars
<1> QED
  BY <1>1, <1>2, <1>3

\* Its last statement.
LEMMA MetersClosed ==
  ASSUME MeterInv, area = "meters", InArea', NEW r \in Requests,
         EnterReading(r) \/ CorrectReading(r) \/ RemoveReading(r)
  PROVE  /\ MeterInv'
         /\ \A p \in billed : reading'[p] = reading[p] \/ Raced(p)
<1> DEFINE p == task[r].row
<1>1. /\ task'[r] = Idle /\ raced' = raced
      /\ \A q \in Requests : q # r => task'[q] = task[q]
  BY CloseFacts DEF EnterReading, CorrectReading, RemoveReading, MeterInv, InArea, Fits, Becomes
<1>2. p \in Periods
  BY DEF MeterInv, MeterTask, EnterReading, CorrectReading, RemoveReading, At
<1>3. PICK row : /\ reading' = [reading EXCEPT ![p] = row] /\ RowShape(row)
                 /\ ~RemoveReading(r) => row.there
  <2>1. CASE EnterReading(r)
    <3>1. PICK row : /\ reading' = [reading EXCEPT ![p] = row]
                     /\ row = [there |-> TRUE, previous |-> task[r].seen, current |-> task[r].kind]
      BY <2>1 DEF EnterReading
    <3>2. RowShape(row) /\ row.there
      BY <3>1 DEF RowShape
    <3> QED
      BY <3>1, <3>2
  <2>2. CASE CorrectReading(r)
    <3>1. PICK row : /\ reading' = [reading EXCEPT ![p] = row]
                     /\ row = [reading[p] EXCEPT !.current = task[r].kind]
      BY <1>2, <2>2 DEF CorrectReading, MeterInv
    <3>2. RowShape(reading[p]) /\ reading[p].there
      BY <1>2, <2>2 DEF MeterInv, CorrectReading, Entered
    <3>3. RowShape(row)
      BY <3>1, <3>2 DEF RowShape
    <3>4. row.there = reading[p].there
      BY <3>1, <3>2 DEF RowShape
    <3> QED
      BY <3>1, <3>2, <3>3, <3>4
  <2>3. CASE RemoveReading(r)
    <3>1. reading' = [reading EXCEPT ![p] = NoReading] /\ RowShape(NoReading)
      BY <2>3 DEF RemoveReading, NoReading, RowShape
    <3> QED
      BY <2>3, <3>1
  <2> QED
    BY <2>1, <2>2, <2>3
<1>4. reading'[p] = row /\ \A q \in Periods : q # p => reading'[q] = reading[q]
  BY <1>2, <1>3 DEF MeterInv
<1>5. billed' \subseteq billed /\ (RemoveReading(r) => p \notin billed')
  BY DEF EnterReading, CorrectReading, RemoveReading
<1>6. billed' \subseteq Entered'
  BY <1>2, <1>3, <1>4, <1>5 DEF MeterInv, Entered
<1>7. ASSUME NEW q \in Requests PROVE MeterTask(q)'
  <2>1. CASE q = r
    BY <1>1, <2>1 DEF MeterTask, Idle
  <2>2. CASE q # r
    BY <1>1, <1>5, <2>2 DEF MeterTask, MeterInv, Raced
  <2> QED
    BY <2>1, <2>2
<1>8. /\ reading' = [q \in Periods |-> reading'[q]] /\ \A q \in Periods : RowShape(reading'[q])
  BY <1>2, <1>3, <1>4 DEF MeterInv
<1>9. ASSUME p \in billed PROVE Raced(p)
  BY <1>9 DEF MeterInv, MeterTask, EnterReading, CorrectReading, RemoveReading, At
<1> QED
  BY <1>4, <1>6, <1>7, <1>8, <1>9 DEF MeterInv, Entered

LEMMA MetersBilled ==
  ASSUME MeterInv, area = "meters", InArea', NEW p \in Periods, BillReading(p)
  PROVE  MeterInv'
<1>1. /\ task' = task /\ raced \subseteq raced'
      /\ \A r \in Requests : p \in task[r].on => p \in raced'
  BY AtOnceFacts DEF BillReading, MeterInv, InArea, Fits
<1>2. ASSUME NEW r \in Requests PROVE MeterTask(r)'
  BY <1>1 DEF MeterTask, MeterInv, BillReading, Raced
<1> QED
  BY <1>2 DEF MeterInv, BillReading, Entered

LEMMA MetersStep ==
  ASSUME MeterInv, [OfficeNext]_officeVars
  PROVE  /\ MeterInv'
         /\ UNCHANGED meterVars \/ \A p \in billed : reading'[p] = reading[p] \/ Raced(p)
<1>1. CASE OfficeNext
  <2>1. InArea' /\ area' = area /\ raced \subseteq raced'
    BY <1>1, OfficeRuns DEF MeterInv
  <2>2. CASE MeterStep
    <3>1. area = "meters"
      BY <2>2, MeterRuns DEF MeterInv
    <3>2. ASSUME NEW r \in Requests, ReadPrevious(r)
          PROVE  MeterInv' /\ UNCHANGED meterVars
      <4>1. PICK new : /\ Proceed(r, new)
                       /\ new = [task[r] EXCEPT !.op = "enter", !.seen = LastBefore(task[r].row)]
        BY <3>2 DEF ReadPrevious
      <4>2. TasksOK /\ Shape(task[r]) /\ task[r].op = "previous"
        BY <3>2 DEF MeterInv, InArea, Fits, TasksOK, ReadPrevious, At
      <4>3. Shape(new)
        BY <4>1, <4>2 DEF Shape
      <4>4. new.op = "enter"
        BY <4>1, <4>2 DEF Shape
      <4>5. new.row = task[r].row
        BY <4>1, <4>2 DEF Shape
      <4>6. /\ task'[r] = new /\ raced' = raced
            /\ \A q \in Requests : q # r => task'[q] = task[q]
        BY <4>1, <4>2, <4>3, ProceedFacts DEF Becomes
      <4>7. UNCHANGED meterVars
        BY <3>2 DEF ReadPrevious
      <4>8. ASSUME NEW q \in Requests PROVE MeterTask(q)'
        BY <3>1, <4>2, <4>4, <4>5, <4>6, <4>7 DEF MeterTask, MeterInv, meterVars, Raced
      <4> QED
        BY <2>1, <4>7, <4>8 DEF MeterInv, meterVars, Entered
    <3>3. ASSUME NEW r \in Requests, NEW p \in Periods,
                 \/ \E v \in Values : \/ \E previous \in Values \cup {NoRow} :
                                           OpenReading(r, p, v, previous)
                                      \/ OpenCorrection(r, p, v)
                 \/ OpenRemoval(r, p)
          PROVE  MeterInv' /\ UNCHANGED meterVars
      BY <2>1, <3>1, <3>3, MetersOpen DEF OpenReading, OpenCorrection, OpenRemoval
    <3>4. ASSUME NEW p \in Periods, BillReading(p)
          PROVE  MeterInv' /\ UNCHANGED reading
      BY <2>1, <3>1, <3>4, MetersBilled DEF BillReading
    <3> QED
      BY <2>1, <2>2, <3>1, <3>2, <3>3, <3>4, MetersClosed DEF MeterStep
  <2>3. CASE ~MeterStep
    <3>1. UNCHANGED <<reading, billed>>
      BY <1>1, <2>3 DEF OfficeNext, BesidesContracts, BesidesCards, BesidesParking,
         BesidesAccounts, FailAny, meterVars
    <3>2. ASSUME area = "meters", NEW q \in Requests PROVE MeterTask(q)'
      <4>1. PICK r \in Requests : Fail(r)
        BY <1>1, <2>3, <3>2, ContractRuns, PolicyRuns, CardRuns, ParkingRuns, AccountRuns
           DEF OfficeNext, FailAny, ContractAreas, CardAreas, MeterInv
      <4>2. Becomes(r, Idle) /\ raced' = raced
        BY <4>1, FailFacts DEF MeterInv, InArea, Fits
      <4> QED
        BY <3>1, <3>2, <4>2 DEF MeterTask, MeterInv, Becomes, Idle, Raced
    <3> QED
      BY <2>1, <3>1, <3>2 DEF MeterInv, meterVars, Entered
  <2> QED
    BY <2>2, <2>3
<1>2. CASE UNCHANGED officeVars
  <2>1. UNCHANGED <<area, ops, task, raced, cut, reading, billed>>
    BY <1>2 DEF officeVars, requestVars, meterVars
  <2>2. InArea' = InArea /\ Entered' = Entered
    BY <2>1 DEF InArea, Fits, TasksOK, Shape, OpsOf, Entered
  <2>3. ASSUME NEW r \in Requests PROVE MeterTask(r)' = MeterTask(r)
    BY <2>1 DEF MeterTask, Raced
  <2> QED
    BY <2>1, <2>2, <2>3 DEF MeterInv, meterVars
<1> QED
  BY <1>1, <1>2

\* What an invoice charges stays as it was read, for every number of periods and
\* requests, unless it was billed while its reading was being corrected or
\* removed (meter-readings.service update and remove).
THEOREM BilledReadingsStay == OfficeSpec => BilledReadingStays
<1>1. ASSUME MeterInv, [OfficeNext]_officeVars
      PROVE  [\A p \in billed : reading'[p] = reading[p] \/ Raced(p)]_meterVars
  BY <1>1, MetersStep
<1> QED
  BY <1>1, MetersInit, MetersStep, PTL DEF OfficeSpec, BilledReadingStays

-----------------------------------------------------------------------------
(* Parking slots *)

SlotExcused(n) == Raced(n) \/ n \in restated

Agrees(row) == row.status = "assigned" <=> row.tenant # NoRow

\* A slot found available stays so until the request has assigned it.
SlotTask(r) ==
    /\ task[r].op \in {"assign", "release"} => task[r].row \in Slots /\ task[r].row \in task[r].on
    /\ At(r, "assign") =>
         /\ task[r].kind \in Tenants
         /\ SlotExcused(task[r].row) \/ slot[task[r].row].status = "available"

SlotInv ==
    /\ InArea
    /\ slot = [n \in Slots |-> slot[n]]
    /\ \A n \in Slots : SlotExcused(n) \/ Agrees(slot[n])
    /\ area = "parking" => /\ \A n \in Slots : Exclusive(n)
                           /\ \A r \in Requests : SlotTask(r)

\* What a step may do to a slot.
SlotFollows(n) ==
    \/ SlotExcused(n)'
    \/ /\ slot[n].tenant # NoRow => slot'[n].tenant \in {slot[n].tenant, NoRow}
       /\ Agrees(slot'[n])

LEMMA SlotsInit == OfficeInit => SlotInv
<1> SUFFICES ASSUME OfficeInit PROVE SlotInv
  OBVIOUS
<1>1. area = "parking" => task = [r \in Requests |-> Idle]
  BY DEF OfficeInit, ContractInit
<1>2. slot = [n \in Slots |-> [status |-> "absent", tenant |-> NoRow]]
  BY DEF OfficeInit, ParkingInit
<1>3. area = "parking" => /\ \A n \in Slots : Exclusive(n)
                          /\ \A r \in Requests : SlotTask(r)
  BY <1>1 DEF Exclusive, SlotTask, At, Idle
<1> QED
  BY <1>2, <1>3, OfficeStarts DEF SlotInv, Agrees

\* The first statement of a request about slots.
LEMMA SlotsOpened ==
  ASSUME SlotInv, area = "parking", InArea', UNCHANGED <<slot, restated>>,
         NEW r \in Requests, NEW new, Shape(new), Open(r, {"parking"}, new),
         new.op \in {"assign", "release"} => new.row \in Slots /\ new.row \in new.on,
         new.op = "assign" => new.kind \in Tenants /\ slot[new.row].status = "available"
  PROVE  SlotInv'
<1>1. /\ task'[r] = new /\ \A q \in Requests : q # r => task'[q] = task[q]
      /\ raced \subseteq raced'
  BY OpenFacts DEF Becomes, SlotInv, InArea, Fits
<1>2. \A n \in Slots : Exclusive(n)'
  BY OpenExclusive DEF SlotInv, InArea, Fits
<1>3. \A n : SlotExcused(n) => SlotExcused(n)'
  BY <1>1 DEF SlotExcused, Raced
<1>4. ASSUME NEW q \in Requests PROVE SlotTask(q)'
  <2>1. CASE q = r
    BY <1>1, <2>1 DEF SlotTask, At
  <2>2. CASE q # r
    BY <1>1, <1>3, <2>2 DEF SlotInv, SlotTask, At
  <2> QED
    BY <2>1, <2>2
<1> QED
  BY <1>2, <1>3, <1>4 DEF SlotInv

LEMMA SlotsOpen ==
  ASSUME SlotInv, area = "parking", InArea', NEW r \in Requests,
         \/ \E start, count : OpenSlots(r, start, count)
         \/ \E n \in Slots : OpenRelease(r, n) \/ \E a \in Tenants : OpenAssignment(r, n, a)
  PROVE  SlotInv' /\ UNCHANGED slot
<1>1. ASSUME NEW start, NEW count, OpenSlots(r, start, count)
      PROVE  SlotInv' /\ UNCHANGED slot
  <2>1. PICK new : /\ Open(r, {"parking"}, new)
                   /\ new = [op |-> "slots", on |-> {Zone}, kind |-> count,
                             row |-> IF start = 0 THEN NoRow ELSE Zone,
                             seen |-> IF start = 0 THEN LastSlot + 1 ELSE start]
    BY <1>1 DEF OpenSlots
  <2>2. Shape(new) /\ new.op \notin {"assign", "release"}
    BY <2>1 DEF Shape
  <2>3. UNCHANGED <<slot, restated>>
    BY <1>1 DEF OpenSlots, parkingVars
  <2> QED
    BY <2>1, <2>2, <2>3, SlotsOpened
<1>2. ASSUME NEW n \in Slots, NEW a, NEW op \in {"assign", "release"}, OpenSlot(r, op, n, a),
             op = "assign" => a \in Tenants /\ slot[n].status = "available"
      PROVE  SlotInv' /\ UNCHANGED slot
  <2>1. PICK new : /\ Open(r, {"parking"}, new)
                   /\ new = [Idle EXCEPT !.op = op, !.on = {n}, !.row = n, !.kind = a]
    BY <1>2 DEF OpenSlot
  <2>2. Shape(new) /\ new.op = op /\ new.row = n /\ n \in new.on /\ new.kind = a
    BY <2>1 DEF Shape, Idle
  <2>3. UNCHANGED <<slot, restated>>
    BY <1>2 DEF OpenSlot, parkingVars
  <2> QED
    BY <1>2, <2>1, <2>2, <2>3, SlotsOpened
<1> QED
  BY <1>1, <1>2 DEF OpenRelease, OpenAssignment, MayAssign

\* Its second and last statement.
LEMMA SlotsClosed ==
  ASSUME SlotInv, area = "parking", InArea', NEW r \in Requests,
         CreateSlots(r) \/ AssignSlot(r) \/ UnassignSlot(r)
  PROVE  SlotInv' /\ \A n \in Slots : SlotFollows(n)
<1>1. /\ task'[r] = Idle /\ raced' = raced
      /\ \A q \in Requests : q # r => task'[q] = task[q]
      /\ \A n \in Slots : Exclusive(n)'
  BY CloseFacts DEF CreateSlots, AssignSlot, UnassignSlot, SlotInv, InArea, Fits, Becomes
<1>2. \A n : SlotExcused(n)' = SlotExcused(n)
  BY <1>1 DEF SlotExcused, Raced, CreateSlots, AssignSlot, UnassignSlot
<1>3. slot' = [n \in Slots |-> slot'[n]]
  BY DEF CreateSlots, AssignSlot, UnassignSlot, SlotInv
<1>4. ASSUME NEW n \in Slots, ~SlotExcused(n)
      PROVE  /\ slot[n].tenant # NoRow => slot'[n].tenant \in {slot[n].tenant, NoRow}
             /\ Agrees(slot'[n])
  <2>1. CASE CreateSlots(r)
    BY <1>4, <2>1 DEF CreateSlots, Agrees, SlotInv
  <2>2. CASE AssignSlot(r)
    <3>1. CASE task[r].row = n
      <4>1. slot[n].tenant = NoRow /\ task[r].kind \in Tenants
        BY <1>4, <2>2, <3>1 DEF AssignSlot, Agrees, SlotInv, SlotTask, At
      <4>2. slot'[n] = [status |-> "assigned", tenant |-> task[r].kind]
        BY <1>4, <2>2, <3>1 DEF AssignSlot, SlotInv
      <4> QED
        BY <4>1, <4>2, ParkingAssumption DEF Agrees
    <3>2. CASE task[r].row # n
      BY <1>4, <2>2, <3>2 DEF AssignSlot, SlotInv
    <3> QED
      BY <3>1, <3>2
  <2>3. CASE UnassignSlot(r)
    <3>1. CASE task[r].row = n
      <4>1. slot'[n] = [status |-> "available", tenant |-> NoRow]
        BY <1>4, <2>3, <3>1 DEF UnassignSlot, SlotInv
      <4> QED
        BY <4>1 DEF Agrees
    <3>2. CASE task[r].row # n
      BY <1>4, <2>3, <3>2 DEF UnassignSlot, SlotInv
    <3> QED
      BY <3>1, <3>2
  <2> QED
    BY <2>1, <2>2, <2>3
<1>5. ASSUME NEW q \in Requests PROVE SlotTask(q)'
  <2>1. CASE q = r
    BY <1>1, <2>1 DEF SlotTask, At, Idle
  <2>2. ASSUME q # r, At(q, "assign"), ~SlotExcused(task[q].row)
        PROVE  slot'[task[q].row].status = "available"
    <3> DEFINE n == task[q].row
    <3>1. n \in Slots /\ n \in task[q].on /\ slot[n].status = "available"
      BY <2>2 DEF SlotInv, SlotTask, At
    <3>2. CASE CreateSlots(r)
      BY <3>1, <3>2 DEF CreateSlots, Built
    <3>3. CASE AssignSlot(r) \/ UnassignSlot(r)
      <4>1. task[r].row # n
        BY <2>2, <3>1, <3>3 DEF SlotInv, SlotTask, AssignSlot, UnassignSlot, At, Exclusive,
           SlotExcused, Raced
      <4> QED
        BY <3>1, <3>3, <4>1 DEF AssignSlot, UnassignSlot, SlotInv
    <3> QED
      BY <3>2, <3>3
  <2> QED
    BY <1>1, <1>2, <2>1, <2>2 DEF SlotTask, SlotInv, At
<1> QED
  BY <1>1, <1>2, <1>3, <1>4, <1>5 DEF SlotInv, SlotFollows

LEMMA SlotsEdited ==
  ASSUME SlotInv, area = "parking", InArea', NEW n \in Slots, NEW status, UpdateSlot(n, status)
  PROVE  SlotInv' /\ \A m \in Slots : SlotFollows(m)
<1>1. /\ task' = task /\ raced \subseteq raced' /\ \A m \in Slots : Exclusive(m)'
      /\ restated' = restated \cup {n} /\ slot' = [slot EXCEPT ![n].status = status]
  BY AtOnceFacts DEF UpdateSlot, SlotInv, InArea, Fits
<1>2. \A m : SlotExcused(m) => SlotExcused(m)'
  BY <1>1 DEF SlotExcused, Raced
<1>3. SlotExcused(n)' /\ \A m \in Slots : m # n => slot'[m] = slot[m]
  BY <1>1 DEF SlotExcused, SlotInv
<1>4. slot' = [m \in Slots |-> slot'[m]]
  BY <1>1 DEF SlotInv
<1>5. ASSUME NEW r \in Requests PROVE SlotTask(r)'
  BY <1>1, <1>2, <1>3 DEF SlotTask, SlotInv, At
<1> QED
  BY <1>1, <1>2, <1>3, <1>4, <1>5 DEF SlotInv, SlotFollows

LEMMA SlotsStep ==
  ASSUME SlotInv, [OfficeNext]_officeVars
  PROVE  SlotInv' /\ (UNCHANGED parkingVars \/ \A n \in Slots : SlotFollows(n))
<1>1. ASSUME UNCHANGED slot, SlotInv', NEW n \in Slots PROVE SlotFollows(n)
  BY <1>1 DEF SlotInv, SlotFollows
<1>2. CASE OfficeNext
  <2>1. InArea' /\ area' = area /\ raced \subseteq raced'
    BY <1>2, OfficeRuns DEF SlotInv
  <2>2. CASE ParkingStep
    <3>1. area = "parking"
      BY <2>2, ParkingRuns DEF SlotInv
    <3>2. ASSUME NEW r \in Requests,
                 \/ \E start, count : OpenSlots(r, start, count)
                 \/ \E n \in Slots : OpenRelease(r, n) \/ \E a \in Tenants : OpenAssignment(r, n, a)
          PROVE  SlotInv' /\ \A n \in Slots : SlotFollows(n)
      BY <1>1, <2>1, <3>1, <3>2, SlotsOpen
    <3> QED
      BY <2>1, <2>2, <3>1, <3>2, SlotsClosed, SlotsEdited DEF ParkingStep
  <2>3. CASE ~ParkingStep
    <3>1. UNCHANGED <<slot, restated>>
      BY <1>2, <2>3 DEF OfficeNext, BesidesContracts, BesidesCards, BesidesMeters,
         BesidesAccounts, FailAny, parkingVars
    <3>2. \A n : SlotExcused(n) => SlotExcused(n)'
      BY <2>1, <3>1 DEF SlotExcused, Raced
    <3>3. ASSUME area = "parking"
          PROVE  (\A n \in Slots : Exclusive(n)') /\ \A q \in Requests : SlotTask(q)'
      <4>1. PICK r \in Requests : Fail(r)
        BY <1>2, <2>3, <3>3, ContractRuns, PolicyRuns, CardRuns, MeterRuns, AccountRuns
           DEF OfficeNext, FailAny, ContractAreas, CardAreas, SlotInv
      <4>2. Becomes(r, Idle) /\ \A n \in Slots : Exclusive(n)'
        BY <3>3, <4>1, FailFacts DEF SlotInv, InArea, Fits
      <4>3. ASSUME NEW q \in Requests PROVE SlotTask(q)'
        BY <3>1, <3>2, <3>3, <4>2 DEF SlotTask, SlotInv, Becomes, Idle, At
      <4> QED
        BY <4>2, <4>3
    <3> QED
      BY <2>1, <3>1, <3>2, <3>3 DEF SlotInv, parkingVars
  <2> QED
    BY <2>2, <2>3
<1>3. CASE UNCHANGED officeVars
  <2>1. UNCHANGED <<area, ops, task, raced, cut, slot, restated>>
    BY <1>3 DEF officeVars, requestVars, parkingVars
  <2>2. InArea' = InArea /\ \A n : Exclusive(n)' = Exclusive(n) /\ SlotExcused(n)' = SlotExcused(n)
    BY <2>1 DEF InArea, Fits, TasksOK, Shape, OpsOf, Exclusive, SlotExcused, Raced
  <2>3. ASSUME NEW r \in Requests PROVE SlotTask(r)' = SlotTask(r)
    BY <2>1, <2>2 DEF SlotTask, At
  <2> QED
    BY <2>1, <2>2, <2>3 DEF SlotInv, parkingVars
<1> QED
  BY <1>2, <1>3

\* A slot goes to another apartment only after it was released, and its status
\* and apartment agree, for every number of slots, apartments and requests,
\* unless two requests had it in hand at once or its status was set by hand
\* (parking.service assignSlot, unassignSlot and updateSlot).
THEOREM SlotsStayKept == OfficeSpec => SlotKept
<1>1. ASSUME SlotInv, [OfficeNext]_officeVars
      PROVE  [\A n \in Slots :
                \/ Raced(n)' \/ n \in restated'
                \/ /\ slot[n].tenant # NoRow => slot'[n].tenant \in {slot[n].tenant, NoRow}
                   /\ slot'[n].status = "assigned" <=> slot'[n].tenant # NoRow]_parkingVars
  BY <1>1, SlotsStep DEF SlotFollows, SlotExcused, Agrees
<1> QED
  BY <1>1, SlotsInit, SlotsStep, PTL DEF OfficeSpec, SlotKept

-----------------------------------------------------------------------------
(* The numbers of parking slots *)

LEMMA InParking ==
  ASSUME InArea, NEW r \in Requests, task[r].op \in ParkingOps
  PROVE  area = "parking"
BY DEF InArea, Fits, OpsOf, ContractOps, CardOps, ParkingOps, AccountOps, MeterOps,
       ContractAreas, CardAreas

\* What a request to create slots has found out: its first number is beyond all
\* there are, unless it was given.
NumberTask(r) ==
    /\ At(r, "slots") =>
         /\ Zone \in task[r].on /\ task[r].row \in {NoRow, Zone}
         /\ task[r].seen \in Nat /\ task[r].kind \in 1..2
         /\ \/ Raced(Zone) \/ task[r].row = Zone
            \/ \A n \in Built : n < task[r].seen
            \/ \E n \in Built : n > SlotPadded
    /\ At(r, "assign") => task[r].kind \in Tenants
    /\ task[r].op \in {"assign", "release"} => task[r].row \in Built

NumberInv ==
    /\ InArea /\ slot \in [Slots -> SlotRow]
    /\ area = "parking" => Exclusive(Zone) /\ \A r \in Requests : NumberTask(r)

LEMMA NumbersInit == OfficeInit => NumberInv
<1> SUFFICES ASSUME OfficeInit PROVE NumberInv
  OBVIOUS
<1>1. area = "parking" => task = [r \in Requests |-> Idle]
  BY DEF OfficeInit, ContractInit
<1>2. slot \in [Slots -> SlotRow]
  BY DEF OfficeInit, ParkingInit, SlotRow
<1>3. area = "parking" => Exclusive(Zone) /\ \A r \in Requests : NumberTask(r)
  BY <1>1 DEF Exclusive, NumberTask, At, Idle
<1> QED
  BY <1>2, <1>3, OfficeStarts DEF NumberInv

\* The number after the last is beyond all there are.
LEMMA LastIsGreatest ==
  ASSUME slot \in [Slots -> SlotRow]
  PROVE  /\ LastSlot \in Nat
         /\ \/ \A n \in Built : n < LastSlot + 1
            \/ \E n \in Built : n > SlotPadded
<1>0. Built \subseteq Nat /\ IsFiniteSet(Built)
  BY ParkingAssumption, FS_Subset DEF Built
<1>1. CASE SlotPadded \in Built
  BY <1>0, <1>1 DEF LastSlot
<1>2. CASE SlotPadded \notin Built
  <2> DEFINE f == [n \in Built |-> n]
  <2>1. IsFiniteSet(Built) /\ \A n \in Built : f[n] \in Nat
    BY <1>0
  <2>2. PICK m \in {f[n] : n \in Built} \cup {0} : \A n \in Built : f[n] <= m
    <3> HIDE DEF f
    <3> QED
      BY <2>1, GreatestNumber
  <2>3. m \in Built \cup {0} /\ \A n \in Built \cup {0} : m >= n
    BY <1>0, <2>2
  <2>4. Max(Built \cup {0}) \in Built \cup {0} /\ \A n \in Built \cup {0} : Max(Built \cup {0}) >= n
    BY <2>3 DEF Max
  <2>5. PICK k : k = LastSlot
    OBVIOUS
  <2>6. k \in Built \cup {0} /\ \A n \in Built : k >= n
    BY <1>2, <2>4, <2>5 DEF LastSlot
  <2>7. k \in Nat /\ \A n \in Built : n < k + 1
    BY <1>0, <2>6
  <2> QED
    BY <2>5, <2>7
<1> QED
  BY <1>1, <1>2

\* Slots are created, assigned and edited, never removed.
SlotsRemain == \A n \in Slots : n \in Built => n \in Built'

LEMMA SlotRowsKept ==
  ASSUME NumberInv, OfficeNext
  PROVE  slot' \in [Slots -> SlotRow] /\ SlotsRemain
<1>0. InArea /\ slot \in [Slots -> SlotRow]
  BY DEF NumberInv
<1>1. CASE UNCHANGED slot
  BY <1>0, <1>1 DEF SlotsRemain, Built
<1>2. ASSUME NEW n \in Slots, NEW new \in SlotRow, new.status # "absent", slot' = [slot EXCEPT ![n] = new]
      PROVE  slot' \in [Slots -> SlotRow] /\ SlotsRemain
  BY <1>0, <1>2 DEF SlotsRemain, Built
<1>3. ASSUME NEW r \in Requests, CreateSlots(r)
      PROVE  slot' \in [Slots -> SlotRow] /\ SlotsRemain
  <2>1. PICK new : /\ new = [status |-> "available", tenant |-> NoRow]
                   /\ slot' = [n \in Slots |-> IF n \in Asked(r) \ Built THEN new ELSE slot[n]]
    BY <1>3 DEF CreateSlots
  <2>2. new \in SlotRow
    BY <2>1 DEF SlotRow, SlotStatus
  <2> QED
    BY <1>0, <2>1, <2>2 DEF SlotsRemain, Built
<1>4. ASSUME NEW r \in Requests, AssignSlot(r) \/ UnassignSlot(r)
      PROVE  slot' \in [Slots -> SlotRow] /\ SlotsRemain
  <2>0. task[r].op \in ParkingOps
    BY <1>4 DEF AssignSlot, UnassignSlot, At, ParkingOps
  <2>1. area = "parking" /\ NumberTask(r)
    BY <1>0, <2>0, InParking DEF NumberInv
  <2>2. PICK new : /\ \/ new = [status |-> "assigned", tenant |-> task[r].kind] /\ At(r, "assign")
                      \/ new = [status |-> "available", tenant |-> NoRow]
                   /\ slot' = [slot EXCEPT ![task[r].row] = new]
    BY <1>4 DEF AssignSlot, UnassignSlot
  <2>3. new \in SlotRow /\ new.status # "absent"
    BY <2>1, <2>2 DEF SlotRow, SlotStatus, NumberTask
  <2>4. task[r].row \in Slots
    BY <1>4, <2>1 DEF AssignSlot, UnassignSlot, At, NumberTask, Built
  <2> QED
    BY <1>2, <2>2, <2>3, <2>4
<1>5. ASSUME NEW n \in Slots, NEW status \in SlotStatus, UpdateSlot(n, status)
      PROVE  slot' \in [Slots -> SlotRow] /\ SlotsRemain
  <2>1. PICK new : new = [slot[n] EXCEPT !.status = status] /\ slot' = [slot EXCEPT ![n] = new]
    BY <1>0, <1>5 DEF UpdateSlot
  <2>2. slot[n] \in SlotRow
    BY <1>0
  <2>3. new \in SlotRow
    BY <2>1, <2>2 DEF SlotRow
  <2>4. new.status # "absent"
    BY <2>1, <2>2 DEF SlotRow, SlotStatus
  <2> QED
    BY <1>2, <2>1, <2>3, <2>4
<1>6. ASSUME NEW r \in Requests,
             \/ \E start, count : OpenSlots(r, start, count)
             \/ \E n : OpenRelease(r, n) \/ \E a : OpenAssignment(r, n, a)
      PROVE  UNCHANGED slot
  <2>1. ASSUME NEW start, NEW count, OpenSlots(r, start, count)
        PROVE  UNCHANGED slot
    BY <2>1 DEF OpenSlots, parkingVars
  <2>2. ASSUME NEW n, NEW a, OpenRelease(r, n) \/ OpenAssignment(r, n, a)
        PROVE  UNCHANGED slot
    BY <2>2 DEF OpenRelease, OpenAssignment, OpenSlot, parkingVars
  <2> QED
    BY <1>6, <2>1, <2>2
<1>7. CASE ParkingStep
  BY <1>1, <1>3, <1>4, <1>5, <1>6, <1>7 DEF ParkingStep
<1>8. CASE ~ParkingStep
  <2>1. UNCHANGED parkingVars
    BY <1>8 DEF OfficeNext, BesidesContracts, BesidesCards, BesidesAccounts, BesidesMeters, FailAny
  <2> QED
    BY <1>1, <2>1 DEF parkingVars
<1> QED
  BY <1>7, <1>8

LEMMA NumbersStep == NumberInv /\ [OfficeNext]_officeVars => NumberInv'
<1> SUFFICES ASSUME NumberInv, [OfficeNext]_officeVars PROVE NumberInv'
  OBVIOUS
<1>1. CASE UNCHANGED officeVars
  <2>1. UNCHANGED <<area, ops, task, raced, cut, slot, restated>>
    BY <1>1 DEF officeVars, requestVars, parkingVars
  <2>2. InArea' = InArea /\ Exclusive(Zone)' = Exclusive(Zone)
    BY <2>1 DEF InArea, Fits, TasksOK, Shape, OpsOf, Exclusive
  <2> QED
    BY <2>1, <2>2 DEF NumberInv, NumberTask, At, Raced, Built
<1>2. CASE OfficeNext
  <2>0. /\ InArea /\ TasksOK /\ InArea' /\ area' = area /\ raced \subseteq raced'
        /\ slot' \in [Slots -> SlotRow] /\ SlotsRemain /\ slot \in [Slots -> SlotRow]
    BY <1>2, OfficeRuns, SlotRowsKept DEF NumberInv, InArea, Fits
  <2> SUFFICES ASSUME area = "parking"
               PROVE  Exclusive(Zone)' /\ \A q \in Requests : NumberTask(q)'
    BY <2>0 DEF NumberInv
  <2>1. Exclusive(Zone) /\ \A q \in Requests : NumberTask(q)
    BY DEF NumberInv
  <2>2. \A n \in Built : n \in Built'
    BY <2>0 DEF SlotsRemain, Built
  \* Where no slot is created, what a request has found out stays.
  <2>3. ASSUME NEW q \in Requests, task'[q] = task[q], Built' \subseteq Built \/ Raced(Zone)' \/ ~At(q, "slots")
        PROVE  NumberTask(q)'
    BY <2>0, <2>1, <2>2, <2>3 DEF NumberTask, At, Raced
  <2>4. ASSUME NEW q \in Requests, task'[q].op = "idle"
        PROVE  NumberTask(q)'
    BY <2>4 DEF NumberTask, At
  <2>5. ASSUME NEW r \in Requests, NEW new, Open(r, {"parking"}, new), Shape(new), UNCHANGED parkingVars,
               \/ /\ new.op = "slots" /\ Zone \in new.on /\ new.row \in {NoRow, Zone}
                  /\ new.seen \in Nat /\ new.kind \in 1..2
                  /\ \/ new.row = Zone \/ \A n \in Built : n < new.seen
                     \/ \E n \in Built : n > SlotPadded
               \/ new.op \in {"assign", "release"} /\ new.row \in Built /\ (new.op = "assign" => new.kind \in Tenants)
        PROVE  Exclusive(Zone)' /\ \A q \in Requests : NumberTask(q)'
    <3>1. Becomes(r, new) /\ Built' = Built /\ Exclusive(Zone)'
      BY <2>0, <2>1, <2>5, OpenFacts, OpenExclusive DEF parkingVars, Built
    <3>2. NumberTask(r)'
      BY <2>5, <3>1 DEF Becomes, NumberTask, At
    <3> QED
      BY <2>3, <3>1, <3>2 DEF Becomes
  <2>6. ASSUME NEW r \in Requests, NEW start \in Slots \cup {0}, NEW count \in 1..2, OpenSlots(r, start, count)
        PROVE  Exclusive(Zone)' /\ \A q \in Requests : NumberTask(q)'
    <3>1. PICK new : /\ Open(r, {"parking"}, new)
                     /\ new = [op |-> "slots", on |-> {Zone}, kind |-> count,
                               row |-> IF start = 0 THEN NoRow ELSE Zone,
                               seen |-> IF start = 0 THEN LastSlot + 1 ELSE start]
      BY <2>6 DEF OpenSlots
    <3>2. Shape(new)
      BY <3>1 DEF Shape
    <3>3. /\ new.op = "slots" /\ new.on = {Zone} /\ new.kind = count
          /\ new.row = IF start = 0 THEN NoRow ELSE Zone
          /\ new.seen = IF start = 0 THEN LastSlot + 1 ELSE start
      BY <3>1
    <3>4. new.seen \in Nat
      BY <2>0, <3>3, LastIsGreatest, ParkingAssumption
    <3>5. new.row = Zone \/ (\A n \in Built : n < new.seen) \/ \E n \in Built : n > SlotPadded
      BY <2>0, <3>3, LastIsGreatest
    <3> QED
      BY <2>5, <2>6, <3>1, <3>2, <3>3, <3>4, <3>5 DEF OpenSlots
  <2>7. ASSUME NEW r \in Requests, NEW n \in Slots, NEW a, NEW op \in {"assign", "release"},
               OpenSlot(r, op, n, a), n \in Built, op = "assign" => a \in Tenants
        PROVE  Exclusive(Zone)' /\ \A q \in Requests : NumberTask(q)'
    <3>1. PICK new : /\ Open(r, {"parking"}, new)
                     /\ new = [Idle EXCEPT !.op = op, !.on = {n}, !.row = n, !.kind = a]
      BY <2>7 DEF OpenSlot
    <3>2. Shape(new) /\ new.op = op /\ new.row = n /\ new.kind = a
      BY <3>1 DEF Shape, Idle
    <3> QED
      BY <2>5, <2>7, <3>1, <3>2 DEF OpenSlot
  <2>8. ASSUME NEW r \in Requests, CreateSlots(r) \/ AssignSlot(r) \/ UnassignSlot(r)
        PROVE  Exclusive(Zone)' /\ \A q \in Requests : NumberTask(q)'
    <3>1. Becomes(r, Idle) /\ raced' = raced /\ Exclusive(Zone)'
      BY <2>0, <2>1, <2>8, CloseFacts DEF CreateSlots, AssignSlot, UnassignSlot
    <3>2. CASE CreateSlots(r)
      <4>1. Zone \in task[r].on
        BY <2>1, <3>2 DEF CreateSlots, NumberTask
      <4>2. ASSUME NEW q \in Requests, q # r, At(q, "slots")
            PROVE  Raced(Zone)'
        BY <2>1, <3>1, <4>1, <4>2 DEF NumberTask, Exclusive, Raced
      <4> QED
        BY <2>3, <2>4, <3>1, <4>2 DEF Becomes, Idle
    <3>3. CASE AssignSlot(r) \/ UnassignSlot(r)
      <4>1. task[r].row \in Built
        BY <2>1, <3>3 DEF AssignSlot, UnassignSlot, At, NumberTask
      <4>2. Built' \subseteq Built
        BY <2>0, <3>3, <4>1 DEF AssignSlot, UnassignSlot, Built
      <4> QED
        BY <2>3, <2>4, <3>1, <4>2 DEF Becomes, Idle
    <3> QED
      BY <2>8, <3>2, <3>3
  <2>9. ASSUME NEW n \in Slots, NEW status \in SlotStatus, UpdateSlot(n, status)
        PROVE  Exclusive(Zone)' /\ \A q \in Requests : NumberTask(q)'
    <3>1. task' = task /\ Exclusive(Zone)'
      BY <2>0, <2>1, <2>9, AtOnceFacts DEF UpdateSlot
    <3>2. Built' \subseteq Built
      BY <2>0, <2>9 DEF UpdateSlot, Built, SlotRow
    <3> QED
      BY <2>3, <3>1, <3>2
  <2>10. CASE ParkingStep
    <3>1. ASSUME NEW r \in Requests, NEW n \in Slots,
                 OpenRelease(r, n) \/ \E a \in Tenants : OpenAssignment(r, n, a)
          PROVE  Exclusive(Zone)' /\ \A q \in Requests : NumberTask(q)'
      BY <2>7, <3>1 DEF OpenRelease, OpenAssignment, MayAssign, Built
    <3> QED
      BY <2>6, <2>8, <2>9, <2>10, <3>1 DEF ParkingStep
  <2>11. CASE ~ParkingStep
    <3>1. UNCHANGED parkingVars
      BY <1>2, <2>11 DEF OfficeNext, BesidesContracts, BesidesCards, BesidesAccounts, BesidesMeters,
         FailAny
    <3>2. PICK r \in Requests : Fail(r)
      BY <1>2, <2>0, <2>11, ContractRuns, PolicyRuns, CardRuns, MeterRuns, AccountRuns
         DEF OfficeNext, FailAny, ContractAreas, CardAreas
    <3>3. Becomes(r, Idle) /\ Exclusive(Zone)' /\ Built' = Built
      BY <2>0, <2>1, <3>1, <3>2, FailFacts DEF parkingVars, Built
    <3> QED
      BY <2>3, <2>4, <3>3 DEF Becomes, Idle
  <2> QED
    BY <2>10, <2>11
<1> QED
  BY <1>1, <1>2

\* As many slots are created as were asked for, unless the first number was
\* given, two requests numbered slots at once, or the numbers outgrew the padded
\* width (parking.service bulkCreateSlots).
THEOREM SlotsCreatedAsAsked == OfficeSpec => []SlotsAsAsked
<1>1. NumberInv => SlotsAsAsked
  <2> SUFFICES ASSUME NumberInv, NEW r \in Requests, At(r, "slots"), NEW n \in Asked(r) \cap Built,
                      ~Raced(Zone), task[r].row # Zone
               PROVE  \E m \in Built : m > SlotPadded
    BY DEF SlotsAsAsked
  <2>0. task[r].op \in ParkingOps
    BY DEF At, ParkingOps
  <2>1. area = "parking"
    BY <2>0, InParking DEF NumberInv
  <2>2. \/ \A m \in Built : m < task[r].seen
        \/ \E m \in Built : m > SlotPadded
    BY <2>1 DEF NumberInv, NumberTask
  <2>3. task[r].seen \in Nat /\ n \in Nat /\ n >= task[r].seen
    BY <2>1, ParkingAssumption DEF NumberInv, NumberTask, Asked, Built
  <2> QED
    BY <2>2, <2>3
<1> QED
  BY <1>1, NumbersInit, NumbersStep, PTL DEF OfficeSpec

-----------------------------------------------------------------------------
(* Contracts *)

ApartmentExcused(a) == Raced(a) \/ a \in edited

ContractShape(row) ==
    row = [status |-> row.status, apartment |-> row.apartment,
           residents |-> row.residents, terms |-> row.terms]

Single(a) == ActiveOn(a) = {} \/ \E c \in Contracts : ActiveOn(a) = {c}

\* What the active contract of an apartment says of its row.
RowMatches(a) ==
    \/ ActiveOn(a) = {} /\ apt[a] = Vacant
    \/ \E c \in Contracts :
          /\ ActiveOn(a) = {c}
          /\ apt[a] = [status |-> "occupied", rented |-> TRUE,
                       residents |-> OrNone(contract[c].residents)]

Matches(a) == Single(a) /\ (a \in adjusted \/ RowMatches(a))

\* What a request has checked holds until it writes.
ContractTask(r) ==
    /\ At(r, "sign") =>
         /\ task[r].row \in Apartments /\ task[r].row \in task[r].on
         /\ ApartmentExcused(task[r].row) \/ ActiveOn(task[r].row) = {}
    /\ At(r, "terminate") =>
         /\ task[r].row \in Contracts /\ Signed(task[r].row)
         /\ contract[task[r].row].apartment \in task[r].on
         /\ \/ ApartmentExcused(contract[task[r].row].apartment)
            \/ contract[task[r].row].status = "active"

ContractInv ==
    /\ InArea
    /\ apt = [a \in Apartments |-> apt[a]]
    /\ contract = [c \in Contracts |-> contract[c]]
    /\ \A c \in Contracts : /\ ContractShape(contract[c])
                            /\ Signed(c) => contract[c].apartment \in Apartments
    /\ \A a \in Apartments : ApartmentExcused(a) \/ Matches(a)
    /\ area \in ContractAreas => /\ \A a \in Apartments : Exclusive(a)
                                 /\ \A r \in Requests : ContractTask(r)

LEMMA ContractsInit == OfficeInit => ContractInv
<1> SUFFICES ASSUME OfficeInit PROVE ContractInv
  OBVIOUS
<1>1. CASE area \notin {"plans", "schedules"}
  <2>1. /\ contract = [c \in Contracts |-> NoContract] /\ apt = [a \in Apartments |-> Vacant]
        /\ task = [r \in Requests |-> Idle]
    BY <1>1 DEF OfficeInit, ContractInit
  <2>2. ContractShape(NoContract) /\ NoContract.status = "absent"
    BY DEF ContractShape, NoContract
  <2>3. \A a \in Apartments : ActiveOn(a) = {} /\ Matches(a)
    BY <2>1, <2>2 DEF ActiveOn, Matches, Single, RowMatches
  <2>4. (\A a \in Apartments : Exclusive(a)) /\ \A r \in Requests : ContractTask(r)
    BY <2>1 DEF Exclusive, ContractTask, At, Idle
  <2> QED
    BY <2>1, <2>2, <2>3, <2>4, OfficeStarts DEF ContractInv, Signed
<1>2. CASE area \in {"plans", "schedules"}
  <2>1. PICK b \in Apartments, t \in Terms[area] :
          /\ contract = [c \in Contracts |->
                IF c = CHOOSE d \in Contracts : TRUE THEN NewlySigned(b, NoRow, t) ELSE NoContract]
          /\ apt = [a \in Apartments |-> IF b = a THEN Occupied(NoRow) ELSE Vacant]
          /\ task = [q \in Requests |->
                IF q = CHOOSE s \in Requests : TRUE
                THEN AfterSigning(b, CHOOSE c \in Contracts : TRUE, t) ELSE Idle]
    BY <1>2 DEF OfficeInit, ContractInit
  <2> DEFINE first == CHOOSE c \in Contracts : TRUE
             maker == CHOOSE s \in Requests : TRUE
  <2>2. /\ ContractShape(NoContract) /\ NoContract.status = "absent"
        /\ ContractShape(NewlySigned(b, NoRow, t)) /\ NewlySigned(b, NoRow, t).status = "active"
        /\ NewlySigned(b, NoRow, t).apartment = b /\ NewlySigned(b, NoRow, t).residents = NoRow
    BY DEF ContractShape, NoContract, NewlySigned
  <2>3. AfterSigning(b, first, t).op = "plan" /\ Idle.op = "idle" /\ Idle.on = {}
    BY DEF AfterSigning, Idle
  <2>4. (\A a \in Apartments : Exclusive(a)) /\ \A r \in Requests : ContractTask(r)
    <3> HIDE DEF first
    <3>1. \A r \in Requests : task[r] = IF r = maker THEN AfterSigning(b, first, t) ELSE Idle
      BY <2>1 DEF first
    <3>2. \A r \in Requests : task[r].op \in {"plan", "idle"} /\ (task[r].on # {} => r = maker)
      BY <2>3, <3>1
    <3> QED
      BY <3>2 DEF Exclusive, ContractTask, At
  <2>5. first \in Contracts
    BY ContractAssumption
  <2>6. /\ \A c \in Contracts : contract[c] = IF c = first THEN NewlySigned(b, NoRow, t) ELSE NoContract
        /\ contract = [c \in Contracts |-> contract[c]] /\ apt = [a \in Apartments |-> apt[a]]
        /\ \A a \in Apartments : apt[a] = IF b = a THEN Occupied(NoRow) ELSE Vacant
    BY <2>1
  <2> HIDE DEF first
  <2>7. ActiveOn(b) = {first} /\ \A a \in Apartments : a # b => ActiveOn(a) = {}
    BY <2>2, <2>5, <2>6 DEF ActiveOn
  <2>8. \A a \in Apartments : Matches(a)
    <3>1. \A a \in Apartments : Single(a)
      BY <2>5, <2>7 DEF Single
    <3>2. ASSUME NEW a \in Apartments PROVE RowMatches(a)
      BY <2>2, <2>5, <2>6, <2>7 DEF RowMatches, Occupied, OrNone
    <3> QED
      BY <3>1, <3>2 DEF Matches
  <2> QED
    BY <2>2, <2>4, <2>6, <2>8, OfficeStarts DEF ContractInv, Signed
<1> QED
  BY <1>1, <1>2

\* A statement that touches neither apartments nor contracts.
LEMMA ContractsQuiet ==
  ASSUME ContractInv, UNCHANGED <<area, apt, contract, edited, adjusted>>, InArea', raced \subseteq raced',
         area \in ContractAreas => /\ \A a \in Apartments : Exclusive(a)'
                                   /\ \A q \in Requests : task'[q] = task[q] \/ ContractTask(q)'
  PROVE  ContractInv'
<1>1. \A a : ApartmentExcused(a) => ApartmentExcused(a)'
  BY DEF ApartmentExcused, Raced
<1>2. \A a : ActiveOn(a)' = ActiveOn(a) /\ Matches(a)' = Matches(a)
  BY DEF ActiveOn, Matches, Single, RowMatches
<1>3. ASSUME NEW q \in Requests, ContractTask(q), task'[q] = task[q] PROVE ContractTask(q)'
  BY <1>1, <1>2, <1>3 DEF ContractTask, At, Signed
<1> QED
  BY <1>1, <1>2, <1>3 DEF ContractInv, Signed

\* The statements that a request begins with, and generation.
LEMMA ContractsOpen ==
  ASSUME ContractInv, area \in ContractAreas, InArea', area' = area, raced \subseteq raced',
         NEW r \in Requests,
         \/ \E a \in Apartments : OpenSigning(r, a)
         \/ \E c \in Contracts : \/ OpenTermination(r, c)
                                 \/ \E count, percent : OpenGeneration(r, c, count, percent)
         \/ ValidateContract(r) \/ GenerateSchedules(r)
  PROVE  ContractInv'
<1>1. ASSUME NEW a, NEW new, Shape(new), Open(r, a, new)
      PROVE  /\ task'[r] = new /\ \A q \in Requests : q # r => task'[q] = task[q]
             /\ \A o \in Apartments : Exclusive(o)'
  BY <1>1, OpenFacts, OpenExclusive DEF Becomes, ContractInv, InArea, Fits
<1>2. ASSUME NEW a \in Apartments, OpenSigning(r, a)
      PROVE  ContractInv'
  <2>1. PICK new : /\ Open(r, {"contracts"}, new)
                   /\ new = [Idle EXCEPT !.op = "sign", !.on = {a}, !.row = a]
    BY <1>2 DEF OpenSigning
  <2>2. Shape(new) /\ new.op = "sign" /\ new.row = a /\ a \in new.on
    BY <2>1 DEF Shape, Idle
  <2>3. UNCHANGED <<apt, contract, edited, adjusted>> /\ ActiveOn(a)' = {}
    BY <1>2 DEF OpenSigning, MaySign, contractVars, ActiveOn
  <2>4. ContractTask(r)'
    BY <1>1, <2>1, <2>2, <2>3 DEF ContractTask, At
  <2> QED
    BY <1>1, <2>1, <2>2, <2>3, <2>4, ContractsQuiet
<1>3. ASSUME NEW c \in Contracts, OpenTermination(r, c)
      PROVE  ContractInv'
  <2>1. PICK new : /\ Open(r, {"contracts"}, new)
                   /\ new = [Idle EXCEPT !.op = "terminate", !.row = c,
                                         !.on = {contract[c].apartment}]
    BY <1>3 DEF OpenTermination
  <2>2. Shape(new) /\ new.op = "terminate" /\ new.row = c /\ contract[c].apartment \in new.on
    BY <2>1 DEF Shape, Idle
  <2>3. UNCHANGED <<apt, contract, edited, adjusted>> /\ contract[c].status = "active"
    BY <1>3 DEF OpenTermination, contractVars
  <2>4. ContractTask(r)'
    BY <1>1, <2>1, <2>2, <2>3 DEF ContractTask, At, Signed
  <2> QED
    BY <1>1, <2>1, <2>2, <2>3, <2>4, ContractsQuiet
<1>4. ASSUME NEW c \in Contracts, NEW count, NEW percent, OpenGeneration(r, c, count, percent)
      PROVE  ContractInv'
  <2>1. PICK new : /\ Open(r, {"contracts", "plans", "schedules"}, new)
                   /\ new = [op |-> "plan", on |-> {c}, row |-> c, seen |-> count, kind |-> percent]
    BY <1>4 DEF OpenGeneration
  <2>2. Shape(new) /\ new.op = "plan"
    BY <2>1 DEF Shape
  <2>3. UNCHANGED <<apt, contract, edited, adjusted>>
    BY <1>4 DEF OpenGeneration, contractVars
  <2>4. ContractTask(r)'
    BY <1>1, <2>1, <2>2 DEF ContractTask, At
  <2> QED
    BY <1>1, <2>1, <2>2, <2>3, <2>4, ContractsQuiet
<1>5. ASSUME ValidateContract(r) \/ GenerateSchedules(r)
      PROVE  ContractInv'
  <2>1. UNCHANGED <<apt, contract, edited, adjusted>>
    BY <1>5 DEF ValidateContract, GenerateSchedules, contractVars
  <2>2. PICK new : /\ Proceed(r, new)
                   /\ \/ new = Idle
                      \/ \E planned : new = [task[r] EXCEPT !.op = "generate", !.seen = planned]
    BY <1>5 DEF ValidateContract, GenerateSchedules, Close
  <2>5. Shape(new) /\ new.op \in {"idle", "generate"} /\ new.on \subseteq task[r].on
    BY <2>2, IdleShape DEF Shape, Idle, ContractInv, InArea, Fits, TasksOK
  <2>3. /\ task'[r].op \in {"idle", "generate"} /\ \A a \in Apartments : Exclusive(a)'
        /\ \A q \in Requests : q # r => task'[q] = task[q]
    BY <2>2, <2>5, ProceedFacts, ProceedExclusive DEF Becomes, ContractInv, InArea, Fits
  <2>4. ContractTask(r)'
    BY <2>3 DEF ContractTask, At
  <2> QED
    BY <2>1, <2>3, <2>4, ContractsQuiet
<1> QED
  BY <1>2, <1>3, <1>4, <1>5

LEMMA ContractsSigned ==
  ASSUME ContractInv, area \in ContractAreas, InArea', area' = area,
         NEW r \in Requests, NEW n, SignContract(r, n)
  PROVE  ContractInv'
<1>0. PICK a, c : a = task[r].row /\ c = NewContract
  OBVIOUS
<1>1. PICK t : /\ contract' = [contract EXCEPT ![c] = NewlySigned(a, n, t)]
               /\ Proceed(r, AfterSigning(a, c, t))
               /\ apt' = [apt EXCEPT ![a] = Occupied(n)] /\ edited' = edited
               /\ adjusted' = adjusted \ {a}
  BY <1>0 DEF SignContract
<1>2. c \in Contracts /\ ~Signed(c)
  BY <1>0 DEF SignContract, NewContract
<1>3. a \in Apartments /\ a \in task[r].on /\ (ApartmentExcused(a) \/ ActiveOn(a) = {})
  BY <1>0 DEF SignContract, ContractInv, ContractTask
<1>4. /\ NewlySigned(a, n, t).status = "active" /\ NewlySigned(a, n, t).apartment = a
      /\ NewlySigned(a, n, t).residents = n /\ ContractShape(NewlySigned(a, n, t))
  BY DEF NewlySigned, ContractShape
<1>5. /\ Shape(AfterSigning(a, c, t)) /\ AfterSigning(a, c, t).op = "plan"
      /\ AfterSigning(a, c, t).on = {a, c}
  BY DEF AfterSigning, Shape
<1>6. /\ task'[r] = AfterSigning(a, c, t) /\ \A q \in Requests : q # r => task'[q] = task[q]
      /\ raced' = raced
  BY <1>1, <1>5, ProceedFacts DEF Becomes, ContractInv, InArea, Fits
<1>7. ASSUME NEW o \in Apartments PROVE Exclusive(o)'
  <2>1. o \in {a, c} => o \in task[r].on
    BY <1>2, <1>3, ContractAssumption
  <2> QED
    BY <1>1, <1>5, <2>1, ProceedExclusive DEF ContractInv, InArea, Fits
<1>8. \A b : ApartmentExcused(b)' = ApartmentExcused(b)
  BY <1>1, <1>6 DEF ApartmentExcused, Raced
<1>9. /\ contract'[c] = NewlySigned(a, n, t)
      /\ \A d \in Contracts : d # c => contract'[d] = contract[d]
      /\ apt'[a] = Occupied(n) /\ \A b \in Apartments : b # a => apt'[b] = apt[b]
      /\ contract' = [d \in Contracts |-> contract'[d]] /\ apt' = [b \in Apartments |-> apt'[b]]
  BY <1>1, <1>2, <1>3 DEF ContractInv
<1>10. /\ ActiveOn(a)' = ActiveOn(a) \cup {c}
       /\ \A b : b # a => ActiveOn(b)' = ActiveOn(b) /\ c \notin ActiveOn(b)
  <2>2. ASSUME NEW b
        PROVE  ActiveOn(b)' = {d \in Contracts : contract'[d].status = "active"
                                                 /\ contract'[d].apartment = b}
    BY DEF ActiveOn
  <2>3. contract[c].status # "active" /\ contract'[c].status = "active" /\ contract'[c].apartment = a
    BY <1>2, <1>4, <1>9 DEF Signed
  <2>4. ActiveOn(a)' = ActiveOn(a) \cup {c}
    BY <1>2, <1>9, <2>2, <2>3 DEF ActiveOn
  <2>5. ASSUME NEW b, b # a PROVE ActiveOn(b)' = ActiveOn(b) /\ c \notin ActiveOn(b)
    BY <1>2, <1>9, <2>2, <2>3, <2>5 DEF ActiveOn
  <2> QED
    BY <2>4, <2>5
<1>11. ASSUME NEW b \in Apartments, ~ApartmentExcused(b) PROVE Matches(b)'
  <2>1. CASE b = a
    <3>1. ActiveOn(a)' = {c}
      BY <1>3, <1>10, <1>11, <2>1
    <3>2. apt'[a] = [status |-> "occupied", rented |-> TRUE, residents |-> OrNone(contract'[c].residents)]
      BY <1>4, <1>9 DEF Occupied
    <3> QED
      BY <1>2, <2>1, <3>1, <3>2 DEF Matches, Single, RowMatches
  <2>2. CASE b # a
    <3>1. Matches(b) /\ ActiveOn(b)' = ActiveOn(b) /\ apt'[b] = apt[b] /\ c \notin ActiveOn(b)
          /\ (b \in adjusted => b \in adjusted')
      BY <1>1, <1>9, <1>10, <1>11, <2>2 DEF ContractInv
    <3> QED
      BY <1>9, <3>1 DEF Matches, Single, RowMatches
  <2> QED
    BY <2>1, <2>2
<1>12. ASSUME NEW q \in Requests PROVE ContractTask(q)'
  <2>1. CASE q = r
    BY <1>5, <1>6, <2>1 DEF ContractTask, At
  <2>2. CASE q # r
    <3>1. ContractTask(q) /\ task'[q] = task[q] /\ \A b \in Apartments : Exclusive(b)
      BY <1>6, <2>2 DEF ContractInv
    <3>2. ASSUME At(q, "sign"), task[q].row = a PROVE ApartmentExcused(a)
      BY <1>3, <2>2, <3>1, <3>2 DEF ContractTask, Exclusive, ApartmentExcused, Raced
    <3>3. At(q, "terminate") => task[q].row # c
      BY <1>2, <3>1 DEF ContractTask
    <3> QED
      BY <1>8, <1>9, <1>10, <3>1, <3>2, <3>3 DEF ContractTask, At, Signed
  <2> QED
    BY <2>1, <2>2
<1>13. \A d \in Contracts : /\ ContractShape(contract'[d])
                            /\ contract'[d].status # "absent" => contract'[d].apartment \in Apartments
  BY <1>3, <1>4, <1>9 DEF ContractInv, Signed
<1> QED
  BY <1>7, <1>8, <1>9, <1>11, <1>12, <1>13 DEF ContractInv, Signed

LEMMA ContractsTerminated ==
  ASSUME ContractInv, area \in ContractAreas, InArea', area' = area,
         NEW r \in Requests, NEW end, Terminate(r, end)
  PROVE  ContractInv'
<1>0. PICK a, c : c = task[r].row /\ a = contract[c].apartment
  OBVIOUS
<1>1. /\ contract' = [contract EXCEPT ![c].status = "terminated", ![c].terms.end = end]
      /\ apt' = [apt EXCEPT ![a] = Vacant] /\ edited' = edited /\ adjusted' = adjusted \ {a}
  BY <1>0 DEF Terminate, Vacated
<1>2. /\ c \in Contracts /\ Signed(c) /\ a \in Apartments /\ a \in task[r].on
      /\ ContractShape(contract[c]) /\ (ApartmentExcused(a) \/ contract[c].status = "active")
  BY <1>0 DEF Terminate, ContractInv, ContractTask
<1>3. /\ raced' = raced /\ task'[r] = Idle
      /\ \A q \in Requests : q # r => task'[q] = task[q]
      /\ \A b \in Apartments : Exclusive(b)'
  BY CloseFacts DEF Terminate, ContractInv, InArea, Fits, Becomes
<1>4. \A b : ApartmentExcused(b)' = ApartmentExcused(b)
  BY <1>1, <1>3 DEF ApartmentExcused, Raced
<1>5. PICK row : /\ contract'[c] = row
                 /\ row = [contract[c] EXCEPT !.status = "terminated", !.terms.end = end]
  BY <1>1, <1>2 DEF ContractInv
<1>6. ContractShape(row)
  BY <1>2, <1>5 DEF ContractShape
<1>7. row.status = "terminated"
  BY <1>2, <1>5 DEF ContractShape
<1>8. row.apartment = a
  BY <1>0, <1>2, <1>5 DEF ContractShape
<1>9. /\ \A d \in Contracts : d # c => contract'[d] = contract[d]
      /\ apt'[a] = Vacant /\ \A b \in Apartments : b # a => apt'[b] = apt[b]
      /\ contract' = [d \in Contracts |-> contract'[d]] /\ apt' = [b \in Apartments |-> apt'[b]]
  BY <1>1, <1>2 DEF ContractInv
<1>10. /\ ActiveOn(a)' = ActiveOn(a) \ {c}
       /\ \A b : b # a => ActiveOn(b)' = ActiveOn(b) /\ c \notin ActiveOn(b)
  <2>1. ASSUME NEW b
        PROVE  ActiveOn(b)' = {d \in Contracts : contract'[d].status = "active"
                                                 /\ contract'[d].apartment = b}
    BY DEF ActiveOn
  <2>2. ActiveOn(a)' = ActiveOn(a) \ {c}
    BY <1>2, <1>5, <1>7, <1>9, <2>1 DEF ActiveOn
  <2>3. ASSUME NEW b, b # a PROVE ActiveOn(b)' = ActiveOn(b) /\ c \notin ActiveOn(b)
    BY <1>0, <1>2, <1>5, <1>7, <1>9, <2>1, <2>3 DEF ActiveOn
  <2> QED
    BY <2>2, <2>3
<1>11. ASSUME NEW b \in Apartments, ~ApartmentExcused(b) PROVE Matches(b)'
  <2>1. CASE b = a
    <3>1. c \in ActiveOn(a)
      BY <1>0, <1>2, <1>11, <2>1 DEF ActiveOn
    <3>2. ActiveOn(a)' = {}
      BY <1>2, <1>10, <1>11, <2>1, <3>1 DEF ContractInv, Matches, Single
    <3> QED
      BY <1>9, <2>1, <3>2 DEF Matches, Single, RowMatches
  <2>2. CASE b # a
    <3>1. Matches(b) /\ ActiveOn(b)' = ActiveOn(b) /\ apt'[b] = apt[b] /\ c \notin ActiveOn(b)
          /\ (b \in adjusted => b \in adjusted')
      BY <1>1, <1>9, <1>10, <1>11, <2>2 DEF ContractInv
    <3> QED
      BY <1>9, <3>1 DEF Matches, Single, RowMatches
  <2> QED
    BY <2>1, <2>2
<1>12. ASSUME NEW q \in Requests PROVE ContractTask(q)'
  <2>1. CASE q = r
    BY <1>3, <2>1 DEF ContractTask, At, Idle
  <2>2. CASE q # r
    <3>1. ContractTask(q) /\ task'[q] = task[q] /\ \A b \in Apartments : Exclusive(b)
      BY <1>3, <2>2 DEF ContractInv
    <3>2. a \in task[q].on => ApartmentExcused(a)
      BY <1>2, <2>2, <3>1 DEF Exclusive, ApartmentExcused, Raced
    <3>3. \A d \in Contracts : /\ contract'[d].apartment = contract[d].apartment
                               /\ contract'[d].status # contract[d].status => d = c
      BY <1>0, <1>5, <1>8, <1>9
    <3>4. ASSUME At(q, "sign") PROVE ContractTask(q)'
      <4>1. PICK b : b = task[q].row /\ b \in task[q].on
        BY <3>1, <3>4 DEF ContractTask
      <4>2. ApartmentExcused(b) \/ (ActiveOn(b) = {} /\ b # a)
        BY <3>1, <3>2, <3>4, <4>1 DEF ContractTask
      <4> QED
        BY <1>4, <1>10, <3>1, <3>4, <4>1, <4>2 DEF ContractTask, At
    <3>5. ASSUME At(q, "terminate") PROVE ContractTask(q)'
      <4>1. PICK d \in Contracts : d = task[q].row
        BY <3>1, <3>5 DEF ContractTask
      <4>2. contract[d].status # "absent" /\ contract[d].apartment \in task[q].on
        BY <3>1, <3>5, <4>1 DEF ContractTask, Signed
      <4>3. contract'[d].status # "absent"
        BY <1>5, <1>7, <1>9, <4>2
      <4>4. ApartmentExcused(contract[d].apartment)' \/ contract'[d].status = "active"
        BY <1>0, <1>4, <3>1, <3>2, <3>3, <3>5, <4>1, <4>2 DEF ContractTask
      <4> QED
        BY <3>1, <3>3, <3>5, <4>1, <4>2, <4>3, <4>4 DEF ContractTask, At, Signed
    <3> QED
      BY <3>1, <3>4, <3>5 DEF ContractTask, At
  <2> QED
    BY <2>1, <2>2
<1>13. \A d \in Contracts : /\ ContractShape(contract'[d])
                            /\ contract'[d].status # "absent" => contract'[d].apartment \in Apartments
  BY <1>2, <1>5, <1>6, <1>8, <1>9 DEF ContractInv, Signed
<1> QED
  BY <1>3, <1>4, <1>9, <1>11, <1>12, <1>13 DEF ContractInv, Signed

LEMMA ContractsUpdated ==
  ASSUME ContractInv, area \in ContractAreas, InArea', area' = area, raced \subseteq raced',
         task' = task, \A b \in Apartments : Exclusive(b)',
         NEW c \in Contracts, NEW status \in ContractStatus, NEW n, NEW new,
         UpdateContract(c, status, n, new)
  PROVE  ContractInv'
<1>0. PICK a : a = contract[c].apartment
  OBVIOUS
<1>1. /\ contract' = [contract EXCEPT ![c].status = status, ![c].residents = Given(n, @),
                                      ![c].terms = Amended(@, new)]
      /\ adjusted' = adjusted
      /\ apt' = IF n # NoRow /\ status = "active" THEN [apt EXCEPT ![a].residents = n] ELSE apt
      /\ edited' = IF status # contract[c].status THEN edited \cup {a} ELSE edited
  BY <1>0 DEF UpdateContract
<1>2. Signed(c) /\ a \in Apartments /\ ContractShape(contract[c]) /\ status # "absent"
  BY <1>0 DEF UpdateContract, ContractInv, ContractStatus
<1>3. PICK row : /\ contract'[c] = row
                 /\ row = [status |-> status, apartment |-> contract[c].apartment,
                           terms |-> Amended(contract[c].terms, new),
                           residents |-> Given(n, contract[c].residents)]
  <2>1. contract'[c] = [contract[c] EXCEPT !.status = status, !.residents = Given(n, @),
                                           !.terms = Amended(@, new)]
    BY <1>1 DEF ContractInv
  <2> QED
    BY <1>2, <2>1 DEF ContractShape
<1>4. /\ ContractShape(row) /\ row.status = status /\ row.apartment = a
      /\ row.residents = IF n = NoRow THEN contract[c].residents ELSE n
  BY <1>0, <1>3 DEF ContractShape, Given
<1>5. /\ \A d \in Contracts : d # c => contract'[d] = contract[d]
      /\ contract' = [d \in Contracts |-> contract'[d]] /\ apt' = [b \in Apartments |-> apt'[b]]
      /\ \A b \in Apartments : b # a => apt'[b] = apt[b]
  BY <1>1, <1>2 DEF ContractInv
<1>6. /\ \A b : ApartmentExcused(b) => ApartmentExcused(b)'
      /\ ApartmentExcused(a)' \/ status = contract[c].status
  BY <1>1 DEF ApartmentExcused, Raced
<1>7. \A b : ApartmentExcused(b)' \/ ActiveOn(b)' = ActiveOn(b)
  <2>1. ASSUME NEW b
        PROVE  ActiveOn(b)' = {d \in Contracts : contract'[d].status = "active"
                                                 /\ contract'[d].apartment = b}
    BY DEF ActiveOn
  <2>2. ASSUME NEW b, ~ApartmentExcused(b)' PROVE ActiveOn(b)' = ActiveOn(b)
    BY <1>0, <1>3, <1>4, <1>5, <1>6, <2>1, <2>2 DEF ActiveOn
  <2> QED
    BY <2>2
<1>8. ASSUME NEW b \in Apartments, ~ApartmentExcused(b)' PROVE Matches(b)'
  <2>1. Single(b) /\ ActiveOn(b)' = ActiveOn(b) /\ (b \in adjusted \/ RowMatches(b))
    BY <1>6, <1>7, <1>8 DEF ContractInv, Matches
  <2>5. Single(b)'
    BY <2>1 DEF Single
  <2>6. CASE b \in adjusted
    BY <1>1, <2>5, <2>6 DEF Matches
  <2>7. ASSUME b \notin adjusted PROVE RowMatches(b)
    BY <2>1, <2>7
  <2> SUFFICES ASSUME b \notin adjusted PROVE RowMatches(b)'
    BY <2>5, <2>6 DEF Matches
  <2> USE <2>7
  <2>2. CASE b # a
    <3>1. c \notin ActiveOn(b)
      BY <1>0, <2>2 DEF ActiveOn
    <3> QED
      BY <1>5, <1>8, <2>1, <2>2, <3>1 DEF RowMatches
  <2>3. CASE b = a /\ status # "active"
    <3>1. c \notin ActiveOn(b) /\ apt' = apt
      BY <1>1, <1>6, <1>8, <2>3 DEF ActiveOn
    <3> QED
      BY <1>5, <1>8, <2>1, <3>1 DEF RowMatches
  <2>4. CASE b = a /\ status = "active"
    <3>1. ActiveOn(b) = {c} /\ apt[b] = [status |-> "occupied", rented |-> TRUE,
                                         residents |-> OrNone(contract[c].residents)]
      <4>1. c \in ActiveOn(b)
        BY <1>0, <1>6, <1>8, <2>4 DEF ActiveOn
      <4> QED
        BY <2>1, <4>1 DEF RowMatches
    <3>2. apt'[b] = [status |-> "occupied", rented |-> TRUE, residents |-> OrNone(row.residents)]
      <4>1. CASE n = NoRow
        BY <1>1, <1>4, <3>1, <4>1
      <4>2. CASE n # NoRow
        <5>1. apt'[b] = [status |-> "occupied", rented |-> TRUE, residents |-> n]
          <6>1. apt'[b] = [apt[b] EXCEPT !.residents = n]
            BY <1>1, <1>2, <2>4, <4>2 DEF ContractInv
          <6>2. PICK t : t = TRUE
            OBVIOUS
          <6>3. apt[b] = [status |-> "occupied", rented |-> t,
                          residents |-> OrNone(contract[c].residents)]
            BY <3>1, <6>2
          <6>4. apt'[b] = [status |-> "occupied", rented |-> t, residents |-> n]
            BY <6>1, <6>3
          <6> QED
            BY <6>2, <6>4
        <5>2. OrNone(row.residents) = n
          BY <1>4, <4>2 DEF OrNone
        <5> QED
          BY <5>1, <5>2
      <4> QED
        BY <4>1, <4>2
    <3> QED
      BY <1>3, <2>1, <3>1, <3>2 DEF RowMatches
  <2> QED
    BY <2>2, <2>3, <2>4
<1>9. ASSUME NEW q \in Requests PROVE ContractTask(q)'
  <2>1. ContractTask(q)
    BY DEF ContractInv
  <2>2. \A d \in Contracts : /\ contract'[d].apartment = contract[d].apartment
                             /\ contract'[d].status # contract[d].status => d = c
                             /\ contract[d].status # "absent" => contract'[d].status # "absent"
    BY <1>0, <1>2, <1>3, <1>4, <1>5
  <2>3. PICK b : b = task[q].row
    OBVIOUS
  <2>4. At(q, "sign") => ContractTask(q)'
    BY <1>6, <1>7, <2>1, <2>3 DEF ContractTask, At
  <2>5. At(q, "terminate") => ContractTask(q)'
    BY <1>0, <1>3, <1>4, <1>6, <2>1, <2>2 DEF ContractTask, At, Signed
  <2> QED
    BY <2>4, <2>5 DEF ContractTask, At
<1>10. \A d \in Contracts : /\ ContractShape(contract'[d])
                            /\ contract'[d].status # "absent" => contract'[d].apartment \in Apartments
  BY <1>2, <1>3, <1>4, <1>5 DEF ContractInv, Signed
<1> QED
  BY <1>5, <1>8, <1>9, <1>10 DEF ContractInv, Signed

LEMMA ContractsStep ==
  ASSUME ContractInv, [OfficeNext]_officeVars
  PROVE  ContractInv'
<1>1. CASE OfficeNext
  <2>1. InArea' /\ area' = area /\ raced \subseteq raced'
    BY <1>1, OfficeRuns DEF ContractInv
  <2>2. CASE ContractStep
    <3>1. area \in ContractAreas
      BY <2>2, ContractRuns DEF ContractInv
    <3>2. ASSUME NEW areas, NEW objects, AtOnce(areas, objects)
          PROVE  task' = task /\ \A b \in Apartments : Exclusive(b)'
      BY <3>1, <3>2, AtOnceFacts DEF ContractInv, InArea, Fits
    <3>3. ASSUME NEW r \in Requests,
                 \/ \E a \in Apartments : OpenSigning(r, a)
                 \/ \E c \in Contracts : \/ OpenTermination(r, c)
                                         \/ \E count, percent : OpenGeneration(r, c, count, percent)
                 \/ ValidateContract(r) \/ GenerateSchedules(r)
          PROVE  ContractInv'
      BY <2>1, <3>1, <3>3, ContractsOpen
    <3>4. ASSUME NEW r \in Requests, NEW n, SignContract(r, n)
          PROVE  ContractInv'
      BY <2>1, <3>1, <3>4, ContractsSigned
    <3>5. ASSUME NEW r \in Requests, NEW end, Terminate(r, end)
          PROVE  ContractInv'
      BY <2>1, <3>1, <3>5, ContractsTerminated
    <3>6. ASSUME NEW c \in Contracts,
                 \/ \E row : AddSchedule(c, row)
                 \/ \E i, due, amount : ChangeSchedule(c, i, due, amount)
                 \/ \E i : DropSchedule(c, i)
          PROVE  ContractInv'
      <4>1. UNCHANGED <<apt, contract, edited, adjusted>> /\ AtOnce({"schedules"}, {c})
        BY <3>6 DEF AddSchedule, ChangeSchedule, DropSchedule, AlterPlan
      <4> QED
        BY <2>1, <3>2, <4>1, ContractsQuiet
    <3>7. ASSUME NEW c \in Contracts, NEW status \in ContractStatus, NEW n, NEW new,
                 UpdateContract(c, status, n, new)
          PROVE  ContractInv'
      <4>1. task' = task /\ \A b \in Apartments : Exclusive(b)'
        BY <3>2, <3>7 DEF UpdateContract
      <4> QED
        BY <2>1, <3>1, <3>7, <4>1, ContractsUpdated
    <3>8. ASSUME NEW a \in Apartments, NEW row, EditApartment(a, row)
          PROVE  ContractInv'
      <4>1. /\ task' = task /\ (\A b \in Apartments : Exclusive(b)') /\ contract' = contract
            /\ edited' = edited /\ adjusted' = adjusted \cup {a} /\ apt' = [apt EXCEPT ![a] = row]
        BY <3>2, <3>8 DEF EditApartment
      <4>2. /\ \A b : ApartmentExcused(b) => ApartmentExcused(b)'
            /\ \A b \in Apartments : b # a => apt'[b] = apt[b]
            /\ apt' = [b \in Apartments |-> apt'[b]]
        BY <2>1, <4>1 DEF ApartmentExcused, Raced, ContractInv
      <4>3. \A b : ActiveOn(b)' = ActiveOn(b)
        BY <4>1 DEF ActiveOn
      <4>4. ASSUME NEW b \in Apartments PROVE ApartmentExcused(b)' \/ Matches(b)'
        BY <4>1, <4>2, <4>3 DEF Matches, Single, RowMatches, ContractInv
      <4>5. ASSUME NEW q \in Requests PROVE ContractTask(q)'
        <5>1. PICK b : b = task[q].row
          OBVIOUS
        <5> QED
          BY <3>1, <4>1, <4>2, <4>3, <5>1 DEF ContractTask, ContractInv, At, Signed
      <4> QED
        BY <2>1, <4>1, <4>2, <4>4, <4>5 DEF ContractInv, Signed
    <3> HIDE DEF ContractInv
    <3>9. ASSUME NEW r \in Requests,
                 \/ \E a \in Apartments : OpenSigning(r, a)
                 \/ \E n \in Residents \cup {NoRow} : SignContract(r, n)
                 \/ \E c \in Contracts :
                      \/ \E count \in Counts[area], percent \in Percents :
                           OpenGeneration(r, c, count, percent)
                      \/ OpenTermination(r, c)
                 \/ ValidateContract(r) \/ GenerateSchedules(r)
                 \/ \E end \in Ends[area] : Terminate(r, end)
          PROVE  ContractInv'
      BY <3>3, <3>4, <3>5, <3>9
    <3>10. ASSUME NEW c \in Contracts,
                  \/ \E row \in HandRows : AddSchedule(c, row)
                  \/ \E i \in DOMAIN plan[c] :
                       \/ \E due \in Ends[area] \cup {NoRow},
                             amount \in (Rents[area] \cap Nat) \cup {NoRow} :
                            ChangeSchedule(c, i, due, amount)
                       \/ DropSchedule(c, i)
                  \/ \E status \in ContractStatus, n \in Residents \cup {NoRow}, new \in Amendments :
                       UpdateContract(c, status, n, new)
           PROVE  ContractInv'
      BY <3>6, <3>7, <3>10
    <3> QED
      BY <2>2, <3>8, <3>9, <3>10 DEF ContractStep
  <2>3. CASE ~ContractStep
    <3>1. UNCHANGED <<apt, contract, edited, adjusted>>
      BY <1>1, <2>3 DEF OfficeNext, BesidesParking, BesidesCards, BesidesMeters,
         BesidesAccounts, FailAny, contractVars
    <3>2. ASSUME area \in ContractAreas
          PROVE  /\ \A b \in Apartments : Exclusive(b)'
                 /\ \A q \in Requests : task'[q] = task[q] \/ ContractTask(q)'
      <4>1. PICK r \in Requests : Fail(r)
        BY <1>1, <2>3, <3>2, ParkingRuns, PolicyRuns, CardRuns, MeterRuns, AccountRuns
           DEF OfficeNext, FailAny, ContractAreas, CardAreas, ContractInv
      <4>2. Becomes(r, Idle) /\ \A b \in Apartments : Exclusive(b)'
        BY <3>2, <4>1, FailFacts DEF ContractInv, InArea, Fits
      <4> QED
        BY <4>2 DEF Becomes, ContractTask, At, Idle
    <3> QED
      BY <2>1, <3>1, <3>2, ContractsQuiet
  <2> QED
    BY <2>2, <2>3
<1>2. CASE UNCHANGED officeVars
  <2>1. UNCHANGED <<area, ops, task, raced, cut, apt, contract, edited, adjusted>>
    BY <1>2 DEF officeVars, requestVars, contractVars
  <2>2. InArea' /\ \A a : Exclusive(a)' = Exclusive(a)
    BY <2>1 DEF ContractInv, InArea, Fits, TasksOK, Shape, OpsOf, Exclusive
  <2> QED
    BY <2>1, <2>2, ContractsQuiet DEF ContractInv
<1> QED
  BY <1>1, <1>2

\* An apartment has at most one active contract, for every number of
\* apartments, contracts, requests and terms, unless two requests had it in hand
\* at once or a contract's status was set by hand (contracts.service create,
\* update and terminate).
THEOREM OneContractActive == OfficeSpec => []OneActiveContract
<1>1. ASSUME ContractInv PROVE OneActiveContract
  <2>1. ASSUME NEW a \in Apartments, Single(a) PROVE Cardinality(ActiveOn(a)) <= 1
    <3>2. CASE ActiveOn(a) = {}
      <4>1. Cardinality({}) = 0
        BY FS_EmptySet
      <4> QED
        BY <3>2, <4>1
    <3>3. CASE \E c : ActiveOn(a) = {c}
      <4>1. PICK c : ActiveOn(a) = {c}
        BY <3>3
      <4>2. Cardinality({c}) = 1
        BY FS_Singleton
      <4> QED
        BY <4>1, <4>2
    <3> QED
      BY <2>1, <3>2, <3>3 DEF Single
  <2> QED
    BY <1>1, <2>1 DEF ContractInv, ApartmentExcused, Matches, OneActiveContract
<1> QED
  BY <1>1, ContractsInit, ContractsStep, PTL DEF OfficeSpec

\* An apartment shows what its active contract says, or that there is none, with
\* these exceptions, and unless its own row was changed by hand since the last
\* signing or termination, in any of its columns (the same, and
\* apartments.service update).
THEOREM ApartmentsMatchContracts == OfficeSpec => []ApartmentMatchesContract
<1>1. ASSUME ContractInv PROVE ApartmentMatchesContract
  BY <1>1 DEF ContractInv, ApartmentExcused, ApartmentMatchesContract, Matches, RowMatches
<1> QED
  BY <1>1, ContractsInit, ContractsStep, PTL DEF OfficeSpec

-----------------------------------------------------------------------------
(* Plans of payments: what the functions of PaymentPlans return *)

LEMMA MaxOfTwo ==
  ASSUME NEW a \in Int, NEW b \in Int
  PROVE  Max({a, b}) \in {a, b} /\ Max({a, b}) >= a /\ Max({a, b}) >= b
<1>1. \E x \in {a, b} : \A y \in {a, b} : x >= y
  OBVIOUS
<1> QED
  BY <1>1 DEF Max

LEMMA MinOfTwo ==
  ASSUME NEW a \in Int, NEW b \in Int
  PROVE  Min({a, b}) \in {a, b} /\ Min({a, b}) <= a /\ Min({a, b}) <= b
<1>1. \E x \in {a, b} : \A y \in {a, b} : x =< y
  OBVIOUS
<1> QED
  BY <1>1 DEF Min

LEMMA DaysInMonth == \A m \in Int : DaysIn(m) \in 28..31
  BY DEF DaysIn

LEMMA MonthsAdded ==
  ASSUME NEW d, IsDate(d), NEW n \in Nat
  PROVE  /\ AddMonths(d, n) \in [month : Nat, day : 1..31] /\ IsDate(AddMonths(d, n))
         /\ AddMonths(d, n).month = d.month + n
         /\ AddMonths(d, n).day <= d.day
         /\ n = 0 \/ d.day <= 28 => AddMonths(d, n).day = d.day
<1>1. d.month + n \in Nat /\ d.day \in 1..31 /\ d.day <= DaysIn(d.month)
  BY DEF IsDate
<1>2. PICK k : k = DaysIn(d.month + n) /\ k \in 28..31
  BY <1>1, DaysInMonth
<1>3. PICK x : x = Min({d.day, k}) /\ x \in {d.day, k} /\ x <= d.day /\ x <= k
  <2>1. d.day \in Int /\ k \in Int
    BY <1>1, <1>2
  <2> QED
    BY <2>1, MinOfTwo
<1>4. n = 0 => k = DaysIn(d.month)
  BY <1>2 DEF IsDate
<1>5. AddMonths(d, n) = [month |-> d.month + n, day |-> x]
  BY <1>2, <1>3 DEF AddMonths, Date
<1>6. IsDate(AddMonths(d, n))
  BY <1>1, <1>2, <1>3, <1>5 DEF IsDate
<1> QED
  BY <1>1, <1>2, <1>3, <1>4, <1>5, <1>6

\* Whole numbers divided, and amounts rounded.
LEMMA Quotient ==
  ASSUME NEW a \in Nat, NEW b \in Nat \ {0}
  PROVE  a \div b \in Nat /\ b * (a \div b) <= a
  OBVIOUS

LEMMA Products == \A a, b \in Nat : a * b \in Nat
  OBVIOUS

LEMMA DayNumberCounts ==
  ASSUME NEW d, IsDate(d)
  PROVE  DayNumber(d) \in Nat
<1> DEFINE S == 0..(d.month - 1)
           f == [m \in S |-> DaysIn(m)]
           Sums(h) == h = [s \in SUBSET S |->
                 IF s = {} THEN 0 ELSE DaysIn(Pick(s)) + h[s \ {Pick(s)}]]
<1>0. d.month \in Nat /\ d.day \in Nat
  BY DEF IsDate
<1>1. IsFiniteSet(S)
  <2>1. 0 \in Int /\ d.month - 1 \in Int
    BY <1>0
  <2> QED
    BY <2>1, FS_Interval
<1>2. \A m \in S : DaysIn(m) \in Nat
  BY <1>0, DaysInMonth
<1>3. PICK g \in [SUBSET S -> Nat] : AddsUp(g, f, S)
  <2>1. \A m \in S : f[m] \in Nat
    BY <1>2
  <2> HIDE DEF S, f
  <2> QED
    BY <1>1, <2>1, SumExists
<1> HIDE DEF S
<1>4. \A s \in SUBSET S : s # {} => Pick(s) \in s
  BY DEF Pick
<1>5. Sums(g)
  BY <1>3, <1>4 DEF AddsUp
<1>6. PICK h : h = (CHOOSE k : Sums(k)) /\ Sums(h)
  <2> HIDE DEF Sums
  <2> QED
    BY <1>5
<1>7. AddsUp(h, f, S)
  <2>1. \A s \in SUBSET S : s # {} => f[Pick(s)] = DaysIn(Pick(s))
    BY <1>4
  <2>2. Sums(h)
    BY <1>6
  <2>3. h = [s \in SUBSET S |-> IF s = {} THEN 0 ELSE f[Pick(s)] + h[s \ {Pick(s)}]]
    <3> HIDE DEF f
    <3> QED
      BY <2>1, <2>2
  <2> QED
    BY <2>3 DEF AddsUp
<1>8. h[S] = g[S]
  <2> HIDE DEF f, Sums
  <2> QED
    BY <1>1, <1>3, <1>7, SameSums
<1>9. MapThenSumSet(DaysIn, S) = (CHOOSE k : Sums(k))[S]
  BY DEF MapThenSumSet, MapThenFoldSet, Pick
<1>10. DayNumber(d) = h[S] + d.day
  BY <1>6, <1>9 DEF DayNumber, S
<1> QED
  BY <1>0, <1>3, <1>8, <1>10

PlanRow == [kind : PaymentType, number : Int, due : [month : Int, day : Int], amount : Int,
            byHand : BOOLEAN]

\* What PlanSound says of a plan for the terms t.
Sound(t, rows) ==
    \/ t.type = "purchase" /\ Before(Deadline(t), t.start)
    \/ /\ t.type = "purchase" => SumOf(rows) = t.price
       /\ \/ \A i \in DOMAIN rows : rows[i].amount >= 0
          \/ IF t.type = "purchase" THEN t.down > t.price ELSE t.rent < 0
       /\ InOrder(rows)
       /\ ~Before(rows[1].due, t.start)

\* No payment of a plan is there twice.
Distinct(rows) ==
    \A i, j \in DOMAIN rows : SamePayment(rows[i], rows[j]) => i = j

\* The kind of rows that keep a plan from being generated again is there, and
\* the others are asked for once.
BlockingKind(t) == IF t.type = "rental" THEN "rent" ELSE "installment"
Blocks(t, rows) ==
    t.type # "purchase" =>
        /\ \E i \in DOMAIN rows : rows[i].kind = BlockingKind(t)
        /\ \A i \in DOMAIN rows :
             rows[i].kind = BlockingKind(t) \/ rows[i].kind \in {"deposit", "option_fee"}

Good(t, rows) ==
    rows \in Seq(PlanRow) /\ rows # <<>> /\ Sound(t, rows) /\ Distinct(rows) /\ Blocks(t, rows)

LEMMA ProRatedCounts ==
  ASSUME NEW amount \in Int, NEW start, IsDate(start)
  PROVE  ProRated(amount, start) \in Int /\ (amount >= 0 => ProRated(amount, start) >= 0)
<1>1. start.month \in Nat /\ start.day \in 1..31 /\ start.day <= DaysIn(start.month)
  BY DEF IsDate
<1>2. PICK days : days = DaysIn(start.month) /\ days \in 28..31
  BY <1>1, DaysInMonth
<1>3. PICK x \in Int : x = amount * (days - start.day + 1) /\ (amount >= 0 => x >= 0)
  <2>1. PICK n \in Nat : n = days - start.day + 1
    BY <1>1, <1>2
  <2>2. amount * n \in Int /\ (amount \in Nat => amount * n \in Nat)
    BY Products
  <2> QED
    BY <2>1, <2>2
<1>4. RoundDiv(x, days) \in Int /\ (x >= 0 => RoundDiv(x, days) >= 0)
  <2>1. PICK k \in Nat \ {0} : k = 2 * days
    BY <1>2
  <2>2. PICK n \in Int : n = 2 * x + days /\ (x >= 0 => n >= 0)
    BY <1>2, <1>3
  <2>3. n \div k \in Int /\ (n >= 0 => n \div k >= 0)
    BY <2>1, <2>2
  <2> QED
    BY <2>1, <2>2, <2>3 DEF RoundDiv
<1> QED
  BY <1>2, <1>3, <1>4 DEF ProRated

LEMMA FirstDueFacts ==
  ASSUME NEW start, IsDate(start), NEW dueDay \in 1..28
  PROVE  LET due == FirstDue(start, dueDay)
         IN  /\ due \in [month : Int, day : Int] /\ ~Before(due, start)
             /\ due.month = start.month \/ due = Date(start.month + 1, dueDay)
<1> DEFINE d == Date(start.month, dueDay)
<1>1. start.month \in Nat /\ start.day \in 1..31
  BY DEF IsDate
<1>2. d \in [month : Nat, day : 1..31] /\ d.month = start.month /\ d.day = dueDay
  BY <1>1 DEF Date
<1>3. IsDate(d)
  <2>1. DaysIn(start.month) \in 28..31
    BY <1>1, DaysInMonth
  <2> QED
    BY <1>2, <2>1 DEF IsDate
<1> HIDE DEF d
<1>4. PICK e : /\ e = AddMonths(d, 1) /\ e \in [month : Nat, day : 1..31]
               /\ e.month = start.month + 1 /\ e.day = dueDay
  <2>1. /\ AddMonths(d, 1) \in [month : Nat, day : 1..31]
        /\ AddMonths(d, 1).month = d.month + 1
        /\ d.day <= 28 => AddMonths(d, 1).day = d.day
    BY <1>3, MonthsAdded
  <2> QED
    BY <1>2, <2>1
<1>5. FirstDue(start, dueDay) = IF Before(d, start) THEN e ELSE d
  BY <1>4 DEF FirstDue, d
<1>6. e = Date(start.month + 1, dueDay)
  BY <1>4 DEF Date
<1>7. ~Before(e, start)
  BY <1>1, <1>4 DEF Before
<1> QED
  BY <1>2, <1>4, <1>5, <1>6, <1>7

LEMMA MonthlyFacts ==
  ASSUME NEW t, IsTerms(t), NEW kind \in PaymentType, NEW n \in Nat \ {0}
  PROVE  LET rows == Monthly(kind, t, n)
         IN  /\ rows \in Seq(PlanRow) /\ Len(rows) = n
             /\ \A i \in 1..n : /\ rows[i].kind = kind /\ rows[i].number = i
                                /\ t.rent >= 0 => rows[i].amount >= 0
             /\ InOrder(rows) /\ ~Before(rows[1].due, t.start)
<1> DEFINE rows == Monthly(kind, t, n)
<1>1. IsDate(t.start) /\ t.start.month \in Nat /\ t.dueDay \in 1..28 /\ t.rent \in Int
  BY DEF IsTerms, IsDate
<1>2. PICK first : /\ first = FirstDue(t.start, t.dueDay)
                   /\ first \in [month : Int, day : Int] /\ ~Before(first, t.start)
                   /\ first.month = t.start.month \/ first = Date(t.start.month + 1, t.dueDay)
  BY <1>1, FirstDueFacts
<1>3. PICK part \in Int : part = ProRated(t.rent, t.start) /\ (t.rent >= 0 => part >= 0)
  BY <1>1, ProRatedCounts
<1>4. rows = [i \in 1..n |-> IF i = 1 THEN Row(kind, 1, first, part)
                             ELSE Row(kind, i, Date(t.start.month + i - 1, t.dueDay), t.rent)]
  BY <1>2, <1>3 DEF Monthly
<1>5. Row(kind, 1, first, part) \in PlanRow
  BY <1>2, <1>3 DEF Row, PlanRow
<1>6. ASSUME NEW i \in 1..n
      PROVE  Row(kind, i, Date(t.start.month + i - 1, t.dueDay), t.rent) \in PlanRow
  BY <1>1 DEF Row, PlanRow, Date
<1> HIDE DEF rows
<1>7. rows \in Seq(PlanRow) /\ Len(rows) = n
  BY <1>4, <1>5, <1>6
<1>8. ASSUME NEW i \in 1..n
      PROVE  /\ rows[i].kind = kind /\ rows[i].number = i
             /\ t.rent >= 0 => rows[i].amount >= 0
             /\ rows[i].due = IF i = 1 THEN first ELSE Date(t.start.month + i - 1, t.dueDay)
  BY <1>1, <1>3, <1>4 DEF Row
<1>9. ASSUME NEW i \in 1..(n - 1) PROVE ~Before(rows[i + 1].due, rows[i].due)
  <2>0. i \in 1..n /\ i + 1 \in 1..n /\ i + 1 # 1 /\ i \in Nat
    OBVIOUS
  <2>1. PICK d, e : d = rows[i].due /\ e = rows[i + 1].due
    OBVIOUS
  <2>2. e.month = t.start.month + i /\ e.day = t.dueDay
    <3>1. e = Date(t.start.month + (i + 1) - 1, t.dueDay)
      BY <1>8, <2>0, <2>1
    <3> QED
      BY <1>1, <2>0, <3>1 DEF Date
  <2>3. CASE i = 1
    <3>0. d = first
      BY <1>8, <2>0, <2>1, <2>3
    <3>1. d.month = t.start.month \/ (d.month = t.start.month + 1 /\ d.day = t.dueDay)
      BY <1>2, <3>0 DEF Date
    <3> QED
      BY <1>1, <2>1, <2>2, <2>3, <3>1 DEF Before
  <2>4. CASE i # 1
    <3>0. d = Date(t.start.month + i - 1, t.dueDay)
      BY <1>8, <2>0, <2>1, <2>4
    <3>1. d.month = t.start.month + i - 1
      BY <3>0 DEF Date
    <3> QED
      BY <1>1, <2>0, <2>1, <2>2, <3>1 DEF Before
  <2> QED
    BY <2>3, <2>4
<1>10. ~Before(rows[1].due, t.start)
  BY <1>2, <1>8
<1> QED
  BY <1>7, <1>8, <1>9, <1>10 DEF InOrder, rows

\* Rows due when the contract starts, before those of the months.
LEMMA MonthlyGood ==
  ASSUME NEW t, IsTerms(t), NEW n \in Nat \ {0}, NEW first \in Seq(PlanRow),
         NEW kind, kind = BlockingKind(t), t.type # "purchase",
         \A i \in DOMAIN first : /\ first[i].kind \in {"deposit", "option_fee"}
                                /\ first[i].due = t.start /\ first[i].amount >= 0,
         \A i, j \in DOMAIN first : first[i].kind = first[j].kind => i = j
  PROVE  Good(t, first \o Monthly(kind, t, n))
<1>1. PICK rows : rows = Monthly(kind, t, n)
  OBVIOUS
<1>2. /\ rows \in Seq(PlanRow) /\ Len(rows) = n
      /\ \A i \in 1..n : rows[i].kind = kind /\ rows[i].number = i /\ (t.rent >= 0 => rows[i].amount >= 0)
      /\ InOrder(rows) /\ ~Before(rows[1].due, t.start)
  <2>1. kind \in PaymentType
    BY DEF PaymentType, BlockingKind
  <2> QED
    BY <1>1, <2>1, MonthlyFacts
<1>3. PICK k \in Nat : k = Len(first)
  OBVIOUS
<1>4. PICK all : all = first \o rows
  OBVIOUS
<1>5. /\ all \in Seq(PlanRow) /\ Len(all) = k + n /\ DOMAIN all = 1..(k + n) /\ DOMAIN first = 1..k
      /\ \A i \in 1..k : all[i] = first[i]
      /\ \A i \in (k + 1)..(k + n) : i - k \in 1..n /\ all[i] = rows[i - k]
  <2>1. all \in Seq(PlanRow) /\ Len(all) = k + n
    <3>1. rows \in Seq(PlanRow) /\ first \in Seq(PlanRow) /\ Len(rows) = n
      BY <1>2
    <3>2. all \in Seq(PlanRow)
      BY <1>4, <3>1
    <3>3. Len(all) = Len(first) + Len(rows)
      BY <1>4, <3>1, ConcatProperties
    <3> QED
      BY <1>3, <3>1, <3>2, <3>3
  <2>2. \A i \in 1..k : all[i] = first[i]
    BY <1>2, <1>3, <1>4
  <2>3. ASSUME NEW i \in (k + 1)..(k + n) PROVE i - k \in 1..n /\ all[i] = rows[i - k]
    <3>1. i - k \in 1..n /\ i \in 1..(k + n) /\ i > k
      OBVIOUS
    <3> QED
      BY <1>2, <1>3, <1>4, <3>1
  <2> QED
    BY <1>3, <2>1, <2>2, <2>3
<1>6. ASSUME NEW i \in 1..k
      PROVE  all[i].kind \in {"deposit", "option_fee"} /\ all[i].due = t.start /\ all[i].amount >= 0
  BY <1>5
<1>7. ASSUME NEW i \in (k + 1)..(k + n)
      PROVE  /\ all[i].kind = kind /\ all[i].number = i - k /\ (t.rent >= 0 => all[i].amount >= 0)
             /\ all[i].due = rows[i - k].due
  <2>1. i - k \in 1..n /\ all[i] = rows[i - k]
    BY <1>5
  <2> QED
    BY <1>2, <2>1
<1>0. kind \in {"rent", "installment"}
  BY DEF BlockingKind
<1>8. Distinct(all)
  <2> SUFFICES ASSUME NEW i \in 1..(k + n), NEW j \in 1..(k + n), all[i].kind = all[j].kind,
                      all[i].number = all[j].number \/ all[i].kind \in {"deposit", "option_fee"}
               PROVE  i = j
    BY <1>5 DEF Distinct, SamePayment
  <2>1. CASE i \in 1..k /\ j \in 1..k
    BY <1>5, <2>1
  <2>2. CASE i \in (k + 1)..(k + n) /\ j \in (k + 1)..(k + n)
    BY <1>0, <1>7, <2>2
  <2>3. CASE \/ i \in 1..k /\ j \in (k + 1)..(k + n)
             \/ j \in 1..k /\ i \in (k + 1)..(k + n)
    BY <1>0, <1>6, <1>7, <2>3
  <2>4. (i \in 1..k \/ i \in (k + 1)..(k + n)) /\ (j \in 1..k \/ j \in (k + 1)..(k + n))
    OBVIOUS
  <2> QED
    BY <2>1, <2>2, <2>3, <2>4
<1>9. t.rent < 0 \/ \A i \in DOMAIN all : all[i].amount >= 0
  <2>0. t.rent \in Int
    BY DEF IsTerms
  <2> SUFFICES ASSUME t.rent >= 0, NEW i \in 1..(k + n) PROVE all[i].amount >= 0
    BY <1>5, <2>0
  <2> QED
    BY <1>6, <1>7
<1>10. k + 1 \in DOMAIN all /\ all[k + 1].kind = kind /\ all # <<>>
  BY <1>5, <1>7
<1>11. ~Before(t.start, t.start)
  <2>1. IsDate(t.start)
    BY DEF IsTerms
  <2>2. t.start.month \in Int /\ t.start.day \in Int
    BY <2>1 DEF IsDate
  <2> QED
    BY <2>2 DEF Before
<1>12. ASSUME NEW i \in 1..(k + n - 1) PROVE ~Before(all[i + 1].due, all[i].due)
  <2>1. CASE i + 1 <= k
    <3>1. i \in 1..k /\ i + 1 \in 1..k
      BY <2>1
    <3> QED
      BY <1>6, <1>11, <3>1
  <2>2. CASE i = k
    <3>1. all[i].due = t.start
      BY <1>6, <2>2
    <3>2. i + 1 \in (k + 1)..(k + n) /\ (i + 1) - k = 1
      BY <2>2
    <3> QED
      BY <1>2, <1>7, <3>1, <3>2
  <2>3. CASE i > k
    <3>1. i \in (k + 1)..(k + n) /\ i + 1 \in (k + 1)..(k + n)
      BY <2>3
    <3>2. PICK j : j = i - k /\ j \in 1..(n - 1) /\ (i + 1) - k = j + 1
      BY <2>3
    <3>3. ~Before(rows[j + 1].due, rows[j].due)
      BY <1>2, <3>2 DEF InOrder
    <3>4. all[i].due = rows[j].due
      BY <1>7, <3>1, <3>2
    <3>5. all[i + 1].due = rows[j + 1].due
      BY <1>7, <3>1, <3>2
    <3> QED
      BY <3>3, <3>4, <3>5
  <2> QED
    BY <2>1, <2>2, <2>3
<1>13. ~Before(all[1].due, t.start)
  <2>1. CASE k = 0
    BY <1>2, <1>7, <2>1
  <2>2. CASE k # 0
    BY <1>6, <1>11, <2>2
  <2> QED
    BY <2>1, <2>2
<1>14. Sound(t, all)
  BY <1>5, <1>9, <1>12, <1>13 DEF Sound, InOrder
<1>15. Blocks(t, all)
  <2>1. ASSUME NEW i \in DOMAIN all
        PROVE  all[i].kind = kind \/ all[i].kind \in {"deposit", "option_fee"}
    <3>1. i \in 1..k \/ i \in (k + 1)..(k + n)
      BY <1>5
    <3> QED
      BY <1>6, <1>7, <3>1
  <2> QED
    BY <1>10, <2>1 DEF Blocks
<1> QED
  BY <1>1, <1>4, <1>5, <1>8, <1>10, <1>14, <1>15 DEF Good

\* A row at most, of this kind, due when the contract starts.
AtStart(t, kind, rows) ==
    /\ rows \in Seq(PlanRow) /\ Len(rows) \in {0, 1}
    /\ \A i \in DOMAIN rows : rows[i].kind = kind /\ rows[i].due = t.start /\ rows[i].amount >= 0

LEMMA OnceFacts ==
  ASSUME NEW t, IsTerms(t), NEW kind \in PaymentType, NEW amount \in Int
  PROVE  AtStart(t, kind, Once(kind, t.start, amount))
<1>1. t.start \in [month : Int, day : Int]
  BY DEF IsTerms, IsDate
<1>2. PICK row : /\ row = Row(kind, 0, t.start, amount) /\ row \in PlanRow
                 /\ row.kind = kind /\ row.due = t.start /\ row.amount = amount
  <2>1. Row(kind, 0, t.start, amount) \in PlanRow
    BY <1>1 DEF Row, PlanRow
  <2>2. /\ Row(kind, 0, t.start, amount).kind = kind /\ Row(kind, 0, t.start, amount).due = t.start
        /\ Row(kind, 0, t.start, amount).amount = amount
    BY DEF Row
  <2> QED
    BY <2>1, <2>2
<1>3. Once(kind, t.start, amount) = IF amount > 0 THEN <<row>> ELSE <<>>
  BY <1>2 DEF Once
<1> QED
  BY <1>2, <1>3 DEF AtStart

LEMMA MonthlyPlansGood ==
  ASSUME NEW t, IsTerms(t), NEW n \in Nat \ {0}
  PROVE  /\ t.type = "rental" => Good(t, RentPlan(t, n))
         /\ t.type = "lease_to_own" => Good(t, LeasePlan(t, n))
<1>0. t.deposit \in Int /\ t.optionFee \in Int
  BY DEF IsTerms
<1>1. PICK d : d = Once("deposit", t.start, t.deposit)
  OBVIOUS
<1>2. PICK f : f = Once("option_fee", t.start, t.optionFee)
  OBVIOUS
<1>3. AtStart(t, "deposit", d)
  <2>1. "deposit" \in PaymentType
    BY DEF PaymentType
  <2> QED
    BY <1>0, <1>1, <2>1, OnceFacts
<1>4. AtStart(t, "option_fee", f)
  <2>1. "option_fee" \in PaymentType
    BY DEF PaymentType
  <2> QED
    BY <1>0, <1>2, <2>1, OnceFacts
<1>5. CASE t.type = "rental"
  <2>1. /\ \A i \in DOMAIN d : /\ d[i].kind \in {"deposit", "option_fee"} /\ d[i].due = t.start
                               /\ d[i].amount >= 0
        /\ \A i, j \in DOMAIN d : d[i].kind = d[j].kind => i = j
    BY <1>3 DEF AtStart
  <2>2. Good(t, d \o Monthly("rent", t, n))
    BY <1>3, <1>5, <2>1, MonthlyGood DEF AtStart, BlockingKind
  <2> QED
    BY <1>1, <1>5, <2>2 DEF RentPlan
<1>6. CASE t.type = "lease_to_own"
  <2>1. PICK both : both = f \o d
    OBVIOUS
  <2>2. /\ both \in Seq(PlanRow) /\ Len(both) = Len(f) + Len(d)
        /\ \A i \in DOMAIN both : \/ i \in DOMAIN f /\ both[i] = f[i] /\ i = 1
                                  \/ i - Len(f) \in DOMAIN d /\ both[i] = d[i - Len(f)] /\ i = Len(f) + 1
    BY <1>3, <1>4, <2>1 DEF AtStart
  <2>3. /\ \A i \in DOMAIN both : /\ both[i].kind \in {"deposit", "option_fee"} /\ both[i].due = t.start
                                  /\ both[i].amount >= 0
        /\ \A i, j \in DOMAIN both : both[i].kind = both[j].kind => i = j
    BY <1>3, <1>4, <2>2 DEF AtStart
  <2>4. Good(t, both \o Monthly("installment", t, n))
    BY <1>6, <2>2, <2>3, MonthlyGood DEF BlockingKind
  <2> QED
    BY <1>1, <1>2, <1>6, <2>1, <2>4 DEF LeasePlan
<1> QED
  BY <1>5, <1>6

LEMMA DeadlineIsDate == \A t : IsTerms(t) => IsDate(Deadline(t))
<1> SUFFICES ASSUME NEW t, IsTerms(t) PROVE IsDate(Deadline(t))
  OBVIOUS
<1>1. IsDate(AddMonths(t.start, 12))
  BY MonthsAdded DEF IsTerms
<1>2. \A d \in {t.transfer, t.end} : d # Never => IsDate(d)
  BY DEF IsTerms
<1>3. ASSUME NEW d, IsDate(d) PROVE Before(Never, d) /\ ~Before(d, Never)
  BY <1>3 DEF IsDate, Before, Never, Date
<1> QED
  BY <1>1, <1>2, <1>3 DEF Deadline, LaterOf

LEMMA QuotientWhole == \A a \in Int, b \in Nat \ {0} : a \div b \in Int
  OBVIOUS

LEMMA MonthsCounted ==
  ASSUME NEW t, IsTerms(t), NEW asked \in Nat
  PROVE  TotalMonths(t) \in Nat \ {0} /\ ProgressCount(t, asked) \in Nat
<1>1. DayNumber(Deadline(t)) \in Nat /\ DayNumber(t.start) \in Nat
  BY DeadlineIsDate, DayNumberCounts DEF IsTerms
<1>2. PICK n \in Int : n = DayNumber(Deadline(t)) - DayNumber(t.start)
  BY <1>1
<1>3. RoundDiv(n, 30) \in Int
  BY QuotientWhole DEF RoundDiv
<1>4. TotalMonths(t) \in Nat \ {0}
  <2>1. PICK m \in Int : m = RoundDiv(n, 30)
    BY <1>3
  <2>2. Max({1, m}) \in {1, m} /\ Max({1, m}) >= 1
    BY MaxOfTwo
  <2> QED
    BY <1>2, <2>1, <2>2 DEF TotalMonths
<1>5. PICK k \in Int : k = TotalMonths(t) - 1
  BY <1>4
<1>6. PICK m : m = Max({0, k}) /\ m \in Nat
  <2>1. Max({0, k}) \in {0, k} /\ Max({0, k}) >= 0
    BY MaxOfTwo
  <2> QED
    BY <2>1
<1>7. Min({asked, m}) \in {asked, m}
  <2>1. asked \in Int /\ m \in Int
    BY <1>6
  <2> QED
    BY <2>1, MinOfTwo
<1> QED
  BY <1>4, <1>5, <1>6, <1>7 DEF ProgressCount

LEMMA DownPaymentFacts ==
  ASSUME NEW t, IsTerms(t), NEW percent \in 1..100
  PROVE  DownPayment(t, percent) \in Nat /\ (t.down <= t.price => DownPayment(t, percent) <= t.price)
<1>1. t.down \in Nat /\ t.price \in Nat
  BY DEF IsTerms
<1>2. PICK x \in Nat : x = t.price * percent /\ x <= t.price * 100
  BY <1>1
<1>3. x \div 100 \in Nat /\ x \div 100 <= t.price
  BY <1>1, <1>2
<1> QED
  BY <1>1, <1>2, <1>3 DEF DownPayment

\* The sum of a plan is what its rows add up to, taken in any order.
LEMMA SumOfRows ==
  ASSUME NEW rows, IsFiniteSet(DOMAIN rows), NEW e, e[{}] = 0,
         \A s \in SUBSET DOMAIN rows : \A i \in s : e[s] = rows[i].amount + e[s \ {i}]
  PROVE  SumOf(rows) = e[DOMAIN rows]
<1> DEFINE S == DOMAIN rows
           f == [i \in S |-> rows[i].amount]
           g == [s \in SUBSET S |-> e[s]]
           Sums(h) == h = [s \in SUBSET S |->
                 IF s = {} THEN 0 ELSE rows[Pick(s)].amount + h[s \ {Pick(s)}]]
<1>1. \A s \in SUBSET S : s # {} => Pick(s) \in s
  BY DEF Pick
<1>2. Sums(g)
  BY <1>1
<1>3. PICK h : h = (CHOOSE k : Sums(k)) /\ Sums(h)
  <2> HIDE DEF Sums
  <2> QED
    BY <1>2
<1>4. SumOf(rows) = (CHOOSE k : Sums(k))[S]
  BY DEF SumOf, FoldSeq, FoldFunction, FoldFunctionOnSet, MapThenFoldSet, Pick
<1>5. \A s \in SUBSET S : s # {} => f[Pick(s)] = rows[Pick(s)].amount
  BY <1>1
<1>6. ASSUME NEW k, Sums(k) PROVE AddsUp(k, f, S)
  <2>1. k = [s \in SUBSET S |-> IF s = {} THEN 0 ELSE f[Pick(s)] + k[s \ {Pick(s)}]]
    <3> HIDE DEF f, S
    <3> QED
      BY <1>5, <1>6
  <2> QED
    BY <2>1 DEF AddsUp
<1>7. h[S] = g[S]
  <2>1. AddsUp(h, f, S) /\ AddsUp(g, f, S) /\ S \in SUBSET (S \cap S)
    BY <1>2, <1>3, <1>6
  <2> HIDE DEF f, g, S
  <2> QED
    BY <2>1, SameSums DEF S
<1> QED
  BY <1>3, <1>4, <1>7

LEMMA MilestonesGood ==
  ASSUME NEW t, IsTerms(t), t.type = "purchase", NEW percent \in 1..100, NEW asked \in Nat
  PROVE  Good(t, MilestonePlan(t, percent, asked))
<1> DEFINE down == DownPayment(t, percent)
           remaining == t.price - down
           count == ProgressCount(t, asked)
           interval == TotalMonths(t) \div (count + 1)
           part == remaining \div (count + 1)
           due(i) == AddMonths(t.start, i * interval)
           early == {i \in 1..count : \A j \in 1..i : Before(due(j), Deadline(t))}
           done == Max({0} \cup early)
           final == FinalAmount(remaining, count, done)
           head == <<Row("downpayment", 1, t.start, down)>>
           middle == [i \in 1..done |-> Row("installment", i + 1, due(i), part)]
           rest == <<Row("installment", done + 2, Deadline(t), final)>>
           all == head \o middle \o rest
<1>1. MilestonePlan(t, percent, asked) = all
  BY DEF MilestonePlan
<1>2. IsDate(t.start) /\ IsDate(Deadline(t)) /\ t.price \in Nat /\ t.down \in Nat
  BY DeadlineIsDate DEF IsTerms
<1>3. down \in Nat /\ (t.down <= t.price => down <= t.price)
  BY DownPaymentFacts
<1> HIDE DEF down
<1>4. remaining \in Int /\ remaining + down = t.price /\ (t.down <= t.price => remaining >= 0)
  BY <1>2, <1>3
<1> HIDE DEF remaining
<1>5. count \in Nat /\ TotalMonths(t) \in Nat
  BY MonthsCounted
<1> HIDE DEF count
<1>6. interval \in Nat
  <2>1. count + 1 \in Nat \ {0}
    BY <1>5
  <2> QED
    BY <1>5, <2>1, Quotient
<1> HIDE DEF interval
<1>7. part \in Int /\ (remaining >= 0 => part >= 0 /\ (count + 1) * part <= remaining)
  <2>1. count + 1 \in Nat \ {0}
    BY <1>5
  <2>2. remaining >= 0 => remaining \in Nat
    BY <1>4
  <2> QED
    BY <1>4, <2>1, <2>2, Quotient, QuotientWhole
<1> HIDE DEF part
<1>8. ASSUME NEW i \in Nat
      PROVE  /\ due(i) \in [month : Nat, day : 1..31]
             /\ ~Before(due(i + 1), due(i)) /\ ~Before(due(i), t.start)
  <2>1. /\ i * interval \in Nat /\ (i + 1) * interval = i * interval + interval
        /\ interval = 0 => i * interval = 0
    BY <1>6
  <2>2. PICK m \in Nat : m = i * interval
    BY <2>1
  <2>3. PICK d : /\ d = due(i) /\ d \in [month : Nat, day : 1..31] /\ d.month = t.start.month + m
                 /\ m = 0 => d.day = t.start.day
    <3>1. due(i) = AddMonths(t.start, m)
      BY <2>2
    <3>2. /\ AddMonths(t.start, m) \in [month : Nat, day : 1..31]
          /\ AddMonths(t.start, m).month = t.start.month + m
          /\ m = 0 => AddMonths(t.start, m).day = t.start.day
      BY <1>2, <2>2, MonthsAdded
    <3> HIDE DEF due
    <3> QED
      BY <3>1, <3>2
  <2>4. PICK e : /\ e = due(i + 1) /\ e \in [month : Nat, day : 1..31]
                 /\ e.month = t.start.month + (m + interval)
                 /\ m + interval = 0 => e.day = t.start.day
    <3>1. PICK k \in Nat : k = m + interval /\ k = (i + 1) * interval
      BY <1>6, <2>1, <2>2
    <3>2. due(i + 1) = AddMonths(t.start, k)
      BY <3>1
    <3>3. /\ AddMonths(t.start, k) \in [month : Nat, day : 1..31]
          /\ AddMonths(t.start, k).month = t.start.month + k
          /\ k = 0 => AddMonths(t.start, k).day = t.start.day
      BY <1>2, MonthsAdded
    <3> HIDE DEF due
    <3> QED
      BY <3>1, <3>2, <3>3
  <2>5. t.start.month \in Nat /\ t.start.day \in Nat
    BY <1>2 DEF IsDate
  <2> HIDE DEF due
  <2>6. PICK s : s = t.start /\ s.month \in Nat /\ s.day \in Nat
    BY <2>5
  <2>7. d.month = s.month + m /\ (m = 0 => d.day = s.day)
    BY <2>3, <2>6
  <2>8. e.month = s.month + (m + interval) /\ (m + interval = 0 => e.day = s.day)
    BY <2>4, <2>6
  <2>9. ~Before(d, s)
    BY <2>2, <2>3, <2>6, <2>7 DEF Before
  <2>10. ~Before(e, d)
    <3>1. CASE interval = 0
      BY <1>6, <2>1, <2>2, <2>3, <2>4, <2>6, <2>7, <2>8, <3>1 DEF Before
    <3>2. CASE interval # 0
      BY <1>6, <2>2, <2>3, <2>4, <2>6, <2>7, <2>8, <3>2 DEF Before
    <3> QED
      BY <3>1, <3>2
  <2> QED
    BY <2>3, <2>4, <2>6, <2>9, <2>10
<1> HIDE DEF due
<1>9. done \in 0..count /\ \A j \in 1..done : Before(due(j), Deadline(t))
  <2>1. IsFiniteSet(early) /\ early \subseteq 1..count
    <3>1. early \subseteq 1..count
      OBVIOUS
    <3> HIDE DEF early
    <3>2. 1 \in Int /\ count \in Int
      BY <1>5
    <3>3. IsFiniteSet(1..count)
      BY <3>2, FS_Interval
    <3> QED
      BY <3>1, <3>3, FS_Subset
  <2>2. \A i \in early : \A j \in 1..i : Before(due(j), Deadline(t))
    OBVIOUS
  <2> HIDE DEF early
  <2> DEFINE f == [i \in early |-> i]
  <2>3. PICK m \in {f[i] : i \in early} \cup {0} : \A i \in early : f[i] <= m
    <3>1. \A i \in early : f[i] \in Nat
      BY <2>1
    <3> HIDE DEF f
    <3> QED
      BY <2>1, <3>1, GreatestNumber
  <2>4. m \in {0} \cup early /\ \A i \in {0} \cup early : m >= i
    BY <2>1, <2>3
  <2>5. done \in {0} \cup early
    BY <2>4 DEF Max
  <2> HIDE DEF done
  <2>6. CASE done = 0
    BY <1>5, <2>6
  <2>7. CASE done \in early
    BY <1>5, <2>1, <2>2, <2>7
  <2> QED
    BY <2>5, <2>6, <2>7
<1> HIDE DEF early, done
<1>10. final \in Int /\ final + part * done = remaining /\ (remaining >= 0 => final >= 0)
  <2>1. part * done \in Int /\ final = remaining - part * done
    BY <1>4, <1>7, <1>9 DEF FinalAmount, part
  <2>2. ASSUME remaining >= 0 PROVE part * done <= remaining
    <3>1. part \in Nat /\ done \in Nat /\ done <= count + 1
      BY <1>5, <1>7, <1>9, <2>2
    <3>2. part * done <= (count + 1) * part
      BY <1>5, <3>1
    <3> QED
      BY <1>4, <1>5, <1>7, <2>1, <2>2, <3>1, <3>2
  <2> HIDE DEF final
  <2> QED
    BY <1>4, <2>1, <2>2
<1> HIDE DEF final
<1>11. /\ all \in Seq(PlanRow) /\ Len(all) = done + 2 /\ DOMAIN all = 1..(done + 2)
       /\ all[1] = Row("downpayment", 1, t.start, down)
       /\ \A i \in 2..(done + 1) : all[i] = Row("installment", i, due(i - 1), part)
       /\ all[done + 2] = Row("installment", done + 2, Deadline(t), final)
  <2>1. \A d : IsDate(d) => d \in [month : Int, day : Int]
    BY DEF IsDate
  <2>2. /\ Row("downpayment", 1, t.start, down) \in PlanRow
        /\ Row("installment", done + 2, Deadline(t), final) \in PlanRow
    BY <1>2, <1>3, <1>9, <1>10, <2>1 DEF Row, PlanRow, PaymentType
  <2>3. ASSUME NEW i \in 1..done
        PROVE  Row("installment", i + 1, due(i), part) \in PlanRow
    <3>0. i \in Nat
      BY <1>9
    <3>1. PICK d : d = due(i) /\ d \in [month : Nat, day : 1..31]
      BY <1>8, <3>0
    <3>2. d \in [month : Int, day : Int]
      BY <3>1
    <3>3. Row("installment", i + 1, d, part) \in PlanRow
      BY <1>7, <3>0, <3>2 DEF Row, PlanRow, PaymentType
    <3> QED
      BY <3>1, <3>3
  <2>4. middle \in Seq(PlanRow) /\ Len(middle) = done
    BY <1>9, <2>3
  <2>5. \A i \in 1..done : middle[i] = Row("installment", i + 1, due(i), part)
    OBVIOUS
  <2>6. /\ head \in Seq(PlanRow) /\ Len(head) = 1 /\ head[1] = Row("downpayment", 1, t.start, down)
        /\ rest \in Seq(PlanRow) /\ Len(rest) = 1
        /\ rest[1] = Row("installment", done + 2, Deadline(t), final)
    BY <2>2
  <2> HIDE DEF head, middle, rest
  <2>7. /\ head \o middle \in Seq(PlanRow) /\ Len(head \o middle) = done + 1
        /\ \A i \in 1..(done + 1) :
             (head \o middle)[i] = IF i <= 1 THEN head[i] ELSE middle[i - 1]
    <3>1. /\ head \o middle \in Seq(PlanRow) /\ Len(head \o middle) = Len(head) + Len(middle)
          /\ \A i \in 1..(Len(head) + Len(middle)) :
               (head \o middle)[i] = IF i <= Len(head) THEN head[i] ELSE middle[i - Len(head)]
      BY <2>4, <2>6, ConcatProperties
    <3>2. Len(head) + Len(middle) = done + 1
      BY <1>9, <2>4, <2>6
    <3> QED
      BY <2>6, <3>1, <3>2
  <2>8. PICK front : front = head \o middle
    OBVIOUS
  <2>9. /\ all \in Seq(PlanRow) /\ Len(all) = done + 2
        /\ \A i \in 1..(done + 2) : all[i] = IF i <= done + 1 THEN front[i] ELSE rest[i - (done + 1)]
    <3>1. all = front \o rest
      BY <2>8
    <3>2. front \in Seq(PlanRow) /\ Len(front) = done + 1
      BY <2>7, <2>8
    <3> HIDE DEF all
    <3>3. /\ all \in Seq(PlanRow) /\ Len(all) = Len(front) + Len(rest)
          /\ \A i \in 1..(Len(front) + Len(rest)) :
               all[i] = IF i <= Len(front) THEN front[i] ELSE rest[i - Len(front)]
      BY <2>6, <3>1, <3>2, ConcatProperties
    <3>4. Len(front) + Len(rest) = done + 2
      BY <1>9, <2>6, <3>2
    <3> QED
      BY <3>2, <3>3, <3>4
  <2>10. ASSUME NEW i \in 2..(done + 1)
         PROVE  all[i] = Row("installment", i, due(i - 1), part)
    <3>1. i \in 1..(done + 2) /\ i <= done + 1 /\ ~(i <= 1) /\ i - 1 \in 1..done /\ (i - 1) + 1 = i
      BY <1>9
    <3>2. all[i] = middle[i - 1]
      BY <2>7, <2>8, <2>9, <3>1
    <3> QED
      BY <2>5, <3>1, <3>2
  <2>11. all[1] = head[1] /\ all[done + 2] = rest[1]
    <3>1. 1 \in 1..(done + 2) /\ 1 \in 1..(done + 1) /\ 1 <= done + 1
      BY <1>9
    <3>2. done + 2 \in 1..(done + 2) /\ ~(done + 2 <= done + 1) /\ (done + 2) - (done + 1) = 1
      BY <1>9
    <3> HIDE DEF all
    <3>3. all[1] = front[1] /\ front[1] = head[1]
      BY <2>7, <2>8, <2>9, <3>1
    <3>4. all[done + 2] = rest[1]
      BY <2>9, <3>2
    <3> QED
      BY <3>3, <3>4
  <2> HIDE DEF all
  <2> QED
    BY <1>9, <2>6, <2>9, <2>10, <2>11
<1> HIDE DEF all
<1>0. \A kind, number, day, amount :
          /\ Row(kind, number, day, amount).kind = kind /\ Row(kind, number, day, amount).number = number
          /\ Row(kind, number, day, amount).due = day /\ Row(kind, number, day, amount).amount = amount
  BY DEF Row
<1>12. SumOf(all) = t.price
  <2> DEFINE N == 2..(done + 1)
             S == 1..(done + 2)
             top(s) == IF 1 \in s THEN down ELSE 0
             bottom(s) == IF done + 2 \in s THEN final ELSE 0
             e == [s \in SUBSET S |-> top(s) + part * Cardinality(s \cap N) + bottom(s)]
  <2>1. IsFiniteSet(S) /\ IsFiniteSet(N) /\ Cardinality(N) = done
    <3>1. 1 \in Int /\ done + 2 \in Int /\ 2 \in Int /\ done + 1 \in Int
      BY <1>9
    <3>2. IsFiniteSet(S) /\ IsFiniteSet(N)
      BY <3>1, FS_Interval
    <3>3. Cardinality(N) = IF 2 > done + 1 THEN 0 ELSE (done + 1) - 2 + 1
      BY <3>1, FS_Interval
    <3> QED
      BY <1>9, <3>2, <3>3
  <2>2. /\ all[1].amount = down /\ all[done + 2].amount = final
        /\ \A i \in N : all[i].amount = part
    BY <1>0, <1>11
  <2>3. /\ 1 \in S /\ done + 2 \in S /\ 1 \notin N /\ done + 2 \notin N /\ 1 # done + 2
        /\ S \cap N = N /\ \A i \in S : i \in N \/ i = 1 \/ i = done + 2
    BY <1>9
  <2> HIDE DEF S, N
  <2>4. \A s \in SUBSET S : Cardinality(s \cap N) \in Nat
    BY <2>1, FS_Subset, FS_CardinalityType
  <2>5. e[{}] = 0
    <3>1. {} \cap N = {} /\ Cardinality({}) = 0
      BY FS_EmptySet
    <3> QED
      BY <1>7, <3>1
  <2>6. ASSUME NEW s \in SUBSET S, NEW i \in s
        PROVE  e[s] = all[i].amount + e[s \ {i}]
    <3>1. CASE i \in N
      <4>1. Cardinality(s \cap N) = Cardinality((s \ {i}) \cap N) + 1
        <5>1. IsFiniteSet(s \cap N) /\ i \in s \cap N /\ (s \ {i}) \cap N = (s \cap N) \ {i}
          BY <2>1, <3>1, FS_Subset
        <5> QED
          <6>1. Cardinality((s \cap N) \ {i}) = IF i \in s \cap N THEN Cardinality(s \cap N) - 1
                                               ELSE Cardinality(s \cap N)
            BY <5>1, FS_RemoveElement
          <6>2. PICK k \in Nat : k = Cardinality(s \cap N)
            BY <2>4
          <6>3. Cardinality((s \ {i}) \cap N) = k - 1
            BY <5>1, <6>1, <6>2
          <6> QED
            BY <6>2, <6>3
      <4>2. PICK k \in Nat : k = Cardinality((s \ {i}) \cap N)
        BY <2>4
      <4>3. PICK p \in Int : p = part * k /\ part * (k + 1) = part + p
        BY <1>7
      <4>4. PICK x \in Int, y \in Int : x = top(s) /\ y = bottom(s)
        BY <1>3, <1>10
      <4>5. top(s \ {i}) = x /\ bottom(s \ {i}) = y
        BY <2>3, <3>1, <4>4
      <4>6. e[s] = x + (part + p) + y /\ e[s \ {i}] = x + p + y
        <5> HIDE DEF top, bottom
        <5> QED
          BY <4>1, <4>2, <4>3, <4>4, <4>5
      <4>7. all[i].amount = part
        BY <2>2, <3>1
      <4> HIDE DEF e
      <4> QED
        BY <1>7, <4>3, <4>4, <4>6, <4>7
    <3>2. CASE i \notin N
      <4>1. (s \ {i}) \cap N = s \cap N
        BY <3>2
      <4>2. PICK k \in Int : k = part * Cardinality(s \cap N)
        BY <1>7, <2>4
      <4>3. e[s] = top(s) + k + bottom(s) /\ e[s \ {i}] = top(s \ {i}) + k + bottom(s \ {i})
        <5> HIDE DEF top, bottom
        <5> QED
          BY <4>1, <4>2
      <4>4. CASE i = 1
        <5>1. top(s) = down /\ top(s \ {i}) = 0 /\ bottom(s \ {i}) = bottom(s) /\ bottom(s) \in Int
          BY <1>10, <2>3, <4>4
        <5> HIDE DEF e, top, bottom
        <5> QED
          BY <1>3, <2>2, <4>2, <4>3, <4>4, <5>1
      <4>5. CASE i = done + 2
        <5>1. bottom(s) = final /\ bottom(s \ {i}) = 0 /\ top(s \ {i}) = top(s) /\ top(s) \in Int
          BY <1>3, <2>3, <4>5
        <5> HIDE DEF e, top, bottom
        <5> QED
          BY <1>10, <2>2, <4>2, <4>3, <4>5, <5>1
      <4> QED
        BY <2>3, <3>2, <4>4, <4>5
    <3> QED
      BY <3>1, <3>2
  <2>7. e[S] = t.price
    <3>1. e[S] = down + part * done + final
      BY <2>1, <2>3
    <3>2. PICK k \in Int : k = part * done
      BY <1>7, <1>9
    <3> QED
      BY <1>2, <1>3, <1>4, <1>10, <3>1, <3>2
  <2> HIDE DEF e
  <2>8. SumOf(all) = e[DOMAIN all]
    BY <1>11, <2>1, <2>5, <2>6, SumOfRows DEF S
  <2> QED
    BY <1>11, <2>7, <2>8 DEF S
<1>13. /\ all[1].due = t.start /\ all[1].kind = "downpayment" /\ all[1].amount = down
       /\ \A i \in 2..(done + 1) : /\ all[i].due = due(i - 1) /\ all[i].number = i
                                   /\ all[i].kind = "installment" /\ all[i].amount = part
       /\ all[done + 2].due = Deadline(t) /\ all[done + 2].number = done + 2
       /\ all[done + 2].kind = "installment" /\ all[done + 2].amount = final
  BY <1>0, <1>11
<1>14. \A i \in DOMAIN all : i = 1 \/ i \in 2..(done + 1) \/ i = done + 2
  BY <1>9, <1>11
<1>15. Distinct(all)
  <2>1. \A i \in DOMAIN all : i # 1 => all[i].number = i /\ all[i].kind = "installment"
    BY <1>13, <1>14
  <2> QED
    BY <1>13, <2>1 DEF Distinct, SamePayment
<1>16. t.down > t.price \/ \A i \in DOMAIN all : all[i].amount >= 0
  <2>1. t.down <= t.price => down >= 0 /\ part >= 0 /\ final >= 0
    BY <1>3, <1>4, <1>7, <1>10
  <2> QED
    BY <1>2, <1>13, <1>14, <2>1
<1>17. ~Before(t.start, t.start)
  BY <1>2 DEF IsDate, Before
<1>18. ASSUME ~Before(Deadline(t), t.start), NEW i \in 1..(done + 1)
       PROVE  ~Before(all[i + 1].due, all[i].due)
  <2>1. CASE done = 0
    <3>1. i = 1 /\ i + 1 = done + 2
      BY <2>1
    <3> QED
      BY <1>13, <1>18, <3>1
  <2>2. CASE done # 0 /\ i = 1
    <3>1. i + 1 \in 2..(done + 1) /\ (i + 1) - 1 = 1
      BY <1>9, <2>2
    <3> QED
      BY <1>8, <1>13, <2>2, <3>1
  <2>3. CASE done # 0 /\ i \in 2..done
    <3>1. i + 1 \in 2..(done + 1) /\ i \in 2..(done + 1)
      BY <1>9, <2>3
    <3>2. PICK j \in Nat : j = i - 1 /\ (i + 1) - 1 = j + 1
      BY <3>1
    <3>3. all[i].due = due(j) /\ all[i + 1].due = due(j + 1)
      BY <1>13, <3>1, <3>2
    <3> QED
      BY <1>8, <3>2, <3>3
  <2>4. CASE done # 0 /\ i = done + 1
    <3>1. i \in 2..(done + 1) /\ i - 1 = done /\ i + 1 = done + 2 /\ done \in 1..done /\ done \in Nat
      BY <1>9, <2>4
    <3>2. Before(due(done), Deadline(t)) /\ due(done) \in [month : Nat, day : 1..31]
      BY <1>8, <1>9, <3>1
    <3>3. ~Before(Deadline(t), due(done))
      BY <1>2, <3>2 DEF Before, IsDate
    <3> QED
      BY <1>13, <3>1, <3>3
  <2> QED
    BY <1>9, <2>1, <2>2, <2>3, <2>4
<1>19. Sound(t, all)
  <2>1. Len(all) - 1 = done + 1
    BY <1>9, <1>11
  <2> QED
    BY <1>12, <1>13, <1>16, <1>17, <1>18, <2>1 DEF Sound, InOrder
<1> QED
  BY <1>1, <1>9, <1>11, <1>15, <1>19 DEF Good, Blocks

\* A plan generated for terms a contract may be on.
LEMMA PlanGood ==
  ASSUME NEW t, IsTerms(t), NEW count \in Nat \ {0}, NEW percent \in 1..100
  PROVE  Good(t, PlanOf(t, count, percent))
  BY MonthlyPlansGood, MilestonesGood DEF PlanOf, IsTerms

-----------------------------------------------------------------------------
(* What a contract is on stays terms, of the same type *)

Sames(t, new) == IsTerms(new) /\ new.type = t.type

LEMMA EndChanged ==
  ASSUME NEW t, IsTerms(t), NEW d, d = Never \/ IsDate(d), NEW new, new = [t EXCEPT !.end = d]
  PROVE  Sames(t, new)
<1>1. d \in [month : Int, day : Nat]
  BY DEF IsDate, Never, Date
<1>2. /\ new.start = t.start /\ new.transfer = t.transfer /\ new.end = d /\ new.type = t.type
      /\ new \in [type : {"rental", "lease_to_own", "purchase"}, start : [month : Nat, day : 1..31],
              dueDay : 1..28, rent : Int, deposit : Int, optionFee : Nat, price : Nat, down : Nat,
              transfer : [month : Int, day : Nat], end : [month : Int, day : Nat]]
  BY <1>1 DEF IsTerms
<1> QED
  BY <1>2 DEF IsTerms, Sames

LEMMA AmountsChanged ==
  ASSUME NEW t, IsTerms(t), NEW rent \in Int, NEW deposit \in Int, NEW new,
         new = [t EXCEPT !.rent = rent, !.deposit = deposit]
  PROVE  Sames(t, new)
<1>1. /\ new.start = t.start /\ new.transfer = t.transfer /\ new.end = t.end /\ new.type = t.type
      /\ new \in [type : {"rental", "lease_to_own", "purchase"}, start : [month : Nat, day : 1..31],
              dueDay : 1..28, rent : Int, deposit : Int, optionFee : Nat, price : Nat, down : Nat,
              transfer : [month : Int, day : Nat], end : [month : Int, day : Nat]]
  BY DEF IsTerms
<1> QED
  BY <1>1 DEF IsTerms, Sames

LEMMA AmendedSound ==
  ASSUME NEW t, IsTerms(t), area \in Areas, NEW new \in Amendments
  PROVE  Sames(t, Amended(t, new))
<1>1. PICK d, rent, deposit : /\ d = Given(new.end, t.end) /\ rent = Given(new.rent, t.rent)
                              /\ deposit = Given(new.deposit, t.deposit)
  OBVIOUS
<1>2. /\ t.end = Never \/ IsDate(t.end)
      /\ t.rent \in Int /\ t.deposit \in Int
  BY DEF IsTerms
<1>3. /\ \A e \in Ends[area] : IsDate(e)
      /\ Rents[area] \cup Deposits[area] \subseteq Int
  BY ContractAssumption
<1>4. d = Never \/ IsDate(d)
  BY <1>1, <1>2, <1>3 DEF Given, Amendments
<1>5. rent \in Int /\ deposit \in Int
  BY <1>1, <1>2, <1>3 DEF Given, Amendments
<1>6. PICK half : half = [t EXCEPT !.end = d]
  OBVIOUS
<1>7. Sames(t, half)
  BY <1>4, <1>6, EndChanged
<1>8. PICK whole : whole = [half EXCEPT !.rent = rent, !.deposit = deposit]
  OBVIOUS
<1>9. Sames(half, whole)
  <2>1. IsTerms(half)
    BY <1>7 DEF Sames
  <2> QED
    BY <1>5, <1>8, <2>1, AmountsChanged
<1>10. Amended(t, new) = whole
  BY <1>1, <1>6, <1>8 DEF Amended, IsTerms
<1> QED
  BY <1>7, <1>9, <1>10 DEF Sames

-----------------------------------------------------------------------------
(* Plans of contracts *)

\* What ScheduledOnce says of two rows of a contract.
Excusable(c, i, j) ==
    \/ Raced(c) \/ plan[c][j].byHand
    \/ /\ plan[c][i].kind \in {"deposit", "option_fee"}
       /\ contract[c].terms.type # "purchase"
       /\ plan[c][i].byHand \/ c \in thinned

OnceFor(c) ==
    \A i, j \in DOMAIN plan[c] :
        i < j /\ SamePayment(plan[c][i], plan[c][j]) => Excusable(c, i, j)

\* What was generated keeps a plan from being generated again.
Kept(c) ==
    Raced(c) \/ c \in thinned \/ (\A i \in DOMAIN plan[c] : plan[c][i].byHand) \/ Blocking(c) # {}

\* A plan nobody changed is as it was generated.
AsGenerated(c) ==
    \/ Raced(c) \/ c \in altered \/ plan[c] = <<>>
    \/ Good(basis[c], plan[c]) /\ basis[c].type = contract[c].terms.type

PlanOK(c) ==
    /\ IF Signed(c) THEN IsTerms(contract[c].terms) ELSE plan[c] = <<>>
    /\ OnceFor(c) /\ Kept(c) /\ AsGenerated(c)

\* A request that generates has found nothing in the way, and holds a plan of
\* terms of the contract's type.
Found(c, seen) ==
    /\ Raced(c) \/ Blocking(c) = {}
    /\ IsTerms(seen.terms) /\ seen.terms.type = contract[c].terms.type
    /\ Good(seen.terms, seen.rows)

PlanTask(r) ==
    /\ \A c \in Contracts : c \in task[r].on => Signed(c)
    /\ At(r, "plan") \/ At(r, "generate") => task[r].row \in Contracts /\ task[r].row \in task[r].on
    /\ At(r, "plan") => task[r].seen \in Nat \ {0} /\ task[r].kind \in 1..100
    /\ At(r, "generate") => Found(task[r].row, task[r].seen)

PlanInv ==
    /\ ContractInv /\ area \in Areas
    /\ plan \in [Contracts -> Seq(PlanRow)] /\ basis = [c \in Contracts |-> basis[c]]
    /\ \A c \in Contracts : PlanOK(c)
    /\ area \in ContractAreas => /\ \A c \in Contracts : Exclusive(c)
                                 /\ \A r \in Requests : PlanTask(r)

LEMMA NothingPlanned ==
  ASSUME NEW c, plan[c] = <<>>, Signed(c) => IsTerms(contract[c].terms)
  PROVE  PlanOK(c)
<1>1. DOMAIN plan[c] = {}
  OBVIOUS
<1> QED
  BY <1>1 DEF PlanOK, OnceFor, Kept, AsGenerated

\* The task of generating the plan of a contract just signed.
LEMMA AfterSigningFacts ==
  ASSUME NEW a, NEW c, NEW t
  PROVE  LET new == AfterSigning(a, c, t)
         IN  /\ Shape(new) /\ new.op = "plan" /\ new.on = {a, c} /\ new.row = c
             /\ new.seen \in Nat \ {0} /\ new.kind \in 1..100
<1>1. /\ SigningCount \in Nat \ {0} /\ SigningMonths \in Nat \ {0} /\ SigningPercent \in 1..100
  BY ContractAssumption
<1>2. PICK m : m = IF t.type = "purchase" THEN SigningCount ELSE SigningMonths
  OBVIOUS
<1>3. m \in Nat \ {0}
  BY <1>1, <1>2
<1>4. AfterSigning(a, c, t) =
        [op |-> "plan", on |-> {a, c}, row |-> c, kind |-> SigningPercent, seen |-> m]
  BY <1>2 DEF AfterSigning
<1> QED
  BY <1>1, <1>3, <1>4 DEF Shape

LEMMA PlansInit == OfficeInit => PlanInv
<1> SUFFICES ASSUME OfficeInit PROVE PlanInv
  OBVIOUS
<1>1. /\ ContractInv /\ area \in Areas /\ plan = [c \in Contracts |-> <<>>]
      /\ basis = [c \in Contracts |-> basis[c]]
  BY ContractsInit DEF OfficeInit, ContractInit, RequestInit
<1>2. plan \in [Contracts -> Seq(PlanRow)] /\ \A c \in Contracts : plan[c] = <<>>
  BY <1>1
<1>3. CASE area \notin {"plans", "schedules"}
  <2>1. contract = [c \in Contracts |-> NoContract] /\ task = [r \in Requests |-> Idle]
    BY <1>3 DEF OfficeInit, ContractInit
  <2>2. \A c \in Contracts : ~Signed(c)
    BY <2>1 DEF Signed, NoContract
  <2>3. \A r \in Requests : task[r].on = {} /\ task[r].op = "idle"
    BY <2>1 DEF Idle
  <2>4. (\A c \in Contracts : Exclusive(c)) /\ \A r \in Requests : PlanTask(r)
    BY <2>3 DEF Exclusive, PlanTask, At
  <2> QED
    BY <1>1, <1>2, <2>2, <2>4, NothingPlanned DEF PlanInv
<1>4. CASE area \in {"plans", "schedules"}
  <2> DEFINE first == CHOOSE c \in Contracts : TRUE
             maker == CHOOSE s \in Requests : TRUE
  <2>1. PICK b \in Apartments, t \in Terms[area] :
          /\ contract = [c \in Contracts |-> IF c = first THEN NewlySigned(b, NoRow, t) ELSE NoContract]
          /\ task = [q \in Requests |-> IF q = maker THEN AfterSigning(b, first, t) ELSE Idle]
    BY <1>4 DEF OfficeInit, ContractInit
  <2>2. first \in Contracts /\ b \notin Contracts /\ IsTerms(t)
    BY <1>1, ContractAssumption
  <2> HIDE DEF first, maker
  <2>3. \A c \in Contracts : contract[c] = IF c = first THEN NewlySigned(b, NoRow, t) ELSE NoContract
    BY <2>1
  <2>4. \A c \in Contracts : /\ Signed(c) <=> c = first
                             /\ Signed(c) => contract[c].terms = t
    BY <2>3 DEF Signed, NewlySigned, NoContract
  <2>5. PICK new : /\ new = AfterSigning(b, first, t) /\ new.op = "plan" /\ new.on = {b, first}
                   /\ new.row = first /\ new.seen \in Nat \ {0} /\ new.kind \in 1..100
    BY AfterSigningFacts
  <2>6. \A q \in Requests : /\ q = maker => task[q] = new
                            /\ q # maker => task[q].on = {} /\ task[q].op = "idle"
    BY <2>1, <2>5 DEF Idle
  <2>7. ASSUME NEW r \in Requests PROVE PlanTask(r)
    <3>1. CASE r = maker
      BY <2>2, <2>4, <2>5, <2>6, <3>1 DEF PlanTask, At
    <3>2. CASE r # maker
      BY <2>6, <3>2 DEF PlanTask, At
    <3> QED
      BY <3>1, <3>2
  <2>8. \A c \in Contracts : Exclusive(c)
    BY <2>6 DEF Exclusive
  <2> QED
    BY <1>1, <1>2, <2>2, <2>4, <2>7, <2>8, NothingPlanned DEF PlanInv
<1> QED
  BY <1>3, <1>4

-----------------------------------------------------------------------------
(* Every step leaves the plans so *)

\* A contract whose rows a statement leaves alone, and whose terms stay of their
\* type.
Undisturbed(c) ==
    /\ plan'[c] = plan[c] /\ basis'[c] = basis[c]
    /\ Signed(c) => /\ Signed(c)' /\ IsTerms(contract'[c].terms)
                    /\ contract'[c].terms.type = contract[c].terms.type
    /\ ~Signed(c) /\ Signed(c)' => IsTerms(contract'[c].terms)

LEMMA PlanStays ==
  ASSUME raced \subseteq raced', thinned \subseteq thinned', altered \subseteq altered',
         NEW c, PlanOK(c), Undisturbed(c)
  PROVE  PlanOK(c)'
<1>1. CASE ~Signed(c)
  <2>1. plan'[c] = <<>> /\ DOMAIN plan'[c] = {}
    BY <1>1 DEF PlanOK, Undisturbed
  <2> QED
    BY <1>1, <2>1 DEF PlanOK, Undisturbed, OnceFor, Kept, AsGenerated
<1>2. CASE Signed(c)
  <2>1. PICK rows, type : /\ rows = plan[c] /\ rows = plan'[c] /\ type = contract[c].terms.type
                          /\ type = contract'[c].terms.type
    BY <1>2 DEF Undisturbed
  <2>2. OnceFor(c)'
    BY <2>1 DEF PlanOK, OnceFor, Excusable, Raced
  <2>3. Blocking(c)' = Blocking(c)
    BY <2>1 DEF Blocking
  <2>4. Kept(c)'
    BY <2>1, <2>3 DEF PlanOK, Kept, Raced
  <2>5. AsGenerated(c)'
    BY <2>1 DEF PlanOK, AsGenerated, Undisturbed, Raced
  <2> QED
    BY <1>2, <2>2, <2>4, <2>5 DEF PlanOK, Undisturbed
<1> QED
  BY <1>1, <1>2

\* What a statement may do to the plans: no other request relies on those it
\* changes.
LEMMA PlansStay ==
  ASSUME PlanInv, ContractInv', area' = area, raced \subseteq raced', thinned \subseteq thinned',
         altered \subseteq altered', plan' \in [Contracts -> Seq(PlanRow)],
         basis' = [c \in Contracts |-> basis'[c]],
         \A c \in Contracts : Signed(c) => Signed(c)' /\ contract'[c].terms.type = contract[c].terms.type,
         \A c \in Contracts : PlanOK(c)' \/ Undisturbed(c),
         area \in ContractAreas =>
           /\ \A c \in Contracts : Exclusive(c)'
           /\ \A q \in Requests :
                \/ PlanTask(q)'
                \/ /\ task'[q] = task[q]
                   /\ \A c \in Contracts : c \in task[q].on => plan'[c] = plan[c] \/ Raced(c)'
  PROVE  PlanInv'
<1>1. \A c \in Contracts : PlanOK(c)'
  BY PlanStays DEF PlanInv
<1>2. ASSUME area \in ContractAreas, NEW q \in Requests, task'[q] = task[q],
             \A c \in Contracts : c \in task[q].on => plan'[c] = plan[c] \/ Raced(c)'
      PROVE  PlanTask(q)'
  <2>1. PlanTask(q)
    BY <1>2 DEF PlanInv
  <2>2. PICK u : u = task[q] /\ task'[q] = u
    BY <1>2
  <2>3. \A c \in Contracts : c \in u.on => Signed(c)'
    BY <2>1, <2>2 DEF PlanTask
  <2>4. ASSUME u.op = "generate" PROVE Found(u.row, u.seen)'
    <3>1. PICK c \in Contracts : c = u.row /\ c \in u.on /\ Signed(c) /\ Found(c, u.seen)
      BY <2>1, <2>2, <2>4 DEF PlanTask, At
    <3>2. contract'[c].terms.type = contract[c].terms.type
      BY <3>1
    <3>3. Raced(c)' \/ Blocking(c)' = {}
      <4>1. CASE plan'[c] = plan[c]
        <5>1. Blocking(c)' = Blocking(c)
          BY <3>2, <4>1 DEF Blocking
        <5> QED
          BY <3>1, <5>1 DEF Found, Raced
      <4> QED
        BY <1>2, <2>2, <3>1, <4>1
    <3> QED
      BY <3>1, <3>2, <3>3 DEF Found
  <2> QED
    BY <2>1, <2>2, <2>3, <2>4 DEF PlanTask, At
<1> QED
  BY <1>1, <1>2 DEF PlanInv

\* The statements that a request begins with.
LEMMA PlansOpen ==
  ASSUME PlanInv, ContractInv', area \in ContractAreas, area' = area, raced \subseteq raced',
         NEW r \in Requests,
         \/ \E a \in Apartments : OpenSigning(r, a)
         \/ \E c \in Contracts : \/ OpenTermination(r, c)
                                 \/ \E count \in Counts[area], percent \in Percents :
                                      OpenGeneration(r, c, count, percent)
         \/ ValidateContract(r)
  PROVE  PlanInv'
<1>1. ASSUME UNCHANGED contractVars, \A c \in Contracts : Exclusive(c)',
             \A q \in Requests : task'[q] = task[q] \/ PlanTask(q)'
      PROVE  PlanInv'
  <2>1. UNCHANGED <<plan, basis, contract, thinned, altered>>
    BY <1>1 DEF contractVars
  <2>2. \A c \in Contracts : Undisturbed(c)
    BY <2>1 DEF Undisturbed, Signed, PlanInv, PlanOK
  <2> QED
    BY <1>1, <2>1, <2>2, PlansStay DEF PlanInv, Signed
<1>2. ASSUME NEW a, NEW new, Shape(new), Open(r, a, new), UNCHANGED contractVars,
             \A c \in Contracts : c \in new.on => Signed(c),
             new.op # "generate",
             new.op = "plan" => /\ new.row \in Contracts /\ new.row \in new.on
                                /\ new.seen \in Nat \ {0} /\ new.kind \in 1..100
      PROVE  PlanInv'
  <2>1. /\ task'[r] = new /\ \A q \in Requests : q # r => task'[q] = task[q]
        /\ \A o \in Contracts : Exclusive(o)'
    BY <1>2, OpenFacts, OpenExclusive DEF Becomes, PlanInv, ContractInv, InArea, Fits
  <2>2. PlanTask(r)'
    BY <1>2, <2>1 DEF PlanTask, At, Signed, contractVars
  <2> QED
    BY <1>1, <1>2, <2>1, <2>2
<1>3. ASSUME NEW a \in Apartments, OpenSigning(r, a) PROVE PlanInv'
  <2>1. PICK new : /\ Open(r, {"contracts"}, new)
                   /\ new = [Idle EXCEPT !.op = "sign", !.on = {a}, !.row = a]
    BY <1>3, Zenon DEF OpenSigning
  <2>2. Shape(new) /\ new.op = "sign" /\ new.on = {a} /\ a \notin Contracts
    BY <2>1, ContractAssumption DEF Shape, Idle
  <2>3. UNCHANGED contractVars
    BY <1>3, Zenon DEF OpenSigning
  <2> HIDE DEF OpenSigning
  <2> QED
    BY <1>2, <2>1, <2>2, <2>3
<1>4. ASSUME NEW c \in Contracts, OpenTermination(r, c) PROVE PlanInv'
  <2>1. PICK new : /\ Open(r, {"contracts"}, new)
                   /\ new = [Idle EXCEPT !.op = "terminate", !.row = c,
                                         !.on = {contract[c].apartment}]
    BY <1>4, Zenon DEF OpenTermination
  <2>2. Shape(new) /\ new.op = "terminate" /\ new.on = {contract[c].apartment}
    BY <2>1 DEF Shape, Idle
  <2>3. contract[c].status = "active" /\ UNCHANGED contractVars
    BY <1>4, Zenon DEF OpenTermination
  <2>4. contract[c].apartment \in Apartments
    BY <2>3 DEF PlanInv, ContractInv, Signed
  <2>5. contract[c].apartment \notin Contracts
    BY <2>4, ContractAssumption
  <2> QED
    BY <1>2, <2>1, <2>2, <2>3, <2>5
<1>5. ASSUME NEW c \in Contracts, NEW count \in Counts[area], NEW percent \in Percents,
             OpenGeneration(r, c, count, percent)
      PROVE  PlanInv'
  <2>1. PICK new : /\ Open(r, {"contracts", "plans", "schedules"}, new)
                   /\ new = [op |-> "plan", on |-> {c}, row |-> c, seen |-> count, kind |-> percent]
    BY <1>5 DEF OpenGeneration
  <2>2. count \in Nat \ {0} /\ percent \in 1..100
    BY ContractAssumption DEF PlanInv
  <2>3. /\ Shape(new) /\ new.op = "plan" /\ new.on = {c} /\ new.row = c
        /\ new.seen \in Nat \ {0} /\ new.kind \in 1..100
    BY <2>1, <2>2 DEF Shape
  <2> QED
    BY <1>2, <1>5, <2>1, <2>3 DEF OpenGeneration
<1>6. ASSUME ValidateContract(r) PROVE PlanInv'
  <2>0. PICK u, c, t : u = task[r] /\ c = u.row /\ t = contract[c].terms
    OBVIOUS
  <2>1. /\ PlanTask(r) /\ u.op = "plan" /\ TasksOK /\ Shape(u) /\ UNCHANGED contractVars
        /\ c \in Contracts /\ c \in u.on /\ Signed(c) /\ IsTerms(t)
        /\ u.seen \in Nat \ {0} /\ u.kind \in 1..100
    <3>1. u.op = "plan" /\ UNCHANGED contractVars
      BY <1>6, <2>0 DEF ValidateContract, At
    <3>2. PlanTask(r) /\ TasksOK /\ Shape(u)
      BY <2>0 DEF PlanInv, ContractInv, InArea, Fits, TasksOK
    <3>3. c \in Contracts /\ c \in u.on /\ Signed(c) /\ u.seen \in Nat \ {0} /\ u.kind \in 1..100
      BY <2>0, <3>1, <3>2 DEF PlanTask, At
    <3> QED
      BY <2>0, <3>1, <3>2, <3>3 DEF PlanInv, PlanOK
  <2>2. CASE Close(r)
    <3>1. /\ task'[r] = Idle /\ \A q \in Requests : q # r => task'[q] = task[q]
          /\ \A o \in Contracts : Exclusive(o)'
      BY <2>1, <2>2, CloseFacts DEF Becomes, PlanInv
    <3>2. PlanTask(r)'
      BY <3>1 DEF PlanTask, At, Idle
    <3> QED
      BY <1>1, <2>1, <3>1, <3>2
  <2>3. ASSUME Blocking(c) = {}, NEW seen, seen = [terms |-> t, rows |-> PlanOf(t, u.seen, u.kind)],
               Proceed(r, [u EXCEPT !.op = "generate", !.seen = seen])
        PROVE  PlanInv'
    <3>1. PICK v : v = [u EXCEPT !.op = "generate", !.seen = seen]
      OBVIOUS
    <3>2. Shape(v) /\ v.op = "generate" /\ v.row = c /\ v.on = u.on /\ v.seen = seen
      BY <2>0, <2>1, <3>1 DEF Shape
    <3>3. /\ task'[r] = v /\ \A q \in Requests : q # r => task'[q] = task[q]
          /\ \A o \in Contracts : Exclusive(o)'
      BY <2>0, <2>1, <2>3, <3>1, <3>2, ProceedFacts, ProceedExclusive DEF Becomes, PlanInv
    <3>4. Found(c, seen)'
      <4>1. seen.terms = t /\ seen.rows = PlanOf(t, u.seen, u.kind)
        BY <2>3
      <4>2. Good(t, seen.rows)
        BY <2>1, <4>1, PlanGood
      <4>3. contract' = contract /\ plan' = plan
        BY <2>1 DEF contractVars
      <4>4. Blocking(c)' = {}
        BY <2>3, <4>3 DEF Blocking
      <4> QED
        BY <2>0, <2>1, <4>1, <4>2, <4>3, <4>4 DEF Found
    <3>5. PlanTask(r)'
      BY <2>0, <2>1, <3>2, <3>3, <3>4 DEF PlanTask, At, Signed, contractVars
    <3> QED
      BY <1>1, <2>1, <3>3, <3>5
  <2> QED
    BY <1>6, <2>0, <2>2, <2>3 DEF ValidateContract
<1> QED
  BY <1>3, <1>4, <1>5, <1>6

\* A new contract, of which nobody has read anything.
LEMMA PlansSigned ==
  ASSUME PlanInv, ContractInv', area \in ContractAreas, area' = area, raced \subseteq raced',
         NEW r \in Requests, NEW n, SignContract(r, n)
  PROVE  PlanInv'
<1>0. PICK a, c : a = task[r].row /\ c = NewContract
  OBVIOUS
<1>1. PICK t \in Terms[area] :
        /\ contract' = [contract EXCEPT ![c] = NewlySigned(a, n, t)]
        /\ Proceed(r, AfterSigning(a, c, t))
        /\ UNCHANGED <<plan, basis, thinned, altered>>
  BY <1>0 DEF SignContract
<1>2. c \in Contracts /\ ~Signed(c)
  BY <1>0 DEF SignContract, NewContract
<1>3. a \in Apartments /\ a \notin Contracts
  BY <1>0, ContractAssumption DEF SignContract, PlanInv, ContractInv, ContractTask
<1>4. PICK new : /\ new = AfterSigning(a, c, t) /\ Shape(new) /\ new.op = "plan" /\ new.on = {a, c}
                 /\ new.row = c /\ new.seen \in Nat \ {0} /\ new.kind \in 1..100
  BY AfterSigningFacts
<1>5. task'[r] = new /\ \A q \in Requests : q # r => task'[q] = task[q]
  BY <1>1, <1>4, ProceedFacts DEF Becomes, PlanInv, ContractInv, InArea, Fits
<1>6. /\ contract'[c].status = "active" /\ contract'[c].terms = t
      /\ \A d \in Contracts : d # c => contract'[d] = contract[d]
  BY <1>1, <1>2 DEF PlanInv, ContractInv, NewlySigned
<1>7. IsTerms(t)
  BY ContractAssumption DEF PlanInv
<1>8. ASSUME NEW d \in Contracts
      PROVE  Undisturbed(d) /\ (Signed(d) => contract'[d].terms.type = contract[d].terms.type)
  BY <1>1, <1>2, <1>6, <1>7 DEF Signed, Undisturbed, PlanInv, PlanOK
<1>9. PlanTask(r)'
  BY <1>2, <1>3, <1>4, <1>5, <1>6 DEF PlanTask, At, Signed
<1>10. ASSUME NEW d \in Contracts PROVE Exclusive(d)'
  <2>1. CASE d # c
    BY <1>1, <1>3, <1>4, <2>1, ProceedExclusive DEF PlanInv, ContractInv, InArea, Fits
  <2>2. CASE d = c
    <3>1. \A q \in Requests : q # r => c \notin task'[q].on
      BY <1>2, <1>5 DEF PlanInv, PlanTask
    <3> QED
      BY <2>2, <3>1 DEF Exclusive
  <2> QED
    BY <2>1, <2>2
<1> QED
  BY <1>1, <1>5, <1>8, <1>9, <1>10, PlansStay DEF PlanInv, Undisturbed

\* Blocking, of any rows.
BlockingRows(type, rows) ==
    CASE type = "rental" -> {i \in DOMAIN rows : rows[i].kind = "rent"}
      [] type = "lease_to_own" -> {i \in DOMAIN rows : rows[i].kind = "installment"}
      [] OTHER -> DOMAIN rows

LEMMA GoodBlocks ==
  ASSUME NEW t, IsTerms(t), NEW rows, Good(t, rows)
  PROVE  /\ BlockingRows(t.type, rows) # {}
         /\ \A i \in DOMAIN rows :
              rows[i].kind \in {"deposit", "option_fee"} \/ i \in BlockingRows(t.type, rows)
<1>1. t.type \in {"rental", "lease_to_own", "purchase"}
  BY DEF IsTerms
<1>2. DOMAIN rows # {}
  <2>1. rows \in Seq(PlanRow) /\ rows # <<>>
    BY DEF Good
  <2>2. Len(rows) \in Nat /\ Len(rows) # 0 /\ DOMAIN rows = 1..Len(rows)
    BY <2>1, EmptySeq
  <2>3. 1 \in DOMAIN rows
    BY <2>2
  <2> QED
    BY <2>3
<1> QED
  BY <1>1, <1>2 DEF Good, Blocks, BlockingKind, BlockingRows

\* The plan generated is the one of the terms read, or two requests had the
\* contract in hand.
LEMMA PlansGenerated ==
  ASSUME PlanInv, ContractInv', area \in ContractAreas, area' = area, raced \subseteq raced',
         NEW r \in Requests, GenerateSchedules(r)
  PROVE  PlanInv'
<1>0. PICK u, c, seen : u = task[r] /\ c = u.row /\ seen = u.seen
  OBVIOUS
<1>1. /\ plan' = [plan EXCEPT ![c] = @ \o seen.rows] /\ Close(r) /\ u.op = "generate"
      /\ basis' = [basis EXCEPT ![c] = seen.terms]
      /\ UNCHANGED <<contract, thinned, altered>>
  BY <1>0 DEF GenerateSchedules, At
<1>2. /\ TasksOK /\ c \in Contracts /\ c \in u.on /\ Signed(c) /\ Found(c, seen)
      /\ PlanOK(c) /\ IsTerms(contract[c].terms)
  <2>1. PlanTask(r) /\ TasksOK
    BY DEF PlanInv, ContractInv, InArea, Fits
  <2> QED
    BY <1>0, <1>1, <2>1 DEF PlanTask, At, PlanInv, PlanOK
<1>3. PICK t, type, new : /\ t = seen.terms /\ type = contract[c].terms.type /\ new = seen.rows
                          /\ IsTerms(t) /\ t.type = type /\ Good(t, new)
  BY <1>2 DEF Found
<1>4. PICK old \in Seq(PlanRow) : old = plan[c]
  BY <1>2 DEF PlanInv
<1>5. new \in Seq(PlanRow) /\ new # <<>> /\ Distinct(new)
  BY <1>3 DEF Good
<1>6. PICK all : all = old \o new /\ all \in Seq(PlanRow) /\ (old = <<>> => all = new)
  BY <1>4, <1>5, ConcatProperties, ConcatEmptySeq
<1>7. PICK k \in Nat, n \in Nat : k = Len(old) /\ n = Len(new)
  BY <1>4, <1>5
<1>8. /\ DOMAIN old = 1..k /\ DOMAIN new = 1..n /\ DOMAIN all = 1..(k + n)
      /\ \A i \in 1..(k + n) : all[i] = IF i <= k THEN old[i] ELSE new[i - k]
  <2>1. /\ Len(all) = Len(old) + Len(new)
        /\ \A i \in 1..(Len(old) + Len(new)) : all[i] = IF i <= Len(old) THEN old[i] ELSE new[i - Len(old)]
    BY <1>4, <1>5, <1>6, ConcatProperties
  <2> QED
    BY <1>4, <1>5, <1>6, <1>7, <2>1
<1>9. /\ plan' \in [Contracts -> Seq(PlanRow)] /\ plan'[c] = all
      /\ \A d \in Contracts : d # c => plan'[d] = plan[d] /\ basis'[d] = basis[d]
      /\ basis'[c] = t /\ basis' = [d \in Contracts |-> basis'[d]]
  BY <1>1, <1>2, <1>3, <1>4, <1>6 DEF PlanInv
<1>10. /\ task'[r] = Idle /\ \A q \in Requests : q # r => task'[q] = task[q]
       /\ raced' = raced /\ \A o \in Contracts : Exclusive(o)'
  BY <1>1, <1>2, CloseFacts DEF Becomes, PlanInv
<1>11. /\ Blocking(c) = BlockingRows(type, old)
       /\ Blocking(c)' = BlockingRows(type, all)
  BY <1>1, <1>3, <1>4, <1>9 DEF Blocking, BlockingRows
<1>12. type \in {"rental", "lease_to_own", "purchase"}
  BY <1>3 DEF IsTerms
<1>13. BlockingRows(type, all) # {}
  <2>1. PICK i \in BlockingRows(type, new) : TRUE
    BY <1>3, GoodBlocks
  <2>2. i \in 1..n
    BY <1>8, <1>12, <2>1 DEF BlockingRows
  <2>3. k + i \in DOMAIN all /\ all[k + i] = new[i]
    BY <1>7, <1>8, <2>2
  <2>4. k + i \in BlockingRows(type, all)
    BY <1>12, <2>1, <2>3 DEF BlockingRows
  <2> QED
    BY <2>4
<1>14. ASSUME ~Raced(c), NEW i \in DOMAIN all, NEW j \in DOMAIN all, i < j,
              SamePayment(all[i], all[j])
       PROVE  Excusable(c, i, j)'
  <2>1. CASE j <= k
    <3>1. i \in 1..k /\ j \in 1..k /\ all[i] = old[i] /\ all[j] = old[j]
      BY <1>7, <1>8, <1>14, <2>1
    <3>2. Excusable(c, i, j)
      BY <1>2, <1>4, <1>8, <1>14, <3>1 DEF PlanOK, OnceFor
    <3> QED
      BY <1>1, <1>4, <1>9, <1>14, <3>1, <3>2 DEF Excusable, Raced
  <2>2. CASE i > k
    <3>0. i \in 1..(k + n) /\ j \in 1..(k + n) /\ ~(i <= k) /\ ~(j <= k)
      BY <1>7, <1>8, <1>14, <2>2
    <3>1. i - k \in 1..n /\ j - k \in 1..n /\ all[i] = new[i - k] /\ all[j] = new[j - k]
      BY <1>7, <1>8, <3>0
    <3>2. i - k = j - k
      BY <1>5, <1>8, <1>14, <3>1 DEF Distinct
    <3> QED
      BY <1>7, <1>8, <1>14, <3>2
  <2>3. CASE i <= k /\ j > k
    <3>1. i \in DOMAIN old /\ all[i] = old[i] /\ j - k \in DOMAIN new /\ all[j] = new[j - k]
      BY <1>7, <1>8, <1>14, <2>3
    <3>2. BlockingRows(type, old) = {}
      BY <1>2, <1>11, <1>14 DEF Found
    <3>3. type # "purchase"
      BY <3>1, <3>2 DEF BlockingRows
    <3>4. new[j - k].kind \in {"deposit", "option_fee"} \/ j - k \in BlockingRows(type, new)
      BY <1>3, <3>1, GoodBlocks
    <3>5. old[i].kind = new[j - k].kind
      BY <1>14, <3>1 DEF SamePayment
    <3>6. j - k \notin BlockingRows(type, new)
      BY <1>12, <3>1, <3>2, <3>3, <3>5 DEF BlockingRows
    <3>7. c \in thinned \/ old[i].byHand
      BY <1>2, <1>4, <1>11, <1>14, <3>1, <3>2 DEF PlanOK, Kept
    <3> QED
      BY <1>1, <1>3, <1>9, <3>1, <3>3, <3>4, <3>5, <3>6, <3>7 DEF Excusable
  <2> QED
    BY <1>7, <1>8, <2>1, <2>2, <2>3
<1>15. OnceFor(c)'
  <2>1. CASE Raced(c)
    BY <1>10, <2>1 DEF OnceFor, Excusable, Raced
  <2>2. CASE ~Raced(c)
    BY <1>9, <1>14, <2>2 DEF OnceFor
  <2> QED
    BY <2>1, <2>2
<1>16. AsGenerated(c)'
  <2>1. Raced(c) \/ c \in altered \/ old = <<>> \/ (Good(basis[c], old) /\ basis[c].type = type)
    BY <1>2, <1>3, <1>4 DEF PlanOK, AsGenerated
  <2>2. CASE Raced(c) \/ c \in altered
    BY <1>1, <1>10, <2>2 DEF AsGenerated, Raced
  <2>3. CASE old = <<>>
    BY <1>1, <1>3, <1>6, <1>9, <2>3 DEF AsGenerated
  <2>4. CASE ~Raced(c) /\ old # <<>> /\ Good(basis[c], old) /\ basis[c].type = type
    <3>1. BlockingRows(type, old) = {}
      BY <1>2, <1>11, <2>4 DEF Found
    <3>2. type = "purchase" => DOMAIN old = {}
      BY <3>1 DEF BlockingRows
    <3>3. DOMAIN old # {}
      <4>1. k # 0
        BY <1>4, <1>7, <2>4, EmptySeq
      <4>2. 1 \in 1..k
        BY <1>7, <4>1
      <4> QED
        BY <1>8, <4>2
    <3>4. type # "purchase" => \E i \in DOMAIN old : old[i].kind = BlockingKind(basis[c])
      BY <2>4 DEF Good, Blocks
    <3>5. type # "purchase" => BlockingRows(type, old) # {}
      BY <1>12, <2>4, <3>4 DEF BlockingKind, BlockingRows
    <3> QED
      BY <3>1, <3>2, <3>3, <3>5
  <2> QED
    BY <2>1, <2>2, <2>3, <2>4
<1>17. PlanOK(c)'
  <2>1. Signed(c)' /\ IsTerms(contract'[c].terms)
    BY <1>1, <1>2 DEF Signed
  <2>2. Kept(c)'
    BY <1>11, <1>13 DEF Kept
  <2> QED
    BY <1>15, <1>16, <2>1, <2>2 DEF PlanOK
<1>18. PlanTask(r)'
  BY <1>10 DEF PlanTask, At, Idle
<1>19. ASSUME NEW q \in Requests, q # r, NEW d \in Contracts, d \in task[q].on
       PROVE  plan'[d] = plan[d] \/ Raced(d)'
  <2>1. CASE d = c
    <3>1. Exclusive(c)
      BY <1>2 DEF PlanInv
    <3>2. c \in raced
      BY <1>0, <1>2, <1>19, <2>1, <3>1 DEF Exclusive
    <3> QED
      BY <1>10, <2>1, <3>2 DEF Raced
  <2>2. CASE d # c
    BY <1>9, <2>2
  <2> QED
    BY <2>1, <2>2
<1>20. ASSUME NEW d \in Contracts
       PROVE  /\ PlanOK(d)' \/ Undisturbed(d)
              /\ Signed(d) => Signed(d)' /\ contract'[d].terms.type = contract[d].terms.type
  <2>1. contract'[d] = contract[d] /\ Signed(d)' = Signed(d) /\ PlanOK(d)
    BY <1>1 DEF Signed, PlanInv
  <2> QED
    BY <1>9, <1>17, <2>1 DEF Undisturbed, PlanOK
<1> QED
  BY <1>1, <1>9, <1>10, <1>18, <1>19, <1>20, PlansStay

\* A change by hand: the requests that have the contract in hand have not looked
\* at it alone.
LEMMA PlansAltered ==
  ASSUME PlanInv, ContractInv', area \in ContractAreas, area' = area, raced \subseteq raced',
         NEW c \in Contracts, NEW rows \in Seq(PlanRow), AlterPlan(c, rows),
         plan[c] # <<>> \/ Signed(c), thinned \subseteq thinned',
         plan'[c] = rows => OnceFor(c)' /\ Kept(c)'
  PROVE  PlanInv'
<1>1. /\ AtOnce({"schedules"}, {c}) /\ contract' = contract /\ basis' = basis
      /\ plan' = [plan EXCEPT ![c] = rows] /\ altered' = altered \cup {c}
  BY DEF AlterPlan
<1>2. /\ task' = task /\ (\A o \in Contracts : Exclusive(o)')
      /\ \A q \in Requests : c \in task[q].on => c \in raced'
  BY <1>1, AtOnceFacts DEF PlanInv, ContractInv, InArea, Fits
<1>3. /\ plan' \in [Contracts -> Seq(PlanRow)] /\ plan'[c] = rows
      /\ \A d \in Contracts : d # c => plan'[d] = plan[d]
  BY <1>1 DEF PlanInv
<1>4. \A d \in Contracts : Signed(d)' = Signed(d) /\ contract'[d] = contract[d]
  BY <1>1 DEF Signed
<1>5. PlanOK(c)'
  <2>1. Signed(c) /\ IsTerms(contract[c].terms)
    BY DEF PlanInv, PlanOK
  <2>2. AsGenerated(c)'
    BY <1>1 DEF AsGenerated
  <2> QED
    BY <1>3, <1>4, <2>1, <2>2 DEF PlanOK
<1>6. ASSUME NEW d \in Contracts, d # c PROVE Undisturbed(d)
  BY <1>1, <1>3, <1>4, <1>6 DEF Undisturbed, PlanInv, PlanOK
<1>7. \A q \in Requests : \A d \in Contracts : d \in task[q].on => plan'[d] = plan[d] \/ Raced(d)'
  BY <1>2, <1>3 DEF Raced
<1>8. \A d \in Contracts : PlanOK(d)' \/ Undisturbed(d)
  BY <1>5, <1>6
<1>9. basis' = [d \in Contracts |-> basis'[d]] /\ altered \subseteq altered'
  BY <1>1 DEF PlanInv
<1> QED
  BY <1>2, <1>3, <1>4, <1>7, <1>8, <1>9, PlansStay

\* Rows that go on from those of a contract: each comes from a row, in the same
\* order, of the same payment.
LEMMA RowsFromRows ==
  ASSUME PlanInv, NEW c \in Contracts, contract' = contract, raced \subseteq raced',
         thinned \subseteq thinned', NEW i, NEW j, SamePayment(plan'[c][i], plan'[c][j]),
         NEW m \in DOMAIN plan[c], NEW n \in DOMAIN plan[c], m < n,
         plan'[c][i].kind = plan[c][m].kind, plan'[c][j].kind = plan[c][n].kind,
         plan'[c][i].number = plan[c][m].number, plan'[c][j].number = plan[c][n].number,
         plan'[c][i].byHand = plan[c][m].byHand, plan'[c][j].byHand = plan[c][n].byHand
  PROVE  Excusable(c, i, j)'
<1>1. SamePayment(plan[c][m], plan[c][n])
  BY DEF SamePayment
<1>2. Excusable(c, m, n)
  BY <1>1 DEF PlanInv, PlanOK, OnceFor
<1> QED
  BY <1>2 DEF Excusable, Raced

LEMMA PlansAdded ==
  ASSUME PlanInv, ContractInv', area \in ContractAreas, area' = area, raced \subseteq raced',
         NEW c \in Contracts, NEW row \in HandRows, AddSchedule(c, row)
  PROVE  PlanInv'
<1>1. PICK old \in Seq(PlanRow), k \in Nat : old = plan[c] /\ k = Len(old) /\ DOMAIN old = 1..k
  BY DEF PlanInv
<1>2. row \in PlanRow /\ row.byHand = TRUE
  <2>1. row \in RowByHand
    BY ContractAssumption
  <2>2. row.byHand = TRUE
    BY <2>1, Zenon DEF RowByHand
  <2>3. PICK b \in BOOLEAN : b = row.byHand
    BY <2>2
  <2>4. /\ row = [kind |-> row.kind, number |-> row.number, due |-> row.due,
                  amount |-> row.amount, byHand |-> row.byHand]
        /\ row.kind \in PaymentType /\ row.number \in Nat /\ row.amount \in Nat
        /\ row.due \in [month : Nat, day : 1..31]
    BY <2>1 DEF RowByHand
  <2>5. row.due \in [month : Int, day : Int]
    <3>1. PICK d : d = row.due /\ d \in [month : Nat, day : 1..31]
      BY <2>4
    <3>2. d.month \in Int /\ d.day \in Int /\ d = [month |-> d.month, day |-> d.day]
      BY <3>1
    <3> QED
      BY <3>1, <3>2
  <2>6. row \in PlanRow
    BY <2>3, <2>4, <2>5 DEF PlanRow
  <2> QED
    BY <2>2, <2>6
<1>3. PICK rows : /\ rows = Append(old, row) /\ rows \in Seq(PlanRow) /\ DOMAIN rows = 1..(k + 1)
                  /\ \A i \in 1..k : rows[i] = old[i]
                  /\ rows[k + 1] = row
  <2>1. /\ Append(old, row) \in Seq(PlanRow) /\ Len(Append(old, row)) = Len(old) + 1
        /\ \A i \in 1..Len(old) : Append(old, row)[i] = old[i]
        /\ Append(old, row)[Len(old) + 1] = row
    BY <1>1, <1>2, AppendProperties
  <2>2. DOMAIN Append(old, row) = 1..Len(Append(old, row))
    BY <2>1
  <2> QED
    BY <1>1, <2>1, <2>2
<1>4. /\ Signed(c) /\ AlterPlan(c, rows) /\ thinned' = thinned /\ contract' = contract
  BY <1>1, <1>3 DEF AddSchedule, AlterPlan
<1>5. ASSUME plan'[c] = rows PROVE OnceFor(c)' /\ Kept(c)'
  <2>1. ASSUME NEW i \in 1..(k + 1), NEW j \in 1..(k + 1), i < j, SamePayment(rows[i], rows[j])
        PROVE  Excusable(c, i, j)'
    <3>1. CASE j = k + 1
      BY <1>2, <1>3, <1>5, <3>1 DEF Excusable
    <3>2. CASE j # k + 1
      <4>1. i \in 1..k /\ j \in 1..k
        BY <1>1, <2>1, <3>2
      <4>2. plan'[c][i] = plan[c][i] /\ plan'[c][j] = plan[c][j]
        BY <1>1, <1>3, <1>5, <4>1
      <4>3. SamePayment(plan'[c][i], plan'[c][j])
        BY <1>5, <2>1
      <4> QED
        BY <1>1, <1>4, <2>1, <4>1, <4>2, <4>3, RowsFromRows
    <3> QED
      BY <3>1, <3>2
  <2>2. OnceFor(c)'
    BY <1>3, <1>5, <2>1 DEF OnceFor
  <2>3. Kept(c)
    BY DEF PlanInv, PlanOK
  <2>4. Blocking(c) # {} => Blocking(c)' # {}
    BY <1>1, <1>3, <1>4, <1>5 DEF Blocking
  <2>5. (\A i \in DOMAIN old : old[i].byHand) => \A i \in DOMAIN rows : rows[i].byHand
    <3> SUFFICES ASSUME \A i \in DOMAIN old : old[i].byHand, NEW i \in 1..(k + 1)
                 PROVE  rows[i].byHand
      BY <1>3
    <3>1. CASE i = k + 1
      BY <1>2, <1>3, <3>1
    <3>2. CASE i # k + 1
      <4>1. i \in 1..k
        BY <1>1, <3>2
      <4> QED
        BY <1>1, <1>3, <4>1
    <3> QED
      BY <3>1, <3>2
  <2> QED
    BY <1>1, <1>4, <1>5, <2>2, <2>3, <2>4, <2>5 DEF Kept, Raced
<1> QED
  BY <1>3, <1>4, <1>5, PlansAltered

LEMMA PlansChanged ==
  ASSUME PlanInv, ContractInv', area \in ContractAreas, area' = area, raced \subseteq raced',
         NEW c \in Contracts, NEW i \in DOMAIN plan[c], NEW due \in Ends[area] \cup {NoRow},
         NEW amount \in (Rents[area] \cap Nat) \cup {NoRow}, ChangeSchedule(c, i, due, amount)
  PROVE  PlanInv'
<1>1. PICK old \in Seq(PlanRow), k \in Nat : old = plan[c] /\ k = Len(old) /\ DOMAIN old = 1..k
  BY DEF PlanInv
<1>2. PICK row : row = [old[i] EXCEPT !.due = Given(due, @), !.amount = Given(amount, @)]
  OBVIOUS
<1>3. /\ row \in PlanRow /\ row.kind = old[i].kind /\ row.number = old[i].number
      /\ row.byHand = old[i].byHand
  <2>1. old[i] \in PlanRow
    BY <1>1
  <2>2. PICK x : x = old[i] /\ x \in PlanRow
    BY <2>1
  <2>3. PICK d, e : d = Given(due, x.due) /\ e = Given(amount, x.amount)
    OBVIOUS
  <2>4. d \in [month : Int, day : Int] /\ e \in Int
    <3>1. /\ \A f \in Ends[area] : IsDate(f)
          /\ Rents[area] \subseteq Int
      BY ContractAssumption DEF PlanInv
    <3>5. \A f : IsDate(f) => f \in [month : Int, day : Int]
      BY DEF IsDate
    <3>4. \A f \in Ends[area] : f \in [month : Int, day : Int]
      BY <3>1, <3>5
    <3>2. d \in [month : Int, day : Int]
      BY <2>2, <2>3, <3>4 DEF Given, PlanRow
    <3>3. e \in Int
      BY <2>2, <2>3, <3>1 DEF Given, PlanRow
    <3> QED
      BY <3>2, <3>3
  <2>5. row = [x EXCEPT !.due = d, !.amount = e]
    BY <1>2, <2>2, <2>3 DEF PlanRow
  <2> QED
    BY <2>2, <2>4, <2>5 DEF PlanRow
<1>4. PICK rows : /\ rows = [old EXCEPT ![i] = row] /\ rows \in Seq(PlanRow) /\ DOMAIN rows = 1..k
                  /\ rows[i] = row /\ \A j \in 1..k : j # i => rows[j] = old[j]
  <2>1. PICK rows : rows = [old EXCEPT ![i] = row]
    OBVIOUS
  <2>2. /\ rows \in Seq(PlanRow) /\ Len(rows) = Len(old) /\ DOMAIN rows = DOMAIN old
        /\ rows[i] = row /\ \A j \in DOMAIN old : j # i => rows[j] = old[j]
    <3>1. old \in [1..k -> PlanRow]
      BY <1>1
    <3>2. rows \in [1..k -> PlanRow] /\ rows[i] = row /\ \A j \in 1..k : j # i => rows[j] = old[j]
      BY <1>1, <1>3, <2>1, <3>1
    <3> QED
      BY <1>1, <3>2
  <2> QED
    BY <1>1, <2>1, <2>2
<1>5. /\ AlterPlan(c, rows) /\ thinned' = thinned /\ contract' = contract
  <2>1. [plan[c] EXCEPT ![i].due = Given(due, @), ![i].amount = Given(amount, @)] = rows
    BY <1>1, <1>2, <1>4
  <2> QED
    BY <2>1 DEF ChangeSchedule, AlterPlan
<1>6. ASSUME NEW j \in 1..k
      PROVE  /\ rows[j].kind = old[j].kind /\ rows[j].number = old[j].number
             /\ rows[j].byHand = old[j].byHand
  BY <1>3, <1>4
<1>7. ASSUME plan'[c] = rows PROVE OnceFor(c)' /\ Kept(c)'
  <2>1. ASSUME NEW m \in 1..k, NEW n \in 1..k, m < n, SamePayment(rows[m], rows[n])
        PROVE  Excusable(c, m, n)'
    <3>1. SamePayment(plan'[c][m], plan'[c][n])
      BY <1>7, <2>1
    <3>2. /\ plan'[c][m].kind = plan[c][m].kind /\ plan'[c][n].kind = plan[c][n].kind
          /\ plan'[c][m].number = plan[c][m].number /\ plan'[c][n].number = plan[c][n].number
          /\ plan'[c][m].byHand = plan[c][m].byHand /\ plan'[c][n].byHand = plan[c][n].byHand
      BY <1>1, <1>6, <1>7
    <3> QED
      BY <1>1, <1>5, <2>1, <3>1, <3>2, RowsFromRows
  <2>2. OnceFor(c)'
    BY <1>4, <1>7, <2>1 DEF OnceFor
  <2>3. Kept(c)
    BY DEF PlanInv, PlanOK
  <2>4. Blocking(c)' = Blocking(c)
    <3>1. /\ {j \in DOMAIN rows : rows[j].kind = "rent"} = {j \in DOMAIN old : old[j].kind = "rent"}
          /\ {j \in DOMAIN rows : rows[j].kind = "installment"}
               = {j \in DOMAIN old : old[j].kind = "installment"}
          /\ DOMAIN rows = DOMAIN old
      BY <1>1, <1>4, <1>6
    <3> QED
      BY <1>1, <1>5, <1>7, <3>1 DEF Blocking
  <2>5. (\A j \in DOMAIN old : old[j].byHand) => \A j \in DOMAIN rows : rows[j].byHand
    BY <1>1, <1>4, <1>6
  <2> QED
    BY <1>1, <1>5, <1>7, <2>2, <2>3, <2>4, <2>5 DEF Kept, Raced
<1> QED
  BY <1>1, <1>4, <1>5, <1>7, PlansAltered

LEMMA RowRemoved ==
  ASSUME NEW rows \in Seq(PlanRow), NEW i \in DOMAIN rows
  PROVE  LET left == RemoveAt(rows, i)
         IN  /\ left \in Seq(PlanRow) /\ DOMAIN left = 1..(Len(rows) - 1)
             /\ \A j \in DOMAIN left : left[j] = rows[IF j < i THEN j ELSE j + 1]
<1>1. PICK n \in Nat : n = Len(rows) /\ DOMAIN rows = 1..n /\ i \in 1..n /\ \A j \in 1..n : rows[j] \in PlanRow
  OBVIOUS
<1>2. PICK a, b : a = SubSeq(rows, 1, i - 1) /\ b = SubSeq(rows, i + 1, n)
  OBVIOUS
<1>3. /\ a \in Seq(PlanRow) /\ Len(a) = i - 1
      /\ \A j \in 1..(i - 1) : a[j] = rows[j]
  <2>1. 1 \in Int /\ i - 1 \in Int /\ \A j \in 1..(i - 1) : rows[j] \in PlanRow
    BY <1>1
  <2>2. /\ a \in Seq(PlanRow) /\ Len(a) = IF 1 <= i - 1 THEN i - 1 - 1 + 1 ELSE 0
        /\ \A j \in 1..(i - 1 - 1 + 1) : a[j] = rows[1 + j - 1]
    BY <1>2, <2>1, SubSeqProperties
  <2> QED
    BY <1>1, <2>2
<1>4. /\ b \in Seq(PlanRow) /\ Len(b) = n - i
      /\ \A j \in 1..(n - i) : b[j] = rows[i + j]
  <2>1. i + 1 \in Int /\ n \in Int /\ \A j \in (i + 1)..n : rows[j] \in PlanRow
    BY <1>1
  <2>2. /\ b \in Seq(PlanRow) /\ Len(b) = IF i + 1 <= n THEN n - (i + 1) + 1 ELSE 0
        /\ \A j \in 1..(n - (i + 1) + 1) : b[j] = rows[(i + 1) + j - 1]
    BY <1>2, <2>1, SubSeqProperties
  <2> QED
    BY <1>1, <2>2
<1>5. PICK left : left = a \o b /\ left = RemoveAt(rows, i)
  BY <1>1, <1>2 DEF RemoveAt
<1>6. /\ left \in Seq(PlanRow) /\ Len(left) = n - 1
      /\ \A j \in 1..(n - 1) : left[j] = IF j <= i - 1 THEN a[j] ELSE b[j - (i - 1)]
  <2>1. /\ left \in Seq(PlanRow) /\ Len(left) = Len(a) + Len(b)
        /\ \A j \in 1..(Len(a) + Len(b)) : left[j] = IF j <= Len(a) THEN a[j] ELSE b[j - Len(a)]
    <3>1. a \in Seq(PlanRow) /\ b \in Seq(PlanRow) /\ left = a \o b
      BY <1>3, <1>4, <1>5
    <3> QED
      BY <3>1, ConcatProperties
  <2>2. Len(a) + Len(b) = n - 1
    <3>1. Len(a) = i - 1 /\ Len(b) = n - i /\ i \in Int
      BY <1>1, <1>3, <1>4
    <3> QED
      BY <3>1
  <2> QED
    BY <1>3, <2>1, <2>2
<1>7. ASSUME NEW j \in 1..(n - 1) PROVE left[j] = rows[IF j < i THEN j ELSE j + 1]
  <2>1. CASE j < i
    <3>1. j \in 1..(i - 1) /\ j <= i - 1
      BY <1>1, <2>1
    <3> QED
      BY <1>3, <1>6, <2>1, <3>1
  <2>2. CASE ~(j < i)
    <3>1. PICK m : m = j - (i - 1) /\ m \in 1..(n - i) /\ i + m = j + 1 /\ ~(j <= i - 1)
      BY <1>1, <2>2
    <3> QED
      BY <1>4, <1>6, <2>2, <3>1
  <2> QED
    BY <2>1, <2>2
<1>8. DOMAIN left = 1..(n - 1)
  BY <1>6
<1> QED
  BY <1>1, <1>5, <1>6, <1>7, <1>8

LEMMA PlansThinned ==
  ASSUME PlanInv, ContractInv', area \in ContractAreas, area' = area, raced \subseteq raced',
         NEW c \in Contracts, NEW i \in DOMAIN plan[c], DropSchedule(c, i)
  PROVE  PlanInv'
<1>1. PICK old \in Seq(PlanRow), n \in Nat : old = plan[c] /\ n = Len(old) /\ DOMAIN old = 1..n
  BY DEF PlanInv
<1>2. PICK rows : /\ rows = RemoveAt(old, i) /\ rows \in Seq(PlanRow) /\ DOMAIN rows = 1..(n - 1)
                  /\ \A j \in DOMAIN rows : rows[j] = old[IF j < i THEN j ELSE j + 1]
  BY <1>1, RowRemoved
<1>3. AlterPlan(c, rows) /\ thinned' = thinned \cup {c} /\ contract' = contract
  BY <1>1, <1>2 DEF DropSchedule, AlterPlan
<1>4. ASSUME plan'[c] = rows PROVE OnceFor(c)' /\ Kept(c)'
  <2>1. ASSUME NEW j \in 1..(n - 1), NEW k \in 1..(n - 1), j < k, SamePayment(rows[j], rows[k])
        PROVE  Excusable(c, j, k)'
    <3>1. i \in 1..n
      BY <1>1
    <3>2. PICK x, y : x = (IF j < i THEN j ELSE j + 1) /\ y = (IF k < i THEN k ELSE k + 1)
      OBVIOUS
    <3>3. x \in 1..n /\ y \in 1..n /\ x < y
      BY <2>1, <3>1, <3>2
    <3>4. plan'[c][j] = plan[c][x] /\ plan'[c][k] = plan[c][y]
      <4>1. j \in DOMAIN rows /\ k \in DOMAIN rows
        BY <1>2
      <4>2. rows[j] = old[x] /\ rows[k] = old[y]
        BY <1>2, <3>2, <4>1
      <4> QED
        BY <1>1, <1>4, <4>2
    <3>5. SamePayment(plan'[c][j], plan'[c][k])
      BY <1>4, <2>1
    <3> QED
      BY <1>1, <1>3, <3>3, <3>4, <3>5, RowsFromRows
  <2>2. OnceFor(c)'
    BY <1>2, <1>4, <2>1 DEF OnceFor
  <2> QED
    BY <1>3, <2>2 DEF Kept
<1>5. plan[c] # <<>>
  BY <1>1
<1> QED
  BY <1>2, <1>3, <1>4, <1>5, PlansAltered

\* A statement that changes contracts, but not the type of what they are on.
LEMMA PlansKept ==
  ASSUME PlanInv, ContractInv', area \in ContractAreas, area' = area, raced \subseteq raced',
         \/ \E r \in Requests : \E end \in Ends[area] : Terminate(r, end)
         \/ \E c \in Contracts, status \in ContractStatus : \E n : \E new \in Amendments :
              UpdateContract(c, status, n, new)
         \/ \E a \in Apartments : \E row : EditApartment(a, row)
  PROVE  PlanInv'
<1>1. ASSUME UNCHANGED <<plan, basis, thinned, altered>>, \A c \in Contracts : Exclusive(c)',
             \A q \in Requests : task'[q] = task[q] \/ PlanTask(q)',
             \A c \in Contracts : /\ Signed(c)' = Signed(c)
                                  /\ Signed(c) => Sames(contract[c].terms, contract'[c].terms)
      PROVE  PlanInv'
  <2>1. ASSUME NEW c \in Contracts
        PROVE  Undisturbed(c) /\ (Signed(c) => Signed(c)' /\ contract'[c].terms.type = contract[c].terms.type)
    BY <1>1 DEF Undisturbed, Sames
  <2> QED
    BY <1>1, <2>1, PlansStay DEF PlanInv
<1>2. ASSUME NEW areas, NEW objects, AtOnce(areas, objects)
      PROVE  task' = task /\ \A c \in Contracts : Exclusive(c)'
  BY <1>2, AtOnceFacts DEF PlanInv, ContractInv, InArea, Fits
<1>3. \A c \in Contracts : Signed(c) => IsTerms(contract[c].terms)
  BY DEF PlanInv, PlanOK
<1>4. ASSUME NEW r \in Requests, NEW end \in Ends[area], Terminate(r, end) PROVE PlanInv'
  <2>1. PICK c \in Contracts : c = task[r].row /\ Signed(c) /\ ContractShape(contract[c])
    <3>1. At(r, "terminate") /\ ContractTask(r)
      <4>1. At(r, "terminate")
        BY <1>4, Zenon DEF Terminate
      <4> QED
        BY <4>1 DEF PlanInv, ContractInv
    <3> QED
      BY <3>1 DEF PlanInv, ContractInv, ContractTask
  <2>2. /\ contract' = [contract EXCEPT ![c].status = "terminated", ![c].terms.end = end] /\ Close(r)
        /\ UNCHANGED <<plan, basis, thinned, altered>>
    BY <1>4, <2>1 DEF Terminate
  <2>3. contract'[c] = [contract[c] EXCEPT !.status = "terminated", !.terms.end = end]
    BY <2>2 DEF PlanInv, ContractInv
  <2>4. PICK t, new : /\ t = contract[c].terms /\ new = [t EXCEPT !.end = end]
                      /\ new = contract'[c].terms /\ contract'[c].status = "terminated"
    BY <2>1, <2>3 DEF ContractShape
  <2>5. Sames(t, new)
    <3>1. IsDate(end)
      BY ContractAssumption DEF PlanInv
    <3> QED
      BY <1>3, <2>1, <2>4, <3>1, EndChanged
  <2>6. \A d \in Contracts : d # c => contract'[d] = contract[d]
    BY <2>2 DEF PlanInv, ContractInv
  <2>7. /\ task'[r] = Idle /\ \A q \in Requests : q # r => task'[q] = task[q]
        /\ \A o \in Contracts : Exclusive(o)'
    BY <2>2, CloseFacts DEF Becomes, PlanInv, ContractInv, InArea, Fits
  <2>8. PlanTask(r)'
    BY <2>7 DEF PlanTask, At, Idle
  <2>9. ASSUME NEW d \in Contracts
        PROVE  /\ Signed(d)' = Signed(d)
               /\ Signed(d) => Sames(contract[d].terms, contract'[d].terms)
    BY <1>3, <2>1, <2>4, <2>5, <2>6 DEF Signed, Sames
  <2> QED
    BY <1>1, <2>2, <2>7, <2>8, <2>9
<1>5. ASSUME NEW c \in Contracts, NEW status \in ContractStatus, NEW n, NEW new \in Amendments,
             UpdateContract(c, status, n, new)
      PROVE  PlanInv'
  <2>1. /\ Signed(c) /\ AtOnce({"contracts", "schedules"}, {contract[c].apartment})
        /\ contract' = [contract EXCEPT ![c].status = status, ![c].residents = Given(n, @),
                                        ![c].terms = Amended(@, new)]
        /\ UNCHANGED <<plan, basis, thinned, altered>>
    BY <1>5 DEF UpdateContract
  <2>2. ContractShape(contract[c]) /\ status # "absent"
    BY DEF PlanInv, ContractInv, ContractStatus
  <2>3. contract'[c] = [contract[c] EXCEPT !.status = status, !.residents = Given(n, @),
                                           !.terms = Amended(@, new)]
    BY <2>1 DEF PlanInv, ContractInv
  <2>4. contract'[c].terms = Amended(contract[c].terms, new) /\ contract'[c].status = status
    BY <2>2, <2>3 DEF ContractShape
  <2>5. Sames(contract[c].terms, contract'[c].terms)
    BY <1>3, <2>1, <2>4, AmendedSound DEF PlanInv
  <2>6. \A d \in Contracts : d # c => contract'[d] = contract[d]
    BY <2>1 DEF PlanInv, ContractInv
  <2>7. ASSUME NEW d \in Contracts
        PROVE  /\ Signed(d)' = Signed(d)
               /\ Signed(d) => Sames(contract[d].terms, contract'[d].terms)
    BY <1>3, <2>1, <2>2, <2>4, <2>5, <2>6 DEF Signed, Sames
  <2> QED
    BY <1>1, <1>2, <2>1, <2>7
<1>6. ASSUME NEW a \in Apartments, NEW row, EditApartment(a, row) PROVE PlanInv'
  <2>1. UNCHANGED <<contract, plan, basis, thinned, altered>> /\ AtOnce({"contracts"}, {a})
    BY <1>6 DEF EditApartment
  <2>2. \A c \in Contracts : /\ Signed(c)' = Signed(c)
                             /\ Signed(c) => Sames(contract[c].terms, contract'[c].terms)
    BY <1>3, <2>1 DEF Signed, Sames
  <2> QED
    BY <1>1, <1>2, <2>1, <2>2
<1> QED
  BY <1>4, <1>5, <1>6

LEMMA PlansStep ==
  ASSUME PlanInv, [OfficeNext]_officeVars
  PROVE  PlanInv'
<1>0. ContractInv'
  BY ContractsStep DEF PlanInv
<1>1. CASE OfficeNext
  <2>1. area' = area /\ raced \subseteq raced'
    BY <1>1, OfficeRuns DEF PlanInv, ContractInv
  <2>2. CASE ContractStep
    <3>1. area \in ContractAreas
      BY <2>2, ContractRuns DEF PlanInv, ContractInv
    <3>2. ASSUME NEW r \in Requests,
                 \/ \E a \in Apartments : OpenSigning(r, a)
                 \/ \E c \in Contracts : \/ OpenTermination(r, c)
                                         \/ \E count \in Counts[area], percent \in Percents :
                                              OpenGeneration(r, c, count, percent)
                 \/ ValidateContract(r)
          PROVE  PlanInv'
      BY <1>0, <2>1, <3>1, <3>2, PlansOpen
    <3>3. ASSUME NEW r \in Requests, NEW n, SignContract(r, n) PROVE PlanInv'
      BY <1>0, <2>1, <3>1, <3>3, PlansSigned
    <3>4. ASSUME NEW r \in Requests, GenerateSchedules(r) PROVE PlanInv'
      BY <1>0, <2>1, <3>1, <3>4, PlansGenerated
    <3>5. ASSUME NEW c \in Contracts, NEW row \in HandRows, AddSchedule(c, row) PROVE PlanInv'
      BY <1>0, <2>1, <3>1, <3>5, PlansAdded
    <3>6. ASSUME NEW c \in Contracts, NEW i \in DOMAIN plan[c], NEW due \in Ends[area] \cup {NoRow},
                 NEW amount \in (Rents[area] \cap Nat) \cup {NoRow},
                 ChangeSchedule(c, i, due, amount)
          PROVE  PlanInv'
      BY <1>0, <2>1, <3>1, <3>6, PlansChanged
    <3>7. ASSUME NEW c \in Contracts, NEW i \in DOMAIN plan[c], DropSchedule(c, i) PROVE PlanInv'
      BY <1>0, <2>1, <3>1, <3>7, PlansThinned
    <3>8. ASSUME \/ \E r \in Requests : \E end \in Ends[area] : Terminate(r, end)
                 \/ \E c \in Contracts, status \in ContractStatus : \E n : \E new \in Amendments :
                      UpdateContract(c, status, n, new)
                 \/ \E a \in Apartments : \E row : EditApartment(a, row)
          PROVE  PlanInv'
      BY <1>0, <2>1, <3>1, <3>8, PlansKept
    <3> HIDE DEF PlanInv
    <3>9. ASSUME NEW r \in Requests,
                 \/ \E a \in Apartments : OpenSigning(r, a)
                 \/ \E n \in Residents \cup {NoRow} : SignContract(r, n)
                 \/ \E c \in Contracts :
                      \/ \E count \in Counts[area], percent \in Percents :
                           OpenGeneration(r, c, count, percent)
                      \/ OpenTermination(r, c)
                 \/ ValidateContract(r) \/ GenerateSchedules(r)
                 \/ \E end \in Ends[area] : Terminate(r, end)
          PROVE  PlanInv'
      BY <3>2, <3>3, <3>4, <3>8, <3>9
    <3>10. ASSUME NEW c \in Contracts,
                  \/ \E row \in HandRows : AddSchedule(c, row)
                  \/ \E i \in DOMAIN plan[c] :
                       \/ \E due \in Ends[area] \cup {NoRow},
                             amount \in (Rents[area] \cap Nat) \cup {NoRow} :
                            ChangeSchedule(c, i, due, amount)
                       \/ DropSchedule(c, i)
                  \/ \E status \in ContractStatus, n \in Residents \cup {NoRow}, new \in Amendments :
                       UpdateContract(c, status, n, new)
           PROVE  PlanInv'
      BY <3>5, <3>6, <3>7, <3>8, <3>10
    <3> QED
      BY <2>2, <3>8, <3>9, <3>10 DEF ContractStep
  <2>3. CASE ~ContractStep
    <3>1. UNCHANGED contractVars
      BY <1>1, <2>3 DEF OfficeNext, BesidesParking, BesidesCards, BesidesMeters,
         BesidesAccounts, FailAny
    <3>2. ASSUME area \in ContractAreas
          PROVE  /\ \A c \in Contracts : Exclusive(c)'
                 /\ \A q \in Requests : task'[q] = task[q] \/ PlanTask(q)'
      <4>1. PICK r \in Requests : Fail(r)
        BY <1>1, <2>3, <3>2, ParkingRuns, PolicyRuns, CardRuns, MeterRuns, AccountRuns
           DEF OfficeNext, FailAny, ContractAreas, CardAreas, PlanInv, ContractInv
      <4>2. Becomes(r, Idle) /\ \A c \in Contracts : Exclusive(c)'
        BY <3>2, <4>1, FailFacts DEF PlanInv, ContractInv, InArea, Fits
      <4> QED
        BY <4>2 DEF Becomes, PlanTask, At, Idle
    <3>3. UNCHANGED <<plan, basis, contract, thinned, altered>>
      BY <3>1 DEF contractVars
    <3>4. \A c \in Contracts : Undisturbed(c)
      BY <3>3 DEF Undisturbed, Signed, PlanInv, PlanOK
    <3> QED
      BY <1>0, <2>1, <3>2, <3>3, <3>4, PlansStay DEF PlanInv, Signed
  <2> QED
    BY <2>2, <2>3
<1>2. CASE UNCHANGED officeVars
  <2>1. UNCHANGED <<area, task, raced, contract, plan, basis, thinned, altered>>
    BY <1>2 DEF officeVars, requestVars, contractVars
  <2>2. \A c : Exclusive(c)' = Exclusive(c)
    BY <2>1 DEF Exclusive
  <2>3. \A c \in Contracts : Undisturbed(c)
    BY <2>1 DEF Undisturbed, Signed, PlanInv, PlanOK
  <2> QED
    BY <1>0, <2>1, <2>2, <2>3, PlansStay DEF PlanInv, Signed
<1> QED
  BY <1>1, <1>2

\* A payment is in a contract's plan once, whatever its terms, however many
\* months or payments are asked for, whoever generates and whatever rows are
\* entered, changed and deleted by hand meanwhile. The exceptions are those of
\* ScheduledOnce: two requests with the contract in hand, a row entered by hand
\* after the other, and a deposit or option fee that was entered by hand or left
\* by a deletion before a plan was generated (payment-generator.service;
\* schedules-core.service createSchedule, updateSchedule and deleteSchedule).
THEOREM ScheduledOnceKept == OfficeSpec => []ScheduledOnce
<1>1. ASSUME PlanInv PROVE ScheduledOnce
  BY <1>1 DEF PlanInv, PlanOK, OnceFor, Excusable, ScheduledOnce
<1> QED
  BY <1>1, PlansInit, PlansStep, PTL DEF OfficeSpec

\* The payments of a purchase add up to its price and those of every plan are
\* asked for in order, none before the contract starts and none negative, for
\* every date, price, rent, down payment, percentage and number of payments a
\* contract may be on when its plan is generated, changed since it was signed or
\* not, with the exceptions PlanSound names (generatePurchaseMilestones,
\* generateRentSchedules and generateLeaseToOwnSchedules of
\* payment-generator.service; contracts.service update and terminate).
THEOREM PlansSound == OfficeSpec => []PlanSound
<1>1. ASSUME PlanInv PROVE PlanSound
  <2>1. ASSUME NEW c \in Contracts, plan[c] # <<>>
        PROVE  Raced(c) \/ c \in altered \/ Sound(basis[c], plan[c])
    BY <1>1, <2>1 DEF PlanInv, PlanOK, AsGenerated, Good
  <2> QED
    BY <2>1 DEF PlanSound, Sound
<1> QED
  BY <1>1, PlansInit, PlansStep, PTL DEF OfficeSpec
=============================================================================
