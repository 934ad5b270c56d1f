------------------------------ MODULE DeskProofs ------------------------------
(***************************************************************************)
(* Proofs, for every number of requests, tokens, accounts and roles, that  *)
(* what the API keeps for its users stays sound.                           *)
(***************************************************************************)
EXTENDS Desk, RequestProofs, FiniteSetTheorems, SequenceTheorems

SessionOps == {"enter", "attach", "revoke", "renew", "invalidate", "send", "reset", "change",
               "update", "end", "unlink", "detach"}
RoleOps == {"grant", "revokeRole", "promote", "replace"}
IncidentOps == {"assign", "status", "forget", "holders", "members", "count", "keep"}
NoticeOps == {"write"}

\* The statements a request of the area is at.
OpsOf ==
    IF area = "sessions" THEN SessionOps
    ELSE IF area = "roles" THEN RoleOps
    ELSE IF area = "incidents" THEN IncidentOps ELSE NoticeOps

\* No request is at a statement of another area.
InArea == Fits(OpsOf)

-----------------------------------------------------------------------------
(* Requests stay in their area *)

LEMMA SessionRuns ==
  ASSUME InArea, SessionStep
  PROVE  area = "sessions" /\ Runs(SessionOps)
<1> USE DEF InArea, OpsOf, SessionOps, RoleOps, IncidentOps, NoticeOps, At
<1>1. area = "sessions" => Fits(SessionOps)
  OBVIOUS
<1>2. ASSUME NEW r \in Requests, At(r, task[r].op), task[r].op \in SessionOps
      PROVE  area = "sessions"
  BY <1>2 DEF Fits
<1> DEFINE Fine == area = "sessions" /\ Runs(SessionOps)
<1>3. ASSUME NEW r \in Requests, NEW new, Shape(new), new.op \in SessionOps,
             Open(r, {"sessions"}, new)
      PROVE  Fine
  BY <1>1, <1>3, OpenFits DEF Open
<1>4. ASSUME NEW r \in Requests, task[r].op \in SessionOps, Close(r)
      PROVE  Fine
  BY <1>1, <1>2, <1>4, CloseFits
<1>5. ASSUME NEW r \in Requests, task[r].op \in SessionOps, NEW op \in SessionOps, Goto(r, op)
      PROVE  Fine
  BY <1>1, <1>2, <1>5, GotoFits
<1>6. ASSUME NEW objects, AtOnce({"sessions"}, objects)
      PROVE  Fine
  BY <1>1, <1>6, AtOnceFits DEF AtOnce
<1> SUFFICES Fine
  OBVIOUS
<1> HIDE DEF Fine
<1>7. ASSUME NEW r \in Requests,
             \/ OpenLogin(r) \/ OpenPasswordChange(r) \/ ForgotPassword(r) \/ OpenUnlink(r)
             \/ \E g \in Google : OpenGoogleLogin(r, g) \/ OpenLink(r, g)
             \/ \E s \in Tokens : OpenRefresh(r, s)
             \/ \E t \in ResetTokens : OpenReset(r, t)
             \/ \E active \in BOOLEAN \cup {NoRow}, password \in BOOLEAN : OpenUpdate(r, active, password)
      PROVE  Fine
  <2> USE DEF Idle, Shape, Open, Touch, Fits, TasksOK, Runs, Fine
  <2>1. CASE OpenLogin(r)
    BY <1>1, <2>1 DEF OpenLogin
  <2>2. CASE OpenPasswordChange(r)
    BY <1>1, <2>2 DEF OpenPasswordChange
  <2>3. CASE ForgotPassword(r)
    BY <1>1, <2>3 DEF ForgotPassword
  <2>4. CASE OpenUnlink(r)
    BY <1>1, <2>4 DEF OpenUnlink
  <2>5. ASSUME NEW g \in Google, OpenGoogleLogin(r, g)
        PROVE  Fine
    <3>1. CASE g \in linked
      BY <1>1, <2>5, <3>1 DEF OpenGoogleLogin
    <3>2. CASE g \notin linked
      BY <1>1, <2>5, <3>2 DEF OpenGoogleLogin
    <3> QED
      BY <3>1, <3>2
  <2>6. CASE \E g \in Google : OpenLink(r, g)
    BY <1>1, <2>6 DEF OpenLink
  <2>7. CASE \E s \in Tokens : OpenRefresh(r, s)
    BY <1>1, <2>7 DEF OpenRefresh
  <2>8. CASE \E t \in ResetTokens : OpenReset(r, t)
    BY <1>1, <2>8 DEF OpenReset
  <2>9. ASSUME NEW active, NEW password, OpenUpdate(r, active, password)
        PROVE  Fine
    BY <1>1, <2>9 DEF OpenUpdate
  <2> QED
    BY <1>7, <2>1, <2>2, <2>3, <2>4, <2>5, <2>6, <2>7, <2>8, <2>9
<1>8. ASSUME NEW r \in Requests,
             \/ Attach(r) \/ Enter(r) \/ RevokeOld(r) \/ IssueNew(r)
             \/ InvalidateResets(r) \/ SendReset(r) \/ ResetPassword(r) \/ ChangePassword(r)
             \/ UpdateUser(r) \/ EndSessions(r) \/ CheckOtherWay(r) \/ Detach(r)
      PROVE  Fine
  BY <1>4, <1>5, <1>8 DEF Attach, Enter, RevokeOld, IssueNew, InvalidateResets, SendReset,
     ResetPassword, ChangePassword, UpdateUser, EndSessions, CheckOtherWay, Detach
<1>9. CASE \E s \in Tokens : Logout(s)
  BY <1>6, <1>9 DEF Logout
<1>10. CASE LogoutAllDevices
  BY <1>6, <1>10 DEF LogoutAllDevices
<1> QED
  BY <1>7, <1>8, <1>9, <1>10 DEF SessionStep

LEMMA RoleRuns ==
  ASSUME InArea, RoleStep
  PROVE  area = "roles" /\ Runs(RoleOps)
<1> USE DEF InArea, OpsOf, SessionOps, RoleOps, IncidentOps, NoticeOps, At
<1>1. area = "roles" => Fits(RoleOps)
  OBVIOUS
<1> DEFINE Fine == area = "roles" /\ Runs(RoleOps)
<1> SUFFICES Fine
  OBVIOUS
<1>2. ASSUME NEW r \in Requests, NEW role \in Roles,
             OpenRoleAssignment(r, role) \/ OpenRevocation(r, role)
      PROVE  Fine
  <2> USE DEF Idle, Shape, Open, Touch, Fits, TasksOK, Runs
  <2>1. CASE OpenRoleAssignment(r, role)
    BY <1>1, <2>1 DEF OpenRoleAssignment
  <2>2. CASE OpenRevocation(r, role)
    BY <1>1, <2>2 DEF OpenRevocation
  <2> QED
    BY <1>2, <2>1, <2>2
<1>9. ASSUME NEW r \in Requests, NEW new \in SUBSET Roles, NEW first \in Roles,
             OpenReplacement(r, new, first)
      PROVE  Fine
  BY <1>1, <1>9 DEF OpenReplacement, Shape, Open, Touch, Fits, TasksOK, Runs
<1>3. ASSUME NEW r \in Requests, task[r].op \in RoleOps
      PROVE  area = "roles"
  BY <1>3 DEF Fits
<1>4. ASSUME NEW r \in Requests, task[r].op \in RoleOps, Close(r)
      PROVE  Fine
  BY <1>1, <1>3, <1>4, CloseFits
<1>5. ASSUME NEW r \in Requests, task[r].op \in RoleOps, NEW op \in RoleOps, Goto(r, op)
      PROVE  Fine
  BY <1>1, <1>3, <1>5, GotoFits
<1>6. ASSUME NEW objects, AtOnce({"roles"}, objects)
      PROVE  Fine
  BY <1>1, <1>6, AtOnceFits DEF AtOnce
<1> HIDE DEF Fine
<1>7. ASSUME NEW r \in Requests,
             AssignRole(r) \/ RevokeRole(r) \/ PromoteRole(r) \/ RefuseReplacement(r)
      PROVE  Fine
  BY <1>4, <1>5, <1>7 DEF AssignRole, RevokeRole, PromoteRole, RefuseReplacement
<1>8. ASSUME NEW r \in Requests, ReplaceRoles(r)
      PROVE  Fine
  <2>1. area = "roles" /\ Fits(RoleOps) /\ area' = area /\ raced' = raced /\ cut' = cut
    BY <1>1, <1>3, <1>8 DEF ReplaceRoles
  <2>2. task' = [q \in Requests |->
                   IF q = r THEN Idle
                   ELSE IF At(q, "replace") THEN [task[q] EXCEPT !.seen = @ \ task[r].seen]
                   ELSE task[q]]
    BY <1>8 DEF ReplaceRoles
  <2>3. ASSUME NEW q \in Requests
        PROVE  Shape(task'[q]) /\ task'[q].op \in RoleOps \cup {"idle"}
    <3>1. Shape(task[q]) /\ task[q].op \in RoleOps \cup {"idle"}
      BY <2>1 DEF Fits, TasksOK
    <3>2. CASE q = r
      BY <2>2, <3>2, IdleShape DEF Idle
    <3>3. CASE q # r /\ At(q, "replace")
      <4>1. task'[q] = [task[q] EXCEPT !.seen = @ \ task[r].seen]
        BY <2>2, <3>3
      <4> QED
        BY <3>1, <4>1 DEF Shape
    <3>4. CASE q # r /\ ~At(q, "replace")
      BY <2>2, <3>1, <3>4
    <3> QED
      BY <3>2, <3>3, <3>4
  <2> QED
    BY <2>1, <2>2, <2>3 DEF Fine, Runs, Fits, TasksOK
<1> QED
  BY <1>2, <1>7, <1>8, <1>9 DEF RoleStep

LEMMA IncidentRuns ==
  ASSUME InArea, IncidentStep
  PROVE  area = "incidents" /\ Runs(IncidentOps)
<1> USE DEF InArea, OpsOf, SessionOps, RoleOps, IncidentOps, NoticeOps, At
<1>1. area = "incidents" => Fits(IncidentOps)
  OBVIOUS
<1> DEFINE Fine == area = "incidents" /\ Runs(IncidentOps)
<1> SUFFICES Fine
  OBVIOUS
<1>2. ASSUME NEW r \in Requests, NEW i \in IncidentIds,
             \/ \E t \in Technicians : OpenTechnicianAssignment(r, i, t)
             \/ \E new \in Status, actor \in Technicians \cup {Admin} : OpenStatusChange(r, i, new, actor)
      PROVE  Fine
  <2> USE DEF Idle, Shape, Open, Touch, Fits, TasksOK, Runs
  <2>1. CASE \E t \in Technicians : OpenTechnicianAssignment(r, i, t)
    BY <1>1, <2>1 DEF OpenTechnicianAssignment
  <2>2. ASSUME NEW new \in Status, NEW actor \in Technicians \cup {Admin},
               OpenStatusChange(r, i, new, actor)
        PROVE  Fine
    BY <1>1, <2>2 DEF OpenStatusChange
  <2> QED
    BY <1>2, <2>1, <2>2
<1>3. ASSUME NEW r \in Requests, OpenListing(r)
      PROVE  Fine
  BY <1>1, <1>3 DEF OpenListing, Idle, Shape, Open, Touch, Fits, TasksOK, Runs
<1>4. ASSUME NEW r \in Requests, task[r].op \in IncidentOps
      PROVE  area = "incidents"
  BY <1>4 DEF Fits
<1>5. ASSUME NEW r \in Requests, task[r].op \in IncidentOps, Close(r)
      PROVE  Fine
  BY <1>1, <1>4, <1>5, CloseFits
<1>6. ASSUME NEW r \in Requests, task[r].op \in IncidentOps, NEW op \in IncidentOps, Goto(r, op)
      PROVE  Fine
  BY <1>1, <1>4, <1>6, GotoFits
<1>7. ASSUME NEW objects, AtOnce({"incidents"}, objects)
      PROVE  Fine
  BY <1>1, <1>7, AtOnceFits DEF AtOnce
<1>8. ASSUME NEW r \in Requests, task[r].op \in IncidentOps, NEW op \in IncidentOps, NEW new,
             new.op = op, Shape(new), Proceed(r, new)
      PROVE  Fine
  BY <1>1, <1>4, <1>8, ProceedFits
<1>11. ASSUME NEW r \in Requests, ReadHolders(r)
       PROVE  Fine
  <2>1. Shape(task[r]) /\ task[r].op \in IncidentOps
    BY <1>11 DEF ReadHolders, Fits, TasksOK
  <2>2. CASE Close(r)
    BY <1>5, <2>1, <2>2
  <2>3. CASE ~Close(r)
    <3>1. PICK new : Proceed(r, new) /\ new = [task[r] EXCEPT !.op = "members", !.seen = staff.role]
      BY <1>11, <2>3 DEF ReadHolders
    <3>2. Shape(new) /\ new.op = "members"
      BY <2>1, <3>1 DEF Shape
    <3> QED
      BY <1>8, <2>1, <3>1, <3>2
  <2> QED
    BY <2>2, <2>3
<1>12. ASSUME NEW r \in Requests, ReadActive(r)
       PROVE  Fine
  <2>1. Shape(task[r]) /\ task[r].op \in IncidentOps
    BY <1>12 DEF ReadActive, Fits, TasksOK
  <2>2. PICK new : Proceed(r, new) /\ new = [task[r] EXCEPT !.op = "count", !.seen = @ \cap staff.active]
    BY <1>12 DEF ReadActive
  <2>3. Shape(new) /\ new.op = "count"
    BY <2>1, <2>2 DEF Shape
  <2> QED
    BY <1>8, <2>1, <2>2, <2>3
<1>13. ASSUME NEW r \in Requests, CountWork(r)
       PROVE  Fine
  <2>1. Shape(task[r]) /\ task[r].op \in IncidentOps
    BY <1>13 DEF CountWork, Fits, TasksOK
  <2>2. PICK new : /\ Proceed(r, new)
                   /\ new = [task[r] EXCEPT !.op = "keep",
                                !.kind = [members |-> task[r].seen, work |-> Workload(task[r].seen)]]
    BY <1>13 DEF CountWork
  <2>3. Shape(new) /\ new.op = "keep"
    BY <2>1, <2>2 DEF Shape
  <2> QED
    BY <1>8, <2>1, <2>2, <2>3
<1> HIDE DEF Fine
<1>9. ASSUME NEW r \in Requests,
             AssignTechnician(r) \/ UpdateStatus(r) \/ ForgetList(r) \/ KeepList(r)
      PROVE  Fine
  BY <1>5, <1>6, <1>9 DEF AssignTechnician, UpdateStatus, ForgetList, KeepList
<1>10. ASSUME \/ \E i \in IncidentIds : Report(i) \/ DeleteIncident(i)
              \/ \E t \in Technicians, column \in {"role", "active"} : ChangeStaff(t, column)
              \/ ExpireList
       PROVE  Fine
  BY <1>7, <1>10 DEF Report, DeleteIncident, ChangeStaff, ExpireList
<1> QED
  BY <1>2, <1>3, <1>9, <1>10, <1>11, <1>12, <1>13 DEF IncidentStep

LEMMA NoticeRuns ==
  ASSUME InArea, NoticeStep
  PROVE  \/ area \notin {"sessions", "roles", "incidents"} /\ Runs(NoticeOps)
         \/ UNCHANGED <<area, task, raced>> /\ cut \subseteq cut'
<1> USE DEF InArea, OpsOf, SessionOps, RoleOps, IncidentOps, NoticeOps, At
<1> DEFINE Here == area \notin {"sessions", "roles", "incidents"}
           Fine == Here /\ Runs(NoticeOps)
           Apart == UNCHANGED <<area, task, raced>> /\ cut \subseteq cut'
<1> SUFFICES Fine \/ Apart
  OBVIOUS
<1>1. Here => Fits(NoticeOps)
  OBVIOUS
<1>2. ASSUME NEW r \in Requests, task[r].op \in NoticeOps
      PROVE  Here /\ Shape(task[r])
  BY <1>2 DEF Fits, TasksOK
<1>3. ASSUME NEW r \in Requests, NEW users \in Recipients, OpenNotification(r, users)
      PROVE  Fine
  BY <1>1, <1>3 DEF OpenNotification, Shape, Open, Touch, Fits, TasksOK, Runs
<1>4. ASSUME NEW r \in Requests, WriteNotice(r)
      PROVE  Fine
  <2>1. Here /\ Shape(task[r]) /\ task[r].op = "write"
    BY <1>2, <1>4 DEF WriteNotice
  <2>2. PICK new : Proceed(r, new) /\ new = [task[r] EXCEPT !.seen = Append(@, NewNotice),
                                    !.on = @ \cup {NewNotice}, !.kind = Tail(@)]
    BY <1>4 DEF WriteNotice
  <2>3. Shape(new)
    BY <2>1, <2>2 DEF Shape
  <2>4. new.op = "write"
    BY <2>1, <2>2 DEF Shape
  <2> QED
    BY <1>1, <2>1, <2>2, <2>3, <2>4, ProceedFits
<1>5. ASSUME NEW r \in Requests, MissNotice(r)
      PROVE  Fine
  <2>1. Here /\ Shape(task[r]) /\ task[r].op = "write"
    BY <1>2, <1>5 DEF MissNotice
  <2>2. PICK new : Proceed(r, new) /\ new = [task[r] EXCEPT !.kind = Tail(@)]
    BY <1>5 DEF MissNotice
  <2>3. Shape(new)
    BY <2>1, <2>2 DEF Shape
  <2>4. new.op = "write"
    BY <2>1, <2>2 DEF Shape
  <2> QED
    BY <1>1, <2>1, <2>2, <2>3, <2>4, ProceedFits
<1>6. ASSUME NEW r \in Requests, QueueBatch(r)
      PROVE  Fine
  BY <1>1, <1>2, <1>6, CloseFits DEF QueueBatch
<1>7. ASSUME NEW users \in Recipients, QueueSend(users)
      PROVE  Fine
  BY <1>1, <1>7, AtOnceFits DEF QueueSend, AtOnce
<1>8. ASSUME NEW j \in jobs, MakeNotice(j) \/ ReadRecipient(j) \/ QueueDelivery(j) \/ EndJob(j)
      PROVE  Apart
  BY <1>8 DEF MakeNotice, ReadRecipient, QueueDelivery, EndJob, requestVars
<1>9. ASSUME NEW j \in jobs, FailJob(j) \/ StallJob(j)
      PROVE  Apart
  BY <1>9 DEF FailJob, StallJob, Fault, Abandon, requestVars
<1>10. ASSUME NEW d \in BagToSet(outbox),
              \/ Deliver(d) \/ UpdateDeliveryStatus(d) \/ FailDelivery(d) \/ StallDelivery(d)
       PROVE  Apart
  BY <1>10 DEF Deliver, UpdateDeliveryStatus, FailDelivery, StallDelivery, Lose, requestVars
<1>11. ASSUME NEW n \in Notices, DeleteNotice(n)
       PROVE  Apart
  BY <1>11 DEF DeleteNotice, requestVars
<1> HIDE DEF Fine, Apart
<1> QED
  BY <1>3, <1>4, <1>5, <1>6, <1>7, <1>8, <1>9, <1>10, <1>11 DEF NoticeStep, NoticeWork

\* Every step leaves the requests in their area; those of the first three areas
\* take no step in another.
LEMMA DeskRuns ==
  ASSUME InArea, DeskNext
  PROVE  InArea' /\ area' = area /\ raced \subseteq raced' /\ cut \subseteq cut'
<1>1. CASE SessionStep
  BY <1>1, SessionRuns DEF InArea, OpsOf, Runs
<1>2. CASE RoleStep
  BY <1>2, RoleRuns DEF InArea, OpsOf, Runs
<1>3. CASE IncidentStep
  BY <1>3, IncidentRuns DEF InArea, OpsOf, Runs
<1>4. CASE NoticeStep
  BY <1>4, NoticeRuns DEF InArea, OpsOf, Runs, Fits, TasksOK
<1>5. CASE FailAny
  BY <1>5, FailFits DEF FailAny, InArea, OpsOf, Runs
<1> QED
  BY <1>1, <1>2, <1>3, <1>4, <1>5 DEF DeskNext

-----------------------------------------------------------------------------
(* Roles *)

RolesExcused == Raced(User) \/ User \in cut

\* What a request that changes roles relies on from its first statement on:
\* nobody else changes them.
RoleTask(r) ==
    /\ task[r].op # "idle" => User \in task[r].on
    /\ At(r, "grant") => task[r].row \in Roles
    /\ At(r, "replace") => /\ task[r].kind \subseteq Roles /\ task[r].row \in task[r].kind
                           /\ Cardinality(task[r].kind) <= MaxRoles
    /\ ~RolesExcused =>
        /\ At(r, "grant") => Cardinality(roles) < MaxRoles
        /\ At(r, "revokeRole") => /\ task[r].row \in roles /\ Cardinality(roles) > 1
                                  /\ task[r].seen = roles /\ task[r].kind = primary
        /\ At(r, "promote") => task[r].seen \ {task[r].row} = roles
        /\ At(r, "replace") => task[r].seen = roles

RolesInv ==
    /\ InArea
    /\ roles \subseteq Roles
    /\ area = "roles" => Exclusive(User) /\ \A r \in Requests : RoleTask(r)
    /\ ~RolesExcused =>
        /\ Cardinality(roles) \in 1..MaxRoles
        /\ primary \in roles \/ \E r \in Requests : At(r, "promote")

LEMMA RolesCounted ==
  ASSUME NEW S \in SUBSET Roles
  PROVE  /\ IsFiniteSet(S) /\ Cardinality(S) \in Nat
         /\ \A role : /\ Cardinality(S \ {role}) = IF role \in S THEN Cardinality(S) - 1 ELSE Cardinality(S)
                      /\ Cardinality(S \cup {role}) = IF role \in S THEN Cardinality(S) ELSE Cardinality(S) + 1
         /\ Cardinality(S) = 0 <=> S = {}
  <1>1. IsFiniteSet(S)
    BY RoleAssumption, FS_Subset
  <1> QED
    BY <1>1, FS_CardinalityType, FS_RemoveElement, FS_AddElement, FS_EmptySet

LEMMA RolesInit == DeskInit => RolesInv
  <1> SUFFICES ASSUME DeskInit PROVE RolesInv
    OBVIOUS
  <1> USE DEF DeskInit, RequestInit, RoleInit
  <1>1. InArea
    BY IdleShape DEF InArea, Fits, TasksOK, OpsOf, Idle
  <1>2. primary \in Roles /\ roles = {primary}
    BY RoleAssumption
  <1>3. Cardinality({primary}) = 1
    BY FS_Singleton
  <1>4. Cardinality(roles) \in 1..MaxRoles
    BY <1>2, <1>3, RoleAssumption
  <1> QED
    BY <1>1, <1>2, <1>4 DEF RolesInv, Exclusive, RoleTask, Idle, At

\* The first statement of a request that changes roles.
LEMMA RolesOpened ==
  ASSUME RolesInv, area = "roles", NEW r \in Requests, NEW role \in Roles,
         NEW new \in SUBSET Roles, InArea',
         OpenRoleAssignment(r, role) \/ OpenRevocation(r, role) \/ OpenReplacement(r, new, role)
  PROVE  RolesInv'
<1> USE DEF RolesInv, roleVars
<1>1. Exclusive(User)' /\ UNCHANGED roleVars /\ UNCHANGED area
  <2>1. CASE OpenRoleAssignment(r, role)
    BY <2>1 DEF OpenRoleAssignment, InArea, Fits, TasksOK, Idle, Open, Touch, InHand, Exclusive
  <2>2. CASE OpenRevocation(r, role)
    BY <2>2, OpenExclusive, OpenFacts DEF OpenRevocation, InArea, Fits, Shape, Idle
  <2>3. CASE OpenReplacement(r, new, role)
    BY <2>3, OpenExclusive, OpenFacts DEF OpenReplacement, InArea, Fits, Shape, Idle
  <2> QED
    BY <2>1, <2>2, <2>3
<1>2. /\ task[r].op = "idle" /\ \A q \in Requests : q # r => task'[q] = task[q]
      /\ User \in task'[r].on /\ task'[r].row = role
      /\ \/ task'[r].op = "grant" /\ MayAssign(role)
         \/ /\ task'[r].op = "revokeRole" /\ role \in roles /\ Cardinality(roles) > 1
            /\ task'[r].seen = roles /\ task'[r].kind = primary
         \/ /\ task'[r].op = "replace" /\ task'[r].seen = roles /\ task'[r].kind = new
            /\ role \in new /\ Cardinality(new) <= MaxRoles
  <2>1. CASE OpenRoleAssignment(r, role)
    BY <2>1 DEF OpenRoleAssignment, InArea, Fits, TasksOK, Idle, Open, Free
  <2>2. CASE OpenRevocation(r, role)
    BY <2>2 DEF OpenRevocation, InArea, Fits, TasksOK, Open, Free
  <2>3. CASE OpenReplacement(r, new, role)
    BY <2>3 DEF OpenReplacement, InArea, Fits, TasksOK, Open, Free
  <2> QED
    BY <2>1, <2>2, <2>3
<1>3. raced \subseteq raced' /\ cut' = cut
  BY DEF OpenRoleAssignment, OpenRevocation, OpenReplacement, Open, Touch
<1>4. ASSUME NEW q \in Requests, task[q].op # "idle"
      PROVE  RolesExcused'
  BY <1>1, <1>2, <1>4 DEF RoleTask, Exclusive, RolesExcused, Raced
<1>5. ASSUME NEW q \in Requests PROVE RoleTask(q)'
  BY <1>1, <1>2, <1>4, RolesCounted DEF RoleTask, At, MayAssign
<1>6. ~RolesExcused' => /\ Cardinality(roles) \in 1..MaxRoles
                        /\ primary \in roles \/ \E s \in Requests : At(s, "promote")'
  BY <1>2, <1>3, <1>4 DEF RolesExcused, Raced, At
<1> QED
  BY <1>1, <1>5, <1>6

\* Every other step that changes roles.
LEMMA RolesGoOn ==
  ASSUME RolesInv, area = "roles", area' = area, NEW r \in Requests,
         AssignRole(r) \/ RevokeRole(r) \/ PromoteRole(r) \/ RefuseReplacement(r), InArea'
  PROVE  RolesInv'
<1> USE DEF RolesInv
<1>1. /\ Exclusive(User)' /\ RolesExcused' = RolesExcused
      /\ \A q \in Requests : q # r => task'[q] = task[q]
      /\ task'[r].op # "idle" => /\ task[r].op = "revokeRole" /\ task'[r].op = "promote"
                                 /\ task'[r].row = task[r].row /\ task'[r].seen = task[r].seen
                                 /\ task'[r].on = task[r].on
  <2>1. CASE AssignRole(r)
    BY <2>1, CloseFacts DEF AssignRole, InArea, Fits, Becomes, Idle, RolesExcused, Raced
  <2>2. CASE RevokeRole(r) /\ Close(r)
    BY <2>2, CloseFacts DEF InArea, Fits, Becomes, Idle, RolesExcused, Raced
  <2>3. CASE RevokeRole(r) /\ Goto(r, "promote")
    <3>1. /\ Exclusive(User)' /\ RolesExcused' = RolesExcused
          /\ Becomes(r, [task[r] EXCEPT !.op = "promote"])
      BY <2>3, GotoFacts DEF InArea, Fits, RolesExcused, Raced
    <3> QED
      BY <2>3, <3>1 DEF RevokeRole, At, Becomes, InArea, Fits, TasksOK, Shape
  <2>4. CASE PromoteRole(r)
    BY <2>4, CloseFacts DEF PromoteRole, InArea, Fits, Becomes, Idle, RolesExcused, Raced
  <2>5. CASE RefuseReplacement(r)
    BY <2>5, CloseFacts DEF RefuseReplacement, InArea, Fits, Becomes, Idle, RolesExcused, Raced
  <2> QED
    BY <2>1, <2>2, <2>3, <2>4, <2>5 DEF RevokeRole
<1>2. ASSUME NEW q \in Requests, q # r, ~RolesExcused
      PROVE  task[q].op = "idle"
  BY <1>2 DEF RoleTask, Exclusive, RolesExcused, Raced, At, AssignRole, RevokeRole, PromoteRole,
     RefuseReplacement
<1>3. roles' \subseteq Roles
  BY DEF AssignRole, RevokeRole, PromoteRole, RefuseReplacement, RoleTask, At, roleVars
<1>4. ASSUME NEW q \in Requests PROVE RoleTask(q)'
  <2>1. CASE q = r
    BY <1>1, <2>1 DEF RoleTask, At, RevokeRole, AfterRevocation, Close, Proceed, AssignRole,
       PromoteRole, RefuseReplacement
  <2>2. CASE q # r
    BY <1>1, <1>2, <2>2 DEF RoleTask, At
  <2> QED
    BY <2>1, <2>2
<1>5. ASSUME ~RolesExcused
      PROVE  /\ Cardinality(roles') \in 1..MaxRoles
             /\ primary' \in roles' \/ \E s \in Requests : At(s, "promote")'
  <2>1. CASE AssignRole(r)
    <3>1. /\ roles' = roles \cup {task[r].row} /\ task[r].row \notin roles
          /\ Cardinality(roles) < MaxRoles /\ primary' = primary
      BY <1>5, <2>1 DEF AssignRole, RoleTask, At
    <3>2. Cardinality(roles') = Cardinality(roles) + 1 /\ Cardinality(roles) \in Nat
      BY <3>1, RolesCounted
    <3>3. primary \in roles
      BY <1>2, <1>5, <2>1 DEF AssignRole, At
    <3> QED
      BY <3>1, <3>2, <3>3, RoleAssumption
  <2>2. CASE RevokeRole(r)
    <3>1. /\ Cardinality(roles') = Cardinality(roles) - 1 /\ Cardinality(roles) > 1
          /\ roles' = roles \ {task[r].row} /\ task[r].kind = primary
      BY <1>5, <2>2, RolesCounted DEF RevokeRole, RoleTask, At
    <3>2. primary \in roles
      BY <1>2, <1>5, <2>2 DEF RevokeRole, At
    <3>3. CASE Close(r)
      <4>1. task[r].kind # task[r].row
        BY <2>2, <3>3, CloseFacts DEF RevokeRole, AfterRevocation, Goto, Proceed, At, Close, Idle,
           InArea, Fits, TasksOK, Shape
      <4> QED
        BY <1>5, <2>2, <3>1, <3>2, <4>1, RolesCounted, RoleAssumption DEF RevokeRole
    <3>4. CASE Goto(r, "promote")
      <4>1. task'[r].op = "promote"
        BY <3>4, GotoFacts DEF InArea, Fits, Becomes, TasksOK, Shape
      <4> QED
        BY <1>5, <3>1, <4>1, RolesCounted, RoleAssumption DEF At
    <3> QED
      BY <2>2, <3>3, <3>4 DEF RevokeRole
  <2>3. CASE PromoteRole(r)
    BY <1>5, <2>3 DEF PromoteRole, RoleTask, At
  <2>4. CASE RefuseReplacement(r)
    <3>1. primary \in roles
      BY <1>2, <1>5, <2>4 DEF RefuseReplacement, At
    <3> QED
      BY <1>5, <2>4, <3>1 DEF RefuseReplacement, roleVars
  <2> QED
    BY <2>1, <2>2, <2>3, <2>4
<1> QED
  BY <1>1, <1>3, <1>4, <1>5

\* The roles are replaced; another request that waits to replace them is told
\* that they are gone.
LEMMA RolesReplaced ==
  ASSUME RolesInv, area = "roles", area' = area, NEW r \in Requests, ReplaceRoles(r), InArea'
  PROVE  RolesInv'
<1> USE DEF RolesInv
<1>1. /\ task'[r] = Idle /\ cut' = cut /\ raced' = raced /\ RolesExcused' = RolesExcused
      /\ roles' = (roles \ task[r].seen) \cup task[r].kind /\ primary' = task[r].row
      /\ At(r, "replace") /\ RoleTask(r)
  BY DEF ReplaceRoles, InArea, Fits, TasksOK, RolesExcused, Raced
<1>2. ASSUME NEW q \in Requests, q # r
      PROVE  /\ task'[q].op = task[q].op /\ task'[q].on = task[q].on
             /\ task'[q].row = task[q].row /\ task'[q].kind = task[q].kind
             /\ At(q, "replace") \/ task'[q] = task[q]
  <2>1. Shape(task[q])
    BY DEF InArea, Fits, TasksOK
  <2>2. task'[q] = IF At(q, "replace") THEN [task[q] EXCEPT !.seen = @ \ task[r].seen] ELSE task[q]
    BY <1>2 DEF ReplaceRoles
  <2> QED
    BY <2>1, <2>2 DEF Shape
<1>3. Exclusive(User)'
  BY <1>1, <1>2 DEF Exclusive, Idle
<1>4. ASSUME NEW q \in Requests, q # r, ~RolesExcused
      PROVE  task[q].op = "idle"
  BY <1>1, <1>4 DEF RoleTask, Exclusive, RolesExcused, Raced, At
<1>5. ASSUME NEW q \in Requests PROVE RoleTask(q)'
  <2>1. CASE q = r
    BY <1>1, <2>1 DEF RoleTask, At, Idle
  <2>2. CASE q # r
    BY <1>1, <1>2, <1>4, <2>2 DEF RoleTask, At
  <2> QED
    BY <2>1, <2>2
<1>6. roles' \subseteq Roles
  BY <1>1 DEF RoleTask
<1>7. ASSUME ~RolesExcused
      PROVE  Cardinality(roles') \in 1..MaxRoles /\ primary' \in roles'
  <2>1. /\ roles' = task[r].kind /\ primary' \in roles' /\ Cardinality(roles') <= MaxRoles
    BY <1>1, <1>7 DEF RoleTask
  <2> QED
    BY <1>6, <2>1, RolesCounted, RoleAssumption
<1> QED
  BY <1>1, <1>3, <1>5, <1>6, <1>7

\* A step of another part leaves the roles as they are.
LEMMA RolesUntouched ==
  ASSUME RolesInv, DeskNext, ~RoleStep, InArea', area' = area,
         raced \subseteq raced', cut \subseteq cut'
  PROVE  RolesInv'
<1> USE DEF RolesInv
<1>1. UNCHANGED roleVars
  BY DEF DeskNext, BesidesSessions, BesidesIncidents, BesidesNotices, FailAny
<1>2. RolesExcused => RolesExcused'
  BY DEF RolesExcused, Raced
<1>3. CASE area # "roles"
  <2>1. ~\E r \in Requests : At(r, "promote")
    BY <1>3 DEF InArea, Fits, OpsOf, SessionOps, IncidentOps, NoticeOps, At
  <2> QED
    BY <1>1, <1>2, <1>3, <2>1 DEF roleVars
<1>4. CASE area = "roles" /\ UNCHANGED <<task, raced>>
  BY <1>1, <1>2, <1>4 DEF roleVars, RoleTask, Exclusive, At
<1>5. CASE area = "roles" /\ FailAny
  <2>1. PICK r \in Requests : Fail(r)
    BY <1>5 DEF FailAny
  <2>2. /\ task[r].op # "idle" /\ cut' = cut \cup task[r].on /\ Becomes(r, Idle) /\ Exclusive(User)'
    BY <1>5, <2>1, FailFacts DEF Fail, Free, InArea, Fits
  <2>3. RolesExcused'
    BY <1>5, <2>2 DEF RolesExcused, RoleTask
  <2> QED
    BY <1>1, <1>5, <2>2, <2>3 DEF roleVars, RoleTask, Becomes, Idle, At
<1> QED
  BY <1>3, <1>4, <1>5, SessionRuns, IncidentRuns, NoticeRuns DEF DeskNext

LEMMA RolesStep ==
  ASSUME RolesInv, [DeskNext]_deskVars
  PROVE  RolesInv'
<1>1. CASE DeskNext
  <2>1. InArea' /\ area' = area /\ raced \subseteq raced' /\ cut \subseteq cut'
    BY <1>1, DeskRuns DEF RolesInv
  <2>2. CASE RoleStep
    <3>1. area = "roles"
      BY <2>2, RoleRuns DEF RolesInv
    <3> QED
      BY <2>1, <2>2, <3>1, RolesOpened, RolesGoOn, RolesReplaced DEF RoleStep
  <2> QED
    BY <1>1, <2>1, <2>2, RolesUntouched
<1>2. CASE UNCHANGED deskVars
  BY <1>2 DEF deskVars, requestVars, roleVars, RolesInv, InArea, Fits, TasksOK, Shape, OpsOf,
     Exclusive, RoleTask, RolesExcused, Raced, At
<1> QED
  BY <1>1, <1>2

\* A user keeps one to three roles, the primary one among them, for every number
\* of roles and requests, unless two requests changed them at once or a
\* revocation stopped half way (users.service assignRole, revokeRole, update).
THEOREM RolesStayKept == DeskSpec => []RolesKept
<1>1. RolesInv => RolesKept
  BY DEF RolesInv, RolesKept, RolesExcused
<1> QED
  BY <1>1, RolesInit, RolesStep, PTL DEF DeskSpec

-----------------------------------------------------------------------------
(* Sessions *)

\* What a request that works on tokens relies on: the row it is to write is its
\* own, and no other request renews the sign-in.
TokenTask(r) ==
    /\ task[r].op \in {"enter", "attach"} =>
        \/ task[r].op = "attach" /\ task[r].row = NoRow
        \/ task[r].row \in Tokens /\ ~Issued(task[r].row) /\ InHand(task[r].row) = {r}
    /\ task[r].op \in {"revoke", "renew"} =>
        LET f == token[task[r].row].from
        IN  /\ task[r].row \in Tokens /\ Issued(task[r].row) /\ f \in task[r].on
            /\ Raced(f) \/ Live(f) \subseteq IF task[r].op = "revoke" THEN {task[r].row} ELSE {}

TokenInv ==
    /\ token \in [Tokens -> [status : {"absent", "valid", "revoked"}, from : Tokens \cup {NoRow}]]
    /\ \A s \in Tokens : Issued(s) => token[s].from \in Tokens /\ Issued(token[s].from)
    /\ \A f \in Tokens : Exclusive(f) /\ (Raced(f) \/ \A s, t \in Live(f) : s = t)
    /\ ended \subseteq Tokens
    /\ \A f \in ended : Issued(f) /\ Live(f) = {} /\ InHand(f) = {}
    /\ \A r \in Requests : TokenTask(r)

\* The requests that change the links have them in hand, and one that is to
\* remove a link leaves another way in.
LinkTask(r) ==
    /\ task[r].op \in {"attach", "unlink", "detach"} => Links \in task[r].on
    /\ task[r].op = "attach" => task[r].kind \in Google
    /\ task[r].op = "detach" => Raced(Links) \/ OtherWayIn
    /\ task[r].op = "update" => /\ task[r].row \in BOOLEAN \cup {NoRow}
                                /\ task[r].kind \in BOOLEAN

LinkInv ==
    /\ user \in [active : BOOLEAN, password : BOOLEAN] /\ linked \subseteq Google
    /\ Exclusive(Links)
    /\ Raced(Links) \/ user.password \/ linked # {}
    /\ \A r \in Requests : LinkTask(r)

\* Once two links are good, or one while another is about to be sent, two
\* requests for links have overlapped.
AllRaced == \A t \in ResetTokens : Raced(t)

ResetInv ==
    /\ reset \in [ResetTokens -> {"absent", "valid", "used"}]
    /\ \A t \in ResetTokens : Exclusive(t)
    /\ \A r \in Requests : task[r].op \in {"invalidate", "send"} => ResetTokens \subseteq task[r].on
    /\ \A t \in ResetTokens : reset[t] = "valid" =>
        \/ AllRaced
        \/ /\ \A u \in ResetTokens : reset[u] = "valid" => t = u
           /\ \A r \in Requests : task[r].op # "send"

SessionInv ==
    /\ InArea
    /\ area = "sessions" => TokenInv /\ LinkInv /\ ResetInv
    /\ area # "sessions" =>
        /\ user.password /\ ended = {}
        /\ \A s \in Tokens : ~Issued(s)
        /\ \A t \in ResetTokens : reset[t] = "absent"

-----------------------------------------------------------------------------
(* Sessions: the first statement of a request *)

\* What a request is about when it begins.
Beginning(t) ==
    /\ Shape(t)
    /\ t.op \in {"enter", "attach", "revoke", "invalidate", "reset", "change", "update", "unlink"}
    /\ t.op \in {"attach", "unlink"} => Links \in t.on
    /\ t.op = "attach" => t.kind \in Google
    /\ t.op = "update" => t.row \in BOOLEAN \cup {NoRow} /\ t.kind \in BOOLEAN
    /\ t.op \in {"enter", "attach"} =>
        \/ t.row \in Unused /\ t.row \in t.on
        \/ t.op = "attach" /\ t.row = NoRow
    /\ t.op = "revoke" => t.row \in Tokens /\ Valid(t.row) /\ token[t.row].from \in t.on
    /\ t.op = "invalidate" => ResetTokens \subseteq t.on
    /\ \A f \in Tokens : f \in t.on =>
        \/ t.op \in {"enter", "attach"} /\ f = t.row /\ f \in Unused
        \/ t.op = "revoke" /\ f = token[t.row].from

Begins(r) == \E new : Open(r, {"sessions"}, new) /\ Beginning(new) /\ UNCHANGED sessionVars

LEMMA OpenBegins ==
  ASSUME NEW r \in Requests,
         \/ OpenLogin(r) \/ OpenPasswordChange(r) \/ ForgotPassword(r) \/ OpenUnlink(r)
         \/ \E g \in Google : OpenGoogleLogin(r, g) \/ OpenLink(r, g)
         \/ \E s \in Tokens : OpenRefresh(r, s)
         \/ \E t \in ResetTokens : OpenReset(r, t)
         \/ \E active \in BOOLEAN \cup {NoRow}, password \in BOOLEAN : OpenUpdate(r, active, password)
  PROVE  Begins(r)
<1> USE SessionAssumption DEF Beginning, Shape, Idle, Frame, sessionVars
<1>1. CASE OpenLogin(r)
  <2>1. NewToken \in Unused /\ Unused \subseteq Tokens
    BY <1>1 DEF OpenLogin, NewToken, Unused
  <2>2. PICK new : /\ new = [Idle EXCEPT !.op = "enter", !.on = {NewToken}, !.row = NewToken]
                   /\ Open(r, {"sessions"}, new)
    BY <1>1 DEF OpenLogin
  <2>3. Beginning(new)
    BY <2>1, <2>2
  <2> HIDE DEF Beginning
  <2> QED
    BY <1>1, <2>2, <2>3 DEF Begins, OpenLogin
<1>2. CASE OpenPasswordChange(r)
  <2>1. PICK new : /\ new = [Idle EXCEPT !.op = "change"]
                   /\ Open(r, {"sessions"}, new)
    BY <1>2 DEF OpenPasswordChange
  <2>2. Beginning(new)
    BY <1>2, <2>1 DEF OpenPasswordChange
  <2> HIDE DEF Beginning
  <2> QED
    BY <1>2, <2>1, <2>2 DEF Begins, OpenPasswordChange
<1>3. CASE ForgotPassword(r)
  <2>1. PICK new : /\ new = [Idle EXCEPT !.op = "invalidate", !.on = ResetTokens]
                   /\ Open(r, {"sessions"}, new)
    BY <1>3 DEF ForgotPassword
  <2>2. Beginning(new)
    BY <1>3, <2>1 DEF ForgotPassword
  <2> HIDE DEF Beginning
  <2> QED
    BY <1>3, <2>1, <2>2 DEF Begins, ForgotPassword
<1>4. ASSUME NEW g \in linked,
             Open(r, {"sessions"}, [Idle EXCEPT !.op = "unlink", !.on = {Links}, !.kind = g]), Frame
      PROVE  Begins(r)
  <2>1. PICK new : /\ new = [Idle EXCEPT !.op = "unlink", !.on = {Links}, !.kind = g]
                   /\ Open(r, {"sessions"}, new)
    BY <1>4 DEF OpenUnlink
  <2>2. Beginning(new)
    BY <1>4, <2>1 DEF OpenUnlink
  <2> HIDE DEF Beginning
  <2> QED
    BY <1>4, <2>1, <2>2 DEF Begins, OpenUnlink
<1>5. ASSUME NEW g \in Google, OpenGoogleLogin(r, g)
      PROVE  Begins(r)
  <2>1. NewToken \in Unused /\ Unused \subseteq Tokens
    BY <1>5 DEF OpenGoogleLogin, NewToken, Unused
  <2>2. CASE g \in linked
    <3>1. PICK new : /\ new = [Idle EXCEPT !.op = "enter", !.row = NewToken,
                                          !.on = {NewToken} \cup {}, !.kind = g]
                     /\ Open(r, {"sessions"}, new)
      BY <1>5, <2>2 DEF OpenGoogleLogin
    <3>2. Beginning(new)
      BY <2>1, <3>1
    <3> HIDE DEF Beginning
    <3> QED
      BY <1>5, <3>1, <3>2 DEF Begins, OpenGoogleLogin
  <2>3. CASE g \notin linked
    <3>1. PICK new : /\ new = [Idle EXCEPT !.op = "attach", !.row = NewToken,
                                          !.on = {NewToken} \cup {Links}, !.kind = g]
                     /\ Open(r, {"sessions"}, new)
      BY <1>5, <2>3 DEF OpenGoogleLogin
    <3>2. Beginning(new)
      BY <2>1, <3>1
    <3> HIDE DEF Beginning
    <3> QED
      BY <1>5, <3>1, <3>2 DEF Begins, OpenGoogleLogin
  <2> QED
    BY <2>2, <2>3
<1>6. ASSUME NEW g \in Google, OpenLink(r, g)
      PROVE  Begins(r)
  <2>1. PICK new : /\ new = [Idle EXCEPT !.op = "attach", !.on = {Links}, !.kind = g]
                   /\ Open(r, {"sessions"}, new)
    BY <1>6 DEF OpenLink
  <2>2. Beginning(new)
    BY <1>6, <2>1 DEF OpenLink
  <2> HIDE DEF Beginning
  <2> QED
    BY <1>6, <2>1, <2>2 DEF Begins, OpenLink
<1>7. ASSUME NEW s \in Tokens, OpenRefresh(r, s)
      PROVE  Begins(r)
  <2>1. PICK new : /\ new = [Idle EXCEPT !.op = "revoke", !.on = {token[s].from}, !.row = s]
                   /\ Open(r, {"sessions"}, new)
    BY <1>7 DEF OpenRefresh
  <2>2. Beginning(new)
    BY <1>7, <2>1 DEF OpenRefresh, MayRefresh
  <2> HIDE DEF Beginning
  <2> QED
    BY <1>7, <2>1, <2>2 DEF Begins, OpenRefresh
<1>8. ASSUME NEW t \in ResetTokens, OpenReset(r, t)
      PROVE  Begins(r)
  <2>1. PICK new : /\ new = [Idle EXCEPT !.op = "reset", !.on = {t}, !.row = t]
                   /\ Open(r, {"sessions"}, new)
    BY <1>8 DEF OpenReset
  <2>2. Beginning(new)
    BY <1>8, <2>1 DEF OpenReset
  <2> HIDE DEF Beginning
  <2> QED
    BY <1>8, <2>1, <2>2 DEF Begins, OpenReset
<1>9. ASSUME NEW active \in BOOLEAN \cup {NoRow}, NEW password \in BOOLEAN,
             OpenUpdate(r, active, password)
      PROVE  Begins(r)
  <2>1. PICK new : /\ new = [op |-> "update", on |-> {}, row |-> active, seen |-> user.active,
                             kind |-> password]
                   /\ Open(r, {"sessions"}, new)
    BY <1>9 DEF OpenUpdate
  <2>2. Beginning(new)
    BY <1>9, <2>1
  <2> HIDE DEF Beginning
  <2> QED
    BY <1>9, <2>1, <2>2 DEF Begins, OpenUpdate
<1> QED
  BY <1>1, <1>2, <1>3, <1>4, <1>5, <1>6, <1>7, <1>8, <1>9 DEF OpenUnlink

LEMMA TokenBegun ==
  ASSUME TasksOK, TokenInv, NEW r \in Requests, Begins(r)
  PROVE  TokenInv'
<1> USE DEF TokenInv
<1>1. PICK new : Open(r, {"sessions"}, new) /\ Beginning(new) /\ UNCHANGED sessionVars
  BY DEF Begins
<1>2. /\ Becomes(r, new) /\ task[r].op = "idle" /\ raced \subseteq raced' /\ UNCHANGED <<token, ended>>
  BY <1>1, OpenFacts DEF Beginning, sessionVars
<1>3. \A f \in Tokens : Exclusive(f)'
  BY <1>1, OpenExclusive DEF Beginning
<1>4. ASSUME NEW f \in Tokens, f \in new.on
      PROVE  \/ new.op \in {"enter", "attach"} /\ f = new.row /\ InHand(f) = {} /\ ~Issued(f)
             \/ new.op = "revoke" /\ f = token[new.row].from /\ Issued(f) /\ new.row \in Live(f)
  BY <1>1, <1>4 DEF Beginning, Unused, Valid, Issued, Live
<1>5. \A f \in Tokens : InHand(f)' \ {r} = InHand(f) \ {r} /\ (r \in InHand(f)' <=> f \in new.on)
  BY <1>2 DEF InHand, Becomes
<1>6. ASSUME NEW q \in Requests PROVE TokenTask(q)'
  <2>1. CASE q = r
    <3>1. CASE new.op \in {"enter", "attach"}
      <4>1. CASE new.op = "attach" /\ new.row = NoRow
        BY <1>2, <2>1, <4>1 DEF TokenTask, Becomes
      <4>2. CASE new.row \in Unused /\ new.row \in new.on
        <5>1. InHand(new.row) = {} /\ new.row \in Tokens /\ ~Issued(new.row)
          BY <4>2 DEF Unused
        <5>2. InHand(new.row)' = {r}
          BY <1>5, <4>2, <5>1 DEF InHand
        <5> QED
          BY <1>2, <2>1, <3>1, <5>1, <5>2 DEF TokenTask, Becomes, Issued
      <4> QED
        BY <1>1, <3>1, <4>1, <4>2 DEF Beginning
    <3>2. CASE new.op = "revoke"
      <4>1. /\ new.row \in Tokens /\ Valid(new.row) /\ Issued(new.row)
            /\ token[new.row].from \in new.on /\ token[new.row].from \in Tokens
        BY <1>1, <3>2 DEF Beginning, Valid, Issued
      <4>2. Raced(token[new.row].from) \/ Live(token[new.row].from) \subseteq {new.row}
        BY <4>1 DEF Live
      <4> QED
        BY <1>2, <2>1, <3>2, <4>1, <4>2 DEF TokenTask, Becomes, Raced, Live, Valid, Issued
    <3> QED
      BY <1>1, <1>2, <2>1, <3>1, <3>2 DEF TokenTask, Becomes, Beginning
  <2>2. CASE q # r
    <3>1. ASSUME NEW f \in Tokens, ~Issued(f), InHand(f) = {q}
          PROVE  InHand(f)' = {q}
      <4>1. f \notin new.on
        BY <1>4, <3>1
      <4> QED
        BY <1>5, <2>2, <3>1, <4>1
    <3> QED
      BY <1>2, <2>2, <3>1 DEF TokenTask, Becomes, Raced, Live, Valid, Issued
  <2> QED
    BY <2>1, <2>2
<1>7. ASSUME NEW f \in ended PROVE (Issued(f) /\ Live(f) = {} /\ InHand(f) = {})'
  <2>1. f \notin new.on
    BY <1>4
  <2> QED
    BY <1>2, <1>5, <2>1 DEF InHand, Issued, Live, Valid
<1> QED
  BY <1>2, <1>3, <1>6, <1>7 DEF Issued, Live, Valid, Raced

LEMMA LinkBegun ==
  ASSUME TasksOK, LinkInv, NEW r \in Requests, Begins(r)
  PROVE  LinkInv'
<1> USE DEF LinkInv
<1>1. PICK new : Open(r, {"sessions"}, new) /\ Beginning(new) /\ UNCHANGED sessionVars
  BY DEF Begins
<1>2. /\ Becomes(r, new) /\ raced \subseteq raced' /\ UNCHANGED <<user, linked>>
      /\ Exclusive(Links)'
  BY <1>1, OpenFacts, OpenExclusive DEF Beginning, sessionVars
<1>3. ASSUME NEW q \in Requests PROVE LinkTask(q)'
  BY <1>1, <1>2 DEF LinkTask, Becomes, Beginning, OtherWayIn, Raced
<1> QED
  BY <1>2, <1>3 DEF Raced

LEMMA ResetBegun ==
  ASSUME TasksOK, ResetInv, NEW r \in Requests, Begins(r)
  PROVE  ResetInv'
<1> USE DEF ResetInv
<1>1. PICK new : Open(r, {"sessions"}, new) /\ Beginning(new) /\ UNCHANGED sessionVars
  BY DEF Begins
<1>2. /\ Becomes(r, new) /\ raced \subseteq raced' /\ reset' = reset
  BY <1>1, OpenFacts DEF Beginning, sessionVars
<1>3. \A t \in ResetTokens : Exclusive(t)'
  BY <1>1, OpenExclusive DEF Beginning
<1> QED
  BY <1>1, <1>2, <1>3 DEF Becomes, Beginning, AllRaced, Raced

-----------------------------------------------------------------------------
(* Sessions: the later statements *)

\* A statement that writes neither tokens nor what was ended.
LEMMA TokenLeft ==
  ASSUME TokenInv, NEW r \in Requests, UNCHANGED <<token, ended>>,
         NEW op \in SessionOps \cup {"idle"}, Later(r, op),
         \/ op \notin {"enter", "attach", "revoke", "renew"}
         \/ op = "enter" /\ task[r].op = "attach" /\ task[r].row # NoRow
  PROVE  TokenInv'
<1> USE DEF TokenInv, Later
<1>1. \A f \in Tokens : /\ InHand(f)' \subseteq InHand(f)
                        /\ \A q \in Requests : q # r => (q \in InHand(f)' <=> q \in InHand(f))
                        /\ op # "idle" => InHand(f)' = InHand(f)
  BY DEF InHand
<1>2. ASSUME NEW q \in Requests PROVE TokenTask(q)'
  <2>1. CASE q # r
    <3>1. ASSUME NEW f \in Tokens, InHand(f) = {q} PROVE InHand(f)' = {q}
      BY <1>1, <2>1, <3>1
    <3> QED
      BY <2>1, <3>1 DEF TokenTask, Raced, Live, Valid, Issued
  <2>2. CASE q = r
    <3>1. CASE op = "enter"
      <4>1. PICK f \in Tokens : f = task[r].row /\ ~Issued(f) /\ InHand(f) = {r}
        BY <3>1 DEF TokenTask
      <4>2. InHand(f)' = {r}
        BY <1>1, <3>1, <4>1
      <4> QED
        BY <2>2, <3>1, <4>1, <4>2 DEF TokenTask, Issued
    <3>2. CASE op # "enter"
      BY <2>2, <3>2 DEF TokenTask, SessionOps
    <3> QED
      BY <3>1, <3>2
  <2> QED
    BY <2>1, <2>2
<1>3. ASSUME NEW f \in ended PROVE (Issued(f) /\ Live(f) = {} /\ InHand(f) = {})'
  BY <1>1 DEF Issued, Live, Valid
<1> QED
  BY <1>2, <1>3 DEF Issued, Live, Valid, Raced

\* A sign-in gets its first token.
LEMMA TokenEntered ==
  ASSUME TasksOK, TokenInv, NEW r \in Requests, Enter(r)
  PROVE  TokenInv'
<1> USE DEF TokenInv, Enter, At
<1>1. Later(r, "idle")
  BY LaterFacts
<1>2. PICK f \in Tokens : f = task[r].row /\ ~Issued(f) /\ InHand(f) = {r}
  BY SessionAssumption DEF TokenTask
<1>3. token' = [token EXCEPT ![f] = [status |-> "valid", from |-> f]]
  BY <1>2
<1>4. /\ \A s \in Tokens \ {f} : token'[s] = token[s]
      /\ token'[f].status = "valid" /\ token'[f].from = f
      /\ \A s \in Tokens : Issued(s) => token[s].from # f
  BY <1>2, <1>3
<1>5. /\ Issued(f)'
      /\ \A s \in Tokens \ {f} : Issued(s)' = Issued(s)
  BY <1>4 DEF Issued
<1>6. Live(f)' = {f} /\ \A g \in Tokens \ {f} : Live(g)' = Live(g)
  BY <1>2, <1>4 DEF Live, Valid, Issued
<1>7. \A g \in Tokens : InHand(g)' \subseteq InHand(g) /\ InHand(g)' \ {r} = InHand(g) \ {r}
  BY <1>1 DEF Later, InHand
<1>8. ASSUME NEW q \in Requests PROVE TokenTask(q)'
  <2>1. CASE q = r
    BY <1>1, <2>1 DEF TokenTask, Later
  <2>2. CASE q # r
    <3>1. ASSUME NEW g \in Tokens, ~Issued(g), InHand(g) = {q}
          PROVE  (~Issued(g))' /\ InHand(g)' = {q}
      BY <1>2, <1>5, <1>7, <2>2, <3>1
    <3>2. task'[q] = task[q] /\ raced' = raced
      BY <1>1, <2>2 DEF Later
    <3>3. CASE task[q].op \in {"enter", "attach"}
      BY <3>1, <3>2, <3>3 DEF TokenTask
    <3>4. ASSUME task[q].op \in {"revoke", "renew"},
                 NEW s \in Tokens, s = task[q].row, NEW g \in Tokens, g = token[s].from
          PROVE  TokenTask(q)'
      <4>1. Issued(s) /\ g \in task[q].on /\ (Raced(g) \/ Live(g) \subseteq IF task[q].op = "revoke" THEN {s} ELSE {})
        BY <3>4 DEF TokenTask
      <4>2. s # f /\ g # f
        BY <1>2, <1>4, <3>4, <4>1
      <4> QED
        BY <1>4, <1>5, <1>6, <3>2, <3>4, <4>1, <4>2 DEF TokenTask, Raced
    <3> QED
      BY <3>2, <3>3, <3>4 DEF TokenTask
  <2> QED
    BY <2>1, <2>2
<1>9. ASSUME NEW g \in ended PROVE (Issued(g) /\ Live(g) = {} /\ InHand(g) = {})'
  BY <1>2, <1>5, <1>6, <1>7
<1>10. ASSUME NEW g \in Tokens
       PROVE  Exclusive(g)' /\ (Raced(g)' \/ \A s, t \in Live(g)' : s = t)
  BY <1>1, <1>6 DEF Later, Raced
<1>11. \A s \in Tokens : Issued(s)' => token'[s].from \in Tokens /\ (Issued(token[s].from))'
  BY <1>2, <1>4, <1>5
<1>12. token' \in [Tokens -> [status : {"absent", "valid", "revoked"}, from : Tokens \cup {NoRow}]]
  <2>1. [status |-> "valid", from |-> f] \in [status : {"absent", "valid", "revoked"}, from : Tokens \cup {NoRow}]
    OBVIOUS
  <2> QED
    BY <1>3, <2>1
<1> QED
  BY <1>8, <1>9, <1>10, <1>11, <1>12

\* Tokens are only revoked: each is what it was, or revoked now.
Revoking ==
    /\ token' \in [Tokens -> [status : {"absent", "valid", "revoked"}, from : Tokens \cup {NoRow}]]
    /\ \A s \in Tokens : /\ token'[s].from = token[s].from
                         /\ token'[s].status # token[s].status =>
                              token[s].status # "absent" /\ token'[s].status = "revoked"

LEMMA RevokingFacts ==
  ASSUME TokenInv, Revoking
  PROVE  /\ \A s \in Tokens : Issued(s)' = Issued(s) /\ token'[s].from = token[s].from
         /\ \A f : Live(f)' \subseteq Live(f)
         /\ \A s \in Tokens : Issued(s) => token'[s].from \in Tokens /\ Issued(token[s].from)'
  <1>1. \A s \in Tokens : Issued(s)' = Issued(s) /\ token'[s].from = token[s].from
    BY DEF Revoking, Issued
  <1>2. \A f : Live(f)' \subseteq Live(f)
    BY DEF Revoking, Live, Valid
  <1>3. ASSUME NEW s \in Tokens, Issued(s), NEW f \in Tokens, f = token[s].from
        PROVE  f = token'[s].from /\ Issued(f)'
    BY <1>1, <1>3 DEF TokenInv
  <1> QED
    BY <1>1, <1>2, <1>3 DEF TokenInv, Issued

\* Revoking tokens and ending sign-ins nobody carries on, whatever a request
\* does that goes no further with tokens.
LEMMA TokenRevoked ==
  ASSUME TokenInv, Revoking, raced \subseteq raced',
         \A f \in Tokens : Exclusive(f)',
         NEW r,
         \A q \in Requests \ {r} : task'[q] = task[q],
         \/ task'[r] = task[r]
         \/ task'[r].op = "idle" /\ task'[r].on = {}
         \/ /\ task[r].op = "revoke" /\ task'[r].op = "renew"
            /\ task'[r].row = task[r].row /\ task'[r].on = task[r].on
            /\ token'[task[r].row].status # "valid",
         ended \subseteq ended', ended' \subseteq Tokens,
         \A f \in ended' \ ended : (Issued(f) /\ Live(f) = {} /\ InHand(f) = {})'
  PROVE  TokenInv'
<1>1. /\ \A s \in Tokens : Issued(s)' = Issued(s) /\ token'[s].from = token[s].from
      /\ \A f : Live(f)' \subseteq Live(f)
      /\ \A s \in Tokens : Issued(s) => token'[s].from \in Tokens /\ Issued(token[s].from)'
  BY RevokingFacts
<1>2. \A f \in Tokens : InHand(f)' \subseteq InHand(f) /\ InHand(f)' \ {r} = InHand(f) \ {r}
  BY DEF InHand
<1>3. \A f \in Tokens : task'[r] = task[r] => InHand(f)' = InHand(f)
  BY DEF InHand
<1>4. ASSUME NEW q \in Requests PROVE TokenTask(q)'
  <2>1. CASE task'[q] = task[q]
    <3>1. CASE task[q].op \in {"enter", "attach"}
      <4>1. ASSUME NEW f \in Tokens, ~Issued(f), InHand(f) = {q}
            PROVE  (~Issued(f))' /\ InHand(f)' = {q}
        BY <1>1, <1>2, <1>3, <2>1, <4>1
      <4> QED
        BY <2>1, <3>1, <4>1 DEF TokenInv, TokenTask
    <3>2. ASSUME task[q].op \in {"revoke", "renew"},
                 NEW s \in Tokens, s = task[q].row, NEW f \in Tokens, f = token[s].from
          PROVE  TokenTask(q)'
      <4>1. /\ Issued(s) /\ f \in task[q].on
            /\ Raced(f) \/ Live(f) \subseteq IF task[q].op = "revoke" THEN {s} ELSE {}
        BY <3>2 DEF TokenInv, TokenTask
      <4> QED
        BY <1>1, <2>1, <3>2, <4>1 DEF TokenTask, Raced
    <3> QED
      BY <2>1, <3>1, <3>2 DEF TokenInv, TokenTask
  <2>2. CASE q = r /\ task'[r].op = "idle"
    BY <2>2 DEF TokenTask
  <2>3. ASSUME q = r, task[r].op = "revoke", task'[r].op = "renew",
               NEW s \in Tokens, s = task[r].row, NEW f \in Tokens, f = token[s].from,
               task'[r].row = s, task'[r].on = task[r].on, token'[s].status # "valid"
        PROVE  TokenTask(q)'
    <3>1. Issued(s) /\ f \in task[r].on /\ (Raced(f) \/ Live(f) \subseteq {s})
      BY <2>3 DEF TokenInv, TokenTask
    <3>2. Raced(f)' \/ Live(f)' = {}
      BY <1>1, <2>3, <3>1 DEF Live, Valid, Raced
    <3> QED
      BY <1>1, <2>3, <3>1, <3>2 DEF TokenTask
  <2> QED
    BY <2>1, <2>2, <2>3 DEF TokenInv, TokenTask
<1>5. ASSUME NEW f \in ended PROVE (Issued(f) /\ Live(f) = {} /\ InHand(f) = {})'
  BY <1>1, <1>2, <1>5 DEF TokenInv
<1>6. ASSUME NEW f \in Tokens PROVE Raced(f)' \/ \A s, t \in Live(f)' : s = t
  BY <1>1, <1>6 DEF TokenInv, Raced
<1> QED
  BY <1>1, <1>4, <1>5, <1>6 DEF TokenInv, Revoking

\* A refresh gives the sign-in a new token.
LEMMA TokenRenewed ==
  ASSUME TasksOK, TokenInv, NEW r \in Requests, IssueNew(r)
  PROVE  TokenInv'
<1> USE DEF TokenInv
<1>1. Later(r, "idle") /\ task[r].op = "renew"
  BY LaterFacts DEF IssueNew, At
<1>2. PICK n \in Tokens : n = NewToken /\ ~Issued(n) /\ InHand(n) = {}
  BY DEF IssueNew, NewToken, Unused
<1>3. PICK f \in Tokens : /\ f = token[task[r].row].from /\ Issued(f) /\ r \in InHand(f)
                          /\ Raced(f) \/ Live(f) = {}
  BY <1>1 DEF TokenTask, InHand
<1>4. token' = [token EXCEPT ![n] = [status |-> "valid", from |-> f]] /\ ended' = ended
  BY <1>2, <1>3 DEF IssueNew
<1>5. /\ \A s \in Tokens \ {n} : token'[s] = token[s]
      /\ token'[n].status = "valid" /\ token'[n].from = f
      /\ \A s \in Tokens : Issued(s) => token[s].from # n
      /\ Issued(n)' /\ \A s \in Tokens \ {n} : Issued(s)' = Issued(s)
  BY <1>2, <1>4 DEF Issued
<1>6. /\ Live(f)' = Live(f) \cup {n}
      /\ \A g \in Tokens \ {f} : Live(g)' = Live(g)
  BY <1>2, <1>5 DEF Live, Valid, Issued
<1>7. \A g \in Tokens : InHand(g)' \subseteq InHand(g) /\ InHand(g)' \ {r} = InHand(g) \ {r}
  BY <1>1 DEF Later, InHand
<1>8. ASSUME NEW q \in Requests PROVE TokenTask(q)'
  <2>1. CASE q = r
    BY <1>1, <2>1 DEF TokenTask, Later
  <2>2. CASE q # r
    <3>1. ASSUME NEW g \in Tokens, ~Issued(g), InHand(g) = {q}
          PROVE  (~Issued(g))' /\ InHand(g)' = {q}
      BY <1>2, <1>5, <1>7, <2>2, <3>1
    <3>2. task'[q] = task[q] /\ raced' = raced
      BY <1>1, <2>2 DEF Later
    <3>3. CASE task[q].op \in {"enter", "attach"}
      BY <3>1, <3>2, <3>3 DEF TokenTask
    <3>4. ASSUME task[q].op \in {"revoke", "renew"},
                 NEW s \in Tokens, s = task[q].row, NEW g \in Tokens, g = token[s].from
          PROVE  TokenTask(q)'
      <4>1. /\ Issued(s) /\ g \in task[q].on
            /\ Raced(g) \/ Live(g) \subseteq IF task[q].op = "revoke" THEN {s} ELSE {}
        BY <3>4 DEF TokenTask
      <4>2. s # n
        BY <1>2, <4>1
      <4>3. g = f => Raced(g)
        BY <1>3, <2>2, <4>1 DEF Exclusive, InHand, Raced
      <4> QED
        BY <1>5, <1>6, <3>2, <3>4, <4>1, <4>2, <4>3 DEF TokenTask, Raced
    <3> QED
      BY <3>2, <3>3, <3>4 DEF TokenTask
  <2> QED
    BY <2>1, <2>2
<1>9. ASSUME NEW g \in ended PROVE (Issued(g) /\ Live(g) = {} /\ InHand(g) = {})'
  <2>1. g # f /\ g # n
    BY <1>2, <1>3
  <2> QED
    BY <1>5, <1>6, <1>7, <2>1
<1>10. ASSUME NEW g \in Tokens
       PROVE  Exclusive(g)' /\ (Raced(g)' \/ \A s, t \in Live(g)' : s = t)
  BY <1>1, <1>3, <1>6 DEF Later, Raced
<1>11. \A s \in Tokens : Issued(s)' => token'[s].from \in Tokens /\ (Issued(token[s].from))'
  BY <1>3, <1>5
<1>12. token' \in [Tokens -> [status : {"absent", "valid", "revoked"}, from : Tokens \cup {NoRow}]]
  <2>1. [status |-> "valid", from |-> f] \in [status : {"absent", "valid", "revoked"}, from : Tokens \cup {NoRow}]
    OBVIOUS
  <2> QED
    BY <1>4, <2>1
<1> QED
  BY <1>4, <1>8, <1>9, <1>10, <1>11, <1>12

\* All tokens are revoked, and what nobody carries on is ended.
LEMMA TokenAllRevoked ==
  ASSUME TokenInv, EndAll, raced \subseteq raced', \A f \in Tokens : Exclusive(f)',
         NEW r,
         \A q \in Requests \ {r} : task'[q] = task[q],
         task'[r] = task[r] \/ (task'[r].op = "idle" /\ task'[r].on = {})
  PROVE  TokenInv'
<1>1. \A s \in Tokens : token'[s] = IF Valid(s) THEN [token[s] EXCEPT !.status = "revoked"] ELSE token[s]
  BY DEF EndAll, AllRevoked
<1>2. Revoking /\ \A s \in Tokens : ~Valid(s)'
  BY <1>1 DEF TokenInv, Revoking, Valid, EndAll, AllRevoked
<1>3. ended \subseteq ended' /\ ended' \subseteq Tokens
  BY DEF EndAll, TokenInv
<1>4. ASSUME NEW f \in ended' \ ended PROVE (Issued(f) /\ Live(f) = {} /\ InHand(f) = {})'
  <2>1. PICK s \in Tokens : f = token[s].from /\ Issued(s) /\ ~Carried(s)
    BY <1>4 DEF EndAll
  <2>2. f \in Tokens /\ Issued(f) /\ InHand(f) = {}
    BY <2>1 DEF TokenInv, Carried
  <2> QED
    BY <1>2, <2>2 DEF Revoking, Issued, Live, InHand
<1> QED
  BY <1>2, <1>3, <1>4, TokenRevoked

LEMMA TokenLoggedOut ==
  ASSUME TasksOK, TokenInv, NEW s \in Tokens, Logout(s)
  PROVE  TokenInv'
<1>1. /\ task' = task /\ raced \subseteq raced' /\ \A f \in Tokens : Exclusive(f)'
  BY AtOnceFacts DEF Logout, TokenInv
<1>2. /\ \A t \in Tokens \ {s} : token'[t] = token[t]
      /\ token'[s].status = "revoked" /\ token'[s].from = token[s].from /\ Issued(s)
      /\ token' \in [Tokens -> [status : {"absent", "valid", "revoked"}, from : Tokens \cup {NoRow}]]
  BY DEF Logout, TokenInv
<1>3. Revoking /\ ~Valid(s)'
  BY <1>2 DEF Revoking, Valid, Issued
<1>4. token[s].from \in Tokens /\ Issued(token[s].from)
  BY <1>2 DEF TokenInv
<1>5. ended \subseteq ended' /\ ended' \subseteq ended \cup {token[s].from}
  BY DEF Logout
<1>6. ASSUME NEW f \in ended' \ ended PROVE (Issued(f) /\ Live(f) = {} /\ InHand(f) = {})'
  <2>1. f = token[s].from /\ Live(f) = {s} /\ InHand(f) = {}
    BY <1>6 DEF Logout, Carried
  <2>2. Issued(f)'
    BY <1>2, <1>4, <2>1 DEF Issued
  <2>3. Live(f)' = {}
    BY <1>2, <2>1 DEF Live, Valid
  <2> QED
    BY <1>1, <2>1, <2>2, <2>3 DEF InHand
<1> QED
  BY <1>1, <1>3, <1>4, <1>5, <1>6, TokenRevoked DEF TokenInv

\* A statement that removes no link and forgets no password.
LEMMA LinkLeft ==
  ASSUME LinkInv, Exclusive(Links)', raced \subseteq raced',
         user' \in [active : BOOLEAN, password : BOOLEAN], user.password => user'.password,
         linked \subseteq linked', linked' \subseteq Google,
         \A q \in Requests :
           \/ task'[q] = task[q]
           \/ task'[q].op \notin {"attach", "unlink", "detach", "update"}
           \/ task'[q].op = "detach" /\ Links \in task'[q].on /\ OtherWayIn
  PROVE  LinkInv'
<1>1. OtherWayIn => OtherWayIn'
  <2>1. IsFiniteSet(linked') /\ IsFiniteSet(linked)
    BY SessionAssumption, FS_Subset DEF LinkInv
  <2>2. Cardinality(linked) <= Cardinality(linked') /\ Cardinality(linked) \in Nat
        /\ Cardinality(linked') \in Nat
    BY <2>1, FS_Subset, FS_CardinalityType
  <2> QED
    BY <2>2 DEF OtherWayIn
<1>2. ASSUME NEW q \in Requests PROVE LinkTask(q)'
  BY <1>1 DEF LinkInv, LinkTask, Raced
<1> QED
  BY <1>2 DEF LinkInv, Raced

LEMMA LinkRemoved ==
  ASSUME TasksOK, LinkInv, NEW r \in Requests, Detach(r)
  PROVE  LinkInv'
<1> USE DEF LinkInv
<1>1. Later(r, "idle") /\ task[r].op = "detach" /\ user' = user /\ linked' = linked \ {task[r].kind}
  BY LaterFacts DEF Detach, At
<1>2. ASSUME NEW q \in Requests, q # r, task[q].op = "detach" PROVE Raced(Links)
  BY <1>1, <1>2 DEF LinkTask, Exclusive, Raced
<1>3. Raced(Links) \/ user.password \/ linked' # {}
  <2>1. IsFiniteSet(linked)
    BY SessionAssumption, FS_Subset
  <2>2. Cardinality(linked) > 1 => linked' # {}
    <3>1. linked' = {} => linked = {} \/ linked = {task[r].kind}
      BY <1>1
    <3>2. Cardinality({}) = 0 /\ Cardinality({task[r].kind}) = 1
      BY FS_EmptySet, FS_Singleton
    <3> QED
      BY <3>1, <3>2
  <2> QED
    BY <1>1, <2>2 DEF LinkTask, OtherWayIn
<1>4. ASSUME NEW q \in Requests PROVE LinkTask(q)'
  BY <1>1, <1>2 DEF Later, LinkTask, Raced
<1> QED
  BY <1>1, <1>3, <1>4 DEF Later, Raced

\* A statement that makes no new link to reset the password.
LEMMA ResetLeft ==
  ASSUME ResetInv, raced \subseteq raced', \A t \in ResetTokens : Exclusive(t)',
         reset' \in [ResetTokens -> {"absent", "valid", "used"}],
         \A t \in ResetTokens : reset'[t] = "valid" => reset[t] = "valid",
         \A q \in Requests :
           \/ task'[q] = task[q]
           \/ task'[q].op \notin {"invalidate", "send"}
  PROVE  ResetInv'
  BY DEF ResetInv, AllRaced, Raced

LEMMA ResetInvalidated ==
  ASSUME TasksOK, ResetInv, NEW r \in Requests, InvalidateResets(r)
  PROVE  ResetInv'
<1>1. Later(r, "send") /\ task[r].op = "invalidate"
  BY LaterFacts DEF InvalidateResets, At, SessionOps
<1>2. /\ reset' \in [ResetTokens -> {"absent", "valid", "used"}]
      /\ \A t \in ResetTokens : reset'[t] # "valid"
  BY DEF InvalidateResets, ResetInv
<1> QED
  BY <1>1, <1>2 DEF ResetInv, Later

LEMMA ResetSent ==
  ASSUME TasksOK, ResetInv, NEW r \in Requests, SendReset(r)
  PROVE  ResetInv'
<1> USE DEF ResetInv
<1>1. Later(r, "idle") /\ task[r].op = "send"
  BY LaterFacts DEF SendReset, At
<1>2. PICK n \in ResetTokens : reset' = [reset EXCEPT ![n] = "valid"]
  BY DEF SendReset
<1>3. AllRaced \/ \A t \in ResetTokens : reset[t] # "valid"
  BY <1>1
<1>4. AllRaced \/ \A q \in Requests : q # r => task[q].op # "send"
  BY <1>1 DEF AllRaced, Exclusive, Raced
<1>5. AllRaced' = AllRaced
  BY <1>1 DEF Later, AllRaced, Raced
<1>6. ASSUME NEW t \in ResetTokens, reset'[t] = "valid"
      PROVE  \/ AllRaced'
             \/ /\ \A u \in ResetTokens : reset'[u] = "valid" => t = u
                /\ \A q \in Requests : task'[q].op # "send"
  BY <1>1, <1>2, <1>3, <1>4, <1>5, <1>6 DEF Later
<1> QED
  BY <1>1, <1>2, <1>6 DEF Later

-----------------------------------------------------------------------------
(* Sessions: the invariant *)

Parts == TokenInv /\ LinkInv /\ ResetInv

\* Statements after the first, of the requests that work on tokens.
LEMMA TokenStatements ==
  ASSUME TasksOK, Parts, NEW r \in Requests,
         Enter(r) \/ RevokeOld(r) \/ IssueNew(r) \/ EndSessions(r) \/ ResetPassword(r)
  PROVE  Parts'
<1> USE DEF Parts
<1>1. CASE Enter(r) \/ IssueNew(r)
  <2>1. Later(r, "idle") /\ UNCHANGED <<user, linked, reset>>
    BY <1>1, LaterFacts DEF Enter, IssueNew
  <2>2. LinkInv'
    BY <2>1, LinkLeft DEF Later, LinkInv
  <2>3. ResetInv'
    BY <2>1, ResetLeft DEF Later, ResetInv
  <2> QED
    BY <1>1, <2>2, <2>3, TokenEntered, TokenRenewed
<1>2. CASE RevokeOld(r)
  <2>1. Later(r, "renew") /\ task[r].op = "revoke" /\ UNCHANGED <<user, linked, reset, ended>>
    BY <1>2, LaterFacts DEF RevokeOld, At, SessionOps
  <2>2. LinkInv'
    BY <2>1, LinkLeft DEF Later, LinkInv
  <2>3. ResetInv'
    BY <2>1, ResetLeft DEF Later, ResetInv
  <2>4. PICK s \in Tokens : s = task[r].row /\ Issued(s)
    BY <2>1 DEF TokenInv, TokenTask
  <2>5. Revoking /\ token'[s].status # "valid"
    BY <1>2, <2>4 DEF RevokeOld, Revoking, TokenInv, Issued
  <2>6. TokenInv'
    BY <2>1, <2>4, <2>5, TokenRevoked DEF Later, TokenInv
  <2> QED
    BY <2>2, <2>3, <2>6
<1>3. CASE EndSessions(r) \/ ResetPassword(r)
  <2>1. /\ Later(r, "idle") /\ EndAll /\ linked' = linked
        /\ user' = user \/ user' = [user EXCEPT !.password = TRUE]
        /\ reset' = reset \/ reset' = [reset EXCEPT ![task[r].row] = "used"]
    BY <1>3, LaterFacts DEF EndSessions, ResetPassword
  <2>2. LinkInv'
    <3>1. user' \in [active : BOOLEAN, password : BOOLEAN] /\ (user.password => user'.password)
      BY <2>1 DEF LinkInv
    <3> QED
      BY <2>1, <3>1, LinkLeft DEF Later, LinkInv
  <2>3. ResetInv'
    <3>1. /\ reset' \in [ResetTokens -> {"absent", "valid", "used"}]
          /\ \A t \in ResetTokens : reset'[t] = "valid" => reset[t] = "valid"
      BY <2>1 DEF ResetInv
    <3> QED
      BY <2>1, <3>1, ResetLeft DEF Later, ResetInv
  <2>4. TokenInv'
    BY <2>1, TokenAllRevoked DEF Later, TokenInv
  <2> QED
    BY <2>2, <2>3, <2>4
<1> QED
  BY <1>1, <1>2, <1>3

\* And of those that work on links, passwords and the account.
LEMMA OtherStatements ==
  ASSUME TasksOK, Parts, NEW r \in Requests,
         \/ Attach(r) \/ Detach(r) \/ CheckOtherWay(r) \/ InvalidateResets(r) \/ SendReset(r)
         \/ ChangePassword(r) \/ UpdateUser(r)
  PROVE  Parts'
<1> USE DEF Parts, SessionOps
<1>1. CASE Attach(r)
  <2>1. PICK op \in {"idle", "enter"} :
           /\ Later(r, op) /\ task[r].op = "attach" /\ UNCHANGED <<user, token, reset, ended>>
           /\ linked' = linked \cup {task[r].kind} /\ (op = "enter" => task[r].row # NoRow)
    BY <1>1, LaterFacts DEF Attach, At
  <2>2. task[r].kind \in Google
    BY <2>1 DEF LinkInv, LinkTask
  <2>3. TokenInv'
    BY <2>1, TokenLeft
  <2>4. LinkInv'
    BY <2>1, <2>2, LinkLeft DEF Later, LinkInv
  <2>5. ResetInv'
    BY <2>1, ResetLeft DEF Later, ResetInv
  <2> QED
    BY <2>3, <2>4, <2>5
<1>2. CASE Detach(r)
  <2>1. Later(r, "idle") /\ UNCHANGED <<user, token, reset, ended>>
    BY <1>2, LaterFacts DEF Detach
  <2>2. TokenInv'
    BY <2>1, TokenLeft
  <2>3. ResetInv'
    BY <2>1, ResetLeft DEF Later, ResetInv
  <2> QED
    BY <1>2, <2>2, <2>3, LinkRemoved
<1>3. CASE CheckOtherWay(r)
  <2>1. PICK op \in {"idle", "detach"} :
           /\ Later(r, op) /\ UNCHANGED <<user, token, reset, linked, ended>>
           /\ task[r].op = "unlink" /\ (op = "detach" => OtherWayIn)
    BY <1>3, LaterFacts DEF CheckOtherWay, Frame, At
  <2>2. TokenInv'
    BY <2>1, TokenLeft
  <2>3. Links \in task[r].on
    BY <2>1 DEF LinkInv, LinkTask
  <2>4. LinkInv'
    BY <2>1, <2>3, LinkLeft DEF Later, LinkInv
  <2>5. ResetInv'
    BY <2>1, ResetLeft DEF Later, ResetInv
  <2> QED
    BY <2>2, <2>4, <2>5
<1>4. CASE InvalidateResets(r) \/ SendReset(r)
  <2>1. PICK op \in {"idle", "send"} :
           Later(r, op) /\ UNCHANGED <<user, token, linked, ended>>
    BY <1>4, LaterFacts DEF InvalidateResets, SendReset
  <2>2. TokenInv'
    BY <2>1, TokenLeft
  <2>3. LinkInv'
    BY <2>1, LinkLeft DEF Later, LinkInv
  <2> QED
    BY <1>4, <2>2, <2>3, ResetInvalidated, ResetSent
<1>5. CASE ChangePassword(r) \/ UpdateUser(r)
  <2>1. PICK op \in {"idle", "end"} :
           /\ Later(r, op) /\ UNCHANGED <<token, reset, linked, ended>>
           /\ \/ user' = user
              \/ /\ task[r].op = "update"
                 /\ user' = [active |-> IF task[r].row = NoRow THEN user.active ELSE task[r].row,
                             password |-> user.password \/ task[r].kind]
    BY <1>5, LaterFacts DEF ChangePassword, UpdateUser, Frame, At
  <2>2. TokenInv'
    BY <2>1, TokenLeft
  <2>3. LinkInv'
    <3>1. user' \in [active : BOOLEAN, password : BOOLEAN] /\ (user.password => user'.password)
      BY <2>1 DEF LinkInv, LinkTask
    <3> QED
      BY <2>1, <3>1, LinkLeft DEF Later, LinkInv
  <2>4. ResetInv'
    BY <2>1, ResetLeft DEF Later, ResetInv
  <2> QED
    BY <2>2, <2>3, <2>4
<1> QED
  BY <1>1, <1>2, <1>3, <1>4, <1>5

\* Logouts, which take one statement.
LEMMA Logouts ==
  ASSUME TasksOK, Parts, (\E s \in Tokens : Logout(s)) \/ LogoutAllDevices
  PROVE  Parts'
<1> USE DEF Parts
<1>1. /\ task' = task /\ raced \subseteq raced' /\ UNCHANGED <<user, reset, linked>>
      /\ \A o : Exclusive(o) => Exclusive(o)'
  BY AtOnceFacts DEF Logout, LogoutAllDevices
<1>2. LinkInv'
  BY <1>1, LinkLeft DEF LinkInv
<1>3. ResetInv'
  BY <1>1, ResetLeft DEF ResetInv
<1>4. CASE \E s \in Tokens : Logout(s)
  BY <1>2, <1>3, <1>4, TokenLoggedOut
<1>5. CASE LogoutAllDevices
  <2>1. EndAll /\ \A f \in Tokens : Exclusive(f)'
    BY <1>1, <1>5 DEF LogoutAllDevices, TokenInv
  <2>2. TokenInv'
    BY <1>1, <2>1, TokenAllRevoked
  <2> QED
    BY <1>2, <1>3, <2>2
<1> QED
  BY <1>4, <1>5

\* A request ends where it is.
LEMMA SessionFails ==
  ASSUME TasksOK, Parts, NEW r \in Requests, Fail(r), UNCHANGED sessionVars
  PROVE  Parts'
<1> USE DEF Parts, sessionVars
<1>1. Later(r, "idle") /\ UNCHANGED <<user, token, reset, linked, ended>>
  BY FailFacts DEF Later, Becomes, Idle
<1>2. TokenInv'
  BY <1>1, TokenLeft
<1>3. LinkInv'
  BY <1>1, LinkLeft DEF Later, LinkInv
<1>4. ResetInv'
  BY <1>1, ResetLeft DEF Later, ResetInv
<1> QED
  BY <1>2, <1>3, <1>4

LEMMA SessionsInit == DeskInit => SessionInv
<1> SUFFICES ASSUME DeskInit PROVE SessionInv
  OBVIOUS
<1> USE DEF DeskInit, RequestInit
<1>1. InArea
  BY IdleShape DEF InArea, Fits, TasksOK, OpsOf, Idle
<1>2. \A r \in Requests : task[r].op = "idle" /\ task[r].on = {}
  BY DEF Idle
<1>3. /\ token = [s \in Tokens |-> [status |-> "absent", from |-> NoRow]] /\ ended = {}
      /\ reset = [t \in ResetTokens |-> "absent"]
      /\ user \in [active : BOOLEAN, password : BOOLEAN] /\ linked \subseteq Google
      /\ user.password \/ linked # {}
      /\ area # "sessions" => user.password
  <2>1. (CHOOSE g \in Google : TRUE) \in Google
    BY SessionAssumption
  <2>2. /\ token = [s \in Tokens |-> [status |-> "absent", from |-> NoRow]] /\ ended = {}
        /\ reset = [t \in ResetTokens |-> "absent"]
    BY DEF SessionInit, NoToken
  <2>3. CASE user = [active |-> TRUE, password |-> TRUE] /\ linked = {}
    BY <2>2, <2>3
  <2>4. CASE /\ area = "sessions" /\ user = [active |-> TRUE, password |-> FALSE]
             /\ linked = {CHOOSE g \in Google : TRUE}
    BY <2>1, <2>2, <2>4
  <2> QED
    BY <2>3, <2>4 DEF SessionInit
<1>4. TokenInv
  BY <1>2, <1>3 DEF TokenInv, TokenTask, Issued, Live, Valid, Exclusive
<1>5. LinkInv
  BY <1>2, <1>3 DEF LinkInv, LinkTask, Exclusive
<1>6. ResetInv
  BY <1>2, <1>3 DEF ResetInv, Exclusive
<1> QED
  BY <1>1, <1>3, <1>4, <1>5, <1>6 DEF SessionInv, Issued

LEMMA SessionsStep ==
  ASSUME SessionInv, [DeskNext]_deskVars
  PROVE  SessionInv'
<1>1. CASE DeskNext
  <2>1. InArea' /\ area' = area /\ TasksOK
    BY <1>1, DeskRuns DEF SessionInv, InArea, Fits
  <2>2. CASE SessionStep
    <3>1. area = "sessions" /\ Parts
      BY <2>2, SessionRuns DEF SessionInv, Parts
    <3>2. Parts'
      <4>1. ASSUME NEW r \in Requests, Begins(r) PROVE Parts'
        BY <2>1, <3>1, <4>1, TokenBegun, LinkBegun, ResetBegun DEF Parts
      <4> QED
        BY <2>1, <2>2, <3>1, <4>1, OpenBegins, TokenStatements, OtherStatements, Logouts DEF SessionStep
    <3> QED
      BY <2>1, <3>1, <3>2 DEF SessionInv, Parts
  <2>3. CASE ~SessionStep
    <3>1. UNCHANGED sessionVars
      BY <1>1, <2>3 DEF DeskNext, BesidesRoles, BesidesIncidents, BesidesNotices, FailAny
    <3>2. CASE area # "sessions"
      BY <2>1, <3>1, <3>2 DEF SessionInv, sessionVars, Issued
    <3>3. CASE area = "sessions" /\ FailAny
      BY <2>1, <3>1, <3>3, SessionFails DEF SessionInv, Parts, FailAny
    <3>4. CASE area = "sessions" /\ UNCHANGED <<task, raced>>
      BY <2>1, <3>1, <3>4 DEF SessionInv, sessionVars, TokenInv, TokenTask, LinkInv, LinkTask, ResetInv,
         Issued, Live, Valid, InHand, Exclusive, OtherWayIn, AllRaced, Raced
    <3> QED
      BY <1>1, <2>3, <3>2, <3>3, <3>4, RoleRuns, IncidentRuns, NoticeRuns DEF DeskNext, SessionInv
  <2> QED
    BY <2>2, <2>3
<1>2. CASE UNCHANGED deskVars
  <2>1. UNCHANGED <<area, task, raced, user, token, reset, linked, ended>>
    BY <1>2 DEF deskVars, requestVars, sessionVars
  <2>2. InArea' = InArea
    BY <2>1 DEF InArea, Fits, TasksOK, Shape, OpsOf
  <2>3. TokenInv' = TokenInv
    BY <2>1 DEF TokenInv, TokenTask, Issued, Live, Valid, InHand, Exclusive, Raced
  <2>4. LinkInv' = LinkInv
    BY <2>1 DEF LinkInv, LinkTask, OtherWayIn, Exclusive, Raced
  <2>5. ResetInv' = ResetInv
    BY <2>1 DEF ResetInv, AllRaced, Exclusive, Raced
  <2> QED
    BY <2>1, <2>2, <2>3, <2>4, <2>5 DEF SessionInv, Issued
<1> QED
  BY <1>1, <1>2

\* A sign-in has at most one token that can be refreshed, and none once it was
\* ended, for every number of tokens and requests: whatever rotations, logouts
\* and new passwords come between (auth.service, users.service changePassword).
THEOREM SignInsEnd == DeskSpec => []OneTokenUntilEnded
<1>1. SessionInv => OneTokenUntilEnded
  <2> SUFFICES ASSUME SessionInv PROVE OneTokenUntilEnded
    OBVIOUS
  <2>1. CASE area = "sessions"
    <3>1. ASSUME NEW f \in Tokens, \A s, t \in Live(f) : s = t
          PROVE  Cardinality(Live(f)) <= 1
      <4>1. CASE Live(f) = {}
        BY <4>1, FS_EmptySet
      <4>2. ASSUME NEW s, Live(f) = {s} PROVE Cardinality(Live(f)) <= 1
        <5>1. Cardinality({s}) = 1
          BY FS_Singleton
        <5> QED
          BY <4>2, <5>1
      <4> QED
        BY <3>1, <4>1, <4>2
    <3> QED
      BY <2>1, <3>1 DEF SessionInv, TokenInv, ResetInv, OneTokenUntilEnded, AllRaced
  <2>2. CASE area # "sessions"
    <3>1. ASSUME NEW f \in Tokens PROVE Live(f) = {} /\ Cardinality(Live(f)) = 0
      <4>1. Live(f) = {}
        BY <2>2 DEF SessionInv, Live, Valid, Issued
      <4> QED
        BY <4>1, FS_EmptySet
    <3> QED
      BY <2>2, <3>1 DEF SessionInv, OneTokenUntilEnded
  <2> QED
    BY <2>1, <2>2
<1> QED
  BY <1>1, SessionsInit, SessionsStep, PTL DEF DeskSpec

\* A user can always sign in, for every number of linked accounts and requests,
\* unless two requests changed the links at once (oauth.service).
THEOREM UsersGetIn == DeskSpec => []WayInKept
<1>1. SessionInv => WayInKept
  BY DEF SessionInv, LinkInv, WayInKept
<1> QED
  BY <1>1, SessionsInit, SessionsStep, PTL DEF DeskSpec

-----------------------------------------------------------------------------
(* Incidents *)

\* The date of resolution agrees with the status, as far as closing relies on it.
DateShown(i) ==
    /\ incident[i].status \in {"open", "in_progress", "pending_review"} => ~incident[i].resolved
    /\ incident[i].status = "resolved" => incident[i].resolved

\* What an incident adds to the list of technicians, and when the list may be
\* wrong about it: it was changed meanwhile, deleted, or its technician changed.
Due(i) == Workload(OnDuty)[i]
Excused(i) ==
    \/ Raced(Listed(i)) \/ incident[i].status = "deleted"
    \/ incident[i].assigned \in restaffed

\* Technicians as they are, but for those who changed since the list was read.
Agree(members, those) == \A t \in Technicians \ restaffed : t \in members <=> t \in those

\* What a request relies on: the incident it changes is as it was checked, and
\* what it has read for the list is still so.
IncidentTask(r) ==
    /\ task[r].op \in {"assign", "status", "forget"} =>
        task[r].row \in IncidentIds /\ task[r].row \in task[r].on /\ Listed(task[r].row) \in task[r].on
    /\ task[r].op = "assign" => task[r].kind \in Technicians
    /\ task[r].op = "status" =>
        /\ task[r].seen \in Status
        /\ Raced(task[r].row) \/ ~There(task[r].row)
             \/ MayChangeStatus(task[r].row, task[r].seen, task[r].kind)
    /\ Listing(r) => \A i \in IncidentIds : Listed(i) \in task[r].on
    /\ task[r].op = "members" => Agree(task[r].seen, staff.role)
    /\ task[r].op = "count" => Agree(task[r].seen, OnDuty)
    /\ task[r].op = "keep" =>
        /\ Agree(task[r].kind.members, OnDuty)
        /\ \A i \in IncidentIds : task[r].kind.work[i] = Due(i) \/ Excused(i)

\* A list that is not current is about to be forgotten.
Forgotten(i) ==
    \/ list.work[i] = Due(i) \/ Excused(i) \/ i \in cut
    \/ \E r \in Requests : task[r].op = "forget" /\ task[r].row = i

IncidentInv ==
    /\ InArea
    /\ incident \in [IncidentIds -> [status : Status \cup {"absent", "deleted"},
                                     assigned : Technicians \cup {NoRow}, resolved : BOOLEAN]]
    /\ area # "incidents" => list = NoRow
    /\ area = "incidents" =>
        /\ \A i \in IncidentIds : Exclusive(i) /\ Exclusive(Listed(i)) /\ (Raced(i) \/ DateShown(i))
        /\ \A r \in Requests : IncidentTask(r)
        /\ list # NoRow => Agree(list.members, OnDuty) /\ \A i \in IncidentIds : Forgotten(i)

\* The step leaves what the list is to show of an incident, or excuses it.
DueKept(i) == Excused(i)' \/ (~Excused(i) /\ Due(i)' = Due(i))

\* A request that waits while the staff is left alone and the incidents are as
\* far as the list goes.
LEMMA ListingLeft ==
  ASSUME NEW q \in Requests, IncidentTask(q), task'[q] = task[q], UNCHANGED <<staff, restaffed>>,
         task[q].op = "keep" => \A i \in IncidentIds : DueKept(i)
  PROVE  /\ Listing(q)' => \A i \in IncidentIds : Listed(i) \in task'[q].on
         /\ task'[q].op = "members" => Agree(task[q].seen, staff.role)'
         /\ task'[q].op = "count" => Agree(task[q].seen, OnDuty)'
         /\ task'[q].op = "keep" =>
             /\ Agree(task[q].kind.members, OnDuty)'
             /\ \A i \in IncidentIds : task'[q].kind.work[i] = Due(i)' \/ Excused(i)'
<1>1. OnDuty' = OnDuty
  BY DEF OnDuty
<1> QED
  BY <1>1 DEF IncidentTask, Listing, Agree, DueKept

\* A step that leaves the incidents and the staff alone.
LEMMA AllDueKept ==
  ASSUME UNCHANGED <<incident, staff, restaffed>>, raced \subseteq raced'
  PROVE  \A i \in IncidentIds : DueKept(i)
<1>1. OnDuty' = OnDuty
  BY DEF OnDuty
<1> QED
  BY <1>1 DEF DueKept, Excused, Due, Workload, Raced

-----------------------------------------------------------------------------
(* Incidents: the first statement of a request *)

\* What a request is about when it begins.
Asked(t) ==
    /\ Shape(t) /\ t.op \in {"assign", "status", "holders"}
    /\ t.op \in {"assign", "status"} =>
        t.row \in IncidentIds /\ t.row \in t.on /\ Listed(t.row) \in t.on
    /\ t.op = "assign" => t.kind \in Technicians
    /\ t.op = "status" => t.seen \in Status /\ MayChangeStatus(t.row, t.seen, t.kind)
    /\ t.op = "holders" => \A i \in IncidentIds : Listed(i) \in t.on

\* What the staff's changes are counted from when a request begins.
Recounted ==
    \/ restaffed' = restaffed
    \/ list = NoRow /\ \A q \in Requests : ~Listing(q)

LEMMA OpenAsks ==
  ASSUME NEW r \in Requests,
         \/ \E i \in IncidentIds :
              \/ \E t \in Technicians : OpenTechnicianAssignment(r, i, t)
              \/ \E new \in Status, actor \in Technicians \cup {Admin} :
                   OpenStatusChange(r, i, new, actor)
         \/ OpenListing(r)
  PROVE  /\ \E new : Open(r, {"incidents"}, new) /\ Asked(new)
         /\ UNCHANGED <<incident, staff, list>> /\ Recounted
<1> DEFINE Fine == /\ \E new : Open(r, {"incidents"}, new) /\ Asked(new)
                   /\ UNCHANGED <<incident, staff, list>> /\ Recounted
<1> SUFFICES Fine
  OBVIOUS
<1>1. ASSUME NEW i \in IncidentIds, NEW t \in Technicians, OpenTechnicianAssignment(r, i, t)
      PROVE  Fine
  <2>1. PICK new : /\ new = [Idle EXCEPT !.op = "assign", !.on = {i, Listed(i)}, !.row = i, !.kind = t]
                   /\ Open(r, {"incidents"}, new)
    BY <1>1 DEF OpenTechnicianAssignment
  <2>2. Asked(new)
    BY <2>1 DEF Asked, Idle, Shape
  <2> QED
    BY <1>1, <2>1, <2>2 DEF OpenTechnicianAssignment, incidentVars, Recounted
<1>2. ASSUME NEW i \in IncidentIds, NEW status \in Status, NEW actor \in Technicians \cup {Admin},
             OpenStatusChange(r, i, status, actor)
      PROVE  Fine
  <2>1. PICK new : /\ new = [op |-> "status", on |-> {i, Listed(i)}, row |-> i, seen |-> status,
                             kind |-> actor]
                   /\ Open(r, {"incidents"}, new)
    BY <1>2 DEF OpenStatusChange
  <2>2. MayChangeStatus(i, status, actor)
    BY <1>2 DEF OpenStatusChange
  <2>3. Asked(new)
    BY <2>1, <2>2 DEF Asked, Shape
  <2> QED
    BY <1>2, <2>1, <2>3 DEF OpenStatusChange, incidentVars, Recounted
<1>3. CASE OpenListing(r)
  <2>1. PICK new : /\ new = [Idle EXCEPT !.op = "holders", !.on = {Listed(i) : i \in IncidentIds}]
                   /\ Open(r, {"incidents"}, new)
    BY <1>3 DEF OpenListing
  <2>2. Asked(new)
    BY <2>1 DEF Asked, Idle, Shape
  <2> QED
    BY <1>3, <2>1, <2>2 DEF OpenListing, Recounted
<1> QED
  BY <1>1, <1>2, <1>3

LEMMA IncidentBegun ==
  ASSUME IncidentInv, area = "incidents", InArea', area' = area, NEW r \in Requests,
         NEW new, Open(r, {"incidents"}, new), Asked(new),
         UNCHANGED <<incident, staff, list>>, Recounted
  PROVE  IncidentInv'
<1> USE DEF IncidentInv
<1>1. /\ Becomes(r, new) /\ task[r].op = "idle" /\ raced \subseteq raced' /\ cut' = cut
  BY OpenFacts DEF InArea, Fits, Asked
<1>2. \A i \in IncidentIds : Exclusive(i)' /\ Exclusive(Listed(i))'
  BY OpenExclusive DEF InArea, Fits, Asked
<1>3. ASSUME NEW q \in Requests PROVE IncidentTask(q)'
  <2>1. CASE q = r
    BY <1>1, <2>1 DEF Becomes, IncidentTask, Asked, MayChangeStatus, Raced, There, Listing
  <2>2. CASE q # r /\ ~Listing(q)
    BY <1>1, <2>2 DEF Becomes, IncidentTask, MayChangeStatus, Raced, There, Listing
  <2>3. CASE q # r /\ Listing(q)
    <3>1. UNCHANGED restaffed /\ task'[q] = task[q]
      BY <1>1, <2>3 DEF Becomes, Recounted
    <3>2. IncidentTask(q) /\ \A i \in IncidentIds : DueKept(i)
      BY <1>1, <3>1, AllDueKept
    <3> QED
      BY <2>3, <3>1, <3>2, ListingLeft DEF IncidentTask, Listing
  <2> QED
    BY <2>1, <2>2, <2>3
<1>4. list' # NoRow => Agree(list.members, OnDuty)' /\ \A i \in IncidentIds : Forgotten(i)'
  <2>1. ASSUME list # NoRow
        PROVE  UNCHANGED restaffed /\ OnDuty' = OnDuty
    BY <2>1 DEF Recounted, OnDuty
  <2>2. ASSUME list # NoRow
        PROVE  \A i \in IncidentIds : DueKept(i)
    BY <1>1, <2>1, <2>2, AllDueKept
  <2>3. ASSUME list # NoRow, NEW i \in IncidentIds
        PROVE  Forgotten(i)'
    BY <1>1, <2>2, <2>3 DEF Forgotten, DueKept, Becomes
  <2> QED
    BY <2>1, <2>3 DEF Agree
<1> QED
  BY <1>1, <1>2, <1>3, <1>4 DEF DateShown, Raced

-----------------------------------------------------------------------------
(* Incidents: the later statements *)

\* A statement that leaves the incidents alone.
LEMMA IncidentsLeft ==
  ASSUME IncidentInv, area = "incidents", InArea', area' = area, NEW r \in Requests,
         UNCHANGED <<incident, staff, restaffed>>, cut \subseteq cut', NEW op, Later(r, op),
         op = "idle" \/ (op \in {"members", "count", "keep"} /\ IncidentTask(r)'),
         list' # NoRow => Agree(list.members, OnDuty)' /\ \A i \in IncidentIds : Forgotten(i)'
  PROVE  IncidentInv'
<1> USE DEF IncidentInv
<1>1. \A i \in IncidentIds : Exclusive(i)' /\ Exclusive(Listed(i))'
  BY DEF Later
<1>2. ASSUME NEW q \in Requests PROVE IncidentTask(q)'
  <2>1. CASE q = r
    BY <2>1 DEF Later, IncidentTask, Listing
  <2>2. CASE q # r
    <3>1. task'[q] = task[q] /\ raced' = raced
      BY <2>2 DEF Later
    <3>2. IncidentTask(q) /\ \A i \in IncidentIds : DueKept(i)
      BY <3>1, AllDueKept
    <3> QED
      BY <3>1, <3>2, ListingLeft DEF IncidentTask, MayChangeStatus, Raced, There
  <2> QED
    BY <2>1, <2>2
<1> QED
  BY <1>1, <1>2 DEF DateShown, Raced, Later

\* The list is forgotten, read or kept.
LEMMA ListStatements ==
  ASSUME IncidentInv, area = "incidents", InArea', area' = area, NEW r \in Requests,
         ForgetList(r) \/ ReadHolders(r) \/ ReadActive(r) \/ CountWork(r) \/ KeepList(r)
  PROVE  IncidentInv'
<1> USE DEF IncidentInv, InArea, Fits
<1>1. CASE ForgetList(r)
  <2>1. Later(r, "idle") /\ UNCHANGED <<incident, staff, restaffed>> /\ list' = NoRow /\ cut' = cut
    BY <1>1, LaterFacts DEF ForgetList, Close, Proceed
  <2> QED
    BY <2>1, IncidentsLeft
<1>2. CASE KeepList(r)
  <2>1. /\ Later(r, "idle") /\ UNCHANGED <<incident, staff, restaffed>> /\ list' = task[r].kind
        /\ cut' = cut /\ task[r].op = "keep" /\ raced' = raced
    BY <1>2, LaterFacts DEF KeepList, Close, Proceed, At
  <2>2. OnDuty' = OnDuty /\ \A i \in IncidentIds : DueKept(i)
    BY <2>1, AllDueKept DEF OnDuty
  <2>3. Agree(list.members, OnDuty)'
    BY <2>1, <2>2 DEF IncidentTask, Agree
  <2>4. ASSUME NEW i \in IncidentIds PROVE Forgotten(i)'
    BY <2>1, <2>2 DEF IncidentTask, Forgotten, DueKept
  <2> QED
    BY <2>1, <2>3, <2>4, IncidentsLeft
<1>3. ASSUME NEW new, Proceed(r, new), Shape(new), new.on = task[r].on, new.row = task[r].row,
             UNCHANGED incidentVars, task[r].op # "forget",
             new.op \in {"members", "count", "keep"}, Listing(r),
             new.op = "members" => new.seen = staff.role,
             new.op = "count" => Agree(new.seen, OnDuty),
             new.op = "keep" => /\ Agree(new.kind.members, OnDuty)
                                /\ \A i \in IncidentIds : new.kind.work[i] = Due(i) \/ Excused(i)
      PROVE  IncidentInv'
  <2>1. UNCHANGED <<incident, staff, restaffed, list, cut, raced>> /\ OnDuty' = OnDuty
    BY <1>3 DEF Proceed, incidentVars, OnDuty
  <2>2. \A o : Exclusive(o) => Exclusive(o)'
    BY <1>3, ProceedExclusive
  <2>3. Becomes(r, new)
    BY <1>3, ProceedFacts
  <2>4. Later(r, new.op)
    BY <1>3, <2>1, <2>2, <2>3 DEF Later, Becomes
  <2>5. \A i \in IncidentIds : DueKept(i)
    BY <2>1, AllDueKept
  <2>6. \A i \in IncidentIds : Listed(i) \in new.on
    BY <1>3 DEF IncidentTask
  <2>7. IncidentTask(r)'
    BY <1>3, <2>1, <2>3, <2>5, <2>6 DEF IncidentTask, Becomes, Agree, DueKept, Listing
  <2>8. list' # NoRow => Agree(list.members, OnDuty)' /\ \A i \in IncidentIds : Forgotten(i)'
    <3>1. \A q \in Requests : task[q].op = "forget" => task'[q] = task[q]
      BY <1>3, <2>3 DEF Becomes
    <3> QED
      BY <2>1, <2>5, <3>1 DEF Forgotten, DueKept, Agree
  <2> QED
    BY <1>3, <2>1, <2>4, <2>7, <2>8, IncidentsLeft
<1>4. CASE ReadHolders(r)
  <2>1. Shape(task[r]) /\ Listing(r) /\ task[r].op = "holders" /\ UNCHANGED incidentVars
    BY <1>4 DEF ReadHolders, At, Listing, TasksOK
  <2>2. CASE Close(r)
    <3>1. Later(r, "idle") /\ UNCHANGED <<incident, staff, restaffed, list, cut, raced>>
          /\ OnDuty' = OnDuty
      BY <2>1, <2>2, LaterFacts DEF Close, Proceed, incidentVars, OnDuty
    <3>2. \A i \in IncidentIds : DueKept(i)
      BY <3>1, AllDueKept
    <3>3. \A q \in Requests : task[q].op = "forget" => task'[q] = task[q]
      BY <2>1, <3>1 DEF Later
    <3>4. list' # NoRow => Agree(list.members, OnDuty)' /\ \A i \in IncidentIds : Forgotten(i)'
      BY <3>1, <3>2, <3>3 DEF Forgotten, DueKept, Agree
    <3> QED
      BY <3>1, <3>4, IncidentsLeft
  <2>3. CASE ~Close(r)
    <3>1. PICK new : Proceed(r, new) /\ new = [task[r] EXCEPT !.op = "members", !.seen = staff.role]
      BY <1>4, <2>3 DEF ReadHolders
    <3>2. /\ Shape(new) /\ new.on = task[r].on /\ new.row = task[r].row
          /\ new.op = "members" /\ new.seen = staff.role
      BY <2>1, <3>1 DEF Shape
    <3> QED
      BY <1>3, <2>1, <3>1, <3>2
  <2> QED
    BY <2>2, <2>3
<1>5. CASE ReadActive(r)
  <2>1. Shape(task[r]) /\ Listing(r) /\ task[r].op = "members" /\ UNCHANGED incidentVars
    BY <1>5 DEF ReadActive, At, Listing, TasksOK
  <2>2. PICK new : /\ Proceed(r, new)
                   /\ new = [task[r] EXCEPT !.op = "count", !.seen = @ \cap staff.active]
    BY <1>5 DEF ReadActive
  <2>3. /\ Shape(new) /\ new.on = task[r].on /\ new.row = task[r].row
        /\ new.op = "count" /\ new.seen = task[r].seen \cap staff.active
    BY <2>1, <2>2 DEF Shape
  <2>4. Agree(new.seen, OnDuty)
    BY <2>1, <2>3 DEF IncidentTask, Agree, OnDuty
  <2> QED
    BY <1>3, <2>1, <2>2, <2>3, <2>4
<1>6. CASE CountWork(r)
  <2>1. Shape(task[r]) /\ Listing(r) /\ task[r].op = "count" /\ UNCHANGED incidentVars
    BY <1>6 DEF CountWork, At, Listing, TasksOK
  <2>2. PICK new : /\ Proceed(r, new)
                   /\ new = [task[r] EXCEPT !.op = "keep",
                                !.kind = [members |-> task[r].seen, work |-> Workload(task[r].seen)]]
    BY <1>6 DEF CountWork
  <2>3. /\ Shape(new) /\ new.on = task[r].on /\ new.row = task[r].row /\ new.op = "keep"
        /\ new.kind = [members |-> task[r].seen, work |-> Workload(task[r].seen)]
    BY <2>1, <2>2 DEF Shape
  <2>4. Agree(task[r].seen, OnDuty)
    BY <2>1 DEF IncidentTask
  <2>5. ASSUME NEW i \in IncidentIds
        PROVE  Workload(task[r].seen)[i] = Due(i) \/ Excused(i)
    BY <2>4 DEF Workload, Work, Due, Excused, Agree
  <2>6. /\ Agree(new.kind.members, OnDuty)
        /\ \A i \in IncidentIds : new.kind.work[i] = Due(i) \/ Excused(i)
    <3>1. new.kind.members = task[r].seen /\ new.kind.work = Workload(task[r].seen)
      BY <2>3
    <3> QED
      BY <2>4, <2>5, <3>1
  <2> QED
    BY <1>3, <2>1, <2>2, <2>3, <2>6
<1> QED
  BY <1>1, <1>2, <1>4, <1>5, <1>6

\* A request that has the incident in hand changes it.
LEMMA IncidentChanged ==
  ASSUME IncidentInv, area = "incidents", InArea', area' = area, NEW r \in Requests,
         NEW i \in IncidentIds, i = task[r].row, task[r].op \in {"assign", "status"}, There(i),
         incident' \in [IncidentIds -> [status : Status \cup {"absent", "deleted"},
                                        assigned : Technicians \cup {NoRow}, resolved : BOOLEAN]],
         \A j \in IncidentIds \ {i} : incident'[j] = incident[j],
         Raced(i) \/ DateShown(i)',
         UNCHANGED <<staff, restaffed, list, cut>>,
         \/ Later(r, "forget")
         \/ /\ Later(r, "idle")
            /\ Due(i)' = Due(i) /\ incident'[i].assigned = incident[i].assigned
  PROVE  IncidentInv'
<1> USE DEF IncidentInv
<1>1. /\ raced' = raced /\ \A q \in Requests : q # r => task'[q] = task[q]
      /\ \A j \in IncidentIds : Exclusive(j)' /\ Exclusive(Listed(j))'
      /\ i \in task[r].on /\ Listed(i) \in task[r].on
  BY DEF Later, IncidentTask
<1>2. OnDuty' = OnDuty /\ \A j \in IncidentIds \ {i} : DueKept(j)
  BY <1>1 DEF OnDuty, DueKept, Excused, Due, Workload, Raced
<1>3. ASSUME NEW q \in Requests PROVE IncidentTask(q)'
  <2>1. CASE q = r
    BY <2>1 DEF Later, IncidentTask, Listing
  <2>2. CASE q # r /\ task[q].op = "status"
    <3>1. PICK j \in IncidentIds : j = task[q].row /\ j \in task[q].on
      BY <2>2 DEF IncidentTask
    <3>2. CASE j = i
      <4>1. Raced(i)
        BY <1>1, <2>2, <3>1, <3>2 DEF Exclusive, Raced
      <4> QED
        BY <1>1, <2>2, <3>1, <3>2, <4>1 DEF IncidentTask, Raced, Listing
    <3>3. CASE j # i
      BY <1>1, <2>2, <3>1, <3>3 DEF IncidentTask, Raced, There, MayChangeStatus, Listing
    <3> QED
      BY <3>2, <3>3
  <2>3. CASE q # r /\ Listing(q)
    <3>1. Raced(Listed(i))
      BY <1>1, <2>3 DEF IncidentTask, Exclusive, Raced
    <3>2. IncidentTask(q) /\ task'[q] = task[q] /\ \A j \in IncidentIds : DueKept(j)
      BY <1>1, <1>2, <2>3, <3>1 DEF DueKept, Excused, Raced
    <3> QED
      BY <2>3, <3>2, ListingLeft DEF IncidentTask, Listing
  <2>4. CASE q # r /\ task[q].op # "status" /\ ~Listing(q)
    BY <1>1, <2>4 DEF IncidentTask, Listing
  <2> QED
    BY <2>1, <2>2, <2>3, <2>4
<1>4. ASSUME list' # NoRow, NEW j \in IncidentIds PROVE Forgotten(j)'
  <2>1. CASE j = i /\ Later(r, "forget")
    BY <2>1 DEF Later, Forgotten
  <2>2. CASE j # i
    <3>1. DueKept(j)
      BY <1>2, <2>2
    <3>2. \A q \in Requests : task[q].op = "forget" => task'[q] = task[q]
      BY <1>1
    <3> QED
      BY <1>4, <3>1, <3>2 DEF Forgotten, DueKept
  <2>3. CASE j = i /\ Later(r, "idle") /\ ~Later(r, "forget")
    <3>1. incident[i].status # "deleted"
      BY DEF There, Status
    <3>2. \A q \in Requests : task[q].op = "forget" => task'[q] = task[q]
      BY <1>1
    <3> QED
      BY <1>1, <1>4, <2>3, <3>1, <3>2 DEF Forgotten, Excused, Raced
  <2> QED
    BY <2>1, <2>2, <2>3
<1>5. \A j \in IncidentIds : Raced(j)' \/ DateShown(j)'
  BY <1>1 DEF DateShown, Raced
<1>6. list' # NoRow => Agree(list.members, OnDuty)'
  BY <1>2 DEF Agree
<1> QED
  BY <1>1, <1>3, <1>4, <1>5, <1>6

LEMMA ChangeStatements ==
  ASSUME IncidentInv, area = "incidents", InArea', area' = area, NEW r \in Requests,
         AssignTechnician(r) \/ UpdateStatus(r)
  PROVE  IncidentInv'
<1> USE DEF IncidentInv, InArea, Fits
<1>1. PICK i \in IncidentIds : i = task[r].row
  BY DEF IncidentTask, AssignTechnician, UpdateStatus, At
<1>2. UNCHANGED <<staff, restaffed, list, cut>> /\ There(i)
  BY <1>1 DEF AssignTechnician, UpdateStatus, Close, Goto, Proceed
<1>3. CASE AssignTechnician(r)
  <2>1. /\ incident' = [incident EXCEPT ![i].assigned = task[r].kind, ![i].status = "assigned"]
        /\ task[r].op = "assign" /\ task[r].kind \in Technicians /\ Later(r, "forget")
    BY <1>1, <1>3, LaterFacts DEF AssignTechnician, At, IncidentTask
  <2>2. /\ incident' \in [IncidentIds -> [status : Status \cup {"absent", "deleted"},
                                          assigned : Technicians \cup {NoRow}, resolved : BOOLEAN]]
        /\ incident'[i].status = "assigned" /\ \A j \in IncidentIds \ {i} : incident'[j] = incident[j]
    BY <2>1 DEF Status
  <2> QED
    BY <1>1, <1>2, <2>1, <2>2, IncidentChanged DEF DateShown
<1>4. CASE UpdateStatus(r)
  <2>1. /\ incident' = [incident EXCEPT ![i].status = task[r].seen,
                                        ![i].resolved = Resolution(i, task[r].seen)]
        /\ task[r].op = "status" /\ task[r].seen \in Status
        /\ Raced(i) \/ MayChangeStatus(i, task[r].seen, task[r].kind)
    BY <1>1, <1>2, <1>4 DEF UpdateStatus, At, IncidentTask
  <2>2. Later(r, "forget") \/ (Later(r, "idle") /\ incident[i].assigned = NoRow)
    BY <1>1, <1>4, LaterFacts DEF UpdateStatus, AfterChange
  <2>3. Resolution(i, task[r].seen) \in BOOLEAN
    BY DEF Resolution
  <2>4. /\ incident' \in [IncidentIds -> [status : Status \cup {"absent", "deleted"},
                                          assigned : Technicians \cup {NoRow}, resolved : BOOLEAN]]
        /\ incident'[i].status = task[r].seen /\ incident'[i].resolved = Resolution(i, task[r].seen)
        /\ incident'[i].assigned = incident[i].assigned
        /\ \A j \in IncidentIds \ {i} : incident'[j] = incident[j]
    BY <2>1, <2>3
  <2>5. Raced(i) \/ DateShown(i)'
    <3>1. CASE task[r].seen # "pending_review"
      BY <2>4, <3>1 DEF DateShown, Resolution
    <3>2. ASSUME task[r].seen = "pending_review", MayChangeStatus(i, task[r].seen, task[r].kind)
          PROVE  incident[i].status = "in_progress"
      <4>1. "pending_review" \in STATUS_TRANSITIONS[incident[i].status] /\ incident[i].status \in Status
        BY <1>2, <3>2 DEF MayChangeStatus, There
      <4> QED
        BY <4>1 DEF STATUS_TRANSITIONS, Status
    <3> QED
      BY <2>1, <2>4, <3>1, <3>2 DEF DateShown, Resolution
  <2>6. incident[i].assigned = NoRow => Due(i)' = Due(i)
    BY <2>4, IncidentAssumption DEF Due, Workload, Work
  <2> QED
    BY <1>1, <1>2, <2>1, <2>2, <2>4, <2>5, <2>6, IncidentChanged
<1> QED
  BY <1>3, <1>4

\* Requests of one statement, and failures.
LEMMA OtherIncidentSteps ==
  ASSUME IncidentInv, area = "incidents", InArea', area' = area,
         \/ \E i \in IncidentIds : Report(i) \/ DeleteIncident(i)
         \/ \E t \in Technicians, column \in {"role", "active"} : ChangeStaff(t, column)
         \/ ExpireList
  PROVE  IncidentInv'
<1> USE DEF IncidentInv, InArea, Fits
<1>1. /\ task' = task /\ raced \subseteq raced' /\ cut' = cut
      /\ \A o : Exclusive(o) => Exclusive(o)'
  BY AtOnceFacts DEF Report, DeleteIncident, ChangeStaff, ExpireList
<1>2. ASSUME NEW i \in IncidentIds, Report(i) \/ DeleteIncident(i)
      PROVE  IncidentInv'
  <2>1. \A q \in Requests : i \in task[q].on => Raced(i)'
    BY <1>2, AtOnceFacts DEF Report, DeleteIncident, Raced
  <2>2. /\ UNCHANGED <<list, staff, restaffed>> /\ OnDuty' = OnDuty
        /\ \A j \in IncidentIds \ {i} : incident'[j] = incident[j]
        /\ incident' \in [IncidentIds -> [status : Status \cup {"absent", "deleted"},
                                          assigned : Technicians \cup {NoRow}, resolved : BOOLEAN]]
        /\ DateShown(i)'
    BY <1>2 DEF Report, DeleteIncident, Reported, Nobody, Status, DateShown, OnDuty
  <2>3. DueKept(i)
    <3>1. CASE Report(i)
      <4>1. /\ incident[i].assigned = NoRow /\ incident'[i].assigned = NoRow
            /\ incident[i].status = "absent"
        BY <3>1 DEF Report, Reported, Nobody
      <4>2. Due(i) = NoRow /\ Due(i)' = NoRow
        BY <4>1, IncidentAssumption DEF Due, Workload, Work
      <4> QED
        BY <1>1, <2>2, <4>1, <4>2 DEF DueKept, Excused, Raced
    <3>2. CASE DeleteIncident(i)
      BY <3>2 DEF DeleteIncident, Nobody, DueKept, Excused
    <3> QED
      BY <1>2, <3>1, <3>2
  <2>4. \A j \in IncidentIds : DueKept(j)
    BY <1>1, <2>2, <2>3 DEF DueKept, Excused, Due, Workload, Raced
  <2>5. ASSUME NEW q \in Requests PROVE IncidentTask(q)'
    <3>1. CASE task[q].op = "status"
      <4>1. PICK j \in IncidentIds : j = task[q].row /\ j \in task[q].on
        BY <3>1 DEF IncidentTask
      <4>2. CASE j = i
        BY <1>1, <2>1, <3>1, <4>1, <4>2 DEF IncidentTask, Listing
      <4>3. CASE j # i
        BY <1>1, <2>2, <3>1, <4>1, <4>3 DEF IncidentTask, Raced, There, MayChangeStatus, Listing
      <4> QED
        BY <4>2, <4>3
    <3>2. CASE Listing(q)
      <4>1. IncidentTask(q) /\ task'[q] = task[q]
        BY <1>1
      <4> QED
        BY <2>2, <2>4, <3>2, <4>1, ListingLeft DEF IncidentTask, Listing
    <3>3. CASE task[q].op # "status" /\ ~Listing(q)
      BY <1>1, <3>3 DEF IncidentTask, Listing
    <3> QED
      BY <3>1, <3>2, <3>3
  <2>6. ASSUME list' # NoRow, NEW j \in IncidentIds PROVE Forgotten(j)'
    BY <1>1, <2>2, <2>4, <2>6 DEF Forgotten, DueKept
  <2>7. \A j \in IncidentIds : Raced(j)' \/ DateShown(j)'
    BY <1>1, <2>2 DEF DateShown, Raced
  <2>8. list' # NoRow => Agree(list.members, OnDuty)'
    BY <2>2 DEF Agree
  <2> QED
    BY <1>1, <2>2, <2>5, <2>6, <2>7, <2>8
<1>3. CASE ExpireList
  <2>1. UNCHANGED <<incident, staff, restaffed>> /\ list' = NoRow
    BY <1>3 DEF ExpireList
  <2>2. ASSUME NEW q \in Requests PROVE IncidentTask(q)'
    <3>1. IncidentTask(q) /\ task'[q] = task[q] /\ \A j \in IncidentIds : DueKept(j)
      BY <1>1, <2>1, AllDueKept
    <3> QED
      BY <1>1, <2>1, <3>1, ListingLeft DEF IncidentTask, MayChangeStatus, Raced, There
  <2> QED
    BY <1>1, <2>1, <2>2 DEF DateShown, Raced
<1>4. ASSUME NEW t \in Technicians, NEW column \in {"role", "active"}, ChangeStaff(t, column)
      PROVE  IncidentInv'
  <2>1. /\ UNCHANGED <<incident, list>> /\ restaffed' = restaffed \cup {t}
        /\ staff' = [staff EXCEPT ![column] = IF t \in @ THEN @ \ {t} ELSE @ \cup {t}]
    BY <1>4 DEF ChangeStaff
  <2>2. \A u : u # t => (u \in staff.role <=> u \in staff'.role) /\ (u \in OnDuty <=> u \in OnDuty')
    BY <2>1 DEF OnDuty
  <2>3. \A members : /\ Agree(members, staff.role) => Agree(members, staff.role)'
                     /\ Agree(members, OnDuty) => Agree(members, OnDuty)'
    BY <2>1, <2>2 DEF Agree
  <2>4. \A i \in IncidentIds : DueKept(i)
    <3>1. ASSUME NEW i \in IncidentIds, incident[i].assigned # t
          PROVE  Due(i)' = Due(i)
      BY <2>1, <2>2, <3>1 DEF Due, Workload
    <3> QED
      BY <1>1, <2>1, <3>1 DEF DueKept, Excused, Raced
  <2>5. ASSUME NEW q \in Requests PROVE IncidentTask(q)'
    <3>1. IncidentTask(q) /\ task'[q] = task[q]
      BY <1>1
    <3> QED
      BY <1>1, <2>1, <2>3, <2>4, <3>1 DEF IncidentTask, MayChangeStatus, Raced, There, DueKept, Listing
  <2>6. list' # NoRow => Agree(list.members, OnDuty)' /\ \A i \in IncidentIds : Forgotten(i)'
    BY <1>1, <2>1, <2>3, <2>4 DEF Forgotten, DueKept
  <2> QED
    BY <1>1, <2>1, <2>5, <2>6 DEF DateShown, Raced
<1> QED
  BY <1>2, <1>3, <1>4

LEMMA IncidentFails ==
  ASSUME IncidentInv, area = "incidents", InArea', area' = area, NEW r \in Requests,
         Fail(r), UNCHANGED incidentVars
  PROVE  IncidentInv'
<1> USE DEF IncidentInv, InArea, Fits
<1>1. /\ Later(r, "idle") /\ UNCHANGED <<incident, staff, restaffed, list>>
      /\ cut' = cut \cup task[r].on /\ OnDuty' = OnDuty
  BY FailFacts DEF Later, Becomes, Idle, incidentVars, OnDuty
<1>2. \A i \in IncidentIds : DueKept(i)
  BY <1>1, AllDueKept DEF Later
<1>3. ASSUME list' # NoRow, NEW i \in IncidentIds PROVE Forgotten(i)'
  BY <1>1, <1>2, <1>3 DEF Forgotten, DueKept, Later, IncidentTask
<1>4. list' # NoRow => Agree(list.members, OnDuty)'
  BY <1>1 DEF Agree
<1> QED
  BY <1>1, <1>3, <1>4, IncidentsLeft

-----------------------------------------------------------------------------
(* Incidents: the invariant *)

LEMMA IncidentsInit == DeskInit => IncidentInv
<1> SUFFICES ASSUME DeskInit PROVE IncidentInv
  OBVIOUS
<1> USE DEF DeskInit, RequestInit
<1>1. InArea
  BY IdleShape DEF InArea, Fits, TasksOK, OpsOf, Idle
<1>2. \A r \in Requests : task[r].op = "idle" /\ task[r].on = {}
  BY DEF Idle
<1>3. /\ incident = [i \in IncidentIds |-> [status |-> "absent", assigned |-> NoRow, resolved |-> FALSE]]
      /\ list = NoRow
  BY DEF IncidentInit, Nobody
<1> QED
  BY <1>1, <1>2, <1>3 DEF IncidentInv, IncidentTask, DateShown, Exclusive, Listing

LEMMA IncidentsStep ==
  ASSUME IncidentInv, [DeskNext]_deskVars
  PROVE  IncidentInv'
<1>1. CASE DeskNext
  <2>1. InArea' /\ area' = area /\ cut \subseteq cut'
    BY <1>1, DeskRuns DEF IncidentInv
  <2>2. CASE IncidentStep
    <3>1. area = "incidents"
      BY <2>2, IncidentRuns DEF IncidentInv
    <3>2. ASSUME NEW r \in Requests, NEW new,
                 Open(r, {"incidents"}, new) /\ Asked(new),
                 UNCHANGED <<incident, staff, list>> /\ Recounted
          PROVE  IncidentInv'
      BY <2>1, <3>1, <3>2, IncidentBegun
    <3> QED
      BY <2>1, <2>2, <3>1, <3>2, OpenAsks, ListStatements, ChangeStatements, OtherIncidentSteps
         DEF IncidentStep
  <2>3. CASE ~IncidentStep
    <3>1. UNCHANGED incidentVars
      BY <1>1, <2>3 DEF DeskNext, BesidesRoles, BesidesSessions, BesidesNotices, FailAny
    <3>2. CASE area # "incidents"
      BY <2>1, <3>1, <3>2 DEF IncidentInv, incidentVars
    <3>3. CASE area = "incidents" /\ FailAny
      BY <2>1, <3>1, <3>3, IncidentFails DEF FailAny
    <3>4. CASE area = "incidents" /\ UNCHANGED <<task, raced>>
      BY <2>1, <3>1, <3>4 DEF IncidentInv, incidentVars, IncidentTask, DateShown, Forgotten, Workload,
         MayChangeStatus, There, Exclusive, Raced, Listing, Agree, Due, Excused, OnDuty
    <3> QED
      BY <1>1, <2>3, <3>2, <3>3, <3>4, RoleRuns, SessionRuns, NoticeRuns DEF DeskNext, IncidentInv
  <2> QED
    BY <2>2, <2>3
<1>2. CASE UNCHANGED deskVars
  <2>1. UNCHANGED <<area, task, raced, cut, incident, staff, list, restaffed>>
    BY <1>2 DEF deskVars, requestVars, incidentVars
  <2>2. InArea' = InArea
    BY <2>1 DEF InArea, Fits, TasksOK, Shape, OpsOf
  <2> QED
    BY <2>1, <2>2 DEF IncidentInv, IncidentTask, DateShown, Forgotten, Workload,
       MayChangeStatus, There, Exclusive, Raced, Listing, Agree, Due, Excused, OnDuty
<1> QED
  BY <1>1, <1>2

\* The cached list of technicians shows those on duty and what each has to do,
\* for every number of incidents, technicians and requests, but for the changes of
\* staff and the deletions it is not told of and the changes of incidents that are
\* unfinished, interrupted or overlapped with its reading (users.service
\* listTechnicians, incidents.service).
THEOREM TechnicianListCurrent == DeskSpec => []ListCurrent
<1>1. IncidentInv => ListCurrent
  BY DEF IncidentInv, IncidentTask, Forgotten, ListCurrent, InHand, Agree, Due, Excused
<1> QED
  BY <1>1, IncidentsInit, IncidentsStep, PTL DEF DeskSpec
-----------------------------------------------------------------------------
(* Incidents: steps *)

\* Only the request's own last statement ends a change of status.
LEMMA ChangedByUpdate ==
  ASSUME IncidentInv, [DeskNext]_deskVars, NEW i \in IncidentIds, NEW r \in Changing(i)
  PROVE  UpdateStatus(r)
<1>1. /\ r \in Requests /\ task[r].op = "status" /\ task[r].row = i
      /\ task'[r].op # "status" /\ incident'[i] # incident[i]
  BY DEF Changing, At
<1>2. IncidentStep
  <2>1. CASE DeskNext /\ ~IncidentStep
    BY <1>1, <2>1 DEF DeskNext, BesidesRoles, BesidesSessions, BesidesNotices, FailAny, incidentVars
  <2>2. CASE UNCHANGED deskVars
    BY <1>1, <2>2 DEF deskVars, incidentVars
  <2> QED
    BY <2>1, <2>2
<1>3. ASSUME NEW q \in Requests, AssignTechnician(q) \/ UpdateStatus(q), q # r
      PROVE  FALSE
  <2>1. task'[r] = task[r]
    BY <1>1, <1>3 DEF AssignTechnician, UpdateStatus, Goto, Close, Proceed, IncidentInv, InArea,
       Fits, TasksOK
  <2> QED
    BY <1>1, <2>1
<1>4. ~AssignTechnician(r)
  BY <1>1 DEF AssignTechnician, At
<1>5. \A q \in Requests : ~(\/ ForgetList(q) \/ OpenListing(q) \/ ReadHolders(q) \/ ReadActive(q)
                             \/ CountWork(q) \/ KeepList(q))
  BY <1>1 DEF ForgetList, OpenListing, ReadHolders, ReadActive, CountWork, KeepList, incidentVars
<1>6. ASSUME NEW q \in Requests, NEW j \in IncidentIds,
             \/ \E t \in Technicians : OpenTechnicianAssignment(q, j, t)
             \/ \E new \in Status, actor \in Technicians \cup {Admin} : OpenStatusChange(q, j, new, actor)
      PROVE  FALSE
  BY <1>1, <1>6 DEF OpenTechnicianAssignment, OpenStatusChange, incidentVars
<1>7. \A j \in IncidentIds : ~(Report(j) \/ DeleteIncident(j))
  BY <1>1 DEF Report, DeleteIncident, AtOnce
<1>8. ~ExpireList /\ \A t \in Technicians, column \in {"role", "active"} : ~ChangeStaff(t, column)
  BY <1>1 DEF ExpireList, ChangeStaff
<1> QED
  BY <1>1, <1>2, <1>3, <1>4, <1>5, <1>6, <1>7, <1>8 DEF IncidentStep

LEMMA ChangeFollows ==
  ASSUME IncidentInv, [DeskNext]_deskVars, NEW i \in IncidentIds, NEW r \in Changing(i), ~Raced(i)
  PROVE  /\ incident'[i].status \in STATUS_TRANSITIONS[incident[i].status]
         /\ task[r].kind \in {Admin, incident[i].assigned}
         /\ incident'[i].status = "closed" =>
              incident'[i].resolved = (incident[i].status = "resolved")
<1>1. /\ r \in Requests /\ task[r].op = "status" /\ task[r].row = i
      /\ incident[i].status \in Status
      /\ incident' = [incident EXCEPT ![i].status = task[r].seen,
                                      ![i].resolved = Resolution(i, task[r].seen)]
  <2>1. r \in Requests /\ task[r].op = "status" /\ task[r].row = i
    BY DEF Changing, At
  <2>2. UpdateStatus(r)
    BY ChangedByUpdate
  <2> QED
    BY <2>1, <2>2 DEF UpdateStatus, There
<1>2. area = "incidents"
  BY <1>1 DEF IncidentInv, InArea, OpsOf, SessionOps, RoleOps, IncidentOps, NoticeOps, Fits
<1>3. MayChangeStatus(i, task[r].seen, task[r].kind) /\ DateShown(i)
  BY <1>1, <1>2 DEF IncidentInv, IncidentTask, There
<1>4. Resolution(i, task[r].seen) \in BOOLEAN /\ incident[i].resolved \in BOOLEAN
  BY DEF Resolution, IncidentInv
<1>5. /\ incident'[i].status = task[r].seen
      /\ incident'[i].resolved = Resolution(i, task[r].seen)
  <2>1. incident[i] \in [status : Status \cup {"absent", "deleted"},
                         assigned : Technicians \cup {NoRow}, resolved : BOOLEAN]
    BY DEF IncidentInv
  <2>2. incident'[i] = [incident[i] EXCEPT !.status = task[r].seen,
                                           !.resolved = Resolution(i, task[r].seen)]
    BY <1>1 DEF IncidentInv
  <2> QED
    BY <2>1, <2>2
<1>6. ASSUME task[r].seen = "closed"
      PROVE  Resolution(i, task[r].seen) = (incident[i].status = "resolved")
  <2>1. "closed" \in STATUS_TRANSITIONS[incident[i].status]
    BY <1>3, <1>6 DEF MayChangeStatus
  <2>2. incident[i].status \in {"open", "pending_review", "resolved"}
    BY <1>1, <2>1 DEF STATUS_TRANSITIONS, Status
  <2>3. Resolution(i, task[r].seen) = incident[i].resolved
    BY <1>6 DEF Resolution
  <2> QED
    BY <1>3, <1>4, <2>2, <2>3 DEF DateShown
<1> QED
  BY <1>3, <1>5, <1>6 DEF MayChangeStatus

\* Incidents change their status along the table, by those who may, for every
\* number of incidents, technicians and requests (incidents.service updateStatus
\* and validateStatusChangePermission).
THEOREM ChangesFollowTable == DeskSpec => StatusFollowsTable
<1>1. ASSUME IncidentInv, [DeskNext]_deskVars
      PROVE  [\A i \in IncidentIds : \A r \in Changing(i) :
                \/ Raced(i)
                \/ /\ incident'[i].status \in STATUS_TRANSITIONS[incident[i].status]
                   /\ task[r].kind \in {Admin, incident[i].assigned}
                   /\ incident'[i].status = "closed" =>
                        incident'[i].resolved = (incident[i].status = "resolved")]_incidentVars
  <2>1. ASSUME NEW i \in IncidentIds, NEW r \in Changing(i), ~Raced(i)
        PROVE  /\ incident'[i].status \in STATUS_TRANSITIONS[incident[i].status]
               /\ task[r].kind \in {Admin, incident[i].assigned}
               /\ incident'[i].status = "closed" =>
                    incident'[i].resolved = (incident[i].status = "resolved")
    BY <1>1, <2>1, ChangeFollows
  <2> QED
    BY <2>1
<1> QED
  BY <1>1, IncidentsInit, IncidentsStep, PTL DEF DeskSpec, StatusFollowsTable
-----------------------------------------------------------------------------
(* Types *)

\* A step makes one request more, or none.
Counted == ops' = ops \/ (ops < MaxOps[area] /\ ops' = ops + 1)

LEMMA StatementsCount ==
  /\ \A r, a, new : Open(r, a, new) => Counted
  /\ \A a, objects : AtOnce(a, objects) => Counted
  /\ \A r, new : Proceed(r, new) => Counted
  /\ \A r, op : Goto(r, op) => Counted
  /\ \A r : Close(r) => Counted
  BY DEF Open, AtOnce, Proceed, Goto, Close, Counted

LEMMA RequestsCounted ==
  ASSUME DeskNext
  PROVE  Counted
<1>1. CASE SessionStep
  <2>1. ASSUME NEW r \in Requests,
               \/ OpenLogin(r) \/ OpenPasswordChange(r) \/ ForgotPassword(r) \/ OpenUnlink(r)
               \/ \E g \in Google : OpenGoogleLogin(r, g) \/ OpenLink(r, g)
               \/ \E s \in Tokens : OpenRefresh(r, s)
               \/ \E t \in ResetTokens : OpenReset(r, t)
               \/ \E active, password : OpenUpdate(r, active, password)
        PROVE  Counted
    <3>1. ASSUME OpenLogin(r) \/ OpenPasswordChange(r) PROVE Counted
      BY <3>1, StatementsCount, Zenon DEF OpenLogin, OpenPasswordChange
    <3>2. ASSUME ForgotPassword(r) \/ OpenUnlink(r) PROVE Counted
      BY <3>2, StatementsCount, Zenon DEF ForgotPassword, OpenUnlink
    <3>3. ASSUME NEW g, OpenGoogleLogin(r, g) PROVE Counted
      BY <3>3, StatementsCount, Zenon DEF OpenGoogleLogin
    <3>4. ASSUME NEW g, OpenLink(r, g) PROVE Counted
      BY <3>4, StatementsCount, Zenon DEF OpenLink
    <3>5. ASSUME NEW s, OpenRefresh(r, s) PROVE Counted
      BY <3>5, StatementsCount, Zenon DEF OpenRefresh
    <3>6. ASSUME NEW t, OpenReset(r, t) PROVE Counted
      BY <3>6, StatementsCount, Zenon DEF OpenReset
    <3>7. ASSUME NEW active, NEW password, OpenUpdate(r, active, password) PROVE Counted
      BY <3>7, StatementsCount, Zenon DEF OpenUpdate
    <3> QED
      BY <2>1, <3>1, <3>2, <3>3, <3>4, <3>5, <3>6, <3>7
  <2>2. ASSUME NEW r \in Requests, Attach(r) \/ Enter(r) \/ RevokeOld(r) \/ IssueNew(r)
        PROVE  Counted
    BY <2>2, StatementsCount, Zenon DEF Attach, Enter, RevokeOld, IssueNew
  <2>3. ASSUME NEW r \in Requests,
               InvalidateResets(r) \/ SendReset(r) \/ ResetPassword(r) \/ ChangePassword(r)
        PROVE  Counted
    BY <2>3, StatementsCount, Zenon DEF InvalidateResets, SendReset, ResetPassword, ChangePassword
  <2>4. ASSUME NEW r \in Requests, UpdateUser(r) \/ EndSessions(r) \/ CheckOtherWay(r) \/ Detach(r)
        PROVE  Counted
    BY <2>4, StatementsCount, Zenon DEF UpdateUser, EndSessions, CheckOtherWay, Detach
  <2>5. ASSUME (\E s \in Tokens : Logout(s)) \/ LogoutAllDevices PROVE Counted
    BY <2>5, StatementsCount, Zenon DEF Logout, LogoutAllDevices
  <2> QED
    BY <1>1, <2>1, <2>2, <2>3, <2>4, <2>5 DEF SessionStep
<1>2. CASE RoleStep
  <2>1. ASSUME NEW r, NEW role, OpenRoleAssignment(r, role) \/ OpenRevocation(r, role)
        PROVE  Counted
    BY <2>1, StatementsCount, Zenon DEF OpenRoleAssignment, OpenRevocation
  <2>2. ASSUME NEW r, AssignRole(r) \/ RevokeRole(r) \/ PromoteRole(r) \/ RefuseReplacement(r)
        PROVE  Counted
    BY <2>2, StatementsCount, Zenon DEF AssignRole, RevokeRole, PromoteRole, RefuseReplacement
  <2>3. ASSUME NEW r, NEW new, NEW first, OpenReplacement(r, new, first) PROVE Counted
    BY <2>3, StatementsCount, Zenon DEF OpenReplacement
  <2>4. ASSUME NEW r, ReplaceRoles(r) PROVE Counted
    BY <2>4 DEF ReplaceRoles, Counted
  <2> QED
    BY <1>2, <2>1, <2>2, <2>3, <2>4 DEF RoleStep
<1>3. CASE IncidentStep
  <2>1. ASSUME NEW r, NEW i, NEW t, OpenTechnicianAssignment(r, i, t) PROVE Counted
    BY <2>1, StatementsCount, Zenon DEF OpenTechnicianAssignment
  <2>2. ASSUME NEW r, NEW i, NEW new, NEW actor, OpenStatusChange(r, i, new, actor) PROVE Counted
    BY <2>2, StatementsCount, Zenon DEF OpenStatusChange
  <2>3. ASSUME NEW r, OpenListing(r) \/ AssignTechnician(r) \/ UpdateStatus(r) PROVE Counted
    BY <2>3, StatementsCount, Zenon DEF OpenListing, AssignTechnician, UpdateStatus
  <2>4. ASSUME NEW r, \/ ForgetList(r) \/ KeepList(r)
                      \/ ReadHolders(r) \/ ReadActive(r) \/ CountWork(r)
        PROVE  Counted
    BY <2>4, StatementsCount, Zenon DEF ForgetList, KeepList, ReadHolders, ReadActive, CountWork
  <2>5. ASSUME NEW i, Report(i) \/ DeleteIncident(i) PROVE Counted
    BY <2>5, StatementsCount, Zenon DEF Report, DeleteIncident
  <2>6. ASSUME (\E t, column : ChangeStaff(t, column)) \/ ExpireList PROVE Counted
    BY <2>6, StatementsCount, Zenon DEF ChangeStaff, ExpireList
  <2> QED
    BY <1>3, <2>1, <2>2, <2>3, <2>4, <2>5, <2>6 DEF IncidentStep
<1>4. CASE NoticeStep
  <2>1. ASSUME NEW r, NEW users, OpenNotification(r, users) PROVE Counted
    BY <2>1, StatementsCount, Zenon DEF OpenNotification
  <2>2. ASSUME NEW r, WriteNotice(r) \/ MissNotice(r) \/ QueueBatch(r) PROVE Counted
    BY <2>2, StatementsCount, Zenon DEF WriteNotice, MissNotice, QueueBatch
  <2>3. ASSUME NEW users, QueueSend(users) PROVE Counted
    BY <2>3, StatementsCount, Zenon DEF QueueSend
  <2>4. ASSUME NEW j, MakeNotice(j) \/ ReadRecipient(j) \/ QueueDelivery(j) \/ EndJob(j) PROVE Counted
    BY <2>4 DEF MakeNotice, ReadRecipient, QueueDelivery, EndJob, requestVars, Counted
  <2>5. ASSUME NEW j, FailJob(j) \/ StallJob(j) PROVE Counted
    BY <2>5 DEF FailJob, StallJob, Counted
  <2>6. ASSUME NEW d, \/ Deliver(d) \/ UpdateDeliveryStatus(d)
                      \/ FailDelivery(d) \/ StallDelivery(d)
        PROVE  Counted
    BY <2>6 DEF Deliver, UpdateDeliveryStatus, FailDelivery, StallDelivery, requestVars, Counted
  <2>7. ASSUME NEW n, DeleteNotice(n) PROVE Counted
    BY <2>7 DEF DeleteNotice, requestVars, Counted
  <2> QED
    BY <1>4, <2>1, <2>2, <2>3, <2>4, <2>5, <2>6, <2>7 DEF NoticeStep, NoticeWork
<1>5. CASE FailAny
  BY <1>5 DEF FailAny, Fail, Counted
<1> QED
  BY <1>1, <1>2, <1>3, <1>4, <1>5 DEF DeskNext

\* A request at a statement of one part is touched by steps of that part and
\* failures only.
Elsewhere(names) == \A r \in Requests : task'[r].op \in names => task'[r] = task[r]

LEMMA ElsewhereFacts ==
  ASSUME InArea, DeskNext
  PROVE  /\ ~RoleStep => Elsewhere(RoleOps)
         /\ ~IncidentStep => Elsewhere(IncidentOps)
         /\ ~NoticeStep => Elsewhere(NoticeOps)
<1> USE DEF Elsewhere, SessionOps, RoleOps, IncidentOps, NoticeOps
<1>1. CASE SessionStep
  BY <1>1, SessionRuns DEF Runs, Fits
<1>2. CASE RoleStep
  BY <1>2, RoleRuns DEF Runs, Fits
<1>3. CASE IncidentStep
  BY <1>3, IncidentRuns DEF Runs, Fits
<1>4. CASE NoticeStep
  BY <1>4, NoticeRuns DEF Runs, Fits
<1>5. CASE FailAny
  <2>1. PICK r \in Requests : Fail(r)
    BY <1>5 DEF FailAny
  <2>2. Becomes(r, Idle)
    BY <2>1, FailFacts DEF InArea, Fits
  <2> QED
    BY <2>2 DEF Becomes, Idle
<1> QED
  BY <1>1, <1>2, <1>3, <1>4, <1>5 DEF DeskNext

\* The roles a revocation has read are roles, and so is the primary one.
RoleTyped ==
    /\ primary \in Roles
    /\ \A r \in Requests : task[r].op \in {"revokeRole", "promote"} => task[r].seen \subseteq Roles

LEMMA RoleTypes ==
  ASSUME RolesInv, RoleTyped, [DeskNext]_deskVars
  PROVE  RoleTyped'
<1> USE DEF RoleTyped
<1>1. CASE DeskNext /\ RoleStep
  <2>0. TasksOK /\ roles \subseteq Roles
    BY DEF RolesInv, InArea, Fits
  <2>a. area = "roles"
    BY <1>1, RoleRuns DEF RolesInv
  <2>b. ASSUME NEW r \in Requests, NEW new, NEW first, OpenReplacement(r, new, first) PROVE RoleTyped'
    <3>1. PICK next : /\ Open(r, {"roles"}, next)
                      /\ next = [op |-> "replace", on |-> {User}, row |-> first, seen |-> roles,
                                 kind |-> new]
      BY <2>b, Zenon DEF OpenReplacement
    <3>2. Shape(next) /\ next.op = "replace"
      BY <3>1 DEF Shape
    <3>3. Becomes(r, next)
      BY <2>0, <3>1, <3>2, OpenFacts
    <3> QED
      BY <2>b, <3>2, <3>3 DEF Becomes, OpenReplacement, roleVars
  <2>1. ASSUME NEW r \in Requests, NEW role, OpenRoleAssignment(r, role) PROVE RoleTyped'
    <3>1. PICK new : Open(r, {"roles"}, new) /\ new = [Idle EXCEPT !.op = "grant", !.on = {User}, !.row = role]
      BY <2>1, Zenon DEF OpenRoleAssignment
    <3>2. Shape(new) /\ new.op = "grant"
      BY <3>1 DEF Shape, Idle
    <3>3. Becomes(r, new)
      BY <2>0, <3>1, <3>2, OpenFacts
    <3> QED
      BY <2>1, <3>2, <3>3 DEF Becomes, OpenRoleAssignment, roleVars
  <2>2. ASSUME NEW r \in Requests, NEW role, OpenRevocation(r, role) PROVE RoleTyped'
    <3>1. PICK new : /\ Open(r, {"roles"}, new)
                     /\ new = [op |-> "revokeRole", on |-> {User}, row |-> role, seen |-> roles,
                               kind |-> primary]
      BY <2>2, Zenon DEF OpenRevocation
    <3>2. Shape(new) /\ new.seen = roles
      BY <3>1 DEF Shape
    <3>3. Becomes(r, new)
      BY <2>0, <3>1, <3>2, OpenFacts
    <3> QED
      BY <2>0, <2>2, <3>2, <3>3 DEF Becomes, OpenRevocation, roleVars
  <2>3. ASSUME NEW r \in Requests, Close(r), primary' \in Roles PROVE RoleTyped'
    BY <2>0, <2>3, CloseFacts DEF Becomes, Idle
  <2>4. ASSUME NEW r \in Requests, AssignRole(r) PROVE RoleTyped'
    BY <2>3, <2>4, Zenon DEF AssignRole
  <2>5. ASSUME NEW r \in Requests, PromoteRole(r) PROVE RoleTyped'
    BY <2>3, <2>5 DEF PromoteRole, At
  <2>6. ASSUME NEW r \in Requests, RevokeRole(r) PROVE RoleTyped'
    <3>1. CASE Close(r)
      BY <2>3, <2>6, <3>1 DEF RevokeRole
    <3>2. CASE Goto(r, "promote")
      <4>1. PICK new : Becomes(r, new) /\ new = [task[r] EXCEPT !.op = "promote"]
        BY <2>0, <3>2, GotoFacts
      <4>2. new.seen = task[r].seen
        BY <2>0, <4>1 DEF TasksOK, Shape
      <4> QED
        BY <2>6, <4>1, <4>2 DEF Becomes, RevokeRole, At
    <3> QED
      BY <2>6, <3>1, <3>2 DEF RevokeRole
  <2>7. ASSUME NEW r \in Requests, RefuseReplacement(r) PROVE RoleTyped'
    BY <2>3, <2>7 DEF RefuseReplacement, roleVars
  <2>8. ASSUME NEW r \in Requests, ReplaceRoles(r) PROVE RoleTyped'
    <3>1. primary' \in Roles
      BY <2>8, <2>a DEF ReplaceRoles, RolesInv, RoleTask, At
    <3>2. ASSUME NEW q \in Requests, task'[q].op \in {"revokeRole", "promote"}
          PROVE  task'[q] = task[q]
      <4>1. Shape(task[q]) /\ q # r
        BY <2>0, <2>8, <3>2 DEF TasksOK, ReplaceRoles, Idle
      <4>2. task'[q] = IF At(q, "replace") THEN [task[q] EXCEPT !.seen = @ \ task[r].seen] ELSE task[q]
        BY <2>8, <4>1 DEF ReplaceRoles
      <4> QED
        BY <3>2, <4>1, <4>2 DEF Shape, At
    <3> QED
      BY <3>1, <3>2
  <2> QED
    BY <1>1, <2>1, <2>2, <2>4, <2>5, <2>6, <2>7, <2>8, <2>b DEF RoleStep
<1>2. CASE DeskNext /\ ~RoleStep
  <2>1. UNCHANGED primary
    BY <1>2 DEF DeskNext, BesidesSessions, BesidesIncidents, BesidesNotices, FailAny, roleVars
  <2>2. Elsewhere(RoleOps)
    BY <1>2, ElsewhereFacts DEF RolesInv
  <2> QED
    BY <2>1, <2>2 DEF Elsewhere, RoleOps
<1>3. CASE UNCHANGED deskVars
  BY <1>3 DEF deskVars, requestVars, roleVars
<1> QED
  BY <1>1, <1>2, <1>3

\* What a listing has read is technicians, and what it has counted a list.
Lists == [members : SUBSET Technicians, work : [IncidentIds -> Work \cup {NoRow}]]
ListingTyped(t) ==
    /\ t.op \in {"members", "count"} => t.seen \subseteq Technicians
    /\ t.op = "keep" => t.kind \in Lists

WorkTyped ==
    /\ staff \in [role : SUBSET Technicians, active : SUBSET Technicians]
    /\ restaffed \subseteq Technicians
    /\ list \in Lists \cup {NoRow}
    /\ \A r \in Requests : ListingTyped(task[r])

LEMMA WorkTypes ==
  ASSUME IncidentInv, WorkTyped, [DeskNext]_deskVars
  PROVE  WorkTyped'
<1> USE DEF WorkTyped
<1>0. TasksOK
  BY DEF IncidentInv, InArea, Fits
<1>1. CASE DeskNext /\ IncidentStep
  <2>1. ASSUME NEW r \in Requests, NEW new, ListingTyped(new), Becomes(r, new),
               UNCHANGED staff, restaffed' \in {restaffed, {}}, list' \in {list, NoRow}
        PROVE  WorkTyped'
    BY <2>1 DEF Becomes
  <2>2. ASSUME NEW r \in Requests, NEW i, NEW t, OpenTechnicianAssignment(r, i, t) PROVE WorkTyped'
    <3>1. PICK new : /\ Open(r, {"incidents"}, new)
                     /\ new = [Idle EXCEPT !.op = "assign", !.on = {i, Listed(i)}, !.row = i, !.kind = t]
      BY <2>2, Zenon DEF OpenTechnicianAssignment
    <3>2. Shape(new) /\ new.op = "assign"
      BY <3>1 DEF Shape, Idle
    <3> QED
      BY <1>0, <2>1, <2>2, <3>1, <3>2, OpenFacts DEF OpenTechnicianAssignment, incidentVars, ListingTyped
  <2>3. ASSUME NEW r \in Requests, NEW i, NEW new, NEW actor, OpenStatusChange(r, i, new, actor)
        PROVE  WorkTyped'
    <3>1. PICK next : /\ Open(r, {"incidents"}, next)
                      /\ next = [op |-> "status", on |-> {i, Listed(i)}, row |-> i, seen |-> new,
                                 kind |-> actor]
      BY <2>3, Zenon DEF OpenStatusChange
    <3>2. Shape(next) /\ next.op = "status"
      BY <3>1 DEF Shape
    <3> QED
      BY <1>0, <2>1, <2>3, <3>1, <3>2, OpenFacts DEF OpenStatusChange, incidentVars, ListingTyped
  <2>4. ASSUME NEW r \in Requests, OpenListing(r) PROVE WorkTyped'
    <3>1. PICK new : /\ Open(r, {"incidents"}, new)
                     /\ new = [Idle EXCEPT !.op = "holders", !.on = {Listed(i) : i \in IncidentIds}]
      BY <2>4, Zenon DEF OpenListing
    <3>2. Shape(new) /\ new.op = "holders"
      BY <3>1 DEF Shape, Idle
    <3> QED
      BY <1>0, <2>1, <2>4, <3>1, <3>2, OpenFacts DEF OpenListing, ListingTyped
  <2>5. ASSUME NEW r \in Requests, UNCHANGED <<staff, restaffed>>, list' \in {list, NoRow},
               Close(r) \/ Goto(r, "forget")
        PROVE  WorkTyped'
    <3>1. CASE Close(r)
      BY <1>0, <2>1, <2>5, <3>1, CloseFacts, IdleShape DEF Idle, ListingTyped
    <3>2. CASE Goto(r, "forget")
      <4>1. PICK new : Becomes(r, new) /\ new = [task[r] EXCEPT !.op = "forget"]
        BY <1>0, <3>2, GotoFacts
      <4>2. Shape(new) /\ new.op = "forget"
        BY <1>0, <4>1 DEF TasksOK, Shape
      <4> QED
        BY <2>1, <2>5, <4>1, <4>2 DEF ListingTyped
    <3> QED
      BY <2>5, <3>1, <3>2
  <2>6. ASSUME NEW r \in Requests, AssignTechnician(r) \/ UpdateStatus(r) \/ ForgetList(r)
        PROVE  WorkTyped'
    <3>1. UNCHANGED <<staff, restaffed>> /\ list' \in {list, NoRow}
      BY <2>6 DEF AssignTechnician, UpdateStatus, ForgetList
    <3>2. Close(r) \/ Goto(r, "forget")
      BY <2>6, Zenon DEF AssignTechnician, UpdateStatus, ForgetList
    <3> QED
      BY <2>5, <3>1, <3>2
  <2>7. ASSUME NEW r \in Requests, KeepList(r) PROVE WorkTyped'
    <3>1. Becomes(r, Idle) /\ task[r].op = "keep"
      BY <1>0, <2>7, CloseFacts DEF KeepList, At
    <3>2. /\ list' = task[r].kind /\ ListingTyped(task[r]) /\ ListingTyped(Idle)
          /\ UNCHANGED <<staff, restaffed>>
      BY <2>7 DEF KeepList, ListingTyped, Idle
    <3> QED
      BY <3>1, <3>2 DEF Becomes, ListingTyped
  <2>8. ASSUME NEW r \in Requests, NEW new, Proceed(r, new), Shape(new), ListingTyped(new),
               UNCHANGED incidentVars
        PROVE  WorkTyped'
    BY <1>0, <2>1, <2>8, ProceedFacts DEF incidentVars
  <2>10. ASSUME NEW r \in Requests, ReadHolders(r) PROVE WorkTyped'
    <3>1. CASE Close(r)
      BY <2>5, <2>10, <3>1 DEF ReadHolders, incidentVars
    <3>2. CASE ~Close(r)
      <4>1. PICK new : Proceed(r, new) /\ new = [task[r] EXCEPT !.op = "members", !.seen = staff.role]
        BY <2>10, <3>2 DEF ReadHolders
      <4>2. Shape(task[r])
        BY <1>0 DEF TasksOK
      <4>3. Shape(new) /\ new.op = "members" /\ new.seen = staff.role
        BY <4>1, <4>2 DEF Shape
      <4> QED
        BY <2>8, <2>10, <4>1, <4>3 DEF ReadHolders, ListingTyped
    <3> QED
      BY <3>1, <3>2
  <2>11. ASSUME NEW r \in Requests, ReadActive(r) PROVE WorkTyped'
    <3>1. PICK new : /\ Proceed(r, new)
                     /\ new = [task[r] EXCEPT !.op = "count", !.seen = @ \cap staff.active]
      BY <2>11 DEF ReadActive
    <3>2. Shape(task[r])
      BY <1>0 DEF TasksOK
    <3>3. Shape(new) /\ new.op = "count" /\ new.seen = task[r].seen \cap staff.active
      BY <3>1, <3>2 DEF Shape
    <3> QED
      BY <2>8, <2>11, <3>1, <3>3 DEF ReadActive, ListingTyped
  <2>12. ASSUME NEW r \in Requests, CountWork(r) PROVE WorkTyped'
    <3>1. PICK new : /\ Proceed(r, new)
                     /\ new = [task[r] EXCEPT !.op = "keep",
                                  !.kind = [members |-> task[r].seen, work |-> Workload(task[r].seen)]]
      BY <2>12 DEF CountWork
    <3>6. Shape(task[r])
      BY <1>0 DEF TasksOK
    <3>2. /\ Shape(new) /\ new.op = "keep"
          /\ new.kind = [members |-> task[r].seen, work |-> Workload(task[r].seen)]
      BY <3>1, <3>6 DEF Shape
    <3>3. task[r].seen \subseteq Technicians
      BY <2>12 DEF CountWork, ListingTyped, At
    <3>4. Workload(task[r].seen) \in [IncidentIds -> Work \cup {NoRow}]
      BY DEF Workload
    <3>5. new.kind \in Lists
      BY <3>2, <3>3, <3>4 DEF Lists
    <3> QED
      BY <2>8, <2>12, <3>1, <3>2, <3>5 DEF CountWork, ListingTyped
  <2>9. ASSUME \/ \E i \in IncidentIds : Report(i) \/ DeleteIncident(i)
               \/ \E t \in Technicians, column \in {"role", "active"} : ChangeStaff(t, column)
               \/ ExpireList
        PROVE  WorkTyped'
    <3>1. task' = task /\ list' \in {list, NoRow}
      BY <1>0, <2>9, AtOnceFacts, Zenon DEF Report, DeleteIncident, ChangeStaff, ExpireList
    <3>2. /\ staff' \in [role : SUBSET Technicians, active : SUBSET Technicians]
          /\ restaffed' \subseteq Technicians
      BY <2>9 DEF Report, DeleteIncident, ChangeStaff, ExpireList
    <3> QED
      BY <3>1, <3>2
  <2> QED
    BY <1>1, <2>2, <2>3, <2>4, <2>6, <2>7, <2>9, <2>10, <2>11, <2>12 DEF IncidentStep
<1>2. CASE DeskNext /\ ~IncidentStep
  <2>1. UNCHANGED <<staff, restaffed, list>>
    BY <1>2 DEF DeskNext, BesidesSessions, BesidesRoles, BesidesNotices, FailAny, incidentVars
  <2>2. Elsewhere(IncidentOps)
    BY <1>2, ElsewhereFacts DEF IncidentInv
  <2> QED
    BY <2>1, <2>2 DEF Elsewhere, IncidentOps, ListingTyped
<1>3. CASE UNCHANGED deskVars
  BY <1>3 DEF deskVars, requestVars, incidentVars
<1> QED
  BY <1>1, <1>2, <1>3

\* Outside its own area a session stays as it was at the start.
LEMMA SessionTypes ==
  ASSUME SessionInv, SessionTypeOK, [DeskNext]_deskVars
  PROVE  SessionTypeOK'
<1>1. SessionInv'
  BY SessionsStep
<1>2. area' = area
  BY DeskRuns DEF deskVars, requestVars, SessionInv
<1>3. CASE area = "sessions"
  BY <1>1, <1>2, <1>3 DEF SessionInv, TokenInv, LinkInv, ResetInv, SessionTypeOK
<1>4. CASE area # "sessions"
  <2>1. UNCHANGED sessionVars
    <3>1. CASE DeskNext
      <4>1. ~SessionStep
        BY <1>4, SessionRuns DEF SessionInv
      <4> QED
        BY <3>1, <4>1 DEF DeskNext, BesidesRoles, BesidesIncidents, BesidesNotices, FailAny
    <3>2. CASE UNCHANGED deskVars
      BY <3>2 DEF deskVars
    <3> QED
      BY <3>1, <3>2
  <2> QED
    BY <2>1 DEF sessionVars, SessionTypeOK
<1> QED
  BY <1>3, <1>4

\* A job stands at a user of its list, and has channels left only for a user
\* whose row it has.
JobTyped(j) ==
    /\ j \in Job
    /\ j.at <= Len(j.users)
    /\ j.left # <<>> =>
        /\ j.at >= 1
        /\ j.kind = "send" => j.rows # <<>>
        /\ j.kind = "batch" => j.at <= Len(j.rows)

NoticeTaskTyped(r) ==
    At(r, "write") => /\ task[r].row \in Seq(Users) /\ task[r].seen \in Seq(Notices)
                      /\ task[r].kind \in Seq(Users)

RowsTyped ==
    notice \in [Notices -> [status : {"absent", "pending", "delivered", "failed", "deleted"},
                            user : Users \cup {NoRow}]]

NoticeTyped ==
    /\ RowsTyped
    /\ \A j \in jobs : JobTyped(j)
    /\ DOMAIN outbox \subseteq DeliverJob
    /\ reached \subseteq Notices /\ shifted \subseteq Notices
    /\ \A r \in Requests : NoticeTaskTyped(r)

\* A job added to a bag, and one taken out of it.
LEMMA BagChanged ==
  ASSUME NEW B, NEW e
  PROVE  /\ DOMAIN (B (+) SetToBag({e})) \subseteq DOMAIN B \cup {e}
         /\ DOMAIN (B (-) SetToBag({e})) \subseteq DOMAIN B
<1>1. DOMAIN SetToBag({e}) = {e}
  BY DEF SetToBag
<1>2. DOMAIN (B (+) SetToBag({e})) = DOMAIN B \cup DOMAIN SetToBag({e})
  BY DEF (+)
<1>3. DOMAIN (B (-) SetToBag({e})) \subseteq DOMAIN B
  BY DEF (-)
<1> QED
  BY <1>1, <1>2, <1>3

LEMMA NewRowTyped ==
  ASSUME RowsTyped, Absent # {}, NEW u \in Users
  PROVE  NewNotice \in Notices /\ Written(NewNotice, u) \in
           [Notices -> [status : {"absent", "pending", "delivered", "failed", "deleted"},
                        user : Users \cup {NoRow}]]
<1>1. NewNotice \in Notices
  BY DEF NewNotice, Absent
<1>2. [status |-> "pending", user |-> u] \in
        [status : {"absent", "pending", "delivered", "failed", "deleted"}, user : Users \cup {NoRow}]
  OBVIOUS
<1> QED
  BY <1>1, <1>2 DEF RowsTyped, Written

LEMMA NewJobTyped ==
  ASSUME ops \in Nat, NEW kind \in {"send", "batch"}, NEW users \in Seq(Users), NEW rows \in Seq(Notices)
  PROVE  JobTyped(NewJob(kind, users, rows))
<1>1. <<>> \in Seq({"zalo", "push", "email"}) /\ 1 \in 1..BatchAttempts /\ 0 \in 0..MaxStalls
      /\ Len(users) \in Nat
  BY NoticeAssumption
<1>2. PICK j : j = NewJob(kind, users, rows)
  OBVIOUS
<1>3. j \in Job
  BY <1>1, <1>2 DEF NewJob, Job
<1>4. j.at = 0 /\ j.left = <<>> /\ j.users = users
  BY <1>2 DEF NewJob
<1> QED
  BY <1>1, <1>2, <1>3, <1>4 DEF JobTyped

\* The statements of a job.
LEMMA JobStatements ==
  ASSUME NoticeTyped, NEW j \in jobs, UNCHANGED task,
         \/ MakeNotice(j) \/ ReadRecipient(j) \/ QueueDelivery(j) \/ EndJob(j)
         \/ FailJob(j) \/ StallJob(j)
  PROVE  NoticeTyped'
<1>0. /\ JobTyped(j) /\ j \in Job
      /\ j.kind \in {"send", "batch"} /\ j.id \in Nat /\ j.users \in Seq(Users)
      /\ j.rows \in Seq(Notices) /\ j.at \in Nat /\ j.left \in Seq({"zalo", "push", "email"})
      /\ j.tries \in 1..BatchAttempts /\ j.stalls \in 0..MaxStalls
      /\ Len(j.users) \in Nat /\ Len(j.rows) \in Nat
  BY DEF NoticeTyped, JobTyped, Job
<1>1. ASSUME NEW new, JobTyped(new), Replace(j, new), RowsTyped', DOMAIN outbox' \subseteq DeliverJob,
             UNCHANGED <<reached, shifted>>
      PROVE  NoticeTyped'
  BY <1>1 DEF NoticeTyped, Replace, NoticeTaskTyped, At
<1>2. ASSUME MakeNotice(j) PROVE NoticeTyped'
  <2>1. PICK u : u = j.users[j.at + 1]
    OBVIOUS
  <2>2. u \in Users /\ j.kind = "send" /\ j.left = <<>> /\ j.at < Len(j.users)
    BY <1>0, <1>2, <2>1 DEF MakeNotice
  <2>3. CASE u \in Wanting
    <3>1. PICK new : new = [j EXCEPT !.at = @ + 1, !.rows = Append(@, NewNotice), !.left = Channels[u]]
      OBVIOUS
    <3>2. /\ Absent # {} /\ notice' = Written(NewNotice, u) /\ Replace(j, new)
          /\ UNCHANGED <<outbox, reached, shifted>>
      BY <1>2, <2>1, <2>3, <3>1 DEF MakeNotice
    <3>3. RowsTyped' /\ NewNotice \in Notices
      BY <2>2, <3>2, NewRowTyped DEF NoticeTyped, RowsTyped
    <3>4. Channels[u] \in Seq({"zalo", "push", "email"})
      BY <2>2, NoticeAssumption
    <3>5. Append(j.rows, NewNotice) \in Seq(Notices) /\ Append(j.rows, NewNotice) # <<>>
      BY <1>0, <3>3, AppendProperties
    <3>6. new = [kind |-> j.kind, id |-> j.id, users |-> j.users, rows |-> Append(j.rows, NewNotice),
                 at |-> j.at + 1, left |-> Channels[u], tries |-> j.tries,
                 stalls |-> j.stalls]
      BY <1>0, <3>1 DEF Job
    <3>7. new \in Job
      BY <1>0, <3>4, <3>5, <3>6 DEF Job
    <3>8. JobTyped(new)
      BY <1>0, <2>2, <3>5, <3>6, <3>7 DEF JobTyped
    <3> QED
      BY <1>1, <3>2, <3>3, <3>8 DEF NoticeTyped
  <2>4. CASE u \notin Wanting
    <3>1. PICK new : new = [j EXCEPT !.at = @ + 1]
      OBVIOUS
    <3>2. Replace(j, new) /\ UNCHANGED <<notice, outbox, reached, shifted>>
      BY <1>2, <2>1, <2>4, <3>1 DEF MakeNotice
    <3>3. new = [kind |-> j.kind, id |-> j.id, users |-> j.users, rows |-> j.rows,
                 at |-> j.at + 1, left |-> j.left, tries |-> j.tries,
                 stalls |-> j.stalls]
      BY <1>0, <3>1 DEF Job
    <3>4. new \in Job
      BY <1>0, <3>3 DEF Job
    <3>5. JobTyped(new)
      BY <1>0, <2>2, <3>3, <3>4 DEF JobTyped
    <3> QED
      BY <1>1, <3>2, <3>5 DEF NoticeTyped, RowsTyped
  <2> QED
    BY <2>3, <2>4
<1>3. ASSUME ReadRecipient(j) PROVE NoticeTyped'
  <2>1. PICK u, left : /\ u = j.users[j.at + 1]
                       /\ left = IF j.at < Len(j.rows) THEN Channels[u] ELSE <<>>
    OBVIOUS
  <2>2. u \in Users /\ j.kind = "batch" /\ j.at < Len(j.users)
    BY <1>0, <1>3, <2>1 DEF ReadRecipient
  <2>3. left \in Seq({"zalo", "push", "email"}) /\ (left # <<>> => j.at < Len(j.rows))
    BY <2>1, <2>2, NoticeAssumption
  <2>4. PICK new : new = [j EXCEPT !.at = @ + 1, !.left = left]
    OBVIOUS
  <2>5. Replace(j, new) /\ UNCHANGED <<notice, outbox, reached, shifted>>
    BY <1>3, <2>1, <2>4 DEF ReadRecipient
  <2>6. new = [kind |-> j.kind, id |-> j.id, users |-> j.users, rows |-> j.rows,
               at |-> j.at + 1, left |-> left, tries |-> j.tries,
                 stalls |-> j.stalls]
    BY <1>0, <2>4 DEF Job
  <2>7. new \in Job
    BY <1>0, <2>3, <2>6 DEF Job
  <2>8. JobTyped(new)
    <3>1. /\ new.kind = j.kind /\ new.users = j.users /\ new.rows = j.rows
          /\ new.at = j.at + 1 /\ new.left = left
      BY <2>6
    <3> QED
      BY <1>0, <2>2, <2>3, <2>7, <3>1 DEF JobTyped
  <2> QED
    BY <1>1, <2>5, <2>8 DEF NoticeTyped, RowsTyped
<1>4. ASSUME QueueDelivery(j) PROVE NoticeTyped'
  <2>1. PICK new, d : /\ new = [j EXCEPT !.left = Tail(@)]
                      /\ d = [notice |-> RowOf(j), user |-> j.users[j.at],
                              channel |-> Head(j.left), result |-> "waiting", stalls |-> 0]
    OBVIOUS
  <2>2. /\ j.left # <<>> /\ outbox' = outbox (+) SetToBag({d}) /\ Replace(j, new)
        /\ UNCHANGED <<notice, reached, shifted>>
    BY <1>4, <2>1 DEF QueueDelivery
  <2>3. Head(j.left) \in {"zalo", "push", "email"} /\ Tail(j.left) \in Seq({"zalo", "push", "email"})
    BY <1>0, <2>2, HeadTailProperties
  <2>4. j.at \in 1..Len(j.users) /\ j.users[j.at] \in Users
    BY <1>0, <2>2 DEF JobTyped
  <2>5. RowOf(j) \in Notices
    <3>1. CASE j.kind = "send"
      <4>1. Len(j.rows) \in 1..Len(j.rows)
        BY <1>0, <2>2, <3>1, EmptySeq DEF JobTyped
      <4> QED
        BY <1>0, <3>1, <4>1 DEF RowOf
    <3>2. CASE j.kind = "batch"
      BY <1>0, <2>2, <2>4, <3>2 DEF JobTyped, RowOf
    <3> QED
      BY <1>0, <3>1, <3>2
  <2>6. d \in DeliverJob
    BY <2>1, <2>3, <2>4, <2>5, NoticeAssumption DEF DeliverJob
  <2>7. DOMAIN outbox' \subseteq DeliverJob
    <3>1. DOMAIN (outbox (+) SetToBag({d})) \subseteq DOMAIN outbox \cup {d}
      BY BagChanged
    <3>2. DOMAIN outbox' \subseteq DOMAIN outbox \cup {d}
      BY <2>2, <3>1, Zenon
    <3> QED
      BY <2>6, <3>2 DEF NoticeTyped
  <2>8. new = [kind |-> j.kind, id |-> j.id, users |-> j.users, rows |-> j.rows,
               at |-> j.at, left |-> Tail(j.left), tries |-> j.tries,
               stalls |-> j.stalls]
    BY <1>0, <2>1 DEF Job
  <2>9. new \in Job
    BY <1>0, <2>3, <2>8 DEF Job
  <2>10. JobTyped(new)
    BY <1>0, <2>2, <2>8, <2>9 DEF JobTyped
  <2> QED
    BY <1>1, <2>2, <2>7, <2>10 DEF NoticeTyped, RowsTyped
<1>5. ASSUME EndJob(j) PROVE NoticeTyped'
  BY <1>5 DEF EndJob, NoticeTyped, RowsTyped, NoticeTaskTyped, At
<1>7. ASSUME Abandon(j), UNCHANGED <<notice, outbox, reached, shifted>>
      PROVE  NoticeTyped'
  BY <1>7 DEF Abandon, NoticeTyped, RowsTyped, NoticeTaskTyped, At
<1>6. ASSUME FailJob(j) PROVE NoticeTyped'
  <2>1. CASE MayRetry(j)
    <3>1. PICK new : new = [j EXCEPT !.at = 0, !.left = <<>>, !.tries = @ + 1]
      OBVIOUS
    <3>2. Replace(j, new) /\ UNCHANGED <<notice, outbox, reached, shifted>>
      BY <1>6, <2>1, <3>1 DEF FailJob
    <3>3. j.tries + 1 \in 1..BatchAttempts /\ <<>> \in Seq({"zalo", "push", "email"})
      BY <1>0, <2>1, NoticeAssumption DEF MayRetry
    <3>4. new = [kind |-> j.kind, id |-> j.id, users |-> j.users, rows |-> j.rows,
                 at |-> 0, left |-> <<>>, tries |-> j.tries + 1, stalls |-> j.stalls]
      BY <1>0, <3>1 DEF Job
    <3>5. new \in Job
      BY <1>0, <3>3, <3>4 DEF Job
    <3>6. JobTyped(new)
      BY <1>0, <3>4, <3>5 DEF JobTyped
    <3> QED
      BY <1>1, <3>2, <3>6 DEF NoticeTyped, RowsTyped
  <2>2. CASE ~MayRetry(j)
    BY <1>6, <1>7, <2>2 DEF FailJob
  <2> QED
    BY <2>1, <2>2
<1>8. ASSUME StallJob(j) PROVE NoticeTyped'
  <2>1. CASE j.stalls < MaxStalls
    <3>1. PICK new, rows : /\ new = [j EXCEPT !.at = 0, !.left = <<>>, !.stalls = @ + 1, !.rows = rows]
                           /\ rows = IF j.kind = "send" THEN <<>> ELSE j.rows
      OBVIOUS
    <3>2. Replace(j, new) /\ UNCHANGED <<notice, outbox, reached, shifted>>
      BY <1>8, <2>1, <3>1 DEF StallJob
    <3>3. /\ j.stalls + 1 \in 0..MaxStalls /\ <<>> \in Seq({"zalo", "push", "email"})
          /\ rows \in Seq(Notices)
      BY <1>0, <2>1, <3>1, NoticeAssumption
    <3>4. new = [kind |-> j.kind, id |-> j.id, users |-> j.users, rows |-> rows,
                 at |-> 0, left |-> <<>>, tries |-> j.tries, stalls |-> j.stalls + 1]
      BY <1>0, <3>1 DEF Job
    <3>5. new \in Job
      BY <1>0, <3>3, <3>4 DEF Job
    <3>6. JobTyped(new)
      BY <1>0, <3>4, <3>5 DEF JobTyped
    <3> QED
      BY <1>1, <3>2, <3>6 DEF NoticeTyped, RowsTyped
  <2>2. CASE ~(j.stalls < MaxStalls)
    BY <1>7, <1>8, <2>2 DEF StallJob
  <2> QED
    BY <2>1, <2>2
<1> QED
  BY <1>2, <1>3, <1>4, <1>5, <1>6, <1>8

\* The statements of a delivery, and a row deleted by its user.
LEMMA DeliveryStatements ==
  ASSUME NoticeTyped, UNCHANGED task,
         \/ \E d \in BagToSet(outbox) :
              \/ Deliver(d) \/ UpdateDeliveryStatus(d)
              \/ FailDelivery(d) \/ StallDelivery(d)
         \/ \E n \in Notices : DeleteNotice(n)
  PROVE  NoticeTyped'
<1>1. ASSUME UNCHANGED <<jobs, shifted>>, RowsTyped', DOMAIN outbox' \subseteq DeliverJob,
             reached' \subseteq Notices
      PROVE  NoticeTyped'
  BY <1>1 DEF NoticeTyped, NoticeTaskTyped, At
<1>5. ASSUME NEW d, NEW e \in DeliverJob, Move(d, e)
      PROVE  DOMAIN outbox' \subseteq DeliverJob
  <2>1. PICK B : B = outbox (-) SetToBag({d})
    OBVIOUS
  <2>2. outbox' = B (+) SetToBag({e})
    BY <1>5, <2>1 DEF Move
  <2>3. DOMAIN B \subseteq DOMAIN outbox
    BY <2>1, BagChanged, Zenon
  <2>4. DOMAIN (B (+) SetToBag({e})) \subseteq DOMAIN B \cup {e}
    BY BagChanged
  <2>5. DOMAIN outbox' \subseteq DOMAIN B \cup {e}
    BY <2>2, <2>4, Zenon
  <2> QED
    BY <2>3, <2>5 DEF NoticeTyped
<1>6. ASSUME NEW d, Lose(d)
      PROVE  DOMAIN outbox' \subseteq DeliverJob
  <2>1. outbox' = outbox (-) SetToBag({d})
    BY <1>6 DEF Lose
  <2>2. DOMAIN (outbox (-) SetToBag({d})) \subseteq DOMAIN outbox
    BY BagChanged
  <2>3. DOMAIN outbox' \subseteq DOMAIN outbox
    BY <2>1, <2>2, Zenon
  <2> QED
    BY <2>3 DEF NoticeTyped
<1>2. ASSUME NEW d \in BagToSet(outbox), Deliver(d) PROVE NoticeTyped'
  <2>1. d \in DeliverJob
    BY <1>2 DEF NoticeTyped, BagToSet
  <2>2. PICK result \in {"delivered", "failed"} : Move(d, [d EXCEPT !.result = result])
    BY <1>2 DEF Deliver
  <2>3. PICK e : e = [d EXCEPT !.result = result]
    OBVIOUS
  <2>4. e \in DeliverJob /\ Move(d, e)
    BY <2>1, <2>2, <2>3 DEF DeliverJob
  <2>5. DOMAIN outbox' \subseteq DeliverJob
    BY <1>5, <2>4
  <2>10. UNCHANGED <<notice, jobs, shifted>> /\ reached' \subseteq reached \cup {d.notice}
    BY <1>2 DEF Deliver
  <2>11. d.notice \in Notices
    BY <2>1 DEF DeliverJob
  <2> QED
    BY <1>1, <2>5, <2>10, <2>11 DEF NoticeTyped, RowsTyped
<1>7. ASSUME NEW d \in BagToSet(outbox), StallDelivery(d) PROVE NoticeTyped'
  <2>1. d \in DeliverJob /\ d.stalls \in 0..MaxStalls
    BY <1>7 DEF NoticeTyped, BagToSet, DeliverJob
  <2>2. UNCHANGED <<notice, jobs, reached, shifted>>
    BY <1>7 DEF StallDelivery
  <2>3. CASE d.stalls < MaxStalls
    <3>1. PICK e : e = [d EXCEPT !.result = "waiting", !.stalls = @ + 1]
      OBVIOUS
    <3>2. Move(d, e)
      BY <1>7, <2>3, <3>1 DEF StallDelivery
    <3>3. d.stalls + 1 \in 0..MaxStalls
      BY <2>1, <2>3, NoticeAssumption
    <3>4. e \in DeliverJob
      BY <2>1, <3>1, <3>3 DEF DeliverJob
    <3>5. DOMAIN outbox' \subseteq DeliverJob
      BY <1>5, <3>2, <3>4
    <3> QED
      BY <1>1, <2>2, <3>5 DEF NoticeTyped, RowsTyped
  <2>4. CASE ~(d.stalls < MaxStalls)
    <3>1. DOMAIN outbox' \subseteq DeliverJob
      BY <1>6, <1>7, <2>4 DEF StallDelivery
    <3> QED
      BY <1>1, <2>2, <3>1 DEF NoticeTyped, RowsTyped
  <2> QED
    BY <2>3, <2>4
<1>8. ASSUME NEW d \in BagToSet(outbox), FailDelivery(d) PROVE NoticeTyped'
  BY <1>1, <1>6, <1>8 DEF FailDelivery, NoticeTyped, RowsTyped
<1>3. ASSUME NEW d \in BagToSet(outbox), UpdateDeliveryStatus(d) PROVE NoticeTyped'
  <2>1. d \in DeliverJob
    BY <1>3 DEF NoticeTyped, BagToSet
  <2>2. outbox' = outbox (-) SetToBag({d}) /\ UNCHANGED <<jobs, reached, shifted>>
    BY <1>3 DEF UpdateDeliveryStatus
  <2>3. DOMAIN (outbox (-) SetToBag({d})) \subseteq DOMAIN outbox
    BY BagChanged
  <2>4. DOMAIN outbox' \subseteq DOMAIN outbox
    BY <2>2, <2>3, Zenon
  <2>5. RowsTyped'
    <3>1. CASE UNCHANGED notice
      BY <3>1 DEF NoticeTyped, RowsTyped
    <3>2. CASE d.result # "waiting" /\ notice' = [notice EXCEPT ![d.notice].status = d.result]
      BY <2>1, <3>2 DEF NoticeTyped, RowsTyped, DeliverJob
    <3> QED
      BY <1>3, <3>1, <3>2 DEF UpdateDeliveryStatus
  <2> QED
    BY <1>1, <2>2, <2>4, <2>5 DEF NoticeTyped
<1>4. ASSUME NEW n \in Notices, DeleteNotice(n) PROVE NoticeTyped'
  <2>1. notice' = [notice EXCEPT ![n].status = "deleted"] /\ UNCHANGED <<jobs, outbox, reached, shifted>>
    BY <1>4 DEF DeleteNotice
  <2>2. RowsTyped'
    BY <2>1 DEF NoticeTyped, RowsTyped
  <2> QED
    BY <1>1, <2>1, <2>2 DEF NoticeTyped
<1> QED
  BY <1>2, <1>3, <1>4, <1>7, <1>8

\* The statements of a request to notify users.
LEMMA NotifyingStatements ==
  ASSUME NoticeTyped, InArea, ops \in Nat, NEW r \in Requests,
         \/ \E users \in Recipients : OpenNotification(r, users)
         \/ WriteNotice(r) \/ MissNotice(r) \/ QueueBatch(r)
  PROVE  NoticeTyped'
<1>0. TasksOK /\ Shape(task[r]) /\ NoticeTaskTyped(r)
  BY DEF InArea, Fits, TasksOK, NoticeTyped
<1>1. ASSUME NEW new, Becomes(r, new),
             new.op = "write" => /\ new.row \in Seq(Users) /\ new.seen \in Seq(Notices)
                                 /\ new.kind \in Seq(Users),
             RowsTyped', \A j \in jobs' : JobTyped(j), shifted' \subseteq Notices,
             UNCHANGED <<outbox, reached>>
      PROVE  NoticeTyped'
  BY <1>1 DEF NoticeTyped, NoticeTaskTyped, Becomes, At
<1>2. ASSUME NEW users \in Recipients, OpenNotification(r, users) PROVE NoticeTyped'
  <2>1. PICK new : /\ Open(r, {"notices"}, new)
                   /\ new = [op |-> "write", on |-> {}, row |-> users, seen |-> <<>>, kind |-> users]
    BY <1>2, Zenon DEF OpenNotification
  <2>2. Shape(new) /\ new.row = users /\ new.seen = <<>> /\ new.kind = users
    BY <2>1 DEF Shape
  <2>3. users \in Seq(Users) /\ <<>> \in Seq(Notices)
    BY NoticeAssumption
  <2>4. Becomes(r, new)
    BY <1>0, <2>1, <2>2, OpenFacts
  <2>5. UNCHANGED noticeVars
    BY <1>2 DEF OpenNotification
  <2> QED
    BY <1>1, <2>2, <2>3, <2>4, <2>5 DEF noticeVars, NoticeTyped, RowsTyped
<1>3. ASSUME WriteNotice(r) PROVE NoticeTyped'
  <2>1. /\ task[r].op = "write" /\ task[r].kind # <<>> /\ Absent # {}
        /\ notice' = Written(NewNotice, Head(task[r].kind)) /\ UNCHANGED <<jobs, outbox, reached, shifted>>
    BY <1>3 DEF WriteNotice, At
  <2>2. PICK new : Proceed(r, new) /\ new = [task[r] EXCEPT !.seen = Append(@, NewNotice),
                                    !.on = @ \cup {NewNotice}, !.kind = Tail(@)]
    BY <1>3 DEF WriteNotice
  <2>3. /\ task[r].row \in Seq(Users) /\ task[r].seen \in Seq(Notices) /\ task[r].kind \in Seq(Users)
        /\ Head(task[r].kind) \in Users /\ Tail(task[r].kind) \in Seq(Users)
    BY <1>0, <2>1, HeadTailProperties DEF NoticeTaskTyped, At
  <2>4. NewNotice \in Notices /\ RowsTyped'
    BY <2>1, <2>3, NewRowTyped DEF NoticeTyped, RowsTyped
  <2>5. Append(task[r].seen, NewNotice) \in Seq(Notices)
    BY <2>3, <2>4, AppendProperties
  <2>6. Shape(new)
    BY <1>0, <2>2 DEF Shape
  <2>7. new.seen = Append(task[r].seen, NewNotice)
    BY <1>0, <2>2 DEF Shape
  <2>8. new.kind = Tail(task[r].kind)
    BY <1>0, <2>2 DEF Shape
  <2>9. new.row = task[r].row
    BY <1>0, <2>2 DEF Shape
  <2>10. Becomes(r, new)
    BY <1>0, <2>2, <2>6, ProceedFacts
  <2> QED
    BY <1>1, <2>1, <2>3, <2>4, <2>5, <2>7, <2>8, <2>9, <2>10 DEF NoticeTyped
<1>4. ASSUME MissNotice(r) PROVE NoticeTyped'
  <2>1. task[r].op = "write" /\ task[r].kind # <<>> /\ UNCHANGED noticeVars
    BY <1>4 DEF MissNotice, At
  <2>2. PICK new : Proceed(r, new) /\ new = [task[r] EXCEPT !.kind = Tail(@)]
    BY <1>4 DEF MissNotice
  <2>3. /\ task[r].row \in Seq(Users) /\ task[r].seen \in Seq(Notices) /\ task[r].kind \in Seq(Users)
        /\ Tail(task[r].kind) \in Seq(Users)
    BY <1>0, <2>1, HeadTailProperties DEF NoticeTaskTyped, At
  <2>4. Shape(new)
    BY <1>0, <2>2 DEF Shape
  <2>5. new.seen = task[r].seen /\ new.row = task[r].row
    BY <1>0, <2>2 DEF Shape
  <2>6. new.kind = Tail(task[r].kind)
    BY <1>0, <2>2 DEF Shape
  <2>7. Becomes(r, new)
    BY <1>0, <2>2, <2>4, ProceedFacts
  <2> QED
    BY <1>1, <2>1, <2>3, <2>5, <2>6, <2>7 DEF NoticeTyped, RowsTyped, noticeVars
<1>5. ASSUME QueueBatch(r) PROVE NoticeTyped'
  <2>1. PICK seen, users : seen = task[r].seen /\ users = task[r].row
    OBVIOUS
  <2>2. seen \in Seq(Notices) /\ users \in Seq(Users)
    BY <1>0, <1>5, <2>1 DEF QueueBatch, NoticeTaskTyped
  <2>3. /\ jobs' \subseteq jobs \cup {NewJob("batch", users, seen)}
        /\ UNCHANGED <<notice, outbox, reached>> /\ Close(r)
    BY <1>5, <2>1 DEF QueueBatch
  <2>4. shifted' \subseteq shifted \cup {seen[i] : i \in DOMAIN seen}
    BY <1>5, <2>1 DEF QueueBatch
  <2>5. shifted' \subseteq Notices
    BY <2>2, <2>4 DEF NoticeTyped
  <2>6. JobTyped(NewJob("batch", users, seen))
    BY <2>2, NewJobTyped
  <2>7. Becomes(r, Idle) /\ Idle.op = "idle"
    BY <1>0, <2>3, CloseFacts DEF Idle
  <2> QED
    BY <1>1, <2>3, <2>5, <2>6, <2>7 DEF NoticeTyped, RowsTyped
<1> QED
  BY <1>2, <1>3, <1>4, <1>5

LEMMA NoticeTypes ==
  ASSUME InArea, NoticeTyped, ops \in Nat, [DeskNext]_deskVars
  PROVE  NoticeTyped'
<1>1. CASE DeskNext /\ NoticeStep
  <2>1. ASSUME NEW r \in Requests,
               \/ \E users \in Recipients : OpenNotification(r, users)
               \/ WriteNotice(r) \/ MissNotice(r) \/ QueueBatch(r)
        PROVE  NoticeTyped'
    BY <2>1, NotifyingStatements
  <2>2. ASSUME NEW j \in jobs,
               \/ MakeNotice(j) \/ ReadRecipient(j) \/ QueueDelivery(j) \/ EndJob(j)
               \/ FailJob(j) \/ StallJob(j)
        PROVE  NoticeTyped'
    <3>1. UNCHANGED task
      BY <2>2 DEF MakeNotice, ReadRecipient, QueueDelivery, EndJob, FailJob, StallJob, requestVars
    <3> QED
      BY <2>2, <3>1, JobStatements
  <2>3. ASSUME \/ \E d \in BagToSet(outbox) :
                    \/ Deliver(d) \/ UpdateDeliveryStatus(d)
                    \/ FailDelivery(d) \/ StallDelivery(d)
               \/ \E n \in Notices : DeleteNotice(n)
        PROVE  NoticeTyped'
    <3>1. UNCHANGED task
      BY <2>3 DEF Deliver, UpdateDeliveryStatus, FailDelivery, StallDelivery, DeleteNotice, requestVars
    <3> QED
      BY <2>3, <3>1, DeliveryStatements
  <2>4. ASSUME NEW users \in Recipients, QueueSend(users) PROVE NoticeTyped'
    <3>1. users \in Seq(Users) /\ <<>> \in Seq(Notices)
      BY NoticeAssumption
    <3>2. JobTyped(NewJob("send", users, <<>>))
      BY <3>1, NewJobTyped
    <3>3. /\ jobs' = jobs \cup {NewJob("send", users, <<>>)} /\ UNCHANGED <<notice, outbox, reached, shifted>>
          /\ task' = task
      BY <2>4 DEF QueueSend, AtOnce
    <3> QED
      BY <3>2, <3>3 DEF NoticeTyped, RowsTyped, NoticeTaskTyped, At
  <2> QED
    BY <1>1, <2>1, <2>2, <2>3, <2>4 DEF NoticeStep, NoticeWork
<1>2. CASE DeskNext /\ ~NoticeStep
  <2>1. UNCHANGED noticeVars
    BY <1>2 DEF DeskNext, BesidesSessions, BesidesRoles, BesidesIncidents, FailAny
  <2>2. Elsewhere(NoticeOps)
    BY <1>2, ElsewhereFacts
  <2>3. ASSUME NEW r \in Requests PROVE NoticeTaskTyped(r)'
    BY <2>2 DEF Elsewhere, NoticeOps, NoticeTyped, NoticeTaskTyped, At
  <2> QED
    BY <2>1, <2>3 DEF noticeVars, NoticeTyped, RowsTyped
<1>3. CASE UNCHANGED deskVars
  BY <1>3 DEF deskVars, requestVars, noticeVars, NoticeTyped, RowsTyped, NoticeTaskTyped, At
<1> QED
  BY <1>1, <1>2, <1>3

\* Failures and deaths of workers stay within their bound.
FaultsTyped == faults \in 0..MaxFaults

LEMMA FaultTypes ==
  ASSUME FaultsTyped, [DeskNext]_deskVars
  PROVE  FaultsTyped'
<1> DEFINE Kept == UNCHANGED faults \/ Fault
<1>1. CASE DeskNext /\ NoticeStep
  <2>1. ASSUME NEW r \in Requests,
               \/ \E users \in Recipients : OpenNotification(r, users)
               \/ WriteNotice(r) \/ MissNotice(r) \/ QueueBatch(r)
        PROVE  Kept
    BY <2>1 DEF OpenNotification, WriteNotice, MissNotice, QueueBatch, noticeVars
  <2>2. ASSUME NEW j \in jobs, MakeNotice(j) \/ ReadRecipient(j) \/ QueueDelivery(j) \/ EndJob(j)
        PROVE  Kept
    BY <2>2 DEF MakeNotice, ReadRecipient, QueueDelivery, EndJob
  <2>3. ASSUME NEW j \in jobs, FailJob(j) \/ StallJob(j) PROVE Kept
    BY <2>3 DEF FailJob, StallJob
  <2>4. ASSUME NEW d, \/ Deliver(d) \/ UpdateDeliveryStatus(d)
                      \/ FailDelivery(d) \/ StallDelivery(d)
        PROVE  Kept
    BY <2>4 DEF Deliver, UpdateDeliveryStatus, FailDelivery, StallDelivery
  <2>5. ASSUME (\E users \in Recipients : QueueSend(users)) \/ \E n \in Notices : DeleteNotice(n)
        PROVE  Kept
    BY <2>5 DEF QueueSend, DeleteNotice
  <2>6. Kept
    BY <1>1, <2>1, <2>2, <2>3, <2>4, <2>5 DEF NoticeStep, NoticeWork
  <2> QED
    BY <2>6, NoticeAssumption DEF FaultsTyped, Fault
<1>2. CASE DeskNext /\ ~NoticeStep
  BY <1>2 DEF DeskNext, BesidesSessions, BesidesRoles, BesidesIncidents, FailAny, noticeVars, FaultsTyped
<1>3. CASE UNCHANGED deskVars
  BY <1>3 DEF deskVars, noticeVars, FaultsTyped
<1> QED
  BY <1>1, <1>2, <1>3

TypeInv ==
    /\ SessionInv /\ RolesInv /\ IncidentInv
    /\ area \in Areas /\ ops \in 0..MaxOps[area]
    /\ SessionTypeOK /\ RoleTyped /\ WorkTyped /\ NoticeTyped /\ FaultsTyped

LEMMA TypesInit == DeskInit => TypeInv
<1> SUFFICES ASSUME DeskInit PROVE TypeInv
  OBVIOUS
<1>1. SessionInv /\ RolesInv /\ IncidentInv
  BY SessionsInit, RolesInit, IncidentsInit
<1>2. area \in Areas /\ ops \in 0..MaxOps[area]
  BY RequestAssumption DEF DeskInit, RequestInit
<1>3. \A r \in Requests : task[r].op = "idle"
  BY DEF DeskInit, Idle
<1>4. SessionTypeOK
  <2>1. (CHOOSE g \in Google : TRUE) \in Google
    BY SessionAssumption
  <2>2. user \in [active : BOOLEAN, password : BOOLEAN] /\ linked \subseteq Google
    <3>1. CASE user = [active |-> TRUE, password |-> TRUE] /\ linked = {}
      BY <3>1
    <3>2. CASE user = [active |-> TRUE, password |-> FALSE] /\ linked = {CHOOSE g \in Google : TRUE}
      BY <2>1, <3>2
    <3> QED
      BY <3>1, <3>2 DEF DeskInit, SessionInit
  <2>3. /\ token = [s \in Tokens |-> [status |-> "absent", from |-> NoRow]] /\ ended = {}
        /\ reset = [t \in ResetTokens |-> "absent"]
    BY DEF DeskInit, SessionInit, NoToken
  <2> QED
    BY <2>2, <2>3 DEF SessionTypeOK
<1>5. RoleTyped
  BY <1>3, RoleAssumption DEF DeskInit, RoleInit, RoleTyped
<1>6. WorkTyped
  BY <1>3 DEF DeskInit, IncidentInit, WorkTyped, ListingTyped
<1>8. FaultsTyped
  BY NoticeAssumption DEF DeskInit, NoticeInit, FaultsTyped
<1>7. NoticeTyped
  <2>1. DOMAIN EmptyBag = {}
    BY DEF EmptyBag, SetToBag
  <2>2. DOMAIN outbox = {}
    BY <2>1 DEF DeskInit, NoticeInit
  <2> QED
    BY <1>3, <2>2 DEF DeskInit, NoticeInit, NoNotice, NoticeTyped, RowsTyped, NoticeTaskTyped, At
<1> QED
  BY <1>1, <1>2, <1>4, <1>5, <1>6, <1>7, <1>8 DEF TypeInv

LEMMA TypesStep ==
  ASSUME TypeInv, [DeskNext]_deskVars
  PROVE  TypeInv'
<1> USE DEF TypeInv
<1>1. SessionInv' /\ RolesInv' /\ IncidentInv'
  BY SessionsStep, RolesStep, IncidentsStep
<1>2. InArea /\ area' = area
  BY DeskRuns DEF SessionInv, deskVars, requestVars
<1>3. MaxOps[area] \in Nat /\ ops \in Nat
  BY RequestAssumption
<1>4. ops' \in 0..MaxOps[area]
  BY <1>3, RequestsCounted DEF Counted, deskVars, requestVars
<1>5. SessionTypeOK' /\ RoleTyped' /\ WorkTyped'
  BY SessionTypes, RoleTypes, WorkTypes
<1>6. NoticeTyped' /\ FaultsTyped'
  BY <1>2, <1>3, NoticeTypes, FaultTypes
<1> QED
  BY <1>1, <1>2, <1>4, <1>5, <1>6

\* What the API keeps for its users has the declared types in every reachable
\* state, for every number of requests, users, channels and attempts: a job of
\* the queue never passes the end of its list of users nor takes a row it does
\* not have (auth.service, users.service, incidents.service,
\* notifications.processor).
THEOREM DeskTyped == DeskSpec => []DeskTypeOK
<1>1. TypeInv => DeskTypeOK
  <2> SUFFICES ASSUME TypeInv PROVE DeskTypeOK
    OBVIOUS
  <2>1. NoticeTypeOK
    BY DEF TypeInv, NoticeTyped, FaultsTyped, RowsTyped, JobTyped, NoticeTypeOK
  <2> QED
    BY <2>1 DEF TypeInv, DeskTypeOK, RolesInv, RoleTyped, RoleTypeOK, IncidentInv, WorkTyped,
       Lists, IncidentTypeOK
<1> QED
  BY <1>1, TypesInit, TypesStep, PTL DEF DeskSpec
=============================================================================
