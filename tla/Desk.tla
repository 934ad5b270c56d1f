-------------------------------- MODULE Desk --------------------------------
(***************************************************************************)
(* What the API does for its users: sessions, roles, incidents and         *)
(* notifications. A request may fail after any statement, a job at any.    *)
(***************************************************************************)
EXTENDS Sessions, UserRoles, Incidents, Notifications

deskVars == <<requestVars, sessionVars, roleVars, incidentVars, noticeVars>>

DeskTypeOK ==
    /\ area \in Areas /\ ops \in 0..MaxOps[area]
    /\ SessionTypeOK /\ RoleTypeOK /\ IncidentTypeOK /\ NoticeTypeOK

DeskInit ==
    /\ RequestInit
    /\ task = [r \in Requests |-> Idle]
    /\ SessionInit /\ RoleInit /\ IncidentInit /\ NoticeInit

-----------------------------------------------------------------------------
SessionStep ==
    \/ \E r \in Requests :
        \/ OpenLogin(r) \/ OpenPasswordChange(r) \/ ForgotPassword(r) \/ OpenUnlink(r)
        \/ \E g \in Google : OpenGoogleLogin(r, g) \/ OpenLink(r, g)
        \/ \E s \in Tokens : OpenRefresh(r, s)
        \/ \E t \in ResetTokens : OpenReset(r, t)
        \/ \E active \in BOOLEAN \cup {NoRow}, password \in BOOLEAN : OpenUpdate(r, active, password)
        \/ Attach(r) \/ Enter(r) \/ RevokeOld(r) \/ IssueNew(r)
        \/ InvalidateResets(r) \/ SendReset(r) \/ ResetPassword(r) \/ ChangePassword(r)
        \/ UpdateUser(r) \/ EndSessions(r) \/ CheckOtherWay(r) \/ Detach(r)
    \/ \E s \in Tokens : Logout(s)
    \/ LogoutAllDevices

RoleStep ==
    \/ \E r \in Requests :
        \/ \E role \in Roles : OpenRoleAssignment(r, role) \/ OpenRevocation(r, role)
        \/ \E new \in SUBSET Roles, first \in Roles : OpenReplacement(r, new, first)
        \/ AssignRole(r) \/ RevokeRole(r) \/ PromoteRole(r)
        \/ RefuseReplacement(r) \/ ReplaceRoles(r)

IncidentStep ==
    \/ \E r \in Requests :
        \/ \E i \in IncidentIds :
            \/ \E t \in Technicians : OpenTechnicianAssignment(r, i, t)
            \/ \E new \in Status, actor \in Technicians \cup {Admin} : OpenStatusChange(r, i, new, actor)
        \/ OpenListing(r)
        \/ AssignTechnician(r) \/ UpdateStatus(r) \/ ForgetList(r)
        \/ ReadHolders(r) \/ ReadActive(r) \/ CountWork(r) \/ KeepList(r)
    \/ \E i \in IncidentIds : Report(i) \/ DeleteIncident(i)
    \/ \E t \in Technicians, column \in {"role", "active"} : ChangeStaff(t, column)
    \/ ExpireList

\* What is being made or delivered.
NoticeWork ==
    \/ \E r \in Requests : WriteNotice(r) \/ MissNotice(r) \/ QueueBatch(r)
    \/ \E j \in jobs :
        MakeNotice(j) \/ ReadRecipient(j) \/ QueueDelivery(j) \/ EndJob(j)
    \/ \E d \in BagToSet(outbox) : Deliver(d) \/ UpdateDeliveryStatus(d)

NoticeStep ==
    \/ NoticeWork
    \/ \E users \in Recipients :
        \/ \E r \in Requests : OpenNotification(r, users)
        \/ QueueSend(users)
    \/ \E j \in jobs : FailJob(j) \/ StallJob(j)
    \/ \E d \in BagToSet(outbox) : FailDelivery(d) \/ StallDelivery(d)
    \/ \E n \in Notices : DeleteNotice(n)

BesidesSessions == UNCHANGED <<roleVars, incidentVars, noticeVars>>
BesidesRoles == UNCHANGED <<sessionVars, incidentVars, noticeVars>>
BesidesIncidents == UNCHANGED <<sessionVars, roleVars, noticeVars>>
BesidesNotices == UNCHANGED <<sessionVars, roleVars, incidentVars>>

FailAny ==
    /\ \E r \in Requests : Fail(r)
    /\ UNCHANGED <<sessionVars, roleVars, incidentVars, noticeVars>>

DeskNext ==
    \/ SessionStep /\ BesidesSessions
    \/ RoleStep /\ BesidesRoles
    \/ IncidentStep /\ BesidesIncidents
    \/ NoticeStep /\ BesidesNotices
    \/ FailAny

\* A request that is being executed runs on, and workers take up what is queued.
DeskSpec == DeskInit /\ [][DeskNext]_deskVars /\ WF_deskVars(NoticeWork /\ BesidesNotices)
=============================================================================
