------------------------------ MODULE Incidents ------------------------------
(***************************************************************************)
(* Reported incidents: their status, the technician each is assigned to,   *)
(* and the cached list of technicians with what each has to do.            *)
(***************************************************************************)
EXTENDS OfficeRequests

CONSTANTS IncidentIds, Technicians,
          Admin       \* actor of the requests of any administrator

ASSUME IncidentAssumption == NoRow \notin Technicians

VARIABLES incident,   \* incidents: status, assigned_to, whether resolved_at is set
          staff,      \* technicians who have the role, and whose account is active
          list        \* the cached list: its technicians and what each has to do

\* History: technicians whose role or account changed since the list was read.
VARIABLE restaffed

incidentVars == <<incident, staff, list, restaffed>>

Status == {"open", "assigned", "in_progress", "pending_review", "resolved", "closed"}
Nobody == [status |-> "absent", assigned |-> NoRow, resolved |-> FALSE]
Reported == [Nobody EXCEPT !.status = "open"]

STATUS_TRANSITIONS ==
    [open |-> {"assigned", "closed"}, assigned |-> {"in_progress", "open"},
     in_progress |-> {"pending_review", "resolved"},
     pending_review |-> {"in_progress", "resolved", "closed"},
     resolved |-> {"closed", "open"}, closed |-> {"open"}]

technicianAllowed ==
    [assigned |-> {"in_progress"}, in_progress |-> {"pending_review", "resolved"}]

Work == [technician : Technicians, status : {"assigned", "in_progress", "pending_review"}]

IncidentTypeOK ==
    /\ incident \in [IncidentIds -> [status : Status \cup {"absent", "deleted"},
                                     assigned : Technicians \cup {NoRow}, resolved : BOOLEAN]]
    /\ staff \in [role : SUBSET Technicians, active : SUBSET Technicians]
    /\ list \in [members : SUBSET Technicians, work : [IncidentIds -> Work \cup {NoRow}]]
                  \cup {NoRow}
    /\ restaffed \subseteq Technicians

IncidentInit ==
    /\ incident = [i \in IncidentIds |-> Nobody]
    /\ staff = [role |-> Technicians, active |-> Technicians]
    /\ list = NoRow
    /\ restaffed = {}

There(i) == incident[i].status \in Status
OnDuty == staff.role \cap staff.active

\* The part of the list an incident may appear in, as an object in hand.
Listed(i) == <<"list", i>>

-----------------------------------------------------------------------------
(* incidents.service *)

Report(i) ==
    /\ incident[i] = Nobody
    /\ AtOnce({"incidents"}, {i})
    /\ incident' = [incident EXCEPT ![i] = Reported]
    /\ UNCHANGED <<staff, list, restaffed>>

\* Whatever the status of the incident is.
OpenTechnicianAssignment(r, i, t) ==
    /\ There(i) /\ t \in OnDuty
    /\ Open(r, {"incidents"}, [Idle EXCEPT !.op = "assign", !.on = {i, Listed(i)}, !.row = i,
                                           !.kind = t])
    /\ UNCHANGED incidentVars

AssignTechnician(r) ==
    LET i == task[r].row
    IN  /\ At(r, "assign") /\ There(i)
        /\ incident' = [incident EXCEPT ![i].assigned = task[r].kind, ![i].status = "assigned"]
        /\ Goto(r, "forget")
        /\ UNCHANGED <<staff, list, restaffed>>

\* A mutant: technicians are held to their transitions, not to their incidents.
MayChangeOthers(i, new, actor) ==
    /\ new \in STATUS_TRANSITIONS[incident[i].status]
    /\ \/ actor = Admin
       \/ /\ incident[i].status \in DOMAIN technicianAllowed
          /\ new \in technicianAllowed[incident[i].status]

\* validateStatusChangePermission
MayChangeStatus(i, new, actor) ==
    /\ new \in STATUS_TRANSITIONS[incident[i].status]
    /\ \/ actor = Admin
       \/ /\ incident[i].assigned = actor
          /\ incident[i].status \in DOMAIN technicianAllowed
          /\ new \in technicianAllowed[incident[i].status]

\* seen is the new status.
OpenStatusChange(r, i, new, actor) ==
    /\ There(i) /\ MayChangeStatus(i, new, actor)
    /\ Open(r, {"incidents"}, [op |-> "status", on |-> {i, Listed(i)}, row |-> i, seen |-> new,
                               kind |-> actor])
    /\ UNCHANGED incidentVars

Resolution(i, new) ==
    CASE new = "resolved" -> TRUE
      [] new \in {"open", "in_progress"} -> FALSE
      [] OTHER -> incident[i].resolved

\* A mutant: the list is forgotten when a technician is assigned.
AfterChangeNone(i) == "idle"

AfterChange(i) == IF incident[i].assigned = NoRow THEN "idle" ELSE "forget"

UpdateStatus(r) ==
    LET i == task[r].row
    IN  /\ At(r, "status") /\ There(i)
        /\ incident' = [incident EXCEPT ![i].status = task[r].seen,
                                        ![i].resolved = Resolution(i, task[r].seen)]
        /\ IF AfterChange(i) = "idle" THEN Close(r) ELSE Goto(r, "forget")
        /\ UNCHANGED <<staff, list, restaffed>>

ForgetList(r) ==
    /\ At(r, "forget")
    /\ list' = NoRow
    /\ Close(r)
    /\ UNCHANGED <<incident, staff, restaffed>>

\* The cached list is left.
DeleteIncident(i) ==
    /\ There(i)
    /\ AtOnce({"incidents"}, {i})
    /\ incident' = [incident EXCEPT ![i] = [Nobody EXCEPT !.status = "deleted"]]
    /\ UNCHANGED <<staff, list, restaffed>>

-----------------------------------------------------------------------------
(* users.service *)

\* A technician gets or loses the role, or is deactivated or reactivated: the
\* cached list is left.
ChangeStaff(t, column) ==
    /\ AtOnce({"incidents"}, {})
    /\ staff' = [staff EXCEPT ![column] = IF t \in @ THEN @ \ {t} ELSE @ \cup {t}]
    /\ restaffed' = restaffed \cup {t}
    /\ UNCHANGED <<incident, list>>

\* What the members have to do, incident by incident instead of counted.
Workload(members) ==
    [i \in IncidentIds |->
        LET work == [technician |-> incident[i].assigned, status |-> incident[i].status]
        IN  IF work \in Work /\ work.technician \in members THEN work ELSE NoRow]

Listing(r) == task[r].op \in {"holders", "members", "count", "keep"}

OpenListing(r) ==
    /\ list = NoRow
    /\ Open(r, {"incidents"}, [Idle EXCEPT !.op = "holders", !.on = {Listed(i) : i \in IncidentIds}])
    /\ restaffed' = IF \E q \in Requests : Listing(q) THEN restaffed ELSE {}
    /\ UNCHANGED <<incident, staff, list>>

\* seen is who has the role; a list without anybody is not cached.
ReadHolders(r) ==
    /\ At(r, "holders")
    /\ IF staff.role = {} THEN Close(r)
       ELSE Proceed(r, [task[r] EXCEPT !.op = "members", !.seen = staff.role])
    /\ UNCHANGED incidentVars

ReadActive(r) ==
    /\ At(r, "members")
    /\ Proceed(r, [task[r] EXCEPT !.op = "count", !.seen = @ \cap staff.active])
    /\ UNCHANGED incidentVars

CountWork(r) ==
    /\ At(r, "count")
    /\ Proceed(r, [task[r] EXCEPT !.op = "keep",
                                  !.kind = [members |-> task[r].seen,
                                            work |-> Workload(task[r].seen)]])
    /\ UNCHANGED incidentVars

KeepList(r) ==
    /\ At(r, "keep")
    /\ list' = task[r].kind
    /\ Close(r)
    /\ UNCHANGED <<incident, staff, restaffed>>

\* After two minutes, or when a technician's profile is changed.
ExpireList ==
    /\ list # NoRow
    /\ AtOnce({"incidents"}, {})
    /\ list' = NoRow
    /\ UNCHANGED <<incident, staff, restaffed>>

-----------------------------------------------------------------------------
(* Properties *)

\* The requests whose change of an incident's status this step is.
Changing(i) == {r \in Requests : At(r, "status") /\ task[r].row = i /\ task'[r].op # "status"
                                 /\ incident'[i] # incident[i]}

\* An incident changes its status along the transitions of the specification,
\* and by the hand of a technician only while it is that technician's, unless
\* another request had it in hand at some time; one that is closed shows a date
\* of resolution if it was resolved and not reopened since. Assigning a
\* technician is the one way around the transitions.
StatusFollowsTable ==
    [][\A i \in IncidentIds : \A r \in Changing(i) :
         \/ Raced(i)
         \/ /\ incident'[i].status \in STATUS_TRANSITIONS[incident[i].status]
            /\ task[r].kind \in {Admin, incident[i].assigned}
            /\ incident'[i].status = "closed" =>
                 incident'[i].resolved = (incident[i].status = "resolved")]_incidentVars

\* The cached list shows the technicians on duty and what each has to do: it is
\* wrong about a technician only if the role or the account of that one changed
\* since the reading of the list began, which does not drop the list, and about an
\* incident only if its change is not finished, was interrupted or overlapped with
\* the reading of the list, or it was deleted, which the list is not told of.
ListCurrent ==
    list # NoRow =>
        /\ \A t \in Technicians \ restaffed : t \in list.members <=> t \in OnDuty
        /\ \A i \in IncidentIds :
            \/ list.work[i] = Workload(OnDuty)[i]
            \/ incident[i].assigned \in restaffed \/ incident[i].status = "deleted"
            \/ InHand(i) # {} \/ Raced(Listed(i)) \/ i \in cut
=============================================================================
