------------------------------ MODULE UserRoles ------------------------------
(***************************************************************************)
(* The roles of a user: one to three, and a primary one kept beside them   *)
(* for older readers.                                                      *)
(***************************************************************************)
EXTENDS OfficeRequests

CONSTANTS Roles,      \* values of UserRole
          MaxRoles,   \* 3 in the code
          User        \* the user, as an object in hand

ASSUME RoleAssumption == IsFiniteSet(Roles) /\ Roles # {} /\ MaxRoles \in Nat \ {0}

VARIABLES roles,     \* user_role_assignments of the user
          primary    \* users.role

roleVars == <<roles, primary>>

RoleTypeOK == roles \subseteq Roles /\ primary \in Roles

\* A user is created with some roles, the first of which is the primary one.
RoleInit ==
    /\ primary = CHOOSE role \in Roles : TRUE
    /\ roles = {primary}

-----------------------------------------------------------------------------
(* users.service *)

MayAssign(role) == role \notin roles /\ Cardinality(roles) < MaxRoles

OpenRoleAssignment(r, role) ==
    /\ MayAssign(role)
    /\ Open(r, {"roles"}, [Idle EXCEPT !.op = "grant", !.on = {User}, !.row = role])
    /\ UNCHANGED roleVars

\* A role is assigned once.
AssignRole(r) ==
    /\ At(r, "grant") /\ task[r].row \notin roles
    /\ roles' = roles \cup {task[r].row}
    /\ Close(r)
    /\ UNCHANGED primary

\* seen and kind are the roles and the primary one read.
OpenRevocation(r, role) ==
    /\ role \in roles /\ Cardinality(roles) > 1
    /\ Open(r, {"roles"}, [op |-> "revokeRole", on |-> {User}, row |-> role, seen |-> roles,
                           kind |-> primary])
    /\ UNCHANGED roleVars

\* A mutant: the primary role is looked at only when roles are replaced.
AfterRevocationNone(r) == "idle"

AfterRevocation(r) == IF task[r].kind = task[r].row THEN "promote" ELSE "idle"

RevokeRole(r) ==
    /\ At(r, "revokeRole")
    /\ roles' = roles \ {task[r].row}
    /\ IF AfterRevocation(r) = "idle" THEN Close(r) ELSE Goto(r, "promote")
    /\ UNCHANGED primary

\* Any of the others: their order is the database's.
PromoteRole(r) ==
    /\ At(r, "promote")
    /\ \E role \in task[r].seen \ {task[r].row} : primary' = role
    /\ Close(r)
    /\ UNCHANGED roles

\* users.service.update with roles: row is the first of them, kind all, seen those
\* whose rows the transaction deletes, which are the rows there are when it does.
OpenReplacement(r, new, first) ==
    /\ new # {} /\ Cardinality(new) <= MaxRoles /\ first \in new
    /\ Open(r, {"roles"}, [op |-> "replace", on |-> {User}, row |-> first, seen |-> roles,
                           kind |-> new])
    /\ UNCHANGED roleVars

\* What others added since stays, and the transaction is rolled back if it would
\* add one of these roles again.
RefuseReplacement(r) ==
    /\ At(r, "replace") /\ (roles \ task[r].seen) \cap task[r].kind # {}
    /\ Close(r)
    /\ UNCHANGED roleVars

\* Another replacement that waits for these rows finds them gone, and the new
\* ones are not among those it deletes.
ReplaceRoles(r) ==
    /\ At(r, "replace") /\ (roles \ task[r].seen) \cap task[r].kind = {}
    /\ roles' = (roles \ task[r].seen) \cup task[r].kind
    /\ primary' = task[r].row
    /\ task' = [q \in Requests |->
                   IF q = r THEN Idle
                   ELSE IF At(q, "replace") THEN [task[q] EXCEPT !.seen = @ \ task[r].seen]
                   ELSE task[q]]
    /\ UNCHANGED <<area, ops, raced, cut>>

-----------------------------------------------------------------------------
(* Properties *)

\* A user has one to three roles, the primary one among them, however roles are
\* assigned, revoked and replaced, unless two requests changed them at once or
\* a revocation stopped before another role was made the primary one.
RolesKept ==
    \/ Raced(User) \/ User \in cut
    \/ \E r \in Requests : At(r, "promote")
    \/ Cardinality(roles) \in 1..MaxRoles /\ primary \in roles
=============================================================================
