------------------------------ MODULE Sessions ------------------------------
(***************************************************************************)
(* How one user signs in and stays signed in: password and Google          *)
(* accounts, rotation of refresh tokens, logouts, password reset.          *)
(***************************************************************************)
EXTENDS OfficeRequests

CONSTANTS Tokens,       \* rows of refresh_tokens
          ResetTokens,  \* rows of password_reset_tokens
          Google,       \* Google accounts with the user's address
          Links         \* the user's linked accounts, as an object in hand

ASSUME SessionAssumption ==
    /\ IsFiniteSet(Google) /\ Google # {}
    /\ NoRow \notin Tokens /\ Tokens \cap ResetTokens = {} /\ Links \notin Tokens

VARIABLES user,     \* users: is_active, and whether there is a password_hash
          token,    \* each refresh token: its status and the sign-in it goes back to
          reset,    \* status of each reset token
          linked    \* oauth_accounts of the user

\* History: sign-ins that were ended when no request was carrying them on.
VARIABLE ended

sessionVars == <<user, token, reset, linked, ended>>

NoToken == [status |-> "absent", from |-> NoRow]

SessionTypeOK ==
    /\ user \in [active : BOOLEAN, password : BOOLEAN]
    /\ token \in [Tokens -> [status : {"absent", "valid", "revoked"}, from : Tokens \cup {NoRow}]]
    /\ reset \in [ResetTokens -> {"absent", "valid", "used"}]
    /\ linked \subseteq Google
    /\ ended \subseteq Tokens

\* Registered with a password, or by signing in with Google.
SessionInit ==
    /\ \/ /\ user = [active |-> TRUE, password |-> TRUE]
          /\ linked = {}
       \/ /\ area = "sessions"
          /\ user = [active |-> TRUE, password |-> FALSE]
          /\ linked = {CHOOSE g \in Google : TRUE}
    /\ token = [s \in Tokens |-> NoToken]
    /\ reset = [t \in ResetTokens |-> "absent"]
    /\ ended = {}

Issued(s) == token[s].status # "absent"
Valid(s) == token[s].status = "valid"
\* A sign-in is known by its first token.
Live(f) == {s \in Tokens : Valid(s) /\ token[s].from = f}
Carried(s) == InHand(token[s].from) # {}

\* Which row is the new one does not matter; a sign-in has its row from its start.
Unused == {s \in Tokens : ~Issued(s) /\ InHand(s) = {}}
NewToken == CHOOSE s \in Unused : TRUE

Frame == UNCHANGED <<user, token, reset, linked, ended>>

-----------------------------------------------------------------------------
(* auth.service.login, oauth.service.processOAuthLogin *)

OpenLogin(r) ==
    /\ user.active /\ user.password /\ Unused # {}
    /\ Open(r, {"sessions"}, [Idle EXCEPT !.op = "enter", !.on = {NewToken}, !.row = NewToken])
    /\ Frame

\* An account not linked yet is: the user is found by its address.
OpenGoogleLogin(r, g) ==
    /\ Unused # {}
    /\ Open(r, {"sessions"},
            [Idle EXCEPT !.op = IF g \in linked THEN "enter" ELSE "attach", !.row = NewToken,
                         !.on = {NewToken} \cup IF g \in linked THEN {} ELSE {Links}, !.kind = g])
    /\ Frame

\* An account is linked once.
Attach(r) ==
    /\ At(r, "attach") /\ task[r].kind \notin linked
    /\ linked' = linked \cup {task[r].kind}
    /\ IF task[r].row = NoRow THEN Close(r) ELSE Goto(r, "enter")
    /\ UNCHANGED <<user, token, reset, ended>>

Enter(r) ==
    /\ At(r, "enter")
    /\ token' = [token EXCEPT ![task[r].row] = [status |-> "valid", from |-> task[r].row]]
    /\ Close(r)
    /\ UNCHANGED <<user, reset, linked, ended>>

-----------------------------------------------------------------------------
(* auth.service.refresh and the logouts *)

\* A mutant: a token is good until it expires.
MayRefreshIssued(s) == Issued(s) /\ user.active

MayRefresh(s) == Valid(s) /\ user.active

OpenRefresh(r, s) ==
    /\ MayRefresh(s) /\ Unused # {}
    /\ Open(r, {"sessions"}, [Idle EXCEPT !.op = "revoke", !.on = {token[s].from}, !.row = s])
    /\ Frame

RevokeOld(r) ==
    /\ At(r, "revoke")
    /\ token' = [token EXCEPT ![task[r].row].status = "revoked"]
    /\ Goto(r, "renew")
    /\ UNCHANGED <<user, reset, linked, ended>>

IssueNew(r) ==
    /\ At(r, "renew") /\ Unused # {}
    /\ token' = [token EXCEPT ![NewToken] = [status |-> "valid", from |-> token[task[r].row].from]]
    /\ Close(r)
    /\ UNCHANGED <<user, reset, linked, ended>>

Logout(s) ==
    /\ Issued(s)
    /\ AtOnce({"sessions"}, {token[s].from})
    /\ token' = [token EXCEPT ![s].status = "revoked"]
    /\ ended' = IF Live(token[s].from) = {s} /\ ~Carried(s) THEN ended \cup {token[s].from} ELSE ended
    /\ UNCHANGED <<user, reset, linked>>

AllRevoked == [s \in Tokens |-> IF Valid(s) THEN [token[s] EXCEPT !.status = "revoked"] ELSE token[s]]

EndAll ==
    /\ token' = AllRevoked
    /\ ended' = ended \cup {token[s].from : s \in {t \in Tokens : Issued(t) /\ ~Carried(t)}}

LogoutAllDevices ==
    /\ AtOnce({"sessions"}, {})
    /\ EndAll
    /\ UNCHANGED <<user, reset, linked>>

-----------------------------------------------------------------------------
(* Passwords, and users.service.update *)

ForgotPassword(r) ==
    /\ user.active
    /\ Open(r, {"sessions"}, [Idle EXCEPT !.op = "invalidate", !.on = ResetTokens])
    /\ Frame

InvalidateResets(r) ==
    /\ At(r, "invalidate")
    /\ reset' = [t \in ResetTokens |-> IF reset[t] = "valid" THEN "used" ELSE reset[t]]
    /\ Goto(r, "send")
    /\ UNCHANGED <<user, token, linked, ended>>

SendReset(r) ==
    /\ At(r, "send") /\ \E t \in ResetTokens : reset[t] = "absent"
    /\ reset' = [reset EXCEPT ![CHOOSE t \in ResetTokens : reset[t] = "absent"] = "valid"]
    /\ Close(r)
    /\ UNCHANGED <<user, token, linked, ended>>

OpenReset(r, t) ==
    /\ reset[t] = "valid" /\ user.active
    /\ Open(r, {"sessions"}, [Idle EXCEPT !.op = "reset", !.on = {t}, !.row = t])
    /\ Frame

ResetPassword(r) ==
    /\ At(r, "reset")
    /\ user' = [user EXCEPT !.password = TRUE]
    /\ reset' = [reset EXCEPT ![task[r].row] = "used"]
    /\ EndAll
    /\ Close(r)
    /\ UNCHANGED linked

\* The current password is asked for; the sessions are ended in a statement of its own.
OpenPasswordChange(r) ==
    /\ user.password
    /\ Open(r, {"sessions"}, [Idle EXCEPT !.op = "change"])
    /\ Frame

ChangePassword(r) ==
    /\ At(r, "change")
    /\ Goto(r, "end")
    /\ Frame

\* users.service.update by an administrator: row is whether the user is to be
\* active, NoRow if that is not given, kind whether a password is, seen whether
\* the user was active.
OpenUpdate(r, active, password) ==
    /\ Open(r, {"sessions"}, [op |-> "update", on |-> {}, row |-> active, seen |-> user.active,
                              kind |-> password])
    /\ Frame

UpdateUser(r) ==
    /\ At(r, "update")
    /\ user' = [active |-> IF task[r].row = NoRow THEN user.active ELSE task[r].row,
                password |-> user.password \/ task[r].kind]
    /\ IF task[r].seen /\ task[r].row = FALSE THEN Goto(r, "end") ELSE Close(r)
    /\ UNCHANGED <<token, reset, linked, ended>>

EndSessions(r) ==
    /\ At(r, "end")
    /\ EndAll
    /\ Close(r)
    /\ UNCHANGED <<user, reset, linked>>

-----------------------------------------------------------------------------
(* oauth.service.linkOAuthAccount and unlinkOAuthAccount *)

OpenLink(r, g) ==
    /\ linked = {}
    /\ Open(r, {"sessions"}, [Idle EXCEPT !.op = "attach", !.on = {Links}, !.kind = g])
    /\ Frame

OpenUnlink(r) ==
    /\ \E g \in linked :
         Open(r, {"sessions"}, [Idle EXCEPT !.op = "unlink", !.on = {Links}, !.kind = g])
    /\ Frame

\* A mutant: the account to be unlinked counts as another.
OtherWayInAny == user.password \/ linked # {}

OtherWayIn == user.password \/ Cardinality(linked) > 1

CheckOtherWay(r) ==
    /\ At(r, "unlink")
    /\ IF OtherWayIn THEN Goto(r, "detach") ELSE Close(r)
    /\ Frame

Detach(r) ==
    /\ At(r, "detach") /\ task[r].kind \in linked
    /\ linked' = linked \ {task[r].kind}
    /\ Close(r)
    /\ UNCHANGED <<user, token, reset, ended>>

-----------------------------------------------------------------------------
(* Properties *)

\* A sign-in has at most one token that can still be refreshed, through any
\* number of rotations, unless two requests used it at once; and once it was
\* ended, by a logout, a logout of all devices, a password reset or changed by the
\* user or because the user was deactivated, it has none, unless a refresh was
\* under way then. A password given by an administrator ends no sign-in.
\* Likewise only the last link to reset the password is good.
OneTokenUntilEnded ==
    /\ \A f \in Tokens :
         /\ Raced(f) \/ Cardinality(Live(f)) <= 1
         /\ f \in ended => Live(f) = {}
    /\ \A t, u \in ResetTokens : reset[t] = "valid" /\ reset[u] = "valid" => t = u \/ Raced(t)

\* A user can always sign in, with a password or a linked account, whatever is
\* linked and unlinked, unless two requests changed the links at once.
WayInKept == Raced(Links) \/ user.password \/ linked # {}
=============================================================================
