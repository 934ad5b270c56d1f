----------------------------- MODULE BankAccounts -----------------------------
(***************************************************************************)
(* The bank accounts of a building or an owner, one of them primary.       *)
(* Making an account primary takes two statements, in no transaction:      *)
(* first no account of the holder is, then this one.                       *)
(***************************************************************************)
EXTENDS OfficeRequests

CONSTANTS Accounts,   \* rows of bank_accounts, all of one holder
          Holder      \* a building or an owner

VARIABLE account   \* each account: there, is_primary, is_active

\* History: whether the holder had a primary account that nobody gave up.
VARIABLE chosen

accountVars == <<account, chosen>>

NoAccount == [there |-> FALSE, primary |-> FALSE, active |-> FALSE]

AccountTypeOK ==
    /\ account \in [Accounts -> [there : BOOLEAN, primary : BOOLEAN, active : BOOLEAN]]
    /\ chosen \in BOOLEAN

AccountInit ==
    /\ account = [b \in Accounts |-> NoAccount]
    /\ chosen = FALSE

Primary == {b \in Accounts : account[b].primary}

-----------------------------------------------------------------------------
\* seen is isPrimary, if given (1 or 0) or not (2); kind is isActive.
OpenAccount(r, b, op, primary, isActive) ==
    /\ account[b].there = (op = "change")
    /\ Open(r, {"accounts"}, [op |-> IF primary = 1 THEN "unset" ELSE op, on |-> {Holder},
                              row |-> b, seen |-> primary, kind |-> isActive])
    /\ UNCHANGED accountVars

\* A mutant: the old primary account is left to the next reader.
UnsetNone == account

UnsetAll == [b \in Accounts |-> [account[b] EXCEPT !.primary = FALSE]]

UnsetPrimary(r) ==
    /\ At(r, "unset")
    /\ account' = UnsetAll
    /\ Goto(r, IF account[task[r].row].there THEN "change" ELSE "add")
    /\ UNCHANGED chosen

\* The account is unique by bank and number: another request may have made it.
AddAccount(r) ==
    LET b == task[r].row
    IN  /\ At(r, "add") /\ ~account[b].there
        /\ account' = [account EXCEPT ![b] = [there |-> TRUE, primary |-> task[r].seen = 1,
                                              active |-> TRUE]]
        /\ chosen' = IF task[r].seen = 1 THEN TRUE ELSE chosen
        /\ Close(r)

ChangeAccount(r) ==
    LET b == task[r].row
    IN  /\ At(r, "change") /\ account[b].there
        /\ account' = [account EXCEPT ![b] = [there |-> TRUE, active |-> task[r].kind,
                                              primary |-> IF task[r].seen = 2 THEN @.primary
                                                          ELSE task[r].seen = 1]]
        /\ chosen' = IF task[r].seen = 1 THEN TRUE
                     ELSE IF task[r].seen = 0 /\ account[b].primary THEN FALSE ELSE chosen
        /\ Close(r)

DeleteAccount(b) ==
    /\ account[b].there
    /\ AtOnce({"accounts"}, {Holder})
    /\ account' = [account EXCEPT ![b] = NoAccount]
    /\ chosen' = (chosen /\ ~account[b].primary)

-----------------------------------------------------------------------------
(* Properties *)

\* The holder has one primary account from the day one is chosen until it is
\* deleted or made an ordinary one, unless two requests changed accounts at
\* once or one failed between its two statements: then none may be primary.
OnePrimaryAccount ==
    \/ Raced(Holder) \/ Holder \in cut
    \/ \E r \in Requests : task[r].op \in {"add", "change"} /\ task[r].seen = 1
    \/ Cardinality(Primary) = IF chosen THEN 1 ELSE 0
=============================================================================
