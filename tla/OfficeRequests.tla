---------------------------- MODULE OfficeRequests ----------------------------
(***************************************************************************)
(* Requests to the API as the office's modules execute them: statement by  *)
(* statement, each of which may fail, with the rows read so far in hand.   *)
(* Between two statements of a request those of others run; what is inside *)
(* a transaction and reads nothing is one step.                            *)
(***************************************************************************)
EXTENDS Integers, FiniteSets

CONSTANTS Requests,   \* requests being executed
          NoRow,      \* null value
          Areas,      \* bound: the modules in turn, one in each behaviour;
                      \* no two of them write the same column
          MaxOps      \* bound: requests made, in each area

ASSUME RequestAssumption ==
    /\ NoRow \notin Requests
    /\ \A a \in Areas : MaxOps[a] \in Nat

VARIABLES area,   \* the module whose requests are made
          ops,
          task    \* the request: its next statement and what it has read

\* History, which no guard reads: objects two requests had in hand at once,
\* objects a request left half done.
VARIABLES raced, cut

requestVars == <<area, ops, task, raced, cut>>

\* on: the objects the request is about; row: the row it writes; seen and kind:
\* values it has read or been given.
Idle == [op |-> "idle", on |-> {}, row |-> NoRow, seen |-> 0, kind |-> NoRow]

Free(r) == task[r].op = "idle"
At(r, op) == task[r].op = op
InHand(o) == {r \in Requests : o \in task[r].on}

\* task is given by ContractInit.
RequestInit ==
    /\ area \in Areas
    /\ ops = 0
    /\ raced = {} /\ cut = {}

Touch(objects, r) ==
    raced' = raced \cup {o \in objects : InHand(o) \ {r} # {}}

\* A request that takes several statements: the first of them.
Open(r, a, new) ==
    /\ area \in a /\ ops < MaxOps[area] /\ Free(r)
    /\ ops' = ops + 1
    /\ task' = [task EXCEPT ![r] = new]
    /\ Touch(new.on, r)
    /\ UNCHANGED <<area, cut>>

\* A request of one statement, or whose reads cannot become stale.
AtOnce(a, objects) ==
    /\ area \in a /\ ops < MaxOps[area]
    /\ ops' = ops + 1
    /\ Touch(objects, NoRow)
    /\ UNCHANGED <<area, task, cut>>

\* A statement that is not the last, and one that is.
Proceed(r, new) ==
    /\ task' = [task EXCEPT ![r] = new]
    /\ UNCHANGED <<area, ops, raced, cut>>

Goto(r, op) == Proceed(r, [task[r] EXCEPT !.op = op])

Close(r) == Proceed(r, Idle)

\* A statement fails, or the server stops: the request ends where it is.
Fail(r) ==
    /\ ~Free(r)
    /\ task' = [task EXCEPT ![r] = Idle]
    /\ cut' = cut \cup task[r].on
    /\ UNCHANGED <<area, ops, raced>>

Raced(o) == o \in raced
=============================================================================
