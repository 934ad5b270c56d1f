---------------------------- MODULE RequestProofs ----------------------------
(***************************************************************************)
(* What every module of requests relies on: a statement touches the task   *)
(* of its own request only, and an object two requests have in hand at     *)
(* once is recorded in raced.                                              *)
(***************************************************************************)
EXTENDS OfficeRequests, TLAPS

Shape(t) == t = [op |-> t.op, on |-> t.on, row |-> t.row, seen |-> t.seen, kind |-> t.kind]

TasksOK ==
    /\ task = [r \in Requests |-> task[r]]
    /\ \A r \in Requests : Shape(task[r])

\* Only one request has the object in hand, unless that is recorded.
Exclusive(o) ==
    \A r, q \in Requests : o \in task[r].on /\ o \in task[q].on => r = q \/ o \in raced

\* The task of r becomes new, those of others stay.
Becomes(r, new) ==
    /\ task'[r] = new
    /\ \A q \in Requests : q # r => task'[q] = task[q]

LEMMA IdleShape == Shape(Idle)
  BY DEF Shape, Idle

\* The first statement of a request.
LEMMA OpenFacts ==
  ASSUME NEW r \in Requests, NEW a, NEW new, TasksOK, Shape(new), Open(r, a, new)
  PROVE  /\ TasksOK' /\ Becomes(r, new)
         /\ task[r].op = "idle" /\ area \in a /\ area' = area
         /\ cut' = cut /\ raced \subseteq raced'
  BY DEF TasksOK, Shape, Open, Becomes, Free, Touch

LEMMA OpenExclusive ==
  ASSUME NEW r \in Requests, NEW a, NEW new, NEW o, TasksOK, Shape(new), Open(r, a, new),
         Exclusive(o)
  PROVE  Exclusive(o)'
  <1>1. Becomes(r, new)
    BY OpenFacts
  <1>2. raced' = raced \cup {p \in new.on : InHand(p) \ {r} # {}}
    BY DEF Open, Touch
  <1> SUFFICES ASSUME NEW q \in Requests, NEW s \in Requests, q # s,
                      o \in task'[q].on, o \in task'[s].on
               PROVE  o \in raced'
    BY DEF Exclusive
  <1>3. CASE q # r /\ s # r
    BY <1>1, <1>2, <1>3 DEF Becomes, Exclusive
  <1>4. CASE q = r
    BY <1>1, <1>2, <1>4 DEF Becomes, InHand
  <1>5. CASE s = r
    BY <1>1, <1>2, <1>5 DEF Becomes, InHand
  <1> QED
    BY <1>3, <1>4, <1>5

\* Any later statement.
LEMMA ProceedFacts ==
  ASSUME NEW r \in Requests, NEW new, TasksOK, Shape(new), Proceed(r, new)
  PROVE  /\ TasksOK' /\ Becomes(r, new)
         /\ area' = area /\ cut' = cut /\ raced' = raced
  BY DEF TasksOK, Shape, Proceed, Becomes

LEMMA ProceedExclusive ==
  ASSUME NEW r \in Requests, NEW new, NEW o, TasksOK, Shape(new), Proceed(r, new),
         o \in new.on => o \in task[r].on, Exclusive(o)
  PROVE  Exclusive(o)'
  BY ProceedFacts DEF Becomes, Exclusive

LEMMA GotoFacts ==
  ASSUME NEW r \in Requests, NEW op, TasksOK, Goto(r, op)
  PROVE  /\ TasksOK' /\ Becomes(r, [task[r] EXCEPT !.op = op])
         /\ area' = area /\ cut' = cut /\ raced' = raced
         /\ \A o : Exclusive(o) => Exclusive(o)'
  <1>1. Shape([task[r] EXCEPT !.op = op]) /\ [task[r] EXCEPT !.op = op].on = task[r].on
    BY DEF TasksOK, Shape
  <1> QED
    BY <1>1, ProceedFacts, ProceedExclusive DEF Goto

LEMMA CloseFacts ==
  ASSUME NEW r \in Requests, TasksOK, Close(r)
  PROVE  /\ TasksOK' /\ Becomes(r, Idle)
         /\ area' = area /\ cut' = cut /\ raced' = raced
         /\ \A o : Exclusive(o) => Exclusive(o)'
  BY IdleShape, ProceedFacts, ProceedExclusive DEF Close, Idle

LEMMA AtOnceFacts ==
  ASSUME NEW a, NEW objects, TasksOK, AtOnce(a, objects)
  PROVE  /\ TasksOK' /\ task' = task
         /\ area \in a /\ area' = area /\ cut' = cut /\ raced \subseteq raced'
         /\ \A o : Exclusive(o) => Exclusive(o)'
         /\ \A o \in objects, q \in Requests : o \in task[q].on => o \in raced'
  BY RequestAssumption DEF TasksOK, AtOnce, Touch, Exclusive, InHand, Shape

LEMMA FailFacts ==
  ASSUME NEW r \in Requests, TasksOK, Fail(r)
  PROVE  /\ TasksOK' /\ Becomes(r, Idle)
         /\ area' = area /\ cut' = cut \cup task[r].on /\ raced' = raced
         /\ \A o : Exclusive(o) => Exclusive(o)'
  <1>1. TasksOK' /\ Becomes(r, Idle)
    BY IdleShape DEF TasksOK, Fail, Becomes
  <1>2. \A o : Exclusive(o) => Exclusive(o)'
    BY <1>1 DEF Fail, Exclusive, Becomes, Idle
  <1> QED
    BY <1>1, <1>2 DEF Fail

-----------------------------------------------------------------------------
(* The statements that requests of a module are at *)

\* Every request is between two statements of those named in op, or idle.
Fits(names) == TasksOK /\ \A r \in Requests : task[r].op \in names \cup {"idle"}

\* What every step does with the requests: they go on in the same area, and the
\* histories grow.
Runs(names) ==
    /\ Fits(names)' /\ area' = area
    /\ raced \subseteq raced' /\ cut \subseteq cut'

LEMMA OpenFits ==
  ASSUME NEW names, Fits(names), NEW r \in Requests, NEW a, NEW new, Shape(new),
         new.op \in names, Open(r, a, new)
  PROVE  Runs(names) /\ area \in a
  BY OpenFacts DEF Fits, Runs, Becomes

LEMMA ProceedFits ==
  ASSUME NEW names, Fits(names), NEW r \in Requests, NEW new, Shape(new),
         new.op \in names \cup {"idle"}, Proceed(r, new)
  PROVE  Runs(names)
  BY ProceedFacts DEF Fits, Runs, Becomes

LEMMA GotoFits ==
  ASSUME NEW names, Fits(names), NEW r \in Requests, NEW op \in names, Goto(r, op)
  PROVE  Runs(names)
  <1>1. Shape([task[r] EXCEPT !.op = op]) /\ [task[r] EXCEPT !.op = op].op = op
    BY DEF Fits, TasksOK, Shape
  <1> QED
    BY <1>1, ProceedFits DEF Goto

LEMMA CloseFits ==
  ASSUME NEW names, Fits(names), NEW r \in Requests, Close(r)
  PROVE  Runs(names)
  BY IdleShape, ProceedFits DEF Close, Idle

LEMMA AtOnceFits ==
  ASSUME NEW names, Fits(names), NEW a, NEW objects, AtOnce(a, objects)
  PROVE  Runs(names) /\ area \in a
  BY AtOnceFacts DEF Fits, Runs

LEMMA FailFits ==
  ASSUME NEW names, Fits(names), NEW r \in Requests, Fail(r)
  PROVE  Runs(names)
  BY FailFacts DEF Fits, Runs, Becomes, Idle

-----------------------------------------------------------------------------
(* The statements after the first *)

\* What a statement after the first does to the requests: its own goes on with
\* what it has in hand, or ends.
Later(r, op) ==
    /\ raced' = raced
    /\ \A q \in Requests : q # r => task'[q] = task[q]
    /\ task'[r].op = op
    /\ IF op = "idle" THEN task'[r].on = {}
       ELSE task'[r].on = task[r].on /\ task'[r].row = task[r].row
    /\ \A o : Exclusive(o) => Exclusive(o)'

LEMMA LaterFacts ==
  ASSUME TasksOK, NEW r \in Requests
  PROVE  /\ Close(r) => Later(r, "idle")
         /\ \A op : op # "idle" /\ Goto(r, op) => Later(r, op)
<1>1. ASSUME Close(r) PROVE Later(r, "idle")
  BY <1>1, CloseFacts DEF Later, Becomes, Idle
<1>2. ASSUME NEW op, op # "idle", Goto(r, op) PROVE Later(r, op)
  <2>1. PICK new : Becomes(r, new) /\ new = [task[r] EXCEPT !.op = op]
    BY <1>2, GotoFacts
  <2>2. new.op = op
    BY <2>1 DEF TasksOK, Shape
  <2>3. new.on = task[r].on
    BY <2>1 DEF TasksOK, Shape
  <2>4. new.row = task[r].row
    BY <2>1 DEF TasksOK, Shape
  <2> QED
    BY <1>2, <2>1, <2>2, <2>3, <2>4, GotoFacts DEF Later, Becomes
<1> QED
  BY <1>1, <1>2
=============================================================================
