---------------------------- MODULE Notifications ----------------------------
(***************************************************************************)
(* Notifications: rows for the bell, written when a notification is made   *)
(* or by the worker, and their delivery through the user's channels, which *)
(* jobs of the queue "notifications" carry out.                            *)
(***************************************************************************)
EXTENDS OfficeRequests, Sequences, Bags

CONSTANTS Users, Notices,   \* recipients; rows of notifications
          Channels,         \* Channels[u]: sequence of the channels enabled for u
          Recipients,       \* sequences of users notified together
          Wanting,          \* users who want notifications of this type
          BatchAttempts,    \* 3 in the code
          MaxStalls,        \* stalls a job survives
          MaxFaults         \* bound: failures and deaths of workers

ASSUME NoticeAssumption ==
    /\ Channels \in [Users -> Seq({"zalo", "push", "email"})]
    /\ Recipients \subseteq Seq(Users)
    /\ BatchAttempts \in Nat \ {0} /\ MaxStalls \in Nat /\ MaxFaults \in Nat

VARIABLES notice,     \* notifications: user_id and delivery_status
          jobs,       \* "send" and "deliver-batch" jobs, waiting or executed
          outbox,     \* bag of "deliver" jobs; result is set while one is executed
          faults

\* History: rows whose own user was sent something; rows that stand in a batch at
\* the position of another user.
VARIABLES reached, shifted

noticeVars == <<notice, jobs, outbox, faults, reached, shifted>>

NoNotice == [status |-> "absent", user |-> NoRow]
DeliverJob == [notice : Notices, user : Users, channel : {"zalo", "push", "email"},
               result : {"waiting", "delivered", "failed"}, stalls : 0..MaxStalls]
\* at is the position in the list of users, left the channels still to be queued
\* for the user there; rows the rows made or given; tries the attempts begun.
Job == [kind : {"send", "batch"}, id : Nat, users : Seq(Users), rows : Seq(Notices), at : Nat,
        left : Seq({"zalo", "push", "email"}), tries : 1..BatchAttempts,
        stalls : 0..MaxStalls]

NoticeTypeOK ==
    /\ notice \in [Notices -> [status : {"absent", "pending", "delivered", "failed", "deleted"},
                               user : Users \cup {NoRow}]]
    /\ jobs \subseteq Job
    /\ DOMAIN outbox \subseteq DeliverJob
    /\ faults \in 0..MaxFaults
    /\ reached \subseteq Notices /\ shifted \subseteq Notices

NoticeInit ==
    /\ notice = [n \in Notices |-> NoNotice]
    /\ jobs = {} /\ outbox = EmptyBag /\ faults = 0
    /\ reached = {} /\ shifted = {}

\* Which row is the new one does not matter.
Absent == {n \in Notices : notice[n].status = "absent"}
NewNotice == CHOOSE n \in Absent : TRUE
Written(n, u) == [notice EXCEPT ![n] = [status |-> "pending", user |-> u]]

NewJob(kind, users, rows) ==
    [kind |-> kind, id |-> ops, users |-> users, rows |-> rows, at |-> 0, left |-> <<>>, tries |-> 1,
     stalls |-> 0]

-----------------------------------------------------------------------------
(* notifications.service.create: row by row, then the job *)

\* row is the users, kind those whose row is still to be written, seen the rows
\* written, which are also the objects in hand.
OpenNotification(r, users) ==
    /\ Open(r, {"notices"}, [op |-> "write", on |-> {}, row |-> users, seen |-> <<>>,
                             kind |-> users])
    /\ UNCHANGED noticeVars

WriteNotice(r) ==
    /\ At(r, "write") /\ task[r].kind # <<>> /\ Absent # {}
    /\ notice' = Written(NewNotice, Head(task[r].kind))
    /\ Proceed(r, [task[r] EXCEPT !.seen = Append(@, NewNotice), !.on = @ \cup {NewNotice},
                                  !.kind = Tail(@)])
    /\ UNCHANGED <<jobs, outbox, faults, reached, shifted>>

\* The error is logged and the next user's row is written.
MissNotice(r) ==
    /\ At(r, "write") /\ task[r].kind # <<>>
    /\ Proceed(r, [task[r] EXCEPT !.kind = Tail(@)])
    /\ UNCHANGED noticeVars

QueueBatch(r) ==
    /\ At(r, "write") /\ task[r].kind = <<>>
    /\ jobs' = IF task[r].seen = <<>> THEN jobs
               ELSE jobs \cup {NewJob("batch", task[r].row, task[r].seen)}
    /\ shifted' = shifted \cup {task[r].seen[i] : i \in
                     {k \in DOMAIN task[r].seen : notice[task[r].seen[k]].user # task[r].row[k]}}
    /\ Close(r)
    /\ UNCHANGED <<notice, outbox, faults, reached>>

\* Other services queue a notification for the worker to make.
QueueSend(users) ==
    /\ AtOnce({"notices"}, {})
    /\ jobs' = jobs \cup {NewJob("send", users, <<>>)}
    /\ UNCHANGED <<notice, outbox, faults, reached, shifted>>

-----------------------------------------------------------------------------
(* notifications.processor: handleSend and handleDeliverBatch *)

Replace(j, new) == jobs' = (jobs \ {j}) \cup {new}

\* createAndQueueDelivery
MakeNotice(j) ==
    /\ j.kind = "send" /\ j.left = <<>> /\ j.at < Len(j.users)
    /\ LET u == j.users[j.at + 1]
       IN  IF u \in Wanting
           THEN /\ Absent # {}
                /\ notice' = Written(NewNotice, u)
                /\ Replace(j, [j EXCEPT !.at = @ + 1, !.rows = Append(@, NewNotice),
                                        !.left = Channels[u]])
           ELSE /\ Replace(j, [j EXCEPT !.at = @ + 1])
                /\ UNCHANGED notice
    /\ UNCHANGED <<requestVars, outbox, faults, reached, shifted>>

\* A user is paired with the row at the same position; one beyond the last row
\* is passed over.
ReadRecipient(j) ==
    /\ j.kind = "batch" /\ j.left = <<>> /\ j.at < Len(j.users)
    /\ Replace(j, [j EXCEPT !.at = @ + 1,
                            !.left = IF j.at < Len(j.rows) THEN Channels[j.users[j.at + 1]] ELSE <<>>])
    /\ UNCHANGED <<requestVars, notice, outbox, faults, reached, shifted>>

\* A mutant: the first row.
RowOfFirst(j) == j.rows[1]

RowOf(j) == IF j.kind = "send" THEN j.rows[Len(j.rows)] ELSE j.rows[j.at]

QueueDelivery(j) ==
    /\ j.left # <<>>
    /\ outbox' = outbox (+) SetToBag({[notice |-> RowOf(j), user |-> j.users[j.at],
                                       channel |-> Head(j.left), result |-> "waiting",
                                       stalls |-> 0]})
    /\ Replace(j, [j EXCEPT !.left = Tail(@)])
    /\ UNCHANGED <<requestVars, notice, faults, reached, shifted>>

EndJob(j) ==
    /\ j.left = <<>> /\ j.at = Len(j.users)
    /\ jobs' = jobs \ {j}
    /\ UNCHANGED <<requestVars, notice, outbox, faults, reached, shifted>>

\* A mutant: the attempts are counted from zero.
MayRetryOnceMore(j) == j.kind = "batch" /\ j.tries <= BatchAttempts

MayRetry(j) == j.kind = "batch" /\ j.tries < BatchAttempts

Fault == faults < MaxFaults /\ faults' = faults + 1

Abandon(j) ==
    /\ jobs' = jobs \ {j}
    /\ cut' = cut \cup {j.rows[i] : i \in DOMAIN j.rows}

\* A statement fails: a batch starts again from its first user while it has
\* attempts left, and delivers again what it delivered; nothing else is tried
\* again.
FailJob(j) ==
    /\ Fault
    /\ IF MayRetry(j)
       THEN /\ Replace(j, [j EXCEPT !.at = 0, !.left = <<>>, !.tries = @ + 1])
            /\ UNCHANGED cut
       ELSE Abandon(j)
    /\ UNCHANGED <<area, ops, task, raced, notice, outbox, reached, shifted>>

\* The worker dies under the job: either kind starts again, which is no attempt of
\* a batch, and a send makes new rows and forgets the one it was queueing.
StallJob(j) ==
    /\ Fault
    /\ IF j.stalls < MaxStalls
       THEN /\ Replace(j, [j EXCEPT !.at = 0, !.left = <<>>, !.stalls = @ + 1,
                                    !.rows = IF j.kind = "send" THEN <<>> ELSE @])
            /\ cut' = IF j.kind = "send" /\ j.left # <<>> THEN cut \cup {RowOf(j)} ELSE cut
       ELSE Abandon(j)
    /\ UNCHANGED <<area, ops, task, raced, notice, outbox, reached, shifted>>

-----------------------------------------------------------------------------
(* notifications.processor.handleDeliver *)

Move(d, new) == outbox' = (outbox (-) SetToBag({d})) (+) SetToBag({new})

\* Through the channel, which may refuse.
Deliver(d) ==
    /\ d.result = "waiting"
    /\ \E result \in {"delivered", "failed"} : Move(d, [d EXCEPT !.result = result])
    /\ reached' = IF notice[d.notice].user = d.user THEN reached \cup {d.notice} ELSE reached
    /\ UNCHANGED <<requestVars, notice, jobs, faults, shifted>>

\* The last of several channels leaves its result; a row deleted meanwhile is not found.
UpdateDeliveryStatus(d) ==
    /\ d.result # "waiting"
    /\ notice' = IF notice[d.notice].status = "deleted" THEN notice
                 ELSE [notice EXCEPT ![d.notice].status = d.result]
    /\ outbox' = outbox (-) SetToBag({d})
    /\ UNCHANGED <<requestVars, jobs, faults, reached, shifted>>

Lose(d) ==
    /\ outbox' = outbox (-) SetToBag({d})
    /\ cut' = cut \cup {d.notice}

\* Not tried again.
FailDelivery(d) ==
    /\ Fault
    /\ Lose(d)
    /\ UNCHANGED <<area, ops, task, raced, notice, jobs, reached, shifted>>

\* The worker dies: what was sent is sent again.
StallDelivery(d) ==
    /\ Fault
    /\ IF d.stalls < MaxStalls
       THEN /\ Move(d, [d EXCEPT !.result = "waiting", !.stalls = @ + 1])
            /\ UNCHANGED cut
       ELSE Lose(d)
    /\ UNCHANGED <<area, ops, task, raced, notice, jobs, reached, shifted>>

DeleteNotice(n) ==
    /\ notice[n].status \in {"pending", "delivered", "failed"}
    /\ notice' = [notice EXCEPT ![n].status = "deleted"]
    /\ UNCHANGED <<requestVars, jobs, outbox, faults, reached, shifted>>

-----------------------------------------------------------------------------
(* Properties *)

\* What a notification still owes its user: an attempt through one of the
\* channels the user has enabled, and its result on the row.
Owes(n) ==
    /\ notice[n].status \in {"pending", "delivered", "failed"}
    /\ Channels[notice[n].user] # <<>>
    /\ notice[n].status = "pending" \/ n \notin reached

\* Every notification is tried through a channel of its own user in the end, and
\* the row shows a result, although batches fail and are tried again, workers die,
\* rows are deleted and several channels report on one row: unless the request
\* stopped before the batch was queued, a job used up its attempts or its stalls,
\* another job failed, a worker died while it was queueing the row it had made, or
\* the row of an earlier user in the batch could not be written, and this one is
\* taken for that user's.
NoticeTried ==
    \A n \in Notices : Owes(n) ~> ~Owes(n) \/ n \in cut \cup shifted
=============================================================================
