------------------------------- MODULE Queues -------------------------------
(***************************************************************************)
(* The queues of the server: tasks per connection, e-mails in memory, and  *)
(* the tasks of the index of comments in SQLite.  They share no state, so  *)
(* that each is a part of its own, and a behavior is one of one part.      *)
(***************************************************************************)
EXTENDS TaskQueue, EmailQueue, CommentStore

VARIABLE part

queuesVars == <<queueVars, emailVars, vars, part>>

QueuesInit ==
    /\ part \in {"tasks", "mail", "comments"}
    /\ QueueInit /\ EmailInit /\ Init

QueuesNext ==
    /\ UNCHANGED part
    /\ IF part = "tasks" THEN QueueNext ELSE UNCHANGED queueVars
    /\ IF part = "mail" THEN EmailNext ELSE UNCHANGED emailVars
    /\ IF part = "comments" THEN Next ELSE UNCHANGED vars

\* The fairness of EmailQueue and of CommentStore.  In a part that rests none of
\* these actions is enabled; saying so first spares TLC the evaluation.
QueuesFairness ==
    /\ \A m \in Mails :
           /\ WF_emailVars(part = "mail" /\ QueueMail(m))
           /\ WF_emailVars(part = "mail" /\ WriteLog(m))
           /\ WF_emailVars(part = "mail" /\ \E works \in BOOLEAN : Attempt(m, works))
    /\ WF_emailVars(part = "mail" /\ DrainStep)
    /\ \A k \in Calls : WF_vars(part = "comments" /\ pc[k] # "idle" /\ Step(k))
    /\ \A w \in Workers : /\ WF_vars(part = "comments" /\ ReadTasks(w))
                          /\ WF_vars(part = "comments" /\ NoteFailure(w))

QueuesSpec == QueuesInit /\ [][QueuesNext]_queuesVars /\ QueuesFairness
=============================================================================
