----------------------------- MODULE CommentStore -----------------------------
(***************************************************************************)
(* Comments, likes, reports and the queue of the full-text index: the      *)
(* relational half of src/apps/api/src/runtime-store.ts.  Every operation  *)
(* is a transaction, BEGIN IMMEDIATE to COMMIT or ROLLBACK with an await   *)
(* at each statement, and all of them share one SQLite connection: inside  *)
(* of a transaction another BEGIN fails, but any other statement, COMMIT   *)
(* and ROLLBACK included, goes to the transaction that happens to be open. *)
(*                                                                         *)
(* Texts, names and inbox messages are left out.  The index is a set: an   *)
(* fts5 table has no key, so that indexing twice leaves two rows, which no *)
(* property here tells apart from one.                                     *)
(***************************************************************************)
EXTENDS Naturals, FiniteSets

CONSTANTS
    Requests,      \* requests in flight, as [kind, user, comment]
    Workers,       \* runs of syncCommentsFts that may overlap
    Nobody,        \* no transaction is open
    EscalateAbove, \* pending reports that hide a comment if there are more: 5
    MaxAttempts,   \* attempts before a task goes to the dead letters: 5
    MaxFailures,   \* bound: statements that fail
    MaxCrashes     \* bound: crashes of the process

Comments == {r.comment : r \in Requests}
Users == {r.user : r \in Requests}
TaskMakers == {r \in Requests : r.kind \in {"add", "resolve"}}
Calls == Requests \cup Workers

ASSUME CommentAssumption ==
    /\ \A r \in Requests : r.kind \in {"add", "like", "report", "resolve"}
    /\ \A q, r \in Requests : q.kind = "add" /\ r.kind = "add" /\ q.comment = r.comment => q = r
    /\ Nobody \notin Calls /\ Requests \cap Workers = {}
    /\ {EscalateAbove, MaxAttempts, MaxFailures, MaxCrashes} \subseteq Nat

VARIABLES
    db,     \* the tables as the connection sees them
    saved,  \* the tables without what is not committed yet
    owner,  \* the call whose BEGIN opened the transaction, or Nobody
    torn,   \* a call ended the transaction of another one
    pc,     \* where each call is
    list,   \* tasks that a worker has read and not tried yet
    item,   \* the task that it is at
    failures, crashes

vars == <<db, saved, owner, torn, pc, list, item, failures, crashes>>

NoTask == [status |-> "none", attempts |-> 0]
NoItem == [task |-> Nobody, attempts |-> 0]

Init ==
    /\ db = [comment |-> [c \in Comments |-> "absent"],
             likes   |-> {},
             reports |-> [p \in Users \X Comments |-> "none"],
             index   |-> {},
             tasks   |-> [m \in TaskMakers |-> NoTask]]
    /\ saved = db
    /\ owner = Nobody
    /\ torn = FALSE
    /\ pc = [k \in Calls |-> "idle"]
    /\ list = [w \in Workers |-> {}]
    /\ item = [w \in Workers |-> NoItem]
    /\ failures = 0 /\ crashes = 0

InTransaction == {"first", "second", "keeping", "deleting"}

Go(k, place) == pc' = [pc EXCEPT ![k] = place]

\* A statement of a call runs: outside of any transaction it is committed at once.
Write(tables) ==
    /\ db' = tables
    /\ saved' = IF owner = Nobody THEN tables ELSE saved

Listed(r) == db.comment[r.comment] \notin {"absent", "deleted"}

-----------------------------------------------------------------------------
(* Before BEGIN.                                                            *)

\* toggleCommentLike and reportComment look for the comment first, outside of the
\* transaction; addComment and resolveReport begin at once.
LookFor(r) ==
    /\ r.kind \in {"like", "report"}
    /\ pc[r] = "idle"
    /\ Go(r, IF Listed(r) THEN "beginning" ELSE "failed")
    /\ UNCHANGED <<db, saved, owner, torn, list, item, failures, crashes>>

\* Seeded fault: what failed once is not tried again.
ReadTasksOnce(w) ==
    /\ pc[w] = "idle"
    /\ list' = [list EXCEPT ![w] =
           {[task |-> m, attempts |-> db.tasks[m].attempts] :
                m \in {n \in TaskMakers : db.tasks[n].status = "pending"}}]
    /\ list'[w] # {}
    /\ Go(w, "beginning")
    /\ UNCHANGED <<db, saved, owner, torn, item, failures, crashes>>

\* syncCommentsFts reads the tasks that are due; the time of a retry comes.
ReadTasks(w) ==
    /\ pc[w] = "idle"
    /\ list' = [list EXCEPT ![w] =
           {[task |-> m, attempts |-> db.tasks[m].attempts] :
                m \in {n \in TaskMakers : db.tasks[n].status \in {"pending", "retry"}}}]
    /\ list'[w] # {}
    /\ Go(w, "beginning")
    /\ UNCHANGED <<db, saved, owner, torn, item, failures, crashes>>

\* The worker takes the next task of its list, a request has none to take.
Take(k) ==
    IF k \in Workers
    THEN \E t \in list[k] : /\ item' = [item EXCEPT ![k] = t]
                            /\ list' = [list EXCEPT ![k] = @ \ {t}]
    ELSE UNCHANGED <<item, list>>

\* A call gives up: a request is answered with an error, a worker's run is over.
GiveUp(k) ==
    /\ Go(k, IF k \in Workers THEN "idle" ELSE "failed")
    /\ IF k \in Workers THEN /\ list' = [list EXCEPT ![k] = {}]
                             /\ item' = [item EXCEPT ![k] = NoItem]
       ELSE UNCHANGED <<list, item>>

Ready(k) ==
    \/ pc[k] = "beginning"
    \/ k \in TaskMakers /\ pc[k] = "idle"

\* Seeded fault: the statements run without a transaction.
BeginNothing(k) ==
    /\ Ready(k)
    /\ owner = Nobody
    /\ Take(k)
    /\ Go(k, "first")
    /\ UNCHANGED <<db, saved, owner, torn, failures, crashes>>

Begin(k) ==
    /\ Ready(k)
    /\ owner = Nobody
    /\ owner' = k
    /\ Take(k)
    /\ Go(k, "first")
    /\ UNCHANGED <<db, saved, torn, failures, crashes>>

\* BEGIN inside of a transaction is an error, and it stands outside of the try.
BeginRefused(k) ==
    /\ Ready(k)
    /\ owner # Nobody
    /\ GiveUp(k)
    /\ UNCHANGED <<db, saved, owner, torn, failures, crashes>>

-----------------------------------------------------------------------------
(* The statements of the transactions: the first of each, then the others.  *)

InsertComment(r) ==
    /\ r.kind = "add" /\ pc[r] = "first"
    /\ Write([db EXCEPT !.comment[r.comment] = "public"])
    /\ Go(r, "second")

InsertTask(r) ==
    /\ r.kind = "add" /\ pc[r] = "second"
    /\ Write([db EXCEPT !.tasks[r] = [status |-> "pending", attempts |-> 0]])
    /\ Go(r, "committing")

ToggleLike(r) ==
    /\ r.kind = "like" /\ pc[r] = "first"
    /\ LET like == <<r.user, r.comment>> IN
       Write([db EXCEPT !.likes = IF like \in @ THEN @ \ {like} ELSE @ \cup {like}])
    /\ Go(r, "committing")

\* INSERT OR IGNORE: one report for each user and comment.
InsertReport(r) ==
    /\ r.kind = "report" /\ pc[r] = "first"
    /\ Write([db EXCEPT !.reports[<<r.user, r.comment>>] = IF @ = "none" THEN "pending" ELSE @])
    /\ Go(r, "second")

Escalate(r) ==
    /\ r.kind = "report" /\ pc[r] = "second"
    /\ LET pending == {u \in Users : db.reports[<<u, r.comment>>] = "pending"} IN
       Write([db EXCEPT !.comment[r.comment] =
                  IF @ = "public" /\ Cardinality(pending) > EscalateAbove THEN "hidden" ELSE @])
    /\ Go(r, "committing")

\* resolveReport for the report of that user: "keep" or "delete".  The report is
\* looked up; if there is none, it throws.
SettleReport(r) ==
    /\ r.kind = "resolve" /\ pc[r] = "first"
    /\ LET report == <<r.user, r.comment>> IN
       IF db.reports[report] = "none"
       THEN Go(r, "rollingBack") /\ UNCHANGED <<db, saved>>
       ELSE \E resolved \in {"kept", "deleted"} :
                /\ Write([db EXCEPT !.reports[report] = resolved])
                /\ Go(r, IF resolved = "kept" THEN "keeping" ELSE "deleting")

DeleteComment(r) ==
    /\ pc[r] = "deleting"
    /\ Write([db EXCEPT !.comment[r.comment] = IF @ = "absent" THEN @ ELSE "deleted",
                        !.index = @ \ {r.comment}])
    /\ Go(r, "committing")

\* The comment is public again (is_deleted is not reset) and is to be indexed.
KeepComment(r) ==
    /\ pc[r] = "keeping"
    /\ Write([db EXCEPT !.comment[r.comment] = IF @ = "hidden" THEN "public" ELSE @,
                        !.tasks[r] = [status |-> "pending", attempts |-> 0]])
    /\ Go(r, "committing")

IndexComment(w) ==
    /\ w \in Workers /\ pc[w] = "first"
    /\ LET c == item[w].task.comment IN
       Write([db EXCEPT !.index = IF db.comment[c] = "public" THEN @ \cup {c} ELSE @ \ {c}])
    /\ Go(w, "second")

SetTask(m, status, attempts) ==
    Write([db EXCEPT !.tasks[m] =
               IF @.status = "none" THEN @ ELSE [status |-> status, attempts |-> attempts]])

MarkSynced(w) ==
    /\ w \in Workers /\ pc[w] = "second"
    /\ SetTask(item[w].task, "synced", db.tasks[item[w].task].attempts)
    /\ Go(w, "committing")

Statement(k) ==
    /\ \/ k \in Requests /\ \/ InsertComment(k) \/ InsertTask(k) \/ ToggleLike(k)
                            \/ InsertReport(k) \/ Escalate(k)
                            \/ SettleReport(k) \/ DeleteComment(k) \/ KeepComment(k)
       \/ IndexComment(k) \/ MarkSynced(k)
    /\ UNCHANGED <<owner, torn, list, item, failures, crashes>>

-----------------------------------------------------------------------------
(* COMMIT, ROLLBACK and what comes after them.                              *)

CloseTransaction(k) ==
    /\ owner' = Nobody
    /\ torn' = (torn \/ owner # k)

\* Where a call goes on after its COMMIT: toggleCommentLike counts the likes, a
\* worker goes to its next task.
AfterCommit(k) ==
    /\ Go(k, IF k \in Requests THEN IF k.kind = "like" THEN "counting" ELSE "done"
             ELSE IF list[k] = {} THEN "idle" ELSE "beginning")
    /\ item' = IF k \in Workers THEN [item EXCEPT ![k] = NoItem] ELSE item
    /\ UNCHANGED list

\* COMMIT; without a transaction it is an error.
Commit(k) ==
    /\ pc[k] = "committing"
    /\ IF owner = Nobody
       THEN Go(k, "rollingBack") /\ UNCHANGED <<saved, owner, torn, list, item>>
       ELSE saved' = db /\ CloseTransaction(k) /\ AfterCommit(k)
    /\ UNCHANGED <<db, failures, crashes>>

CountLikes(r) ==
    /\ pc[r] = "counting"
    /\ Go(r, "done")
    /\ UNCHANGED <<db, saved, owner, torn, list, item, failures, crashes>>

\* A statement of the try fails, the SELECT after the COMMIT as well.
StatementFails(k) ==
    /\ pc[k] \in InTransaction \cup {"committing", "counting"}
    /\ failures < MaxFailures
    /\ failures' = failures + 1
    /\ Go(k, "rollingBack")
    /\ UNCHANGED <<db, saved, owner, torn, list, item, crashes>>

\* ROLLBACK in the catch: of the transaction that is open, whoever began it;
\* without one it is an error that takes the place of the first.
Rollback(k) ==
    /\ pc[k] = "rollingBack"
    /\ IF owner = Nobody
       THEN GiveUp(k) /\ UNCHANGED <<db, owner, torn>>
       ELSE /\ db' = saved
            /\ CloseTransaction(k)
            /\ IF k \in Workers THEN Go(k, "noting") /\ UNCHANGED <<list, item>> ELSE GiveUp(k)
    /\ UNCHANGED <<saved, failures, crashes>>

\* The worker notes the failed attempt, in no transaction of its own, and goes on.
NoteFailure(w) ==
    /\ pc[w] = "noting"
    /\ LET attempts == item[w].attempts + 1 IN
       SetTask(item[w].task, IF attempts >= MaxAttempts THEN "dead_letter" ELSE "retry", attempts)
    /\ AfterCommit(w)
    /\ UNCHANGED <<owner, torn, failures, crashes>>

\* That statement fails: the worker's run ends.
NoteFails(w) ==
    /\ pc[w] = "noting"
    /\ failures < MaxFailures
    /\ failures' = failures + 1
    /\ GiveUp(w)
    /\ UNCHANGED <<db, saved, owner, torn, crashes>>

\* The process dies and starts again.
Crash ==
    /\ crashes < MaxCrashes
    /\ crashes' = crashes + 1
    /\ db' = saved
    /\ owner' = Nobody
    /\ pc' = [k \in Calls |-> IF k \in Workers THEN "idle"
                              ELSE IF pc[k] \in {"idle", "done"} THEN pc[k] ELSE "failed"]
    /\ list' = [w \in Workers |-> {}]
    /\ item' = [w \in Workers |-> NoItem]
    /\ UNCHANGED <<saved, torn, failures>>

-----------------------------------------------------------------------------
Step(k) == Begin(k) \/ BeginRefused(k) \/ Statement(k) \/ Commit(k) \/ Rollback(k)

Next ==
    \/ \E r \in Requests : LookFor(r) \/ CountLikes(r)
    \/ \E w \in Workers : ReadTasks(w) \/ NoteFailure(w) \/ NoteFails(w)
    \/ \E k \in Calls : Step(k) \/ StatementFails(k)
    \/ Crash

Safety == Init /\ [][Next]_vars

-----------------------------------------------------------------------------

\* No transaction stays open without a call that is going to end it: an open one
\* would refuse every BEGIN and let nothing be committed any more.
TransactionHasOwner ==
    owner # Nobody => pc[owner] \in InTransaction \cup {"committing", "rollingBack"}

\* What is committed is all of an operation or nothing: a comment with its task for
\* the index, a report settled as deleted together with its comment.  Only a call
\* that ends the transaction of another breaks this (the ROLLBACK of
\* toggleCommentLike when the SELECT after its COMMIT fails).
CommittedWhole ==
    ~torn =>
        /\ \A m \in TaskMakers : m.kind = "add" /\ saved.comment[m.comment] # "absent" =>
               saved.tasks[m].status # "none"
        /\ \A u \in Users, c \in Comments :
               saved.reports[<<u, c>>] = "deleted" /\ saved.comment[c] # "absent" =>
                   saved.comment[c] = "deleted"

\* Every task of the index is done or ends as a dead letter, although the worker is
\* refused whenever a request has the connection, and whatever fails or crashes.
EveryTaskSettles ==
    \A m \in TaskMakers :
        db.tasks[m].status \in {"pending", "retry"} ~>
            db.tasks[m].status \in {"none", "synced", "dead_letter"}
=============================================================================
