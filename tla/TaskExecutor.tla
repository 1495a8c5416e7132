----------------------------- MODULE TaskExecutor -----------------------------
(***************************************************************************)
(* src/apps/api/src/executor.ts on top of the queue of TaskQueue: the life *)
(* of a task from registerBatchTask to its last webhook, the run of its    *)
(* items over one SSH connection (engine/index.ts), cancellation, the      *)
(* history kept in the runtime database, and the self-healing of that      *)
(* history when the server starts again (server.ts).                       *)
(*                                                                         *)
(* Memory (taskStore, cancelFlags, the queue, pending history writes) dies *)
(* with the process, the history and the install counters survive it.      *)
(***************************************************************************)
EXTENDS TaskQueue

CONSTANTS BatchTasks,   \* tasks of executeBatchCatalogTask, the others being
                        \* tasks of executePlaybookTask
          CountedTasks, \* tasks that are not dry runs and whose items have a
                        \* catalog id that the install counters count
          NItems,       \* items of a batch task (a playbook task has one)
          MaxCrashes,   \* bound: crashes and restarts of the process
          MaxFailures   \* bound: updates of the runtime database that reject

ASSUME ExecutorAssumption ==
    /\ BatchTasks \subseteq Tasks
    /\ CountedTasks \subseteq Tasks
    /\ NItems \in Nat \ {0}
    /\ MaxCrashes \in Nat
    /\ MaxFailures \in Nat

VARIABLES
    server,      \* "down", "listening" (app.listen done), "healing", "healed"
    crashes, failures,
    status,      \* task.status, "none" while the taskStore has no such task
    items,       \* the status of each task.items slot
    cursor,      \* where a batch run is: 0 before it has a connection, i in
                 \* item i, past the last item closing the connection or done
    cancelFlags, \* taskIds whose cancel flag is true
    jobs,        \* FIFO of the runtime database mutex: updates asked for
    firing,      \* firing[t]: history writes of t now on the way to a webhook
    history,     \* db.tasks: the status recorded for a task, or "none"
    installs,    \* sum of the catalogStats increments made for a task
    events       \* task.completed and task.failed events sent for a task

taskVars == <<status, items, cursor, cancelFlags>>
dbVars == <<jobs, firing, history, installs, events, failures>>
serverVars == <<server, crashes>>
vars == <<queueVars, taskVars, dbVars, serverVars>>

Terminal == {"succeeded", "failed", "cancelled"}
Statuses == {"none", "queued", "running"} \cup Terminal
ItemStatuses == {"pending", "running", "succeeded", "failed", "skipped"}
Slots == 1..NItems
SucceededItems(t) == {i \in Slots : items[t][i] = "succeeded"}

Persist(t) == [op |-> "persist", task |-> t]
Heal == [op |-> "heal"]
Up == server # "down"

-----------------------------------------------------------------------------
NoStatus == [t \in Tasks |-> "none"]
NoItems == [t \in Tasks |-> [i \in Slots |-> "pending"]]
Zero == [t \in Tasks |-> 0]

Init ==
    /\ QueueInit
    /\ status = NoStatus
    /\ items = NoItems
    /\ cursor = Zero
    /\ cancelFlags = {}
    /\ jobs = <<>>
    /\ firing = Zero
    /\ server = "down"
    /\ crashes = 0
    /\ failures = 0
    /\ history = NoStatus
    /\ installs = Zero
    /\ events = Zero

-----------------------------------------------------------------------------
(* Server life (server.ts): listen first, then migrations and healing.     *)

Boot ==
    /\ server = "down"
    /\ server' = "listening"
    /\ UNCHANGED <<queueVars, taskVars, dbVars, crashes>>

\* healTaskStates asks for its update and stands in the mutex line like others.
AskHeal ==
    /\ server = "listening"
    /\ server' = "healing"
    /\ jobs' = Append(jobs, Heal)
    /\ UNCHANGED <<queueVars, taskVars, firing, history, installs, events, failures, crashes>>

\* The process ends at any moment, a graceful shutdown included: it waits for
\* the workers of the scheduler, not for tasks or history writes.
Crash ==
    /\ Up
    /\ crashes < MaxCrashes
    /\ crashes' = crashes + 1
    /\ server' = "down"
    /\ queues' = [c \in Conns |-> <<>>]
    /\ draining' = [c \in Conns |-> FALSE]
    /\ active' = {}
    /\ cancelledQueued' = {}
    /\ status' = NoStatus
    /\ items' = NoItems
    /\ cursor' = Zero
    /\ cancelFlags' = {}
    /\ jobs' = <<>>
    /\ firing' = Zero
    /\ UNCHANGED <<connOf, history, installs, events, failures>>

-----------------------------------------------------------------------------
(* Submitting.  Started: the tasks a step of a drain loop takes off a list; *)
(* their onStart runs (status and a history write), then run() up to its    *)
(* first await, the SSH connection.                                         *)
Started == active' \ active

\* registerBatchTask and, in the same turn of the event loop, executeBatch-
\* CatalogTask or executePlaybookTask: the onStart of a task that the queue
\* takes at once, "queued" for one that something stands before, and one more
\* history write in either case.
Submit(t, c) ==
    /\ Up
    /\ Enqueue(t, c)
    /\ status' = [status EXCEPT ![t] = IF PositionAhead(c) > 0 THEN "queued" ELSE "running"]
    /\ jobs' = jobs \o (IF t \in Started THEN <<Persist(t), Persist(t)>> ELSE <<Persist(t)>>)
    /\ UNCHANGED <<items, cursor, cancelFlags, firing, history, installs, events, failures,
                   serverVars>>

-----------------------------------------------------------------------------
(* The run of a task.  A batch run (executeBatchPlaybooks) reports its items *)
(* as it goes and looks at the cancel flag between them; a playbook run      *)
(* (executePlaybook) does neither, so it is one step from onStart to its end. *)

\* The batch loop from the end of an item (or the connection) to the next
\* await, done being the items so far: skip the rest if the cancel flag is up,
\* else start item k; past the last item, close the connection.
LoopFrom(t, k, done) ==
    LET stop == k > NItems \/ t \in cancelFlags IN
    /\ cursor' = [cursor EXCEPT ![t] = IF stop THEN NItems + 1 ELSE k]
    /\ items' = [items EXCEPT ![t] =
           [i \in Slots |-> IF i < k THEN done[i]
                            ELSE IF stop THEN "skipped"
                            ELSE IF i = k THEN "running" ELSE done[i]]]

Connecting(t) == t \in active \cap BatchTasks /\ cursor[t] = 0

ConnectSucceeds(t) ==
    /\ Connecting(t)
    /\ LoopFrom(t, 1, items[t])
    /\ UNCHANGED <<queueVars, status, cancelFlags, dbVars, serverVars>>

\* connectSsh rejects: all items are marked failed.
ConnectFails(t) ==
    /\ Connecting(t)
    /\ cursor' = [cursor EXCEPT ![t] = NItems + 1]
    /\ items' = [items EXCEPT ![t] = [i \in Slots |-> "failed"]]
    /\ UNCHANGED <<queueVars, status, cancelFlags, dbVars, serverVars>>

\* The item under way ends (a missing playbook and a thrown error count as
\* failed) and the loop goes on.
ItemEnds(t, outcome) ==
    /\ t \in active \cap BatchTasks
    /\ cursor[t] \in Slots
    /\ LoopFrom(t, cursor[t] + 1, [items[t] EXCEPT ![cursor[t]] = outcome])
    /\ UNCHANGED <<queueVars, status, cancelFlags, dbVars, serverVars>>

\* The end of run(): final status and a history write, then the drain loop
\* takes the next entry and runs its onStart.
Conclude(t, final) ==
    /\ RunSettles(t)
    /\ status' = [u \in Tasks |-> IF u = t THEN final
                                  ELSE IF u \in Started THEN "running" ELSE status[u]]
    /\ jobs' = jobs \o <<Persist(t)>> \o SetToSeq({Persist(u) : u \in Started})
    /\ UNCHANGED <<cursor, firing, history, installs, events, failures, serverVars>>

\* Seeded faults: failed items or the cancel flag are not looked at.
BatchStatusBlindToFailures(t) == IF t \in cancelFlags THEN "cancelled" ELSE "succeeded"

BatchStatusBlindToFlag(t) ==
    IF \E i \in Slots : items[t][i] = "failed" THEN "failed" ELSE "succeeded"

\* The status of a batch task when its run is over.
BatchStatus(t) ==
    IF t \in cancelFlags THEN "cancelled"
    ELSE IF \E i \in Slots : items[t][i] = "failed" THEN "failed"
    ELSE "succeeded"

BatchEnds(t) ==
    /\ t \in BatchTasks
    /\ cursor[t] > NItems
    /\ Conclude(t, BatchStatus(t))
    /\ cancelFlags' = cancelFlags \ {t}
    /\ UNCHANGED items

\* The only item takes the outcome of the run.  The cancel flag is neither read
\* nor dropped.
PlaybookEnds(t, outcome) ==
    /\ t \notin BatchTasks
    /\ Conclude(t, outcome)
    /\ items' = [items EXCEPT ![t][1] = outcome]
    /\ UNCHANGED cancelFlags

\* cancelTask: a queued task leaves the list and is cancelled on the spot.
CancelWaiting(t) ==
    /\ status[t] = "queued"
    /\ CancelQueued(t, connOf[t])
    /\ status' = [status EXCEPT ![t] = "cancelled"]
    /\ jobs' = Append(jobs, Persist(t))
    /\ UNCHANGED <<items, cursor, cancelFlags, firing, history, installs, events, failures,
                   serverVars>>

\* cancelTask for any other task the client knows, finished or lost in a crash
\* as well: the flag is raised.
RaiseFlag(t) ==
    /\ Up
    /\ connOf[t] # NoConn
    /\ ~(status[t] = "queued" /\ Waiting(t, connOf[t]))
    /\ cancelFlags' = cancelFlags \cup {t}
    /\ UNCHANGED <<queueVars, status, items, cursor, dbVars, serverVars>>

-----------------------------------------------------------------------------
(* The history: one holder of the database mutex at a time, in the order    *)
(* in which the updates were asked for.                                     *)

\* Seeded fault: counters move whatever the status of the task is.
HistoryWriteCountsAll ==
    /\ jobs # <<>>
    /\ Head(jobs).op = "persist"
    /\ LET t == Head(jobs).task IN
       /\ history' = [history EXCEPT ![t] = status[t]]
       /\ installs' = [installs EXCEPT ![t] = @ + Cardinality(SucceededItems(t))]
       /\ firing' = [firing EXCEPT ![t] = @ + 1]
    /\ jobs' = Tail(jobs)
    /\ UNCHANGED <<queueVars, taskVars, events, failures, serverVars>>

\* The update of persistTaskToHistory.  Its mutator reads the task as it is
\* when the mutex is granted, not as it was when the update was asked for.
HistoryWrite ==
    /\ jobs # <<>>
    /\ Head(jobs).op = "persist"
    /\ LET t == Head(jobs).task
           counts == t \in CountedTasks /\ status[t] = "succeeded" IN
       /\ history' = [history EXCEPT ![t] = status[t]]
       /\ installs' = [installs EXCEPT ![t] =
              @ + (IF counts THEN Cardinality(SucceededItems(t)) ELSE 0)]
       /\ firing' = [firing EXCEPT ![t] = @ + 1]
    /\ jobs' = Tail(jobs)
    /\ UNCHANGED <<queueVars, taskVars, events, failures, serverVars>>

\* Seeded fault: tasks that were waiting are forgotten.
HealOnlyRunning ==
    /\ jobs # <<>>
    /\ Head(jobs) = Heal
    /\ history' = [t \in Tasks |-> IF history[t] = "running" THEN "failed" ELSE history[t]]
    /\ server' = "healed"
    /\ jobs' = Tail(jobs)
    /\ UNCHANGED <<queueVars, taskVars, firing, installs, events, failures, crashes>>

\* The update of healTaskStates: what is recorded as queued or running is lost.
HealWrite ==
    /\ jobs # <<>>
    /\ Head(jobs) = Heal
    /\ history' = [t \in Tasks |->
           IF history[t] \in {"queued", "running"} THEN "failed" ELSE history[t]]
    /\ server' = "healed"
    /\ jobs' = Tail(jobs)
    /\ UNCHANGED <<queueVars, taskVars, firing, installs, events, failures, crashes>>

\* The update rejects.  Both callers swallow the error and go on.
UpdateFails ==
    /\ jobs # <<>>
    /\ failures < MaxFailures
    /\ failures' = failures + 1
    /\ IF Head(jobs).op = "persist"
       THEN /\ firing' = [firing EXCEPT ![Head(jobs).task] = @ + 1]
            /\ UNCHANGED server
       ELSE /\ server' = "healed"
            /\ UNCHANGED firing
    /\ jobs' = Tail(jobs)
    /\ UNCHANGED <<queueVars, taskVars, history, installs, events, crashes>>

\* After its update persistTaskToHistory reads task.status again and sends
\* task.completed or task.failed if the task is over.
FireWebhook(t) ==
    /\ firing[t] > 0
    /\ firing' = [firing EXCEPT ![t] = @ - 1]
    /\ events' = [events EXCEPT ![t] =
           @ + (IF status[t] \in {"succeeded", "failed"} THEN 1 ELSE 0)]
    /\ UNCHANGED <<queueVars, taskVars, jobs, history, installs, failures, serverVars>>

-----------------------------------------------------------------------------
RunStep(t) ==
    \/ ConnectSucceeds(t) \/ ConnectFails(t) \/ BatchEnds(t)
    \/ \E outcome \in {"succeeded", "failed"} : ItemEnds(t, outcome) \/ PlaybookEnds(t, outcome)

DatabaseStep == HistoryWrite \/ HealWrite \/ UpdateFails

Next ==
    \/ Boot \/ AskHeal \/ Crash \/ DatabaseStep
    \/ \E t \in Tasks :
          \/ \E c \in Conns : Submit(t, c)
          \/ RunStep(t)
          \/ CancelWaiting(t) \/ RaiseFlag(t)
          \/ FireWebhook(t)

\* Remote commands and connections time out, the mutex is FIFO and every
\* holder releases it in a finally, webhooks time out after 5 s, and start-up
\* goes on to the healing.  Nobody has to submit, cancel, crash or boot.
Fairness ==
    /\ \A t \in Tasks : WF_vars(RunStep(t)) /\ WF_vars(FireWebhook(t))
    /\ WF_vars(DatabaseStep)
    /\ WF_vars(AskHeal)

Safety == Init /\ [][Next]_vars
Spec == Safety /\ Fairness
-----------------------------------------------------------------------------

\* The status of a finished task tells what happened to its items: success
\* means every item of it was installed and none is left open or skipped,
\* failure means that some item failed, and a task cancelled while it waited
\* has not touched the machine.
OutcomeMatchesItems ==
    \A t \in BatchTasks :
        LET seen == {items[t][i] : i \in Slots} IN
        /\ status[t] = "succeeded" => seen = {"succeeded"}
        /\ status[t] = "failed" => "failed" \in seen /\ seen \subseteq {"succeeded", "failed"}
        /\ status[t] = "cancelled" => seen = {"pending"} \/ seen \cap {"pending", "running"} = {}

\* After the healing of a start, the history shows as queued or running only
\* tasks that live in this process (executor.ts:411, provided updates work).
NoStrandedHistory ==
    server = "healed" /\ failures = 0 =>
        \A t \in Tasks : history[t] \in {"queued", "running"} => status[t] # "none"

\* The history never claims a success that did not happen, not even across
\* crashes: a recorded success stands for a task that is over and succeeded,
\* and install counters move only for such tasks.
RecordedSuccessIsReal ==
    \A t \in Tasks :
        /\ history[t] = "succeeded" => status[t] \in {"succeeded", "none"}
        /\ installs[t] > 0 => t \in CountedTasks /\ history[t] = "succeeded"

\* A running batch task whose flag is up ends as cancelled.
CancelIsHonoured ==
    \A t \in BatchTasks :
        (status[t] = "running" /\ t \in cancelFlags) ~> status[t] \in {"cancelled", "none"}

-----------------------------------------------------------------------------
(* What comments of the code say and the code does not do.                  *)

\* "Increment catalog install counters for any successfully-installed catalog
\* items" (executor.ts:375): once a task is over and its last history write is
\* done, the counters have moved by one per installed item.  Every write that is
\* served after the success counts again, and a batch with a failed item counts
\* nothing.
InstallsMatchItems ==
    \A t \in CountedTasks :
        status[t] \in Terminal /\ Persist(t) \notin Range(jobs)
            => installs[t] = Cardinality(SucceededItems(t))

\* "Otherwise let the running task observe the flag" (executor.ts:281): a task
\* whose flag is up while it runs does not end as succeeded.  Playbook tasks
\* never look at it.
RunningTaskObservesFlag ==
    [][\A t \in Tasks :
          status[t] = "running" /\ t \in cancelFlags => status'[t] # "succeeded"]_vars

\* "Self-heal running/queued tasks from last crash/restart" (server.ts:60): the
\* healing concerns tasks of an earlier process.  It runs after app.listen and
\* also marks tasks of this process that are queued or running.
HealingSparesLiveTasks ==
    [][\A t \in Tasks :
          server = "healing" /\ server' = "healed" /\ status[t] \in {"queued", "running"}
              => history'[t] = history[t]]_vars
=============================================================================
