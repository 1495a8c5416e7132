------------------------------ MODULE TaskQueue ------------------------------
(***************************************************************************)
(* src/apps/api/src/task-queue.ts: one waiting list and one drain loop per *)
(* connection.  The code runs on one event loop, so everything between two *)
(* awaits is one step here: enqueueTask together with the part of drain()  *)
(* it runs before the first await, and the part of drain() that runs from  *)
(* the moment an awaited run() settles until the next await.               *)
(***************************************************************************)
EXTENDS Naturals, FiniteSets, SequencesExt

CONSTANTS Conns,   \* connectionIds
          Tasks,   \* taskIds: registerBatchTask makes a fresh one per enqueue
          NoConn   \* the connection of a task that was not enqueued yet

ASSUME NoConnAssumption == NoConn \notin Conns

VARIABLES
    queues,           \* queues[c]: waiting taskIds, an absent list being <<>>
    draining,         \* draining[c]: a drain loop of c is between its ends
    active,           \* taskIds whose run() is awaited by a drain loop
    connOf,           \* QueueEntry.connectionId, NoConn before enqueueTask
    cancelledQueued   \* the set of the same name

queueVars == <<queues, draining, active, connOf, cancelledQueued>>

\* t stands on the waiting list of c.
Waiting(t, c) == \E i \in 1..Len(queues[c]) : queues[c][i] = t

-----------------------------------------------------------------------------
QueueInit ==
    /\ queues = [c \in Conns |-> <<>>]
    /\ draining = [c \in Conns |-> FALSE]
    /\ active = {}
    /\ connOf = [t \in Tasks |-> NoConn]
    /\ cancelledQueued = {}

\* The drain loop of c, from its head to its next await or to its end: shift
\* entries off the list, drop those flagged as cancelled, start the first
\* other one, or delete the list and stop.  settled is the run that the loop
\* was awaiting, if any.
Drain(c, list, settled) ==
    LET live  == {i \in 1..Len(list) : list[i] \notin cancelledQueued}
        first == CHOOSE i \in live : \A j \in live : i <= j
        skipped == {list[i] : i \in {k \in 1..Len(list) : \A j \in live : k < j}}
    IN  /\ cancelledQueued' = cancelledQueued \ skipped
        /\ \/ /\ live = {}
              /\ queues' = [queues EXCEPT ![c] = <<>>]
              /\ draining' = [draining EXCEPT ![c] = FALSE]
              /\ active' = active \ settled
           \/ /\ live # {}
              /\ queues' = [queues EXCEPT ![c] = SubSeq(list, first + 1, Len(list))]
              /\ draining' = [draining EXCEPT ![c] = TRUE]
              /\ active' = (active \ settled) \cup {list[first]}

\* positionAhead of enqueueTask: what the caller is told stands before it.
PositionAhead(c) == Len(queues[c]) + (IF draining[c] THEN 1 ELSE 0)

\* Seeded fault of enqueueTask: the newcomer is put at the front.
EnqueueAtFront(t, c) ==
    /\ connOf[t] = NoConn
    /\ connOf' = [connOf EXCEPT ![t] = c]
    /\ \/ /\ draining[c]
          /\ queues' = [queues EXCEPT ![c] = <<t>> \o @]
          /\ UNCHANGED <<draining, active, cancelledQueued>>
       \/ ~draining[c] /\ Drain(c, <<t>> \o queues[c], {})

\* enqueueTask: append, then drain, which returns at once if a loop is active.
Enqueue(t, c) ==
    /\ connOf[t] = NoConn
    /\ connOf' = [connOf EXCEPT ![t] = c]
    /\ LET list == Append(queues[c], t) IN
       \/ /\ draining[c]
          /\ queues' = [queues EXCEPT ![c] = list]
          /\ UNCHANGED <<draining, active, cancelledQueued>>
       \/ /\ ~draining[c]
          /\ Drain(c, list, {})

\* The awaited run() of t settles (a rejection is swallowed): the loop goes on.
RunSettles(t) ==
    /\ t \in active
    /\ Drain(connOf[t], queues[connOf[t]], {t})
    /\ UNCHANGED connOf

\* cancelQueuedTask, when the task is found waiting: splice and flag.
CancelQueued(t, c) ==
    /\ \E i \in 1..Len(queues[c]) :
          /\ queues[c][i] = t
          /\ \A j \in 1..(i - 1) : queues[c][j] # t
          /\ queues' = [queues EXCEPT ![c] = RemoveAt(@, i)]
    /\ cancelledQueued' = cancelledQueued \cup {t}
    /\ UNCHANGED <<draining, active, connOf>>

QueueNext ==
    \E t \in Tasks :
        \/ \E c \in Conns : Enqueue(t, c) \/ CancelQueued(t, c)
        \/ RunSettles(t)

QueueSafety == QueueInit /\ [][QueueNext]_queueVars

-----------------------------------------------------------------------------
QueueTypeOK ==
    /\ queues \in [Conns -> Seq(Tasks)]
    /\ draining \in [Conns -> BOOLEAN]
    /\ active \subseteq Tasks
    /\ connOf \in [Tasks -> Conns \cup {NoConn}]
    /\ cancelledQueued \subseteq Tasks

\* "One connectionId, one running task" (task-queue.ts:5): two runs that are
\* under way at the same time never touch the same machine.
MutualExclusion ==
    \A t, u \in active : connOf[t] = connOf[u] => t = u

\* No lost wake-up: an entry can only be left waiting while the drain loop of
\* its connection is there to take it, and a loop is only alive while it is
\* awaiting a run of its connection (so nothing waits for nobody).
NothingWaitsForNobody ==
    \A c \in Conns :
        /\ queues[c] # <<>> => draining[c]
        /\ draining[c] <=> \E t \in active : connOf[t] = c

\* Every waiting entry waits once, on the list of its own connection, and is
\* neither running nor flagged as cancelled.
EntriesAreOwned ==
    \A c \in Conns : \A i \in 1..Len(queues[c]) :
        /\ connOf[queues[c][i]] = c
        /\ queues[c][i] \notin active \cup cancelledQueued
        /\ \A j \in 1..Len(queues[c]) : queues[c][i] = queues[c][j] => i = j

\* A run that is under way belongs to a connection and was never cancelled
\* while queued: cancelQueuedTask and the drain loop never both get a task.
ActiveWasNotCancelled ==
    \A t \in active : connOf[t] \in Conns /\ t \notin cancelledQueued

\* What was cancelled while queued had been enqueued.
CancelledWasEnqueued == \A t \in cancelledQueued : connOf[t] \in Conns

\* The inductive invariant behind all of the above.
QueueInv ==
    /\ QueueTypeOK
    /\ MutualExclusion
    /\ NothingWaitsForNobody
    /\ EntriesAreOwned
    /\ ActiveWasNotCancelled
    /\ CancelledWasEnqueued

\* The head of the line is the run under way, the rest is the waiting list.
LineOf(c) ==
    IF draining[c] THEN <<CHOOSE t \in active : connOf[t] = c>> \o queues[c]
                   ELSE queues[c]
Enqueued == {t \in Tasks : connOf[t] # NoConn}

Line == INSTANCE ConnectionLine
            WITH line <- [c \in Conns |-> LineOf(c)], arrived <- Enqueued

\* The queue implements the FIFO line of ConnectionLine: tasks of a connection
\* run one at a time, in order of arrival, and only a waiting task can leave
\* the line from its middle (task-queue.ts:5-8).
ImplementsLine == Line!AbsSpec
=============================================================================
