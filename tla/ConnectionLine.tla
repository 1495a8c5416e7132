--------------------------- MODULE ConnectionLine ---------------------------
(***************************************************************************)
(* What the task queue promises the rest of the API server, without saying *)
(* how: every connection has one line of tasks, whoever stands at the head *)
(* of the line is the one working on the machine, and the order of the     *)
(* line is the order of arrival.                                           *)
(*                                                                         *)
(* The rules are the header of src/apps/api/src/task-queue.ts (one running *)
(* task per connection, FIFO per connection, no coupling between different *)
(* connections).  TaskQueue implements this module.                        *)
(***************************************************************************)
EXTENDS Naturals, SequencesExt

CONSTANTS Conns,  \* saved connections (target machines)
          Tasks   \* task identities, each used at most once

VARIABLES line,    \* line[c]: tasks of c in order of arrival; the head is working
          arrived  \* the tasks that ever joined a line

absVars == <<line, arrived>>

InLine(t, c) == \E i \in 1..Len(line[c]) : line[c][i] = t

AbsInit ==
    /\ line = [c \in Conns |-> <<>>]
    /\ arrived = {}

\* A task joins the end of the line of its connection, once in its life.
Arrive(t, c) ==
    /\ t \notin arrived
    /\ arrived' = arrived \cup {t}
    /\ line' = [line EXCEPT ![c] = Append(@, t)]

\* The task at the head is done; the next in line, if any, works from now on.
Leave(c) ==
    /\ line[c] # <<>>
    /\ line' = [line EXCEPT ![c] = Tail(@)]
    /\ UNCHANGED arrived

\* A task that still waits gives up its place; the head cannot.
Withdraw(c, i) ==
    /\ i \in 2..Len(line[c])
    /\ line' = [line EXCEPT ![c] = RemoveAt(@, i)]
    /\ UNCHANGED arrived

AbsNext ==
    \E c \in Conns :
        \/ \E t \in Tasks : Arrive(t, c)
        \/ Leave(c)
        \/ \E i \in 2..Len(line[c]) : Withdraw(c, i)

AbsSpec == AbsInit /\ [][AbsNext]_absVars
=============================================================================
