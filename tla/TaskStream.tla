----------------------------- MODULE TaskStream -----------------------------
(***************************************************************************)
(* The tasks of one connection as the page that started them sees them:    *)
(* executor.ts tells the subscribers of a task each change, the stream     *)
(* route passes it on, and the market page (MarketPage.tsx, streamTask of  *)
(* api.ts) frees its button and chooses what to cancel by what arrives.    *)
(***************************************************************************)
EXTENDS Naturals, Sequences, SequencesExt

CONSTANTS
    Jobs,        \* ids of tasks
    NoJob,
    MaxPresses   \* bound: tasks started, cancelled, pages left, restarts

ASSUME StreamAssumption == NoJob \notin Jobs

VARIABLES
    inLine,      \* the queue of the connection; its head runs
    job,         \* taskStore: id -> [status, pos], pos is queuePosition
    stops,       \* cancelFlags
    subs,        \* taskSubscribers: ids with the one subscription of the page
    stream,      \* id -> state of the EventSource
    wire,        \* id -> updates written and not yet delivered
    seen,        \* id -> the last update delivered
    replies,     \* answers to started tasks under way: [job, batch, visit]
    tab,         \* the page: [visit, busy (batchInstalling), batch, active (activeTaskId)]
    presses,
    cutOff       \* ghost: ids whose stream was cut before its end

streamVars == <<inLine, job, stops, subs, stream, wire, seen, replies, tab, presses, cutOff>>

Ended == {"succeeded", "failed", "cancelled"}
Unseen == [status |-> "unseen", pos |-> 0]
Forgotten == [status |-> "forgotten", pos |-> 0]
Running == [status |-> "running", pos |-> 0]
Fresh(visit) == [visit |-> visit, busy |-> FALSE, batch |-> NoJob, active |-> NoJob]

StreamInit ==
    /\ inLine = <<>> /\ stops = {} /\ subs = {} /\ replies = {} /\ presses = 0 /\ cutOff = {}
    /\ job = [j \in Jobs |-> Unseen] /\ seen = [j \in Jobs |-> Unseen]
    /\ stream = [j \in Jobs |-> "none"] /\ wire = [j \in Jobs |-> <<>>]
    /\ tab = Fresh(0)

Press == presses < MaxPresses /\ presses' = presses + 1

\* notifySubscribers: every change is written to the stream, which ends, and
\* its subscription with it, when the task has.
Tell(updates) ==
    /\ job' = [j \in Jobs |-> IF j \in DOMAIN updates THEN updates[j] ELSE job[j]]
    /\ wire' = [j \in Jobs |-> IF j \in subs \cap DOMAIN updates THEN Append(wire[j], updates[j]) ELSE wire[j]]
    /\ subs' = {j \in subs : j \notin DOMAIN updates \/ updates[j].status \notin Ended}

Same == UNCHANGED <<stream, seen, replies, tab, cutOff>>

\* POST batch-execute (batch) or execute: the task is registered, put in line,
\* begun if it is first, and only then is its id answered.
StartJob(j, batch) ==
    /\ Press /\ job[j] = Unseen
    /\ ~tab.busy \/ ~batch
    /\ ~\E r \in replies : r.visit = tab.visit /\ r.batch = batch
    /\ inLine' = Append(inLine, j)
    /\ job' = [job EXCEPT ![j] = IF inLine = <<>> THEN Running ELSE [status |-> "queued", pos |-> Len(inLine)]]
    /\ replies' = replies \cup {[job |-> j, batch |-> batch, visit |-> tab.visit]}
    /\ tab' = IF batch THEN [tab EXCEPT !.busy = TRUE, !.batch = NoJob] ELSE tab
    /\ UNCHANGED <<stops, subs, stream, wire, seen, cutOff>>

\* The page learns the id and opens the stream, also when it was left since.
ReplyArrives(r) ==
    /\ replies' = replies \ {r}
    /\ stream' = [stream EXCEPT ![r.job] = "asked"]
    /\ tab' = IF r.visit # tab.visit THEN tab
              ELSE [tab EXCEPT !.active = r.job, !.batch = IF r.batch THEN r.job ELSE @]
    /\ UNCHANGED <<inLine, job, stops, subs, wire, seen, presses, cutOff>>

\* The task goes on, but the page shows an error.
ReplyLost(r) ==
    /\ replies' = replies \ {r}
    /\ tab' = IF r.visit = tab.visit /\ r.batch THEN [tab EXCEPT !.busy = FALSE] ELSE tab
    /\ UNCHANGED <<inLine, job, stops, subs, stream, wire, seen, presses, cutOff>>

\* GET tasks/:id/stream: the task as it is now, and with nothing in between a
\* subscription to its changes.
StreamOpens(j) ==
    /\ stream[j] = "asked" /\ job[j] # Forgotten
    /\ stream' = [stream EXCEPT ![j] = "open"]
    /\ wire' = [wire EXCEPT ![j] = <<job[j]>>]
    /\ subs' = IF job[j].status \in Ended THEN subs ELSE subs \cup {j}
    /\ UNCHANGED <<inLine, job, stops, seen, replies, tab, presses, cutOff>>

\* onUpdate: the first final status closes the stream; that of a batch frees
\* the button, if the page is still the one that started it.
Delivered(j) ==
    LET update == Head(wire[j]) IN
    /\ stream[j] = "open" /\ wire[j] # <<>>
    /\ wire' = [wire EXCEPT ![j] = Tail(@)]
    /\ seen' = [seen EXCEPT ![j] = update]
    /\ stream' = [stream EXCEPT ![j] = IF update.status \in Ended THEN "over" ELSE "open"]
    /\ tab' = IF update.status \in Ended /\ tab.batch = j THEN [tab EXCEPT !.busy = FALSE] ELSE tab
    /\ UNCHANGED <<inLine, job, stops, subs, replies, presses, cutOff>>

\* onerror closes the stream for good, also one that was refused because the
\* server does not know the task: what was on the way is lost.
StreamCut(j) ==
    /\ stream[j] \in {"asked", "open"}
    /\ stream' = [stream EXCEPT ![j] = "over"]
    /\ wire' = [wire EXCEPT ![j] = <<>>]
    /\ subs' = subs \ {j} /\ cutOff' = cutOff \cup {j}
    /\ UNCHANGED <<inLine, job, stops, seen, replies, tab, presses>>

-----------------------------------------------------------------------------
\* onItemProgress, onTaskProgress: an update without a change of status.
JobGoesOn ==
    /\ Press /\ inLine # <<>>
    /\ Tell([j \in {Head(inLine)} |-> Running])
    /\ UNCHANGED <<inLine, stops>> /\ Same

\* The head of the line ends, and the next begins (onStart).
JobEnds(result) ==
    LET j == Head(inLine)
        following == IF Len(inLine) > 1 THEN {inLine[2]} ELSE {}
        final == [status |-> IF j \in stops THEN "cancelled" ELSE result, pos |-> 0]
    IN  /\ inLine # <<>>
        /\ Tell([k \in {j} \cup following |-> IF k = j THEN final ELSE Running])
        /\ inLine' = Tail(inLine) /\ stops' = stops \ {j}
        /\ UNCHANGED presses /\ Same

\* Seeded fault: a task taken out of the line is not announced.
CancelSilently(j) ==
    IF job[j].status = "queued"
    THEN /\ inLine' = Remove(inLine, j)
         /\ job' = [job EXCEPT ![j] = [status |-> "cancelled", pos |-> 0]]
         /\ UNCHANGED <<stops, subs, wire>>
    ELSE stops' = stops \cup {j} /\ UNCHANGED <<inLine, job, subs, wire>>

\* cancelTask: a task that waits is taken out of the line, any other is asked
\* to stop by its flag, known or not, over or not.
CancelJob(j) ==
    IF job[j].status = "queued" /\ j \in ToSet(inLine)
    THEN /\ \E p \in DOMAIN inLine : inLine[p] = j /\ inLine' = RemoveAt(inLine, p)
         /\ Tell([k \in {j} |-> [status |-> "cancelled", pos |-> 0]])
         /\ UNCHANGED stops
    ELSE stops' = stops \cup {j} /\ UNCHANGED <<inLine, job, subs, wire>>

\* handleCancelBatch: the button is there while a batch is being installed,
\* and cancels the task the page started last.
PressCancel ==
    /\ Press /\ tab.busy /\ tab.active # NoJob
    /\ CancelJob(tab.active) /\ Same

\* Another page is shown: the state of this one is gone, its streams are not.
LeavePage ==
    /\ Press /\ tab' = Fresh(tab.visit + 1)
    /\ UNCHANGED <<inLine, job, stops, subs, stream, wire, seen, replies, cutOff>>

\* The server starts again: tasks and subscriptions were in memory.
ServerRestarts ==
    /\ Press
    /\ inLine' = <<>> /\ stops' = {} /\ subs' = {}
    /\ job' = [j \in Jobs |-> IF job[j] = Unseen THEN Unseen ELSE Forgotten]
    /\ stream' = [j \in Jobs |-> IF stream[j] = "open" THEN "over" ELSE stream[j]]
    /\ wire' = [j \in Jobs |-> <<>>]
    /\ cutOff' = cutOff \cup {j \in Jobs : stream[j] = "open"}
    /\ UNCHANGED <<seen, replies, tab>>

StreamNext ==
    \/ \E j \in Jobs : \E batch \in BOOLEAN : StartJob(j, batch)
    \/ \E r \in replies : ReplyArrives(r) \/ ReplyLost(r)
    \/ \E j \in Jobs : StreamOpens(j) \/ Delivered(j) \/ StreamCut(j)
    \/ JobGoesOn \/ \E result \in {"succeeded", "failed"} : JobEnds(result)
    \/ PressCancel \/ LeavePage \/ ServerRestarts

-----------------------------------------------------------------------------
\* A page whose stream was not cut has been told what the server knows once
\* all that is on the way has arrived, whatever task changed while the stream
\* was being opened; a task in line is never nearer to its turn than the page
\* says is possible; the button of the batch is taken exactly until the end of
\* the batch was seen, or for good if the stream was cut before.
PageFollowsItsTasks ==
    /\ \A j \in Jobs : stream[j] \in {"open", "over"} /\ j \notin cutOff /\ wire[j] = <<>> =>
           seen[j] = job[j] \/ (job[j] = Forgotten /\ seen[j].status \in Ended)
    /\ \A j \in ToSet(inLine) : job[j].status = "queued" =>
           \E n \in 1..Len(inLine) : inLine[n] = j /\ n - 1 <= job[j].pos
    /\ tab.busy =>
           \/ \E r \in replies : r.batch /\ r.visit = tab.visit
           \/ tab.batch \in cutOff
           \/ tab.batch # NoJob /\ stream[tab.batch] \in {"asked", "open"}
    /\ ~tab.busy /\ tab.batch # NoJob => seen[tab.batch].status \in Ended
=============================================================================
