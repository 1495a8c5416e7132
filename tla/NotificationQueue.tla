-------------------------- MODULE NotificationQueue --------------------------
(***************************************************************************)
(* Notifications and catalog suggestions of runtime-store.ts: rows of the  *)
(* SQLite database that every request and every worker tick reach through  *)
(* one connection.  A transaction is the connection's, so a statement of   *)
(* somebody else that runs while it is open is rolled back with it.        *)
(***************************************************************************)
EXTENDS Naturals, Sequences, FiniteSets

CONSTANTS
    Notes,       \* notifications
    Ticks,     \* ticks of the notification worker that may overlap
    Admins,      \* requests that process the one suggestion
    MaxNoteTries,    \* attempts of a notification: five
    MaxSends,    \* bound: sends of a notification
    MaxFailed,   \* bound: attempts at a notification that fail
    NoBatch      \* what a worker between two ticks holds

ASSUME NotifyAssumption ==
    /\ {MaxNoteTries, MaxSends, MaxFailed} \subseteq Nat /\ MaxNoteTries > 0
    /\ Ticks \cap Admins = {} /\ "nobody" \notin Ticks \cup Admins

VARIABLES
    rows,      \* rows[n]: [status, attempts]
    audit,     \* admin_audit_logs of the suggestion: [old, new]
    suggestion,\* its status
    open,      \* who has BEGIN ... open, "nobody" if none
    committed,     \* what ROLLBACK goes back to
    batch,     \* batch[w]: what w selected and has not done, by notification
    step,      \* step[w], step[a]: how far the item or the request is
    sends,     \* ghost: how often the sender took n
    failed,    \* ghost: how often an attempt at n ended in ROLLBACK
    repeats,   \* ghost: sends of n not committed, or stale, or whose mark was overwritten
    changed    \* ghost: <<w, n>>: n was written since w selected it

noteVars == <<rows, audit, suggestion, open, committed, batch, step, sends, failed, repeats, changed>>
tables == <<rows, audit, suggestion>>

Idle == <<"idle">>
Row(s, k) == [status |-> s, attempts |-> k]

\* Seeded fault: whatever is not given up is due.
DueUnlessDead(n) == rows[n].status \notin {"none", "dead_letter"}

Due(n) == rows[n].status \in {"pending", "retry"}

Touch(n) == changed' = changed \cup {<<w, n>> : w \in Ticks}

NotifyInit ==
    /\ rows = [n \in Notes |-> Row("none", 0)]
    /\ audit = <<>> /\ suggestion = "pending"
    /\ open = "nobody" /\ committed = <<>>
    /\ batch = [w \in Ticks |-> NoBatch]
    /\ step = [x \in Ticks \cup Admins |-> Idle]
    /\ sends = [n \in Notes |-> 0] /\ failed = sends /\ repeats = sends
    /\ changed = {}

\* BEGIN IMMEDIATE fails while a transaction is open; ROLLBACK restores.
BeginTx(x) == open = "nobody" /\ open' = x /\ committed' = tables

\* Seeded fault: the audit log is written outside of the transaction.
RollbackKeepsAudit ==
    /\ rows' = committed[1] /\ suggestion' = committed[3] /\ UNCHANGED audit
    /\ open' = "nobody" /\ committed' = <<>>

CommitTx == open' = "nobody" /\ committed' = <<>>

RollbackTx ==
    /\ rows' = committed[1] /\ audit' = committed[2] /\ suggestion' = committed[3]
    /\ open' = "nobody" /\ committed' = <<>>

-----------------------------------------------------------------------------
\* SQLiteQueueProvider.enqueue.
EnqueueNotification(n) ==
    /\ rows[n].status = "none"
    /\ rows' = [rows EXCEPT ![n] = Row("pending", 0)]
    /\ UNCHANGED <<audit, suggestion, open, committed, batch, step, sends, failed, repeats, changed>>

\* processNextBatch: the rows that are due; a retry may or may not be yet.
SelectDue(w) ==
    /\ batch[w] = NoBatch
    /\ \E S \in SUBSET {n \in Notes : Due(n)} :
        /\ S # {}
        /\ batch' = [batch EXCEPT ![w] = [n \in S |-> rows[n].attempts]]
    /\ changed' = changed \ ({w} \X Notes)
    /\ UNCHANGED <<tables, open, committed, step, sends, failed, repeats>>

\* A refused BEGIN is outside the try and ends the whole batch.
BeginItem(w) ==
    /\ batch[w] # NoBatch /\ step[w] = Idle
    /\ \/ /\ open # "nobody"
          /\ batch' = [batch EXCEPT ![w] = NoBatch]
          /\ UNCHANGED <<open, committed, step>>
       \/ /\ BeginTx(w)
          /\ \E n \in DOMAIN batch[w] : step' = [step EXCEPT ![w] = <<"send", n>>]
          /\ UNCHANGED batch
    /\ UNCHANGED <<tables, sends, failed, repeats, changed>>

Rest(w, n) ==
    LET S == DOMAIN batch[w] \ {n} IN
    IF S = {} THEN NoBatch ELSE [m \in S |-> batch[w][m]]

\* Sent and marked as sent, in the transaction.
SendAndMark(w, n) ==
    /\ step[w] = <<"send", n>> /\ sends[n] < MaxSends
    /\ sends' = [sends EXCEPT ![n] = @ + 1]
    /\ rows' = [rows EXCEPT ![n].status = "sent"]
    /\ step' = [step EXCEPT ![w] = <<"commit", n>>]
    /\ repeats' = [repeats EXCEPT ![n] = @ + IF <<w, n>> \in changed THEN 1 ELSE 0]
    /\ UNCHANGED <<audit, suggestion, open, committed, batch, failed, changed>>

CommitItem(w, n) ==
    /\ step[w] = <<"commit", n>>
    /\ CommitTx
    /\ batch' = [batch EXCEPT ![w] = Rest(w, n)]
    /\ step' = [step EXCEPT ![w] = Idle]
    /\ Touch(n)
    /\ UNCHANGED <<tables, sends, failed, repeats>>

\* The sender throws, or the UPDATE or the COMMIT after it fails: ROLLBACK.
RollbackItem(w, n) ==
    /\ step[w] \in {<<"send", n>>, <<"commit", n>>}
    /\ failed[n] < MaxFailed
    /\ RollbackTx
    /\ failed' = [failed EXCEPT ![n] = @ + 1]
    /\ repeats' = [repeats EXCEPT ![n] = @ + IF step[w][1] = "commit" THEN 1 ELSE 0]
    /\ step' = [step EXCEPT ![w] = <<"record", n>>]
    /\ UNCHANGED <<batch, sends, changed>>

AfterFailure(k) == IF k >= MaxNoteTries THEN "dead_letter" ELSE "retry"

\* ... and then, outside of any transaction, the attempt counted from what was
\* selected, whatever the row says by now.
RecordFailure(w, n) ==
    LET k == batch[w][n] + 1 IN
    /\ step[w] = <<"record", n>>
    /\ rows' = [rows EXCEPT ![n] = Row(AfterFailure(k), k)]
    /\ repeats' = [repeats EXCEPT ![n] = @ + IF rows[n].status = "sent" THEN 1 ELSE 0]
    /\ batch' = [batch EXCEPT ![w] = Rest(w, n)]
    /\ step' = [step EXCEPT ![w] = Idle]
    /\ Touch(n)
    /\ UNCHANGED <<audit, suggestion, open, committed, sends, failed>>

-----------------------------------------------------------------------------
\* processSuggestion: BEGIN (refused while another transaction is open), the
\* row as it is, ...
BeginProcess(a) ==
    /\ step[a] = Idle
    /\ BeginTx(a)
    /\ step' = [step EXCEPT ![a] = <<"old", suggestion>>]
    /\ UNCHANGED <<tables, batch, sends, failed, repeats, changed>>

\* ... its new status and the audit entry, ...
WriteDecision(a, action) ==
    /\ step[a][1] = "old"
    /\ suggestion' = action
    /\ audit' = Append(audit, [old |-> step[a][2], new |-> action])
    /\ step' = [step EXCEPT ![a] = <<"written">>]
    /\ UNCHANGED <<rows, open, committed, batch, sends, failed, repeats, changed>>

\* ... COMMIT, or ROLLBACK if anything failed.
EndProcess(a) ==
    /\ step[a][1] \in {"old", "written"}
    /\ \/ step[a] = <<"written">> /\ CommitTx /\ UNCHANGED tables
       \/ RollbackTx
    /\ step' = [step EXCEPT ![a] = <<"done">>]
    /\ UNCHANGED <<batch, sends, failed, repeats, changed>>

-----------------------------------------------------------------------------
NotifyNext ==
    \/ \E n \in Notes : EnqueueNotification(n)
    \/ \E w \in Ticks :
           \/ SelectDue(w) \/ BeginItem(w)
           \/ \E n \in Notes :
                  SendAndMark(w, n) \/ CommitItem(w, n) \/ RollbackItem(w, n) \/ RecordFailure(w, n)
    \/ \E a \in Admins :
           \/ BeginProcess(a) \/ EndProcess(a)
           \/ \E action \in {"accepted", "rejected"} : WriteDecision(a, action)
-----------------------------------------------------------------------------
\* A notification is sent twice only if the transaction of the first time was
\* not committed (runtime-store.ts:1163), or if two ticks that overlap had
\* selected the same row, and the later one sent it or wrote its failure over it.
NotifiedAgainOnlyIfUncommitted ==
    \A n \in Notes : sends[n] <= 1 + repeats[n]

\* The audit log of a suggestion is a chain from "pending" to its status, each
\* entry starting where the one before it ended.
AuditChains ==
    /\ \A i \in DOMAIN audit : audit[i].old = IF i = 1 THEN "pending" ELSE audit[i - 1].new
    /\ suggestion = IF audit = <<>> THEN "pending" ELSE audit[Len(audit)].new
=============================================================================
