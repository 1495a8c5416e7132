----------------------------- MODULE EmailQueue -----------------------------
(***************************************************************************)
(* src/apps/api/src/email: mails wait in memory, one drain loop delivers   *)
(* them one after the other with up to MAX_ATTEMPTS attempts each, and the *)
(* log in the runtime document counts towards the rate limit of an hour.   *)
(***************************************************************************)
EXTENDS Naturals, Sequences, FiniteSets

CONSTANTS
    Mails,        \* mails asked for
    To,           \* To[m]: whom mail m is for
    Limit,        \* emailRatePerUserPerHour
    MaxMailAttempts,  \* MAX_ATTEMPTS
    MaxLog,       \* MAX_LOG_ENTRIES
    MaxLogFailures \* bound: updates of the log that are rejected

ASSUME EmailAssumption ==
    /\ {Limit, MaxMailAttempts, MaxLog, MaxLogFailures} \subseteq Nat
    /\ MaxMailAttempts > 0

VARIABLES
    mail,     \* mail[m]: "new", "asked", "queued", "current", "settled", "refused", "lost"
    queue,    \* the mails that wait, oldest first
    drain,    \* "off", "woken" (setImmediate), "on"
    attempts, \* of the current mail
    logging,  \* what deliverItem writes: "no", "sent" or "failed"
    hour,     \* the entries written to emailLog in the last hour: [to, ok]
    up, logFailures,
    sent,     \* ghost: sent[m], how often the transport took it
    unlogged, \* ghost: unlogged[m], how often the log write after that failed
    excused   \* ghost: recipients a mail was accepted for while the log lagged

emailVars == <<mail, queue, drain, attempts, logging, hour, up, logFailures, sent, unlogged, excused>>

Recipients == {To[m] : m \in Mails}
Current == {m \in Mails : mail[m] = "current"}
Delivered(t, entries) == Cardinality({i \in entries : hour[i].to = t /\ hour[i].ok})
OnTheWay(t) == {m \in Mails : To[m] = t /\ mail[m] \in {"asked", "queued", "current"}}

EmailInit ==
    /\ mail = [m \in Mails |-> "new"] /\ queue = <<>> /\ drain = "off" /\ attempts = 0
    /\ logging = "no" /\ hour = <<>> /\ up = TRUE /\ logFailures = 0
    /\ sent = [m \in Mails |-> 0] /\ unlogged = [m \in Mails |-> 0] /\ excused = {}

\* writeLog appends and keeps the newest MaxLog entries, so that these are what
\* is left of the hour.
Logged(t, ok) == hour' = Append(hour, [to |-> t, ok |-> ok])
Kept == {i \in DOMAIN hour : i > Len(hour) - MaxLog}

\* Seeded fault: the limit is one too high.
LimitOffByOne(m) == Delivered(To[m], Kept) <= Limit

\* evaluateRateLimit: successful sends of the hour, by user or by address.
RateAllows(m) == Delivered(To[m], Kept) < Limit

\* enqueueEmail reads the log ...
AskForMail(m) ==
    /\ up /\ mail[m] = "new"
    /\ IF RateAllows(m)
       THEN /\ mail' = [mail EXCEPT ![m] = "asked"]
            /\ excused' = excused \cup
                   (IF OnTheWay(To[m]) # {} \/ Len(hour) > MaxLog THEN {To[m]} ELSE {})
            /\ UNCHANGED hour
       ELSE /\ mail' = [mail EXCEPT ![m] = "refused"]
            /\ Logged(To[m], FALSE)
            /\ UNCHANGED excused
    /\ UNCHANGED <<queue, drain, attempts, logging, up, logFailures, sent, unlogged>>

\* ... and after that await queues the mail and sees that somebody drains.
QueueMail(m) ==
    /\ up /\ mail[m] = "asked"
    /\ mail' = [mail EXCEPT ![m] = "queued"]
    /\ queue' = Append(queue, m)
    /\ drain' = IF drain = "off" THEN "woken" ELSE drain
    /\ UNCHANGED <<attempts, logging, hour, up, logFailures, sent, unlogged, excused>>

\* drainOnce: the next mail, or the end of the loop.
DrainStep ==
    /\ up /\ drain # "off" /\ Current = {}
    /\ IF queue = <<>>
       THEN drain' = "off" /\ UNCHANGED <<mail, queue>>
       ELSE /\ drain' = "on"
            /\ mail' = [mail EXCEPT ![Head(queue)] = "current"]
            /\ queue' = Tail(queue)
    /\ attempts' = 0
    /\ UNCHANGED <<logging, hour, up, logFailures, sent, unlogged, excused>>

\* deliverItem, an attempt: the transport takes the mail, or it does not and
\* the loop sleeps and tries again or gives up.
Attempt(m, works) ==
    /\ up /\ m \in Current /\ logging = "no" /\ attempts < MaxMailAttempts
    /\ attempts' = attempts + 1
    /\ sent' = [sent EXCEPT ![m] = @ + IF works THEN 1 ELSE 0]
    /\ logging' = IF works THEN "sent" ELSE IF attempts' = MaxMailAttempts THEN "failed" ELSE "no"
    /\ UNCHANGED <<mail, queue, drain, hour, up, logFailures, unlogged, excused>>

\* Seeded fault: the return after a mail that was sent is missing.
WriteLogNoReturn(m) ==
    /\ up /\ m \in Current /\ logging # "no"
    /\ Logged(To[m], logging = "sent")
    /\ mail' = [mail EXCEPT ![m] = IF attempts < MaxMailAttempts THEN @ ELSE "settled"]
    /\ logging' = "no"
    /\ UNCHANGED <<queue, drain, attempts, up, logFailures, sent, unlogged, excused>>

WriteLog(m) ==
    /\ up /\ m \in Current /\ logging # "no"
    /\ Logged(To[m], logging = "sent")
    /\ mail' = [mail EXCEPT ![m] = "settled"]
    /\ logging' = "no"
    /\ UNCHANGED <<queue, drain, attempts, up, logFailures, sent, unlogged, excused>>

\* Seeded fault: a rejected log write ends the drain loop without its finally.
LogWriteLeavesLoop(m) ==
    /\ up /\ m \in Current /\ logging = "sent" /\ logFailures < MaxLogFailures
    /\ logFailures' = logFailures + 1
    /\ logging' = "no"
    /\ unlogged' = [unlogged EXCEPT ![m] = @ + 1]
    /\ attempts' = MaxMailAttempts
    /\ UNCHANGED <<mail, queue, drain, hour, up, sent, excused>>

\* The log write after a send is in the try of the send: when it is rejected
\* the mail counts as not sent.
LogWriteFails(m) ==
    /\ up /\ m \in Current /\ logging = "sent" /\ logFailures < MaxLogFailures
    /\ logFailures' = logFailures + 1
    /\ logging' = IF attempts = MaxMailAttempts THEN "failed" ELSE "no"
    /\ unlogged' = [unlogged EXCEPT ![m] = @ + 1]
    /\ UNCHANGED <<mail, queue, drain, attempts, hour, up, sent, excused>>

\* The process ends: by itself, or because the last log write of a mail is
\* rejected and nobody handles the rejection of drainOnce.  The mails go too.
ProcessEnds ==
    /\ up
    /\ up' = FALSE
    /\ mail' = [m \in Mails |-> IF mail[m] \in {"asked", "queued", "current"} THEN "lost" ELSE mail[m]]
    /\ queue' = <<>> /\ drain' = "off" /\ logging' = "no" /\ attempts' = 0
    /\ UNCHANGED <<hour, logFailures, sent, unlogged, excused>>

\* The oldest entry of the hour is an hour old.
EntryAges ==
    /\ hour # <<>>
    /\ hour' = Tail(hour)
    /\ UNCHANGED <<mail, queue, drain, attempts, logging, up, logFailures, sent, unlogged, excused>>

EmailNext ==
    \/ \E m \in Mails :
           \/ AskForMail(m) \/ QueueMail(m) \/ WriteLog(m) \/ LogWriteFails(m)
           \/ \E works \in BOOLEAN : Attempt(m, works)
    \/ DrainStep \/ ProcessEnds \/ EntryAges

-----------------------------------------------------------------------------
\* Every mail that enqueueEmail was asked for ends with an entry of the log,
\* refused, delivered or given up, whatever fails, or with the process.
EveryMailSettles ==
    \A m \in Mails : (mail[m] = "asked") ~> (mail[m] \in {"settled", "lost"})

\* A mail reaches its recipient again only for a log write that failed
\* (queue.ts:201), and never after it was settled.
SentAgainOnlyIfUnlogged ==
    \A m \in Mails : sent[m] <= unlogged[m] + IF mail[m] \in {"current", "settled", "lost"} THEN 1 ELSE 0

\* More mails than the limit reach a recipient within the hour only if one was
\* accepted while another was on its way (queue.ts:94), or after the log had
\* dropped entries of the hour to keep its size (queue.ts:248).
LimitHolds == \A t \in Recipients : Delivered(t, DOMAIN hour) > Limit => t \in excused
=============================================================================
