------------------------------- MODULE Scheduler -------------------------------
(***************************************************************************)
(* src/apps/api/src/scheduler.ts: every 30 s a tick reads the schedules    *)
(* that are due and fires them one after the other, with awaits in         *)
(* between.  Nothing keeps a tick from starting while an earlier one is    *)
(* still at work, users change schedules all the time (routes.ts), and the *)
(* server may die: a rejection that nobody handles in tick() or in         *)
(* initializeNextRunTimes() ends the process.                              *)
(*                                                                         *)
(* A cron expression is the set of the minutes it matches: Cron shows that *)
(* nextRunAfter returns the first of them after a moment.                  *)
(***************************************************************************)
EXTENDS Naturals, FiniteSets, FiniteSetsExt

CONSTANTS
    Schedules,   \* ids, numbered in the order of db.schedules
    Crons,       \* cron expressions: sets of minutes
    Ticks,       \* tick() calls that can be under way at the same time
    None,        \* no schedule with this id yet, or no next run
    Deleted,     \* the schedule with this id was deleted
    MaxTime,     \* bound: minutes that pass
    MaxRequests, \* bound: POST, PATCH and DELETE requests
    MaxCrashes,  \* bound: crashes
    MaxFailures  \* bound: calls of fireSchedule that reject

Clock == 0..MaxTime

ASSUME SchedulerAssumption ==
    /\ Schedules \subseteq Nat
    /\ {MaxTime, MaxRequests, MaxCrashes, MaxFailures} \subseteq Nat
    /\ Crons \subseteq SUBSET Clock
    /\ {None, Deleted} \cap Nat = {}

VARIABLES
    clock,
    book,        \* db.schedules: cron, enabled and nextRunAt of each schedule
    server, initPending,  \* initializeNextRunTimes is under way
    pc,          \* where each tick is
    due,         \* due[k]: what tick k has left to fire, as <<id, nextRunAt>>
    fires,       \* fires[s][m]: how often the tasks of slot m were enqueued
    overlapped,  \* a tick found something due while another was at work
    requests, crashes, failures

tickVars == <<pc, due>>
counters == <<requests, crashes, failures>>
vars == <<clock, book, server, initPending, tickVars, fires, overlapped, counters>>

Present(s) == book[s] \notin {None, Deleted}
NextAfter(cron, t) ==
    LET later == {m \in cron : m > t} IN IF later = {} THEN None ELSE Min(later)
IsDue(s) == Present(s) /\ book[s].enabled /\ book[s].next # None /\ book[s].next <= clock

\* A schedule as an earlier process may have left it: its next run is still to
\* come, or it was missed (at minute 0, where the model begins).
Stored == {sch \in [cron : Crons, enabled : BOOLEAN, next : Clock \cup {None}] :
               sch.next \in {NextAfter(sch.cron, 0)} \cup (sch.cron \cap {0})}

\* Schedules survive restarts: the process may start with some.
Init ==
    /\ clock = 0
    /\ book \in [Schedules -> Stored \cup {None}]
    /\ \A r, s \in Schedules : r < s /\ Present(s) => Present(r)
    /\ server = "up"
    /\ initPending = TRUE
    /\ pc = [k \in Ticks |-> "idle"]
    /\ due = [k \in Ticks |-> {}]
    /\ fires = [s \in Schedules |-> [m \in Clock |-> 0]]
    /\ overlapped = FALSE
    /\ requests = 0 /\ crashes = 0 /\ failures = 0

TimePasses ==
    /\ clock < MaxTime
    /\ clock' = clock + 1
    /\ UNCHANGED <<book, server, initPending, tickVars, fires, overlapped, counters>>

-----------------------------------------------------------------------------
(* Requests of users.                                                       *)

Create(s, cron, enabled) ==
    /\ server = "up"
    /\ requests < MaxRequests
    /\ requests' = requests + 1
    /\ book[s] = None
    /\ \A r \in Schedules : r < s => book[r] # None
    /\ book' = [book EXCEPT ![s] =
           [cron |-> cron, enabled |-> enabled, next |-> NextAfter(cron, clock)]]
    /\ UNCHANGED <<clock, server, initPending, tickVars, fires, overlapped, crashes, failures>>

\* PATCH with or without a cron; without one, nextRunAt stays.
Patch(s, cron, enabled) ==
    /\ server = "up"
    /\ Present(s)
    /\ requests < MaxRequests
    /\ requests' = requests + 1
    /\ book' = [book EXCEPT ![s] =
           IF cron = None
           THEN [@ EXCEPT !.enabled = enabled]
           ELSE [cron |-> cron, enabled |-> enabled, next |-> NextAfter(cron, clock)]]
    /\ UNCHANGED <<clock, server, initPending, tickVars, fires, overlapped, crashes, failures>>

Delete(s) ==
    /\ server = "up"
    /\ Present(s)
    /\ requests < MaxRequests
    /\ requests' = requests + 1
    /\ book' = [book EXCEPT ![s] = Deleted]
    /\ UNCHANGED <<clock, server, initPending, tickVars, fires, overlapped, crashes, failures>>

-----------------------------------------------------------------------------
(* The life of the process.                                                 *)

\* startScheduler begins initializeNextRunTimes and the first tick without
\* awaiting either: whichever of the two gets to the database first.
InitializeNextRuns ==
    /\ initPending
    /\ initPending' = FALSE
    /\ book' = [s \in Schedules |->
           IF Present(s) /\ book[s].enabled /\ (book[s].next = None \/ IsDue(s))
           THEN [book[s] EXCEPT !.next = NextAfter(book[s].cron, clock)]
           ELSE book[s]]
    /\ UNCHANGED <<clock, server, tickVars, fires, overlapped, counters>>

\* Killed, shut down (a tick is not waited for), or ended by a rejection that nobody
\* handles: of tick's own read or catch, or of initializeNextRunTimes.
Crash ==
    /\ server = "up"
    /\ crashes < MaxCrashes
    /\ crashes' = crashes + 1
    /\ server' = "down"
    /\ initPending' = FALSE
    /\ pc' = [k \in Ticks |-> "idle"]
    /\ due' = [k \in Ticks |-> {}]
    /\ UNCHANGED <<clock, book, fires, overlapped, requests, failures>>

Restart ==
    /\ server = "down"
    /\ server' = "up"
    /\ initPending' = TRUE
    /\ UNCHANGED <<clock, book, tickVars, fires, overlapped, counters>>

-----------------------------------------------------------------------------
(* A tick.                                                                  *)

Go(k, place) == pc' = [pc EXCEPT ![k] = place]
Current(k) == CHOOSE e \in due[k] : \A d \in due[k] : e[1] <= d[1]

TickReads(k) ==
    /\ server = "up"
    /\ pc[k] = "idle"
    /\ due' = [due EXCEPT ![k] = {<<s, book[s].next>> : s \in {r \in Schedules : IsDue(r)}}]
    /\ due'[k] # {}
    /\ Go(k, "next")
    /\ overlapped' = (overlapped \/ \E j \in Ticks : pc[j] # "idle")
    /\ UNCHANGED <<clock, book, server, initPending, fires, counters>>

\* fireSchedule up to its first update: there are no target connections; or the
\* tasks are enqueued; or the playbook is gone and there is nothing to enqueue.
FindsNoTargets(k) ==
    /\ pc[k] = "next"
    /\ Go(k, "skipping")
    /\ UNCHANGED <<clock, book, server, initPending, due, fires, overlapped, counters>>

FindsNoPlaybook(k) ==
    /\ pc[k] = "next"
    /\ Go(k, "advancing")
    /\ UNCHANGED <<clock, book, server, initPending, due, fires, overlapped, counters>>

Fire(k) ==
    /\ pc[k] = "next"
    /\ fires' = [fires EXCEPT ![Current(k)[1]][Current(k)[2]] = @ + 1]
    /\ Go(k, "advancing")
    /\ UNCHANGED <<clock, book, server, initPending, due, overlapped, counters>>

\* Seeded faults: the current minute may be the next run; nothing is written.
RescheduleInclusive(s, slot) ==
    book' = IF Present(s)
            THEN [book EXCEPT ![s].next = IF clock \in book[s].cron THEN clock
                                          ELSE NextAfter(book[s].cron, clock)]
            ELSE book

RescheduleNot(s, slot) == UNCHANGED book

\* The update after a schedule was served: if it still exists, the next run is
\* computed from its present expression and the present moment.
Reschedule(s, slot) ==
    book' = IF Present(s) THEN [book EXCEPT ![s].next = NextAfter(book[s].cron, clock)] ELSE book

RescheduleCurrent(k) == Reschedule(Current(k)[1], Current(k)[2])

\* The loop goes on with what is left.
Proceed(k) ==
    /\ due' = [due EXCEPT ![k] = @ \ {Current(k)}]
    /\ Go(k, IF due'[k] = {} THEN "idle" ELSE "next")

Advance(k) ==
    /\ pc[k] = "advancing"
    /\ RescheduleCurrent(k)
    /\ Go(k, "announcing")
    /\ UNCHANGED <<clock, server, initPending, due, fires, overlapped, counters>>

\* The updates after which the loop goes on: lastStatus is "skipped" or, in the
\* catch, "failed".
SkipOrRecover(k) ==
    /\ pc[k] \in {"skipping", "failing"}
    /\ RescheduleCurrent(k)
    /\ Proceed(k)
    /\ UNCHANGED <<clock, server, initPending, fires, overlapped, counters>>

\* fireWebhooks resolves.
Announced(k) ==
    /\ pc[k] = "announcing"
    /\ Proceed(k)
    /\ UNCHANGED <<clock, book, server, initPending, fires, overlapped, counters>>

\* fireSchedule rejects, in whichever await.
FireScheduleRejects(k) ==
    /\ pc[k] \in {"next", "advancing", "skipping", "announcing"}
    /\ failures < MaxFailures
    /\ failures' = failures + 1
    /\ Go(k, "failing")
    /\ UNCHANGED <<clock, book, server, initPending, due, fires, overlapped, requests, crashes>>

-----------------------------------------------------------------------------
TickStep(k) ==
    \/ FindsNoTargets(k) \/ FindsNoPlaybook(k) \/ Fire(k)
    \/ Advance(k) \/ SkipOrRecover(k) \/ Announced(k)

Request(s) ==
    \/ \E cron \in Crons, enabled \in BOOLEAN : Create(s, cron, enabled)
    \/ \E cron \in Crons \cup {None}, enabled \in BOOLEAN : Patch(s, cron, enabled)
    \/ Delete(s)

Next ==
    \/ TimePasses
    \/ \E s \in Schedules : Request(s)
    \/ InitializeNextRuns \/ Crash \/ Restart
    \/ \E k \in Ticks : TickReads(k) \/ TickStep(k) \/ FireScheduleRejects(k)

\* The interval timer goes off for ever and whatever a tick awaits settles: the
\* mutex is released, a webhook is aborted after 5 s.
Fairness ==
    /\ \A k \in Ticks : WF_vars(TickStep(k))
    /\ WF_vars(\E k \in Ticks : TickReads(k))

Safety == Init /\ [][Next]_vars
Spec == Safety /\ Fairness
-----------------------------------------------------------------------------

\* A slot is fired at most once, whatever is edited, skipped or fails, as long as
\* ticks do not overlap and the process does not die between firing and update.
SlotFiresOnce ==
    ~overlapped /\ crashes = 0 =>
        \A s \in Schedules : \A m \in Clock : fires[s][m] <= 1

\* A schedule that is due does not stay so: it is served, unless it is switched
\* off or deleted or the process dies first.
DueIsServed == \A s \in Schedules : IsDue(s) ~> (~IsDue(s) \/ server = "down")

-----------------------------------------------------------------------------
\* "Disabled schedules don't fire" (runtime-store.ts:509).  A tick that has read
\* the schedule fires it all the same, when it gets to it.
DisabledNeverFires ==
    [][\A s \in Schedules : fires'[s] # fires[s] => Present(s) /\ book[s].enabled]_vars
=============================================================================
