--------------------------------- MODULE Cron ---------------------------------
(***************************************************************************)
(* src/apps/api/src/cron.ts: the search of nextRunAfter for the first      *)
(* minute after a given moment that a parsed cron expression matches.  It  *)
(* goes minute by minute but jumps over months, days and hours that cannot *)
(* match.  A minute is a natural number, the calendar gives its fields.    *)
(***************************************************************************)
EXTENDS Naturals

CONSTANTS
    LastMinute,  \* bound: minutes after it are never looked at
    Calendar,    \* Calendar[t]: the UTC fields of minute t
    NextHour, NextDay, NextMonth,  \* the first minute of the next one, as
                 \* setUTCHours, setUTCDate and setUTCMonth move the candidate
    Horizon,     \* minutes searched: 4 * 366 days
    Exprs,       \* parsed expressions: for every field the values it allows
    Froms        \* minutes that searches start from

Fields == {"minute", "hour", "dayOfMonth", "month", "dayOfWeek"}
Minutes == 0..LastMinute

\* Jump is the start of the next period of some fields: they keep their values
\* up to it.
KeepsUntil(Jump, fields) ==
    \A t \in Minutes :
        /\ Jump[t] \in Nat
        /\ Jump[t] > t
        /\ \A u \in Minutes : \A f \in fields :
               t <= u /\ u < Jump[t] => Calendar[u][f] = Calendar[t][f]

ASSUME CalendarAssumption ==
    /\ LastMinute \in Nat /\ Horizon \in Nat
    /\ Froms \subseteq {t \in Minutes : t + Horizon < LastMinute}
    /\ KeepsUntil(NextHour, {"hour"})
    /\ KeepsUntil(NextDay, {"dayOfMonth", "dayOfWeek"})
    /\ KeepsUntil(NextMonth, {"month"})

VARIABLES expr, from,  \* the arguments, from cut to its minute
          partial,     \* from had seconds, so the search lasts one minute more
          candidate,   \* the minute looked at
          phase        \* "searching", "found" (return candidate), "none" (null)

cronVars == <<expr, from, partial, candidate, phase>>

Allows(f, t) == Calendar[t][f] \in expr[f]
Matches(t) == \A f \in Fields : Allows(f, t)
Limit == from + Horizon + (IF partial THEN 1 ELSE 0)

-----------------------------------------------------------------------------
\* Seeded fault: the search starts at the minute of from itself.
CronInitAtFrom ==
    /\ expr \in Exprs
    /\ from \in Froms
    /\ partial \in BOOLEAN
    /\ candidate = from
    /\ phase = "searching"

CronInit ==
    /\ expr \in Exprs
    /\ from \in Froms
    /\ partial \in BOOLEAN
    /\ candidate = from + 1
    /\ phase = "searching"

CronRests ==
    /\ expr = [f \in Fields |-> {}]
    /\ from = 0 /\ candidate = 1
    /\ partial = FALSE
    /\ phase = "searching"

Looking == phase = "searching" /\ candidate < Limit

MoveTo(t) ==
    /\ candidate' = t
    /\ UNCHANGED <<expr, from, partial, phase>>

Found ==
    /\ Looking
    /\ Matches(candidate)
    /\ phase' = "found"
    /\ UNCHANGED <<expr, from, partial, candidate>>

SkipMonth ==
    /\ Looking
    /\ ~Allows("month", candidate)
    /\ MoveTo(NextMonth[candidate])

SkipDay ==
    /\ Looking
    /\ Allows("month", candidate)
    /\ ~(Allows("dayOfMonth", candidate) /\ Allows("dayOfWeek", candidate))
    /\ MoveTo(NextDay[candidate])

SkipHour ==
    /\ Looking
    /\ \A f \in {"month", "dayOfMonth", "dayOfWeek"} : Allows(f, candidate)
    /\ ~Allows("hour", candidate)
    /\ MoveTo(NextHour[candidate])

SkipMinute ==
    /\ Looking
    /\ \A f \in Fields \ {"minute"} : Allows(f, candidate)
    /\ ~Allows("minute", candidate)
    /\ MoveTo(candidate + 1)

GiveUp ==
    /\ phase = "searching"
    /\ candidate >= Limit
    /\ phase' = "none"
    /\ UNCHANGED <<expr, from, partial, candidate>>

CronNext == Found \/ SkipMonth \/ SkipDay \/ SkipHour \/ SkipMinute \/ GiveUp

CronSafety == CronInit /\ [][CronNext]_cronVars

-----------------------------------------------------------------------------
CronTypeOK ==
    /\ expr \in Exprs
    /\ from \in Froms
    /\ partial \in BOOLEAN
    /\ candidate \in Nat
    /\ phase \in {"searching", "found", "none"}

\* The invariant of the loop: no minute that matches was jumped over.
NothingSkipped ==
    /\ candidate > from
    /\ \A t \in Minutes : from < t /\ t < candidate /\ t < Limit => ~Matches(t)

\* nextRunAfter returns the first matching minute that comes after from, within
\* the horizon.
FoundIsNext ==
    phase = "found" =>
        /\ from < candidate /\ candidate < Limit
        /\ Matches(candidate)
        /\ \A t \in Minutes : from < t /\ t < candidate => ~Matches(t)

\* It returns null only if no minute of the horizon matches.
NoneMeansNone ==
    phase = "none" => \A t \in Minutes : from < t /\ t < Limit => ~Matches(t)

CronInv ==
    /\ CronTypeOK
    /\ NothingSkipped
    /\ FoundIsNext
    /\ NoneMeansNone
=============================================================================
