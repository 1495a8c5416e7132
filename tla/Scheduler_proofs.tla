---------------------------- MODULE Scheduler_proofs ----------------------------
(***************************************************************************)
(* The scheduler and the search for its next run.                          *)
(*                                                                         *)
(* Cron is right for every calendar in which the jumps of nextRunAfter     *)
(* keep the fields they look at: what it returns is the first matching     *)
(* minute after from, and null means that no minute of the horizon         *)
(* matches.  The heart is the loop invariant NothingSkipped.               *)
(*                                                                         *)
(* Scheduler fires a slot at most once, for any number of schedules,       *)
(* ticks, edits and rejections, while no two ticks overlap and the process *)
(* does not die.  The heart is FiredIsPast: a slot that was fired lies     *)
(* before the schedule's next run, or the tick that fired it has still to  *)
(* move that on.                                                           *)
(***************************************************************************)
EXTENDS Scheduler, Cron, TLAPS, Induction

\* A jump of nextRunAfter is safe: if a field that keeps its value up to the end
\* of the jump is not allowed at the candidate, no minute of the jump matches.
LEMMA JumpSkipsNoMatch ==
    ASSUME NEW Jump, NEW fields \in SUBSET Fields, KeepsUntil(Jump, fields),
           NEW f \in fields,
           candidate \in Minutes, ~Allows(f, candidate)
    PROVE  /\ Jump[candidate] \in Nat
           /\ Jump[candidate] > candidate
           /\ \A t \in Minutes : candidate <= t /\ t < Jump[candidate] => ~Matches(t)
<1>1. /\ Jump[candidate] \in Nat
      /\ Jump[candidate] > candidate
  BY DEF KeepsUntil
<1>2. ASSUME NEW t \in Minutes, candidate <= t, t < Jump[candidate]
      PROVE  ~Matches(t)
  <2>1. Calendar[t][f] = Calendar[candidate][f]
    BY <1>2 DEF KeepsUntil
  <2>2. ~Allows(f, t)
    BY <2>1 DEF Allows
  <2> QED
    BY <2>2 DEF Matches
<1> QED
  BY <1>1, <1>2

\* The limit of a search lies within the minutes the calendar knows.
LEMMA LimitIsKnown ==
    ASSUME CronTypeOK
    PROVE  /\ from \in Minutes
           /\ Limit \in Minutes
           /\ candidate < Limit => candidate \in Minutes
BY CalendarAssumption, Z3 DEF CronTypeOK, Limit, Minutes

\* Moving the candidate over minutes that do not match keeps the invariant.
LEMMA MoveKeepsInv ==
    ASSUME CronInv, Looking, NEW t \in Nat, t > candidate,
           \A u \in Minutes : candidate <= u /\ u < t => ~Matches(u),
           MoveTo(t)
    PROVE  CronInv'
<1> USE DEF CronInv, CronTypeOK, MoveTo, Looking
<1>1. \A u : Matches(u)' = Matches(u)
  BY DEF Matches, Allows
<1>2. Limit' = Limit
  BY DEF Limit
<1>3. CronTypeOK'
  OBVIOUS
<1>4. NothingSkipped'
  <2>1. candidate \in Nat /\ from \in Nat /\ candidate' = t /\ from' = from
    BY LimitIsKnown DEF Minutes
  <2>2. t > from
    BY <2>1 DEF NothingSkipped
  <2>3. ASSUME NEW u \in Minutes, from < u, u < t, u < Limit
        PROVE  ~Matches(u)
    <3>1. CASE u < candidate
      BY <2>3, <3>1 DEF NothingSkipped
    <3>2. CASE candidate <= u
      BY <2>3, <3>2
    <3> QED
      BY <2>1, <3>1, <3>2 DEF Minutes
  <2> QED
    BY <1>1, <1>2, <2>1, <2>2, <2>3 DEF NothingSkipped
<1>5. FoundIsNext' /\ NoneMeansNone'
  BY DEF FoundIsNext, NoneMeansNone
<1> QED
  BY <1>3, <1>4, <1>5

\* The invariant holds when the loop is entered.
LEMMA InitCronInv == CronInit => CronInv
<1> SUFFICES ASSUME CronInit PROVE CronInv
  OBVIOUS
<1>1. from \in Nat
  BY CalendarAssumption DEF CronInit, Minutes
<1> QED
  BY <1>1 DEF CronInit, CronInv, CronTypeOK, NothingSkipped, FoundIsNext, NoneMeansNone, Minutes

\* Every step of the loop keeps it.
LEMMA CronStepKeepsInv == CronInv /\ [CronNext]_cronVars => CronInv'
<1> SUFFICES ASSUME CronInv, [CronNext]_cronVars
             PROVE  CronInv'
  OBVIOUS
<1> USE DEF CronInv
<1>1. Looking => candidate \in Minutes
  BY LimitIsKnown DEF Looking
<1>2. CASE SkipMonth
  BY <1>1, <1>2, CalendarAssumption, MoveKeepsInv,
     JumpSkipsNoMatch DEF SkipMonth, Fields
<1>3. CASE SkipDay
  <2>1. PICK f \in {"dayOfMonth", "dayOfWeek"} : ~Allows(f, candidate)
    BY <1>3 DEF SkipDay
  <2> QED
    BY <1>1, <1>3, <2>1, CalendarAssumption, MoveKeepsInv,
       JumpSkipsNoMatch DEF SkipDay, Fields
<1>4. CASE SkipHour
  BY <1>1, <1>4, CalendarAssumption, MoveKeepsInv, JumpSkipsNoMatch DEF SkipHour, Fields
<1>5. CASE SkipMinute
  <2>1. candidate \in Nat
    BY DEF CronTypeOK
  <2>2. ~Matches(candidate)
    BY <1>5 DEF SkipMinute, Matches, Fields
  <2>3. \A u \in Minutes : candidate <= u /\ u < candidate + 1 => ~Matches(u)
    BY <2>1, <2>2 DEF Minutes
  <2> QED
    BY <1>5, <2>1, <2>3, MoveKeepsInv DEF SkipMinute
<1>6. CASE Found
  <2>1. Matches(candidate)' /\ candidate' = candidate
    BY <1>6 DEF Found, Matches, Allows
  <2>2. \A u : Matches(u)' = Matches(u)
    BY <1>6 DEF Found, Matches, Allows
  <2>3. Limit' = Limit /\ from' = from
    BY <1>6 DEF Found, Limit
  <2>4. CronTypeOK'
    BY <1>6 DEF Found, CronTypeOK
  <2>5. NothingSkipped'
    BY <2>1, <2>2, <2>3 DEF NothingSkipped
  <2>6. FoundIsNext'
    <3>1. candidate < Limit
      BY <1>6 DEF Found, Looking
    <3>2. ASSUME NEW u \in Minutes, from < u, u < candidate PROVE u < Limit
      BY <3>1, <3>2, LimitIsKnown DEF Minutes, CronTypeOK
    <3> QED
      BY <2>1, <2>2, <2>3, <3>1, <3>2 DEF FoundIsNext, NothingSkipped
  <2>7. NoneMeansNone'
    BY <1>6 DEF Found, NoneMeansNone
  <2> QED
    BY <2>4, <2>5, <2>6, <2>7
<1>7. CASE GiveUp
  <2>1. candidate' = candidate /\ from' = from /\ phase' = "none"
    BY <1>7 DEF GiveUp
  <2>2. \A u : Matches(u)' = Matches(u)
    BY <1>7 DEF GiveUp, Matches, Allows
  <2>3. Limit' = Limit
    BY <1>7 DEF GiveUp, Limit
  <2>4. CronTypeOK'
    BY <1>7 DEF GiveUp, CronTypeOK
  <2>5. NothingSkipped' /\ FoundIsNext'
    BY <2>1, <2>2, <2>3 DEF NothingSkipped, FoundIsNext
  <2>6. NoneMeansNone'
    <3>1. ASSUME NEW u \in Minutes, from < u, u < Limit PROVE u < candidate
      BY <1>7, <3>1, LimitIsKnown DEF GiveUp, Minutes, CronTypeOK
    <3> QED
      BY <2>1, <2>2, <2>3, <3>1 DEF NoneMeansNone, NothingSkipped
  <2> QED
    BY <2>4, <2>5, <2>6
<1>8. CASE UNCHANGED cronVars
  BY <1>8 DEF cronVars, CronTypeOK, NothingSkipped, FoundIsNext, NoneMeansNone, Matches, Allows,
              Limit
<1> QED
  BY <1>2, <1>3, <1>4, <1>5, <1>6, <1>7, <1>8 DEF CronNext

\* The loop invariant of nextRunAfter, for every calendar and expression.
THEOREM CronInvariance == CronSafety => []CronInv
<1> QED
  BY InitCronInv, CronStepKeepsInv, PTL DEF CronSafety

\* What nextRunAfter returns is the first matching minute after from.
THEOREM CronReturnsNext == CronSafety => []FoundIsNext
<1>1. CronInv => FoundIsNext
  BY DEF CronInv
<1> QED
  BY CronInvariance, <1>1, PTL

\* It returns null only when no minute of the horizon matches.
THEOREM CronNullMeansNone == CronSafety => []NoneMeansNone
<1>1. CronInv => NoneMeansNone
  BY DEF CronInv
<1> QED
  BY CronInvariance, <1>1, PTL

-----------------------------------------------------------------------------
(* The scheduler.                                                           *)

Places == {"idle", "next", "skipping", "advancing", "announcing", "failing"}
Entries == [cron : Crons, enabled : BOOLEAN, next : Clock \cup {None}]

SchedulerTypeOK ==
    /\ clock \in Clock
    /\ book \in [Schedules -> Entries \cup {None, Deleted}]
    /\ pc \in [Ticks -> Places]
    /\ due \in [Ticks -> SUBSET (Schedules \X Clock)]
    /\ fires \in [Schedules -> [Clock -> Nat]]
    /\ overlapped \in BOOLEAN
    /\ crashes \in Nat

\* What is due of a tick: missed minutes, one for each schedule.
DueIsPast ==
    \A k \in Ticks :
        /\ pc[k] = "idle" <=> due[k] = {}
        /\ \A e \in due[k] : e[2] <= clock
        /\ \A e, d \in due[k] : e[1] = d[1] => e = d

\* No tick found another at work and the process never died.
Calm == ~overlapped /\ crashes = 0

OneTickAtWork == \A j, k \in Ticks : pc[j] # "idle" /\ pc[k] # "idle" => j = k

FiredOnce == \A s \in Schedules : \A m \in Clock : fires[s][m] <= 1

\* The tick has fired its current slot or given up on it, and has still to move the
\* schedule's next run on.
Unsettled(k, s, m) == pc[k] \in {"advancing", "failing"} /\ Current(k) = <<s, m>>

\* The next run of a schedule lies after every slot that was fired, but for the slot
\* that a tick has just fired.
FiredIsPast ==
    \A s \in Schedules : \A m \in Clock :
        fires[s][m] # 0 =>
            /\ m <= clock
            /\ \/ ~Present(s)
               \/ book[s].next = None
               \/ book[s].next > m
               \/ \E k \in Ticks : Unsettled(k, s, m)

\* What a tick has still to fire was never fired.
DueIsUnfired ==
    \A k \in Ticks : \A e \in due[k] :
        pc[k] = "next" \/ e # Current(k) => fires[e[1]][e[2]] = 0

CalmInv == OneTickAtWork /\ FiredOnce /\ FiredIsPast /\ DueIsUnfired

SlotInv ==
    /\ SchedulerTypeOK
    /\ DueIsPast
    /\ Calm => CalmInv

-----------------------------------------------------------------------------
\* The next run of a schedule is later than the moment it is computed at.
LEMMA NextAfterIsLater ==
    ASSUME NEW cron \in Crons, NEW t \in Nat
    PROVE  /\ NextAfter(cron, t) \in Clock \cup {None}
           /\ NextAfter(cron, t) # None => NextAfter(cron, t) > t
<1> DEFINE later == {m \in cron : m > t}
<1>1. later \subseteq Clock /\ later \subseteq Nat
  <2>1. cron \subseteq Clock
    BY SchedulerAssumption, Zenon
  <2>2. Clock \subseteq Nat
    BY DEF Clock
  <2> QED
    BY <2>1, <2>2
<1>2. CASE later = {}
  BY <1>2 DEF NextAfter
<1>3. CASE later # {}
  <2>1. \E x \in later : \A y \in later : x <= y
    BY <1>1, <1>3, LeastNatural
  <2>2. Min(later) \in later
    BY <2>1 DEF Min
  <2>3. NextAfter(cron, t) = Min(later)
    BY <1>3 DEF NextAfter
  <2>4. Min(later) \in Clock /\ Min(later) > t
    BY <1>1, <2>2
  <2> QED
    BY <2>3, <2>4
<1> QED
  BY <1>2, <1>3

\* The entry a tick serves is one of those it has left.
LEMMA CurrentIsDue ==
    ASSUME SchedulerTypeOK, NEW k \in Ticks, due[k] # {}
    PROVE  /\ Current(k) \in due[k]
           /\ Current(k)[1] \in Schedules
           /\ Current(k)[2] \in Clock
<1> DEFINE T == {e[1] : e \in due[k]}
<1>1. due[k] \subseteq Schedules \X Clock
  BY DEF SchedulerTypeOK
<1>2. T \in SUBSET Nat /\ T # {}
  BY <1>1, SchedulerAssumption
<1>3. PICK x \in T : \A y \in T : x <= y
  BY <1>2, LeastNatural
<1>4. PICK e \in due[k] : e[1] = x
  OBVIOUS
<1>5. \A d \in due[k] : e[1] <= d[1]
  BY <1>3, <1>4
<1>6. Current(k) \in due[k]
  BY <1>4, <1>5 DEF Current
<1> QED
  BY <1>1, <1>6

\* What the schedule's entry looks like when it is there.
LEMMA PresentIsEntry ==
    ASSUME SchedulerTypeOK, NEW s \in Schedules, Present(s)
    PROVE  /\ book[s] \in Entries
           /\ book[s].cron \in Crons
           /\ book[s].enabled \in BOOLEAN
           /\ book[s].next \in Clock \cup {None}
<1>1. book[s] \in Entries
  BY DEF SchedulerTypeOK, Present
<1> QED
  BY <1>1 DEF Entries

\* An entry whose expression, switch or next run is replaced is one again.
LEMMA EntriesStayEntries ==
    ASSUME NEW e \in Entries
    PROVE  /\ \A next \in Clock \cup {None} : [e EXCEPT !.next = next] \in Entries
           /\ \A enabled \in BOOLEAN : [e EXCEPT !.enabled = enabled] \in Entries
BY DEF Entries

-----------------------------------------------------------------------------
\* The minutes of the model are natural numbers.
LEMMA ClockIsNat == Clock \subseteq Nat
BY SchedulerAssumption DEF Clock

\* Whatever happens to the schedules, next runs are kept or put after the present.
NextIsKeptOrLater(s) ==
    \/ ~Present(s)'
    \/ book'[s].next = None
    \/ book'[s].next \in Nat /\ book'[s].next > clock
    \/ Present(s) /\ book'[s].next = book[s].next

\* Patch and initializeNextRunTimes do not disturb what was fired and what is due.
LEMMA BookMovesOn ==
    ASSUME SlotInv, Calm, \A s \in Schedules : NextIsKeptOrLater(s),
           UNCHANGED <<clock, tickVars, fires>>
    PROVE  CalmInv'
<1>1. CalmInv
  BY DEF SlotInv
<1>2. \A k, s, m : Unsettled(k, s, m)' = Unsettled(k, s, m)
  BY DEF Unsettled, Current, tickVars
<1>3. OneTickAtWork' /\ FiredOnce' /\ DueIsUnfired'
  BY <1>1 DEF CalmInv, OneTickAtWork, FiredOnce, DueIsUnfired, Current, tickVars
<1>4. FiredIsPast'
  <2> SUFFICES ASSUME NEW s \in Schedules, NEW m \in Clock, fires[s][m] # 0
               PROVE  /\ m <= clock
                      /\ \/ ~Present(s)'
                         \/ book'[s].next = None
                         \/ book'[s].next > m
                         \/ \E k \in Ticks : Unsettled(k, s, m)
    BY <1>2 DEF FiredIsPast, Present
  <2>1. /\ m <= clock
        /\ \/ ~Present(s)
           \/ book[s].next = None
           \/ book[s].next > m
           \/ \E k \in Ticks : Unsettled(k, s, m)
    BY <1>1 DEF CalmInv, FiredIsPast
  <2>2. m \in Nat /\ clock \in Nat
    BY ClockIsNat DEF SlotInv, SchedulerTypeOK
  <2>3. ASSUME book'[s].next \in Nat, book'[s].next > clock
        PROVE  book'[s].next > m
    BY <2>1, <2>2, <2>3
  <2> QED
    BY <2>1, <2>3 DEF NextIsKeptOrLater
<1> QED
  BY <1>3, <1>4 DEF CalmInv

\* A step that changes nothing but schedules, and those as above, keeps SlotInv.
LEMMA BookStepKeepsInv ==
    ASSUME SlotInv, \A s \in Schedules : NextIsKeptOrLater(s),
           book' \in [Schedules -> Entries \cup {None, Deleted}],
           UNCHANGED <<clock, tickVars, fires, overlapped, crashes>>
    PROVE  SlotInv'
<1>1. SchedulerTypeOK'
  BY DEF SlotInv, SchedulerTypeOK, tickVars
<1>2. DueIsPast'
  BY DEF SlotInv, DueIsPast, tickVars
<1>3. ASSUME Calm' PROVE CalmInv'
  <2>1. Calm
    BY <1>3 DEF Calm
  <2> QED
    BY <2>1, BookMovesOn
<1> QED
  BY <1>1, <1>2, <1>3 DEF SlotInv

\* The next run computed for an expression, as an entry's.
LEMMA NewEntryMovesOn ==
    ASSUME SlotInv, NEW s \in Schedules, NEW cron \in Crons, NEW enabled \in BOOLEAN,
           book'[s] = [cron |-> cron, enabled |-> enabled, next |-> NextAfter(cron, clock)]
    PROVE  book'[s] \in Entries /\ NextIsKeptOrLater(s)
<1>1. clock \in Nat
  BY ClockIsNat DEF SlotInv, SchedulerTypeOK
<1>2. /\ NextAfter(cron, clock) \in Clock \cup {None}
      /\ NextAfter(cron, clock) # None => NextAfter(cron, clock) > clock
  BY <1>1, NextAfterIsLater
<1>3. book'[s].next = NextAfter(cron, clock)
  OBVIOUS
<1>4. book'[s] \in Entries
  BY <1>2 DEF Entries
<1>5. NextAfter(cron, clock) = None \/ NextAfter(cron, clock) \in Nat
  BY <1>2, ClockIsNat
<1>6. NextIsKeptOrLater(s)
  BY <1>2, <1>3, <1>5 DEF NextIsKeptOrLater
<1> QED
  BY <1>4, <1>6

LEMMA CreateKeepsInv ==
    ASSUME SlotInv, NEW s \in Schedules, NEW cron \in Crons, NEW enabled \in BOOLEAN,
           Create(s, cron, enabled)
    PROVE  SlotInv'
<1>1. /\ book \in [Schedules -> Entries \cup {None, Deleted}]
      /\ UNCHANGED <<clock, tickVars, fires, overlapped, crashes>>
  BY DEF SlotInv, SchedulerTypeOK, Create
<1>2. /\ book'[s] = [cron |-> cron, enabled |-> enabled, next |-> NextAfter(cron, clock)]
      /\ \A r \in Schedules : r # s => book'[r] = book[r]
      /\ DOMAIN book' = Schedules /\ book' = [r \in Schedules |-> book'[r]]
  BY <1>1 DEF Create
<1>3. book'[s] \in Entries /\ NextIsKeptOrLater(s)
  BY <1>2, NewEntryMovesOn
<1>4. \A r \in Schedules : r # s => NextIsKeptOrLater(r)
  BY <1>2 DEF NextIsKeptOrLater, Present
<1>5. book' \in [Schedules -> Entries \cup {None, Deleted}]
  BY <1>1, <1>2, <1>3
<1> QED
  BY <1>1, <1>3, <1>4, <1>5, BookStepKeepsInv

LEMMA PatchKeepsInv ==
    ASSUME SlotInv, NEW s \in Schedules, NEW cron \in Crons \cup {None},
           NEW enabled \in BOOLEAN, Patch(s, cron, enabled)
    PROVE  SlotInv'
<1>1. /\ book \in [Schedules -> Entries \cup {None, Deleted}]
      /\ Present(s)
      /\ UNCHANGED <<clock, tickVars, fires, overlapped, crashes>>
  BY DEF SlotInv, SchedulerTypeOK, Patch
<1>2. book[s] \in Entries
  BY <1>1, PresentIsEntry DEF SlotInv
<1>3. /\ book'[s] = IF cron = None
                    THEN [book[s] EXCEPT !.enabled = enabled]
                    ELSE [cron |-> cron, enabled |-> enabled, next |-> NextAfter(cron, clock)]
      /\ \A r \in Schedules : r # s => book'[r] = book[r]
      /\ book' = [r \in Schedules |-> book'[r]]
  BY <1>1 DEF Patch
<1>4. book'[s] \in Entries /\ NextIsKeptOrLater(s)
  <2>1. CASE cron = None
    <3>1. book'[s] \in Entries
      BY <1>2, <1>3, <2>1, EntriesStayEntries
    <3>2. book'[s].next = book[s].next
      BY <1>2, <1>3, <2>1 DEF Entries
    <3> QED
      BY <1>1, <3>1, <3>2 DEF NextIsKeptOrLater
  <2>2. CASE cron # None
    BY <1>3, <2>2, NewEntryMovesOn
  <2> QED
    BY <2>1, <2>2
<1>5. \A r \in Schedules : r # s => NextIsKeptOrLater(r)
  BY <1>3 DEF NextIsKeptOrLater, Present
<1>6. book' \in [Schedules -> Entries \cup {None, Deleted}]
  BY <1>1, <1>3, <1>4
<1> QED
  BY <1>1, <1>4, <1>5, <1>6, BookStepKeepsInv

LEMMA DeleteKeepsInv ==
    ASSUME SlotInv, NEW s \in Schedules, Delete(s)
    PROVE  SlotInv'
<1>1. /\ book \in [Schedules -> Entries \cup {None, Deleted}]
      /\ UNCHANGED <<clock, tickVars, fires, overlapped, crashes>>
  BY DEF SlotInv, SchedulerTypeOK, Delete
<1>2. /\ book'[s] = Deleted
      /\ \A r \in Schedules : r # s => book'[r] = book[r]
      /\ book' = [r \in Schedules |-> book'[r]]
  BY <1>1 DEF Delete
<1>3. \A r \in Schedules : NextIsKeptOrLater(r)
  BY <1>2 DEF NextIsKeptOrLater, Present
<1>4. book' \in [Schedules -> Entries \cup {None, Deleted}]
  BY <1>1, <1>2
<1> QED
  BY <1>1, <1>3, <1>4, BookStepKeepsInv

LEMMA InitializeKeepsInv ==
    ASSUME SlotInv, InitializeNextRuns
    PROVE  SlotInv'
<1>1. /\ SchedulerTypeOK
      /\ UNCHANGED <<clock, tickVars, fires, overlapped, crashes>>
  BY DEF SlotInv, InitializeNextRuns, counters
<1>2. ASSUME NEW s \in Schedules
      PROVE  book'[s] \in Entries \cup {None, Deleted} /\ NextIsKeptOrLater(s)
  <2>1. CASE book'[s] = book[s]
    BY <1>1, <2>1 DEF NextIsKeptOrLater, Present, SchedulerTypeOK
  <2>2. CASE /\ Present(s)
             /\ book'[s] = [book[s] EXCEPT !.next = NextAfter(book[s].cron, clock)]
    <3>1. book[s] \in Entries /\ book[s].cron \in Crons
      BY <1>1, <2>2, PresentIsEntry
    <3>2. /\ NextAfter(book[s].cron, clock) \in Clock \cup {None}
          /\ NextAfter(book[s].cron, clock) # None => NextAfter(book[s].cron, clock) > clock
      BY <1>1, <3>1, ClockIsNat, NextAfterIsLater DEF SchedulerTypeOK
    <3>3. book'[s] \in Entries
      BY <2>2, <3>1, <3>2, EntriesStayEntries
    <3>4. book'[s].next = NextAfter(book[s].cron, clock)
      BY <2>2, <3>1 DEF Entries
    <3> QED
      BY <3>2, <3>3, <3>4, ClockIsNat DEF NextIsKeptOrLater
  <2> QED
    BY <2>1, <2>2 DEF InitializeNextRuns
<1>3. book' \in [Schedules -> Entries \cup {None, Deleted}]
  BY <1>2 DEF InitializeNextRuns
<1> QED
  BY <1>1, <1>2, <1>3, BookStepKeepsInv

LEMMA TimeKeepsInv ==
    ASSUME SlotInv, TimePasses
    PROVE  SlotInv'
<1>1. /\ clock \in Nat /\ clock' = clock + 1
      /\ UNCHANGED <<book, tickVars, fires, overlapped, crashes>>
  BY ClockIsNat DEF SlotInv, SchedulerTypeOK, TimePasses, counters
<1>2. SchedulerTypeOK'
  <2>1. clock' \in Clock
    BY <1>1, SchedulerAssumption DEF TimePasses, Clock
  <2> QED
    BY <1>1, <2>1 DEF SlotInv, SchedulerTypeOK, tickVars
<1>3. DueIsPast'
  <2>1. ASSUME NEW k \in Ticks, NEW e \in due[k] PROVE e[2] <= clock'
    <3>1. due[k] \subseteq Schedules \X Clock /\ e[2] <= clock
      BY DEF SlotInv, SchedulerTypeOK, DueIsPast
    <3>2. e[2] \in Nat
      BY <3>1, ClockIsNat
    <3> QED
      BY <1>1, <3>1, <3>2
  <2> QED
    BY <1>1, <2>1 DEF SlotInv, DueIsPast, tickVars
<1>4. ASSUME Calm' PROVE CalmInv'
  <2>1. CalmInv
    BY <1>1, <1>4 DEF Calm, SlotInv
  <2>2. OneTickAtWork' /\ FiredOnce' /\ DueIsUnfired'
    BY <1>1, <2>1 DEF CalmInv, OneTickAtWork, FiredOnce, DueIsUnfired, Current, tickVars
  <2>3. FiredIsPast'
    <3>1. \A m \in Clock : m <= clock => m <= clock'
      BY <1>1, ClockIsNat
    <3>2. \A k, s, m : Unsettled(k, s, m)' = Unsettled(k, s, m)
      BY <1>1 DEF Unsettled, Current, tickVars
    <3>3. \A s : Present(s)' = Present(s)
      BY <1>1 DEF Present
    <3> QED
      BY <1>1, <2>1, <3>1, <3>2, <3>3 DEF CalmInv, FiredIsPast
  <2> QED
    BY <2>2, <2>3 DEF CalmInv
<1> QED
  BY <1>2, <1>3, <1>4 DEF SlotInv

LEMMA CrashKeepsInv ==
    ASSUME SlotInv, Crash
    PROVE  SlotInv'
<1>1. SchedulerTypeOK'
  BY DEF SlotInv, SchedulerTypeOK, Crash, Places
<1>2. DueIsPast'
  BY DEF DueIsPast, Crash
<1>3. ~Calm'
  BY DEF SlotInv, SchedulerTypeOK, Crash, Calm
<1> QED
  BY <1>1, <1>2, <1>3 DEF SlotInv

\* A step that changes none of what SlotInv speaks of.
LEMMA IdleStepKeepsInv ==
    ASSUME SlotInv, UNCHANGED <<clock, book, tickVars, fires, overlapped, crashes>>
    PROVE  SlotInv'
<1>1. SchedulerTypeOK' /\ DueIsPast'
  BY DEF SlotInv, SchedulerTypeOK, DueIsPast, tickVars
<1>2. \A s \in Schedules : NextIsKeptOrLater(s)
  BY DEF NextIsKeptOrLater, Present
<1>3. Calm' => Calm
  BY DEF Calm
<1>4. Calm => CalmInv'
  BY <1>2, BookMovesOn
<1> QED
  BY <1>1, <1>3, <1>4 DEF SlotInv

\* A slot that is due lies where the next run of its schedule was: it was not fired.
LEMMA ReadKeepsInv ==
    ASSUME SlotInv, NEW k \in Ticks, TickReads(k)
    PROVE  SlotInv'
<1> DEFINE read == {<<s, book[s].next>> : s \in {r \in Schedules : IsDue(r)}}
<1>1. /\ SchedulerTypeOK
      /\ pc[k] = "idle"
      /\ due' = [due EXCEPT ![k] = read]
      /\ due'[k] # {}
      /\ pc' = [pc EXCEPT ![k] = "next"]
      /\ overlapped' = (overlapped \/ \E j \in Ticks : pc[j] # "idle")
      /\ UNCHANGED <<clock, book, fires, crashes>>
  BY DEF SlotInv, TickReads, Go, counters
<1>2. ASSUME NEW e \in read
      PROVE  /\ e[1] \in Schedules /\ Present(e[1])
             /\ e = <<e[1], book[e[1]].next>>
             /\ e[2] = book[e[1]].next /\ e[2] \in Clock /\ e[2] <= clock
             /\ book[e[1]].next # None
  <2>1. PICK s \in Schedules : IsDue(s) /\ e = <<s, book[s].next>>
    OBVIOUS
  <2>2. book[s].next \in Clock \cup {None}
    BY <1>1, <2>1, PresentIsEntry DEF IsDue
  <2> QED
    BY <2>1, <2>2 DEF IsDue
<1> HIDE DEF read
<1>3. /\ due'[k] = read /\ pc'[k] = "next"
      /\ \A j \in Ticks \ {k} : due'[j] = due[j] /\ pc'[j] = pc[j]
  BY <1>1 DEF SchedulerTypeOK
<1>4. SchedulerTypeOK'
  <2>1. read \in SUBSET (Schedules \X Clock)
    BY <1>2
  <2> QED
    BY <1>1, <2>1 DEF SchedulerTypeOK, Places
<1>5. DueIsPast'
  BY <1>1, <1>2, <1>3 DEF SlotInv, DueIsPast
<1>6. ASSUME Calm' PROVE CalmInv'
  <2>1. CalmInv /\ \A j \in Ticks : pc[j] = "idle"
    BY <1>1, <1>6 DEF Calm, SlotInv
  <2>2. OneTickAtWork' /\ FiredOnce'
    BY <1>1, <1>3, <2>1 DEF CalmInv, OneTickAtWork, FiredOnce
  <2>3. \A s \in Schedules, m \in Clock :
            fires[s][m] # 0 =>
                /\ m <= clock
                /\ ~Present(s) \/ book[s].next = None \/ book[s].next > m
    BY <2>1 DEF CalmInv, FiredIsPast, Unsettled
  <2>4. FiredIsPast'
    BY <1>1, <2>3 DEF FiredIsPast, Present
  <2>5. ASSUME NEW j \in Ticks, NEW e \in due'[j] PROVE fires[e[1]][e[2]] = 0
    <3>1. due[j] = {}
      BY <2>1 DEF SlotInv, DueIsPast
    <3>2. e \in read
      BY <1>3, <2>5, <3>1
    <3>3. ~(book[e[1]].next > e[2])
      BY <1>2, <3>2, ClockIsNat
    <3> QED
      BY <1>2, <2>3, <3>2, <3>3
  <2>6. DueIsUnfired'
    BY <1>1, <2>5 DEF DueIsUnfired
  <2> QED
    BY <2>2, <2>4, <2>6 DEF CalmInv
<1> QED
  BY <1>4, <1>5, <1>6 DEF SlotInv

\* A working tick goes on within its current slot: nothing is fired or rescheduled.
LEMMA GoKeepsInv ==
    ASSUME SlotInv, NEW k \in Ticks, NEW place \in Places \ {"idle", "next"},
           pc[k] # "idle", pc[k] \in {"advancing", "failing"} => place = "failing",
           Go(k, place),
           UNCHANGED <<clock, book, due, fires, overlapped, crashes>>
    PROVE  SlotInv'
<1>1. /\ SchedulerTypeOK /\ DueIsPast
      /\ pc' = [pc EXCEPT ![k] = place]
      /\ pc'[k] = place
      /\ \A j \in Ticks \ {k} : pc'[j] = pc[j]
  BY DEF SlotInv, Go, SchedulerTypeOK
<1>2. SchedulerTypeOK' /\ DueIsPast'
  BY <1>1 DEF SchedulerTypeOK, DueIsPast
<1>3. ASSUME Calm' PROVE CalmInv'
  <2>1. CalmInv
    BY <1>3 DEF Calm, SlotInv
  <2>2. OneTickAtWork' /\ FiredOnce'
    BY <1>1, <2>1 DEF CalmInv, OneTickAtWork, FiredOnce
  <2>3. \A j \in Ticks, s \in Schedules, m \in Clock :
            Unsettled(j, s, m) => Unsettled(j, s, m)'
    BY <1>1 DEF Unsettled, Current
  <2>4. \A s : Present(s)' = Present(s)
    BY DEF Present
  <2>5. FiredIsPast'
    BY <2>1, <2>3, <2>4 DEF CalmInv, FiredIsPast
  <2>6. DueIsUnfired'
    BY <1>1, <2>1 DEF CalmInv, DueIsUnfired, Current
  <2> QED
    BY <2>2, <2>5, <2>6 DEF CalmInv
<1> QED
  BY <1>2, <1>3 DEF SlotInv

\* The tick fires a slot that was never fired.
LEMMA FireKeepsInv ==
    ASSUME SlotInv, NEW k \in Ticks, Fire(k)
    PROVE  SlotInv'
<1>0. /\ SchedulerTypeOK /\ DueIsPast
      /\ pc[k] = "next"
      /\ pc' = [pc EXCEPT ![k] = "advancing"]
      /\ fires' = [fires EXCEPT ![Current(k)[1]][Current(k)[2]] = @ + 1]
      /\ UNCHANGED <<clock, book, due, overlapped, crashes>>
  BY DEF SlotInv, Fire, Go, counters
<1>2. PICK s \in Schedules, m \in Clock :
          Current(k) = <<s, m>> /\ Current(k) \in due[k] /\ m <= clock
  <2>1. due[k] # {} /\ due[k] \subseteq Schedules \X Clock
    BY <1>0 DEF DueIsPast, SchedulerTypeOK
  <2>2. Current(k) \in due[k] /\ Current(k) = <<Current(k)[1], Current(k)[2]>>
    BY <1>0, <2>1, CurrentIsDue
  <2>3. Current(k)[2] <= clock
    BY <1>0, <2>2 DEF DueIsPast
  <2> QED
    BY <1>0, <2>1, <2>2, <2>3, CurrentIsDue
<1>1. /\ SchedulerTypeOK /\ DueIsPast
      /\ pc[k] = "next"
      /\ pc' = [pc EXCEPT ![k] = "advancing"]
      /\ fires' = [fires EXCEPT ![s][m] = @ + 1]
      /\ UNCHANGED <<clock, book, due, overlapped, crashes>>
  BY <1>0, <1>2
<1>3. \A j \in Ticks : Current(j)' = Current(j)
  BY <1>1 DEF Current
<1>4. /\ fires'[s][m] = fires[s][m] + 1
      /\ \A r \in Schedules, n \in Clock : <<r, n>> # <<s, m>> => fires'[r][n] = fires[r][n]
      /\ fires' \in [Schedules -> [Clock -> Nat]]
  BY <1>1, <1>2 DEF SchedulerTypeOK
<1>5. SchedulerTypeOK' /\ DueIsPast'
  BY <1>1, <1>4 DEF SchedulerTypeOK, DueIsPast, Places
<1>6. ASSUME Calm' PROVE CalmInv'
  <2>1. CalmInv
    BY <1>1, <1>6 DEF Calm, SlotInv
  <2>2. fires[s][m] = 0
    BY <1>1, <1>2, <2>1 DEF CalmInv, DueIsUnfired
  <2>3. OneTickAtWork'
    BY <1>1, <2>1 DEF CalmInv, OneTickAtWork, SchedulerTypeOK
  <2>4. FiredOnce'
    BY <1>4, <2>1, <2>2 DEF CalmInv, FiredOnce
  <2>5. Unsettled(k, s, m)'
    BY <1>1, <1>2, <1>3 DEF Unsettled, SchedulerTypeOK
  <2>6. \A j \in Ticks, r \in Schedules, n \in Clock : ~Unsettled(j, r, n)
    BY <1>1, <2>1 DEF CalmInv, OneTickAtWork, Unsettled, SchedulerTypeOK
  <2>7. FiredIsPast'
    <3>1. ASSUME NEW r \in Schedules, NEW n \in Clock, fires'[r][n] # 0, <<r, n>> # <<s, m>>
          PROVE  /\ n <= clock
                 /\ ~Present(r) \/ book[r].next = None \/ book[r].next > n
      BY <1>4, <2>1, <2>6, <3>1 DEF CalmInv, FiredIsPast
    <3>2. \A r : Present(r)' = Present(r)
      BY <1>1 DEF Present
    <3> QED
      BY <1>1, <1>2, <2>5, <3>1, <3>2 DEF FiredIsPast
  <2>8. DueIsUnfired'
    <3>1. ASSUME NEW j \in Ticks, NEW e \in due[j], pc'[j] = "next" \/ e # Current(j)
          PROVE  fires'[e[1]][e[2]] = 0
      <4>1. j = k
        BY <1>1, <2>1 DEF CalmInv, OneTickAtWork, DueIsPast
      <4>2. e # Current(k)
        BY <1>1, <3>1, <4>1 DEF SchedulerTypeOK
      <4>3. e \in Schedules \X Clock /\ fires[e[1]][e[2]] = 0
        BY <2>1, <4>1, <4>2, <1>1 DEF CalmInv, DueIsUnfired, SchedulerTypeOK
      <4>4. <<e[1], e[2]>> # <<s, m>>
        BY <1>2, <4>2, <4>3
      <4> QED
        BY <1>4, <4>3, <4>4
    <3> QED
      BY <1>1, <1>3, <3>1 DEF DueIsUnfired
  <2> QED
    BY <2>3, <2>4, <2>7, <2>8 DEF CalmInv
<1> QED
  BY <1>5, <1>6 DEF SlotInv

\* Moving the next run of the current slot's schedule on settles the slot: from then on
\* every slot that was fired lies before the next run of its schedule.
Settled(s, m) ==
    /\ m <= clock
    /\ \/ ~Present(s)'
       \/ book'[s].next = None
       \/ book'[s].next > m

LEMMA RescheduleSettles ==
    ASSUME SlotInv, NEW k \in Ticks, pc[k] # "idle", RescheduleCurrent(k)
    PROVE  /\ book' \in [Schedules -> Entries \cup {None, Deleted}]
           /\ Calm => \A s \in Schedules, m \in Clock : fires[s][m] # 0 => Settled(s, m)
<1>1. /\ SchedulerTypeOK /\ DueIsPast
      /\ book \in [Schedules -> Entries \cup {None, Deleted}]
      /\ clock \in Nat
  BY ClockIsNat DEF SlotInv, SchedulerTypeOK
<1>2. PICK c \in Schedules : Current(k)[1] = c
  BY <1>1, CurrentIsDue DEF DueIsPast
<1>3. book' = IF Present(c) THEN [book EXCEPT ![c].next = NextAfter(book[c].cron, clock)]
              ELSE book
  BY <1>2 DEF RescheduleCurrent, Reschedule
<1>4. /\ book' \in [Schedules -> Entries \cup {None, Deleted}]
      /\ \A s \in Schedules \ {c} : book'[s] = book[s]
      /\ \/ ~Present(c)'
         \/ book'[c].next = None
         \/ book'[c].next \in Nat /\ book'[c].next > clock
  <2>1. CASE ~Present(c)
    BY <1>1, <1>3, <2>1 DEF Present
  <2>2. CASE Present(c)
    <3>1. book[c] \in Entries /\ book[c].cron \in Crons
      BY <1>1, <1>2, <2>2, PresentIsEntry
    <3>2. /\ NextAfter(book[c].cron, clock) \in Clock \cup {None}
          /\ NextAfter(book[c].cron, clock) # None => NextAfter(book[c].cron, clock) > clock
      BY <1>1, <3>1, NextAfterIsLater
    <3>3. /\ book'[c] = [book[c] EXCEPT !.next = NextAfter(book[c].cron, clock)]
          /\ \A s \in Schedules \ {c} : book'[s] = book[s]
          /\ book' = [s \in Schedules |-> book'[s]]
      BY <1>1, <1>2, <1>3, <2>2
    <3>4. book'[c] \in Entries
      BY <3>1, <3>2, <3>3, EntriesStayEntries
    <3>5. book'[c].next = NextAfter(book[c].cron, clock)
      BY <3>1, <3>3 DEF Entries
    <3>6. book' \in [Schedules -> Entries \cup {None, Deleted}]
      BY <1>1, <3>3, <3>4
    <3> QED
      BY <3>2, <3>3, <3>5, <3>6, ClockIsNat
  <2> QED
    BY <2>1, <2>2
<1>5. ASSUME Calm, NEW s \in Schedules, NEW m \in Clock, fires[s][m] # 0
      PROVE  Settled(s, m)
  <2>1. CalmInv /\ m \in Nat
    BY <1>5, ClockIsNat DEF SlotInv
  <2>2. /\ m <= clock
        /\ \/ ~Present(s)
           \/ book[s].next = None
           \/ book[s].next > m
           \/ \E j \in Ticks : Unsettled(j, s, m)
    BY <1>5, <2>1 DEF CalmInv, FiredIsPast
  <2>3. CASE s = c
    <3>1. book'[c].next \in Nat /\ book'[c].next > clock => book'[c].next > m
      BY <1>1, <2>1, <2>2
    <3> QED
      BY <1>4, <2>2, <2>3, <3>1 DEF Settled
  <2>4. CASE s # c
    <3>1. ASSUME NEW j \in Ticks, Unsettled(j, s, m) PROVE FALSE
      <4>1. j = k
        BY <2>1, <3>1 DEF CalmInv, OneTickAtWork, Unsettled
      <4> QED
        BY <1>2, <2>4, <3>1, <4>1 DEF Unsettled
    <3>2. book'[s] = book[s]
      BY <1>4, <2>4
    <3> QED
      BY <2>2, <3>1, <3>2 DEF Settled, Present
  <2> QED
    BY <2>3, <2>4
<1> QED
  BY <1>4, <1>5

LEMMA AdvanceKeepsInv ==
    ASSUME SlotInv, NEW k \in Ticks, Advance(k)
    PROVE  SlotInv'
<1>1. /\ SchedulerTypeOK /\ DueIsPast
      /\ pc[k] = "advancing"
      /\ RescheduleCurrent(k)
      /\ pc' = [pc EXCEPT ![k] = "announcing"]
      /\ UNCHANGED <<clock, due, fires, overlapped, crashes>>
  BY DEF SlotInv, Advance, Go, counters
<1>2. /\ book' \in [Schedules -> Entries \cup {None, Deleted}]
      /\ Calm => \A s \in Schedules, m \in Clock : fires[s][m] # 0 => Settled(s, m)
  BY <1>1, RescheduleSettles
<1>3. SchedulerTypeOK' /\ DueIsPast'
  BY <1>1, <1>2 DEF SchedulerTypeOK, DueIsPast, Places
<1>4. ASSUME Calm' PROVE CalmInv'
  <2>1. Calm /\ CalmInv
    BY <1>1, <1>4 DEF Calm, SlotInv
  <2>2. OneTickAtWork' /\ FiredOnce'
    BY <1>1, <2>1 DEF CalmInv, OneTickAtWork, FiredOnce, SchedulerTypeOK
  <2>3. FiredIsPast'
    BY <1>1, <1>2, <2>1 DEF FiredIsPast, Settled, Present
  <2>4. DueIsUnfired'
    BY <1>1, <2>1 DEF CalmInv, DueIsUnfired, Current, SchedulerTypeOK
  <2> QED
    BY <2>2, <2>3, <2>4 DEF CalmInv
<1> QED
  BY <1>3, <1>4 DEF SlotInv

\* The tick goes on to its next slot once every fired slot is settled.
LEMMA ProceedKeepsInv ==
    ASSUME SlotInv, NEW k \in Ticks, pc[k] \notin {"idle", "next"}, Proceed(k),
           book' \in [Schedules -> Entries \cup {None, Deleted}],
           Calm => \A s \in Schedules, m \in Clock : fires[s][m] # 0 => Settled(s, m),
           UNCHANGED <<clock, fires, overlapped, crashes>>
    PROVE  SlotInv'
<1>1. /\ SchedulerTypeOK /\ DueIsPast
      /\ due' = [due EXCEPT ![k] = @ \ {Current(k)}]
      /\ pc' = [pc EXCEPT ![k] = IF due'[k] = {} THEN "idle" ELSE "next"]
  BY DEF SlotInv, Proceed, Go
<1>2. /\ due'[k] = due[k] \ {Current(k)}
      /\ pc'[k] = IF due'[k] = {} THEN "idle" ELSE "next"
      /\ \A j \in Ticks \ {k} : due'[j] = due[j] /\ pc'[j] = pc[j]
  BY <1>1 DEF SchedulerTypeOK
<1>3. SchedulerTypeOK'
  BY <1>1 DEF SchedulerTypeOK, Places
<1>4. DueIsPast'
  BY <1>1, <1>2 DEF DueIsPast
<1>5. ASSUME Calm' PROVE CalmInv'
  <2>1. Calm /\ CalmInv
    BY <1>5 DEF Calm, SlotInv
  <2>2. OneTickAtWork' /\ FiredOnce'
    BY <1>2, <2>1 DEF CalmInv, OneTickAtWork, FiredOnce
  <2>3. FiredIsPast'
    BY <2>1 DEF FiredIsPast, Settled, Present
  <2>4. ASSUME NEW j \in Ticks, NEW e \in due'[j] PROVE fires[e[1]][e[2]] = 0
    <3>1. j = k
      BY <1>1, <1>2, <2>1 DEF CalmInv, OneTickAtWork, DueIsPast
    <3> QED
      BY <1>2, <2>1, <3>1 DEF CalmInv, DueIsUnfired
  <2>5. DueIsUnfired'
    BY <2>4 DEF DueIsUnfired
  <2> QED
    BY <2>2, <2>3, <2>5 DEF CalmInv
<1> QED
  BY <1>3, <1>4, <1>5 DEF SlotInv

LEMMA SkipOrRecoverKeepsInv ==
    ASSUME SlotInv, NEW k \in Ticks, SkipOrRecover(k)
    PROVE  SlotInv'
BY RescheduleSettles, ProceedKeepsInv DEF SkipOrRecover, counters

\* The tick that has announced its slot settled it before, and no other is at work.
LEMMA AnnouncedKeepsInv ==
    ASSUME SlotInv, NEW k \in Ticks, Announced(k)
    PROVE  SlotInv'
<1>1. /\ SchedulerTypeOK
      /\ pc[k] = "announcing"
      /\ Proceed(k)
      /\ UNCHANGED <<clock, book, fires, overlapped, crashes>>
  BY DEF SlotInv, Announced, counters
<1>2. ASSUME Calm, NEW s \in Schedules, NEW m \in Clock, fires[s][m] # 0
      PROVE  Settled(s, m)
  <2>1. CalmInv
    BY <1>2 DEF SlotInv
  <2>2. \A j \in Ticks : ~Unsettled(j, s, m)
    BY <1>1, <2>1 DEF CalmInv, OneTickAtWork, Unsettled
  <2> QED
    BY <1>1, <1>2, <2>1, <2>2 DEF CalmInv, FiredIsPast, Settled, Present
<1>3. book' \in [Schedules -> Entries \cup {None, Deleted}]
  BY <1>1 DEF SchedulerTypeOK
<1> QED
  BY <1>1, <1>2, <1>3, ProceedKeepsInv

-----------------------------------------------------------------------------
LEMMA InitSlotInv == Init => SlotInv
<1> SUFFICES ASSUME Init PROVE SlotInv
  OBVIOUS
<1>1. SchedulerTypeOK
  <2>1. clock \in Clock
    BY SchedulerAssumption DEF Init, Clock
  <2>2. Stored \subseteq Entries
    BY DEF Stored, Entries
  <2>3. fires \in [Schedules -> [Clock -> Nat]]
    BY DEF Init
  <2> QED
    BY <2>1, <2>2, <2>3 DEF Init, SchedulerTypeOK, Places
<1>2. DueIsPast
  BY DEF Init, DueIsPast
<1>3. CalmInv
  BY DEF Init, CalmInv, OneTickAtWork, FiredOnce, FiredIsPast, DueIsUnfired
<1> QED
  BY <1>1, <1>2, <1>3 DEF SlotInv

LEMMA SchedulerStepKeepsInv == SlotInv /\ [Next]_vars => SlotInv'
<1> SUFFICES ASSUME SlotInv, [Next]_vars PROVE SlotInv'
  OBVIOUS
<1>1. ASSUME NEW s \in Schedules, Request(s) PROVE SlotInv'
  BY <1>1, CreateKeepsInv, PatchKeepsInv, DeleteKeepsInv DEF Request
<1>2. CASE Restart
  BY <1>2, IdleStepKeepsInv DEF Restart, counters
<1>3. CASE UNCHANGED vars
  BY <1>3, IdleStepKeepsInv DEF vars, counters
<1>4. ASSUME NEW k \in Ticks, FindsNoTargets(k) PROVE SlotInv'
  BY <1>4, GoKeepsInv DEF FindsNoTargets, Places, counters
<1>5. ASSUME NEW k \in Ticks, FindsNoPlaybook(k) PROVE SlotInv'
  BY <1>5, GoKeepsInv DEF FindsNoPlaybook, Places, counters
<1>6. ASSUME NEW k \in Ticks, FireScheduleRejects(k) PROVE SlotInv'
  BY <1>6, GoKeepsInv DEF FireScheduleRejects, Places
<1>7. ASSUME NEW k \in Ticks, TickStep(k) PROVE SlotInv'
  BY <1>4, <1>5, <1>7, FireKeepsInv, AdvanceKeepsInv, SkipOrRecoverKeepsInv,
     AnnouncedKeepsInv DEF TickStep
<1> QED
  BY <1>1, <1>2, <1>3, <1>6, <1>7, TimeKeepsInv, InitializeKeepsInv, CrashKeepsInv,
     ReadKeepsInv DEF Next

\* The invariant of the scheduler, for every number of schedules and of ticks.
THEOREM SchedulerInvariance == Safety => []SlotInv
<1> QED
  BY InitSlotInv, SchedulerStepKeepsInv, PTL DEF Safety

\* A slot is fired at most once, whatever is edited, skipped or fails, while no two
\* ticks overlap and the process does not die.
THEOREM SlotsAreFiredOnce == Safety => []SlotFiresOnce
<1>1. SlotInv => SlotFiresOnce
  BY DEF SlotInv, Calm, CalmInv, FiredOnce, SlotFiresOnce
<1> QED
  BY SchedulerInvariance, <1>1, PTL
=============================================================================
