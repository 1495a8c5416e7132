----------------------------- MODULE MCScheduler -----------------------------
(***************************************************************************)
(* Three minutes and two expressions: one skips the minute in the middle,  *)
(* one the first.  Either one schedule and two ticks that may overlap, or  *)
(* two schedules and one tick that serves them in turn.                    *)
(***************************************************************************)
EXTENDS Scheduler

CONSTANTS k1, k2

TwoSchedules == {1, 2}
OneSchedule == {1}
TwoTicks == {k1, k2}
OneTick == {k1}
MCCrons == {{0, 2}, {1, 2}}
=============================================================================
