---------------------------- MODULE MCTaskExecutor ----------------------------
(***************************************************************************)
(* Instances of TaskExecutor.  One connection is enough for queueing and   *)
(* cancelling; MCQueues checks that connections do not disturb each     *)
(* other.                                                                  *)
(***************************************************************************)
EXTENDS TaskExecutor

CONSTANTS c1, t1, t2

OneConn == {c1}
OneTask == {t1}
TwoTasks == {t1, t2}
NoTasks == {}
=============================================================================
