------------------------------ MODULE MCQueues ------------------------------
(***************************************************************************)
(* Queues for TLC: four tasks over two connections, enough for a run with  *)
(* two entries waiting behind it while the other connection works; three   *)
(* mails to two recipients; one comment that is added, liked, reported and *)
(* resolved while a worker keeps the index, where the first report already *)
(* hides the comment.                                                      *)
(***************************************************************************)
EXTENDS Queues, TLC

CONSTANTS c1, c2, k1, k2, k3, k4, m1, m2, m3, t1, t2, w1, alice, bob, com1

MCConns == {c1, c2}
MCTasks == {k1, k2, k3, k4}

MCMails == {m1, m2, m3}
MCTo == m1 :> t1 @@ m2 :> t1 @@ m3 :> t2

Request(kind, user) == [kind |-> kind, user |-> user, comment |-> com1]
MCRequests == {Request("add", alice), Request("like", bob), Request("report", alice),
               Request("resolve", alice)}
OneWorker == {w1}
=============================================================================
