---------------------------- MODULE MCThreadPool ----------------------------
(* Two workers and two client threads are enough for one worker to sleep   *)
(* while the other runs and for two notifications to race; three tasks let *)
(* the queue hold more tasks than there are workers awake.                 *)
EXTENDS ThreadPool, TLC

CONSTANTS t1, t2, t3, w1, w2, c1, c2

MCTasks == {t1, t2, t3}
MCWorkers == {w1, w2}
MCClients == {c1, c2}
=============================================================================
