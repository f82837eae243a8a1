----------------------------- MODULE MCThreadPool -----------------------------
(* Instance of ThreadPool for TLC: up to two workers, one more thread that  *)
(* calls add(), three tasks.                                                *)
EXTENDS ThreadPool

CONSTANTS w1, w2, c1, t1, t2, t3

MCWorkers == {w1, w2}
MCCallers == {c1}
MCTasks == {t1, t2, t3}
=============================================================================
