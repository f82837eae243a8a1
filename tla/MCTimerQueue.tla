---------------------------- MODULE MCTimerQueue ----------------------------
(* Instance of TimerQueue for TLC: two timers that run once and one that    *)
(* repeats, over four instants, so that timers coincide, expire during the  *)
(* callbacks of others and are added and cancelled there.                   *)
EXTENDS TimerQueue, TLC

CONSTANTS t1, t2, t3

MCTimers == {t1, t2, t3}
MCInterval == t1 :> 0 @@ t2 :> 0 @@ t3 :> 2
=============================================================================
