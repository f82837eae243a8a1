----------------------------- MODULE MCEventLoop -----------------------------
(* Instance of EventLoop for TLC: two foreign threads, one socket channel   *)
(* and three functors, enough for one functor in the running batch while    *)
(* two more are pushed behind it, one by each kind of caller.               *)
EXTENDS EventLoop

CONSTANTS t1, t2, f1, f2, f3, c1

MCThreads == {t1, t2}
MCFunctors == {f1, f2, f3}
MCChannels == {c1}
=============================================================================
