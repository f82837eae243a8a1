-------------------------- MODULE MCEventLoopThread --------------------------
(* Instance of EventLoopThread for TLC: the owner hands the loop up to two  *)
(* functors before it destroys it; one socket channel.                      *)
EXTENDS EventLoopThread

CONSTANTS f1, f2, c1

MCFunctors == {f1, f2}
MCChannels == {c1}
=============================================================================
