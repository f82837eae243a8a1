-------------------------- MODULE MCConnectionOutput --------------------------
(* Instance of ConnectionOutput for TLC: three messages of 3, 2 and 0 bytes  *)
(* over a socket that buffers two, so that messages are split, wait behind   *)
(* one another and fit at once.                                              *)
EXTENDS ConnectionOutput, TLC

CONSTANTS m1, m2, m3

MCMsgs == {m1, m2, m3}
MCSize == m1 :> 3 @@ m2 :> 2 @@ m3 :> 0
=============================================================================
