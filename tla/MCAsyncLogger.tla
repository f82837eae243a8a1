---------------------------- MODULE MCAsyncLogger ----------------------------
(* Instance of AsyncLogger for TLC: lines of one and two bytes, and a logger *)
(* that drops buffers when there are more than three.                        *)
EXTENDS AsyncLogger, TLC

CONSTANTS l1, l2, l3

MCLines == {l1, l2, l3}
MCSize == l1 :> 1 @@ l2 :> 2 @@ l3 :> 1
=============================================================================
