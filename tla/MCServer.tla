------------------------------- MODULE MCServer -------------------------------
(* Instances of Server for TLC: two connections and two descriptors, so that *)
(* two connections can be open at once and a descriptor can be reused.       *)
EXTENDS Server

CONSTANTS c1, c2

MCConns == {c1, c2}
ThreeConns == {c1, c2}
MCFds == {3, 4}
MCIoLoops == <<"io1", "io2">>
MCPoolSizes == {0, 2}
MCTwoThreads == {2}
=============================================================================
