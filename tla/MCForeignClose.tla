---------------------------- MODULE MCForeignClose ----------------------------
(* Instance of ForeignClose for TLC: one connection, one I/O loop.           *)
EXTENDS ForeignClose

CONSTANT c1

MCConns == {c1}
MCFds == {3}
MCIoLoops == <<"io1">>
MCPoolSizes == {1}
=============================================================================
