----------------------------- MODULE ForeignClose -----------------------------
(***************************************************************************)
(* Server with an application thread that calls forceClose() on a          *)
(* connection it keeps a pointer to. The call is not on the connection's   *)
(* loop, so its test of state_ and what follows are separate steps.        *)
(***************************************************************************)
EXTENDS Server

VARIABLE calling  \* the connection whose state_ was found open, or None

foreignVars == <<vars, calling>>

ForeignInit == Init /\ calling = None

ForeignTest(c) ==
  /\ calling = None
  /\ c \in held
  /\ conn[c].state \in {"kConnected", "kDisconnecting"}
  /\ calling' = c
  /\ UNCHANGED vars

(* setState() and queueInLoop(), whatever state_ is by now.                *)
ForeignForceClose ==
  /\ calling # None
  /\ conn' = [conn EXCEPT ![calling].state = "kDisconnecting"]
  /\ Enqueue(conn[calling].loop, "forceCloseInLoop", calling)
  /\ calling' = None
  /\ UNCHANGED <<connections_, pool, loop, peerClosed, held>>

(* The thread keeps its pointer while it is inside the call.               *)
OtherStep == /\ Next
             /\ calling # None => calling \in held'
             /\ UNCHANGED calling

ForeignNext == OtherStep \/ (\E c \in Conns : ForeignTest(c))
                 \/ ForeignForceClose

ForeignSpec == ForeignInit /\ [][ForeignNext]_foreignVars
=============================================================================
