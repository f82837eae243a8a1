------------------------------- MODULE Mailbox -------------------------------
(***************************************************************************)
(* What an EventLoop promises to the threads that hand it functors: each   *)
(* functor is accepted once, queued functors run once each and in the      *)
(* order in which they were queued, a functor given to runInLoop() by the  *)
(* loop's own thread runs at once, and as long as the loop is open the     *)
(* oldest queued functor eventually runs.                                  *)
(***************************************************************************)
EXTENDS Sequences

CONSTANT Functors

VARIABLES inbox,  \* functors accepted and not yet run, oldest first
          done,   \* functors that ran, in the order they ran
          open    \* the loop has not been left

vars == <<inbox, done, open>>

SeqElems(s) == {s[i] : i \in DOMAIN s}

Known == SeqElems(inbox) \union SeqElems(done)

Init == inbox = <<>> /\ done = <<>> /\ open = TRUE

Queue(f) == /\ f \notin Known
            /\ inbox' = Append(inbox, f)
            /\ UNCHANGED <<done, open>>

RunAtOnce(f) == /\ open
                /\ f \notin Known
                /\ done' = Append(done, f)
                /\ UNCHANGED <<inbox, open>>

RunOldest == /\ open
             /\ inbox # <<>>
             /\ done' = Append(done, Head(inbox))
             /\ inbox' = Tail(inbox)
             /\ UNCHANGED open

Close == open /\ open' = FALSE /\ UNCHANGED <<inbox, done>>

Next == \/ \E f \in Functors : Queue(f) \/ RunAtOnce(f)
        \/ RunOldest
        \/ Close

Safety == Init /\ [][Next]_vars

Spec == Safety /\ WF_vars(RunOldest)
=============================================================================
