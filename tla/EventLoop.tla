------------------------------ MODULE EventLoop ------------------------------
(***************************************************************************)
(* One EventLoop: the thread that runs loop(), the threads that hand it    *)
(* functors through queueInLoop()/runInLoop(), and the eventfd that wakes  *)
(* it from epoll_wait.                                                     *)
(*                                                                         *)
(* mutex_ protects one push and one swap, so each of these is one step.    *)
(* Everything else a thread does between two shared accesses is a step of  *)
(* its own: a push and the wakeup() that follows it, the two assignments   *)
(* of callingPendingFunctors_, the reset of quit_ on entry of loop().      *)
(* Functors stands for the individual calls of queueInLoop()/runInLoop(),  *)
(* hence each is submitted at most once.                                   *)
(***************************************************************************)
EXTENDS Naturals, Sequences

CONSTANTS Functors,      \* the functors submitted, one per call
          Threads,       \* the threads other than the loop's own
          Loop,          \* the thread that constructed the loop: threadId_
          Channels,      \* the channels registered besides wakeupChannel
          WakeupChannel

ASSUME ThreadsAssumption == Loop \notin Threads
ASSUME ChannelsAssumption == WakeupChannel \notin Channels

VARIABLES quit_,
          callingPendingFunctors_,
          pendingFunctors_,
          functors,        \* the local vector of doPendingFunctor()
          wakeupfd_,       \* the eventfd's counter
          activeChannel,   \* returned by epoll_wait, not yet handled
          loopPC,          \* where the loop's thread is
          callerPC,        \* "pushed": between the push and the wakeup() test
          ran              \* history: the functors started, in order

vars == <<quit_, callingPendingFunctors_, pendingFunctors_, functors,
          wakeupfd_, activeChannel, loopPC, callerPC, ran>>

Callers == Threads \union {Loop}
AllChannels == Channels \union {WakeupChannel}
SeqElems(s) == {s[i] : i \in DOMAIN s}

LoopPCs == {"enter", "test", "poll", "dispatch", "swap", "run", "functor",
            "left"}

TypeOK == /\ quit_ \in BOOLEAN
          /\ callingPendingFunctors_ \in BOOLEAN
          /\ pendingFunctors_ \in Seq(Functors)
          /\ functors \in Seq(Functors)
          /\ wakeupfd_ \in Nat
          /\ activeChannel \in SUBSET AllChannels
          /\ loopPC \in LoopPCs
          /\ callerPC \in [Callers -> {"idle", "pushed"}]
          /\ ran \in Seq(Functors)

Init == /\ quit_ = FALSE
        /\ callingPendingFunctors_ = FALSE
        /\ pendingFunctors_ = <<>>
        /\ functors = <<>>
        /\ wakeupfd_ = 0
        /\ activeChannel = {}
        /\ loopPC = "enter"
        /\ callerPC = [t \in Callers |-> "idle"]
        /\ ran = <<>>

-----------------------------------------------------------------------------
(* queueInLoop(), runInLoop() and quit(), called by any thread.            *)

Submitted == SeqElems(ran) \union SeqElems(functors)
               \union SeqElems(pendingFunctors_)

(* User code runs on the loop's thread only inside a channel's handler or  *)
(* inside a functor.                                                       *)
InCallback == \/ loopPC = "functor"
              \/ loopPC = "dispatch" /\ activeChannel \intersect Channels # {}

MayCall(t) == callerPC[t] = "idle" /\ (t \in Threads \/ InCallback)

Push(t, f) ==
  /\ MayCall(t)
  /\ f \notin Submitted
  /\ pendingFunctors_' = Append(pendingFunctors_, f)
  /\ callerPC' = [callerPC EXCEPT ![t] = "pushed"]
  /\ UNCHANGED <<quit_, callingPendingFunctors_, functors, wakeupfd_,
                 activeChannel, loopPC, ran>>

(* Variant for testing the properties: the batch being run is forgotten.   *)
NeedsWakeupNotInBatch(t) == t # Loop

NeedsWakeup(t) == t # Loop \/ callingPendingFunctors_

Wakeup(t) ==
  /\ callerPC[t] = "pushed"
  /\ wakeupfd_' = IF NeedsWakeup(t) THEN wakeupfd_ + 1 ELSE wakeupfd_
  /\ callerPC' = [callerPC EXCEPT ![t] = "idle"]
  /\ UNCHANGED <<quit_, callingPendingFunctors_, pendingFunctors_, functors,
                 activeChannel, loopPC, ran>>

(* runInLoop() on the loop's thread calls the functor directly; on another *)
(* thread it is queueInLoop().                                             *)
RunDirectly(f) ==
  /\ MayCall(Loop)
  /\ f \notin Submitted
  /\ ran' = Append(ran, f)
  /\ UNCHANGED <<quit_, callingPendingFunctors_, pendingFunctors_, functors,
                 wakeupfd_, activeChannel, loopPC, callerPC>>

Quit(t) ==
  /\ MayCall(t)
  /\ quit_' = TRUE
  /\ UNCHANGED <<callingPendingFunctors_, pendingFunctors_, functors,
                 wakeupfd_, activeChannel, loopPC, callerPC, ran>>

-----------------------------------------------------------------------------
(* loop(), one action per step of the loop's thread.                       *)

At(pc) == loopPC = pc /\ callerPC[Loop] = "idle"

Enter ==
  /\ At("enter")
  /\ quit_' = FALSE
  /\ loopPC' = "test"
  /\ UNCHANGED <<callingPendingFunctors_, pendingFunctors_, functors,
                 wakeupfd_, activeChannel, callerPC, ran>>

TestQuit ==
  /\ At("test")
  /\ loopPC' = IF quit_ THEN "left" ELSE "poll"
  /\ UNCHANGED <<quit_, callingPendingFunctors_, pendingFunctors_, functors,
                 wakeupfd_, activeChannel, callerPC, ran>>

(* epoll_wait with a ready descriptor: wakeupChannel when the counter is   *)
(* positive, the other channels whenever their peers make them so.         *)
EpollWait ==
  /\ At("poll")
  /\ \E ready \in SUBSET Channels :
       activeChannel' = ready \union
                          (IF wakeupfd_ > 0 THEN {WakeupChannel} ELSE {})
  /\ activeChannel' # {}
  /\ loopPC' = "dispatch"
  /\ UNCHANGED <<quit_, callingPendingFunctors_, pendingFunctors_, functors,
                 wakeupfd_, callerPC, ran>>

(* epoll_wait gives up after 10 seconds.                                   *)
EpollTimeout ==
  /\ At("poll")
  /\ wakeupfd_ = 0
  /\ activeChannel' = {}
  /\ loopPC' = "dispatch"
  /\ UNCHANGED <<quit_, callingPendingFunctors_, pendingFunctors_, functors,
                 wakeupfd_, callerPC, ran>>

(* Variant: handleRead() does not read the eventfd.                        *)
HandleReadNothing(ch) == wakeupfd_

(* wakeupChannel's read callback: reading an eventfd resets its counter.   *)
HandleRead(ch) == IF ch = WakeupChannel THEN 0 ELSE wakeupfd_

(* handleEvent() of one active channel; what the other channels' handlers  *)
(* do to the loop are the calls above.                                     *)
HandleEvent(ch) ==
  /\ At("dispatch")
  /\ ch \in activeChannel
  /\ activeChannel' = activeChannel \ {ch}
  /\ wakeupfd_' = HandleRead(ch)
  /\ UNCHANGED <<quit_, callingPendingFunctors_, pendingFunctors_, functors,
                 loopPC, callerPC, ran>>

BeginPending ==
  /\ At("dispatch")
  /\ activeChannel = {}
  /\ callingPendingFunctors_' = TRUE
  /\ loopPC' = "swap"
  /\ UNCHANGED <<quit_, pendingFunctors_, functors, wakeupfd_, activeChannel,
                 callerPC, ran>>

(* Variant: the shared vector is copied and not emptied.                   *)
CopyPending ==
  /\ At("swap")
  /\ functors' = pendingFunctors_
  /\ loopPC' = "run"
  /\ UNCHANGED <<quit_, callingPendingFunctors_, pendingFunctors_, wakeupfd_,
                 activeChannel, callerPC, ran>>

SwapPending ==
  /\ At("swap")
  /\ functors' = pendingFunctors_
  /\ pendingFunctors_' = <<>>
  /\ loopPC' = "run"
  /\ UNCHANGED <<quit_, callingPendingFunctors_, wakeupfd_, activeChannel,
                 callerPC, ran>>

RunFunctor ==
  /\ At("run")
  /\ functors # <<>>
  /\ ran' = Append(ran, Head(functors))
  /\ functors' = Tail(functors)
  /\ loopPC' = "functor"
  /\ UNCHANGED <<quit_, callingPendingFunctors_, pendingFunctors_, wakeupfd_,
                 activeChannel, callerPC>>

FunctorReturns ==
  /\ At("functor")
  /\ loopPC' = "run"
  /\ UNCHANGED <<quit_, callingPendingFunctors_, pendingFunctors_, functors,
                 wakeupfd_, activeChannel, callerPC, ran>>

(* Variant: callingPendingFunctors_ stays set.                             *)
EndPendingNoReset ==
  /\ At("run")
  /\ functors = <<>>
  /\ loopPC' = "test"
  /\ UNCHANGED <<quit_, callingPendingFunctors_, pendingFunctors_, functors,
                 wakeupfd_, activeChannel, callerPC, ran>>

EndPending ==
  /\ At("run")
  /\ functors = <<>>
  /\ callingPendingFunctors_' = FALSE
  /\ loopPC' = "test"
  /\ UNCHANGED <<quit_, pendingFunctors_, functors, wakeupfd_, activeChannel,
                 callerPC, ran>>

-----------------------------------------------------------------------------
LoopStep == \/ Enter \/ TestQuit \/ EpollWait
            \/ \E ch \in AllChannels : HandleEvent(ch)
            \/ BeginPending \/ SwapPending
            \/ RunFunctor \/ FunctorReturns \/ EndPending

CallStep(t) == \/ \E f \in Functors : Push(t, f)
               \/ Wakeup(t)
               \/ Quit(t)

Next == \/ LoopStep
        \/ EpollTimeout
        \/ \E t \in Callers : CallStep(t)
        \/ \E f \in Functors : RunDirectly(f)

Spec == Init /\ [][Next]_vars

(* Threads keep running and callbacks return: the loop's thread takes its  *)
(* next step, a caller that pushed reaches its wakeup(). In epoll_wait the *)
(* only thing sure to end the wait is a readable eventfd: nothing is       *)
(* assumed of the peers or of the 10 second timeout, so no functor may     *)
(* depend on them to be run.                                               *)
Progress == LoopStep /\ (loopPC = "poll" => wakeupfd_ > 0)

Fairness == /\ WF_vars(Progress)
            /\ \A t \in Callers : WF_vars(Wakeup(t))

FairSpec == Spec /\ Fairness
-----------------------------------------------------------------------------
(***************************************************************************)
(* Properties.                                                             *)
(***************************************************************************)

(* Some caller is between its push and a wakeup() it is going to make.     *)
WakeupComing == \E t \in Callers : callerPC[t] = "pushed" /\ NeedsWakeup(t)

(* The inductive invariant. The local vector holds functors only while a   *)
(* batch runs, callingPendingFunctors_ covers the swap and the whole       *)
(* batch, the loop's own thread is between push and wakeup() test only     *)
(* inside a callback, and whenever the loop is past the swap (so that the  *)
(* queue will not be looked at before the next epoll_wait) a non-empty     *)
(* queue is announced.                                                     *)
BatchInv == functors # <<>> => loopPC \in {"run", "functor"}
CallingInv == callingPendingFunctors_ <=> loopPC \in {"swap", "run", "functor"}
CallbackInv == callerPC[Loop] = "pushed" => loopPC \in {"dispatch", "functor"}
WakeupInv == loopPC \notin {"dispatch", "swap"} /\ pendingFunctors_ # <<>>
               => wakeupfd_ > 0 \/ WakeupComing
LoopInv == TypeOK /\ BatchInv /\ CallingInv /\ CallbackInv /\ WakeupInv

(* No lost wakeup: the loop never sits in epoll_wait over a non-empty      *)
(* queue unless the eventfd is readable or about to be written. This is    *)
(* what the test of queueInLoop() (EventLoop.cpp:114) has to achieve for   *)
(* pushes that come while a batch runs as well as for those of other       *)
(* threads.                                                                *)
NoLostWakeup == loopPC = "poll" /\ pendingFunctors_ # <<>>
                  => wakeupfd_ > 0 \/ WakeupComing

(* The loop does not spin: a readable eventfd is emptied again, unless the *)
(* loop is left first.                                                     *)
WakeupDrained == wakeupfd_ > 0 ~> wakeupfd_ = 0 \/ loopPC = "left"

(* The loop implements the mailbox: the batch being run followed by the    *)
(* shared vector is the inbox, so swapping the two vectors neither loses,  *)
(* duplicates nor reorders a functor, and none waits for the timeout.      *)
Box == INSTANCE Mailbox WITH inbox <- functors \o pendingFunctors_,
                             done <- ran,
                             open <- loopPC # "left"

ImplementsMailbox == Box!Spec
=============================================================================
