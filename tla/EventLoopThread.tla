--------------------------- MODULE EventLoopThread ---------------------------
(***************************************************************************)
(* One EventLoopThread: the owner (a thread of the pool's creator) that    *)
(* starts it, uses the loop it got and destroys it, and the thread whose   *)
(* threadFunctor() holds the EventLoop on its stack. The loop itself is    *)
(* the component EventLoop, with the owner as its only foreign caller and  *)
(* with the owner's destructor as the only caller of quit(), as in src/.   *)
(***************************************************************************)
EXTENDS Naturals, Sequences

CONSTANTS Functors, Owner, Loop, Channels, WakeupChannel

ASSUME OwnerAssumption == Owner # Loop

VARIABLES quit_, callingPendingFunctors_, pendingFunctors_, functors,
          wakeupfd_, activeChannel, loopPC, callerPC, ran,
          loop_,     \* the pointer loop_ is not null
          ownerPC,   \* where start() or the destructor is
          threadPC   \* where threadFunctor() is

EL == INSTANCE EventLoop WITH Threads <- {Owner}

loopVars == <<quit_, callingPendingFunctors_, pendingFunctors_, functors,
              wakeupfd_, activeChannel, loopPC, callerPC, ran>>
vars == <<loopVars, loop_, ownerPC, threadPC>>

(* The types, and loop_ is set exactly from the publication of the loop to *)
(* the end of loop(): the next use of the object finds no stale pointer.   *)
TypeOK == /\ EL!TypeOK
          /\ loop_ \in BOOLEAN
          /\ loop_ <=> threadPC = "looping"
          /\ ownerPC \in {"new", "checking", "waiting", "running", "quitting",
                          "joining", "joined", "terminated"}
          /\ threadPC \in {"none", "constructing", "looping", "unwinding",
                           "finished"}

Init == /\ EL!Init
        /\ loop_ = FALSE
        /\ ownerPC = "new"
        /\ threadPC = "none"

-----------------------------------------------------------------------------
(* start()                                                                 *)
Start == /\ ownerPC = "new"
         /\ ownerPC' = "checking"
         /\ threadPC' = "constructing"
         /\ UNCHANGED <<loopVars, loop_>>

(* Variant for testing the properties: a wait without a test.              *)
WaitUntested == /\ ownerPC = "checking"
                /\ ownerPC' = "waiting"
                /\ UNCHANGED <<loopVars, loop_, threadPC>>

(* Under mutex_: the test of the while loop and, if it fails, the wait.    *)
CheckLoop == /\ ownerPC = "checking"
             /\ ownerPC' = IF loop_ THEN "running" ELSE "waiting"
             /\ UNCHANGED <<loopVars, loop_, threadPC>>

SpuriousWakeup == /\ ownerPC = "waiting"
                  /\ ownerPC' = "checking"
                  /\ UNCHANGED <<loopVars, loop_, threadPC>>

-----------------------------------------------------------------------------
(* threadFunctor()                                                         *)

(* Variant: loop_ is set without a notify_one().                           *)
PublishSilently == /\ threadPC = "constructing"
                   /\ loop_' = TRUE
                   /\ threadPC' = "looping"
                   /\ UNCHANGED <<loopVars, ownerPC>>

(* Under mutex_: loop_ is set and the owner notified.                      *)
Publish == /\ threadPC = "constructing"
           /\ loop_' = TRUE
           /\ threadPC' = "looping"
           /\ ownerPC' = IF ownerPC = "waiting" THEN "checking" ELSE ownerPC
           /\ UNCHANGED loopVars

(* Variant: loop_ keeps pointing at the EventLoop that goes away.          *)
UnpublishKeepsLoop == /\ threadPC = "looping"
                      /\ loopPC = "left"
                      /\ threadPC' = "unwinding"
                      /\ UNCHANGED <<loopVars, loop_, ownerPC>>

(* Variant: threadFunctor() returns without waiting for loop().            *)
LeaveEarly == /\ threadPC = "looping"
              /\ loop_' = FALSE
              /\ threadPC' = "unwinding"
              /\ UNCHANGED <<loopVars, ownerPC>>

RunLoop == /\ threadPC = "looping"
           /\ EL!LoopStep \/ EL!EpollTimeout
           /\ UNCHANGED <<loop_, ownerPC, threadPC>>

(* Under mutex_, after loop() returned: loop_ is cleared.                  *)
Unpublish == /\ threadPC = "looping"
             /\ loopPC = "left"
             /\ loop_' = FALSE
             /\ threadPC' = "unwinding"
             /\ UNCHANGED <<loopVars, ownerPC>>

(* The lock is released, the EventLoop on the stack is destroyed.          *)
Finish == /\ threadPC = "unwinding"
          /\ threadPC' = "finished"
          /\ UNCHANGED <<loopVars, loop_, ownerPC>>

-----------------------------------------------------------------------------
(* The owner uses the loop and destroys the EventLoopThread.               *)
Call == /\ ownerPC = "running"
        /\ \/ \E f \in Functors : EL!Push(Owner, f)
           \/ EL!Wakeup(Owner)
        /\ UNCHANGED <<loop_, ownerPC, threadPC>>

(* The unlocked test of loop_. With a null pointer the thread is neither   *)
(* told to quit nor joined, and destroying a joinable std::thread          *)
(* terminates the program.                                                 *)
Destroy == /\ ownerPC = "running"
           /\ callerPC[Owner] = "idle"
           /\ ownerPC' = IF loop_ THEN "quitting" ELSE "terminated"
           /\ UNCHANGED <<loopVars, loop_, threadPC>>

(* Variant: join() without quit().                                         *)
JoinWithoutQuit == /\ ownerPC = "quitting"
                   /\ ownerPC' = "joining"
                   /\ UNCHANGED <<loopVars, loop_, threadPC>>

QuitLoop == /\ ownerPC = "quitting"
            /\ EL!Quit(Owner)
            /\ ownerPC' = "joining"
            /\ UNCHANGED <<loop_, threadPC>>

Join == /\ ownerPC = "joining"
        /\ threadPC = "finished"
        /\ ownerPC' = "joined"
        /\ UNCHANGED <<loopVars, loop_, threadPC>>

-----------------------------------------------------------------------------
Thread == Publish \/ RunLoop \/ Unpublish \/ Finish
OwnerWaits == CheckLoop \/ QuitLoop \/ Join

Next == \/ Start \/ SpuriousWakeup \/ Call \/ Destroy
        \/ OwnerWaits
        \/ Thread

Spec == Init /\ [][Next]_vars

(* Both threads keep running, and epoll_wait returns after its 10 seconds: *)
(* quit() writes no eventfd, so leaving the loop does depend on that.      *)
FairSpec == /\ Spec
            /\ WF_vars(Thread)
            /\ WF_vars(OwnerWaits)
            /\ WF_vars(ownerPC = "running" /\ EL!Wakeup(Owner)
                         /\ UNCHANGED <<loop_, ownerPC, threadPC>>)
-----------------------------------------------------------------------------
(* start() returns, without relying on spurious wakeups of the condition   *)
(* variable: the notification cannot fall between the owner's test of      *)
(* loop_ and its wait.                                                     *)
StartReturns == ownerPC = "checking" ~> ownerPC = "running"

(* The destructor returns, if loop() has been entered by the time it calls *)
(* quit(): the loop sees quit_ and the thread is joined, also when the     *)
(* destructor began before that (EventLoopThread.cpp:7-18). An earlier     *)
(* quit() is undone by quit_ = false (EventLoop.cpp:59), and join() waits  *)
(* for ever.                                                               *)
DestructorReturns ==
  ownerPC = "quitting" /\ loopPC # "enter" ~> ownerPC = "joined"

(* The owner calls into the EventLoop only while the object exists: from   *)
(* the return of start() to the last access of the destructor the stack    *)
(* frame that holds it has not been left.                                  *)
LoopOutlivesOwner ==
  ownerPC \in {"running", "quitting"} => threadPC = "looping" /\ loop_

(* What LoopOutlivesOwner rests on: only the destructor's quit() lets the  *)
(* loop be left, the thread unwinds its stack behind the loop only, and    *)
(* there is a thread from start() on.                                      *)
QuitInv ==
  /\ quit_ \/ loopPC = "left" => ownerPC \in {"joining", "joined"}
  /\ threadPC \in {"unwinding", "finished"} => loopPC = "left"
  /\ ownerPC = "new" <=> threadPC = "none"

ThreadInv == TypeOK /\ QuitInv /\ LoopOutlivesOwner

(* The wait of start(): the owner waits only for a loop that is not there  *)
(* yet, since its test and its wait are one region under mutex_ and the    *)
(* notification follows the publication in another (EventLoopThread.cpp    *)
(* :27-31, :43-45).                                                        *)
WaitsForLoop == ownerPC = "waiting" => threadPC = "constructing"
=============================================================================
