------------------------- MODULE EventLoopThreadProofs -------------------------
(***************************************************************************)
(* Theorems about EventLoopThread, for every set of functors and channels  *)
(* and whenever the owner destroys it.                                     *)
(***************************************************************************)
EXTENDS EventLoopThread, TLAPS

(* The start: no thread, no loop.                                          *)
LEMMA InitThread == Init => ThreadInv
  <1> SUFFICES ASSUME Init PROVE ThreadInv
    OBVIOUS
  <1>1. EL!TypeOK
    <2>1. /\ pendingFunctors_ \in Seq(Functors)
          /\ functors \in Seq(Functors)
          /\ ran \in Seq(Functors)
      BY DEF Init, EL!Init
    <2>2. /\ quit_ \in BOOLEAN /\ callingPendingFunctors_ \in BOOLEAN
          /\ wakeupfd_ \in Nat
          /\ activeChannel \in SUBSET EL!AllChannels
          /\ callerPC \in [EL!Callers -> {"idle", "pushed"}]
      BY DEF Init, EL!Init
    <2>3. loopPC \in EL!LoopPCs
      BY DEF Init, EL!Init, EL!LoopPCs
    <2>4. QED
      BY <2>1, <2>2, <2>3 DEF EL!TypeOK
  <1>2. QED
    BY <1>1, OwnerAssumption
       DEF Init, EL!Init, ThreadInv, TypeOK, QuitInv, LoopOutlivesOwner

(* The steps of the loop's thread keep the types of the loop, do not set   *)
(* quit_, and leave the loop only when it is set.                          *)
LEMMA LoopSteps ==
  ASSUME EL!TypeOK, EL!LoopStep \/ EL!EpollTimeout
  PROVE  /\ EL!TypeOK'
         /\ quit_' => quit_
         /\ loopPC' = "left" => quit_
         /\ loopPC # "left"
  <1> USE DEF EL!TypeOK, EL!LoopPCs, EL!At
  <1>1. CASE EL!Enter
    BY <1>1 DEF EL!Enter
  <1>2. CASE EL!TestQuit
    BY <1>2 DEF EL!TestQuit
  <1>3. CASE EL!EpollWait
    BY <1>3 DEF EL!EpollWait, EL!AllChannels
  <1>4. CASE EL!EpollTimeout
    BY <1>4 DEF EL!EpollTimeout
  <1>5. ASSUME NEW ch \in EL!AllChannels, EL!HandleEvent(ch)
        PROVE  /\ EL!TypeOK'
               /\ quit_' => quit_
               /\ loopPC' = "left" => quit_
               /\ loopPC # "left"
    BY <1>5 DEF EL!HandleEvent, EL!HandleRead
  <1>6. CASE EL!BeginPending
    BY <1>6 DEF EL!BeginPending
  <1>7. CASE EL!SwapPending
    BY <1>7 DEF EL!SwapPending
  <1>8. CASE EL!RunFunctor
    BY <1>8 DEF EL!RunFunctor
  <1>9. CASE EL!FunctorReturns
    BY <1>9 DEF EL!FunctorReturns
  <1>10. CASE EL!EndPending
    BY <1>10 DEF EL!EndPending
  <1>11. QED
    BY <1>1, <1>2, <1>3, <1>4, <1>5, <1>6, <1>7, <1>8, <1>9, <1>10
       DEF EL!LoopStep

(* The owner's calls keep the types of the loop; of them only quit() sets  *)
(* quit_, and none moves the loop.                                         *)
LEMMA OwnerCalls ==
  ASSUME EL!TypeOK
  PROVE  /\ (\E f \in Functors : EL!Push(Owner, f)) \/ EL!Wakeup(Owner)
              => EL!TypeOK' /\ UNCHANGED <<quit_, loopPC>>
         /\ EL!Quit(Owner) => EL!TypeOK' /\ UNCHANGED loopPC
  <1>1. ASSUME NEW f \in Functors, EL!Push(Owner, f)
        PROVE  EL!TypeOK' /\ UNCHANGED <<quit_, loopPC>>
    BY <1>1 DEF EL!TypeOK, EL!Push, EL!Callers
  <1>2. ASSUME EL!Wakeup(Owner)
        PROVE  EL!TypeOK' /\ UNCHANGED <<quit_, loopPC>>
    BY <1>2 DEF EL!TypeOK, EL!Wakeup, EL!Callers
  <1>3. ASSUME EL!Quit(Owner)
        PROVE  EL!TypeOK' /\ UNCHANGED loopPC
    BY <1>3 DEF EL!TypeOK, EL!Quit
  <1>4. QED
    BY <1>1, <1>2, <1>3

(* Every step preserves the inductive invariant.                           *)
LEMMA NextThread == ThreadInv /\ [Next]_vars => ThreadInv'
  <1> SUFFICES ASSUME ThreadInv, [Next]_vars PROVE ThreadInv'
    OBVIOUS
  <1> USE DEF ThreadInv, TypeOK, QuitInv, LoopOutlivesOwner
  <1>1. CASE Start \/ SpuriousWakeup \/ CheckLoop \/ Destroy \/ Join
    <2>1. EL!TypeOK' /\ UNCHANGED <<quit_, loopPC>>
      BY <1>1 DEF Start, SpuriousWakeup, CheckLoop, Destroy, Join, loopVars,
                  EL!TypeOK
    <2>2. QED
      BY <1>1, <2>1 DEF Start, SpuriousWakeup, CheckLoop, Destroy, Join
  <1>2. CASE Publish \/ Unpublish \/ Finish
    <2>1. EL!TypeOK' /\ UNCHANGED <<quit_, loopPC>>
      BY <1>2 DEF Publish, Unpublish, Finish, loopVars, EL!TypeOK
    <2>2. CASE Publish
      BY <2>1, <2>2 DEF Publish
    <2>3. CASE Unpublish
      BY <2>1, <2>3 DEF Unpublish
    <2>4. CASE Finish
      BY <2>1, <2>4 DEF Finish
    <2>5. QED
      BY <1>2, <2>2, <2>3, <2>4
  <1>3. CASE RunLoop
    BY <1>3, LoopSteps DEF RunLoop
  <1>4. CASE Call
    BY <1>4, OwnerCalls DEF Call
  <1>5. CASE QuitLoop
    BY <1>5, OwnerCalls DEF QuitLoop
  <1>6. CASE UNCHANGED vars
    BY <1>6 DEF vars, loopVars, EL!TypeOK
  <1>7. QED
    BY <1>1, <1>2, <1>3, <1>4, <1>5, <1>6 DEF Next, OwnerWaits, Thread

(* The pointer loop_ is set exactly while the EventLoop runs on the        *)
(* thread's stack, and all variables keep their types.                     *)
THEOREM TypesHold == Spec => []TypeOK
  <1>1. Spec => []ThreadInv
    BY InitThread, NextThread, PTL DEF Spec
  <1>2. ThreadInv => TypeOK
    BY DEF ThreadInv
  <1>3. QED
    BY <1>1, <1>2, PTL

(* The owner never uses an EventLoop whose stack frame has been left, from *)
(* start() to the last access of the destructor, even if that runs before  *)
(* the loop was entered (EventLoopThread.cpp:7-18, :20-34, :36-52).        *)
THEOREM OwnerFindsLoop == Spec => []LoopOutlivesOwner
  <1>1. Spec => []ThreadInv
    BY InitThread, NextThread, PTL DEF Spec
  <1>2. ThreadInv => LoopOutlivesOwner
    BY DEF ThreadInv
  <1>3. QED
    BY <1>1, <1>2, PTL

(* start() does not sleep through the notification: while the owner waits  *)
(* the thread has still to publish its loop (EventLoopThread.cpp:27-31).   *)
THEOREM NotificationSeen == Spec => []WaitsForLoop
  <1> DEFINE Inv == ThreadInv /\ WaitsForLoop
  <1>1. Init => Inv
    BY InitThread DEF Init, WaitsForLoop
  <1>2. Inv /\ [Next]_vars => Inv'
    <2> SUFFICES ASSUME ThreadInv, WaitsForLoop, [Next]_vars
                 PROVE  WaitsForLoop'
      BY NextThread
    <2> USE DEF ThreadInv, TypeOK, QuitInv, LoopOutlivesOwner, WaitsForLoop
    <2>1. CASE Start \/ SpuriousWakeup \/ CheckLoop \/ Destroy \/ Join
      BY <2>1 DEF Start, SpuriousWakeup, CheckLoop, Destroy, Join
    <2>2. CASE Publish \/ Unpublish \/ Finish
      BY <2>2 DEF Publish, Unpublish, Finish
    <2>3. CASE RunLoop \/ Call \/ QuitLoop
      BY <2>3 DEF RunLoop, Call, QuitLoop
    <2>4. CASE UNCHANGED vars
      BY <2>4 DEF vars
    <2>5. QED
      BY <2>1, <2>2, <2>3, <2>4 DEF Next, OwnerWaits, Thread
  <1>3. QED
    BY <1>1, <1>2, PTL DEF Spec, Inv
=============================================================================
