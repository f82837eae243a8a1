--------------------------- MODULE EventLoopProofs ---------------------------
(***************************************************************************)
(* Theorems about EventLoop, for every set of threads, functors and        *)
(* channels.                                                               *)
(***************************************************************************)
EXTENDS EventLoop, SequenceTheorems, TLAPS

(* The initial state satisfies the inductive invariant.                    *)
LEMMA InitInv == Init => LoopInv
  <1> SUFFICES ASSUME Init PROVE LoopInv
    OBVIOUS
  <1>1. TypeOK
    <2>1. quit_ \in BOOLEAN /\ callingPendingFunctors_ \in BOOLEAN
      BY DEF Init
    <2>2. /\ pendingFunctors_ \in Seq(Functors)
          /\ functors \in Seq(Functors)
          /\ ran \in Seq(Functors)
      BY DEF Init
    <2>3. wakeupfd_ \in Nat /\ activeChannel \in SUBSET AllChannels
      BY DEF Init
    <2>4. loopPC \in LoopPCs
      BY DEF Init, LoopPCs
    <2>5. callerPC \in [Callers -> {"idle", "pushed"}]
      BY DEF Init
    <2>6. QED
      BY <2>1, <2>2, <2>3, <2>4, <2>5 DEF TypeOK
  <1>2. BatchInv /\ WakeupInv
    BY DEF Init, BatchInv, WakeupInv
  <1>3. CallingInv
    BY DEF Init, CallingInv
  <1>4. CallbackInv
    BY DEF Init, CallbackInv, Callers
  <1>5. QED
    BY <1>1, <1>2, <1>3, <1>4 DEF LoopInv

(* Calls of any thread preserve the inductive invariant: a push either     *)
(* leaves its caller on the way to a wakeup(), or is made by the loop's    *)
(* own thread while it has still to swap the queue.                        *)
LEMMA CallInv ==
  ASSUME LoopInv, NEW t \in Callers, CallStep(t)
  PROVE  LoopInv'
  <1> USE DEF LoopInv, Callers
  <1>1. ASSUME NEW f \in Functors, Push(t, f)
        PROVE  LoopInv'
    <2>1. TypeOK'
      BY <1>1 DEF TypeOK, Push
    <2>2. BatchInv' /\ CallingInv'
      BY <1>1 DEF BatchInv, CallingInv, Push
    <2>3. CallbackInv'
      BY <1>1, ThreadsAssumption
         DEF CallbackInv, Push, MayCall, InCallback, TypeOK
    <2>4. WakeupInv'
      BY <1>1, ThreadsAssumption
         DEF WakeupInv, WakeupComing, NeedsWakeup, Push, MayCall, InCallback,
             CallingInv, TypeOK
    <2>5. QED
      BY <2>1, <2>2, <2>3, <2>4
  <1>2. ASSUME Wakeup(t)
        PROVE  LoopInv'
    <2>1. TypeOK'
      BY <1>2 DEF TypeOK, Wakeup
    <2>2. BatchInv' /\ CallingInv' /\ CallbackInv'
      BY <1>2 DEF BatchInv, CallingInv, CallbackInv, Wakeup, TypeOK
    <2>3. WakeupInv'
      BY <1>2 DEF WakeupInv, WakeupComing, NeedsWakeup, Wakeup, CallbackInv,
                  CallingInv, TypeOK
    <2>4. QED
      BY <2>1, <2>2, <2>3
  <1>3. ASSUME Quit(t)
        PROVE  LoopInv'
    BY <1>3 DEF Quit, TypeOK, BatchInv, CallingInv, CallbackInv, WakeupInv,
                WakeupComing, NeedsWakeup
  <1>4. QED
    BY <1>1, <1>2, <1>3 DEF CallStep

(* The steps of the loop's own thread preserve the inductive invariant.    *)
(* The one that could lose a wakeup is HandleEvent, which empties the      *)
(* eventfd: it is harmless because the swap still follows.                 *)
LEMMA LoopStepInv ==
  ASSUME LoopInv, LoopStep \/ EpollTimeout
  PROVE  LoopInv'
  <1> USE DEF LoopInv, TypeOK, LoopPCs, At, BatchInv, CallingInv, CallbackInv,
              WakeupInv, WakeupComing, NeedsWakeup
  <1>1. CASE Enter
    BY <1>1 DEF Enter
  <1>2. CASE TestQuit
    BY <1>2 DEF TestQuit
  <1>3. CASE EpollWait
    BY <1>3 DEF EpollWait, AllChannels
  <1>4. CASE EpollTimeout
    BY <1>4 DEF EpollTimeout
  <1>5. ASSUME NEW ch \in AllChannels, HandleEvent(ch)
        PROVE  LoopInv'
    BY <1>5 DEF HandleEvent, HandleRead
  <1>6. CASE BeginPending
    BY <1>6 DEF BeginPending
  <1>7. CASE SwapPending
    BY <1>7 DEF SwapPending
  <1>8. CASE RunFunctor
    BY <1>8 DEF RunFunctor
  <1>9. CASE FunctorReturns
    BY <1>9 DEF FunctorReturns
  <1>10. CASE EndPending
    BY <1>10 DEF EndPending
  <1>11. QED
    BY <1>1, <1>2, <1>3, <1>4, <1>5, <1>6, <1>7, <1>8, <1>9, <1>10
       DEF LoopStep

(* Every step keeps the invariant.                                         *)
LEMMA NextInv ==
  ASSUME LoopInv, [Next]_vars
  PROVE  LoopInv'
  <1>1. ASSUME NEW f \in Functors, RunDirectly(f)
        PROVE  LoopInv'
    BY <1>1 DEF RunDirectly, LoopInv, TypeOK, BatchInv, CallingInv,
                CallbackInv, WakeupInv, WakeupComing, NeedsWakeup
  <1>2. CASE UNCHANGED vars
    BY <1>2 DEF vars, LoopInv, TypeOK, BatchInv, CallingInv, CallbackInv,
                WakeupInv, WakeupComing, NeedsWakeup
  <1>3. QED
    BY <1>1, <1>2, CallInv, LoopStepInv DEF Next

(* LoopInv is an invariant of every loop: in particular its variables keep *)
(* their types.                                                            *)
THEOREM LoopInvariant == Spec => []LoopInv
  BY InitInv, NextInv, PTL DEF Spec

(* No lost wakeup (EventLoop.cpp:106-119), for any number of threads and   *)
(* functors: a loop blocked in epoll_wait with functors queued has been    *)
(* woken or is about to be.                                                *)
THEOREM WakeupNeverLost == Spec => []NoLostWakeup
  <1>1. LoopInv => NoLostWakeup
    BY DEF LoopInv, WakeupInv, NoLostWakeup
  <1>2. QED
    BY <1>1, LoopInvariant, PTL

-----------------------------------------------------------------------------
(* The elements of a concatenation.                                        *)
LEMMA ConcatElems ==
  ASSUME NEW S, NEW s \in Seq(S), NEW t \in Seq(S)
  PROVE  SeqElems(s \o t) \subseteq SeqElems(s) \union SeqElems(t)
  <1> SUFFICES ASSUME NEW i \in DOMAIN (s \o t)
               PROVE  (s \o t)[i] \in SeqElems(s) \union SeqElems(t)
    BY DEF SeqElems
  <1> DEFINE m == Len(s)
             n == Len(t)
  <1>1. /\ s \o t \in Seq(S)
        /\ Len(s \o t) = m + n
        /\ \A k \in 1 .. m + n :
             (s \o t)[k] = IF k <= m THEN s[k] ELSE t[k - m]
    BY ConcatProperties
  <1>2. m \in Nat /\ n \in Nat /\ DOMAIN s = 1..m /\ DOMAIN t = 1..n
    BY LenProperties
  <1>3. i \in 1 .. m + n
    BY <1>1, LenProperties
  <1>4. CASE i <= m
    BY <1>1, <1>2, <1>3, <1>4 DEF SeqElems
  <1>5. CASE i > m
    <2>1. i - m \in 1..n
      BY <1>2, <1>3, <1>5
    <2>2. (s \o t)[i] = t[i - m]
      BY <1>1, <1>2, <1>3, <1>5
    <2>3. QED
      BY <1>2, <2>1, <2>2 DEF SeqElems
  <1>6. QED
    BY <1>2, <1>3, <1>4, <1>5

(* A push lands at the end of the mailbox's inbox, whatever part of the    *)
(* batch is still to run.                                                  *)
LEMMA PushQueues ==
  ASSUME LoopInv, NEW t \in Callers, NEW f \in Functors, Push(t, f)
  PROVE  Box!Queue(f)
  <1> USE DEF LoopInv, TypeOK
  <1>1. f \notin Box!Known
    <2>1. SeqElems(functors \o pendingFunctors_)
            \subseteq SeqElems(functors) \union SeqElems(pendingFunctors_)
      BY ConcatElems
    <2>2. QED
      BY <2>1 DEF Push, Submitted, Box!Known, Box!SeqElems, SeqElems
  <1>2. functors \o Append(pendingFunctors_, f)
          = Append(functors \o pendingFunctors_, f)
    <2>1. <<f>> \in Seq(Functors)
      OBVIOUS
    <2>2. /\ Append(pendingFunctors_, f) = pendingFunctors_ \o <<f>>
          /\ functors \o pendingFunctors_ \in Seq(Functors)
      BY AppendIsConcat, ConcatProperties
    <2>3. Append(functors \o pendingFunctors_, f)
            = (functors \o pendingFunctors_) \o <<f>>
      BY <2>2, AppendIsConcat
    <2>4. QED
      BY <2>1, <2>2, <2>3, ConcatAssociative
  <1>3. QED
    BY <1>1, <1>2 DEF Push, Box!Queue

(* Head and tail of a concatenation whose first part is not empty.         *)
LEMMA HeadTailConcat ==
  ASSUME NEW S, NEW s \in Seq(S), NEW t \in Seq(S), s # <<>>
  PROVE  /\ Head(s \o t) = Head(s)
         /\ Tail(s \o t) = Tail(s) \o t
         /\ s \o t \in Seq(S) /\ s \o t # <<>>
  <1> DEFINE both == s \o t
             rest == Tail(s) \o t
             m == Len(s)
             n == Len(t)
  <1>1. m \in Nat \ {0} /\ n \in Nat
    BY EmptySeq, LenProperties
  <1>2. /\ both \in Seq(S)
        /\ Len(both) = m + n
        /\ \A i \in 1 .. m + n :
             both[i] = IF i <= m THEN s[i] ELSE t[i - m]
    BY ConcatProperties
  <1>3. both # <<>>
    BY <1>1, <1>2, EmptySeq
  <1>4. Head(both) = Head(s)
    <2>1. both[1] = s[1]
      BY <1>1, <1>2
    <2>2. QED
      BY <1>2, <1>3, <2>1
  <1>5. /\ Tail(s) \in Seq(S)
        /\ Len(Tail(s)) = m - 1
        /\ \A i \in 1 .. m - 1 : Tail(s)[i] = s[i + 1]
    BY HeadTailProperties
  <1>6. /\ Tail(both) \in Seq(S)
        /\ Len(Tail(both)) = m + n - 1
        /\ \A i \in 1 .. m + n - 1 : Tail(both)[i] = both[i + 1]
    BY <1>2, <1>3, HeadTailProperties
  <1>7. /\ rest \in Seq(S)
        /\ Len(rest) = (m - 1) + n
        /\ \A i \in 1 .. (m - 1) + n :
             rest[i] = IF i <= m - 1 THEN Tail(s)[i] ELSE t[i - (m - 1)]
    BY <1>5, ConcatProperties
  <1>8. \A i \in 1 .. m + n - 1 : Tail(both)[i] = rest[i]
    <2> SUFFICES ASSUME NEW i \in 1 .. m + n - 1
                 PROVE  Tail(both)[i] = rest[i]
      OBVIOUS
    <2> HIDE DEF both, rest, m, n
    <2>1. i + 1 \in 1 .. m + n /\ i \in 1 .. (m - 1) + n
      BY <1>1
    <2>2. Tail(both)[i] = IF i + 1 <= m THEN s[i + 1] ELSE t[(i + 1) - m]
      BY <1>2, <1>6, <2>1
    <2>3. CASE i <= m - 1
      <3>1. i \in 1 .. m - 1 /\ i + 1 <= m
        BY <1>1, <2>1, <2>3
      <3>2. Tail(s)[i] = s[i + 1]
        BY <1>5, <3>1
      <3>3. rest[i] = Tail(s)[i]
        BY <1>7, <2>1, <2>3
      <3>4. QED
        BY <2>2, <3>1, <3>2, <3>3
    <2>4. CASE ~(i <= m - 1)
      <3>1. (i + 1) - m = i - (m - 1) /\ ~(i + 1 <= m)
        BY <1>1, <2>4
      <3>2. QED
        BY <1>7, <2>1, <2>2, <2>4, <3>1
    <2>5. QED
      BY <2>3, <2>4
  <1>9. Tail(both) = rest
    <2> HIDE DEF both, rest, m, n
    <2>1. Len(Tail(both)) = Len(rest) /\ Len(Tail(both)) = m + n - 1
      BY <1>1, <1>6, <1>7
    <2>2. QED
      BY <1>6, <1>7, <1>8, <2>1, SeqEqual
  <1>10. QED
    BY <1>2, <1>3, <1>4, <1>9

(* Running the next functor of the batch removes the head of the inbox.    *)
LEMMA RunFunctorRuns ==
  ASSUME LoopInv, RunFunctor
  PROVE  Box!RunOldest
  <1>1. /\ functors \in Seq(Functors) /\ functors # <<>>
        /\ pendingFunctors_ \in Seq(Functors)
    BY DEF LoopInv, TypeOK, RunFunctor
  <1>2. /\ Head(functors \o pendingFunctors_) = Head(functors)
        /\ Tail(functors \o pendingFunctors_)
             = Tail(functors) \o pendingFunctors_
        /\ functors \o pendingFunctors_ # <<>>
    BY <1>1, HeadTailConcat
  <1>3. loopPC # "left" /\ loopPC' # "left"
    BY DEF RunFunctor, At
  <1>4. QED
    BY <1>2, <1>3 DEF RunFunctor, Box!RunOldest

(* Every step of the loop is a step of the mailbox or leaves it unchanged: *)
(* swapping the vectors moves the queue from one half of the inbox to the  *)
(* other, which is then empty.                                             *)
LEMMA StepRefines ==
  ASSUME LoopInv, [Next]_vars
  PROVE  [Box!Next]_(Box!vars)
  <1> USE DEF LoopInv, TypeOK, Box!vars
  <1>1. ASSUME NEW t \in Callers, CallStep(t)
        PROVE  [Box!Next]_(Box!vars)
    <2>1. ASSUME NEW f \in Functors, Push(t, f)
          PROVE  Box!Next
      BY <2>1, PushQueues DEF Box!Next
    <2>2. QED
      BY <1>1, <2>1 DEF CallStep, Wakeup, Quit
  <1>2. ASSUME NEW f \in Functors, RunDirectly(f)
        PROVE  Box!Next
    <2>1. f \notin Box!Known
      BY <1>2, ConcatElems
         DEF RunDirectly, Submitted, Box!Known, Box!SeqElems, SeqElems
    <2>2. loopPC # "left"
      BY <1>2, ThreadsAssumption DEF RunDirectly, MayCall, InCallback
    <2>3. Box!RunAtOnce(f)
      BY <1>2, <2>1, <2>2 DEF RunDirectly, Box!RunAtOnce
    <2>4. QED
      BY <2>3 DEF Box!Next
  <1>3. CASE SwapPending
    <2>1. functors = <<>>
      BY <1>3 DEF SwapPending, At, BatchInv
    <2>2. functors' \o pendingFunctors_' = functors \o pendingFunctors_
      BY <1>3, <2>1, ConcatEmptySeq DEF SwapPending
    <2>3. QED
      BY <1>3, <2>2 DEF SwapPending, At
  <1>4. CASE RunFunctor
    BY <1>4, RunFunctorRuns DEF Box!Next
  <1>5. CASE TestQuit
    BY <1>5 DEF TestQuit, At, Box!Next, Box!Close
  <1>6. CASE Enter \/ EpollWait \/ EpollTimeout
    BY <1>6 DEF Enter, EpollWait, EpollTimeout, At
  <1>7. ASSUME NEW ch \in AllChannels, HandleEvent(ch)
        PROVE  UNCHANGED Box!vars
    BY <1>7 DEF HandleEvent
  <1>8. CASE BeginPending \/ FunctorReturns \/ EndPending
    BY <1>8 DEF BeginPending, FunctorReturns, EndPending, At
  <1>9. CASE UNCHANGED vars
    BY <1>9 DEF vars
  <1>10. QED
    BY <1>1, <1>2, <1>3, <1>4, <1>5, <1>6, <1>7, <1>8, <1>9
       DEF Next, LoopStep

(* The loop implements the safety part of Mailbox: no functor is lost, run *)
(* twice or run before an older queued one, for any number of threads and  *)
(* functors.                                                               *)
THEOREM LoopIsMailbox == Spec => Box!Safety
  <1>1. Init => Box!Init
    BY DEF Init, Box!Init
  <1>2. QED
    BY <1>1, LoopInvariant, StepRefines, PTL DEF Spec, Box!Safety
=============================================================================
