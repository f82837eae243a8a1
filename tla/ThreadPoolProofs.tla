--------------------------- MODULE ThreadPoolProofs ---------------------------
(***************************************************************************)
(* Theorems about ThreadPool, for every set of workers, callers and tasks. *)
(***************************************************************************)
EXTENDS ThreadPool, SequenceTheorems, TLAPS

-----------------------------------------------------------------------------
(* Lemmas about the queue.                                                 *)

(* A pushed task goes behind what is there and leaves the front alone.     *)
LEMMA PushedBehind ==
  ASSUME NEW a \in Seq(Tasks), NEW b \in Seq(Tasks), NEW t \in Tasks
  PROVE  /\ Append(b, t) \in Seq(Tasks)
         /\ Append(b, t) # <<>>
         /\ b # <<>> => Head(Append(b, t)) = Head(b)
         /\ a \o Append(b, t) = Append(a \o b, t)
  <1>1. /\ Append(b, t) \in Seq(Tasks)
        /\ Append(b, t) # <<>>
        /\ b # <<>> => Head(Append(b, t)) = Head(b)
    OBVIOUS
  <1>2. <<t>> \in Seq(Tasks)
    OBVIOUS
  <1>3. Append(b, t) = b \o <<t>> /\ Append(a \o b, t) = (a \o b) \o <<t>>
    <2>1. a \o b \in Seq(Tasks)
      BY ConcatProperties
    <2>2. QED
      BY <2>1
  <1>4. (a \o b) \o <<t>> = a \o (b \o <<t>>)
    BY <1>2, ConcatAssociative
  <1>5. QED
    BY <1>1, <1>3, <1>4, Zenon

(* The task that is popped and begun moves from one history to the other.  *)
LEMMA PoppedBegins ==
  ASSUME NEW a \in Seq(Tasks), NEW b \in Seq(Tasks), b # <<>>
  PROVE  /\ Head(b) \in Tasks /\ Tail(b) \in Seq(Tasks)
         /\ Append(a, Head(b)) \in Seq(Tasks)
         /\ Append(a, Head(b)) \o Tail(b) = a \o b
  <1>1. /\ Head(b) \in Tasks /\ Tail(b) \in Seq(Tasks)
        /\ Append(a, Head(b)) \in Seq(Tasks)
    BY HeadTailProperties
  <1>2. <<Head(b)>> \in Seq(Tasks) /\ b = <<Head(b)>> \o Tail(b)
    BY <1>1
  <1>3. Append(a, Head(b)) = a \o <<Head(b)>>
    BY <1>1
  <1>4. (a \o <<Head(b)>>) \o Tail(b) = a \o (<<Head(b)>> \o Tail(b))
    BY <1>1, <1>2, ConcatAssociative
  <1>5. QED
    BY <1>1, <1>2, <1>3, <1>4, Zenon

-----------------------------------------------------------------------------

(* The start: no thread runs yet.                                          *)
LEMMA InitPool == Init => PoolInv
  <1> SUFFICES ASSUME Init PROVE PoolInv
    OBVIOUS
  <1>1. TypeOK
    BY DEF Init, TypeOK
  <1>2. ThreadsInv
    BY DEF Init, ThreadsInv
  <1>3. NobodySleepsOverWork
    BY DEF Init, NobodySleepsOverWork, Asleep
  <1>4. OneWorkerIsFifo /\ FrontStays
    BY DEF Init, OneWorkerIsFifo, FrontStays, At
  <1>5. QED
    BY <1>1, <1>2, <1>3, <1>4 DEF PoolInv

(* Types. *)
LEMMA TypeStep == TypeOK /\ ThreadsInv /\ Next => TypeOK'
  <1> SUFFICES ASSUME TypeOK, ThreadsInv, Next PROVE TypeOK'
    OBVIOUS
  <1>1. CASE OwnerStep
    <2>1. CASE Start \/ Started \/ Join
      BY <2>1 DEF TypeOK, Start, Started, Join
    <2>2. CASE Stop
      <3>1. workerPC' \in [Workers -> {"none", "test", "lock", "asleep",
                             "look", "front", "pop", "run", "done"}]
        BY <2>2 DEF TypeOK, Stop, Asleep
      <3>2. QED
        BY <2>2, <3>1 DEF TypeOK, Stop
    <2>3. CASE Destroy
      BY <2>3 DEF TypeOK, Destroy
    <2>4. QED
      BY <1>1, <2>1, <2>2, <2>3 DEF OwnerStep
  <1>2. ASSUME NEW w \in Workers, Spawn(w) \/ SpuriousWakeup(w)
        PROVE  TypeOK'
    BY <1>2 DEF TypeOK, Spawn, SpuriousWakeup, Moves, At, Goto
  <1>3. ASSUME NEW w \in Workers, WorkerStep(w)
        PROVE  TypeOK'
    <2>1. CASE TestRunning(w)
      BY <2>1 DEF TypeOK, TestRunning, Moves, At, Goto
    <2>2. CASE Wait(w) \/ Look(w) \/ TaskReturns(w)
      BY <2>2 DEF TypeOK, Wait, Look, TaskReturns, Moves, At, Goto
    <2>3. CASE Front(w)
      <3>1. CASE tasks_ = <<>>
        BY <2>3, <3>1 DEF TypeOK, Front
      <3>2. CASE tasks_ # <<>>
        <4>1. Head(tasks_) \in Tasks
          BY <3>2, PoppedBegins DEF TypeOK
        <4>2. QED
          BY <2>3, <3>2, <4>1 DEF TypeOK, Front, Goto
      <3>3. QED
        BY <3>1, <3>2
    <2>4. CASE Pop(w)
      <3>1. Tail(tasks_) \in Seq(Tasks)
        BY <2>4, PoppedBegins DEF TypeOK, Pop
      <3>2. task[w] \in Tasks
        BY <2>4, Zenon DEF ThreadsInv, Pop, At
      <3>3. QED
        BY <2>4, <3>1, <3>2 DEF TypeOK, Pop, Goto
    <2>5. CASE WaitRaces(w) \/ PopRaces(w)
      BY <2>5 DEF TypeOK, WaitRaces, PopRaces, Undefined
    <2>6. QED
      BY <1>3, <2>1, <2>2, <2>3, <2>4, <2>5 DEF WorkerStep
  <1>4. ASSUME NEW c \in Adders, AddStep(c)
        PROVE  TypeOK'
    <2>1. ASSUME NEW t \in Tasks, RunDirectly(c, t)
          PROVE  TypeOK'
      <3>1. Append(added, t) \in Seq(Tasks) /\ Append(ran, t) \in Seq(Tasks)
        BY PushedBehind DEF TypeOK
      <3>2. QED
        BY <2>1, <3>1 DEF TypeOK, RunDirectly
    <2>2. ASSUME NEW t \in Tasks, Push(c, t)
          PROVE  TypeOK'
      <3>1. Append(added, t) \in Seq(Tasks) /\ Append(tasks_, t) \in Seq(Tasks)
        BY PushedBehind DEF TypeOK
      <3>2. callerPC' \in [Adders -> {"idle", "notifying"}]
        BY <2>2 DEF TypeOK, Push
      <3>3. QED
        BY <2>2, <3>1, <3>2 DEF TypeOK, Push
    <2>3. CASE Notify(c)
      <3>1. workerPC' \in [Workers -> {"none", "test", "lock", "asleep",
                             "look", "front", "pop", "run", "done"}]
        BY <2>3 DEF TypeOK, Notify, Asleep, Goto
      <3>2. callerPC' \in [Adders -> {"idle", "notifying"}]
        BY <2>3 DEF TypeOK, Notify
      <3>3. QED
        BY <2>3, <3>1, <3>2 DEF TypeOK, Notify
    <2>4. ASSUME NEW t \in Tasks, PushRaces(c, t)
          PROVE  TypeOK'
      BY <2>4 DEF TypeOK, PushRaces, Undefined
    <2>5. QED
      BY <1>4, <2>1, <2>2, <2>3, <2>4 DEF AddStep
  <1>5. QED
    BY <1>1, <1>2, <1>3, <1>4 DEF Next

(* Who exists, and where. *)
LEMMA ThreadsStep == PoolInv /\ Next => ThreadsInv'
  <1> SUFFICES ASSUME TypeOK, ThreadsInv, Next PROVE ThreadsInv'
    BY DEF PoolInv
  <1>0. fate = "alive"
    BY DEF Next
  <1>1. CASE OwnerStep
    <2>1. CASE Start \/ Started \/ Join
      BY <1>0, <2>1 DEF TypeOK, ThreadsInv, Start, Started, Join
    <2>2. CASE Stop
      BY <1>0, <2>2 DEF TypeOK, ThreadsInv, Stop, Asleep
    <2>3. CASE Destroy
      BY <1>0, <2>3 DEF TypeOK, ThreadsInv, Destroy
    <2>4. QED
      BY <1>1, <2>1, <2>2, <2>3 DEF OwnerStep
  <1>2. ASSUME NEW w \in Workers, Spawn(w) \/ SpuriousWakeup(w)
        PROVE  ThreadsInv'
    BY <1>0, <1>2 DEF TypeOK, ThreadsInv, Spawn, SpuriousWakeup, Moves, At, Goto
  <1>3. ASSUME NEW w \in Workers, WorkerStep(w)
        PROVE  ThreadsInv'
    <2>1. CASE TestRunning(w)
      BY <1>0, <2>1 DEF TypeOK, ThreadsInv, TestRunning, Moves, At, Goto
    <2>2. CASE Wait(w) \/ Look(w) \/ TaskReturns(w)
      BY <1>0, <2>2
        DEF TypeOK, ThreadsInv, Wait, Look, TaskReturns, Moves, At, Goto
    <2>3. CASE Front(w)
      <3>1. tasks_ # <<>> => Head(tasks_) \in Tasks
        BY PoppedBegins DEF TypeOK
      <3>2. QED
        BY <1>0, <2>3, <3>1 DEF TypeOK, ThreadsInv, Front, Moves, At, Goto
    <2>4. CASE Pop(w)
      BY <1>0, <2>4 DEF TypeOK, ThreadsInv, Pop, Moves, At, Goto
    <2>5. CASE WaitRaces(w) \/ PopRaces(w)
      BY <2>5 DEF ThreadsInv, WaitRaces, PopRaces, Undefined
    <2>6. QED
      BY <1>3, <2>1, <2>2, <2>3, <2>4, <2>5 DEF WorkerStep
  <1>4. ASSUME NEW c \in Adders, AddStep(c)
        PROVE  ThreadsInv'
    <2>1. ASSUME NEW t \in Tasks, RunDirectly(c, t) \/ Push(c, t)
          PROVE  ThreadsInv'
      BY <1>0, <2>1 DEF TypeOK, ThreadsInv, RunDirectly, Push, MayPush,
                        MayAdd
    <2>2. CASE Notify(c)
      BY <1>0, <2>2 DEF TypeOK, ThreadsInv, Notify, Asleep, Goto
    <2>3. ASSUME NEW t \in Tasks, PushRaces(c, t)
          PROVE  ThreadsInv'
      BY <2>3 DEF ThreadsInv, PushRaces, Undefined
    <2>4. QED
      BY <1>4, <2>1, <2>2, <2>3 DEF AddStep
  <1>5. QED
    BY <1>1, <1>2, <1>3, <1>4 DEF Next

(* No lost wakeup: a worker falls asleep only over an empty queue of a     *)
(* running pool, a push leaves its caller on the way to a notify_one(),    *)
(* and a notify_one() that wakes nobody found a worker awake.              *)
LEMMA SleepStep == PoolInv /\ Next => NobodySleepsOverWork'
  <1> SUFFICES ASSUME TypeOK, ThreadsInv, NobodySleepsOverWork, Next
               PROVE  NobodySleepsOverWork'
    BY DEF PoolInv
  <1>0. fate = "alive"
    BY DEF Next
  <1> USE <1>0 DEF TypeOK, NobodySleepsOverWork, Asleep
  <1>1. CASE OwnerStep
    <2>1. CASE Start \/ Started \/ Join
      BY <2>1 DEF ThreadsInv, Start, Started, Join
    <2>2. CASE Stop
      BY <2>2 DEF Stop
    <2>3. CASE Destroy
      <3>1. CASE fate' = "alive" /\ (ownerPC = "started" => threads_ = {})
        <4>1. ownerPC = "new" => threads_ = {}
          BY DEF ThreadsInv
        <4>2. ownerPC = "stopped" => Asleep = {}
          BY DEF ThreadsInv
        <4>3. QED
          BY <2>3, <3>1, <4>1, <4>2 DEF Destroy
      <3>2. QED
        BY <2>3, <3>1 DEF Destroy
    <2>4. QED
      BY <1>1, <2>1, <2>2, <2>3 DEF OwnerStep
  <1>2. ASSUME NEW w \in Workers, Spawn(w)
        PROVE  NobodySleepsOverWork'
    BY <1>2 DEF ThreadsInv, Spawn, Goto
  <1>3. ASSUME NEW w \in Workers, SpuriousWakeup(w)
        PROVE  NobodySleepsOverWork'
    BY <1>3 DEF SpuriousWakeup, Moves, At, Goto
  <1>4. ASSUME NEW w \in Workers, WorkerStep(w)
        PROVE  NobodySleepsOverWork'
    <2>1. CASE Wait(w)
      BY <2>1 DEF Wait, Moves, At, Goto
    <2>2. CASE TestRunning(w) \/ Look(w) \/ TaskReturns(w)
      BY <2>2 DEF TestRunning, Look, TaskReturns, Moves, At, Goto
    <2>3. CASE Front(w)
      BY <2>3 DEF Front, Moves, At, Goto
    <2>4. CASE Pop(w)
      BY <2>4 DEF Pop, Moves, At, Goto
    <2>5. CASE WaitRaces(w) \/ PopRaces(w)
      BY <2>5 DEF WaitRaces, PopRaces, Undefined
    <2>6. QED
      BY <1>4, <2>1, <2>2, <2>3, <2>4, <2>5 DEF WorkerStep
  <1>5. ASSUME NEW c \in Adders, AddStep(c)
        PROVE  NobodySleepsOverWork'
    <2>1. ASSUME NEW t \in Tasks, RunDirectly(c, t)
          PROVE  NobodySleepsOverWork'
      BY <2>1 DEF ThreadsInv, RunDirectly
    <2>2. ASSUME NEW t \in Tasks, Push(c, t)
          PROVE  NobodySleepsOverWork'
      BY <2>2 DEF Push
    <2>3. CASE Notify(c)
      <3>1. CASE Asleep = {} /\ UNCHANGED workerPC
        BY <2>3, <3>1 DEF Notify, ThreadsInv
      <3>2. ASSUME NEW w \in Asleep, Goto(w, "lock")
            PROVE  NobodySleepsOverWork'
        BY <2>3, <3>2 DEF Notify, Goto
      <3>3. QED
        BY <2>3, <3>1, <3>2 DEF Notify
    <2>4. ASSUME NEW t \in Tasks, PushRaces(c, t)
          PROVE  NobodySleepsOverWork'
      BY <2>4 DEF PushRaces, Undefined
    <2>5. QED
      BY <1>5, <2>1, <2>2, <2>3, <2>4 DEF AddStep
  <1>6. QED
    BY <1>1, <1>2, <1>3, <1>4, <1>5 DEF Next

(* A lone worker: nobody else takes from the queue between its look, its   *)
(* copy and its pop.                                                       *)
LEMMA OneWorkerStep ==
  PoolInv /\ Next => OneWorkerIsFifo' /\ FrontStays'
  <1> DEFINE OneWorker == OneWorkerIsFifo /\ FrontStays
  <1> SUFFICES ASSUME TypeOK, ThreadsInv, OneWorker, Next, AtMostOneWorker',
                      fate' = "alive"
               PROVE  OneWorker'
    BY DEF PoolInv, OneWorkerIsFifo, FrontStays
  <1>0. AtMostOneWorker /\ fate = "alive" /\ ran \o tasks_ = added
    <2>1. threads_ \subseteq threads_'
      BY DEF Next, OwnerStep, AddStep, WorkerStep, Start, Started, Stop, Join,
             Destroy, Spawn, SpuriousWakeup, TestRunning, Wait, Look, Front,
             Pop, TaskReturns, Moves, RunDirectly, Push, Notify, WaitRaces,
             PopRaces, PushRaces, Undefined
    <2>2. QED
      BY <2>1 DEF Next, AtMostOneWorker, OneWorkerIsFifo
  <1> USE <1>0 DEF OneWorkerIsFifo, FrontStays, At, TypeOK
  <1>1. CASE OwnerStep
    <2>1. CASE Start \/ Started \/ Join
      BY <2>1 DEF Start, Started, Join
    <2>2. CASE Stop
      BY <2>2 DEF Stop, Asleep
    <2>3. CASE Destroy
      BY <2>3 DEF Destroy
    <2>4. QED
      BY <1>1, <2>1, <2>2, <2>3 DEF OwnerStep
  <1>2. ASSUME NEW w \in Workers, Spawn(w) \/ SpuriousWakeup(w)
        PROVE  OneWorker'
    BY <1>2 DEF Spawn, SpuriousWakeup, Moves, Goto
  <1>3. ASSUME NEW w \in Workers, WorkerStep(w)
        PROVE  OneWorker'
    <2>0. \A v \in threads_ : v = w
      <3>1. w \in threads_
        BY <1>3 DEF WorkerStep, TestRunning, Wait, WaitRaces, Look, Front,
                    Pop, PopRaces, TaskReturns, Moves
      <3>2. QED
        BY <3>1 DEF AtMostOneWorker
    <2>1. CASE TestRunning(w)
      BY <2>0, <2>1 DEF TestRunning, Moves, Goto
    <2>2. CASE Wait(w) \/ Look(w) \/ TaskReturns(w)
      BY <2>0, <2>2 DEF Wait, Look, TaskReturns, Moves, Goto
    <2>3. CASE Front(w)
      BY <2>0, <2>3 DEF Front, Goto
    <2>4. CASE Pop(w)
      <3>1. tasks_ # <<>> /\ task[w] = Head(tasks_)
        BY <2>0, <2>4 DEF Pop
      <3>2. /\ tasks_' = Tail(tasks_) /\ ran' = Append(ran, Head(tasks_))
            /\ Goto(w, "run") /\ UNCHANGED <<fate, threads_, added>>
        BY <2>4, <3>1 DEF Pop
      <3>3. ran' \o tasks_' = added
        BY <3>1, <3>2, PoppedBegins
      <3>4. QED
        BY <2>0, <3>2, <3>3 DEF Goto
    <2>5. CASE WaitRaces(w) \/ PopRaces(w)
      BY <2>5 DEF WaitRaces, PopRaces, Undefined
    <2>6. QED
      BY <1>3, <2>1, <2>2, <2>3, <2>4, <2>5 DEF WorkerStep
  <1>4. ASSUME NEW c \in Adders, AddStep(c)
        PROVE  OneWorker'
    <2>1. ASSUME NEW t \in Tasks, RunDirectly(c, t)
          PROVE  OneWorker'
      <3>1. tasks_ = <<>> /\ ran = added
        <4>1. tasks_ = <<>>
          BY <2>1 DEF RunDirectly, ThreadsInv
        <4>2. QED
          BY <4>1, ConcatEmptySeq
      <3>2. Append(ran, t) \o <<>> = Append(added, t)
        <4>1. Append(ran, t) \in Seq(Tasks)
          BY PushedBehind
        <4>2. QED
          BY <3>1, <4>1, ConcatEmptySeq
      <3>3. QED
        BY <2>1, <3>1, <3>2 DEF RunDirectly
    <2>2. ASSUME NEW t \in Tasks, Push(c, t)
          PROVE  OneWorker'
      <3>1. ran \o Append(tasks_, t) = Append(added, t)
        BY PushedBehind
      <3>2. /\ Append(tasks_, t) # <<>>
            /\ tasks_ # <<>> => Head(Append(tasks_, t)) = Head(tasks_)
        BY PushedBehind
      <3>3. QED
        BY <2>2, <3>1, <3>2 DEF Push
    <2>3. CASE Notify(c)
      BY <2>3 DEF Notify, Asleep, Goto
    <2>4. ASSUME NEW t \in Tasks, PushRaces(c, t)
          PROVE  FALSE
      BY <2>4 DEF PushRaces, Undefined
    <2>5. QED
      BY <1>4, <2>1, <2>2, <2>3, <2>4 DEF AddStep
  <1>5. QED
    BY <1>1, <1>2, <1>3, <1>4 DEF Next

(* Nothing changes.                                                        *)
LEMMA StutterPool == PoolInv /\ UNCHANGED vars => PoolInv'
  <1> SUFFICES ASSUME PoolInv, UNCHANGED vars PROVE PoolInv'
    OBVIOUS
  <1>1. TypeOK' /\ ThreadsInv'
    BY DEF PoolInv, TypeOK, ThreadsInv, vars
  <1>2. NobodySleepsOverWork'
    BY DEF PoolInv, NobodySleepsOverWork, Asleep, vars
  <1>3. OneWorkerIsFifo' /\ FrontStays'
    BY DEF PoolInv, OneWorkerIsFifo, FrontStays, AtMostOneWorker, At, vars
  <1>4. QED
    BY <1>1, <1>2, <1>3 DEF PoolInv

-----------------------------------------------------------------------------
(* The inductive invariant of the pool: types, which threads exist and     *)
(* where they are, nobody asleep over work, and the queue of a lone worker *)
(* (ThreadPool.cpp:13-97).                                                 *)
THEOREM PoolInvariant == Spec => []PoolInv
  <1>1. PoolInv /\ [Next]_vars => PoolInv'
    BY TypeStep, ThreadsStep, SleepStep, OneWorkerStep, StutterPool DEF PoolInv
  <1>2. QED
    BY InitPool, <1>1, PTL DEF Spec

(* No lost wakeup: no worker sleeps over a queued task nobody is about to  *)
(* announce, and none sleeps after stop() (ThreadPool.cpp:35-37, :59-65,   *)
(* :79-82).                                                                *)
THEOREM NoLostNotification == Spec => []NobodySleepsOverWork
  <1>1. PoolInv => NobodySleepsOverWork
    BY DEF PoolInv
  <1>2. QED
    BY PoolInvariant, <1>1, PTL

(* One worker begins the tasks once each, in the order of add(), although  *)
(* it looks, copies and pops after it gave the mutex back, as long as no   *)
(* access has ended undefined (ThreadPool.cpp:84-88).                      *)
THEOREM LoneWorkerKeepsOrder == Spec => []OneWorkerIsFifo
  <1>1. PoolInv => OneWorkerIsFifo
    BY DEF PoolInv
  <1>2. QED
    BY PoolInvariant, <1>1, PTL

(* A lone worker's step that ends undefined finds an empty queue at the    *)
(* front or at the pop, and that does not happen; so add() was pushing.    *)
LEMMA UndefinedByPush ==
  ASSUME PoolInv, Next, AtMostOneWorker, fate' = "undefined"
  PROVE  \E c \in Adders, t \in Tasks, w \in threads_ :
           c # w /\ MayPush(c, t) /\ Touches(w)
  <1>0. fate = "alive"
    BY DEF Next
  <1>1. CASE OwnerStep
    BY <1>0, <1>1 DEF OwnerStep, Start, Started, Stop, Join, Destroy
  <1>2. ASSUME NEW w \in Workers,
               Spawn(w) \/ WorkerStep(w) \/ SpuriousWakeup(w)
        PROVE  FALSE
    <2>1. CASE Front(w)
      <3>1. tasks_ # <<>>
        BY <1>0, <2>1 DEF PoolInv, FrontStays, Front, At
      <3>2. QED
        BY <1>0, <2>1, <3>1 DEF Front
    <2>2. CASE WaitRaces(w) \/ PopRaces(w)
      <3>1. w \in threads_ /\ threads_ \ {w} = {}
        BY <2>2 DEF WaitRaces, PopRaces, At, AtMostOneWorker
      <3>2. At(w, "pop") => tasks_ # <<>>
        BY <1>0, <3>1 DEF PoolInv, FrontStays
      <3>3. QED
        BY <2>2, <3>1, <3>2 DEF WaitRaces, PopRaces
    <2>3. CASE \/ Spawn(w) \/ SpuriousWakeup(w) \/ TestRunning(w) \/ Wait(w)
               \/ Look(w) \/ Pop(w) \/ TaskReturns(w)
      BY <1>0, <2>3 DEF Spawn, SpuriousWakeup, TestRunning, Wait, Look, Pop,
                        TaskReturns, Moves
    <2>4. QED
      BY <1>2, <2>1, <2>2, <2>3 DEF WorkerStep
  <1>3. ASSUME NEW c \in Adders, AddStep(c)
        PROVE  \E t \in Tasks, w \in threads_ :
                 c # w /\ MayPush(c, t) /\ Touches(w)
    <2>1. PICK t \in Tasks : PushRaces(c, t)
      BY <1>0, <1>3 DEF AddStep, RunDirectly, Push, Notify
    <2>2. PICK w \in threads_ : Touches(w)
      BY <2>1 DEF PushRaces
    <2>3. MayPush(c, t)
      BY <2>1 DEF PushRaces
    <2>4. threads_ \subseteq Workers
      BY DEF PoolInv, TypeOK
    <2>5. c # w
      BY <2>2, <2>3, <2>4 DEF MayPush, MayAdd, Touches, At
    <2>6. QED
      BY <2>2, <2>3, <2>5
  <1>4. QED
    BY <1>1, <1>2, <1>3 DEF Next

(* All that a lone worker's accesses outside of the mutex can run into is  *)
(* a push of add() at that time (ThreadPool.cpp:62 against :84-88).        *)
THEOREM OnlyPushesCanDisturb == Spec => OnlyPushesDisturb
  <1>1. PoolInv /\ [Next]_vars =>
          [AtMostOneWorker /\ fate' = "undefined"
             => \E c \in Adders, t \in Tasks, w \in threads_ :
                  c # w /\ MayPush(c, t) /\ Touches(w)]_vars
    BY UndefinedByPush
  <1>2. QED
    BY PoolInvariant, <1>1, PTL DEF Spec, OnlyPushesDisturb
=============================================================================
