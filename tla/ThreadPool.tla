------------------------------ MODULE ThreadPool ------------------------------
(***************************************************************************)
(* The pool of computing threads: start(), add(), runInThread(), stop()    *)
(* and the destructor, with the mutex and the condition variable between   *)
(* them. A region under the mutex is one step; what the code does outside  *)
(* of it (testing running_, looking at the queue after the wait, taking    *)
(* the front, popping, notifying) is a step each. These accesses to the    *)
(* std::deque are not atomic: one that overlaps an access of another       *)
(* thread, of which either writes, has its effect or ends in "undefined".  *)
(* Tasks are opaque; a task may itself call add().                         *)
(***************************************************************************)
EXTENDS Naturals, Sequences

CONSTANTS Workers,  \* the threads start() can create
          Callers,  \* other threads that call add()
          Tasks,    \* the tasks, each added once
          NoTask

ASSUME DistinctAssumption == Workers \intersect Callers = {}
ASSUME NoTaskAssumption == NoTask \notin Tasks

VARIABLES running_,
          tasks_,
          threads_,   \* the workers created so far
          workerPC,   \* where each worker is in runInThread()
          task,       \* its local variable task
          callerPC,   \* "notifying" between push() and notify_one()
          ownerPC,    \* the thread that starts, stops and destroys the pool
          fate,       \* how the process fares
          added, ran  \* history: tasks accepted by add(), tasks begun

vars == <<running_, tasks_, threads_, workerPC, task, callerPC, ownerPC, fate,
          added, ran>>

Adders == Callers \union Workers

TypeOK == /\ running_ \in BOOLEAN
          /\ tasks_ \in Seq(Tasks)
          /\ threads_ \subseteq Workers
          /\ workerPC \in [Workers -> {"none", "test", "lock", "asleep", "look",
                                       "front", "pop", "run", "done"}]
          /\ task \in [Workers -> Tasks \union {NoTask}]
          /\ callerPC \in [Adders -> {"idle", "notifying"}]
          /\ ownerPC \in {"new", "starting", "started", "joining", "stopped",
                          "destroyed"}
          /\ fate \in {"alive", "terminated", "undefined"}
          /\ added \in Seq(Tasks) /\ ran \in Seq(Tasks)

Init == /\ running_ = TRUE
        /\ tasks_ = <<>>
        /\ threads_ = {}
        /\ workerPC = [w \in Workers |-> "none"]
        /\ task = [w \in Workers |-> NoTask]
        /\ callerPC = [c \in Adders |-> "idle"]
        /\ ownerPC = "new" /\ fate = "alive"
        /\ added = <<>> /\ ran = <<>>

Asleep == {w \in threads_ : workerPC[w] = "asleep"}

At(w, pc) == w \in threads_ /\ workerPC[w] = pc
Goto(w, pc) == workerPC' = [workerPC EXCEPT ![w] = pc]

(* Worker w may be in the middle of empty(), front() or pop() outside of   *)
(* the mutex, and the outcome of an access that overlaps it is undefined.  *)
Touches(w) == At(w, "look") \/ At(w, "front") \/ At(w, "pop")
Undefined == /\ fate' = "undefined"
             /\ UNCHANGED <<running_, tasks_, threads_, workerPC, task,
                            callerPC, ownerPC, added, ran>>

-----------------------------------------------------------------------------
(* start(): running_ is set, then the threads are created one after        *)
(* another; the first may be running while the next is created.            *)
Start == /\ ownerPC = "new"
         /\ ownerPC' = "starting"
         /\ running_' = TRUE
         /\ UNCHANGED <<tasks_, threads_, workerPC, task, callerPC, fate,
                        added, ran>>

Spawn(w) == /\ ownerPC = "starting" /\ w \notin threads_
            /\ threads_' = threads_ \union {w}
            /\ Goto(w, "test")
            /\ UNCHANGED <<running_, tasks_, task, callerPC, ownerPC, fate,
                           added, ran>>

Started == /\ ownerPC = "starting"
           /\ ownerPC' = "started"
           /\ UNCHANGED <<running_, tasks_, threads_, workerPC, task, callerPC,
                          fate, added, ran>>

-----------------------------------------------------------------------------
(* add(), by any thread that got the pool after start() returned; a worker *)
(* calls it from the task it runs.                                         *)
MayAdd(c, t) == /\ ownerPC \in {"started", "joining", "stopped"}
                /\ callerPC[c] = "idle"
                /\ c \in Workers => At(c, "run")
                /\ \A i \in DOMAIN added : added[i] # t

(* Without threads the caller runs the task itself.                        *)
RunDirectly(c, t) ==
  /\ MayAdd(c, t) /\ threads_ = {}
  /\ added' = Append(added, t) /\ ran' = Append(ran, t)
  /\ UNCHANGED <<running_, tasks_, threads_, workerPC, task, callerPC,
                 ownerPC, fate>>

MayPush(c, t) == MayAdd(c, t) /\ threads_ # {} /\ running_

(* Variant for testing the properties: nobody is notified.                 *)
PushSilently(c, t) ==
  /\ MayPush(c, t)
  /\ tasks_' = Append(tasks_, t)
  /\ added' = Append(added, t)
  /\ UNCHANGED <<running_, threads_, workerPC, task, callerPC, ownerPC, fate,
                 ran>>

(* The region under the mutex: push() unless the pool has been stopped.    *)
(* After stop() the call returns at once, which changes nothing.           *)
Push(c, t) ==
  /\ MayPush(c, t)
  /\ tasks_' = Append(tasks_, t)
  /\ added' = Append(added, t)
  /\ callerPC' = [callerPC EXCEPT ![c] = "notifying"]
  /\ UNCHANGED <<running_, threads_, workerPC, task, ownerPC, fate, ran>>

(* push() while a worker accesses the queue: workers do not hold the mutex *)
(* then.                                                                   *)
PushRaces(c, t) ==
  /\ MayPush(c, t)
  /\ \E w \in threads_ : Touches(w)
  /\ Undefined

(* notify_one(), after the mutex was released.                             *)
Notify(c) ==
  /\ callerPC[c] = "notifying"
  /\ callerPC' = [callerPC EXCEPT ![c] = "idle"]
  /\ \/ Asleep = {} /\ UNCHANGED workerPC
     \/ \E w \in Asleep : Goto(w, "lock")
  /\ UNCHANGED <<running_, tasks_, threads_, task, ownerPC, fate, added, ran>>

-----------------------------------------------------------------------------
(* runInThread()                                                           *)
Moves(w, from, to) ==
  /\ At(w, from) /\ Goto(w, to)
  /\ UNCHANGED <<running_, tasks_, threads_, task, callerPC, ownerPC, fate,
                 added, ran>>

TestRunning(w) == Moves(w, "test", IF running_ THEN "lock" ELSE "done")

(* Variant: the wait has no predicate.                                     *)
WaitUntested(w) == Moves(w, "lock", IF running_ THEN "asleep" ELSE "look")

(* The region under the mutex: the predicate of the wait.                  *)
Wait(w) ==
  Moves(w, "lock", IF ~running_ \/ tasks_ # <<>> THEN "look" ELSE "asleep")

(* The predicate's empty() while another worker pops.                      *)
WaitRaces(w) == /\ At(w, "lock")
                /\ \E v \in threads_ \ {w} : At(v, "pop")
                /\ Undefined

SpuriousWakeup(w) == Moves(w, "asleep", "lock")

(* Variant: the worker trusts that its wait ended for a task.              *)
LookUntested(w) == Moves(w, "look", "front")

(* Outside of the mutex: is there a task?                                  *)
Look(w) == Moves(w, "look", IF tasks_ = <<>> THEN "test" ELSE "front")

(* task = tasks_.front(): of an empty queue the result is undefined.       *)
Front(w) ==
  /\ At(w, "front")
  /\ IF tasks_ = <<>>
     THEN fate' = "undefined" /\ UNCHANGED <<workerPC, task>>
     ELSE /\ task' = [task EXCEPT ![w] = Head(tasks_)]
          /\ Goto(w, "pop")
          /\ UNCHANGED fate
  /\ UNCHANGED <<running_, tasks_, threads_, callerPC, ownerPC, added, ran>>

(* Variant: the task is copied and left in the queue.                      *)
PopForgotten(w) ==
  /\ At(w, "pop")
  /\ Goto(w, "run")
  /\ ran' = Append(ran, task[w])
  /\ UNCHANGED <<running_, tasks_, threads_, task, callerPC, ownerPC, fate,
                 added>>

(* tasks_.pop(), and the task begins.                                      *)
Pop(w) ==
  /\ At(w, "pop") /\ tasks_ # <<>>
  /\ tasks_' = Tail(tasks_)
  /\ ran' = Append(ran, task[w])
  /\ Goto(w, "run")
  /\ UNCHANGED <<running_, threads_, task, callerPC, ownerPC, fate, added>>

(* An empty queue, or another worker in the middle of looking at, copying  *)
(* or popping the same element.                                            *)
PopRaces(w) ==
  /\ At(w, "pop")
  /\ tasks_ = <<>> \/ \E v \in threads_ \ {w} : Touches(v)
  /\ Undefined

(* The task returns, when the calls it made have returned.                 *)
TaskReturns(w) == callerPC[w] = "idle" /\ Moves(w, "run", "test")

-----------------------------------------------------------------------------
(* Variant: only one of the sleeping workers is told.                      *)
StopNotifiesOne ==
  /\ ownerPC = "started"
  /\ running_' = FALSE
  /\ \/ Asleep = {} /\ UNCHANGED workerPC
     \/ \E w \in Asleep : Goto(w, "lock")
  /\ ownerPC' = "joining"
  /\ UNCHANGED <<tasks_, threads_, task, callerPC, fate, added, ran>>

(* stop(): under the mutex running_ is cleared and everyone notified.      *)
(* Tasks still queued are left there.                                      *)
Stop == /\ ownerPC = "started"
        /\ running_' = FALSE
        /\ workerPC' = [w \in Workers |-> IF w \in Asleep THEN "lock"
                                          ELSE workerPC[w]]
        /\ ownerPC' = "joining"
        /\ UNCHANGED <<tasks_, threads_, task, callerPC, fate, added, ran>>

Join == /\ ownerPC = "joining"
        /\ \A w \in threads_ : workerPC[w] = "done"
        /\ ownerPC' = "stopped"
        /\ UNCHANGED <<running_, tasks_, threads_, workerPC, task, callerPC,
                       fate, added, ran>>

(* ~ThreadPool(), when nobody is in add() any more. It joins nothing: the  *)
(* destructor of a thread that was not joined ends the process.            *)
Destroy == /\ ownerPC \in {"new", "started", "stopped"}
           /\ \A c \in Callers : callerPC[c] = "idle"
           /\ IF ownerPC = "started" /\ threads_ # {}
              THEN fate' = "terminated" /\ UNCHANGED ownerPC
              ELSE ownerPC' = "destroyed" /\ UNCHANGED fate
           /\ running_' = FALSE
           /\ UNCHANGED <<tasks_, threads_, workerPC, task, callerPC,
                          added, ran>>

-----------------------------------------------------------------------------
WorkerStep(w) == \/ TestRunning(w) \/ Wait(w) \/ WaitRaces(w) \/ Look(w)
                 \/ Front(w) \/ Pop(w) \/ PopRaces(w) \/ TaskReturns(w)

OwnerStep == Start \/ Started \/ Stop \/ Join \/ Destroy

AddStep(c) == \/ \E t \in Tasks : \/ RunDirectly(c, t)
                                  \/ Push(c, t) \/ PushRaces(c, t)
              \/ Notify(c)

Next == /\ fate = "alive"
        /\ \/ OwnerStep
           \/ \E w \in Workers : Spawn(w) \/ WorkerStep(w) \/ SpuriousWakeup(w)
           \/ \E c \in Adders : AddStep(c)

Spec == Init /\ [][Next]_vars

(* Threads get to run, tasks return, add() and the joins of stop() get     *)
(* done. Nobody has to call add(), stop() or the destructor.               *)
FairSpec == /\ Spec
            /\ \A w \in Workers : WF_vars(fate = "alive" /\ WorkerStep(w))
            /\ \A c \in Adders : WF_vars(fate = "alive" /\ Notify(c))
            /\ WF_vars(fate = "alive" /\ Join)
-----------------------------------------------------------------------------
(***************************************************************************)
(* Properties.                                                             *)
(***************************************************************************)

(* No lost wakeup: while tasks are queued some worker is awake or a        *)
(* notify_one() is on its way, and after stop() nobody is asleep, although *)
(* the queue and running_ are tested in one place under the mutex and      *)
(* notify_one() comes after its release (ThreadPool.cpp:35-37, :59-65,     *)
(* :79-82).                                                                *)
NobodySleepsOverWork ==
  fate = "alive" =>
    /\ ~running_ => Asleep = {}
    /\ running_ /\ tasks_ # <<>> =>
         (\E w \in threads_ : w \notin Asleep)
           \/ (\E c \in Adders : callerPC[c] = "notifying")

AtMostOneWorker == \A v, w \in threads_ : v = w

(* With one worker, or none: as long as no access has ended undefined, the *)
(* tasks begin once each in the order add() took them, and what has not    *)
(* begun is still queued, although the worker looks, copies and pops after *)
(* it gave the mutex back.                                                 *)
OneWorkerIsFifo == AtMostOneWorker /\ fate = "alive" => ran \o tasks_ = added

(* What a lone worker's accesses outside of the mutex can run into is a    *)
(* push of add() at that time (ThreadPool.cpp:62 against :84-88), and that *)
(* alone: it does not take the front of an empty queue or pop it, also     *)
(* when its wait ended for stop() and not for a task.                      *)
OnlyPushesDisturb ==
  [][AtMostOneWorker /\ fate' = "undefined"
       => \E c \in Adders, t \in Tasks, w \in threads_ :
            c # w /\ MayPush(c, t) /\ Touches(w)]_vars

(* What the above rests on. The workers that exist are the ones with a     *)
(* place in runInThread(); none has ended while the pool runs, and the     *)
(* queue is used only when there are workers.                              *)
ThreadsInv ==
  /\ \A w \in Workers : w \in threads_ <=> workerPC[w] # "none"
  /\ \A w \in Workers : workerPC[w] = "pop" => task[w] \in Tasks
  /\ threads_ = {} => tasks_ = <<>>
  /\ ownerPC = "new" => threads_ = {}
  /\ ownerPC = "starting" => tasks_ = <<>>
  /\ fate = "alive" =>
       /\ ownerPC \in {"starting", "started"} => running_
       /\ ownerPC \in {"joining", "stopped"} => ~running_
       /\ running_ => \A w \in Workers : workerPC[w] # "done"

(* A lone worker finds at the front what it found when it looked.          *)
FrontStays ==
  AtMostOneWorker /\ fate = "alive" =>
    \A w \in threads_ :
      /\ At(w, "front") => tasks_ # <<>>
      /\ At(w, "pop") => tasks_ # <<>> /\ task[w] = Head(tasks_)

PoolInv == /\ TypeOK /\ ThreadsInv /\ NobodySleepsOverWork
           /\ OneWorkerIsFifo /\ FrontStays

(* stop() returns: every worker notices and ends, unless one has run into  *)
(* an undefined access.                                                    *)
StopReturns == ownerPC = "joining" ~> ownerPC = "stopped" \/ fate # "alive"

(* Queued tasks are taken up, unless the pool is stopped or ends.          *)
TasksAreTaken == tasks_ # <<>> ~> \/ tasks_ = <<>> \/ ~running_
                                  \/ fate # "alive"
=============================================================================
