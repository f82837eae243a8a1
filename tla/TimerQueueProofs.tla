--------------------------- MODULE TimerQueueProofs ---------------------------
(***************************************************************************)
(* Theorems about TimerQueue, for every set of timers and every interval.  *)
(***************************************************************************)
EXTENDS TimerQueue, TLAPS, WellFoundedInduction

(* The initial state satisfies the inductive invariant.                    *)
LEMMA InitInv == Init => TimersInv
  <1> SUFFICES ASSUME Init PROVE TimersInv
    OBVIOUS
  <1>1. TypeOK
    BY DEF Init, TypeOK
  <1>2. SetsAgree /\ HandledInv
    BY DEF Init, SetsAgree, HandledInv
  <1>3. Owned
    BY DEF Init, Owned
  <1>4. QED
    BY <1>1, <1>2, <1>3 DEF TimersInv

(* Setting the timerfd leaves it in a legal state.                         *)
LEMMA ResetTimerfdType ==
  ASSUME TypeOK, NEW when \in Nat
  PROVE  ResetTimerfd(when) \in [at : Nat \union {None}, ready : BOOLEAN]
  BY DEF TypeOK, ResetTimerfd

(* A new timer enters both containers under the same expiration.           *)
LEMMA AddTimeInv ==
  ASSUME TimersInv, NEW t \in Timers, NEW when \in 0 .. MaxTime,
         AddTime(t, when)
  PROVE  TimersInv'
  <1> USE DEF TimersInv
  <1>1. when \in Nat
    BY MaxTimeAssumption
  <1>2. timer' = [timer EXCEPT ![t] = [state |-> "live", expiration |-> when]]
        /\ timer[t].state = "none"
    BY DEF AddTime
  <1>3. t \notin active_timer_ /\ t \notin expired
    BY <1>2 DEF Owned
  <1>4. /\ timer'[t] = [state |-> "live", expiration |-> when]
        /\ \A u \in Timers \ {t} : timer'[u] = timer[u]
    BY <1>2 DEF TypeOK
  <1>5. TypeOK'
    <2>1. timerfd' \in [at : Nat \union {None}, ready : BOOLEAN]
      BY <1>1, ResetTimerfdType DEF AddTime, TypeOK
    <2>2. timer' \in [Timers -> [state : {"none", "live", "deleted"},
                                 expiration : Nat]]
      BY <1>1, <1>2 DEF TypeOK
    <2>3. QED
      BY <1>1, <2>1, <2>2 DEF AddTime, TypeOK
  <1>6. SetsAgree'
    BY <1>3, <1>4 DEF AddTime, SetsAgree, Entry, TypeOK
  <1>7. Owned'
    BY <1>3, <1>4 DEF AddTime, Owned, TypeOK
  <1>8. HandledInv'
    BY <1>3, <1>4 DEF AddTime, HandledInv, TypeOK
  <1>9. QED
    BY <1>5, <1>6, <1>7, <1>8

(* cancel() takes an active timer out of both containers.                  *)
LEMMA CancelInv ==
  ASSUME TimersInv, NEW t \in Timers, Cancel(t) PROVE TimersInv'
  <1> USE DEF TimersInv
  <1>1. CASE t \in active_timer_
    <2>1. /\ timers_' = timers_ \ {Entry(t)}
          /\ active_timer_' = active_timer_ \ {t}
          /\ timer' = [timer EXCEPT ![t].state = "deleted"]
      BY <1>1 DEF Cancel
    <2>2. UNCHANGED <<now, callingExpiredTimers_, expired, toRun, handled,
                      timerfd, pc, crashed>>
      BY <1>1 DEF Cancel
    <2>3. /\ timer'[t].state = "deleted"
          /\ \A u \in Timers : timer'[u].expiration = timer[u].expiration
          /\ \A u \in Timers \ {t} : timer'[u] = timer[u]
      BY <2>1 DEF TypeOK
    <2>4. t \notin expired
      BY <1>1 DEF Owned
    <2>5. TypeOK'
      <3>1. timer' \in [Timers -> [state : {"none", "live", "deleted"},
                                   expiration : Nat]]
        BY <2>1 DEF TypeOK
      <3>2. QED
        BY <2>1, <2>2, <3>1 DEF TypeOK
    <2>6. SetsAgree'
      BY <2>1, <2>3 DEF SetsAgree, Entry, TypeOK
    <2>7. Owned'
      BY <2>1, <2>2, <2>3, <2>4 DEF Owned, TypeOK
    <2>8. HandledInv'
      BY <2>2, <2>3 DEF HandledInv, TypeOK
    <2>9. QED
      BY <2>5, <2>6, <2>7, <2>8
  <1>2. CASE t \notin active_timer_
    <2>1. UNCHANGED <<now, timer, timers_, active_timer_, expired, toRun,
                      callingExpiredTimers_, handled, timerfd, pc>>
      BY <1>2 DEF Cancel
    <2>2. crashed' \in BOOLEAN
      BY <1>2 DEF Cancel, TypeOK
    <2>3. TypeOK'
      BY <2>1, <2>2 DEF TypeOK
    <2>4. SetsAgree' /\ Owned' /\ HandledInv'
      BY <2>1 DEF SetsAgree, Entry, Owned, HandledInv
    <2>5. QED
      BY <2>3, <2>4
  <1>3. QED
    BY <1>1, <1>2

(* A set of entries that is not empty has a first one: what begin() gives. *)
LEMMA EarliestIsFirst ==
  ASSUME NEW entries \in SUBSET (Nat \X Timers), entries # {}
  PROVE  /\ Earliest(entries) \in Nat
         /\ \E e \in entries : Earliest(entries) = e[1]
         /\ \A e \in entries : Earliest(entries) <= e[1]
  <1> DEFINE T == {e[1] : e \in entries}
  <1>1. T \subseteq Nat /\ T # {}
    OBVIOUS
  <1>2. PICK x \in T : \A y \in T : ~ (<<y, x>> \in OpToRel(<, Nat))
    <2> HIDE DEF T
    <2> QED
      BY <1>1, NatLessThanWellFounded, WFMin
  <1>3. \A y \in T : x <= y
    <2> SUFFICES ASSUME NEW y \in T PROVE x <= y
      OBVIOUS
    <2>1. x \in Nat /\ y \in Nat
      BY <1>1
    <2>2. <<y, x>> \in Nat \X Nat
      BY <2>1
    <2>3. <<y, x>>[1] = y /\ <<y, x>>[2] = x
      OBVIOUS
    <2>4. ~ (y < x)
      BY <1>2, <2>2, <2>3, Zenon DEF OpToRel
    <2>5. QED
      BY <2>1, <2>4
  <1>4. \A e \in entries : x <= e[1]
    BY <1>3
  <1>5. /\ Earliest(entries) \in T
        /\ \A e \in entries : Earliest(entries) <= e[1]
    BY <1>4 DEF Earliest
  <1>6. QED
    BY <1>1, <1>5

(* The timers of the entries in the ordered set.                           *)
LEMMA EntriesAreActive ==
  ASSUME SetsAgree, NEW e \in timers_
  PROVE  /\ e[2] \in active_timer_ /\ e = Entry(e[2])
         /\ e[1] = timer[e[2]].expiration
  <1>1. PICK t \in active_timer_ : e = Entry(t)
    BY DEF SetsAgree
  <1>2. QED
    BY <1>1 DEF Entry

(* getExpired() moves the expired timers from both containers to the       *)
(* vector.                                                                 *)
LEMMA HandReadInv ==
  ASSUME TimersInv, HandRead PROVE TimersInv'
  <1> USE DEF TimersInv
  <1>1. \A t \in Timers :
          t \in expired' <=> t \in active_timer_ /\ timer[t].expiration <= now
    <2> SUFFICES ASSUME NEW t \in Timers
                 PROVE  t \in expired' <=> t \in active_timer_
                                             /\ timer[t].expiration <= now
      OBVIOUS
    <2>1. expired' = {e[2] : e \in GetExpired}
      BY DEF HandRead
    <2>2. ASSUME t \in expired' PROVE t \in active_timer_
                                        /\ timer[t].expiration <= now
      <3>1. PICK e \in timers_ : e[1] <= now /\ e[2] = t
        BY <2>1, <2>2 DEF GetExpired
      <3>2. QED
        BY <3>1, EntriesAreActive
    <2>3. ASSUME t \in active_timer_, timer[t].expiration <= now
          PROVE  t \in expired'
      <3>1. Entry(t) \in timers_
        BY <2>3 DEF SetsAgree
      <3>2. Entry(t)[1] <= now /\ Entry(t)[2] = t
        BY <2>3 DEF Entry
      <3>3. Entry(t) \in GetExpired
        BY <3>1, <3>2 DEF GetExpired
      <3>4. QED
        BY <2>1, <3>2, <3>3
    <2>4. QED
      BY <2>2, <2>3
  <1>2. expired' \subseteq Timers
    BY DEF HandRead, GetExpired, TypeOK
  <1>3. /\ UNCHANGED <<now, timer, crashed>>
        /\ active_timer_' = active_timer_ \ expired'
        /\ timers_' = timers_ \ GetExpired
        /\ toRun' = expired'
        /\ expired = {} /\ pc' = "expired"
    BY DEF HandRead, HandledInv
  <1>4. TypeOK'
    <2>1. timerfd' \in [at : Nat \union {None}, ready : BOOLEAN]
      BY DEF HandRead, TypeOK
    <2>2. handled' \in Nat /\ callingExpiredTimers_' \in BOOLEAN
      BY DEF HandRead, TypeOK
    <2>3. QED
      BY <1>2, <1>3, <2>1, <2>2 DEF TypeOK
  <1>5. SetsAgree'
    <2>1. \A t \in active_timer_ : Entry(t) \in GetExpired <=> t \in expired'
      <3> SUFFICES ASSUME NEW t \in active_timer_
                   PROVE  Entry(t) \in GetExpired <=> t \in expired'
        OBVIOUS
      <3>1. Entry(t) \in timers_ /\ Entry(t)[1] = timer[t].expiration
        BY DEF SetsAgree, Entry
      <3>2. t \in Timers
        BY DEF TypeOK
      <3>3. QED
        BY <1>1, <3>1, <3>2 DEF GetExpired
    <2>2. \A t : Entry(t)' = Entry(t)
      BY <1>3 DEF Entry
    <2>3. timers_' = {Entry(t) : t \in active_timer_ \ expired'}
      BY <1>3, <2>1 DEF SetsAgree
    <2>4. QED
      BY <1>3, <2>2, <2>3 DEF SetsAgree
  <1>6. Owned'
    BY <1>1, <1>2, <1>3 DEF Owned, TypeOK
  <1>7. HandledInv'
    BY <1>1, <1>2, <1>3 DEF HandledInv
  <1>8. QED
    BY <1>4, <1>5, <1>6, <1>7

(* reset() puts the repeating timers back into both containers and deletes *)
(* the others.                                                             *)
LEMMA ResetInv ==
  ASSUME TimersInv, Reset PROVE TimersInv'
  <1> USE DEF TimersInv
  <1>1. /\ UNCHANGED <<now, toRun, handled, crashed>>
        /\ toRun = {} /\ expired' = {} /\ pc' = "idle"
        /\ callingExpiredTimers_' = FALSE
        /\ active_timer_' = active_timer_ \union Repeating
        /\ timers_' = timers_ \union
                        {<<handled + Interval[t], t>> : t \in Repeating}
        /\ timerfd' = Rearm(timers_')
    BY DEF Reset
  <1>2. Repeating \subseteq expired /\ expired \subseteq Timers
    BY DEF Repeating, TypeOK
  <1>3. \A t \in Timers : handled + Interval[t] \in Nat
    BY IntervalAssumption DEF TypeOK
  <1>4. /\ \A t \in Timers \ expired : timer'[t] = timer[t]
        /\ \A t \in Repeating : /\ timer'[t].expiration = handled + Interval[t]
                                /\ timer'[t].state = timer[t].state
        /\ \A t \in expired \ Repeating : timer'[t].state = "deleted"
    BY <1>2 DEF Reset, TypeOK
  <1>5. timers_' \subseteq Nat \X Timers
    BY <1>1, <1>2, <1>3 DEF TypeOK
  <1>6. timerfd' \in [at : Nat \union {None}, ready : BOOLEAN]
    <2>1. CASE timers_' # {}
      <3>1. Earliest(timers_') \in Nat
        BY <1>5, <2>1, EarliestIsFirst
      <3>2. QED
        BY <1>1, <3>1, ResetTimerfdType DEF Rearm, TypeOK
    <2>2. CASE timers_' = {}
      BY <1>1, <2>2 DEF Rearm, TypeOK
    <2>3. QED
      BY <2>1, <2>2
  <1>7. timer' \in [Timers -> [state : {"none", "live", "deleted"},
                               expiration : Nat]]
    <2>1. timer' = [t \in Timers |->
                 IF t \notin expired THEN timer[t]
                 ELSE IF t \in Repeating
                 THEN [timer[t] EXCEPT !.expiration = handled + Interval[t]]
                 ELSE [timer[t] EXCEPT !.state = "deleted"]]
      BY DEF Reset
    <2>2. QED
      BY <1>3, <2>1 DEF TypeOK
  <1>8. TypeOK'
    BY <1>1, <1>2, <1>5, <1>6, <1>7 DEF TypeOK
  <1>9. SetsAgree'
    <2>1. \A t \in active_timer_ : Entry(t)' = Entry(t)
      BY <1>4 DEF Entry, Owned, TypeOK
    <2>2. \A t \in Repeating : Entry(t)' = <<handled + Interval[t], t>>
      BY <1>4 DEF Entry
    <2>3. timers_' = {Entry(t)' : t \in active_timer_ \union Repeating}
      BY <1>1, <2>1, <2>2 DEF SetsAgree
    <2>4. QED
      BY <1>1, <2>3 DEF SetsAgree
  <1>10. Owned'
    BY <1>1, <1>2, <1>4 DEF Owned, TypeOK
  <1>11. HandledInv'
    BY <1>1 DEF HandledInv
  <1>12. QED
    BY <1>8, <1>9, <1>10, <1>11

(* The other steps leave the containers alone.                             *)
LEMMA OtherInv ==
  ASSUME TimersInv,
         \/ Poll \/ CallbackReturns \/ Fire \/ Tick
         \/ \E t \in Timers : RunTimer(t)
         \/ UNCHANGED vars
  PROVE  TimersInv'
  <1> USE DEF TimersInv
  <1>1. /\ UNCHANGED <<timer, timers_, active_timer_, callingExpiredTimers_,
                       expired, handled, crashed>>
        /\ toRun' \subseteq toRun
    BY DEF Poll, CallbackReturns, Fire, Tick, RunTimer, vars
  <1>2. now' \in Nat /\ now <= now'
    BY DEF Poll, CallbackReturns, Fire, Tick, RunTimer, vars, TypeOK
  <1>3. timerfd' \in [at : Nat \union {None}, ready : BOOLEAN]
    <2>1. timerfd' = timerfd \/ timerfd' = [at |-> None, ready |-> TRUE]
      BY DEF Poll, CallbackReturns, Fire, Tick, RunTimer, vars
    <2>2. timerfd \in [at : Nat \union {None}, ready : BOOLEAN]
      BY DEF TypeOK
    <2>3. [at |-> None, ready |-> TRUE]
            \in [at : Nat \union {None}, ready : BOOLEAN]
      OBVIOUS
    <2>4. CASE timerfd' = timerfd
      BY <2>2, <2>4, Zenon
    <2>5. CASE timerfd' = [at |-> None, ready |-> TRUE]
      BY <2>3, <2>5, Zenon
    <2>6. QED
      BY <2>1, <2>4, <2>5
  <1>4. /\ pc' \in {"idle", "polled", "expired", "callback"}
        /\ (pc' \in {"idle", "polled"} => pc \in {"idle", "polled"})
    BY DEF Poll, CallbackReturns, Fire, Tick, RunTimer, vars, TypeOK
  <1>5. TypeOK'
    <2>1. /\ timer' \in [Timers -> [state : {"none", "live", "deleted"},
                                    expiration : Nat]]
          /\ timers_' \subseteq Nat \X Timers
          /\ active_timer_' \subseteq Timers
          /\ expired' \subseteq Timers
          /\ toRun' \subseteq expired'
      BY <1>1 DEF TypeOK
    <2>2. handled' \in Nat
      BY <1>1 DEF TypeOK
    <2>3. callingExpiredTimers_' \in BOOLEAN /\ crashed' \in BOOLEAN
      BY <1>1, Zenon DEF TypeOK
    <2>4. QED
      BY <1>2, <1>3, <1>4, <2>1, <2>2, <2>3 DEF TypeOK
  <1>6. SetsAgree' /\ Owned'
    BY <1>1 DEF SetsAgree, Entry, Owned
  <1>7. HandledInv'
    <2>1. \A t \in expired : timer[t].expiration \in Nat
      BY DEF TypeOK
    <2>2. QED
      BY <1>1, <1>2, <1>4, <2>1 DEF HandledInv, TypeOK
  <1>8. QED
    BY <1>5, <1>6, <1>7

(* Every step keeps the invariant.                                         *)
LEMMA NextInv == TimersInv /\ [Next]_vars => TimersInv'
  <1> SUFFICES ASSUME TimersInv, [Next]_vars PROVE TimersInv'
    OBVIOUS
  <1>1. CASE \E t \in Timers : \E when \in 0 .. MaxTime : AddTime(t, when)
    BY <1>1, AddTimeInv
  <1>2. CASE \E t \in Timers : Cancel(t)
    BY <1>2, CancelInv
  <1>3. CASE HandRead
    BY <1>3, HandReadInv
  <1>4. CASE Reset
    BY <1>4, ResetInv
  <1>5. CASE \/ Poll \/ CallbackReturns \/ Fire \/ Tick
             \/ \E t \in Timers : RunTimer(t)
             \/ UNCHANGED vars
    BY <1>5, OtherInv
  <1>6. QED
    BY <1>1, <1>2, <1>3, <1>4, <1>5 DEF Next, HandleExpired

(* The ordered set and the map hold the same timers under their present    *)
(* expirations, and every Timer that lives is in exactly one place, whatever *)
(* callbacks and handlers add and cancel (TimerQueue.cpp:145-253).         *)
THEOREM TimersInvariant == Spec => []TimersInv
  <1>1. Init => TimersInv
    BY InitInv
  <1>2. TimersInv /\ [Next]_vars => TimersInv'
    BY NextInv
  <1>3. QED
    BY <1>1, <1>2, PTL DEF Spec

(* No callback is called before its timer's time or after the timer was    *)
(* deleted (TimerQueue.cpp:130-138).                                       *)
THEOREM CallbacksAreDue == Spec => RunsWhenDue
  <1>1. TimersInv /\ [Next]_vars
          => [\A t \in toRun \ toRun' : timer[t].expiration <= now
                                          /\ timer[t].state = "live"]_vars
    <2> SUFFICES ASSUME TimersInv, NEW t \in toRun
                 PROVE  timer[t].expiration <= now /\ timer[t].state = "live"
      OBVIOUS
    <2>1. t \in expired
      BY DEF TimersInv, TypeOK
    <2>2. QED
      BY <2>1 DEF TimersInv, HandledInv, Owned
  <1>2. QED
    BY <1>1, TimersInvariant, PTL DEF Spec, RunsWhenDue

-----------------------------------------------------------------------------
(* An entry with an expiration that is not valid can only have been added  *)
(* in a callback of the current handRead(), which armed the timerfd for    *)
(* it: reset() will not.                                                   *)
InvalidArmed ==
  \A e \in timers_ : e[1] = 0 =>
    timerfd.ready \/ (timerfd.at # None /\ timerfd.at <= now)

ArmedIInv == TimersInv /\ ArmedInTime /\ InvalidArmed

(* A timerfd that was just set is armed for the time asked for, or now.    *)
LEMMA ResetTimerfdArms ==
  ASSUME TypeOK, NEW when \in Nat, timerfd' = ResetTimerfd(when)
  PROVE  /\ timerfd'.at \in Nat /\ timerfd'.at # None
         /\ timerfd'.at <= when \/ timerfd'.at <= now
         /\ when = 0 => timerfd'.at <= now
  <1>1. timerfd'.at = IF when < now THEN now ELSE when
    BY DEF ResetTimerfd
  <1>2. now \in Nat
    BY DEF TypeOK
  <1>3. timerfd'.at \in Nat
    BY <1>1, <1>2
  <1>4. timerfd'.at # None
    BY <1>3, NoneAssumption
  <1>5. QED
    BY <1>1, <1>2, <1>3, <1>4

(* addTime() arms the timerfd for a timer that is now the first.           *)
LEMMA AddTimeArmed ==
  ASSUME ArmedIInv, NEW t \in Timers, NEW when \in 0 .. MaxTime,
         AddTime(t, when)
  PROVE  ArmedInTime' /\ InvalidArmed'
  <1> USE DEF ArmedIInv, TimersInv
  <1>1. when \in Nat /\ now \in Nat
    BY MaxTimeAssumption DEF TypeOK
  <1>2. /\ timers_' = timers_ \union {<<when, t>>}
        /\ UNCHANGED <<now, pc>>
    BY DEF AddTime
  <1>3. \A e \in timers_ : e[1] \in Nat
    BY DEF TypeOK
  <1>4. timerfd.at # None => timerfd.at \in Nat
    BY DEF TypeOK
  <1>5. <<when, t>>[1] = when
    OBVIOUS
  <1>6. CASE EarliestChanged(when)
    <2>1. timerfd' = ResetTimerfd(when)
      BY <1>6 DEF AddTime
    <2>2. /\ timerfd'.at \in Nat /\ timerfd'.at # None
          /\ timerfd'.at <= when \/ timerfd'.at <= now
          /\ when = 0 => timerfd'.at <= now
      BY <1>1, <2>1, ResetTimerfdArms
    <2>3. \A e \in timers_' : e[1] \in Nat /\ when <= e[1]
      BY <1>1, <1>2, <1>3, <1>5, <1>6 DEF EarliestChanged
    <2>4. \A e \in timers_' : timerfd'.at <= e[1] \/ timerfd'.at <= now
      BY <1>1, <2>2, <2>3
    <2>5. \A e \in timers_' : e[1] = 0 => timerfd'.at <= now
      BY <1>1, <2>2, <2>3
    <2>6. QED
      BY <1>2, <2>2, <2>4, <2>5 DEF ArmedInTime, InvalidArmed
  <1>7. CASE ~ EarliestChanged(when)
    <2>1. PICK first \in timers_ : ~ (when < first[1])
      BY <1>7 DEF EarliestChanged
    <2>2. first[1] <= when
      BY <1>1, <1>3, <2>1
    <2>3. timerfd' = timerfd
      BY <1>7 DEF AddTime
    <2>4. ArmedInTime'
      <3> SUFFICES ASSUME pc \in {"idle", "polled"}, ~ timerfd.ready,
                          NEW e \in timers_'
                   PROVE  /\ timerfd.at # None
                          /\ timerfd.at <= e[1] \/ timerfd.at <= now
        BY <1>2, <2>3 DEF ArmedInTime
      <3>1. /\ timerfd.at # None
            /\ \A f \in timers_ : timerfd.at <= f[1] \/ timerfd.at <= now
        BY <2>1 DEF ArmedInTime
      <3>2. CASE e \in timers_
        BY <3>1, <3>2
      <3>3. CASE e = <<when, t>>
        BY <1>1, <1>3, <1>4, <2>1, <2>2, <3>1, <3>3
      <3>4. QED
        BY <1>2, <3>2, <3>3
    <2>5. InvalidArmed'
      <3> SUFFICES ASSUME NEW e \in timers_', e[1] = 0
                   PROVE  timerfd.ready \/ (timerfd.at # None
                                              /\ timerfd.at <= now)
        BY <1>2, <2>3 DEF InvalidArmed
      <3>1. CASE e \in timers_
        BY <3>1 DEF InvalidArmed
      <3>2. CASE e = <<when, t>>
        <4>1. first[1] = 0
          BY <1>3, <1>5, <2>1, <2>2, <3>2
        <4>2. QED
          BY <2>1, <4>1 DEF InvalidArmed
      <3>3. QED
        BY <1>2, <3>1, <3>2
    <2>6. QED
      BY <2>4, <2>5
  <1>8. QED
    BY <1>6, <1>7

(* reset() arms the timerfd for the first timer, whether it was waiting,   *)
(* restarted or added in a callback.                                       *)
LEMMA ResetArmed ==
  ASSUME ArmedIInv, Reset PROVE ArmedInTime' /\ InvalidArmed'
  <1> USE DEF ArmedIInv, TimersInv
  <1>1. /\ now' = now
        /\ timers_' = timers_ \union
                        {<<handled + Interval[t], t>> : t \in Repeating}
        /\ timerfd' = Rearm(timers_')
    BY DEF Reset
  <1>2. \A t \in Repeating : handled + Interval[t] \in Nat \ {0} /\ t \in Timers
    BY IntervalAssumption DEF Repeating, TypeOK
  <1>3. timers_' \subseteq Nat \X Timers
    BY <1>1, <1>2 DEF TypeOK
  <1>4. \A e \in timers_' : e[1] \in Nat /\ (e[1] = 0 => e \in timers_)
    <2> SUFFICES ASSUME NEW e \in timers_'
                 PROVE  e[1] \in Nat /\ (e[1] = 0 => e \in timers_)
      OBVIOUS
    <2>1. e[1] \in Nat
      BY <1>3
    <2>2. CASE e \notin timers_
      <3>1. PICK t \in Repeating : e = <<handled + Interval[t], t>>
        BY <1>1, <2>2
      <3>2. e[1] # 0
        BY <1>2, <3>1
      <3>3. QED
        BY <2>1, <3>2
    <2>3. QED
      BY <2>1, <2>2
  <1>5. now \in Nat /\ (timerfd.at # None => timerfd.at \in Nat)
    BY DEF TypeOK
  <1>6. CASE timers_' = {}
    BY <1>6 DEF ArmedInTime, InvalidArmed
  <1>7. CASE timers_' # {}
    <2>1. /\ Earliest(timers_') \in Nat
          /\ \E e \in timers_' : Earliest(timers_') = e[1]
          /\ \A e \in timers_' : Earliest(timers_') <= e[1]
      BY <1>3, <1>7, EarliestIsFirst
    <2>2. CASE Earliest(timers_') > 0
      <3>1. timerfd' = ResetTimerfd(Earliest(timers_'))
        BY <1>1, <1>7, <2>2 DEF Rearm
      <3>2. /\ timerfd'.at \in Nat /\ timerfd'.at # None
            /\ timerfd'.at <= Earliest(timers_') \/ timerfd'.at <= now
        BY <2>1, <3>1, ResetTimerfdArms
      <3>3. \A e \in timers_' : timerfd'.at <= e[1] \/ timerfd'.at <= now
        BY <1>4, <1>5, <2>1, <3>2
      <3>4. \A e \in timers_' : e[1] # 0
        BY <1>4, <2>1, <2>2
      <3>5. QED
        BY <1>1, <3>2, <3>3, <3>4 DEF ArmedInTime, InvalidArmed
    <2>3. CASE Earliest(timers_') = 0
      <3>1. timerfd' = timerfd
        BY <1>1, <2>3 DEF Rearm
      <3>2. PICK e \in timers_ : e[1] = 0
        BY <1>4, <2>1, <2>3
      <3>3. timerfd.ready \/ (timerfd.at # None /\ timerfd.at <= now)
        BY <3>2 DEF InvalidArmed
      <3>4. QED
        BY <1>1, <3>1, <3>3 DEF ArmedInTime, InvalidArmed
    <2>4. QED
      BY <2>1, <2>2, <2>3
  <1>8. QED
    BY <1>6, <1>7

(* The other steps: none removes the timerfd's setting but the kernel,     *)
(* which makes it readable, and handRead(), which will come to reset().    *)
LEMMA OtherArmed ==
  ASSUME ArmedIInv,
         \/ \E t \in Timers : Cancel(t) \/ RunTimer(t)
         \/ Poll \/ HandRead \/ CallbackReturns \/ Fire \/ Tick
         \/ UNCHANGED vars
  PROVE  ArmedInTime' /\ InvalidArmed'
  <1> USE DEF ArmedIInv, TimersInv
  <1>1. /\ now \in Nat /\ (timerfd.at # None => timerfd.at \in Nat)
        /\ \A e \in timers_ : e[1] \in Nat
    BY DEF TypeOK
  <1>2. CASE Fire
    <2>1. timerfd'.ready
      BY <1>2 DEF Fire
    <2>2. QED
      BY <2>1 DEF ArmedInTime, InvalidArmed
  <1>3. CASE Tick
    <2>1. UNCHANGED <<timers_, timerfd, pc>> /\ now' = now + 1
      BY <1>3 DEF Tick
    <2>2. timerfd.at # None /\ timerfd.at <= now => timerfd.at <= now'
      BY <1>1, <2>1
    <2>3. QED
      BY <2>1, <2>2 DEF ArmedInTime, InvalidArmed
  <1>4. CASE HandRead
    <2>1. /\ timers_' = timers_ \ GetExpired
          /\ pc' = "expired"
      BY <1>4 DEF HandRead
    <2>2. \A e \in timers_' : e[1] # 0
      BY <1>1, <2>1 DEF GetExpired
    <2>3. QED
      BY <2>1, <2>2 DEF ArmedInTime, InvalidArmed
  <1>5. CASE \/ \E t \in Timers : Cancel(t) \/ RunTimer(t)
             \/ Poll \/ CallbackReturns \/ UNCHANGED vars
    <2>1. /\ timers_' \subseteq timers_
          /\ UNCHANGED <<timerfd, now>>
      BY <1>5 DEF Cancel, RunTimer, Poll, CallbackReturns, vars
    <2>2. pc' \in {"idle", "polled"} => pc \in {"idle", "polled"}
      BY <1>5 DEF Cancel, RunTimer, Poll, CallbackReturns, vars
    <2>3. QED
      BY <2>1, <2>2 DEF ArmedInTime, InvalidArmed
  <1>6. QED
    BY <1>2, <1>3, <1>4, <1>5

(* The queue never sleeps past its first timer (TimerQueue.cpp:145-154,    *)
(* 196-253).                                                               *)
THEOREM TimerfdArmed == Spec => []ArmedInTime
  <1>1. Init => ArmedIInv
    BY InitInv DEF Init, ArmedIInv, ArmedInTime, InvalidArmed
  <1>2. ArmedIInv /\ [Next]_vars => ArmedIInv'
    <2> SUFFICES ASSUME ArmedIInv, [Next]_vars PROVE ArmedIInv'
      OBVIOUS
    <2>1. TimersInv'
      BY NextInv DEF ArmedIInv
    <2>2. ArmedInTime' /\ InvalidArmed'
      BY AddTimeArmed, ResetArmed, OtherArmed DEF Next, HandleExpired
    <2>3. QED
      BY <2>1, <2>2 DEF ArmedIInv
  <1>3. ArmedIInv => ArmedInTime
    BY DEF ArmedIInv
  <1>4. QED
    BY <1>1, <1>2, <1>3, PTL DEF Spec
=============================================================================
