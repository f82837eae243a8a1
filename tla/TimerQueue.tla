------------------------------ MODULE TimerQueue ------------------------------
(***************************************************************************)
(* One TimerQueue on its loop: the set of timers ordered by expiration,    *)
(* the map of active timers, the timerfd, and the calls of addTime() and   *)
(* cancel() made on the loop's thread, by the timers' own callbacks or by  *)
(* any other handler or functor.                                           *)
(*                                                                         *)
(* A Timer is known by its sequence number. Time is counted in units much  *)
(* longer than the 100 microseconds resetTimerfd() waits at least; it goes *)
(* on between any two steps.                                               *)
(***************************************************************************)
EXTENDS Naturals

CONSTANTS Timers,    \* the timers created, one per call of addTime()
          Interval,  \* their intervals, 0 for a timer that runs once
          MaxTime,   \* bound: the clock stops here
          None       \* the timerfd is not armed

ASSUME IntervalAssumption == Interval \in [Timers -> Nat]
ASSUME MaxTimeAssumption == MaxTime \in Nat
ASSUME NoneAssumption == None \notin Nat

VARIABLES now,            \* Timestamp::now()
          timer,          \* the Timer objects
          timers_,        \* set of pairs of expiration and timer
          active_timer_,
          callingExpiredTimers_,
          expired,        \* the vector getExpired() returned
          toRun,          \* those of it whose callback is still to be called
          handled,        \* handRead()'s copy of the time
          timerfd,        \* armed for a time, and readable
          pc,             \* "idle", the timerfd "polled", or in handRead()
          crashed         \* the process was ended by an invalid access

vars == <<now, timer, timers_, active_timer_, callingExpiredTimers_, expired,
          toRun, handled, timerfd, pc, crashed>>

TypeOK == /\ now \in Nat
          /\ timer \in [Timers -> [state : {"none", "live", "deleted"},
                                   expiration : Nat]]
          /\ timers_ \subseteq Nat \X Timers
          /\ active_timer_ \subseteq Timers
          /\ callingExpiredTimers_ \in BOOLEAN
          /\ expired \subseteq Timers
          /\ toRun \subseteq expired
          /\ handled \in Nat
          /\ timerfd \in [at : Nat \union {None}, ready : BOOLEAN]
          /\ pc \in {"idle", "polled", "expired", "callback"}
          /\ crashed \in BOOLEAN

(* The constructor does not initialise callingExpiredTimers_.              *)
Init == /\ now = 1
        /\ timer = [t \in Timers |-> [state |-> "none", expiration |-> 0]]
        /\ timers_ = {}
        /\ active_timer_ = {}
        /\ callingExpiredTimers_ \in BOOLEAN
        /\ expired = {}
        /\ toRun = {}
        /\ handled = 0
        /\ timerfd = [at |-> None, ready |-> FALSE]
        /\ pc = "idle"
        /\ crashed = FALSE

-----------------------------------------------------------------------------
(* timerfd_settime(), which also clears a pending expiration. A time that  *)
(* has passed counts as now.                                               *)
ResetTimerfd(when) ==
  [at |-> IF when < now THEN now ELSE when, ready |-> FALSE]

Entry(t) == <<timer[t].expiration, t>>

(* User code on the loop's thread: a timer's callback or something else.   *)
MayCall == ~crashed /\ pc # "expired"

(* Variant for testing the properties: the timerfd is set for the first    *)
(* timer only.                                                             *)
EarliestChangedIfFirst(when) == timers_ = {}

EarliestChanged(when) == \A e \in timers_ : when < e[1]

(* addTime() and addTimerInLoop().                                         *)
AddTime(t, when) ==
  /\ MayCall
  /\ timer[t].state = "none"
  /\ timer' = [timer EXCEPT ![t] = [state |-> "live", expiration |-> when]]
  /\ timers_' = timers_ \union {<<when, t>>}
  /\ active_timer_' = active_timer_ \union {t}
  /\ timerfd' = IF EarliestChanged(when) THEN ResetTimerfd(when) ELSE timerfd
  /\ UNCHANGED <<now, callingExpiredTimers_, expired, toRun, handled, pc,
                 crashed>>

(* Variant: the entry stays in the ordered set.                            *)
CancelKeepsEntry(t) ==
  /\ MayCall
  /\ t \in active_timer_
  /\ active_timer_' = active_timer_ \ {t}
  /\ timer' = [timer EXCEPT ![t].state = "deleted"]
  /\ UNCHANGED <<timers_, now, callingExpiredTimers_, expired, toRun, handled,
                 timerfd, pc, crashed>>

(* cancelInLoop(). During callbacks a timer that is not active is to be    *)
(* entered in cancelingTimer_, with a value read through active_timer_'s   *)
(* end(): an access through a null node. Nothing else ever enters anything *)
(* in cancelingTimer_, which is therefore always empty and left out.       *)
Cancel(t) ==
  /\ MayCall
  /\ timer[t].state # "none"
  /\ \/ /\ t \in active_timer_
        /\ timers_' = timers_ \ {Entry(t)}
        /\ active_timer_' = active_timer_ \ {t}
        /\ timer' = [timer EXCEPT ![t].state = "deleted"]
        /\ UNCHANGED crashed
     \/ /\ t \notin active_timer_
        /\ crashed' = callingExpiredTimers_
        /\ UNCHANGED <<timers_, active_timer_, timer>>
  /\ UNCHANGED <<now, callingExpiredTimers_, expired, toRun, handled, timerfd,
                 pc>>

-----------------------------------------------------------------------------
(* Variant: the search for the first later entry is off by one.            *)
GetExpiredOneTooMany == {e \in timers_ : e[1] <= now + 1}

(* The sentry compares above every entry of the same time.                 *)
GetExpired == {e \in timers_ : e[1] <= now}

(* epoll_wait() reports the timerfd. Handlers of other channels may come   *)
(* first, and set it anew.                                                 *)
Poll ==
  /\ ~crashed /\ pc = "idle"
  /\ timerfd.ready
  /\ pc' = "polled"
  /\ UNCHANGED <<now, timer, timers_, active_timer_, callingExpiredTimers_,
                 expired, toRun, handled, timerfd, crashed>>

(* handRead() until its loop over the expired timers.                      *)
HandRead ==
  /\ ~crashed /\ pc = "polled"
  /\ timerfd' = [timerfd EXCEPT !.ready = FALSE]
  /\ handled' = now
  /\ timers_' = timers_ \ GetExpired
  /\ expired' = {e[2] : e \in GetExpired}
  /\ toRun' = expired'
  /\ active_timer_' = active_timer_ \ expired'
  /\ callingExpiredTimers_' = TRUE
  /\ pc' = "expired"
  /\ UNCHANGED <<now, timer, crashed>>

RunTimer(t) ==
  /\ ~crashed /\ pc = "expired"
  /\ t \in toRun
  /\ \A u \in toRun : timer[t].expiration <= timer[u].expiration
  /\ toRun' = toRun \ {t}
  /\ pc' = "callback"
  /\ UNCHANGED <<now, timer, timers_, active_timer_, callingExpiredTimers_,
                 expired, handled, timerfd, crashed>>

CallbackReturns ==
  /\ ~crashed /\ pc = "callback"
  /\ pc' = "expired"
  /\ UNCHANGED <<now, timer, timers_, active_timer_, callingExpiredTimers_,
                 expired, toRun, handled, timerfd, crashed>>

(* Variant: timers that repeat are restarted and the timerfd is not set.   *)
ResetNoRearm(entries) == timerfd

(* timers_.begin()->second->expiration().                                  *)
Earliest(entries) ==
  CHOOSE when \in {e[1] : e \in entries} : \A e \in entries : when <= e[1]

(* The end of reset(): the timerfd is set for the first of the entries,    *)
(* unless its expiration is not valid().                                   *)
Rearm(entries) == IF entries # {} /\ Earliest(entries) > 0
                  THEN ResetTimerfd(Earliest(entries))
                  ELSE timerfd

Repeating == {t \in expired : Interval[t] > 0}

(* The end of handRead() and reset().                                      *)
Reset ==
  /\ ~crashed /\ pc = "expired" /\ toRun = {}
  /\ callingExpiredTimers_' = FALSE
  /\ timer' = [t \in Timers |->
                 IF t \notin expired THEN timer[t]
                 ELSE IF t \in Repeating
                 THEN [timer[t] EXCEPT !.expiration = handled + Interval[t]]
                 ELSE [timer[t] EXCEPT !.state = "deleted"]]
  /\ timers_' = timers_ \union {<<handled + Interval[t], t>> : t \in Repeating}
  /\ active_timer_' = active_timer_ \union Repeating
  /\ timerfd' = Rearm(timers_')
  /\ expired' = {}
  /\ pc' = "idle"
  /\ UNCHANGED <<now, toRun, handled, crashed>>

-----------------------------------------------------------------------------
(* The kernel. timerfd runs on the monotonic clock and Timestamp::now() on *)
(* the system's, which may be set back: it can become readable early.      *)
Fire == /\ timerfd.at # None
        /\ timerfd' = [at |-> None, ready |-> TRUE]
        /\ UNCHANGED <<now, timer, timers_, active_timer_,
                       callingExpiredTimers_, expired, toRun, handled, pc,
                       crashed>>

Tick == /\ now < MaxTime
        /\ now' = now + 1
        /\ UNCHANGED <<timer, timers_, active_timer_, callingExpiredTimers_,
                       expired, toRun, handled, timerfd, pc, crashed>>

-----------------------------------------------------------------------------
HandleExpired == \/ Poll
                 \/ HandRead
                 \/ \E t \in Timers : RunTimer(t)
                 \/ CallbackReturns
                 \/ Reset

Next == \/ \E t \in Timers : \/ \E when \in 0 .. MaxTime : AddTime(t, when)
                             \/ Cancel(t)
        \/ HandleExpired
        \/ Fire
        \/ Tick

Spec == Init /\ [][Next]_vars

(* The loop dispatches the readable timerfd and callbacks return; the      *)
(* timerfd becomes readable when its time has come; time goes on.          *)
FairSpec == /\ Spec
            /\ WF_vars(HandleExpired)
            /\ WF_vars(timerfd.at # None /\ timerfd.at <= now /\ Fire)
            /\ WF_vars(Tick)
-----------------------------------------------------------------------------
(***************************************************************************)
(* Properties.                                                             *)
(***************************************************************************)

(* The two containers hold the same timers, the ordered set under their    *)
(* present expirations (the assertions at TimerQueue.cpp:173, 192, 199,    *)
(* 216, which compare the sizes only): restart() never changes the key of  *)
(* a timer that is in the set.                                             *)
SetsAgree == timers_ = {Entry(t) : t \in active_timer_}

(* Every Timer that was created and not deleted is in exactly one of the   *)
(* containers and the vector being handled: none is leaked, none deleted   *)
(* while a container or handRead() still points to it.                     *)
Owned == /\ active_timer_ \intersect expired = {}
         /\ active_timer_ \union expired
              = {t \in Timers : timer[t].state = "live"}

(* What is being handled has expired, and outside handRead() nothing is.   *)
HandledInv == /\ \A t \in expired : timer[t].expiration <= now
              /\ pc \in {"idle", "polled"} => expired = {}

TimersInv == TypeOK /\ SetsAgree /\ Owned /\ HandledInv

(* The queue never sleeps past its first timer: outside handRead() the     *)
(* timerfd is readable or armed for a time no later than the first         *)
(* expiration, whatever was added, cancelled or restarted, in a callback   *)
(* or elsewhere.                                                           *)
ArmedInTime ==
  pc \in {"idle", "polled"} /\ timers_ # {} =>
    \/ timerfd.ready
    \/ /\ timerfd.at # None
       /\ \A e \in timers_ : timerfd.at <= e[1] \/ timerfd.at <= now

(* A callback is called only when the timer's time has come and the timer  *)
(* still exists.                                                           *)
RunsWhenDue ==
  [][\A t \in toRun \ toRun' : timer[t].expiration <= now
                                 /\ timer[t].state = "live"]_vars

(* A timer whose time comes leaves the active ones: it is run or           *)
(* cancelled.                                                              *)
DueTimersRun ==
  \A t \in Timers :
    t \in active_timer_ /\ timer[t].expiration <= MaxTime
      ~> t \notin active_timer_ \/ crashed

(* A callback may cancel any timer, also one whose callback is being       *)
(* called: that is what cancelingTimer_ is for (TimerQueue.hpp:31).        *)
CancelIsSafe == pc = "callback" => ~crashed
=============================================================================
