----------------------------- MODULE TimerQueue -----------------------------
(***************************************************************************)
(* muduo::net::TimerQueue (net/TimerQueue.cc, net/Timer.cc): the timers of *)
(* one loop, sorted by expiration, and the timerfd that wakes the loop.    *)
(* Other threads reach it by addTimerInLoop and cancelInLoop queued on the *)
(* loop, which runs them in order (module EventLoop, theorem LoopIsFifo);  *)
(* callbacks on the loop thread call them at once.                         *)
(*                                                                         *)
(* Time is a counter.  Between any two steps of the loop it may pass.  The *)
(* 100 microseconds a timerfd is set for at least are less than a tick.    *)
(***************************************************************************)
EXTENDS Integers, Sequences, FiniteSets

CONSTANTS Timers,       \* Timer objects ever created (bound)
          Intervals,    \* intervals of repeating timers
          MaxTime       \* the clock stops here (bound)

ASSUME TimerQueueAssumption ==
  /\ Intervals \subseteq Nat \ {0}
  /\ MaxTime \in Nat

VARIABLES
  now,                  \* Timestamp::now()
  expiration_,          \* Timer::expiration_
  interval_,            \* Timer::interval_
  created,              \* timers whose TimerId has been handed out
  queue,                \* functors on their way to the loop
  timers_,              \* TimerQueue::timers_
  armed,                \* when the timerfd expires, Never if disarmed
  pc,                   \* "idle"; "ready" once poll has reported the timerfd;
                        \* "callbacks" inside handleRead
  at,                   \* handleRead's local now
  expired,              \* handleRead's local vector
  toRun,                \* those of expired that have not run yet
  callingExpiredTimers_, cancelingTimers_,
  cancelled,            \* timers a cancelInLoop has found in the queue or running
  ran                   \* timers that have run at least once

vars == <<now, expiration_, interval_, created, queue, timers_, armed, pc, at,
          expired, toRun, callingExpiredTimers_, cancelingTimers_, cancelled,
          ran>>

Never == -1

(* Mutant of howMuchTimeFromNow: without the minimum a value of zero       *)
(* disarms the timerfd.                                                    *)
ArmForExactly(when) == IF when > now THEN when ELSE Never

(* resetTimerfd, howMuchTimeFromNow: a time gone by counts as now. *)
ArmFor(when) == IF when > now THEN when ELSE now

(* The expiration of the first entry of a set of timers. *)
IsEarliest(t, S, exp) == t \in S /\ \A u \in S : exp[t] <= exp[u]

Repeats(t) == interval_[t] > 0

(* A functor x waits for the loop. *)
Queued(x) == \E i \in DOMAIN queue : queue[i] = x

(* A weak_ptr to the timer can be locked: the set, the expired vector, the *)
(* set of cancelled ones or a queued functor still owns it.                *)
Alive(t) == t \in timers_ \cup expired \cup cancelingTimers_ \/ Queued(<<"add", t>>)

(* callingExpiredTimers_ is not initialised by the constructor. *)
Init ==
  /\ now = 0
  /\ expiration_ = [t \in Timers |-> 0]
  /\ interval_ = [t \in Timers |-> 0]
  /\ created = {}
  /\ queue = <<>>
  /\ timers_ = {}
  /\ armed = Never
  /\ pc = "idle"
  /\ at = 0
  /\ expired = {} /\ toRun = {}
  /\ callingExpiredTimers_ \in BOOLEAN
  /\ cancelingTimers_ = {}
  /\ cancelled = {} /\ ran = {}

-----------------------------------------------------------------------------
(* Effects on the loop thread.                                             *)

(* Mutant: the timerfd is set only for the first timer. *)
EarliestIfFirst(t) == timers_ = {}

(* insert's result: does the new timer come before all others? *)
EarliestChanged(t) == \A u \in timers_ : expiration_'[t] < expiration_'[u]

(* addTimerInLoop and insert. *)
AddTimerInLoop(t) ==
  /\ timers_' = timers_ \cup {t}
  /\ armed' = IF EarliestChanged(t) THEN ArmFor(expiration_'[t]) ELSE armed

(* cancelInLoop: erase the timer, or, from inside its own batch, note that *)
(* it shall not be restarted.                                              *)
CancelInLoop(t) ==
  /\ timers_' = timers_ \ {t}
  /\ cancelingTimers_' = IF /\ Alive(t) /\ t \notin timers_
                            /\ callingExpiredTimers_
                         THEN cancelingTimers_ \cup {t} ELSE cancelingTimers_
  /\ cancelled' = IF t \in timers_ \cup expired THEN cancelled \cup {t}
                                                ELSE cancelled

-----------------------------------------------------------------------------
(* addTimer: the Timer object, then addTimerInLoop by runInLoop.           *)
NewTimer(t, when, interval) ==
  /\ t \notin created
  /\ created' = created \cup {t}
  /\ expiration_' = [expiration_ EXCEPT ![t] = when]
  /\ interval_' = [interval_ EXCEPT ![t] = interval]

(* From another thread. *)
AddTimer(t, when, interval) ==
  /\ NewTimer(t, when, interval)
  /\ queue' = Append(queue, <<"add", t>>)
  /\ UNCHANGED <<now, timers_, armed, pc, at, expired, toRun,
                 callingExpiredTimers_, cancelingTimers_, cancelled, ran>>

(* The loop thread may call in any callback: another channel's, before or  *)
(* after the timerfd was polled, a functor's, or that of a timer.          *)
InCallback == pc # "callbacks" \/ toRun # expired

AddTimerSelf(t, when, interval) ==
  /\ InCallback
  /\ NewTimer(t, when, interval)
  /\ AddTimerInLoop(t)
  /\ UNCHANGED <<now, queue, pc, at, expired, toRun, callingExpiredTimers_,
                 cancelingTimers_, cancelled, ran>>

(* EventLoop's timers for its users: one-shot at a time, which may be gone *)
(* by (runAfter adds its delay to the clock and calls runAt), ...          *)
RunAt(t, time) == AddTimer(t, time, 0) \/ AddTimerSelf(t, time, 0)

(* ... and repeating from now on. *)
RunEvery(t, interval) ==
  \/ AddTimer(t, now + interval, interval)
  \/ AddTimerSelf(t, now + interval, interval)

(* cancel, from another thread (bound: once for each timer at a time) ...  *)
Cancel(t) ==
  /\ t \in created
  /\ ~Queued(<<"cancel", t>>)
  /\ queue' = Append(queue, <<"cancel", t>>)
  /\ UNCHANGED <<now, expiration_, interval_, created, timers_, armed, pc, at,
                 expired, toRun, callingExpiredTimers_, cancelingTimers_,
                 cancelled, ran>>

(* ... or from a callback of the loop, a timer's own included. *)
CancelSelf(t) ==
  /\ InCallback
  /\ t \in created
  /\ CancelInLoop(t)
  /\ UNCHANGED <<now, expiration_, interval_, created, queue, armed, pc, at,
                 expired, toRun, callingExpiredTimers_, ran>>

(* The loop runs the next functor. *)
RunFunctor ==
  /\ pc = "idle"
  /\ queue # <<>>
  /\ queue' = Tail(queue)
  /\ \E t \in created :
       \/ /\ Head(queue) = <<"add", t>>
          /\ UNCHANGED expiration_
          /\ AddTimerInLoop(t)
          /\ UNCHANGED <<cancelingTimers_, cancelled>>
       \/ /\ Head(queue) = <<"cancel", t>>
          /\ CancelInLoop(t)
          /\ UNCHANGED <<expiration_, armed>>
  /\ UNCHANGED <<now, interval_, created, pc, at, expired, toRun,
                 callingExpiredTimers_, ran>>

Readable == armed # Never /\ armed <= now

(* poll(2) reports the timerfd.  Callbacks of other channels that come     *)
(* before it in the active list may add and cancel timers.                 *)
PollTimerfd ==
  /\ pc = "idle" /\ Readable
  /\ pc' = "ready"
  /\ UNCHANGED <<now, expiration_, interval_, created, queue, timers_, armed,
                 at, expired, toRun, callingExpiredTimers_, cancelingTimers_,
                 cancelled, ran>>

(* handleRead: read the timerfd, which gives nothing if a callback has set *)
(* it again since the poll, and take every timer that has expired out of   *)
(* the set (getExpired).                                                   *)
HandleRead ==
  /\ pc = "ready"
  /\ armed' = IF Readable THEN Never ELSE armed
  /\ at' = now
  /\ expired' = {t \in timers_ : expiration_[t] <= now}
  /\ timers_' = timers_ \ expired'
  /\ toRun' = expired'
  /\ callingExpiredTimers_' = TRUE
  /\ cancelingTimers_' = {}
  /\ pc' = "callbacks"
  /\ UNCHANGED <<now, expiration_, interval_, created, queue, cancelled, ran>>

(* The expired timers run in the order of the set. *)
RunTimer(t) ==
  /\ pc = "callbacks"
  /\ IsEarliest(t, toRun, expiration_)
  /\ toRun' = toRun \ {t}
  /\ ran' = ran \cup {t}
  /\ UNCHANGED <<now, expiration_, interval_, created, queue, timers_, armed,
                 pc, at, expired, callingExpiredTimers_, cancelingTimers_,
                 cancelled>>

(* Mutant of reset's test: a timer that cancelled itself is restarted.     *)
RestartsAll(t) == t \in expired /\ Repeats(t)
Restarts(t) == t \in expired /\ Repeats(t) /\ t \notin cancelingTimers_

(* reset: restart the repeating timers, set the timerfd for the earliest.  *)
Reset ==
  /\ pc = "callbacks" /\ toRun = {}
  /\ callingExpiredTimers_' = FALSE
  /\ expiration_' = [t \in Timers |-> IF Restarts(t) THEN at + interval_[t]
                                                     ELSE expiration_[t]]
  /\ timers_' = timers_ \cup {t \in Timers : Restarts(t)}
  /\ IF timers_' = {} THEN UNCHANGED armed
     ELSE \E t \in timers_' : /\ IsEarliest(t, timers_', expiration_')
                              /\ armed' = ArmFor(expiration_'[t])
  /\ expired' = {}
  /\ pc' = "idle"
  /\ UNCHANGED <<now, interval_, created, queue, at, toRun, cancelingTimers_,
                 cancelled, ran>>

Tick ==
  /\ now < MaxTime
  /\ now' = now + 1
  /\ UNCHANGED <<expiration_, interval_, created, queue, timers_, armed, pc,
                 at, expired, toRun, callingExpiredTimers_, cancelingTimers_,
                 cancelled, ran>>

Handler == HandleRead \/ Reset \/ \E t \in Timers : RunTimer(t)

Next ==
  \/ \E t \in Timers :
       \/ \E time \in 1 .. MaxTime : RunAt(t, time)
       \/ \E interval \in Intervals : RunEvery(t, interval)
       \/ Cancel(t) \/ CancelSelf(t)
  \/ RunFunctor \/ PollTimerfd \/ Handler
  \/ Tick

Spec == Init /\ [][Next]_vars

(* Each iteration of the loop polls the timerfd and runs the functors; a   *)
(* handler once begun goes on to its end.  Time passes.                    *)
FairSpec ==
  /\ Spec
  /\ WF_vars(RunFunctor)
  /\ WF_vars(PollTimerfd) /\ WF_vars(Handler)
  /\ WF_vars(Tick)

-----------------------------------------------------------------------------
(* Properties.                                                             *)

(* Type correctness of the timers' sets; only a running batch is expired.  *)
TypeOK ==
  /\ now \in Nat /\ at \in Nat /\ at <= now
  /\ expiration_ \in [Timers -> Nat]
  /\ interval_ \in [Timers -> Nat]
  /\ created \in SUBSET Timers
  /\ queue \in Seq({"add", "cancel"} \X Timers)
  /\ timers_ \in SUBSET created
  /\ armed \in Nat \cup {Never}
  /\ pc \in {"idle", "ready", "callbacks"}
  /\ expired \in SUBSET created /\ toRun \in SUBSET expired
  /\ pc # "callbacks" => expired = {}
  /\ callingExpiredTimers_ \in BOOLEAN
  /\ cancelingTimers_ \in SUBSET created
  /\ cancelled \in SUBSET created /\ ran \in SUBSET created

(* The timerfd is set whenever a timer waits, and never later than the     *)
(* earliest of them: whatever was added, cancelled, restarted or added     *)
(* again from callbacks, no timer sleeps through its time (insert,         *)
(* resetTimerfd, reset).                                                   *)
TimerfdCoversEarliest ==
  pc # "callbacks" =>
    \A t \in timers_ :
      armed # Never /\ (armed <= expiration_[t] \/ armed <= now)

(* A timer that was cancelled while in the queue, or while its batch was   *)
(* running, is never put back, not even when it repeats and cancelled      *)
(* itself (cancelInLoop, cancelingTimers_, reset).                         *)
CancelIsFinal == \A t \in cancelled : t \notin timers_

(* A repeating timer that was not cancelled never drops out: it waits, is  *)
(* being run, or is on its way to the loop (getExpired, reset).            *)
RepeatingIsKept ==
  \A t \in created \ cancelled :
    Repeats(t) => t \in timers_ \cup expired \/ Queued(<<"add", t>>)

(* Cancelling, and nothing else, takes a timer out for good, also when it  *)
(* is done from a callback of the same batch (cancelInLoop, reset).        *)
CancelDecides == CancelIsFinal /\ RepeatingIsKept

(* A timer whose time comes is run, unless it was cancelled.               *)
AddedIsRun ==
  \A t \in Timers :
    (t \in timers_ /\ expiration_[t] <= MaxTime) ~> (t \in ran \/ t \in cancelled)
=============================================================================
