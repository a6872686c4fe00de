----------------------------- MODULE EventLoop ------------------------------
(***************************************************************************)
(* muduo::net::EventLoop (net/EventLoop.h, net/EventLoop.cc): one loop     *)
(* thread that polls, dispatches the active channels and runs the pending  *)
(* functors, and any number of other threads that call queueInLoop,        *)
(* runInLoop and quit on it.                                               *)
(*                                                                         *)
(* One action is one step no other thread can see the inside of: a         *)
(* critical section of mutex_, one system call on the eventfd, one read or *)
(* write of quit_.  The time-out of poll (kPollTimeMs) is an action of its *)
(* own, so that liveness can be stated without it.                         *)
(***************************************************************************)
EXTENDS Sequences

CONSTANTS Threads,      \* the threads other than the loop's own
          Functors      \* callbacks, each handed over at most once (bound)

VARIABLES
  pc,                   \* where the loop thread is
  tpc,                  \* where every other thread is
  quit_, looping_, callingPendingFunctors_,
  pendingFunctors_,     \* guarded by mutex_
  functors,             \* doPendingFunctors' local vector, what is left of it
  wakeupFd,             \* is the eventfd's counter positive?
  activeChannels,       \* what the last poll returned, not yet dispatched
  used,                 \* functors already handed over
  executed              \* queued functors, in the order the loop ran them

vars == <<pc, tpc, quit_, looping_, callingPendingFunctors_, pendingFunctors_,
          functors, wakeupFd, activeChannels, used, executed>>

(* wakeupChannel_, and any other channel of the loop (timerfd, sockets). *)
LoopChannels == {"wakeupChannel", "ioChannel"}

Init ==
  /\ pc = "idle"
  /\ tpc = [t \in Threads |-> "idle"]
  /\ quit_ = FALSE
  /\ looping_ = FALSE
  /\ callingPendingFunctors_ = FALSE
  /\ pendingFunctors_ = <<>>
  /\ functors = <<>>
  /\ wakeupFd = FALSE
  /\ activeChannels = {}
  /\ used = {}
  /\ executed = <<>>

-----------------------------------------------------------------------------
(* The other threads.                                                      *)

(* Mutant of push_back: in front of the others. *)
EnqueueFront(f) == <<f>> \o pendingFunctors_

(* push_back under the mutex. *)
Enqueue(f) == Append(pendingFunctors_, f)

(* The critical section of queueInLoop, called directly or by runInLoop.   *)
QueueInLoop(t, f) ==
  /\ tpc[t] = "idle"
  /\ f \notin used
  /\ used' = used \cup {f}
  /\ pendingFunctors_' = Enqueue(f)
  /\ tpc' = [tpc EXCEPT ![t] = "wakeup"]
  /\ UNCHANGED <<pc, quit_, looping_, callingPendingFunctors_, functors,
                 wakeupFd, activeChannels, executed>>

(* Mutant of quit: no wakeup from another thread. *)
QuitSilently(t) ==
  /\ tpc[t] = "idle"
  /\ quit_' = TRUE
  /\ UNCHANGED <<pc, tpc, looping_, callingPendingFunctors_, pendingFunctors_,
                 functors, wakeupFd, activeChannels, used, executed>>

(* quit: the flag first, then, from another thread, the wakeup.            *)
Quit(t) ==
  /\ tpc[t] = "idle"
  /\ quit_' = TRUE
  /\ tpc' = [tpc EXCEPT ![t] = "wakeup"]
  /\ UNCHANGED <<pc, looping_, callingPendingFunctors_, pendingFunctors_,
                 functors, wakeupFd, activeChannels, used, executed>>

(* wakeup: write(2) on the eventfd, after queueInLoop's or quit's change.  *)
Wakeup(t) ==
  /\ tpc[t] = "wakeup"
  /\ wakeupFd' = TRUE
  /\ tpc' = [tpc EXCEPT ![t] = "idle"]
  /\ UNCHANGED <<pc, quit_, looping_, callingPendingFunctors_,
                 pendingFunctors_, functors, activeChannels, used, executed>>

-----------------------------------------------------------------------------
(* Calls made on the loop thread, by a channel's callback or by a functor. *)

InCallback == pc \in {"ioCallback", "functor"}

(* Mutant: the loop thread trusts itself to come round. *)
SelfWakeupNever == FALSE

(* Does queueInLoop write the eventfd when the loop thread calls it? *)
SelfWakeup == callingPendingFunctors_

(* queueInLoop on the loop thread wakes the loop up only while it is       *)
(* running a batch; push and write are one step, since only this thread    *)
(* polls the eventfd and swaps the vector.                                 *)
QueueInLoopSelf(f) ==
  /\ InCallback
  /\ f \notin used
  /\ used' = used \cup {f}
  /\ pendingFunctors_' = Enqueue(f)
  /\ wakeupFd' = (wakeupFd \/ SelfWakeup)
  /\ UNCHANGED <<pc, tpc, quit_, looping_, callingPendingFunctors_, functors,
                 activeChannels, executed>>

(* quit on the loop thread: no wakeup, the flag is read before the next poll. *)
QuitSelf ==
  /\ InCallback
  /\ quit_' = TRUE
  /\ UNCHANGED <<pc, tpc, looping_, callingPendingFunctors_,
                 pendingFunctors_, functors, wakeupFd, activeChannels, used,
                 executed>>

-----------------------------------------------------------------------------
(* The loop thread.                                                        *)

(* loop: entered once the previous call, if any, has returned.             *)
LoopEnter ==
  /\ pc = "idle"
  /\ looping_' = TRUE
  /\ quit_' = FALSE
  /\ pc' = "while"
  /\ UNCHANGED <<tpc, callingPendingFunctors_, pendingFunctors_, functors,
                 wakeupFd, activeChannels, used, executed>>

(* while (!quit_): enter poll with an empty list, or leave loop.           *)
TestQuit ==
  /\ pc = "while"
  /\ pc' = IF quit_ THEN "idle" ELSE "poll"
  /\ looping_' = ~quit_
  /\ activeChannels' = IF quit_ THEN activeChannels ELSE {}
  /\ UNCHANGED <<tpc, quit_, callingPendingFunctors_, pendingFunctors_,
                 functors, wakeupFd, used, executed>>

(* poll returns with the channels that are ready: the wakeup channel       *)
(* exactly when the eventfd is readable, the others as the peers please.   *)
PollReturn(ready) ==
  /\ pc = "poll"
  /\ ready # {}
  /\ "wakeupChannel" \in ready <=> wakeupFd
  /\ activeChannels' = ready
  /\ pc' = "dispatch"
  /\ UNCHANGED <<tpc, quit_, looping_, callingPendingFunctors_,
                 pendingFunctors_, functors, wakeupFd, used, executed>>

(* poll returns 0 after kPollTimeMs, or -1 (EINTR): nothing is active.     *)
PollTimeout ==
  /\ pc = "poll"
  /\ ~wakeupFd
  /\ pc' = "dispatch"
  /\ UNCHANGED <<tpc, quit_, looping_, callingPendingFunctors_,
                 pendingFunctors_, functors, wakeupFd, activeChannels, used,
                 executed>>

(* EventLoop::handleRead, the wakeup channel's callback: read(2) resets    *)
(* the eventfd's counter to zero.                                          *)
HandleRead ==
  /\ pc = "dispatch"
  /\ "wakeupChannel" \in activeChannels
  /\ wakeupFd' = FALSE
  /\ activeChannels' = activeChannels \ {"wakeupChannel"}
  /\ UNCHANGED <<pc, tpc, quit_, looping_, callingPendingFunctors_,
                 pendingFunctors_, functors, used, executed>>

(* handleEvent of another channel: its callback runs until IoReturn.       *)
HandleEvent ==
  /\ pc = "dispatch"
  /\ "ioChannel" \in activeChannels
  /\ activeChannels' = activeChannels \ {"ioChannel"}
  /\ pc' = "ioCallback"
  /\ UNCHANGED <<tpc, quit_, looping_, callingPendingFunctors_,
                 pendingFunctors_, functors, wakeupFd, used, executed>>

IoReturn ==
  /\ pc = "ioCallback"
  /\ pc' = "dispatch"
  /\ UNCHANGED <<tpc, quit_, looping_, callingPendingFunctors_,
                 pendingFunctors_, functors, wakeupFd, activeChannels, used,
                 executed>>

(* doPendingFunctors: raise the flag and swap the vector under the mutex.  *)
SwapPending ==
  /\ pc = "dispatch"
  /\ activeChannels = {}
  /\ callingPendingFunctors_' = TRUE
  /\ functors' = pendingFunctors_
  /\ pendingFunctors_' = <<>>
  /\ pc' = "functors"
  /\ UNCHANGED <<tpc, quit_, looping_, wakeupFd, activeChannels, used,
                 executed>>

(* functors[i](): the call begins, and lasts until FunctorReturn.          *)
RunFunctor ==
  /\ pc = "functors"
  /\ functors # <<>>
  /\ executed' = Append(executed, Head(functors))
  /\ functors' = Tail(functors)
  /\ pc' = "functor"
  /\ UNCHANGED <<tpc, quit_, looping_, callingPendingFunctors_,
                 pendingFunctors_, wakeupFd, activeChannels, used>>

FunctorReturn ==
  /\ pc = "functor"
  /\ pc' = "functors"
  /\ UNCHANGED <<tpc, quit_, looping_, callingPendingFunctors_,
                 pendingFunctors_, functors, wakeupFd, activeChannels, used,
                 executed>>

EndPending ==
  /\ pc = "functors"
  /\ functors = <<>>
  /\ callingPendingFunctors_' = FALSE
  /\ pc' = "while"
  /\ UNCHANGED <<tpc, quit_, looping_, pendingFunctors_, functors, wakeupFd,
                 activeChannels, used, executed>>

-----------------------------------------------------------------------------
PollWakeup == wakeupFd /\ \E ready \in SUBSET LoopChannels : PollReturn(ready)

(* Only other channels are ready. *)
PollIo == PollReturn({"ioChannel"})

LoopStep ==
  \/ TestQuit \/ PollWakeup \/ HandleRead \/ HandleEvent \/ IoReturn
  \/ SwapPending \/ RunFunctor \/ FunctorReturn \/ EndPending

LoopCall == (\E f \in Functors : QueueInLoopSelf(f)) \/ QuitSelf

ThreadStep(t) == (\E f \in Functors : QueueInLoop(t, f)) \/ Quit(t) \/ Wakeup(t)

Next ==
  \/ LoopEnter \/ LoopStep \/ PollIo \/ PollTimeout \/ LoopCall
  \/ \E t \in Threads : ThreadStep(t)

Spec == Init /\ [][Next]_vars

(* The OS runs every thread: the loop's own code makes progress, poll      *)
(* returns when the eventfd is readable (never by its time-out or for the  *)
(* sake of another descriptor), and a thread inside queueInLoop or quit    *)
(* reaches its write.  No thread has to enter loop or to call anything.    *)
Fairness == WF_vars(LoopStep) /\ \A t \in Threads : WF_vars(Wakeup(t))

FairSpec == Spec /\ Fairness

-----------------------------------------------------------------------------
(* Properties.                                                             *)

(* Type correctness; a batch and the pending functors are sequences of      *)
(* functors handed to queueInLoop.                                         *)
TypeOK ==
  /\ pc \in {"idle", "while", "poll", "dispatch", "ioCallback", "functors",
             "functor"}
  /\ tpc \in [Threads -> {"idle", "wakeup"}]
  /\ quit_ \in BOOLEAN
  /\ looping_ \in BOOLEAN
  /\ callingPendingFunctors_ \in BOOLEAN
  /\ pendingFunctors_ \in Seq(Functors)
  /\ functors \in Seq(Functors)
  /\ wakeupFd \in BOOLEAN
  /\ activeChannels \in SUBSET LoopChannels
  /\ used \in SUBSET Functors
  /\ executed \in Seq(Functors)

(* A wakeup is on its way: the eventfd is readable, or a thread that has   *)
(* made its change is about to write it.                                   *)
WakeupComing == wakeupFd \/ \E t \in Threads : tpc[t] = "wakeup"

(* No lost wakeup: the loop never sits in poll with a functor queued or    *)
(* with quit requested unless a wakeup is on its way, so neither waits for *)
(* the ten seconds of kPollTimeMs (queueInLoop, quit, handleRead and       *)
(* doPendingFunctors together).                                            *)
NoLostWakeup ==
  pc = "poll" /\ (pendingFunctors_ # <<>> \/ quit_) => WakeupComing

(* What is not yet run, oldest first, seen from outside the loop.          *)
FQ == INSTANCE FunctorQueue WITH queue <- functors \o pendingFunctors_

(* queueInLoop, from any thread, and the batches of doPendingFunctors      *)
(* implement the FIFO queue of FunctorQueue: nothing lost, run twice or    *)
(* overtaken, whatever quit and nested calls do.                           *)
FifoOnce == FQ!Spec

(* A functor that is queued is run, or loop returns first: doPendingFunctors *)
(* picks it up without the help of poll's time-out.                        *)
QueuedIsRun ==
  \A f \in Functors :
    (looping_ /\ f \in used) ~>
      (~looping_ \/ \E i \in DOMAIN executed : executed[i] = f)
=============================================================================
