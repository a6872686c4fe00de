-------------------------- MODULE EventLoopThread ---------------------------
(***************************************************************************)
(* muduo::net::EventLoopThread (net/EventLoopThread.cc) around EventLoop:  *)
(* an owner starts a thread, waits until its loop exists, hands it         *)
(* functors, and in the destructor makes it quit and joins the thread.     *)
(* The EventLoop is a local of threadFunc: it is gone when loop returns.   *)
(* EventLoopThreadPool::start does this once for each of its threads.      *)
(***************************************************************************)
EXTENDS EventLoop

CONSTANT Owner          \* the thread that owns the EventLoopThread

ASSUME OwnerAssumption == Owner \in Threads

VARIABLES
  owner,                \* where the owner is
  thread,               \* where threadFunc is
  loop_                 \* is the pointer set?  guarded by mutex_

threadVars == <<owner, thread, loop_>>
allVars == <<vars, threadVars>>

ThreadInit ==
  /\ Init
  /\ owner = "new" /\ thread = "none" /\ loop_ = FALSE

-----------------------------------------------------------------------------
(* The owner.                                                              *)

(* Thread::start: pthread_create. *)
StartThread ==
  /\ owner = "new"
  /\ owner' = "started" /\ thread' = "started"
  /\ UNCHANGED <<loop_, vars>>

(* startLoop's turn of the while under the mutex. *)
StartLoop ==
  /\ owner \in {"started", "woken"}
  /\ owner' = IF loop_ THEN "running" ELSE "waiting"
  /\ UNCHANGED <<thread, loop_, vars>>

(* pthread_cond_wait may return of its own accord. *)
SpuriousWakeup ==
  /\ owner = "waiting"
  /\ owner' = "woken"
  /\ UNCHANGED <<thread, loop_, vars>>

(* A thread that was given the loop uses it while it exists.               *)
Use(t) ==
  /\ owner = "running" /\ thread # "ended"
  /\ \E f \in Functors : QueueInLoop(t, f)
  /\ UNCHANGED threadVars

FinishCall(t) == Wakeup(t) /\ UNCHANGED threadVars

(* The destructor: quit, which ends in FinishCall, and join.  No other     *)
(* thread is using the loop by then.  What quit writes to a loop that has  *)
(* returned meanwhile is taken to hit nothing.                             *)
Destroy ==
  /\ owner = "running"
  /\ \A t \in Threads : tpc[t] = "idle"
  /\ Quit(Owner)
  /\ owner' = "quitting"
  /\ UNCHANGED <<thread, loop_>>

Join ==
  /\ owner = "quitting" /\ tpc[Owner] = "idle" /\ thread = "ended"
  /\ owner' = "joined"
  /\ UNCHANGED <<thread, loop_, vars>>

-----------------------------------------------------------------------------
(* threadFunc.                                                             *)

(* Mutant of the critical section: the owner is not notified. *)
PublishQuietly ==
  /\ thread = "started"
  /\ loop_' = TRUE /\ thread' = "published"
  /\ UNCHANGED <<owner, vars>>

(* The EventLoop is constructed, loop_ set and the owner notified. *)
Publish ==
  /\ thread = "started"
  /\ loop_' = TRUE /\ thread' = "published"
  /\ owner' = IF owner = "waiting" THEN "woken" ELSE owner
  /\ UNCHANGED vars

EnterLoop ==
  /\ thread = "published"
  /\ LoopEnter
  /\ thread' = "loop"
  /\ UNCHANGED <<owner, loop_>>

(* A step of the loop's thread; when loop returns threadFunc does too.     *)
InLoop(step) ==
  /\ thread = "loop"
  /\ step
  /\ thread' = IF pc' = "idle" THEN "ended" ELSE thread
  /\ UNCHANGED <<owner, loop_>>

-----------------------------------------------------------------------------
ThreadNext ==
  \/ StartThread \/ StartLoop \/ SpuriousWakeup \/ Destroy \/ Join
  \/ \E t \in Threads : Use(t) \/ FinishCall(t)
  \/ Publish \/ EnterLoop
  \/ InLoop(LoopStep) \/ InLoop(PollIo) \/ InLoop(PollTimeout) \/ InLoop(LoopCall)

ThreadSpec == ThreadInit /\ [][ThreadNext]_allVars

(* The OS runs every thread, as in EventLoop; nobody has to use the loop   *)
(* or to destroy it, and poll's time-out need not come.                    *)
ThreadFairness ==
  /\ WF_allVars(StartLoop) /\ WF_allVars(Join)
  /\ WF_allVars(Publish) /\ WF_allVars(EnterLoop) /\ WF_allVars(InLoop(LoopStep))
  /\ \A t \in Threads : WF_allVars(FinishCall(t))

FairThreadSpec == ThreadSpec /\ ThreadFairness

-----------------------------------------------------------------------------
(* Properties.                                                             *)

(* Type correctness; the owner goes on only when the loop is there.        *)
ThreadTypeOK ==
  /\ owner \in {"new", "started", "waiting", "woken", "running", "quitting", "joined"}
  /\ thread \in {"none", "started", "published", "loop", "ended"}
  /\ owner = "new" <=> thread = "none"
  /\ loop_ \in BOOLEAN
  /\ loop_ <=> thread \in {"published", "loop", "ended"}
  /\ (owner \in {"running", "quitting", "joined"} => loop_)
  /\ pc # "idle" <=> thread = "loop"

(* The owner's calls return.  startLoop does: the notify of threadFunc is  *)
(* not lost, whether it comes before or after the owner's wait.  The       *)
(* destructor's join does, unless its quit came before loop was entered,   *)
(* which forgets it (loop sets quit_ to false).                            *)
OwnerReturns ==
  /\ owner = "started" ~> owner = "running"
  /\ (owner = "quitting" /\ thread \in {"loop", "ended"} /\ quit_)
       ~> owner = "joined"
=============================================================================
