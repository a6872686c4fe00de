----------------------------- MODULE ThreadPool ------------------------------
(***************************************************************************)
(* muduo::ThreadPool (base/ThreadPool.cc) over Thread, MutexLock and       *)
(* Condition: producers hand tasks to a queue that may be bounded, worker  *)
(* threads take them, and stop ends the workers.                           *)
(*                                                                         *)
(* One action is one critical section of mutex_, or a step outside it.  A  *)
(* thread in a wait is "waiting" until it is notified (or wakes of itself, *)
(* as POSIX allows), and "woken" until it has the mutex again.             *)
(***************************************************************************)
EXTENDS Integers, Sequences, FiniteSets

CONSTANTS Workers,      \* the threads start creates
          Producers,    \* the threads that call run
          NumTasks,     \* calls of run (bound)
          MaxQueueSize  \* setMaxQueueSize; 0 is no limit

ASSUME ThreadPoolAssumption ==
  /\ NumTasks \in Nat /\ MaxQueueSize \in Nat
  /\ Workers # {} /\ IsFiniteSet(Producers)

(* A task is known by the number of the call of run that hands it over. *)
Tasks == 1..NumTasks
NoTask == 0

VARIABLES
  running_, queue_,
  wpc,                  \* per worker: "none" before start, "test", "take",
                        \* "waiting" and "woken" on notEmpty_, "task", "ended"
  ppc,                  \* per producer: "idle", "waiting", "woken" on notFull_
  offer,                \* per producer: the task of its call of run, or NoTask
  owner,                \* the thread of start and stop: "new", "starting",
                        \* "started", "joining", "joined"
  calls,                \* calls of run so far
  inline,               \* how many of them ran their task themselves
  executed              \* tasks the workers have begun, in order

vars == <<running_, queue_, wpc, ppc, offer, owner, calls, inline, executed>>

Init ==
  /\ running_ = FALSE /\ queue_ = <<>>
  /\ wpc = [w \in Workers |-> "none"]
  /\ ppc = [p \in Producers |-> "idle"]
  /\ offer = [p \in Producers |-> NoTask]
  /\ owner = "new"
  /\ calls = 0 /\ inline = 0 /\ executed = <<>>

-----------------------------------------------------------------------------
(* Condition.                                                              *)

Waiting(pc) == {t \in DOMAIN pc : pc[t] = "waiting"}
Woken(pc) == {t \in DOMAIN pc : pc[t] = "woken"}

(* Mutant of notify: nobody wakes. *)
NotifyNobody(pc) == {pc}

(* notify wakes one of the waiting threads, if there is one. *)
Notify(pc) ==
  IF Waiting(pc) = {} THEN {pc}
  ELSE {[pc EXCEPT ![t] = "woken"] : t \in Waiting(pc)}

NotifyAll(pc) == [t \in DOMAIN pc |-> IF pc[t] = "waiting" THEN "woken" ELSE pc[t]]

-----------------------------------------------------------------------------
(* run.                                                                    *)

NoThreads == \A w \in Workers : wpc[w] = "none"

(* Without threads the caller runs the task itself. *)
RunInline(p) ==
  /\ NoThreads
  /\ ppc[p] = "idle" /\ calls < NumTasks
  /\ calls' = calls + 1 /\ inline' = inline + 1
  /\ UNCHANGED <<running_, queue_, wpc, ppc, offer, owner, executed>>

IsFull == MaxQueueSize > 0 /\ Len(queue_) >= MaxQueueSize

(* Mutant of push_back: the newest task goes first. *)
PushFront(t) == <<t>> \o queue_

Push(t) == Append(queue_, t)

(* The loop of run, entered with the mutex: wait for room, or push and     *)
(* notify a worker.                                                        *)
PushOrWait(p, t) ==
  IF IsFull
  THEN /\ ppc' = [ppc EXCEPT ![p] = "waiting"]
       /\ offer' = [offer EXCEPT ![p] = t]
       /\ UNCHANGED <<queue_, wpc>>
  ELSE /\ queue_' = Push(t)
       /\ wpc' \in Notify(wpc)
       /\ ppc' = [ppc EXCEPT ![p] = "idle"]
       /\ offer' = [offer EXCEPT ![p] = NoTask]

Run(p) ==
  /\ ~NoThreads
  /\ ppc[p] = "idle" /\ calls < NumTasks
  /\ calls' = calls + 1
  /\ PushOrWait(p, calls + 1)
  /\ UNCHANGED <<running_, owner, inline, executed>>

(* Mutant of the loop: a call that finds no room after its wait gives up.  *)
RunAgainGivesUp(p) ==
  /\ ppc[p] = "woken"
  /\ IF IsFull
     THEN /\ ppc' = [ppc EXCEPT ![p] = "idle"]
          /\ offer' = [offer EXCEPT ![p] = NoTask]
          /\ UNCHANGED <<queue_, wpc>>
     ELSE PushOrWait(p, offer[p])
  /\ UNCHANGED <<running_, owner, calls, inline, executed>>

RunAgain(p) ==
  /\ ppc[p] = "woken"
  /\ PushOrWait(p, offer[p])
  /\ UNCHANGED <<running_, owner, calls, inline, executed>>

-----------------------------------------------------------------------------
(* A worker: runInThread and take.                                         *)

(* while (running_), read without the mutex. *)
TestRunning(w) ==
  /\ wpc[w] = "test"
  /\ wpc' = [wpc EXCEPT ![w] = IF running_ THEN "take" ELSE "ended"]
  /\ UNCHANGED <<running_, queue_, ppc, offer, owner, calls, inline, executed>>

(* Mutant of take's test: only the queue counts. *)
MustWaitForTask == queue_ = <<>>

MustWait == queue_ = <<>> /\ running_

(* take: wait while there is nothing to do; an empty task is not run.      *)
Take(w) ==
  /\ wpc[w] \in {"take", "woken"}
  /\ IF MustWait
     THEN /\ wpc' = [wpc EXCEPT ![w] = "waiting"]
          /\ UNCHANGED <<queue_, ppc, executed>>
     ELSE IF queue_ = <<>>
     THEN /\ wpc' = [wpc EXCEPT ![w] = "test"]
          /\ UNCHANGED <<queue_, ppc, executed>>
     ELSE /\ wpc' = [wpc EXCEPT ![w] = "task"]
          /\ queue_' = Tail(queue_)
          /\ executed' = Append(executed, Head(queue_))
          /\ ppc' \in IF MaxQueueSize > 0 THEN Notify(ppc) ELSE {ppc}
  /\ UNCHANGED <<running_, offer, owner, calls, inline>>

TaskReturn(w) ==
  /\ wpc[w] = "task"
  /\ wpc' = [wpc EXCEPT ![w] = "test"]
  /\ UNCHANGED <<running_, queue_, ppc, offer, owner, calls, inline, executed>>

-----------------------------------------------------------------------------
(* The owner.                                                              *)

(* start: running_ first, then the threads one after the other; with the   *)
(* first of them run queues its tasks.  setThreadInitCallback's callback   *)
(* is left out.                                                            *)
Start ==
  /\ owner = "new"
  /\ running_' = TRUE
  /\ owner' = "starting"
  /\ UNCHANGED <<queue_, wpc, ppc, offer, calls, inline, executed>>

(* Thread::start: the new thread may run before the next is created. *)
StartThread ==
  /\ owner = "starting"
  /\ \E w \in {v \in Workers : wpc[v] = "none"} :
       wpc' = [wpc EXCEPT ![w] = "test"]
  /\ owner' = IF \A w \in Workers : wpc'[w] # "none" THEN "started" ELSE "starting"
  /\ UNCHANGED <<running_, queue_, ppc, offer, calls, inline, executed>>

(* stop's critical section; nobody who waits in run is notified. *)
Stop ==
  /\ owner = "started"
  /\ running_' = FALSE
  /\ wpc' = NotifyAll(wpc)
  /\ owner' = "joining"
  /\ UNCHANGED <<queue_, ppc, offer, calls, inline, executed>>

Join ==
  /\ owner = "joining"
  /\ \A w \in Workers : wpc[w] = "ended"
  /\ owner' = "joined"
  /\ UNCHANGED <<running_, queue_, wpc, ppc, offer, calls, inline, executed>>

(* POSIX: pthread_cond_wait may return without a notify. *)
SpuriousWakeup ==
  /\ \/ /\ \E w \in Waiting(wpc) : wpc' = [wpc EXCEPT ![w] = "woken"]
        /\ UNCHANGED ppc
     \/ /\ \E p \in Waiting(ppc) : ppc' = [ppc EXCEPT ![p] = "woken"]
        /\ UNCHANGED wpc
  /\ UNCHANGED <<running_, queue_, offer, owner, calls, inline, executed>>

WorkerStep(w) == TestRunning(w) \/ Take(w) \/ TaskReturn(w)

Next ==
  \/ \E p \in Producers : RunInline(p) \/ Run(p) \/ RunAgain(p)
  \/ \E w \in Workers : WorkerStep(w)
  \/ Start \/ StartThread \/ Stop \/ Join \/ SpuriousWakeup

Spec == Init /\ [][Next]_vars

(* Tasks return, woken threads get the mutex, and join returns when the    *)
(* threads have ended.  No wait ends without a notify.                     *)
Fairness ==
  /\ \A w \in Workers : WF_vars(WorkerStep(w))
  /\ \A p \in Producers : WF_vars(RunAgain(p))
  /\ WF_vars(Join)

FairSpec == Spec /\ Fairness

-----------------------------------------------------------------------------
(* Properties.                                                             *)

(* Type correctness; a producer holds a task exactly while it waits in run. *)
TypeOK ==
  /\ running_ \in BOOLEAN /\ queue_ \in Seq(Tasks)
  /\ wpc \in [Workers -> {"none", "test", "take", "waiting", "woken", "task", "ended"}]
  /\ ppc \in [Producers -> {"idle", "waiting", "woken"}]
  /\ offer \in [Producers -> Tasks \cup {NoTask}]
  /\ \A p \in Producers : offer[p] = NoTask <=> ppc[p] = "idle"
  /\ owner \in {"new", "starting", "started", "joining", "joined"}
  /\ calls \in 0..NumTasks /\ inline \in 0..calls /\ executed \in Seq(Tasks)

(* No worker sleeps through work or through stop: with a task queued some  *)
(* worker of a running pool is on its way to the queue, and after stop     *)
(* none waits, whatever wakes of itself and whoever takes the task first   *)
(* (run, take and stop together).                                          *)
WorkersAwake ==
  /\ (queue_ # <<>> /\ running_) =>
       \E w \in Workers : wpc[w] \in {"test", "take", "woken", "task"}
  /\ ~running_ => Waiting(wpc) = {}

(* A producer waits only for room: each place that take freed is still     *)
(* there or has a woken producer on its way to it, so nobody waits beside  *)
(* a queue with room.  After stop nobody takes, and a producer beside a    *)
(* full queue is left there.                                               *)
PlacesCovered ==
  Waiting(ppc) # {} =>
    /\ MaxQueueSize > 0
    /\ Len(queue_) + Cardinality(Woken(ppc)) >= MaxQueueSize

(* No thread waits for what is already there: neither a worker for a task  *)
(* nor a producer for room (notEmpty_, notFull_).                          *)
NobodySleeps == WorkersAwake /\ PlacesCovered

(* No task is lost or run twice, whoever waits, wakes, finds the queue     *)
(* full again or is stopped: each one handed over that was not run at once *)
(* is in one place, offered by a call that waits for room, in queue_ or    *)
(* begun, and there once (run, take, stop).                                *)
Handed == executed \o queue_

TasksKept ==
  LET passed  == {Handed[i] : i \in DOMAIN Handed}
      offered == {offer[p] : p \in Producers} \ {NoTask}
  IN
  /\ \A i, j \in DOMAIN Handed : Handed[i] = Handed[j] => i = j
  /\ \A p, q \in Producers : offer[p] = offer[q] => p = q \/ offer[p] = NoTask
  /\ passed \cap offered = {}
  /\ passed \cup offered = inline + 1 .. calls

(* The workers begin the tasks in the order in which run queued them, also *)
(* across wakeups, waits for room and stop.                                *)
FQ == INSTANCE FunctorQueue WITH Functors <- Tasks, queue <- queue_

TasksInOrder == FQ!Spec

(* A call of run that has to wait returns, unless the pool is stopped, if  *)
(* the other producers leave it room some day (here: NumTasks is finite).  *)
RunReturns ==
  \A p \in Producers : ppc[p] = "waiting" ~> (ppc[p] = "idle" \/ ~running_)

(* stop returns, wherever the workers are when it is called, and whether   *)
(* or not producers wait.                                                  *)
StopReturns == owner = "joining" ~> owner = "joined"

(* The two calls that wait, run and stop, return (takes notifying notFull_, *)
(* stop notifying all workers).                                            *)
CallsReturn == RunReturns /\ StopReturns
=============================================================================
