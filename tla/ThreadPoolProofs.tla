-------------------------- MODULE ThreadPoolProofs --------------------------
(* Proofs about ThreadPool, for any number of workers, producers and calls *)
(* and any limit of the queue.                                             *)
EXTENDS ThreadPool, FiniteSetTheorems, SequenceTheorems, TLAPS

-----------------------------------------------------------------------------
(* Types.                                                                   *)

WorkerStates == {"none", "test", "take", "waiting", "woken", "task", "ended"}
ProducerStates == {"idle", "waiting", "woken"}

(* What Condition::notify does: at most one waiting thread is woken.        *)
LEMMA NotifyWorker ==
  ASSUME wpc \in [Workers -> WorkerStates], NEW qc \in Notify(wpc)
  PROVE  /\ qc \in [Workers -> WorkerStates]
         /\ \A w \in Workers : qc[w] # wpc[w] => wpc[w] = "waiting" /\ qc[w] = "woken"
BY DEF Notify, Waiting, WorkerStates

(* notify of notFull_ wakes only producers that wait.                       *)
LEMMA NotifyProducer ==
  ASSUME ppc \in [Producers -> ProducerStates], NEW qc \in Notify(ppc)
  PROVE  /\ qc \in [Producers -> ProducerStates]
         /\ \A p \in Producers : qc[p] # ppc[p] => ppc[p] = "waiting" /\ qc[p] = "woken"
BY DEF Notify, Waiting, ProducerStates

(* TypeOK with its sets of states named. *)
LEMMA TypeStates ==
  ASSUME TypeOK
  PROVE  wpc \in [Workers -> WorkerStates] /\ ppc \in [Producers -> ProducerStates]
BY DEF TypeOK, WorkerStates, ProducerStates

(* One step of a producer or of a worker keeps the types. *)
LEMMA TypeInductive == TypeOK /\ [Next]_vars => TypeOK'
<1> SUFFICES ASSUME TypeOK, [Next]_vars PROVE TypeOK'
  OBVIOUS
<1> DEFINE Held(at, o) == \A p \in Producers : o[p] = NoTask <=> at[p] = "idle"
<1>1. ASSUME NEW p \in Producers, NEW t \in Tasks, PushOrWait(p, t),
             UNCHANGED <<running_, owner, inline, executed>>,
             calls' \in 0..NumTasks, inline \in 0..calls'
      PROVE  TypeOK'
  <2>1. wpc' = wpc \/ wpc' \in Notify(wpc)
    BY <1>1 DEF PushOrWait
  <2>2. wpc' \in [Workers -> WorkerStates]
    BY <2>1, NotifyWorker, TypeStates
  <2>3. ppc' \in [Producers -> ProducerStates]
          /\ offer' \in [Producers -> Tasks \cup {NoTask}]
    BY <1>1, TypeStates DEF PushOrWait, TypeOK, ProducerStates
  <2>4. queue_' \in Seq(Tasks)
    BY SMTT(30), <1>1 DEF PushOrWait, Push, TypeOK
  <2>5. t # NoTask
    BY DEF Tasks, NoTask
  <2>6. Held(ppc', offer')
    BY <1>1, <2>5 DEF PushOrWait, TypeOK
  <2> QED BY <1>1, <2>2, <2>3, <2>4, <2>6 DEF TypeOK, WorkerStates, ProducerStates
<1>2. ASSUME NEW p \in Producers, RunInline(p) PROVE TypeOK'
  BY <1>2, ThreadPoolAssumption DEF TypeOK, RunInline
<1>3. ASSUME NEW p \in Producers, Run(p) PROVE TypeOK'
  <2>1. calls + 1 \in Tasks /\ calls' \in 0..NumTasks /\ inline \in 0..calls'
    BY <1>3, ThreadPoolAssumption DEF TypeOK, Run, Tasks
  <2> QED BY <1>1, <1>3, <2>1 DEF Run
<1>4. ASSUME NEW p \in Producers, RunAgain(p) PROVE TypeOK'
  <2>1. offer[p] \in Tasks
    BY <1>4 DEF RunAgain, TypeOK
  <2> QED BY <1>1, <1>4, <2>1 DEF RunAgain, TypeOK
<1>5. ASSUME NEW w \in Workers, TestRunning(w) \/ TaskReturn(w) PROVE TypeOK'
  BY <1>5 DEF TypeOK, TestRunning, TaskReturn
<1>6. ASSUME NEW w \in Workers, Take(w) PROVE TypeOK'
  <2>1. ppc' = ppc \/ ppc' \in Notify(ppc)
    BY <1>6 DEF Take
  <2>2. ppc' \in [Producers -> ProducerStates] /\ Held(ppc', offer)
    BY <2>1, NotifyProducer, TypeStates DEF TypeOK
  <2>3. wpc' \in [Workers -> WorkerStates]
    BY <1>6, TypeStates DEF Take, WorkerStates
  <2>4. queue_' \in Seq(Tasks) /\ executed' \in Seq(Tasks)
    <3>1. CASE UNCHANGED <<queue_, executed>>
      BY <3>1 DEF TypeOK
    <3>2. CASE queue_ # <<>> /\ queue_' = Tail(queue_) /\ executed' = Append(executed,
                 Head(queue_))
      BY <3>2 DEF TypeOK
    <3> QED BY <1>6, <3>1, <3>2 DEF Take
  <2> QED BY <1>6, <2>2, <2>3, <2>4 DEF Take, TypeOK, WorkerStates, ProducerStates
<1>7. ASSUME Start \/ StartThread \/ Stop \/ Join PROVE TypeOK'
  BY <1>7 DEF TypeOK, Start, StartThread, Stop, Join, NotifyAll
<1>8. ASSUME SpuriousWakeup PROVE TypeOK'
  <2>1. ppc' \in [Producers -> ProducerStates] /\ Held(ppc', offer)
    BY <1>8, TypeStates DEF TypeOK, SpuriousWakeup, Waiting, WorkerStates, ProducerStates
  <2>2. wpc' \in [Workers -> WorkerStates]
    BY <1>8, TypeStates DEF TypeOK, SpuriousWakeup, Waiting, WorkerStates, ProducerStates
  <2> QED BY <1>8, <2>1, <2>2 DEF TypeOK, SpuriousWakeup, WorkerStates, ProducerStates
<1>9. ASSUME UNCHANGED vars PROVE TypeOK'
  BY <1>9 DEF TypeOK, vars
<1> QED BY <1>2, <1>3, <1>4, <1>5, <1>6, <1>7, <1>8, <1>9 DEF Next, WorkerStep

(* A pool that has not been started.                                        *)
LEMMA TypeInit == Init => TypeOK
<1> SUFFICES ASSUME Init PROVE TypeOK
  OBVIOUS
<1>1. calls \in 0..NumTasks /\ inline \in 0..calls
  BY ThreadPoolAssumption DEF Init
<1>2. offer \in [Producers -> Tasks \cup {NoTask}]
  BY DEF Init
<1>3. \A p \in Producers : offer[p] = NoTask <=> ppc[p] = "idle"
  BY DEF Init
<1>4. queue_ \in Seq(Tasks) /\ executed \in Seq(Tasks)
  BY DEF Init
<1> QED BY <1>1, <1>2, <1>3, <1>4 DEF Init, TypeOK

(* Every behaviour of the pool keeps the types of its variables. *)
THEOREM TypeCorrect == Spec => []TypeOK
BY TypeInit, TypeInductive, PTL DEF Spec

-----------------------------------------------------------------------------
(* No worker sleeps through work.                                           *)

Awake == {"test", "take", "woken", "task"}

(* What the argument adds: threads exist only in a started pool, without    *)
(* them nothing is queued or begun, nobody waits and every task was run by  *)
(* its caller, a thread has ended only when running_ was cleared, and       *)
(* running_ is set from start to stop.                                      *)
Phases ==
  /\ owner = "new" => NoThreads
  /\ running_ <=> owner \in {"starting", "started"}
  /\ NoThreads => queue_ = <<>> /\ \A p \in Producers : ppc[p] = "idle"
  /\ NoThreads => executed = <<>> /\ inline = calls
  /\ \A w \in Workers : wpc[w] = "ended" => ~running_

WInv == TypeOK /\ Phases /\ WorkersAwake

(* Notify leaves a worker awake if there is a worker and nobody had ended.  *)
LEMMA NotifyWakes ==
  ASSUME TypeOK, ~NoThreads, \A w \in Workers : wpc[w] # "ended",
         NEW qc \in Notify(wpc)
  PROVE  \E w \in Workers : qc[w] \in Awake
<1>1. CASE Waiting(wpc) = {}
  <2>1. qc = wpc
    BY <1>1 DEF Notify
  <2>2. PICK w \in Workers : wpc[w] # "none"
    BY DEF NoThreads
  <2>3. wpc[w] # "waiting"
    BY <1>1, <2>2 DEF Waiting, TypeOK
  <2> QED BY <2>1, <2>2, <2>3 DEF TypeOK, Awake
<1>2. CASE Waiting(wpc) # {}
  BY <1>2 DEF Notify, Waiting, TypeOK, Awake
<1> QED BY <1>1, <1>2

(* The call of run that pushes wakes a worker. *)
LEMMA PushKeepsAwake ==
  ASSUME WInv, ~NoThreads, NEW p \in Producers, NEW t \in Tasks, PushOrWait(p, t),
         UNCHANGED <<running_, owner, executed>>
  PROVE  Phases' /\ WorkersAwake'
<1>1. CASE IsFull
  BY <1>1 DEF WInv, Phases, WorkersAwake, PushOrWait, NoThreads, Waiting
<1>2. CASE ~IsFull
  <2>1. wpc' \in Notify(wpc)
    BY <1>2 DEF PushOrWait
  <2>a. wpc \in [Workers -> WorkerStates]
    BY TypeStates DEF WInv
  <2>2. wpc' \in [Workers -> WorkerStates]
    BY <2>1, <2>a, NotifyWorker
  <2>3. \A w \in Workers : wpc'[w] # wpc[w] => wpc[w] = "waiting" /\ wpc'[w] = "woken"
    BY <2>1, <2>a, NotifyWorker
  <2>4. (\E w \in Workers : wpc'[w] # "none") /\ owner # "new"
    BY <2>3 DEF WInv, Phases, NoThreads
  <2>5. Phases'
    BY <2>3, <2>4 DEF WInv, Phases, NoThreads
  <2>6. running_ => \E w \in Workers : wpc'[w] \in Awake
    BY <2>1, NotifyWakes DEF WInv, Phases
  <2>7. ~running_ => Waiting(wpc') = {}
    BY <2>2, <2>3 DEF WInv, WorkersAwake, Waiting, TypeOK
  <2> QED BY <2>5, <2>6, <2>7 DEF WorkersAwake, Awake, Waiting
<1> QED BY <1>1, <1>2

(* run, take and stop keep a worker awake while there is a task.            *)
LEMMA AwakeInductive == WInv /\ [Next]_vars => WInv'
<1> SUFFICES ASSUME WInv, [Next]_vars PROVE Phases' /\ WorkersAwake'
  BY TypeInductive DEF WInv
<1>1. ASSUME NEW p \in Producers, RunInline(p) PROVE Phases' /\ WorkersAwake'
  BY <1>1 DEF WInv, TypeOK, Phases, WorkersAwake, RunInline, NoThreads, Waiting
<1>2. ASSUME NEW p \in Producers, Run(p) PROVE Phases' /\ WorkersAwake'
  <2>1. calls + 1 \in Tasks
    BY <1>2, ThreadPoolAssumption DEF WInv, TypeOK, Run, Tasks
  <2> QED BY <1>2, <2>1, PushKeepsAwake DEF Run
<1>3. ASSUME NEW p \in Producers, RunAgain(p) PROVE Phases' /\ WorkersAwake'
  <2>1. offer[p] \in Tasks
    BY <1>3 DEF RunAgain, WInv, TypeOK
  <2>2. ~NoThreads
    BY <1>3 DEF RunAgain, WInv, Phases
  <2> QED BY <1>3, <2>1, <2>2, PushKeepsAwake DEF RunAgain
<1>4. ASSUME NEW w \in Workers, TestRunning(w) \/ TaskReturn(w)
      PROVE  Phases' /\ WorkersAwake'
  <2>1. wpc[w] \in Awake /\ ~NoThreads /\ ~NoThreads'
    BY <1>4 DEF TestRunning, TaskReturn, NoThreads, WInv, TypeOK, Awake
  <2>2. running_ => wpc'[w] \in Awake
    BY <1>4 DEF TestRunning, TaskReturn, WInv, TypeOK, Awake
  <2>3. Waiting(wpc') \subseteq Waiting(wpc)
    BY <1>4 DEF TestRunning, TaskReturn, WInv, TypeOK, Waiting
  <2>4. Phases'
    BY <1>4, <2>1 DEF TestRunning, TaskReturn, WInv, TypeOK, Phases
  <2>5. UNCHANGED <<running_, queue_>>
    BY <1>4 DEF TestRunning, TaskReturn
  <2> QED BY <2>2, <2>3, <2>4, <2>5 DEF WInv, WorkersAwake, Awake
<1>5. ASSUME NEW w \in Workers, Take(w) PROVE Phases' /\ WorkersAwake'
  <2>1. wpc[w] \in Awake /\ ~NoThreads /\ ~NoThreads'
    BY <1>5 DEF Take, NoThreads, WInv, TypeOK, Awake
  <2>2. UNCHANGED <<running_, owner>>
    BY <1>5 DEF Take
  <2>3. (queue_' # <<>> => wpc'[w] \in Awake) /\ (~running_
          => Waiting(wpc') \subseteq Waiting(wpc))
    BY <1>5 DEF Take, MustWait, WInv, TypeOK, Awake, Waiting
  <2>4. \A v \in Workers : wpc'[v] = "ended" => wpc[v] = "ended"
    BY <1>5 DEF Take, WInv, TypeOK
  <2>5. Phases'
    BY <2>1, <2>2, <2>4 DEF WInv, Phases
  <2> QED BY <2>2, <2>3, <2>5 DEF WInv, WorkersAwake, Awake
<1>6. ASSUME Start PROVE Phases' /\ WorkersAwake'
  BY <1>6 DEF Start, WInv, TypeOK, Phases, WorkersAwake, NoThreads, Waiting
<1>7. ASSUME StartThread PROVE Phases' /\ WorkersAwake'
  <2>1. PICK w \in Workers : wpc[w] = "none" /\ wpc' = [wpc EXCEPT ![w] = "test"]
    BY <1>7 DEF StartThread
  <2>2. wpc'[w] = "test" /\ running_ /\ running_' /\ owner' \in {"starting", "started"}
    BY <1>7, <2>1 DEF StartThread, WInv, TypeOK, Phases
  <2> QED BY <1>7, <2>1, <2>2 DEF StartThread, WInv, TypeOK, Phases, WorkersAwake, NoThreads
<1>8. ASSUME Stop PROVE Phases' /\ WorkersAwake'
  BY <1>8 DEF Stop, WInv, TypeOK, Phases, WorkersAwake, NoThreads, NotifyAll, Waiting
<1>9. ASSUME Join PROVE Phases' /\ WorkersAwake'
  BY <1>9 DEF Join, WInv, TypeOK, Phases, WorkersAwake, NoThreads, Waiting
<1>10. ASSUME SpuriousWakeup PROVE Phases' /\ WorkersAwake'
  BY <1>10 DEF SpuriousWakeup, WInv, TypeOK, Phases, WorkersAwake, NoThreads, Waiting
<1>11. ASSUME UNCHANGED vars PROVE Phases' /\ WorkersAwake'
  BY <1>11 DEF vars, WInv, Phases, WorkersAwake, NoThreads, Waiting
<1> QED BY <1>1, <1>2, <1>3, <1>4, <1>5, <1>6, <1>7, <1>8, <1>9, <1>10, <1>11
        DEF Next, WorkerStep

(* ThreadPool: no worker sleeps through a task or through stop.             *)
THEOREM NoWorkerSleeps == Spec => []WorkersAwake
<1>1. Init => WInv
  <2> SUFFICES ASSUME Init PROVE Phases /\ WorkersAwake
    BY TypeInit DEF WInv
  <2> QED BY DEF Init, Phases, WorkersAwake, NoThreads, Waiting
<1>2. WInv => WorkersAwake
  BY DEF WInv
<1> QED BY <1>1, <1>2, AwakeInductive, PTL DEF Spec

-----------------------------------------------------------------------------
(* No producer waits beside a queue with room.                              *)

PInv == TypeOK /\ PlacesCovered

(* The woken producers can be counted.                                      *)
LEMMA WokenFinite ==
  ASSUME TypeOK
  PROVE  /\ IsFiniteSet(Woken(ppc)) /\ Cardinality(Woken(ppc)) \in Nat
         /\ Len(queue_) \in Nat
<1>1. Woken(ppc) \subseteq Producers
  BY DEF Woken, TypeOK
<1> QED BY <1>1, FS_Subset, FS_CardinalityType, ThreadPoolAssumption DEF TypeOK

(* Waking one waiting producer adds one to the woken. *)
LEMMA WakeOne ==
  ASSUME TypeOK, NEW p \in Waiting(ppc), NEW qc, qc = [ppc EXCEPT ![p] = "woken"]
  PROVE  /\ Cardinality(Woken(qc)) = Cardinality(Woken(ppc)) + 1
         /\ Waiting(ppc) # {}
<1>1. Woken(qc) = Woken(ppc) \cup {p} /\ p \notin Woken(ppc)
  BY DEF Woken, Waiting, TypeOK
<1> QED BY <1>1, WokenFinite, FS_AddElement

(* run: a new call never uses a place that was freed for another without   *)
(* filling the queue, and a woken call fills its own.                      *)
LEMMA PushKeepsPlaces ==
  ASSUME PInv, NEW p \in Producers, NEW t, PushOrWait(p, t),
         ppc[p] \in {"idle", "woken"}
  PROVE  PlacesCovered'
<1> USE ThreadPoolAssumption
<1>1. CASE IsFull
  <2>1. queue_' = queue_ /\ Len(queue_) >= MaxQueueSize /\ MaxQueueSize > 0
    BY <1>1 DEF PushOrWait, IsFull
  <2>2. Woken(ppc') \subseteq Woken(ppc)
    BY <1>1 DEF PushOrWait, Woken, PInv, TypeOK
  <2>3. Cardinality(Woken(ppc')) \in Nat
    BY <2>2, WokenFinite, FS_Subset, FS_CardinalityType DEF PInv
  <2> QED BY <2>1, <2>3, WokenFinite DEF PlacesCovered, PInv
<1>2. CASE ~IsFull
  <2>1. Waiting(ppc') = Waiting(ppc) /\ Woken(ppc') = Woken(ppc) \ {p}
    BY <1>2 DEF PushOrWait, Waiting, Woken, PInv, TypeOK
  <2>2. Cardinality(Woken(ppc')) >= Cardinality(Woken(ppc)) - 1
          /\ Cardinality(Woken(ppc')) \in Nat
    <3> DEFINE K == Woken(ppc)
    <3>1. IsFiniteSet(K) /\ Cardinality(K) \in Nat
      BY WokenFinite DEF PInv
    <3>2. Woken(ppc') = K \ {p}
      BY <2>1
    <3> HIDE DEF K
    <3>3. IsFiniteSet(K \ {p}) /\ Cardinality(K \ {p}) \in {Cardinality(K),
            Cardinality(K) - 1}
      BY <3>1, FS_RemoveElement
    <3>4. Cardinality(K \ {p}) \in Nat
      BY <3>3, FS_CardinalityType
    <3>5. Cardinality(K \ {p}) >= Cardinality(K) - 1
      BY <3>1, <3>3
    <3> QED BY <3>2, <3>4, <3>5 DEF K
  <2>3. Len(queue_') = Len(queue_) + 1
    BY <1>2 DEF PushOrWait, Push, PInv, TypeOK
  <2> QED BY <2>1, <2>2, <2>3, WokenFinite DEF PlacesCovered, PInv
<1> QED BY <1>1, <1>2

(* Every woken producer has a free place or a taker to come.                *)
LEMMA PlacesInductive == PInv /\ [Next]_vars => PInv'
<1> SUFFICES ASSUME PInv, [Next]_vars PROVE PlacesCovered'
  BY TypeInductive DEF PInv
<1> USE ThreadPoolAssumption
<1>1. ASSUME UNCHANGED <<ppc, queue_>> PROVE PlacesCovered'
  BY <1>1 DEF PlacesCovered, PInv
<1>2. ASSUME NEW p \in Producers, Run(p) PROVE PlacesCovered'
  BY <1>2, PushKeepsPlaces DEF Run
<1>3. ASSUME NEW p \in Producers, RunAgain(p) PROVE PlacesCovered'
  BY <1>3, PushKeepsPlaces DEF RunAgain
<1>4. ASSUME NEW w \in Workers, Take(w) PROVE PlacesCovered'
  <2>1. CASE UNCHANGED <<queue_, ppc>>
    BY <2>1, <1>1
  <2>2. CASE queue_ # <<>> /\ queue_' = Tail(queue_) /\ MaxQueueSize > 0
               /\ ppc' \in Notify(ppc)
    <3>1. Len(queue_') = Len(queue_) - 1
      BY <2>2 DEF PInv, TypeOK
    <3>2. CASE Waiting(ppc) = {}
      BY <2>2, <3>2 DEF Notify, PlacesCovered
    <3>3. CASE Waiting(ppc) # {}
      <4>1. PICK p \in Waiting(ppc) : ppc' = [ppc EXCEPT ![p] = "woken"]
        BY <2>2, <3>3 DEF Notify
      <4>2. Cardinality(Woken(ppc')) = Cardinality(Woken(ppc)) + 1
        BY <4>1, WakeOne DEF PInv
      <4> QED BY <3>1, <3>3, <4>2, WokenFinite DEF PInv, PlacesCovered
    <3> QED BY <3>2, <3>3
  <2>3. CASE ~(MaxQueueSize > 0) /\ ppc' = ppc
    BY <2>3 DEF PInv, PlacesCovered
  <2> QED BY <1>4, <2>1, <2>2, <2>3 DEF Take
<1>5. ASSUME SpuriousWakeup PROVE PlacesCovered'
  <2>1. CASE UNCHANGED ppc
    BY <1>1, <1>5, <2>1 DEF SpuriousWakeup
  <2>2. ASSUME NEW p \in Waiting(ppc), ppc' = [ppc EXCEPT ![p] = "woken"]
        PROVE  PlacesCovered'
    <3>1. Cardinality(Woken(ppc')) = Cardinality(Woken(ppc)) + 1 /\ Waiting(ppc) # {}
      BY <2>2, WakeOne DEF PInv
    <3> QED BY <1>5, <3>1, WokenFinite DEF PInv, PlacesCovered, SpuriousWakeup
  <2> QED BY <1>5, <2>1, <2>2 DEF SpuriousWakeup
<1> QED BY <1>1, <1>2, <1>3, <1>4, <1>5
        DEF Next, WorkerStep, vars, RunInline, TestRunning, TaskReturn,
            Start, StartThread, Stop, Join

(* ThreadPool::take and run: a producer waits only for room, for any number *)
(* of producers and any limit.                                              *)
THEOREM NoProducerSleeps == Spec => []PlacesCovered
<1>1. Init => PInv
  <2>1. Init => Waiting(ppc) = {}
    BY DEF Init, Waiting
  <2> QED BY <2>1, TypeInit DEF PInv, PlacesCovered
<1>2. PInv => PlacesCovered
  BY DEF PInv
<1> QED BY <1>1, <1>2, PlacesInductive, PTL DEF Spec

(* No thread of the pool waits beside what it waits for (run, take, stop).  *)
THEOREM NobodySleepsInPool == Spec => []NobodySleeps
<1>1. WorkersAwake /\ PlacesCovered => NobodySleeps
  BY DEF NobodySleeps
<1> QED BY <1>1, NoWorkerSleeps, NoProducerSleeps, PTL

-----------------------------------------------------------------------------
(* No task is lost or run twice.                                            *)

(* TasksKept of a sequence of tasks handed over, the tasks offered, and the *)
(* numbers of the first call not run at once and of the last call.          *)
Entries(h) == {h[i] : i \in DOMAIN h}
Offers(o) == {o[p] : p \in Producers} \ {NoTask}

Kept(h, o, n, c) ==
  /\ \A i, j \in DOMAIN h : h[i] = h[j] => i = j
  /\ \A p, q \in Producers : o[p] = o[q] => p = q \/ o[p] = NoTask
  /\ Entries(h) \cap Offers(o) = {}
  /\ Entries(h) \cup Offers(o) = n + 1 .. c

(* run and take: what TasksKept says, of any such sequence. *)
LEMMA KeptIsTasksKept == TasksKept <=> Kept(Handed, offer, inline, calls)
BY DEF TasksKept, Kept, Entries, Offers

(* What is new to the sequence is new to its entries. *)
LEMMA EntriesOfAppend ==
  ASSUME NEW h \in Seq(Tasks), NEW t \in Tasks
  PROVE  /\ Entries(Append(h, t)) = Entries(h) \cup {t}
         /\ (\A i, j \in DOMAIN h : h[i] = h[j] => i = j) /\ t \notin Entries(h)
              => \A i, j \in DOMAIN Append(h, t) :
                   Append(h, t)[i] = Append(h, t)[j] => i = j
<1> DEFINE g == Append(h, t)
           n == Len(h)
<1>1. /\ n \in Nat /\ DOMAIN h = 1..n /\ DOMAIN g = 1..(n + 1)
      /\ \A i \in 1..n : g[i] = h[i]
      /\ g[n + 1] = t
  BY AppendProperties, LenProperties
<1>2. DOMAIN g = DOMAIN h \cup {n + 1} /\ n + 1 \notin DOMAIN h
  BY <1>1
<1>3. \A i \in DOMAIN h : g[i] = h[i]
  BY <1>1
<1> HIDE DEF g, n
<1>4. Entries(g) = Entries(h) \cup {t}
  BY <1>1, <1>2, <1>3 DEF Entries
<1>5. (\A i, j \in DOMAIN h : h[i] = h[j] => i = j) /\ t \notin Entries(h)
        => \A i, j \in DOMAIN g : g[i] = g[j] => i = j
  BY <1>1, <1>2, <1>3 DEF Entries
<1> QED BY <1>4, <1>5 DEF g

(* A call of run that hands its task over, at once or after a wait.         *)
LEMMA HandOver ==
  ASSUME NEW h \in Seq(Tasks), NEW o \in [Producers -> Tasks \cup {NoTask}],
         NEW p \in Producers, NEW n \in Nat, NEW c \in Nat, NEW d \in Nat,
         NEW t \in Tasks, n <= c, Kept(h, o, n, c),
         \/ o[p] = t /\ d = c
         \/ o[p] = NoTask /\ t = c + 1 /\ d = c + 1
  PROVE  Kept(Append(h, t), [o EXCEPT ![p] = NoTask], n, d)
<1> DEFINE u == [o EXCEPT ![p] = NoTask]
<1>1. t # NoTask
  BY DEF Tasks, NoTask
<1>2. u[p] = NoTask /\ (\A q \in Producers : q # p => u[q] = o[q])
  OBVIOUS
<1>3. Offers(u) = Offers(o) \ {o[p]}
  <2>1. \A q \in Producers : q # p /\ o[q] # NoTask => o[q] # o[p]
    BY DEF Kept
  <2> QED BY <1>2, <2>1 DEF Offers
<1>4. \A q, r \in Producers : u[q] = u[r] => q = r \/ u[q] = NoTask
  BY <1>2 DEF Kept
<1>5. t \notin Entries(h)
  <2>1. CASE o[p] = t
    BY <1>1, <2>1 DEF Kept, Offers
  <2>2. CASE t = c + 1
    BY <2>2 DEF Kept
  <2> QED BY <2>1, <2>2
<1>6. (Entries(h) \cup {t}) \cap Offers(u) = {}
  <2>1. CASE o[p] = t
    BY <1>3, <2>1 DEF Kept
  <2>2. CASE t = c + 1
    <3>1. t \notin Offers(o)
      BY <2>2 DEF Kept
    <3> QED BY <1>3, <1>5, <3>1 DEF Kept
  <2> QED BY <2>1, <2>2
<1>7. (Entries(h) \cup {t}) \cup Offers(u) = n + 1 .. d
  <2>1. CASE o[p] = t /\ d = c
    <3>1. t \in Offers(o)
      BY <1>1, <2>1 DEF Offers
    <3>2. (Entries(h) \cup {t}) \cup (Offers(o) \ {t}) = Entries(h) \cup Offers(o)
      BY <3>1
    <3>3. Entries(h) \cup Offers(o) = n + 1 .. c
      BY DEF Kept
    <3> QED BY <1>3, <2>1, <3>2, <3>3
  <2>2. CASE o[p] = NoTask /\ t = c + 1 /\ d = c + 1
    <3>1. Offers(u) = Offers(o)
      BY <1>3, <2>2 DEF Offers
    <3>2. n + 1 .. d = (n + 1 .. c) \cup {t}
      BY <2>2
    <3> QED BY <3>1, <3>2 DEF Kept
  <2> QED BY <2>1, <2>2
<1> HIDE DEF u
<1>8. Kept(Append(h, t), u, n, d)
  BY <1>4, <1>5, <1>6, <1>7, EntriesOfAppend DEF Kept
<1> QED BY <1>8 DEF u

(* A new call of run that has to wait. *)
LEMMA Offering ==
  ASSUME NEW h, NEW o \in [Producers -> Tasks \cup {NoTask}],
         NEW p \in Producers, NEW n \in Nat, NEW c \in Nat, n <= c,
         Kept(h, o, n, c), o[p] = NoTask
  PROVE  Kept(h, [o EXCEPT ![p] = c + 1], n, c + 1)
<1> DEFINE u == [o EXCEPT ![p] = c + 1]
<1>1. u[p] = c + 1 /\ (\A q \in Producers : q # p => u[q] = o[q])
  OBVIOUS
<1>2. Offers(u) = Offers(o) \cup {c + 1}
  BY <1>1 DEF Offers, NoTask
<1>3. c + 1 \notin Entries(h) /\ c + 1 \notin Offers(o)
  BY DEF Kept
<1>4. \A q, r \in Producers : u[q] = u[r] => q = r \/ u[q] = NoTask
  <2>1. \A q \in Producers : o[q] # c + 1
    BY <1>3 DEF Offers, NoTask
  <2> QED BY <1>1, <2>1 DEF Kept
<1>5. n + 1 .. c + 1 = (n + 1 .. c) \cup {c + 1}
  OBVIOUS
<1> HIDE DEF u
<1>6. Kept(h, u, n, c + 1)
  BY <1>2, <1>3, <1>4, <1>5 DEF Kept
<1> QED BY <1>6 DEF u

(* The tasks handed over are those begun and those queued: a push adds one  *)
(* at the end, a take moves the first of the queue to the end of the begun. *)
LEMMA HandedBySteps ==
  ASSUME TypeOK
  PROVE  /\ Handed \in Seq(Tasks)
         /\ \A t \in Tasks : executed \o Append(queue_, t) = Append(Handed, t)
         /\ queue_ # <<>> => Append(executed, Head(queue_)) \o Tail(queue_) = Handed
<1>1. executed \in Seq(Tasks) /\ queue_ \in Seq(Tasks)
  BY DEF TypeOK
<1>2. Handed \in Seq(Tasks)
  BY <1>1, ConcatProperties DEF Handed
<1>3. ASSUME NEW t \in Tasks PROVE executed \o Append(queue_, t) = Append(Handed, t)
  <2>1. <<t>> \in Seq(Tasks)
    OBVIOUS
  <2>2. executed \o (queue_ \o <<t>>) = (executed \o queue_) \o <<t>>
    BY <1>1, <2>1, ConcatAssociative
  <2>3. Append(queue_, t) = queue_ \o <<t>> /\ Append(Handed, t) = Handed \o <<t>>
    BY <1>1, <1>2, AppendIsConcat
  <2> QED BY <2>2, <2>3 DEF Handed
<1>4. ASSUME queue_ # <<>>
      PROVE  Append(executed, Head(queue_)) \o Tail(queue_) = Handed
  <2> DEFINE x == Head(queue_)
             r == Tail(queue_)
  <2>1. x \in Tasks /\ r \in Seq(Tasks) /\ <<x>> \in Seq(Tasks)
    BY <1>1, <1>4, HeadTailProperties
  <2>2. queue_ = <<x>> \o r
    BY <1>1, <1>4
  <2>3. Append(executed, x) = executed \o <<x>>
    BY <1>1, <2>1, AppendIsConcat
  <2> HIDE DEF x, r
  <2>4. (executed \o <<x>>) \o r = executed \o (<<x>> \o r)
    BY <1>1, <2>1, ConcatAssociative
  <2>5. Append(executed, x) \o r = Handed
    BY <2>2, <2>3, <2>4 DEF Handed
  <2> QED BY <2>5 DEF x, r
<1> QED BY <1>2, <1>3, <1>4

KInv == WInv /\ TasksKept

(* run, its wait and take pass each task on; nothing else touches one.      *)
LEMMA KeptInductive == KInv /\ [Next]_vars => KInv'
<1> SUFFICES ASSUME KInv, [Next]_vars PROVE TasksKept'
  BY AwakeInductive DEF KInv
<1> USE ThreadPoolAssumption
<1>1. Kept(Handed, offer, inline, calls) /\ TypeOK /\ WInv
  BY KeptIsTasksKept DEF KInv, WInv
<1>2. /\ offer \in [Producers -> Tasks \cup {NoTask}]
      /\ inline \in Nat /\ calls \in Nat /\ inline <= calls
  BY <1>1 DEF TypeOK
<1>3. ASSUME Kept(Handed', offer', inline', calls') PROVE TasksKept'
  BY <1>3 DEF TasksKept, Kept, Entries, Offers
<1>4. ASSUME UNCHANGED <<Handed, offer, inline, calls>> PROVE TasksKept'
  BY <1>1, <1>3, <1>4
<1>5. ASSUME NEW p \in Producers, NEW t \in Tasks, ~IsFull, PushOrWait(p, t),
             UNCHANGED <<executed, inline>>,
             \/ offer[p] = t /\ calls' = calls
             \/ offer[p] = NoTask /\ t = calls + 1 /\ calls' = calls + 1
      PROVE  TasksKept'
  <2>1. Handed' = Append(Handed, t) /\ offer' = [offer EXCEPT ![p] = NoTask]
    BY <1>1, <1>5, HandedBySteps DEF PushOrWait, Push, Handed
  <2>2. Handed \in Seq(Tasks) /\ calls' \in Nat
    BY <1>1, <1>2, <1>5, HandedBySteps
  <2> QED BY <1>1, <1>2, <1>3, <1>5, <2>1, <2>2, HandOver
<1>6. ASSUME NEW p \in Producers, RunInline(p) PROVE TasksKept'
  <2>1. \A q \in Producers : offer[q] = NoTask
    BY <1>1, <1>6 DEF RunInline, WInv, Phases, TypeOK
  <2>2. Handed = <<>>
    BY <1>1, <1>6 DEF RunInline, WInv, Phases, Handed
  <2>3. inline' = calls' /\ Handed' = Handed /\ offer' = offer /\ calls' \in Nat
    BY <1>1, <1>2, <1>6 DEF RunInline, WInv, Phases, Handed
  <2>4. Entries(Handed) = {} /\ Offers(offer) = {}
    BY <2>1, <2>2 DEF Entries, Offers
  <2>5. \A k \in Nat : k + 1 .. k = {}
    OBVIOUS
  <2>6. Kept(Handed', offer', inline', calls')
    BY <2>1, <2>2, <2>3, <2>4, <2>5 DEF Kept
  <2> QED BY <1>3, <2>6
<1>7. ASSUME NEW p \in Producers, Run(p) PROVE TasksKept'
  <2>1. calls + 1 \in Tasks /\ offer[p] = NoTask /\ calls' = calls + 1
    BY <1>1, <1>7 DEF Run, Tasks, TypeOK
  <2>2. CASE IsFull
    <3>1. Handed' = Handed /\ offer' = [offer EXCEPT ![p] = calls + 1] /\ inline' = inline
      BY <1>7, <2>2 DEF Run, PushOrWait, Handed
    <3> QED BY <1>1, <1>2, <1>3, <2>1, <3>1, Offering
  <2> QED BY <1>5, <1>7, <2>1, <2>2 DEF Run
<1>8. ASSUME NEW p \in Producers, RunAgain(p) PROVE TasksKept'
  <2>1. offer[p] \in Tasks
    BY <1>1, <1>8 DEF RunAgain, TypeOK
  <2>2. CASE IsFull
    <3>1. offer' = offer
      BY <1>2, <1>8, <2>2 DEF RunAgain, PushOrWait
    <3> QED BY <1>4, <1>8, <2>2, <3>1 DEF RunAgain, PushOrWait, Handed
  <2> QED BY <1>5, <1>8, <2>1, <2>2 DEF RunAgain
<1>9. ASSUME NEW w \in Workers, Take(w) PROVE TasksKept'
  <2>1. Handed' = Handed
    <3>1. CASE UNCHANGED <<queue_, executed>>
      BY <3>1 DEF Handed
    <3>2. CASE queue_ # <<>> /\ queue_' = Tail(queue_)
                 /\ executed' = Append(executed, Head(queue_))
      BY <1>1, <3>2, HandedBySteps DEF Handed
    <3> QED BY <1>9, <3>1, <3>2 DEF Take
  <2> QED BY <1>4, <1>9, <2>1 DEF Take
<1> QED BY <1>4, <1>6, <1>7, <1>8, <1>9
        DEF Next, WorkerStep, vars, TestRunning, TaskReturn,
            Start, StartThread, Stop, Join, SpuriousWakeup, Handed

(* ThreadPool::run and take: whatever waits, wakes or is stopped, each task *)
(* is run by its caller, offered, queued or begun, and that once.           *)
THEOREM NoTaskLost == Spec => []TasksKept
<1>1. Init => KInv
  <2> SUFFICES ASSUME Init PROVE WInv /\ TasksKept
    BY DEF KInv
  <2>1. WInv
    BY TypeInit DEF Init, WInv, Phases, WorkersAwake, NoThreads, Waiting
  <2>2. Handed = <<>> /\ (\A p \in Producers : offer[p] = NoTask)
    BY DEF Init, Handed
  <2>3. inline + 1 .. calls = {}
    BY DEF Init
  <2>4. Entries(Handed) = {} /\ Offers(offer) = {}
    BY <2>2 DEF Entries, Offers
  <2>5. \A i, j \in DOMAIN Handed : Handed[i] = Handed[j] => i = j
    BY <2>2
  <2>6. Kept(Handed, offer, inline, calls)
    BY <2>2, <2>3, <2>4, <2>5 DEF Kept
  <2> QED BY <2>1, <2>6, KeptIsTasksKept
<1>2. KInv => TasksKept
  BY DEF KInv
<1> QED BY <1>1, <1>2, KeptInductive, PTL DEF Spec

-----------------------------------------------------------------------------
(* The pool implements FunctorQueue.                                        *)

(* The tasks are begun in the order in which run queued them: every step of *)
(* the pool is a step of FunctorQueue or leaves it alone.                   *)
THEOREM PoolIsQueue == Spec => TasksInOrder
<1>1. Init => FQ!Init
  BY DEF Init, FQ!Init
<1>2. TypeOK /\ [Next]_vars => [FQ!Next]_(FQ!fqvars)
  <2> SUFFICES ASSUME TypeOK, [Next]_vars PROVE [FQ!Next]_(FQ!fqvars)
    OBVIOUS
  <2>1. ASSUME UNCHANGED <<queue_, executed>> PROVE [FQ!Next]_(FQ!fqvars)
    BY <2>1 DEF FQ!fqvars
  <2>2. ASSUME NEW p \in Producers, NEW t \in Tasks, PushOrWait(p, t), executed' = executed
        PROVE  [FQ!Next]_(FQ!fqvars)
    BY <2>1, <2>2 DEF PushOrWait, Push, FQ!Next, FQ!Submit
  <2>3. ASSUME NEW p \in Producers, Run(p) PROVE [FQ!Next]_(FQ!fqvars)
    <3>1. calls + 1 \in Tasks
      BY <2>3, ThreadPoolAssumption DEF TypeOK, Run, Tasks
    <3> QED BY <2>2, <2>3, <3>1 DEF Run
  <2>4. ASSUME NEW p \in Producers, RunAgain(p) PROVE [FQ!Next]_(FQ!fqvars)
    <3>1. offer[p] \in Tasks
      BY <2>4 DEF RunAgain, TypeOK
    <3> QED BY <2>2, <2>4, <3>1 DEF RunAgain
  <2>5. ASSUME NEW w \in Workers, Take(w) PROVE [FQ!Next]_(FQ!fqvars)
    BY <2>1, <2>5 DEF Take, FQ!Next, FQ!RunHead
  <2> QED BY <2>1, <2>3, <2>4, <2>5
          DEF Next, WorkerStep, vars, RunInline, TestRunning, TaskReturn,
              Start, StartThread, Stop, Join, SpuriousWakeup
<1> QED BY <1>1, <1>2, TypeCorrect, PTL DEF Spec, TasksInOrder, FQ!Spec
=============================================================================
