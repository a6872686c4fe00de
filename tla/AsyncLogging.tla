--------------------------- MODULE AsyncLogging -----------------------------
(***************************************************************************)
(* muduo::AsyncLogging (base/AsyncLogging.cc): front ends append lines to  *)
(* large buffers under a mutex, one logging thread swaps the buffers out   *)
(* and writes them to the log file, and stop waits for that thread.        *)
(*                                                                         *)
(* Lines are numbered in the order in which append takes the mutex, so the *)
(* front ends need no names.  A buffer is the sequence of its lines, NULL  *)
(* an empty pointer.  An action is a critical section of mutex_, or the    *)
(* logging thread's work between two of them.                              *)
(***************************************************************************)
EXTENDS Integers, Sequences, SequencesExt

CONSTANTS Size,         \* bytes of a FixedBuffer: kLargeBuffer
          LineLen,      \* bytes of a line
          MaxBatch,     \* a batch with more buffers is cut down: 25
          MaxLines,     \* lines ever appended (bound)
          NULL          \* not a buffer

ASSUME AsyncLoggingAssumption ==
  /\ LineLen \in Nat \ {0} /\ Size \in Nat /\ LineLen < Size
  /\ MaxBatch \in Nat /\ MaxBatch >= 2
  /\ MaxLines \in Nat
  /\ NULL \notin Seq(Nat)

VARIABLES
  running_,             \* the flag, which nothing guards
  latch_,               \* the count start waits for
  lines,                \* lines appended so far
  currentBuffer_, nextBuffer_, buffers_,
  newBuffer1, newBuffer2, buffersToWrite,
  output,               \* lines in the log file
  dropped,              \* lines thrown away with their buffers
  backend,              \* where the logging thread is
  caller,               \* the owner: in start, in stop, or between
  broken                \* a failed assertion of threadFunc

vars == <<running_, latch_, lines, currentBuffer_, nextBuffer_, buffers_,
          newBuffer1, newBuffer2, buffersToWrite, output, dropped, backend,
          caller, broken>>

frontVars == <<currentBuffer_, nextBuffer_, buffers_>>
backVars == <<newBuffer1, newBuffer2, buffersToWrite, output, dropped, broken>>

Init ==
  /\ running_ = FALSE /\ latch_ = 1 /\ lines = 0
  /\ currentBuffer_ = <<>> /\ nextBuffer_ = <<>> /\ buffers_ = <<>>
  /\ newBuffer1 = <<>> /\ newBuffer2 = <<>> /\ buffersToWrite = <<>>
  /\ output = <<>> /\ dropped = {}
  /\ backend = "none" /\ caller = "none" /\ broken = FALSE

-----------------------------------------------------------------------------
(* FixedBuffer.                                                            *)

Avail(buffer) == Size - Len(buffer) * LineLen

(* FixedBuffer::append refuses silently what does not fit. *)
Put(buffer, line) ==
  IF Avail(buffer) > LineLen THEN Append(buffer, line) ELSE buffer

-----------------------------------------------------------------------------
(* The front ends.                                                         *)

(* Mutant of notify: no wakeup for a full buffer. *)
NotifyNobody == UNCHANGED backend

(* cond_.notify wakes the logging thread only if it already waits. *)
Notify == backend' = IF backend = "waiting" THEN "woken" ELSE backend

AppendHere ==
  /\ Avail(currentBuffer_) > LineLen
  /\ currentBuffer_' = Put(currentBuffer_, lines + 1)
  /\ UNCHANGED <<nextBuffer_, buffers_, backend>>

(* currentBuffer_ is full: nextBuffer_ or a new buffer takes its place. *)
AppendNext ==
  /\ ~(Avail(currentBuffer_) > LineLen)
  /\ buffers_' = Append(buffers_, currentBuffer_)
  /\ currentBuffer_' = Put(IF nextBuffer_ # NULL THEN nextBuffer_ ELSE <<>>,
                           lines + 1)
  /\ nextBuffer_' = NULL
  /\ Notify

AppendLine ==
  /\ lines < MaxLines
  /\ lines' = lines + 1
  /\ AppendHere \/ AppendNext
  /\ UNCHANGED <<running_, latch_, backVars, caller>>

-----------------------------------------------------------------------------
(* The logging thread: threadFunc.                                         *)

(* Mutant of the countdown: left out. *)
CountNothing == latch_' = latch_

(* CountDownLatch::countDown. *)
CountDown == latch_' = latch_ - 1

(* threadFunc asserts that start has set the flag and lets start return, *)
Begin ==
  /\ backend = "born"
  /\ broken' = ~running_
  /\ CountDown
  /\ backend' = "open"
  /\ UNCHANGED <<running_, lines, frontVars, newBuffer1, newBuffer2,
                 buffersToWrite, output, dropped, caller>>

(* and only then opens the log file. *)
OpenFile ==
  /\ backend = "open"
  /\ backend' = "test"
  /\ UNCHANGED <<running_, latch_, lines, frontVars, backVars, caller>>

(* The loop's test; the thread ends when it fails. *)
TestRunning ==
  /\ backend = "test"
  /\ backend' = IF running_ THEN "lock" ELSE "exit"
  /\ broken' = (running_ /\ ~(newBuffer1 = <<>> /\ newBuffer2 = <<>>
                              /\ buffersToWrite = <<>>))
  /\ UNCHANGED <<running_, latch_, lines, frontVars, newBuffer1, newBuffer2,
                 buffersToWrite, output, dropped, caller>>

(* Mutant: newBuffer2 is always handed over. *)
SwapBoth ==
  /\ buffersToWrite' = Append(buffers_, currentBuffer_)
  /\ buffers_' = <<>>
  /\ currentBuffer_' = newBuffer1 /\ newBuffer1' = NULL
  /\ nextBuffer_' = newBuffer2 /\ newBuffer2' = NULL
  /\ backend' = "write"
  /\ UNCHANGED <<running_, latch_, lines, output, dropped, caller, broken>>

(* The batch is taken, newBuffer1 takes currentBuffer_'s place and         *)
(* newBuffer2 that of a missing nextBuffer_.                               *)
Swap ==
  /\ buffersToWrite' = Append(buffers_, currentBuffer_)
  /\ buffers_' = <<>>
  /\ currentBuffer_' = newBuffer1 /\ newBuffer1' = NULL
  /\ IF nextBuffer_ = NULL
     THEN nextBuffer_' = newBuffer2 /\ newBuffer2' = NULL
     ELSE UNCHANGED <<nextBuffer_, newBuffer2>>
  /\ backend' = "write"
  /\ UNCHANGED <<running_, latch_, lines, output, dropped, caller, broken>>

(* waitForSeconds gives the mutex back; what it is woken for is not tested *)
(* again.                                                                  *)
Wait ==
  /\ backend = "lock"
  /\ buffers_ = <<>>
  /\ backend' = "waiting"
  /\ UNCHANGED <<running_, latch_, lines, frontVars, backVars, caller>>

(* Mutant: wait in place of waitForSeconds. *)
TimeOutNever == backend = "waiting" /\ FALSE /\ UNCHANGED vars

TimeOut ==
  /\ backend = "waiting"
  /\ backend' = "woken"
  /\ UNCHANGED <<running_, latch_, lines, frontVars, backVars, caller>>

TakeBatch ==
  /\ \/ backend = "lock" /\ buffers_ # <<>>
     \/ backend = "woken"
  /\ Swap

(* The lines in a vector of buffers, or in any function to sequences. *)
LinesOf(buffers) == UNION {ToSet(buffers[b]) : b \in DOMAIN buffers}

(* Of a batch that is too long the first two buffers are written. *)
Kept(batch) == IF Len(batch) > MaxBatch THEN SubSeq(batch, 1, 2) ELSE batch

(* reset makes a written buffer empty. *)
Reused(buffer) == <<>>

(* newBuffer1 and newBuffer2 are refilled from the last of at most two     *)
(* buffers of the batch; pop_back of an empty vector is undefined.         *)
Refill(batch) ==
  LET n == IF Len(batch) > 2 THEN 2 ELSE Len(batch)
      second == n - (IF newBuffer1 = NULL THEN 1 ELSE 0)
  IN /\ newBuffer1' = IF newBuffer1 = NULL /\ n > 0 THEN Reused(batch[n])
                      ELSE newBuffer1
     /\ newBuffer2' = IF newBuffer2 = NULL /\ second > 0
                      THEN Reused(batch[second]) ELSE newBuffer2
     /\ broken' = \/ newBuffer1 = NULL /\ n = 0
                  \/ newBuffer2 = NULL /\ second = 0

WriteBatch ==
  /\ backend = "write"
  /\ LET kept == Kept(buffersToWrite) IN
     /\ output' = output \o FlattenSeq(kept)
     /\ dropped' = dropped \cup (LinesOf(buffersToWrite) \ LinesOf(kept))
     /\ Refill(kept)
  /\ buffersToWrite' = <<>>
  /\ backend' = "test"
  /\ UNCHANGED <<running_, latch_, lines, frontVars, caller>>

-----------------------------------------------------------------------------
(* The thread that owns the logger.                                        *)

(* Thread::start makes the thread, which runs threadFunc. *)
StartThread == backend = "none" /\ backend' = "born"

Start ==
  /\ caller = "none"
  /\ running_' = TRUE
  /\ StartThread
  /\ caller' = "starting"
  /\ UNCHANGED <<latch_, lines, frontVars, backVars>>

(* CountDownLatch::wait tests the count again whenever it is woken. *)
StartReturn ==
  /\ caller = "starting" /\ ~(latch_ > 0)
  /\ caller' = "started"
  /\ UNCHANGED <<running_, latch_, lines, frontVars, backVars, backend>>

(* stop sets the flag, notifies without the mutex, and joins. *)
Stop ==
  /\ caller = "started" /\ running_
  /\ running_' = FALSE
  /\ caller' = "notify"
  /\ UNCHANGED <<latch_, lines, frontVars, backVars, backend>>

StopNotify ==
  /\ caller = "notify"
  /\ caller' = "join"
  /\ Notify
  /\ UNCHANGED <<running_, latch_, lines, frontVars, backVars>>

Join ==
  /\ caller = "join" /\ backend = "exit"
  /\ caller' = "joined"
  /\ UNCHANGED <<running_, latch_, lines, frontVars, backVars, backend>>

Backend == Begin \/ OpenFile \/ TestRunning \/ Wait \/ TimeOut \/ TakeBatch \/ WriteBatch

Next ==
  /\ ~broken
  /\ \/ AppendLine \/ Backend
     \/ Start \/ StartReturn \/ Stop \/ StopNotify \/ Join

Spec == Init /\ [][Next]_vars

(* The logging thread runs, the time-out of its wait comes, and start and  *)
(* stop go on once called.                                                 *)
FairSpec ==
  /\ Spec
  /\ WF_vars(~broken /\ Backend)
  /\ WF_vars(~broken /\ (StartReturn \/ StopNotify \/ Join))

-----------------------------------------------------------------------------
(* Properties.                                                             *)

Buffer == {b \in Seq(Nat) : Len(b) * LineLen < Size}

(* Type correctness: a buffer given back to a front end is empty (reset).  *)
TypeOK ==
  /\ running_ \in BOOLEAN /\ latch_ \in 0 .. 1 /\ broken \in BOOLEAN
  /\ lines \in 0 .. MaxLines
  /\ currentBuffer_ \in Buffer /\ nextBuffer_ \in {<<>>, NULL}
  /\ buffers_ \in Seq(Buffer) /\ buffersToWrite \in Seq(Buffer)
  /\ newBuffer1 \in {<<>>, NULL} /\ newBuffer2 \in {<<>>, NULL}
  /\ output \in Seq(Nat) /\ dropped \in SUBSET Nat
  /\ backend \in {"none", "born", "open", "test", "lock", "waiting", "woken",
                   "write", "exit"}
  /\ caller \in {"none", "starting", "started", "notify", "join", "joined"}

(* threadFunc's assertions: it runs only once start has set running_, at   *)
(* the head of the loop both spare buffers are there and empty, and a      *)
(* batch is long enough to refill them.                                    *)
AssertionsHold == ~broken

(* The logging thread never sleeps beside a full buffer: the notify of     *)
(* append cannot be lost, since the test for the wait is under the mutex.  *)
NoSleepOnFull == backend = "waiting" => buffers_ = <<>>

(* Unless it is stopped, the logger writes or drops every line.            *)
AppendedIsWritten ==
  \A i \in 1 .. MaxLines :
    (running_ /\ lines >= i)
      ~> (i \in ToSet(output) \/ i \in dropped \/ ~running_)

(* stop returns, also when its notify comes before the wait: only the      *)
(* time-out of the wait sees to that (waitForSeconds, stop).               *)
StopReturns == caller = "notify" ~> caller = "joined"

(* start returns, by the latch (threadFunc, start).                        *)
StartReturns == caller = "starting" ~> caller # "starting"

(* start returns, the logging thread writes what is appended until it is   *)
(* stopped, and then ends (start, threadFunc, stop).                       *)
WritesUntilStopped == StartReturns /\ AppendedIsWritten /\ StopReturns
=============================================================================
