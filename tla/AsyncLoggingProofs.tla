------------------------- MODULE AsyncLoggingProofs --------------------------
(***************************************************************************)
(* Proofs about AsyncLogging, for every size of a buffer, of a line and of *)
(* a batch, and any number of lines: threadFunc's assertions hold, and the *)
(* logging thread never sleeps beside a full buffer; with its LogFile it   *)
(* implements AsyncLogging, no file goes on into another day, and a crash  *)
(* leaves no hole in the files.                                            *)
(***************************************************************************)
EXTENDS LogFile, SequenceTheorems, TLAPS

(* A spare buffer is empty or has been handed over. *)
Spare == {<<>>, NULL}

BuffersOK ==
  /\ currentBuffer_ \in Seq(Nat) /\ lines \in Nat
  /\ buffers_ \in Seq(Seq(Nat)) /\ buffersToWrite \in Seq(Seq(Nat))
  /\ nextBuffer_ \in Spare /\ newBuffer1 \in Spare /\ newBuffer2 \in Spare

(* stop cannot come before the logging thread has counted the latch down. *)
FlagBeforeThread ==
  /\ caller = "none" => backend = "none"
  /\ latch_ = IF backend \in {"none", "born"} THEN 1 ELSE 0
  /\ backend = "born" => caller = "starting"
  /\ caller = "starting" => running_

(* The front ends take nextBuffer_ only when they put a full buffer beside *)
(* the one in use, ...                                                     *)
NextTakenMeansFull == nextBuffer_ = NULL => buffers_ # <<>>

(* ... so that the batch has two buffers whenever newBuffer2 was handed    *)
(* over, and one in any case.                                              *)
BatchRefills ==
  backend = "write" =>
    /\ newBuffer1 = NULL
    /\ Len(buffersToWrite) >= 1
    /\ newBuffer2 = NULL => Len(buffersToWrite) >= 2

(* Outside the writing of a batch both spare buffers are there. *)
SparesThere ==
  backend # "write" =>
    newBuffer1 = <<>> /\ newBuffer2 = <<>> /\ buffersToWrite = <<>>

(* AssertionsHold is not inductive: that a batch is long enough follows    *)
(* from what the front ends did before it was swapped out.                 *)
IInv ==
  /\ BuffersOK
  /\ FlagBeforeThread
  /\ NextTakenMeansFull
  /\ BatchRefills
  /\ SparesThere
  /\ NoSleepOnFull
  /\ AssertionsHold

-----------------------------------------------------------------------------
(* A buffer is not an empty pointer. *)
LEMMA NullIsNoBuffer == <<>> \in Seq(Nat) /\ NULL # <<>>
<1>1. <<>> \in Seq(Nat)
  OBVIOUS
<1> QED BY <1>1, AsyncLoggingAssumption

(* FixedBuffer::append keeps a buffer a buffer. *)
LEMMA PutIsBuffer ==
  ASSUME NEW b \in Seq(Nat), NEW line \in Nat
  PROVE  Put(b, line) \in Seq(Nat)
BY DEF Put

(* Putting a buffer behind others leaves at least one. *)
LEMMA AppendGrows ==
  ASSUME NEW bs \in Seq(Seq(Nat)), NEW b \in Seq(Nat)
  PROVE  /\ Append(bs, b) \in Seq(Seq(Nat)) /\ Append(bs, b) # <<>>
         /\ Len(Append(bs, b)) = Len(bs) + 1
         /\ bs # <<>> => Len(Append(bs, b)) >= 2
<1>1. Append(bs, b) \in Seq(Seq(Nat)) /\ Len(Append(bs, b)) = Len(bs) + 1
  BY AppendProperties
<1>2. Len(bs) \in Nat /\ (bs # <<>> => Len(bs) # 0)
  BY EmptySeq, LenProperties
<1>3. Append(bs, b) # <<>>
  <2>1. Len(Append(bs, b)) # 0
    BY <1>1, <1>2
  <2> QED BY <2>1, EmptySeq
<1>4. bs # <<>> => Len(Append(bs, b)) >= 2
  BY <1>1, <1>2
<1> QED BY <1>1, <1>3, <1>4

(* Cutting a batch down (threadFunc) leaves what the refill needs. *)
LEMMA KeptRefills ==
  ASSUME NEW batch \in Seq(Seq(Nat)), Len(batch) >= 1
  PROVE  /\ Kept(batch) \in Seq(Seq(Nat)) /\ Len(Kept(batch)) >= 1
         /\ Len(batch) >= 2 => Len(Kept(batch)) >= 2
<1>1. Len(batch) \in Nat
  BY LenProperties
<1>2. CASE Len(batch) > MaxBatch
  <2>1. Len(batch) >= 2
    BY <1>1, <1>2, AsyncLoggingAssumption
  <2>2. SubSeq(batch, 1, 2) \in Seq(Seq(Nat)) /\ Len(SubSeq(batch, 1, 2)) = 2
    BY <1>1, <2>1, SubSeqProperties
  <2> QED BY <1>2, <2>2 DEF Kept
<1>3. CASE ~(Len(batch) > MaxBatch)
  BY <1>3 DEF Kept
<1> QED BY <1>2, <1>3

-----------------------------------------------------------------------------
(* append. *)
LEMMA AppendKeeps == IInv /\ AppendLine => IInv'
<1> SUFFICES ASSUME IInv, AppendLine PROVE IInv'
  OBVIOUS
<1> USE DEF IInv, Spare
<1>1. /\ lines' = lines + 1 /\ lines + 1 \in Nat
      /\ UNCHANGED <<running_, latch_, caller, newBuffer1, newBuffer2, buffersToWrite, broken>>
  BY DEF AppendLine, BuffersOK, backVars
<1>2. CASE AppendHere
  <2>1. currentBuffer_' \in Seq(Nat)
    BY <1>1, <1>2, PutIsBuffer DEF AppendHere, BuffersOK
  <2> QED BY <1>1, <1>2, <2>1 DEF AppendHere, BuffersOK, FlagBeforeThread,
            NextTakenMeansFull, BatchRefills, SparesThere, NoSleepOnFull, AssertionsHold
<1>3. CASE AppendNext
  <2>1. currentBuffer_' \in Seq(Nat)
    <3>1. (IF nextBuffer_ # NULL THEN nextBuffer_ ELSE <<>>) \in Seq(Nat)
      BY NullIsNoBuffer DEF BuffersOK
    <3> QED BY <1>1, <1>3, <3>1, PutIsBuffer DEF AppendNext
  <2>2. buffers_' \in Seq(Seq(Nat)) /\ buffers_' # <<>>
    BY <1>3, AppendGrows DEF AppendNext, BuffersOK
  <2>3. backend' = IF backend = "waiting" THEN "woken" ELSE backend
    BY <1>3 DEF AppendNext, Notify
  <2>4. nextBuffer_' = NULL
    BY <1>3 DEF AppendNext
  <2>5. BuffersOK' /\ NextTakenMeansFull'
    BY <1>1, <2>1, <2>2, <2>4 DEF BuffersOK, NextTakenMeansFull
  <2>6. BatchRefills' /\ SparesThere' /\ AssertionsHold'
    BY <1>1, <2>3 DEF BatchRefills, SparesThere, AssertionsHold
  <2>7. NoSleepOnFull' /\ FlagBeforeThread'
    BY <1>1, <2>3 DEF NoSleepOnFull, FlagBeforeThread
  <2> QED BY <2>5, <2>6, <2>7
<1> QED BY <1>2, <1>3 DEF AppendLine

(* The swap of the buffers under the mutex. *)
LEMMA SwapKeeps == IInv /\ TakeBatch => IInv'
<1> SUFFICES ASSUME IInv, TakeBatch PROVE IInv'
  OBVIOUS
<1> USE DEF IInv
<1>1. Swap /\ backend # "write"
  BY DEF TakeBatch
<1>2. newBuffer1 = <<>> /\ newBuffer2 = <<>>
  BY <1>1 DEF SparesThere
<1>3. /\ buffersToWrite' \in Seq(Seq(Nat)) /\ Len(buffersToWrite') >= 1
      /\ buffers_ # <<>> => Len(buffersToWrite') >= 2
  <2>1. buffersToWrite' = Append(buffers_, currentBuffer_)
    BY <1>1 DEF Swap
  <2>2. Len(buffers_) \in Nat
    BY LenProperties DEF BuffersOK
  <2> QED BY <2>1, <2>2, AppendGrows DEF BuffersOK
<1>4. /\ buffers_' = <<>> /\ currentBuffer_' = <<>> /\ newBuffer1' = NULL
      /\ nextBuffer_' = <<>> /\ newBuffer2' \in {<<>>, NULL}
      /\ newBuffer2' = NULL => nextBuffer_ = NULL
      /\ backend' = "write" /\ broken' = broken /\ lines' = lines
      /\ UNCHANGED <<running_, latch_, caller>>
  BY <1>1, <1>2, NullIsNoBuffer DEF Swap, BuffersOK, Spare
<1>5. newBuffer2' = NULL => Len(buffersToWrite') >= 2
  BY <1>3, <1>4 DEF NextTakenMeansFull
<1>6. BuffersOK'
  BY <1>3, <1>4, NullIsNoBuffer DEF BuffersOK, Spare
<1>7. FlagBeforeThread'
  BY <1>4 DEF TakeBatch, FlagBeforeThread
<1> QED BY <1>3, <1>4, <1>5, <1>6, <1>7, NullIsNoBuffer DEF NextTakenMeansFull,
          BatchRefills, SparesThere, NoSleepOnFull, AssertionsHold

(* The refill of newBuffer1 and newBuffer2 from the written batch. *)
LEMMA WriteKeeps == IInv /\ WriteBatch => IInv'
<1> SUFFICES ASSUME IInv, WriteBatch PROVE IInv'
  OBVIOUS
<1> USE DEF IInv
<1> DEFINE kept == Kept(buffersToWrite)
<1>1. newBuffer1 = NULL /\ Len(buffersToWrite) >= 1
      /\ (newBuffer2 = NULL => Len(buffersToWrite) >= 2)
  BY DEF WriteBatch, BatchRefills
<1>2. Len(kept) \in Nat /\ Len(kept) >= 1 /\ (newBuffer2 = NULL => Len(kept) >= 2)
  BY <1>1, KeptRefills, LenProperties DEF BuffersOK
<1>3. Refill(kept) /\ buffersToWrite' = <<>> /\ backend' = "test"
      /\ UNCHANGED <<running_, latch_, caller, lines, currentBuffer_,
                     nextBuffer_, buffers_>>
  BY DEF WriteBatch, frontVars
<1> HIDE DEF kept
<1>4. newBuffer1' = <<>> /\ newBuffer2' = <<>> /\ broken' = FALSE
  <2>1. newBuffer1' = <<>>
    BY <1>1, <1>2, <1>3 DEF Refill, Reused
  <2>2. newBuffer2' = <<>>
    BY <1>1, <1>2, <1>3 DEF Refill, Reused, BuffersOK, Spare
  <2>3. broken' = FALSE
    BY <1>1, <1>2, <1>3, NullIsNoBuffer DEF Refill
  <2> QED BY <2>1, <2>2, <2>3
<1>5. BuffersOK'
  BY <1>3, <1>4 DEF BuffersOK, Spare
<1>6. FlagBeforeThread'
  BY <1>3 DEF WriteBatch, FlagBeforeThread
<1> QED BY <1>3, <1>4, <1>5, <1>6 DEF NextTakenMeansFull, BatchRefills,
          SparesThere, NoSleepOnFull, AssertionsHold

(* The steps that leave the buffers alone. *)
LEMMA OthersKeep ==
  ASSUME IInv,
         \/ Begin \/ OpenFile \/ TestRunning \/ Wait \/ TimeOut \/ Start
         \/ StartReturn \/ Stop \/ StopNotify \/ Join \/ UNCHANGED vars
  PROVE  IInv'
<1> USE DEF IInv, BuffersOK, FlagBeforeThread,
            NextTakenMeansFull, BatchRefills, SparesThere, NoSleepOnFull, AssertionsHold,
            frontVars, backVars
<1>1. CASE TestRunning
  BY <1>1 DEF TestRunning
<1>2. CASE Wait
  BY <1>2 DEF Wait
<1>3. CASE TimeOut
  BY <1>3 DEF TimeOut
<1>4. CASE Start
  BY <1>4 DEF Start, StartThread
<1>5. CASE Stop
  BY <1>5 DEF Stop
<1>6. CASE StopNotify
  BY <1>6 DEF StopNotify, Notify
<1>7. CASE Join
  BY <1>7 DEF Join
<1>8. CASE UNCHANGED vars
  BY <1>8 DEF vars
<1>9. CASE Begin
  <2>1. running_ /\ latch_ = 1
    BY <1>9 DEF Begin
  <2>2. broken' = FALSE
    BY <1>9, <2>1 DEF Begin
  <2>3. latch_' = 0
    BY <1>9, <2>1 DEF Begin, CountDown
  <2> QED BY <1>9, <2>2, <2>3 DEF Begin
<1>10. CASE OpenFile
  BY <1>10 DEF OpenFile
<1>11. CASE StartReturn
  BY <1>11 DEF StartReturn
<1> QED BY <1>1, <1>2, <1>3, <1>4, <1>5, <1>6, <1>7, <1>8, <1>9, <1>10, <1>11

(* The logger before start (AsyncLogging's constructor).                    *)
LEMMA InitInv == Init => IInv
<1> SUFFICES ASSUME Init PROVE IInv
  OBVIOUS
<1>1. BuffersOK
  BY NullIsNoBuffer DEF Init, BuffersOK, Spare
<1> QED BY <1>1, NullIsNoBuffer DEF Init, IInv, FlagBeforeThread, NextTakenMeansFull,
          BatchRefills, SparesThere, NoSleepOnFull, AssertionsHold

(* No step of a front end, the owner or the logging thread breaks it.       *)
LEMMA NextInv == IInv /\ [Next]_vars => IInv'
BY AppendKeeps, SwapKeeps, WriteKeeps, OthersKeep DEF Next, Backend

(* The inductive invariant holds throughout (append, threadFunc, stop). *)
THEOREM Invariant == Spec => []IInv
BY InitInv, NextInv, PTL DEF Spec

(* threadFunc always finds both of its spare buffers empty at the head of  *)
(* its loop and enough buffers in a batch to refill them, whatever the     *)
(* front ends did while it wrote.                                          *)
THEOREM SparesNeverRunOut == Spec => []AssertionsHold
<1>1. IInv => AssertionsHold
  BY DEF IInv
<1> QED BY <1>1, Invariant, PTL

(* The logging thread never waits beside a full buffer: append's notify is *)
(* not lost.                                                               *)
THEOREM NotifyNeverLost == Spec => []NoSleepOnFull
<1>1. IInv => NoSleepOnFull
  BY DEF IInv
<1> QED BY <1>1, Invariant, PTL

-----------------------------------------------------------------------------
(* Writing a batch append by append, while the clock goes on or back, is   *)
(* writing it at once as far as AsyncLogging is concerned.                 *)
LEMMA LogStepIsLoggerStep == [LogNext]_allVars => [Next]_vars
<1> SUFFICES ASSUME [LogNext]_allVars
             PROVE  Next \/ UNCHANGED vars
  OBVIOUS
<1>1. CASE UNCHANGED allVars \/ Tick \/ SetBack \/ AppendBuffer
  BY <1>1 DEF allVars, Tick, SetBack, AppendBuffer
<1>2. CASE /\ ~broken
           /\ \/ Elsewhere(AppendLine)
              \/ Elsewhere(Start \/ StartReturn \/ Stop \/ StopNotify \/ Join)
  BY <1>2 DEF Elsewhere, Next
<1>3. CASE ~broken /\ LogBackend
  BY <1>1, <1>3 DEF LogBackend, OpenLog, Elsewhere, FinishBatch, Next, Backend
<1> QED BY <1>1, <1>2, <1>3 DEF LogNext

(* AsyncLogging with its LogFile implements AsyncLogging, so that its      *)
(* assertions and its wakeups hold with the file's times and rolls.        *)
THEOREM LogFileUsesLogger == LogSpec => Spec
<1>1. LogInit => Init
  BY DEF LogInit
<1> QED BY <1>1, LogStepIsLoggerStep, PTL DEF LogSpec, Spec

(* count_ counts at least the appends to a file of a day gone by: every    *)
(* append that neither opens a file nor looks at the day increments it.    *)
LateInv ==
  /\ now \in Nat /\ lastRoll_ \in Nat
  /\ count_ \in 0 .. CheckEveryN - 1
  /\ late \in 0 .. count_

(* append_unlocked keeps count_ ahead of the late appends.                 *)
LEMMA AppendCounts == LateInv /\ AppendBuffer => LateInv'
<1> SUFFICES ASSUME LateInv, AppendBuffer PROVE LateInv'
  OBVIOUS
<1> USE LogFileAssumption DEF LateInv
<1>1. /\ now' = now
      /\ late' = IF IsLate /\ lastRoll_' = lastRoll_ THEN late + 1 ELSE 0
  BY DEF AppendBuffer, clockVars
<1> DEFINE rolled == lastRoll_' = IF MayRoll THEN now ELSE lastRoll_
<1>2. \/ count_' = count_ /\ rolled
      \/ ~CheckDue /\ count_' = count_ + 1 /\ lastRoll_' = lastRoll_
      \/ StartOfPeriod(now) # startOfPeriod_ /\ count_' = 0 /\ rolled
      \/ StartOfPeriod(now) = startOfPeriod_ /\ count_' = 0 /\ lastRoll_' = lastRoll_
  <2> DEFINE chunk == Chunks[appended + 1]
  <2>1. AppendUnlocked(chunk)
    BY DEF AppendBuffer
  <2> HIDE DEF chunk
  <2> QED BY <2>1 DEF AppendUnlocked, RollFile
<1>3. CASE count_' = count_ /\ rolled
  BY <1>1, <1>3 DEF MayRoll, IsLate
<1>4. CASE ~CheckDue /\ count_' = count_ + 1 /\ lastRoll_' = lastRoll_
  BY <1>1, <1>4 DEF CheckDue
<1>5. CASE StartOfPeriod(now) # startOfPeriod_ /\ count_' = 0 /\ rolled
  BY <1>1, <1>5 DEF MayRoll, IsLate
<1>6. CASE StartOfPeriod(now) = startOfPeriod_ /\ count_' = 0 /\ lastRoll_' = lastRoll_
  BY <1>1, <1>6 DEF IsLate
<1> QED BY <1>2, <1>3, <1>4, <1>5, <1>6

(* A file takes fewer than checkEveryN appends in a row once its day is    *)
(* over and a new one can be opened, for every size, day and clock.        *)
THEOREM DaysAreKeptApart == LogSpec => []RollsByDay
<1> USE LogFileAssumption
<1>1. LogInit => LateInv
  BY DEF LogInit, LateInv
<1>2. LateInv /\ [LogNext]_allVars => LateInv'
  <2> SUFFICES ASSUME LateInv, [LogNext]_allVars PROVE LateInv'
    OBVIOUS
  <2>1. CASE UNCHANGED <<logVars, clockVars>>
    BY <2>1 DEF LateInv, logVars, clockVars
  <2>2. CASE OpenLog
    BY <2>2 DEF OpenLog, RollFile, MayRoll, LateInv, clockVars
  <2>3. CASE FinishBatch
    BY <2>3 DEF FinishBatch, Flush, LateInv, clockVars
  <2>4. CASE Tick
    BY <2>4 DEF Tick, LateInv, logVars
  <2>5. CASE SetBack
    BY <2>5 DEF SetBack, LateInv, logVars
  <2> QED BY <2>1, <2>2, <2>3, <2>4, <2>5, AppendCounts
          DEF LogNext, LogBackend, Elsewhere, allVars
<1>3. LateInv => RollsByDay
  BY DEF LateInv, RollsByDay
<1> QED BY <1>1, <1>2, <1>3, PTL DEF LogSpec

-----------------------------------------------------------------------------
(* The lines in the files.                                                 *)

Below(S, T) == \A k \in S, j \in T : k < j

(* A notice that lines were dropped is the first chunk of a batch cut down. *)
Notices(batch) == IF Kept(batch) # batch THEN 1 ELSE 0

(* The buffers of a batch but for its first n, ... *)
Behind(batch, n) == [b \in {c \in DOMAIN batch : c > n} |-> batch[b]]

(* ... and those that have not been appended.                               *)
LeftOf(batch, done) == Behind(batch, done - Notices(batch))

(* Every line is in one place: in a file, dropped, in the batch or in       *)
(* memory behind it, and what is in one place comes before what is in the   *)
(* next.                                                                    *)
Placed(fs, gone, batch, done, memory, last) ==
  LET left == LeftOf(batch, done)
  IN /\ InOrder(fs) /\ InOrder(batch) /\ InOrder(memory)
     /\ LinesOf(fs) \cap gone = {}
     /\ Below(LinesOf(fs) \cup gone, LinesOf(left) \cup LinesOf(memory))
     /\ Below(LinesOf(left), LinesOf(memory))
     /\ 1 .. last = LinesOf(fs) \cup gone \cup LinesOf(left) \cup LinesOf(memory)

(* The open file is the last one, and flushed between two batches.          *)
FilesOK ==
  /\ now \in Nat \ {0} /\ lastRoll_ \in Nat /\ held \in Nat /\ appended \in Nat
  /\ DOMAIN files \subseteq Nat
  /\ \A n \in DOMAIN files : files[n] \in Seq(Nat) /\ n <= lastRoll_
  /\ backend \in {"none", "born", "open"} => lastRoll_ = 0 /\ files = <<>>
  /\ backend \notin {"none", "born", "open"} => lastRoll_ \in DOMAIN files
  /\ lastRoll_ \in DOMAIN files => held <= Len(files[lastRoll_])
  /\ backend # "write" => held = 0 /\ appended = 0

InMemory == Append(buffers_, currentBuffer_)

LinesInv ==
  /\ IInv
  /\ FilesOK
  /\ Placed(files, dropped, buffersToWrite, appended, InMemory, lines)

(* LinesOf, element by element. *)
LEMMA LinesAre ==
  \A f, k : k \in LinesOf(f) <=> \E b \in DOMAIN f : \E i \in DOMAIN f[b] : f[b][i] = k
BY DEF LinesOf, ToSet

(* The sequence new, above all lines of f, is put at the end of its last    *)
(* sequence, that of index at, or behind it.                                *)
PutBehind(f, g, at, new) ==
  /\ at \in Nat /\ new \in Seq(Nat) /\ (at \in DOMAIN f => f[at] \in Seq(Nat))
  /\ DOMAIN f \subseteq Nat /\ \A b \in DOMAIN f : b <= at
  /\ DOMAIN g = DOMAIN f \cup {at}
  /\ \A b \in DOMAIN f : b # at => g[b] = f[b]
  /\ g[at] = IF at \in DOMAIN f THEN f[at] \o new ELSE new
  /\ InOrder(f) /\ \A i, j \in DOMAIN new : i < j => new[i] < new[j]
  /\ Below(LinesOf(f), ToSet(new))

(* That keeps the order and adds the lines of new.                          *)
LEMMA PutAtTheEnd ==
  ASSUME NEW f, NEW g, NEW at, NEW new, PutBehind(f, g, at, new)
  PROVE  InOrder(g) /\ LinesOf(g) = LinesOf(f) \cup ToSet(new)
<1> DEFINE old == IF at \in DOMAIN f THEN f[at] ELSE <<>>
<1>0. /\ at \in Nat /\ old \in Seq(Nat) /\ new \in Seq(Nat)
      /\ DOMAIN f \subseteq Nat /\ \A b \in DOMAIN f : b <= at
      /\ DOMAIN g = DOMAIN f \cup {at}
      /\ \A b \in DOMAIN f : b # at => g[b] = f[b]
      /\ g[at] = old \o new
      /\ at \in DOMAIN f => old = f[at]
      /\ at \notin DOMAIN f => old = <<>>
      /\ InOrder(f) /\ \A i, j \in DOMAIN new : i < j => new[i] < new[j]
      /\ Below(LinesOf(f), ToSet(new))
  BY ConcatEmptySeq DEF PutBehind
<1> HIDE DEF old
<1>1. /\ Len(old) \in Nat /\ DOMAIN old = 1 .. Len(old)
      /\ Len(new) \in Nat /\ DOMAIN new = 1 .. Len(new)
      /\ DOMAIN g[at] = 1 .. Len(old) + Len(new)
      /\ \A i \in 1 .. Len(old) + Len(new) :
           g[at][i] = IF i <= Len(old) THEN old[i] ELSE new[i - Len(old)]
  BY <1>0, ConcatProperties, LenProperties
<1>2. \A i \in DOMAIN old : at \in DOMAIN f /\ old = f[at]
  BY <1>0, <1>1
<1>3. \A i \in DOMAIN g[at] :
        \/ at \in DOMAIN f /\ i \in DOMAIN f[at] /\ g[at][i] = f[at][i] /\ i <= Len(old)
        \/ i - Len(old) \in DOMAIN new /\ g[at][i] = new[i - Len(old)] /\ i > Len(old)
  <2> SUFFICES ASSUME NEW i \in DOMAIN g[at]
               PROVE  \/ /\ at \in DOMAIN f /\ i \in DOMAIN f[at] /\ g[at][i] = f[at][i]
                         /\ i <= Len(old)
                      \/ /\ i - Len(old) \in DOMAIN new /\ g[at][i] = new[i - Len(old)]
                         /\ i > Len(old)
    OBVIOUS
  <2>1. CASE i <= Len(old)
    <3>1. i \in DOMAIN old
      BY <1>1, <2>1
    <3> QED BY <1>1, <1>2, <2>1, <3>1
  <2>2. CASE i > Len(old)
    BY <1>1, <2>2
  <2> QED BY <1>1, <2>1, <2>2
<1>4. \A k \in LinesOf(f), j \in ToSet(new) : k < j
  BY <1>0 DEF Below
<1>5. LinesOf(g) = LinesOf(f) \cup ToSet(new)
  <2>1. ASSUME NEW k \in LinesOf(g) PROVE k \in LinesOf(f) \cup ToSet(new)
    <3>1. PICK b \in DOMAIN g : \E i \in DOMAIN g[b] : g[b][i] = k
      BY <1>0, <2>1, LinesAre
    <3>2. CASE b # at
      BY <1>0, <3>1, <3>2, LinesAre
    <3>3. CASE b = at
      <4>1. PICK i \in DOMAIN g[at] : g[at][i] = k
        BY <1>0, <3>1, <3>3
      <4>2. CASE at \in DOMAIN f /\ i \in DOMAIN f[at] /\ g[at][i] = f[at][i]
        BY <1>0, <4>1, <4>2, LinesAre
      <4>3. CASE i - Len(old) \in DOMAIN new /\ g[at][i] = new[i - Len(old)]
        BY <1>0, <4>1, <4>3 DEF ToSet
      <4> QED BY <1>3, <4>2, <4>3
    <3> QED BY <3>2, <3>3
  <2>2. ASSUME NEW k \in LinesOf(f) PROVE k \in LinesOf(g)
    <3>1. PICK b \in DOMAIN f : \E i \in DOMAIN f[b] : f[b][i] = k
      BY <1>0, <2>2, LinesAre
    <3>2. CASE b # at
      BY <1>0, <3>1, <3>2, LinesAre
    <3>3. CASE b = at
      <4>1. \A i \in DOMAIN old : i \in DOMAIN g[at] /\ g[at][i] = old[i]
        BY <1>0, <1>1
      <4> QED BY <1>0, <3>1, <3>3, <4>1, LinesAre
    <3> QED BY <3>2, <3>3
  <2>3. ASSUME NEW k \in ToSet(new) PROVE k \in LinesOf(g)
    <3>1. PICK i \in DOMAIN new : new[i] = k
      BY <1>0, <2>3 DEF ToSet
    <3>2. i + Len(old) \in DOMAIN g[at] /\ g[at][i + Len(old)] = k
      BY <1>0, <1>1, <3>1
    <3> QED BY <1>0, <3>2, LinesAre
  <2> QED BY <2>1, <2>2, <2>3
<1>6. InOrder(g)
  <2> SUFFICES ASSUME NEW b \in DOMAIN g, NEW c \in DOMAIN g,
                      NEW i \in DOMAIN g[b], NEW j \in DOMAIN g[c],
                      b < c \/ (b = c /\ i < j)
               PROVE  g[b][i] < g[c][j]
    BY DEF InOrder
  <2>1. CASE b # at /\ c # at
    BY <1>0, <2>1 DEF InOrder
  <2>2. CASE b # at /\ c = at
    <3>1. b \in DOMAIN f /\ g[b] = f[b] /\ b < at /\ f[b][i] \in LinesOf(f)
      BY <1>0, <2>2, LinesAre
    <3>2. CASE at \in DOMAIN f /\ j \in DOMAIN f[at] /\ g[at][j] = f[at][j]
      BY <1>0, <2>2, <3>1, <3>2 DEF InOrder
    <3>3. CASE j - Len(old) \in DOMAIN new /\ g[at][j] = new[j - Len(old)]
      BY <1>0, <1>4, <2>2, <3>1, <3>3 DEF ToSet
    <3> QED BY <1>3, <2>2, <3>2, <3>3
  <2>3. CASE b = at /\ c # at
    <3>1. c <= at
      BY <1>0, <2>3
    <3> QED BY <1>0, <2>3, <3>1
  <2>4. CASE b = at /\ c = at
    <3>1. i \in Nat /\ j \in Nat /\ i < j
      BY <1>0, <1>1, <2>4
    <3>2. CASE j <= Len(old)
      <4>1. at \in DOMAIN f /\ g[at][i] = f[at][i] /\ g[at][j] = f[at][j]
            /\ i \in DOMAIN f[at] /\ j \in DOMAIN f[at]
        BY <1>0, <1>1, <1>3, <2>4, <3>1, <3>2
      <4> QED BY <1>0, <2>4, <3>1, <4>1 DEF InOrder
    <3>3. CASE i <= Len(old) /\ j > Len(old)
      <4>1. at \in DOMAIN f /\ g[at][i] = f[at][i] /\ i \in DOMAIN f[at]
        BY <1>0, <1>1, <1>3, <2>4, <3>1, <3>3
      <4>2. j - Len(old) \in DOMAIN new /\ g[at][j] = new[j - Len(old)]
        BY <1>0, <1>1, <1>3, <2>4, <3>1, <3>3
      <4>3. f[at][i] \in LinesOf(f) /\ new[j - Len(old)] \in ToSet(new)
        BY <1>0, <4>1, <4>2, LinesAre DEF ToSet
      <4> QED BY <1>4, <2>4, <4>1, <4>2, <4>3
    <3>4. CASE i > Len(old) /\ j > Len(old)
      <4>1. /\ i - Len(old) \in DOMAIN new /\ g[at][i] = new[i - Len(old)]
            /\ j - Len(old) \in DOMAIN new /\ g[at][j] = new[j - Len(old)]
        BY <1>0, <1>1, <1>3, <2>4, <3>1, <3>4
      <4>2. i - Len(old) < j - Len(old)
        BY <1>0, <1>1, <3>1
      <4> QED BY <1>0, <2>4, <4>1, <4>2
    <3> QED BY <1>1, <3>1, <3>2, <3>3, <3>4
  <2> QED BY <2>1, <2>2, <2>3, <2>4
<1> QED BY <1>5, <1>6

(* Nothing is in an empty vector, and what one buffer holds is in it.       *)
LEMMA NoLines ==
  /\ \A f : DOMAIN f = {} => LinesOf(f) = {} /\ InOrder(f)
  /\ ToSet(<<>>) = {}
<1>1. \A f : DOMAIN f = {} => LinesOf(f) = {} /\ InOrder(f)
  BY DEF LinesOf, InOrder
<1> QED BY <1>1 DEF ToSet

(* The buffers of the front ends, in order. *)
LEMMA MemoryIs ==
  ASSUME NEW bs \in Seq(Seq(Nat)), NEW b \in Seq(Nat)
  PROVE  /\ Append(bs, b) \in Seq(Seq(Nat)) /\ Len(bs) \in Nat
         /\ DOMAIN Append(bs, b) = 1 .. Len(bs) + 1 /\ DOMAIN bs = 1 .. Len(bs)
         /\ Append(bs, b)[Len(bs) + 1] = b
         /\ \A i \in 1 .. Len(bs) : Append(bs, b)[i] = bs[i]
BY AppendProperties, LenProperties

(* append puts its line behind all others (AsyncLogging::append).           *)
LEMMA LineGoesLast ==
  ASSUME LinesInv, AppendLine
  PROVE  /\ InOrder(InMemory') /\ LinesOf(InMemory') = LinesOf(InMemory) \cup {lines + 1}
         /\ lines' = lines + 1 /\ lines \in Nat
<1> DEFINE new == <<lines + 1>>
           f == InMemory
           g == InMemory'
<1>1. /\ buffers_ \in Seq(Seq(Nat)) /\ currentBuffer_ \in Seq(Nat) /\ lines \in Nat
      /\ nextBuffer_ \in Spare /\ lines' = lines + 1
      /\ new \in Seq(Nat) /\ Len(new) = 1 /\ DOMAIN new = {1} /\ new[1] = lines + 1
  BY DEF LinesInv, IInv, BuffersOK, AppendLine
<1>2. InOrder(f) /\ LinesOf(f) \subseteq 1 .. lines
  BY DEF LinesInv, Placed
<1>3. ToSet(new) = {lines + 1} /\ (\A i, j \in DOMAIN new : i < j => new[i] < new[j])
  BY <1>1 DEF ToSet
<1>4. Below(LinesOf(f), ToSet(new))
  BY <1>1, <1>2, <1>3 DEF Below
<1> HIDE DEF new
<1>5. CASE AppendHere
  <2> DEFINE at == Len(buffers_) + 1
  <2>1. currentBuffer_' = currentBuffer_ \o new /\ buffers_' = buffers_
    <3>1. Append(currentBuffer_, lines + 1) = currentBuffer_ \o new
      BY <1>1, AppendIsConcat DEF new
    <3> QED BY <1>5, <3>1 DEF AppendHere, Put
  <2>2. currentBuffer_' \in Seq(Nat)
    BY <1>1, <2>1, ConcatProperties
  <2>3. /\ at \in Nat \ {0} /\ DOMAIN f = 1 .. at /\ DOMAIN g = 1 .. at
        /\ f[at] = currentBuffer_ /\ g[at] = currentBuffer_'
        /\ \A b \in DOMAIN f : b # at => g[b] = f[b]
    BY <1>1, <2>1, <2>2, MemoryIs DEF InMemory
  <2> HIDE DEF f, g, at
  <2>4. /\ DOMAIN f \subseteq Nat /\ \A b \in DOMAIN f : b <= at
        /\ DOMAIN g = DOMAIN f \cup {at} /\ at \in DOMAIN f
    BY <2>3
  <2>5. PutBehind(f, g, at, new)
    BY <1>1, <1>2, <1>3, <1>4, <2>1, <2>3, <2>4 DEF PutBehind
  <2>6. InOrder(g) /\ LinesOf(g) = LinesOf(f) \cup ToSet(new)
    BY <2>5, PutAtTheEnd
  <2> QED BY <1>1, <1>3, <2>6 DEF f, g
<1>6. CASE AppendNext
  <2> DEFINE at == Len(f) + 1
  <2>1. currentBuffer_' = new /\ buffers_' = f
    <3>1. Put(<<>>, lines + 1) = new
      BY <1>1, AsyncLoggingAssumption DEF Put, Avail, new
    <3> QED BY <1>1, <1>6, <3>1, NullIsNoBuffer DEF AppendNext, Spare, InMemory
  <2>2. f \in Seq(Seq(Nat)) /\ g = Append(f, new)
    BY <1>1, <2>1, MemoryIs DEF InMemory
  <2> HIDE DEF f, g
  <2>3. /\ at \in Nat \ {0} /\ DOMAIN f = 1 .. at - 1 /\ DOMAIN g = 1 .. at /\ Len(f) \in Nat
        /\ g[at] = new /\ \A b \in DOMAIN f : b # at => g[b] = f[b]
    BY <1>1, <2>2, MemoryIs
  <2> HIDE DEF at
  <2>4. /\ DOMAIN f \subseteq Nat /\ \A b \in DOMAIN f : b <= at
        /\ DOMAIN g = DOMAIN f \cup {at} /\ at \notin DOMAIN f
    BY <2>3
  <2>5. PutBehind(f, g, at, new)
    BY <1>1, <1>2, <1>3, <1>4, <2>3, <2>4 DEF PutBehind
  <2>6. InOrder(g) /\ LinesOf(g) = LinesOf(f) \cup ToSet(new)
    BY <2>5, PutAtTheEnd
  <2> QED BY <1>1, <1>3, <2>6 DEF f, g
<1> QED BY <1>5, <1>6 DEF AppendLine

(* append keeps the lines in place.                                         *)
LEMMA AppendLineKeepsLines == LinesInv /\ Elsewhere(AppendLine) => LinesInv'
<1> SUFFICES ASSUME LinesInv, Elsewhere(AppendLine) PROVE LinesInv'
  OBVIOUS
<1>1. AppendLine /\ UNCHANGED <<clockVars, logVars, appended>>
  BY DEF Elsewhere
<1>2. /\ InOrder(InMemory') /\ LinesOf(InMemory') = LinesOf(InMemory) \cup {lines + 1}
      /\ lines' = lines + 1 /\ lines \in Nat
  BY <1>1, LineGoesLast
<1>3. IInv'
  BY <1>1, AppendKeeps DEF LinesInv
<1>4. /\ buffersToWrite' = buffersToWrite /\ dropped' = dropped /\ files' = files
      /\ appended' = appended /\ now' = now /\ lastRoll_' = lastRoll_ /\ held' = held
      /\ \/ backend' = backend
         \/ backend = "waiting" /\ backend' = "woken"
  BY <1>1 DEF AppendLine, AppendHere, AppendNext, Notify, backVars, clockVars, logVars
<1>5. FilesOK'
  BY <1>4 DEF FilesOK, LinesInv
<1>6. Placed(files, dropped, buffersToWrite, appended, InMemory', lines + 1)
  <2> DEFINE left == LinesOf(LeftOf(buffersToWrite, appended))
  <2>1. /\ InOrder(files) /\ InOrder(buffersToWrite) /\ LinesOf(files) \cap dropped = {}
        /\ Below(LinesOf(files) \cup dropped, left \cup LinesOf(InMemory))
        /\ Below(left, LinesOf(InMemory))
        /\ 1 .. lines = LinesOf(files) \cup dropped \cup left \cup LinesOf(InMemory)
    BY DEF LinesInv, Placed
  <2> HIDE DEF left
  <2>2. 1 .. lines + 1 = (1 .. lines) \cup {lines + 1}
    BY <1>2
  <2>3. /\ Below(LinesOf(files) \cup dropped, left \cup LinesOf(InMemory'))
        /\ Below(left, LinesOf(InMemory'))
    BY <1>2, <2>1 DEF Below
  <2>4. 1 .. lines + 1 = LinesOf(files) \cup dropped \cup left \cup LinesOf(InMemory')
    BY <1>2, <2>1, <2>2
  <2> QED BY <1>2, <2>1, <2>3, <2>4 DEF Placed, left
<1> QED BY <1>2, <1>3, <1>4, <1>5, <1>6 DEF LinesInv

(* LogFile's constructor: an empty file.                                    *)
LEMMA OpenKeepsLines == LinesInv /\ OpenLog => LinesInv'
<1> SUFFICES ASSUME LinesInv, OpenLog PROVE LinesInv'
  OBVIOUS
<1>1. IInv' /\ backend = "open" /\ backend' = "test"
  BY OthersKeep DEF OpenLog, LinesInv, OpenFile
<1>2. /\ buffersToWrite' = buffersToWrite /\ dropped' = dropped /\ lines' = lines
      /\ InMemory' = InMemory /\ appended' = appended /\ now' = now
  BY DEF OpenLog, OpenFile, backVars, frontVars, clockVars, InMemory
<1>3. now \in Nat \ {0} /\ lastRoll_ = 0 /\ files = <<>> /\ held = 0 /\ appended = 0
  BY <1>1 DEF LinesInv, FilesOK
<1>4. lastRoll_' = now /\ held' = 0 /\ Opened(files)
  BY <1>3 DEF OpenLog, RollFile, MayRoll, Opened
<1>5. DOMAIN files' = {now} /\ files'[now] = <<>>
  <2>1. DOMAIN files = {}
    BY <1>3
  <2> QED BY <1>4, <2>1 DEF Opened
<1>6. LinesOf(files') = {} /\ InOrder(files') /\ LinesOf(files) = {}
  <2>1. DOMAIN files = {}
    BY <1>3
  <2> QED BY <1>5, <2>1, NoLines DEF LinesOf, InOrder, ToSet
<1>7. Placed(files', dropped, buffersToWrite, appended, InMemory, lines)
  BY <1>6 DEF LinesInv, Placed
<1>8. FilesOK'
  <2>1. <<>> \in Seq(Nat) /\ Len(<<>>) = 0
    OBVIOUS
  <2>2. now' \in Nat \ {0} /\ lastRoll_' \in Nat /\ held' = 0 /\ appended' = 0
    BY <1>2, <1>3, <1>4
  <2>3. /\ DOMAIN files' \subseteq Nat /\ lastRoll_' \in DOMAIN files'
        /\ \A n \in DOMAIN files' : n = now /\ files'[n] \in Seq(Nat)
    BY <1>3, <1>4, <1>5, <2>1
  <2>4. Len(files'[lastRoll_']) = 0
    BY <1>4, <1>5, <2>1
  <2>5. \A n \in DOMAIN files' : n <= lastRoll_'
    BY <1>3, <1>4, <2>3
  <2> QED BY <1>1, <2>2, <2>3, <2>4, <2>5 DEF FilesOK
<1> QED BY <1>1, <1>2, <1>7, <1>8 DEF LinesInv

(* The swap makes the buffers in memory the batch.                          *)
LEMMA TakeKeepsLines == LinesInv /\ Elsewhere(TakeBatch) => LinesInv'
<1> SUFFICES ASSUME LinesInv, Elsewhere(TakeBatch) PROVE LinesInv'
  OBVIOUS
<1>1. TakeBatch /\ UNCHANGED <<clockVars, logVars, appended>>
  BY DEF Elsewhere
<1>2. IInv'
  BY <1>1, SwapKeeps DEF LinesInv
<1>3. backend # "write" /\ backend \notin {"none", "born", "open"}
  BY <1>1 DEF TakeBatch
<1>4. held = 0 /\ appended = 0 /\ newBuffer1 = <<>> /\ buffersToWrite = <<>>
  BY <1>3 DEF LinesInv, FilesOK, IInv, SparesThere
<1>5. /\ buffersToWrite' = InMemory /\ dropped' = dropped /\ lines' = lines
      /\ InMemory' = <<<<>>>> /\ backend' = "write"
      /\ UNCHANGED <<clockVars, logVars, appended>>
  <2>1. Append(<<>>, <<>>) = <<<<>>>>
    OBVIOUS
  <2> QED BY <1>1, <1>4, <2>1 DEF TakeBatch, Swap, InMemory
<1>6. FilesOK'
  BY <1>3, <1>4, <1>5 DEF FilesOK, LinesInv, clockVars, logVars
<1>7. LinesOf(<<<<>>>>) = {} /\ InOrder(<<<<>>>>)
  BY DEF LinesOf, InOrder, ToSet
<1>8. LinesOf(LeftOf(buffersToWrite, 0)) = {}
  BY <1>4, NoLines DEF LeftOf, Behind
<1>9. LeftOf(InMemory, 0) = [b \in DOMAIN InMemory |-> InMemory[b]]
  <2>1. Notices(InMemory) \in {0, 1} /\ (Notices(InMemory) = 0 \/ Notices(InMemory) = 1)
    BY DEF Notices
  <2>2. InMemory \in Seq(Seq(Nat)) /\ DOMAIN InMemory \subseteq Nat \ {0}
    BY MemoryIs, LenProperties DEF LinesInv, IInv, BuffersOK, InMemory
  <2>3. {c \in DOMAIN InMemory : c > 0 - Notices(InMemory)} = DOMAIN InMemory
    <3> DEFINE none == 0 - Notices(InMemory)
    <3>1. \A c \in DOMAIN InMemory : c > none
      BY <2>1, <2>2
    <3> HIDE DEF none
    <3>2. {c \in DOMAIN InMemory : c > none} = DOMAIN InMemory
      BY <3>1
    <3> QED BY <3>2 DEF none
  <2> QED BY <2>3 DEF LeftOf, Behind
<1>10. LinesOf(LeftOf(InMemory, 0)) = LinesOf(InMemory)
  BY <1>9 DEF LinesOf
<1>11. Placed(files, dropped, InMemory, 0, <<<<>>>>, lines)
  <2>1. Placed(files, dropped, buffersToWrite, 0, InMemory, lines)
    BY <1>4 DEF LinesInv
  <2>2. /\ InOrder(files) /\ InOrder(InMemory) /\ LinesOf(files) \cap dropped = {}
        /\ Below(LinesOf(files) \cup dropped, LinesOf(InMemory))
        /\ 1 .. lines = LinesOf(files) \cup dropped \cup LinesOf(InMemory)
    BY <1>8, <2>1 DEF Placed
  <2>3. Below(LinesOf(files) \cup dropped, LinesOf(InMemory) \cup {})
        /\ Below(LinesOf(InMemory), {})
    BY <2>2 DEF Below
  <2> QED BY <1>7, <1>10, <2>2, <2>3 DEF Placed
<1> QED BY <1>2, <1>4, <1>5, <1>6, <1>11 DEF LinesInv, logVars

(* What the buffers kept of a batch are: its first ones.                    *)
LEMMA KeptIsPrefix ==
  ASSUME NEW batch \in Seq(Seq(Nat))
  PROVE  /\ Len(batch) \in Nat /\ DOMAIN batch = 1 .. Len(batch)
         /\ Len(Kept(batch)) \in 0 .. Len(batch)
         /\ DOMAIN Kept(batch) = 1 .. Len(Kept(batch))
         /\ \A i \in 1 .. Len(Kept(batch)) :
              i \in DOMAIN batch /\ Kept(batch)[i] = batch[i] /\ batch[i] \in Seq(Nat)
<1>1. Len(batch) \in Nat /\ DOMAIN batch = 1 .. Len(batch)
      /\ \A i \in 1 .. Len(batch) : batch[i] \in Seq(Nat)
  BY LenProperties, ElementOfSeq
<1>2. CASE Len(batch) > MaxBatch
  <2>1. Len(batch) >= 2
    BY <1>1, <1>2, AsyncLoggingAssumption
  <2>2. /\ SubSeq(batch, 1, 2) \in Seq(Seq(Nat)) /\ Len(SubSeq(batch, 1, 2)) = 2
        /\ \A i \in 1 .. 2 : SubSeq(batch, 1, 2)[i] = batch[i]
    BY <1>1, <2>1, SubSeqProperties
  <2>3. DOMAIN SubSeq(batch, 1, 2) = 1 .. 2
    BY <2>2, LenProperties
  <2> QED BY <1>1, <1>2, <2>1, <2>2, <2>3 DEF Kept
<1>3. CASE ~(Len(batch) > MaxBatch)
  BY <1>1, <1>3 DEF Kept
<1> QED BY <1>2, <1>3

(* The chunks are the notice, if there is one, and the buffers kept.        *)
LEMMA ChunksAre ==
  ASSUME buffersToWrite \in Seq(Seq(Nat))
  PROVE  /\ Len(Chunks) = Notices(buffersToWrite) + Len(Kept(buffersToWrite))
         /\ Notices(buffersToWrite) = 1 => Chunks[1].lines = <<>>
         /\ \A i \in 1 .. Len(Kept(buffersToWrite)) :
              Chunks[Notices(buffersToWrite) + i].lines = buffersToWrite[i]
<1> DEFINE kept == Kept(buffersToWrite)
           of(buffer) == [lines |-> buffer, bytes |-> Len(buffer) * LineLen]
           notice == [lines |-> <<>>, bytes |-> NoticeLen]
           first == IF kept # buffersToWrite THEN <<notice>> ELSE <<>>
           rest == [i \in 1 .. Len(kept) |-> of(kept[i])]
           All == {of(kept[i]) : i \in 1 .. Len(kept)} \cup {notice}
<1>1. /\ Len(kept) \in Nat
      /\ \A i \in 1 .. Len(kept) : kept[i] = buffersToWrite[i]
  BY KeptIsPrefix
<1>2. Chunks = first \o rest
  BY DEF Chunks
<1>3. rest \in Seq(All) /\ Len(rest) = Len(kept)
      /\ \A i \in 1 .. Len(kept) : rest[i] = of(kept[i])
  <2> DEFINE n == Len(kept)
  <2>1. rest \in [1 .. n -> All] /\ n \in Nat
    BY <1>1
  <2>2. rest \in Seq(All)
    BY <2>1
  <2> HIDE DEF n, All
  <2> QED BY <2>1, <2>2
<1>4. /\ first \in Seq(All) /\ Len(first) = Notices(buffersToWrite)
      /\ Notices(buffersToWrite) = 1 => first[1] = notice
      /\ Notices(buffersToWrite) \in {0, 1}
  <2>1. notice \in All
    OBVIOUS
  <2> HIDE DEF All, notice
  <2> QED BY <2>1 DEF Notices
<1>5. \A i \in 1 .. Len(kept) : of(kept[i]).lines = buffersToWrite[i]
  BY <1>1
<1>6. notice.lines = <<>>
  OBVIOUS
<1> HIDE DEF kept, first, rest, of, notice, All
<1>7. /\ Len(first \o rest) = Len(first) + Len(rest)
      /\ \A i \in 1 .. Len(first) + Len(rest) :
           (first \o rest)[i] = IF i <= Len(first) THEN first[i] ELSE rest[i - Len(first)]
  BY <1>3, <1>4, ConcatProperties
<1>8. ASSUME Notices(buffersToWrite) = 1 PROVE Chunks[1].lines = <<>>
  BY <1>1, <1>2, <1>3, <1>4, <1>6, <1>7, <1>8
<1>9. ASSUME NEW i \in 1 .. Len(kept)
      PROVE  Chunks[Notices(buffersToWrite) + i].lines = buffersToWrite[i]
  <2> DEFINE k == Notices(buffersToWrite) + i
  <2>1. k \in 1 .. Len(first) + Len(rest) /\ ~(k <= Len(first)) /\ k - Len(first) = i
    BY <1>1, <1>3, <1>4
  <2>2. Chunks[k] = rest[i]
    BY <1>2, <1>7, <2>1
  <2> QED BY <1>3, <1>5, <2>2
<1> QED BY <1>2, <1>3, <1>4, <1>7, <1>8, <1>9 DEF kept

(* The next chunk is the notice or the first buffer left.                   *)
LEMMA NextChunk ==
  ASSUME buffersToWrite \in Seq(Seq(Nat)), appended \in Nat, appended < Len(Chunks)
  PROVE  LET done == appended - Notices(buffersToWrite)
             new == Chunks[appended + 1].lines
         IN /\ done \in Int
            /\ \/ done = 0 - 1 /\ new = <<>>
               \/ /\ done >= 0 /\ done + 1 \in DOMAIN buffersToWrite
                  /\ new = buffersToWrite[done + 1] /\ new \in Seq(Nat)
<1> DEFINE done == appended - Notices(buffersToWrite)
           new == Chunks[appended + 1].lines
<1>1. /\ Notices(buffersToWrite) = 0 \/ Notices(buffersToWrite) = 1
      /\ Len(Kept(buffersToWrite)) \in Nat
  BY KeptIsPrefix DEF Notices
<1>2. CASE Notices(buffersToWrite) = 1 /\ appended = 0
  BY <1>2, ChunksAre
<1>3. CASE Notices(buffersToWrite) = 0 \/ appended # 0
  <2>1. done \in Nat /\ done < Len(Kept(buffersToWrite))
    BY <1>1, <1>3, ChunksAre
  <2>2. done + 1 \in 1 .. Len(Kept(buffersToWrite))
        /\ appended + 1 = Notices(buffersToWrite) + (done + 1)
    BY <1>1, <2>1
  <2> HIDE DEF done
  <2>3. new = buffersToWrite[done + 1]
    BY <2>2, ChunksAre
  <2>4. done + 1 \in DOMAIN buffersToWrite /\ buffersToWrite[done + 1] \in Seq(Nat)
    BY <2>2, KeptIsPrefix
  <2> HIDE DEF new
  <2> QED BY <2>1, <2>3, <2>4 DEF done, new
<1> QED BY <1>1, <1>2, <1>3

(* The buffers left, and what the append of one takes from them.            *)
LEMMA OneLessLeft ==
  ASSUME NEW batch \in Seq(Seq(Nat)), InOrder(batch), NEW n \in Nat, n + 1 \in DOMAIN batch
  PROVE  /\ LinesOf(Behind(batch, n)) = ToSet(batch[n + 1]) \cup LinesOf(Behind(batch, n + 1))
         /\ Below(ToSet(batch[n + 1]), LinesOf(Behind(batch, n + 1)))
<1> DEFINE all == Behind(batch, n)
           less == Behind(batch, n + 1)
<1>1. DOMAIN batch \subseteq Nat
  BY LenProperties
<1>2. /\ DOMAIN all = DOMAIN less \cup {n + 1}
      /\ all[n + 1] = batch[n + 1]
      /\ \A b \in DOMAIN less : all[b] = less[b] /\ less[b] = batch[b] /\ b \in DOMAIN batch
                                /\ n + 1 < b
  <2>1. \A c \in DOMAIN batch : c > n <=> (c = n + 1 \/ c > n + 1)
    BY <1>1
  <2> QED BY <2>1 DEF Behind
<1> HIDE DEF all, less
<1>3. LinesOf(all) = ToSet(batch[n + 1]) \cup LinesOf(less)
  <2>1. ASSUME NEW k \in LinesOf(all) PROVE k \in ToSet(batch[n + 1]) \cup LinesOf(less)
    <3>1. PICK b \in DOMAIN all : \E i \in DOMAIN all[b] : all[b][i] = k
      BY <2>1, LinesAre
    <3>2. CASE b = n + 1
      BY <1>2, <3>1, <3>2 DEF ToSet
    <3>3. CASE b \in DOMAIN less
      <4>1. all[b] = less[b] /\ b \in DOMAIN less
        BY <1>2, <3>3
      <4>2. \E i \in DOMAIN less[b] : less[b][i] = k
        BY <3>1, <4>1
      <4> QED BY <4>1, <4>2, LinesAre
    <3> QED BY <1>2, <3>2, <3>3
  <2>2. ASSUME NEW k \in ToSet(batch[n + 1]) PROVE k \in LinesOf(all)
    <3>1. PICK i \in DOMAIN batch[n + 1] : batch[n + 1][i] = k
      BY <2>2 DEF ToSet
    <3> QED BY <1>2, <3>1, LinesAre
  <2>3. ASSUME NEW k \in LinesOf(less) PROVE k \in LinesOf(all)
    <3>1. PICK b \in DOMAIN less : \E i \in DOMAIN less[b] : less[b][i] = k
      BY <2>3, LinesAre
    <3>2. all[b] = less[b] /\ b \in DOMAIN all
      BY <1>2
    <3>3. \E i \in DOMAIN all[b] : all[b][i] = k
      BY <3>1, <3>2
    <3> QED BY <3>2, <3>3, LinesAre
  <2> QED BY <2>1, <2>2, <2>3
<1>4. ASSUME NEW k \in ToSet(batch[n + 1]), NEW j \in LinesOf(less) PROVE k < j
  <2>1. PICK i \in DOMAIN batch[n + 1] : batch[n + 1][i] = k
    BY <1>4 DEF ToSet
  <2>2. PICK b \in DOMAIN less : \E m \in DOMAIN less[b] : less[b][m] = j
    BY <1>4, LinesAre
  <2> QED BY <1>2, <2>1, <2>2 DEF InOrder
<1> QED BY <1>3, <1>4 DEF Below, all, less

(* What append_unlocked makes of the files: the lines behind the open one,  *)
(* and perhaps a new one.                                                   *)
LEMMA FilesAfterAppend ==
  ASSUME NEW chunk, AppendUnlocked(chunk)
  PROVE  /\ \/ /\ files' = AppendFile(chunk).files /\ lastRoll_' = lastRoll_
               /\ held' \in {0, AppendFile(chunk).held}
            \/ /\ now > lastRoll_ /\ lastRoll_' = now /\ held' = 0
               /\ files' = [n \in DOMAIN AppendFile(chunk).files \cup {now} |->
                              IF n \in DOMAIN AppendFile(chunk).files
                              THEN AppendFile(chunk).files[n] ELSE <<>>]
<1> DEFINE file == AppendFile(chunk)
           flushed == [file EXCEPT !.held = IF FlushDue THEN 0 ELSE @]
<1>1. /\ flushed.files = file.files
      /\ flushed.held = IF FlushDue THEN 0 ELSE file.held
  BY DEF AppendFile
<1>2. \/ RollFile(file)
      \/ Keep(file) /\ lastRoll_' = lastRoll_
      \/ Keep(flushed) /\ lastRoll_' = lastRoll_
  BY DEF AppendUnlocked
<1> HIDE DEF file, flushed
<1>3. \/ RollFile(file)
      \/ /\ files' = file.files /\ lastRoll_' = lastRoll_
         /\ held' \in {0, file.held}
  BY <1>1, <1>2 DEF Keep
<1>4. CASE RollFile(file) /\ MayRoll
  BY <1>4 DEF RollFile, MayRoll, Opened, file
<1>5. CASE RollFile(file) /\ ~MayRoll
  BY <1>5 DEF RollFile, Keep, file
<1> QED BY <1>3, <1>4, <1>5 DEF file

(* A buffer of the batch moves to the open file.                            *)
LEMMA LinesMove ==
  ASSUME NEW fs, NEW g, NEW gone, NEW batch, NEW memory, NEW last, NEW done, NEW new,
         Placed(fs, gone, batch, done, memory, last),
         InOrder(g), LinesOf(g) = LinesOf(fs) \cup ToSet(new),
         LinesOf(LeftOf(batch, done)) = ToSet(new) \cup LinesOf(LeftOf(batch, done + 1)),
         Below(ToSet(new), LinesOf(LeftOf(batch, done + 1)))
  PROVE  Placed(g, gone, batch, done + 1, memory, last)
<1> DEFINE F == LinesOf(fs)
           G == LinesOf(g)
           L == LinesOf(LeftOf(batch, done))
           R == LinesOf(LeftOf(batch, done + 1))
           N == ToSet(new)
           M == LinesOf(memory)
<1>1. /\ InOrder(batch) /\ InOrder(memory) /\ F \cap gone = {} /\ Below(F \cup gone, L \cup M)
      /\ Below(L, M) /\ 1 .. last = F \cup gone \cup L \cup M
      /\ G = F \cup N /\ L = N \cup R /\ Below(N, R)
  BY DEF Placed
<1> HIDE DEF F, G, L, R, N, M
<1>2. Below(G \cup gone, R \cup M) /\ Below(R, M) /\ 1 .. last = G \cup gone \cup R \cup M
  BY <1>1 DEF Below
<1>3. G \cap gone = {}
  <2> SUFFICES ASSUME NEW k \in N, k \in gone PROVE FALSE
    BY <1>1
  <2>1. k < k /\ k \in 1 .. last
    BY <1>1 DEF Below
  <2> QED BY <2>1
<1> QED BY <1>1, <1>2, <1>3 DEF Placed, F, G, L, R, N, M

(* append puts the lines of its buffer behind those of the open file.       *)
LEMMA AppendBufferKeepsLines == LinesInv /\ AppendBuffer => LinesInv'
<1> SUFFICES ASSUME LinesInv, AppendBuffer PROVE LinesInv'
  OBVIOUS
<1> DEFINE chunk == Chunks[appended + 1]
           new == chunk.lines
           file == AppendFile(chunk)
           done == appended - Notices(buffersToWrite)
           batch == buffersToWrite
           at == lastRoll_
           f1 == [files EXCEPT ![at] = @ \o new]
<1>1. /\ backend = "write" /\ appended \in Nat /\ appended < Len(Chunks)
      /\ AppendUnlocked(chunk) /\ appended' = appended + 1
      /\ UNCHANGED <<vars, clockVars>>
  BY DEF AppendBuffer, LinesInv, FilesOK
<1>2. IInv'
  BY <1>1, OthersKeep DEF LinesInv
<1>3. /\ now \in Nat \ {0} /\ at \in Nat /\ held \in Nat /\ DOMAIN files \subseteq Nat
      /\ \A n \in DOMAIN files : files[n] \in Seq(Nat) /\ n <= at
      /\ at \in DOMAIN files /\ held <= Len(files[at])
  BY <1>1 DEF LinesInv, FilesOK
<1>4. batch \in Seq(Seq(Nat)) /\ InOrder(batch)
  BY DEF LinesInv, IInv, BuffersOK, Placed
<1>5. /\ done \in Int
      /\ \/ done = 0 - 1 /\ new = <<>>
         \/ /\ done >= 0 /\ done + 1 \in DOMAIN batch
            /\ new = batch[done + 1] /\ new \in Seq(Nat)
  BY <1>1, <1>4, NextChunk
<1>6. file.files = f1 /\ file.held = held + Len(new)
  BY DEF AppendFile
<1>7. Placed(files, dropped, batch, appended, InMemory, lines)
  BY DEF LinesInv
<1>8. <<>> \in Seq(Nat) /\ Len(<<>>) = 0 /\ DOMAIN <<>> = {}
  OBVIOUS
<1> HIDE DEF chunk, file, new
<1>9. new \in Seq(Nat) /\ Len(new) \in Nat
  BY <1>5, <1>8, LenProperties
(* What is left loses the buffer. *)
<1>10. /\ LinesOf(LeftOf(batch, appended)) = ToSet(new) \cup LinesOf(LeftOf(batch, appended + 1))
      /\ Below(ToSet(new), LinesOf(LeftOf(batch, appended + 1)))
      /\ Below(LinesOf(files), ToSet(new))
      /\ \A i, j \in DOMAIN new : i < j => new[i] < new[j]
  <2>1. appended - Notices(batch) = done /\ (appended + 1) - Notices(batch) = done + 1
    BY <1>1, <1>5 DEF Notices
  <2>2. /\ LeftOf(batch, appended) = Behind(batch, done)
        /\ LeftOf(batch, appended + 1) = Behind(batch, done + 1)
    BY <2>1 DEF LeftOf
  <2> HIDE DEF done
  <2>3. CASE done = 0 - 1 /\ new = <<>>
    <3>1. \A c \in DOMAIN batch : c > done /\ c > done + 1
      BY <1>4, <2>3, LenProperties
    <3>2. {c \in DOMAIN batch : c > done} = {c \in DOMAIN batch : c > done + 1}
      BY <3>1
    <3>3. LeftOf(batch, appended) = LeftOf(batch, appended + 1)
      BY <2>2, <3>2 DEF Behind
    <3>4. ToSet(new) = {} /\ DOMAIN new = {}
      BY <2>3, NoLines
    <3> QED BY <3>3, <3>4 DEF Below
  <2>4. CASE done >= 0 /\ done + 1 \in DOMAIN batch /\ new = batch[done + 1]
    <3>1. done \in Nat
      BY <1>5, <2>4
    <3>2. /\ LinesOf(LeftOf(batch, appended))
               = ToSet(batch[done + 1]) \cup LinesOf(LeftOf(batch, appended + 1))
          /\ Below(ToSet(batch[done + 1]), LinesOf(LeftOf(batch, appended + 1)))
      BY <1>4, <2>2, <2>4, <3>1, OneLessLeft
    <3>3. Below(LinesOf(files), LinesOf(LeftOf(batch, appended)))
      BY <1>7 DEF Placed, Below
    <3>4. Below(LinesOf(files), ToSet(new))
      BY <2>4, <3>2, <3>3 DEF Below
    <3>5. \A i, j \in DOMAIN new : i < j => new[i] < new[j]
      BY <1>4, <2>4 DEF InOrder
    <3> QED BY <2>4, <3>2, <3>4, <3>5
  <2> QED BY <1>5, <2>3, <2>4
<1>11. /\ DOMAIN f1 = DOMAIN files /\ f1[at] = files[at] \o new
      /\ \A n \in DOMAIN files : n # at => f1[n] = files[n]
  BY <1>3
<1>12. /\ f1[at] \in Seq(Nat) /\ Len(f1[at]) = Len(files[at]) + Len(new)
       /\ Len(files[at]) \in Nat
  BY <1>3, <1>11, <1>9, ConcatProperties, LenProperties
<1> HIDE DEF f1
<1>13. InOrder(f1) /\ LinesOf(f1) = LinesOf(files) \cup ToSet(new)
  <2>1. PutBehind(files, f1, at, new)
    <3>1. DOMAIN f1 = DOMAIN files \cup {at}
      BY <1>3, <1>11
    <3>2. InOrder(files)
      BY <1>7 DEF Placed
    <3> QED BY <1>3, <1>10, <1>11, <1>9, <3>1, <3>2 DEF PutBehind
  <2> QED BY <2>1, PutAtTheEnd
<1> DEFINE f2 == [n \in DOMAIN f1 \cup {now} |-> IF n \in DOMAIN f1 THEN f1[n] ELSE <<>>]
<1>14. \/ files' = f1 /\ lastRoll_' = at /\ held' \in {0, held + Len(new)}
       \/ /\ now > at /\ lastRoll_' = now /\ held' = 0 /\ files' = f2
  <2>1. \/ files' = file.files /\ lastRoll_' = at /\ held' \in {0, file.held}
        \/ /\ now > at /\ lastRoll_' = now /\ held' = 0
           /\ files' = [n \in DOMAIN file.files \cup {now} |->
                          IF n \in DOMAIN file.files THEN file.files[n] ELSE <<>>]
    BY <1>1, FilesAfterAppend DEF file
  <2> QED BY <1>6, <2>1
<1>15. /\ InOrder(files') /\ LinesOf(files') = LinesOf(files) \cup ToSet(new)
       /\ \A n \in DOMAIN files' : files'[n] \in Seq(Nat) /\ n <= lastRoll_'
       /\ DOMAIN files' \subseteq Nat /\ lastRoll_' \in DOMAIN files'
       /\ held' \in Nat /\ held' <= Len(files'[lastRoll_'])
  <2>1. CASE files' = f1 /\ lastRoll_' = at /\ held' \in {0, held + Len(new)}
    <3>1. InOrder(files') /\ LinesOf(files') = LinesOf(files) \cup ToSet(new)
      BY <1>13, <2>1
    <3>2. /\ \A n \in DOMAIN files' : files'[n] \in Seq(Nat) /\ n <= lastRoll_'
          /\ DOMAIN files' \subseteq Nat /\ lastRoll_' \in DOMAIN files'
      BY <1>3, <1>11, <1>12, <2>1
    <3>3. held' \in Nat /\ held' <= Len(files'[lastRoll_'])
      BY <1>3, <1>12, <1>9, <2>1
    <3> QED BY <3>1, <3>2, <3>3
  <2>2. CASE now > at /\ lastRoll_' = now /\ held' = 0 /\ files' = f2
    <3>1. now \notin DOMAIN f1
      BY <1>3, <1>11, <2>2
    <3>2. /\ DOMAIN f2 = DOMAIN f1 \cup {now} /\ f2[now] = <<>>
          /\ \A n \in DOMAIN f1 : n # now => f2[n] = f1[n]
      BY <3>1
    <3>3. PutBehind(f1, f2, now, <<>>)
      <4> HIDE DEF f2
      <4>1. DOMAIN f1 \subseteq Nat /\ \A b \in DOMAIN f1 : b <= now
        BY <1>3, <1>11, <2>2
      <4>2. ToSet(<<>>) = {}
        BY NoLines
      <4> QED BY <1>3, <1>13, <1>8, <3>1, <3>2, <4>1, <4>2 DEF PutBehind, Below
    <3> HIDE DEF f2
    <3>4. InOrder(files') /\ LinesOf(files') = LinesOf(files) \cup ToSet(new)
      <4>1. InOrder(f2) /\ LinesOf(f2) = LinesOf(f1) \cup ToSet(<<>>)
        BY <3>3, PutAtTheEnd
      <4> QED BY <1>13, <2>2, <4>1, NoLines
    <3>5. /\ \A n \in DOMAIN files' : files'[n] \in Seq(Nat) /\ n <= lastRoll_'
          /\ DOMAIN files' \subseteq Nat /\ lastRoll_' \in DOMAIN files'
      <4>1. \A n \in DOMAIN f1 : f1[n] \in Seq(Nat) /\ n <= now /\ n \in Nat
        <5> SUFFICES ASSUME NEW n \in DOMAIN f1
                     PROVE  f1[n] \in Seq(Nat) /\ n <= now /\ n \in Nat
          OBVIOUS
        <5>1. n \in Nat /\ n <= at /\ files[n] \in Seq(Nat)
          BY <1>3, <1>11
        <5>2. f1[n] \in Seq(Nat)
          BY <1>11, <1>12, <5>1
        <5> QED BY <1>3, <2>2, <5>1, <5>2
      <4>2. \A n \in DOMAIN f2 : f2[n] \in Seq(Nat) /\ n <= now /\ n \in Nat
        <5> SUFFICES ASSUME NEW n \in DOMAIN f2
                     PROVE  f2[n] \in Seq(Nat) /\ n <= now /\ n \in Nat
          OBVIOUS
        <5>1. CASE n \in DOMAIN f1
          <6>1. n # now /\ f2[n] = f1[n]
            BY <3>1, <3>2, <5>1
          <6> QED BY <4>1, <5>1, <6>1
        <5>2. CASE n = now
          BY <1>3, <1>8, <3>2, <5>2
        <5> QED BY <3>2, <5>1, <5>2
      <4> QED BY <2>2, <3>2, <4>2
    <3>6. held' \in Nat /\ held' <= Len(files'[lastRoll_'])
      BY <1>8, <2>2, <3>2
    <3> QED BY <3>4, <3>5, <3>6
  <2> QED BY <1>14, <2>1, <2>2
<1>16. /\ buffersToWrite' = batch /\ dropped' = dropped /\ InMemory' = InMemory
       /\ lines' = lines /\ backend' = "write" /\ now' = now
  BY <1>1 DEF vars, clockVars, InMemory
<1>17. Placed(files', dropped, batch, appended + 1, InMemory, lines)
  BY <1>7, <1>10, <1>15, LinesMove
<1>18. FilesOK'
  <2>1. lastRoll_' \in Nat
    BY <1>3, <1>14
  <2> QED BY <1>1, <1>3, <1>15, <1>16, <2>1 DEF FilesOK
<1> QED BY <1>1, <1>2, <1>16, <1>17, <1>18 DEF LinesInv

(* What a batch cut down loses is what has not been appended of it.         *)
LEMMA DroppedIsLeft ==
  ASSUME NEW batch \in Seq(Seq(Nat)), InOrder(batch), NEW done,
         done = Notices(batch) + Len(Kept(batch))
  PROVE  LinesOf(batch) \ LinesOf(Kept(batch)) = LinesOf(LeftOf(batch, done))
<1> DEFINE n == Len(Kept(batch))
           kept == Kept(batch)
           left == Behind(batch, n)
<1>1. /\ DOMAIN batch \subseteq Nat /\ n \in Nat /\ DOMAIN kept = 1 .. n
      /\ \A i \in 1 .. n : i \in DOMAIN batch /\ kept[i] = batch[i]
      /\ DOMAIN batch = 1 .. Len(batch)
  BY KeptIsPrefix
<1>2. LeftOf(batch, done) = left
  <2>1. Notices(batch) \in Int
    BY DEF Notices
  <2>2. done - Notices(batch) = n
    BY <1>1, <2>1
  <2> QED BY <2>2 DEF LeftOf
<1>3. /\ DOMAIN left = {c \in DOMAIN batch : c > n}
      /\ \A c \in DOMAIN left : left[c] = batch[c]
  BY DEF Behind
<1> HIDE DEF n, kept, left
<1>4. ASSUME NEW k \in LinesOf(batch), k \notin LinesOf(kept) PROVE k \in LinesOf(left)
  <2>1. PICK b \in DOMAIN batch : \E i \in DOMAIN batch[b] : batch[b][i] = k
    BY <1>4, LinesAre
  <2>2. CASE b \in 1 .. n
    <3>1. kept[b] = batch[b] /\ b \in DOMAIN kept
      BY <1>1, <2>2
    <3>2. \E i \in DOMAIN kept[b] : kept[b][i] = k
      BY <2>1, <3>1
    <3> QED BY <1>4, <3>1, <3>2, LinesAre
  <2>3. CASE b \notin 1 .. n
    <3>1. b \in DOMAIN left /\ left[b] = batch[b]
      BY <1>1, <1>3, <2>3
    <3>2. \E i \in DOMAIN left[b] : left[b][i] = k
      BY <2>1, <3>1
    <3> QED BY <3>1, <3>2, LinesAre
  <2> QED BY <2>2, <2>3
<1>5. ASSUME NEW k \in LinesOf(left) PROVE k \in LinesOf(batch) /\ k \notin LinesOf(kept)
  <2>1. PICK b \in DOMAIN left : \E i \in DOMAIN left[b] : left[b][i] = k
    BY <1>5, LinesAre
  <2>2. b \in DOMAIN batch /\ b > n /\ left[b] = batch[b]
    BY <1>3
  <2>3. PICK i \in DOMAIN batch[b] : batch[b][i] = k
    BY <2>1, <2>2
  <2>4. ASSUME k \in LinesOf(kept) PROVE FALSE
    <3>1. PICK c \in DOMAIN kept : \E j \in DOMAIN kept[c] : kept[c][j] = k
      BY <2>4, LinesAre
    <3>2. c \in DOMAIN batch /\ c < b /\ kept[c] = batch[c]
      BY <1>1, <2>2
    <3>3. PICK j \in DOMAIN batch[c] : batch[c][j] = k
      BY <3>1, <3>2
    <3>4. k < k
      BY <2>2, <2>3, <3>2, <3>3 DEF InOrder
    <3>5. k \in Nat
      <4>1. batch[b] \in Seq(Nat)
        BY <1>1, <2>2, ElementOfSeq
      <4> QED BY <2>3, <4>1, LenProperties, ElementOfSeq
    <3> QED BY <3>4, <3>5
  <2> QED BY <2>2, <2>3, <2>4, LinesAre
<1>6. LinesOf(batch) \ LinesOf(kept) = LinesOf(left)
  BY <1>4, <1>5
<1> QED BY <1>2, <1>6 DEF kept

(* Between two batches every line is in a file, dropped, or in memory.      *)
LEMMA FinishKeepsLines == LinesInv /\ FinishBatch => LinesInv'
<1> SUFFICES ASSUME LinesInv, FinishBatch PROVE LinesInv'
  OBVIOUS
<1> DEFINE batch == buffersToWrite
           kept == Kept(batch)
           left == LinesOf(LeftOf(batch, appended))
<1>1. /\ WriteBatch /\ appended = Len(Chunks) /\ appended' = 0 /\ held' = 0
      /\ backend = "write" /\ backend' = "test" /\ batch' = <<>>
      /\ dropped' = dropped \cup (LinesOf(batch) \ LinesOf(kept))
      /\ files' = files /\ lastRoll_' = lastRoll_ /\ now' = now /\ lines' = lines
      /\ InMemory' = InMemory
  BY DEF FinishBatch, WriteBatch, Flush, FlushFile, clockVars, frontVars, InMemory
<1>2. IInv'
  BY <1>1, WriteKeeps DEF LinesInv
<1>3. batch \in Seq(Seq(Nat)) /\ InOrder(batch)
      /\ Placed(files, dropped, batch, appended, InMemory, lines)
  BY DEF LinesInv, IInv, BuffersOK, Placed
<1>4. dropped' = dropped \cup left
  <2>1. appended = Notices(batch) + Len(kept)
    BY <1>1, <1>3, ChunksAre
  <2> QED BY <1>1, <1>3, <2>1, DroppedIsLeft
<1>5. LinesOf(LeftOf(<<>>, 0)) = {} /\ InOrder(<<>>)
  <2>1. DOMAIN LeftOf(<<>>, 0) = {} /\ DOMAIN <<>> = {}
    BY DEF LeftOf, Behind
  <2> QED BY <2>1, NoLines
<1>6. Placed(files, dropped \cup left, <<>>, 0, InMemory, lines)
  <2> DEFINE F == LinesOf(files)
             M == LinesOf(InMemory)
  <2>1. /\ InOrder(files) /\ InOrder(InMemory) /\ F \cap dropped = {}
        /\ Below(F \cup dropped, left \cup M) /\ Below(left, M)
        /\ 1 .. lines = F \cup dropped \cup left \cup M
    BY <1>3 DEF Placed
  <2> HIDE DEF F, M, left
  <2>2. Below(F \cup (dropped \cup left), {} \cup M) /\ Below({}, M)
        /\ 1 .. lines = F \cup (dropped \cup left) \cup {} \cup M
    BY <2>1 DEF Below
  <2>3. F \cap (dropped \cup left) = {}
    <3> SUFFICES ASSUME NEW k \in F, k \in left PROVE FALSE
      BY <2>1
    <3>1. k < k /\ k \in 1 .. lines
      BY <2>1 DEF Below
    <3> QED BY <3>1
  <2> QED BY <1>5, <2>1, <2>2, <2>3 DEF Placed, F, M
<1>7. FilesOK'
  <2>1. lastRoll_ \in DOMAIN files => held' <= Len(files[lastRoll_])
    BY <1>1, LenProperties DEF LinesInv, FilesOK
  <2> QED BY <1>1, <2>1 DEF FilesOK, LinesInv
<1> QED BY <1>1, <1>2, <1>4, <1>6, <1>7 DEF LinesInv

(* The steps that leave lines, buffers and files alone.                     *)
LEMMA OthersKeepLines ==
  ASSUME LinesInv,
         \/ Elsewhere(Begin) \/ Elsewhere(TestRunning) \/ Elsewhere(Wait)
         \/ Elsewhere(TimeOut) \/ Elsewhere(Start \/ StartReturn \/ Stop \/ StopNotify \/ Join)
         \/ Tick \/ SetBack \/ UNCHANGED allVars
  PROVE  LinesInv'
<1>1. IInv'
  BY OthersKeep DEF LinesInv, Elsewhere, Tick, SetBack, allVars
<1>2. /\ UNCHANGED <<lines, currentBuffer_, buffers_, buffersToWrite, dropped>>
      /\ UNCHANGED <<logVars, appended>>
      /\ \/ backend' = backend
         \/ backend = "none" /\ backend' = "born"
         \/ backend = "born" /\ backend' = "open"
         \/ backend = "waiting" /\ backend' = "woken"
         \/ backend \in {"test", "lock"} /\ backend' \in {"lock", "exit", "waiting"}
  BY DEF Elsewhere, Tick, SetBack, allVars, vars, frontVars, backVars, Begin, TestRunning,
         Wait, TimeOut, Start, StartThread, StartReturn, Stop, StopNotify, Notify, Join
<1>3. now' \in Nat \ {0}
  BY DEF Elsewhere, Tick, SetBack, allVars, clockVars, LinesInv, FilesOK
<1>4. FilesOK'
  BY <1>2, <1>3 DEF LinesInv, FilesOK, logVars
<1> QED BY <1>1, <1>2, <1>4 DEF LinesInv, InMemory, logVars

(* Before the log file is opened there are no lines anywhere.               *)
LEMMA InitLines == LogInit => LinesInv
<1> SUFFICES ASSUME LogInit PROVE LinesInv
  OBVIOUS
<1>1. IInv
  BY InitInv DEF LogInit
<1>2. FilesOK
  BY DEF LogInit, Init, FilesOK
<1>3. /\ LinesOf(files) = {} /\ InOrder(files) /\ InOrder(buffersToWrite)
      /\ LinesOf(LeftOf(buffersToWrite, appended)) = {}
  <2>1. /\ DOMAIN files = {} /\ DOMAIN buffersToWrite = {}
        /\ DOMAIN LeftOf(buffersToWrite, appended) = {}
    BY DEF LogInit, Init, LeftOf, Behind
  <2> QED BY <2>1, NoLines
<1>4. LinesOf(InMemory) = {} /\ InOrder(InMemory)
  <2>1. InMemory = <<<<>>>>
    BY DEF LogInit, Init, InMemory
  <2> QED BY <2>1 DEF LinesOf, InOrder, ToSet
<1>5. dropped = {} /\ 1 .. lines = {}
  BY DEF LogInit, Init
<1>6. Placed(files, dropped, buffersToWrite, appended, InMemory, lines)
  BY <1>3, <1>4, <1>5 DEF Placed, Below
<1> QED BY <1>1, <1>2, <1>6 DEF LinesInv

(* Every line is in its place throughout, for every size, batch and clock.  *)
THEOREM LogInvariant == LogSpec => []LinesInv
<1>1. LinesInv /\ [LogNext]_allVars => LinesInv'
  BY AppendLineKeepsLines, OpenKeepsLines, TakeKeepsLines, AppendBufferKeepsLines,
     FinishKeepsLines, OthersKeepLines DEF LogNext, LogBackend
<1> QED BY <1>1, InitLines, PTL DEF LogSpec

(* What is flushed of the files is in order, and with every line all lines  *)
(* of the files before it.                                                  *)
LEMMA DiskIsPrefix ==
  ASSUME FilesOK, InOrder(files)
  PROVE  /\ InOrder(OnDisk) /\ LinesOf(OnDisk) \subseteq LinesOf(files)
         /\ \A k \in LinesOf(OnDisk), j \in LinesOf(files) : j < k => j \in LinesOf(OnDisk)
         /\ held = 0 => OnDisk = [n \in DOMAIN files |-> files[n]]
<1>1. /\ DOMAIN files \subseteq Nat /\ lastRoll_ \in Nat /\ held \in Nat
      /\ \A n \in DOMAIN files : files[n] \in Seq(Nat) /\ n <= lastRoll_
      /\ lastRoll_ \in DOMAIN files => held <= Len(files[lastRoll_])
  BY DEF FilesOK
<1>2. /\ DOMAIN OnDisk = DOMAIN files
      /\ \A n \in DOMAIN files :
           OnDisk[n] = IF n = lastRoll_ THEN SubSeq(files[n], 1, Len(files[n]) - held)
                       ELSE files[n]
  BY DEF OnDisk
<1>3. \A n \in DOMAIN files :
        /\ files[n] \in Seq(Nat) /\ Len(files[n]) \in Nat
        /\ DOMAIN files[n] = 1 .. Len(files[n])
  BY <1>1, LenProperties
<1>4. ASSUME NEW n \in DOMAIN files
      PROVE  /\ n < lastRoll_ => OnDisk[n] = files[n]
             /\ held = 0 => OnDisk[n] = files[n]
             /\ \A i \in DOMAIN OnDisk[n] : i \in DOMAIN files[n] /\ OnDisk[n][i] = files[n][i]
             /\ \A i \in DOMAIN OnDisk[n], m \in DOMAIN files[n] :
                  m < i => m \in DOMAIN OnDisk[n]
  <2>1. CASE n # lastRoll_
    BY <1>2, <1>3, <2>1
  <2>2. CASE n = lastRoll_
    <3> DEFINE s == files[n]
               end == Len(s) - held
    <3>1. s \in Seq(Nat) /\ Len(s) \in Nat /\ end \in 0 .. Len(s) /\ DOMAIN s = 1 .. Len(s)
      BY <1>1, <1>3, <2>2
    <3>2. OnDisk[n] = SubSeq(s, 1, end)
      BY <1>2, <2>2
    <3>3. held = 0 => end = Len(s)
      BY <3>1
    <3> HIDE DEF s, end
    <3>4. DOMAIN SubSeq(s, 1, end) = 1 .. end
          /\ \A i \in 1 .. end : i \in DOMAIN s /\ SubSeq(s, 1, end)[i] = s[i]
      BY <3>1, SubSeqProperties, LenProperties
    <3>5. held = 0 => SubSeq(s, 1, end) = s
      BY <3>1, <3>3, SubSeqFull
    <3>6. \A i \in 1 .. end, m \in DOMAIN s : m < i => m \in 1 .. end
      BY <3>1
    <3>7. /\ held = 0 => OnDisk[n] = s
          /\ DOMAIN OnDisk[n] = 1 .. end
          /\ \A i \in 1 .. end : i \in DOMAIN s /\ OnDisk[n][i] = s[i]
      BY <3>2, <3>4, <3>5
    <3>8. ~(n < lastRoll_)
      BY <1>1, <2>2
    <3> QED BY <3>6, <3>7, <3>8 DEF s
  <2> QED BY <2>1, <2>2
<1>5. InOrder(OnDisk)
  BY <1>2, <1>4 DEF InOrder
<1>6. LinesOf(OnDisk) \subseteq LinesOf(files)
  <2> SUFFICES ASSUME NEW k \in LinesOf(OnDisk) PROVE k \in LinesOf(files)
    OBVIOUS
  <2>1. PICK b \in DOMAIN OnDisk : \E i \in DOMAIN OnDisk[b] : OnDisk[b][i] = k
    BY LinesAre
  <2>2. PICK i \in DOMAIN OnDisk[b] : OnDisk[b][i] = k
    BY <2>1
  <2>3. b \in DOMAIN files /\ i \in DOMAIN files[b] /\ files[b][i] = k
    BY <1>2, <1>4, <2>2
  <2> QED BY <2>3, LinesAre
<1>7. ASSUME NEW k \in LinesOf(OnDisk), NEW j \in LinesOf(files), j < k
      PROVE  j \in LinesOf(OnDisk)
  <2>1. PICK b \in DOMAIN OnDisk : \E i \in DOMAIN OnDisk[b] : OnDisk[b][i] = k
    BY LinesAre
  <2>2. PICK i \in DOMAIN OnDisk[b] : OnDisk[b][i] = k
    BY <2>1
  <2>3. b \in DOMAIN files /\ i \in DOMAIN files[b] /\ files[b][i] = k
    BY <1>2, <1>4, <2>2
  <2>4. PICK c \in DOMAIN files : \E m \in DOMAIN files[c] : files[c][m] = j
    BY LinesAre
  <2>5. PICK m \in DOMAIN files[c] : files[c][m] = j
    BY <2>4
  <2>6. b \in Nat /\ c \in Nat /\ i \in Nat /\ m \in Nat /\ k \in Nat /\ j \in Nat
        /\ b <= lastRoll_
    BY SMTT(30), <1>1, <1>3, <2>3, <2>5, ElementOfSeq
  <2>7. ~(b < c \/ (b = c /\ i < m))
    <3>1. b < c \/ (b = c /\ i < m) => k < j
      BY <2>3, <2>5 DEF InOrder
    <3> QED BY <1>7, <2>6, <3>1
  <2>8. CASE c < b
    <3>1. OnDisk[c] = files[c] /\ c \in DOMAIN OnDisk
      BY <1>1, <1>2, <1>4, <2>6, <2>8
    <3>2. \E x \in DOMAIN OnDisk[c] : OnDisk[c][x] = j
      BY <2>5, <3>1
    <3> QED BY <3>1, <3>2, LinesAre
  <2>9. CASE c = b
    <3>1. m <= i /\ m # i
      BY <1>7, <2>3, <2>5, <2>6, <2>7, <2>9
    <3>2. m \in DOMAIN OnDisk[c] /\ OnDisk[c][m] = j
      BY <1>4, <2>2, <2>5, <2>6, <2>9, <3>1
    <3> QED BY <1>2, <3>2, LinesAre
  <2> QED BY <2>6, <2>7, <2>8, <2>9
<1>8. held = 0 => OnDisk = [n \in DOMAIN files |-> files[n]]
  <2> SUFFICES ASSUME held = 0 PROVE OnDisk = [n \in DOMAIN files |-> files[n]]
    OBVIOUS
  <2>1. \A n \in DOMAIN files :
          (IF n = lastRoll_ THEN SubSeq(files[n], 1, Len(files[n]) - held) ELSE files[n])
            = files[n]
    BY <1>2, <1>4
  <2> QED BY <2>1 DEF OnDisk
<1> QED BY <1>5, <1>6, <1>7, <1>8

(* A crash at any time leaves no hole in the log: the files hold the first  *)
(* lines appended, in order and once each but for those dropped, whatever   *)
(* is appended, rolled and flushed when.                                    *)
THEOREM CrashLeavesNoHole == LogSpec => []LinesInFiles
<1>1. LinesInv => LinesInFiles
  <2> SUFFICES ASSUME LinesInv PROVE LinesInFiles
    OBVIOUS
  <2> DEFINE F == LinesOf(files)
             D == LinesOf(OnDisk)
             L == LinesOf(LeftOf(buffersToWrite, appended))
             M == LinesOf(InMemory)
             all == 1 .. lines \ dropped
  <2>1. /\ FilesOK /\ InOrder(files) /\ InOrder(InMemory) /\ F \cap dropped = {}
        /\ Below(F \cup dropped, L \cup M) /\ Below(L, M)
        /\ 1 .. lines = F \cup dropped \cup L \cup M
    BY DEF LinesInv, Placed
  <2>2. /\ InOrder(OnDisk) /\ D \subseteq F
        /\ \A k \in D, j \in F : j < k => j \in D
        /\ held = 0 => OnDisk = [n \in DOMAIN files |-> files[n]]
    BY <2>1, DiskIsPrefix
  <2>3. held = 0 => D = F
    BY <2>2 DEF LinesOf
  <2>4. backend # "write" => held = 0 /\ L = {}
    <3>1. DOMAIN <<>> = {}
      OBVIOUS
    <3>2. backend # "write" => held = 0 /\ buffersToWrite = <<>>
      BY DEF LinesInv, FilesOK, IInv, SparesThere
    <3>3. buffersToWrite = <<>> => DOMAIN LeftOf(buffersToWrite, appended) = {}
      BY <3>1 DEF LeftOf, Behind
    <3> QED BY <3>2, <3>3, NoLines
  <2> HIDE DEF F, D, L, M
  <2>5. \A k \in F \cup dropped \cup L \cup M : k \in Int
    BY <2>1
  <2>6. all = F \cup L \cup M
    <3>1. \A k \in L \cup M : k \notin dropped
      <4> SUFFICES ASSUME NEW k \in L \cup M, k \in dropped PROVE FALSE
        OBVIOUS
      <4>1. k < k /\ k \in Int
        BY <2>1, <2>5 DEF Below
      <4> QED BY <4>1
    <3> QED BY <2>1, <3>1
  <2> HIDE DEF all
  <2>7. ASSUME NEW k \in D, NEW j \in all, j < k PROVE j \in D
    <3>1. CASE j \in F
      BY <2>2, <2>7, <3>1
    <3>2. CASE j \in L \cup M
      <4>1. k < j /\ k \in Int /\ j \in Int
        BY <2>1, <2>2, <2>5, <3>2 DEF Below
      <4> QED BY <2>7, <4>1
    <3> QED BY <2>6, <3>1, <3>2
  <2>8. \A k \in D, j \in M : k < j
    BY <2>1, <2>2 DEF Below
  <2> QED BY <2>1, <2>2, <2>3, <2>4, <2>6, <2>7, <2>8
          DEF LinesInFiles, D, M, all, InMemory
<1> QED BY <1>1, LogInvariant, PTL
=============================================================================
