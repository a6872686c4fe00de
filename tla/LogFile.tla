------------------------------ MODULE LogFile -------------------------------
(***************************************************************************)
(* muduo::LogFile (base/LogFile.cc) under the logging thread of            *)
(* AsyncLogging: files named by the second they are opened in, a new one   *)
(* when the last is too long or a day is over, each behind the buffer of   *)
(* its FileUtil::AppendFile.                                               *)
(*                                                                         *)
(* What AsyncLogging's WriteBatch does at once is taken apart here: one    *)
(* append per buffer, with the time it reads, and a flush at the end.      *)
(***************************************************************************)
EXTENDS AsyncLogging

CONSTANTS RollSize,       \* rollSize_
          FlushInterval,  \* flushInterval_: 3
          CheckEveryN,    \* checkEveryN_: 1024
          RollPerSeconds, \* kRollPerSeconds_: a day
          NoticeLen,      \* bytes of the notice that lines were dropped
          MaxNow,         \* the last second (bound)
          MaxJumps        \* times the clock is set back (bound)

ASSUME LogFileAssumption ==
  /\ RollSize \in Nat /\ FlushInterval \in Nat /\ CheckEveryN \in Nat \ {0}
  /\ RollPerSeconds \in Nat \ {0} /\ NoticeLen \in Nat
  /\ MaxNow \in Nat \ {0} /\ MaxJumps \in Nat

VARIABLES
  now, jumps,             \* the clock, and how often it was set back
  count_, startOfPeriod_, lastRoll_, lastFlush_,
  files,                  \* the lines of each file, by the second in its name
  writtenBytes_,          \* of the open file, whose name is lastRoll_
  held,                   \* its last lines, not yet flushed
  appended,               \* appends of the batch being written
  late                    \* consecutive appends to a file of a day gone by

logVars == <<count_, startOfPeriod_, lastRoll_, lastFlush_, files,
             writtenBytes_, held, late>>
clockVars == <<now, jumps>>
allVars == <<vars, clockVars, logVars, appended>>

StartOfPeriod(t) == (t \div RollPerSeconds) * RollPerSeconds

LogInit ==
  /\ Init
  /\ now = 1 /\ jumps = 0
  /\ count_ = 0 /\ startOfPeriod_ = 0 /\ lastRoll_ = 0 /\ lastFlush_ = 0
  /\ files = <<>> /\ writtenBytes_ = 0 /\ held = 0 /\ appended = 0 /\ late = 0

-----------------------------------------------------------------------------
(* FileUtil::AppendFile: the open file is that of lastRoll_.              *)

(* A new file replaces the open one, whose destructor flushes it. *)
Opened(contents) ==
  /\ files' = [n \in DOMAIN contents \cup {now} |->
                  IF n \in DOMAIN contents THEN contents[n] ELSE <<>>]
  /\ writtenBytes_' = 0 /\ held' = 0

(* append: what the files, the open file's bytes and its unflushed lines   *)
(* become.                                                                 *)
AppendFile(chunk) ==
  [files |-> [files EXCEPT ![lastRoll_] = @ \o chunk.lines],
   bytes |-> writtenBytes_ + chunk.bytes,
   held  |-> held + Len(chunk.lines)]

FlushFile == held' = 0

Keep(file) ==
  files' = file.files /\ writtenBytes_' = file.bytes /\ held' = file.held

-----------------------------------------------------------------------------
(* LogFile.                                                                *)

(* Mutant of rollFile: a clock set back opens a file, too. *)
MayRollBack == now # lastRoll_

(* At most one file a second, whose name is the time. *)
MayRoll == now > lastRoll_

RollFile(file) ==
  IF MayRoll
  THEN /\ lastRoll_' = now /\ lastFlush_' = now
       /\ startOfPeriod_' = StartOfPeriod(now)
       /\ Opened(file.files)
  ELSE Keep(file) /\ UNCHANGED <<lastRoll_, lastFlush_, startOfPeriod_>>

(* Mutant: one append too late. *)
CheckDueLate == count_ + 1 > CheckEveryN

CheckDue == count_ + 1 >= CheckEveryN

FlushDue == now - lastFlush_ > FlushInterval

AppendUnlocked(chunk) ==
  LET file == AppendFile(chunk)
  IN \/ /\ file.bytes > RollSize
        /\ RollFile(file)
        /\ UNCHANGED count_
     \/ /\ file.bytes <= RollSize /\ ~CheckDue
        /\ count_' = count_ + 1
        /\ Keep(file)
        /\ UNCHANGED <<startOfPeriod_, lastRoll_, lastFlush_>>
     \/ /\ file.bytes <= RollSize /\ CheckDue
        /\ count_' = 0
        /\ IF StartOfPeriod(now) # startOfPeriod_
           THEN RollFile(file)
           ELSE /\ lastFlush_' = IF FlushDue THEN now ELSE lastFlush_
                /\ Keep([file EXCEPT !.held = IF FlushDue THEN 0 ELSE @])
                /\ UNCHANGED <<startOfPeriod_, lastRoll_>>

(* Does an append at this time belong into a new file that can be opened?  *)
IsLate == StartOfPeriod(now) # startOfPeriod_ /\ now > lastRoll_

-----------------------------------------------------------------------------
(* The logging thread.                                                     *)

(* LogFile's constructor opens the first file. *)
OpenLog ==
  /\ OpenFile
  /\ RollFile([files |-> files, bytes |-> 0, held |-> 0])
  /\ UNCHANGED <<clockVars, count_, appended, late>>

(* What of the batch is appended: a notice if some is dropped, and buffers.*)
Chunks ==
  LET kept == Kept(buffersToWrite)
      notice == [lines |-> <<>>, bytes |-> NoticeLen]
      of(buffer) == [lines |-> buffer, bytes |-> Len(buffer) * LineLen]
  IN (IF kept # buffersToWrite THEN <<notice>> ELSE <<>>)
     \o [i \in 1 .. Len(kept) |-> of(kept[i])]

(* LogFile::append, without a mutex_. *)
AppendBuffer ==
  /\ backend = "write" /\ appended < Len(Chunks)
  /\ AppendUnlocked(Chunks[appended + 1])
  /\ appended' = appended + 1
  /\ late' = IF IsLate /\ lastRoll_' = lastRoll_ THEN late + 1 ELSE 0
  /\ UNCHANGED <<vars, clockVars>>

(* LogFile::flush; lastFlush_ is that of append only. *)
Flush ==
  /\ FlushFile
  /\ UNCHANGED <<count_, startOfPeriod_, lastRoll_, lastFlush_, files,
                 writtenBytes_>>

(* The batch has been appended: the rest of threadFunc's loop.             *)
FinishBatch ==
  /\ appended = Len(Chunks)
  /\ WriteBatch
  /\ Flush
  /\ appended' = 0
  /\ UNCHANGED <<clockVars, late>>

-----------------------------------------------------------------------------
Tick ==
  /\ now < MaxNow
  /\ now' = now + 1
  /\ UNCHANGED <<vars, jumps, logVars, appended>>

SetBack ==
  /\ jumps < MaxJumps
  /\ jumps' = jumps + 1
  /\ \E t \in 1 .. now - 1 : now' = t
  /\ UNCHANGED <<vars, logVars, appended>>

(* Steps of AsyncLogging that do not touch the file. *)
Elsewhere(step) == step /\ UNCHANGED <<clockVars, logVars, appended>>

LogBackend ==
  \/ Elsewhere(Begin) \/ OpenLog
  \/ Elsewhere(TestRunning) \/ Elsewhere(Wait) \/ Elsewhere(TimeOut)
  \/ Elsewhere(TakeBatch) \/ AppendBuffer \/ FinishBatch

LogNext ==
  \/ /\ ~broken
     /\ \/ Elsewhere(AppendLine) \/ LogBackend
        \/ Elsewhere(Start \/ StartReturn \/ Stop \/ StopNotify \/ Join)
  \/ Tick \/ SetBack

LogSpec == LogInit /\ [][LogNext]_allVars

(* As in AsyncLogging; the clock need not go on. *)
FairLogSpec ==
  /\ LogSpec
  /\ WF_allVars(~broken /\ LogBackend)
  /\ WF_allVars(~broken /\ Elsewhere(StartReturn \/ StopNotify \/ Join))

-----------------------------------------------------------------------------
(* Properties.                                                             *)

(* The lines of f, sequences of lines by number, stand in the order of     *)
(* their own numbers, each once.                                           *)
InOrder(f) ==
  \A b, c \in DOMAIN f : \A i \in DOMAIN f[b], j \in DOMAIN f[c] :
    b < c \/ (b = c /\ i < j) => f[b][i] < f[c][j]

(* What a crash leaves of the files: the open one as far as it is flushed. *)
OnDisk ==
  [n \in DOMAIN files |->
     IF n = lastRoll_ THEN SubSeq(files[n], 1, Len(files[n]) - held) ELSE files[n]]

(* The files, read in the order of their names and as far as they are      *)
(* flushed, hold the first lines appended, once each and in order but for  *)
(* those dropped, so that a crash at any time leaves no hole; between two  *)
(* batches the buffers in memory go on from there to the last line         *)
(* (append, threadFunc, append_unlocked, rollFile, flush).                 *)
LinesInFiles ==
  LET all == 1 .. lines \ dropped
      inMemory == Append(buffers_, currentBuffer_)
  IN /\ InOrder(OnDisk) /\ LinesOf(OnDisk) \subseteq all
     /\ \A k \in LinesOf(OnDisk), j \in all : j < k => j \in LinesOf(OnDisk)
     /\ backend # "write" =>
          /\ InOrder(inMemory) /\ LinesOf(OnDisk) \cup LinesOf(inMemory) = all
          /\ \A k \in LinesOf(OnDisk), j \in LinesOf(inMemory) : k < j

(* When a day is over, fewer than checkEveryN appends follow each other    *)
(* into its file, however files are rolled by size meanwhile; only a clock *)
(* behind the last roll keeps a file open longer (append_unlocked).        *)
RollsByDay == late < CheckEveryN
=============================================================================
