-------------------------- MODULE MCAsyncLogging ----------------------------
(* AsyncLogging on its LogFile for TLC: two lines to a buffer, batches cut *)
(* above two, files of three bytes, days of two seconds; and the line a    *)
(* Logger hands over, in a stream of 40 bytes with integers of 8 bits.     *)
EXTENDS LogFile, LogStream

CompleteLines == {n \in 0 .. MaxLines : IsComplete(n)}

(* The line append is given reads as what was logged: its numbers as their *)
(* values, each argument whole, up to the newline (convert, operator<<,    *)
(* formatInteger, Logger).                                                 *)
LineReadsBack == lines \in CompleteLines /\ TakenWhole /\ NumbersReadBack
=============================================================================
