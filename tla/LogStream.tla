----------------------------- MODULE LogStream ------------------------------
(***************************************************************************)
(* muduo::LogStream (base/LogStream.h, base/LogStream.cc) and the Logger   *)
(* that fills one (base/Logging.cc): the line that AsyncLogging is given   *)
(* is put together in a FixedBuffer, which is never grown.                 *)
(*                                                                         *)
(* Text is a sequence of characters.  A stream is its data up to cur_ and  *)
(* how far it was ever written (top), a terminating NUL included.          *)
(***************************************************************************)
EXTENDS Integers, Sequences, SequencesExt

CONSTANTS kSmallBuffer,     \* size of the FixedBuffer: 4000
          kMaxNumericSize,  \* room asked for by a number: 32
          Bits              \* width of an integer: 64

Signed == -(2 ^ (Bits - 1)) .. 2 ^ (Bits - 1) - 1
Unsigned == 0 .. 2 ^ Bits - 1

(* staticCheck: any number, its sign and the NUL fit.                      *)
ASSUME LogStreamAssumption ==
  /\ {kSmallBuffer, kMaxNumericSize, Bits} \subseteq Nat \ {0}
  /\ 10 ^ (kMaxNumericSize - 2) > 2 ^ Bits

-----------------------------------------------------------------------------
(* Numbers.  C's division is towards zero.                                 *)

Remainder(i, base) == IF i < 0 THEN -((-i) % base) ELSE i % base
Quotient(i, base) == IF i < 0 THEN -((-i) \div base) ELSE i \div base

(* digits, whose middle is at zero, and digitsHex, which begins at its 0.  *)
digits == <<"9","8","7","6","5","4","3","2","1","0",
            "1","2","3","4","5","6","7","8","9">>
zero == 10

digitsHex == <<"0","1","2","3","4","5","6","7","8","9","A","B","C","D","E","F">>

(* Mutant of the do-while: it ends below zero, too. *)
MoreAbove(i) == i > 0

(* i != 0, after the division. *)
More(i) == i # 0

(* The digits of value in the order of the do-while, least first, from     *)
(* symbols, where the one for 0 has index origin.                          *)
Backwards(value, base, symbols, origin) ==
  LET from[i \in Int] ==
        <<symbols[origin + Remainder(i, base)]>> \o
          (IF More(Quotient(i, base)) THEN from[Quotient(i, base)] ELSE <<>>)
  IN from[value]

convert(value) ==
  Reverse(Backwards(value, 10, digits, zero) \o (IF value < 0 THEN <<"-">> ELSE <<>>))

convertHex(value) == Reverse(Backwards(value, 16, digitsHex, 1))

-----------------------------------------------------------------------------
(* FixedBuffer and LogStream.                                              *)

NewStream == [data |-> <<>>, top |-> 0]

Room(stream) == kSmallBuffer - Len(stream.data)

(* n characters are written behind data, text of them counts. *)
Write(stream, text, n) ==
  LET written == Len(stream.data) + n IN
  [data |-> stream.data \o text,
   top  |-> IF written > stream.top THEN written ELSE stream.top]

(* append: all or nothing, and never the last byte. *)
AppendText(stream, text) ==
  IF Room(stream) > Len(text) THEN Write(stream, text, Len(text)) ELSE stream

(* A number and the NUL behind it, with room for any of them.              *)
AppendNumeric(stream, text) ==
  IF Room(stream) >= kMaxNumericSize
  THEN Write(stream, text, Len(text) + 1) ELSE stream

FormatInteger(stream, v) == AppendNumeric(stream, convert(v))

FormatPointer(stream, p) == AppendNumeric(stream, <<"0", "x">> \o convertHex(p))

(* snprintf of a double: any text that it may print. *)
FormatDouble(stream, printed) == AppendNumeric(stream, printed)

(* operator<<, by the type of its argument. *)
Insert(stream, arg) ==
  CASE arg.type = "integer" -> FormatInteger(stream, arg.v)
    [] arg.type = "pointer" -> FormatPointer(stream, arg.v)
    [] arg.type = "double"  -> FormatDouble(stream, arg.text)
    [] arg.type = "bool"    -> AppendText(stream, IF arg.b THEN <<"1">> ELSE <<"0">>)
    [] arg.type = "text"    -> AppendText(stream, arg.text)
    [] arg.type = "null"    -> AppendText(stream, <<"(", "n", "u", "l", "l", ")">>)

InsertAll(stream, args) == FoldLeft(Insert, stream, args)

-----------------------------------------------------------------------------
(* Logger.  Each text it adds itself is one character here.                *)

Word(char) == [type |-> "text", text |-> <<char>>]
Integer(n) == [type |-> "integer", v |-> n]

(* Impl: the time and its microseconds, the thread, the level, and errno.  *)
LogImpl(savedErrno) ==
  <<Word("T"), Word("U"), Word("t"), Word("L")>>
  \o IF savedErrno = 0 THEN <<>>
     ELSE <<Word("e"), Word("("), Integer(savedErrno), Word(")")>>

(* The constructor with a function's name. *)
LogFunc(func) == IF func THEN <<Word("f"), Word(" ")>> ELSE <<>>

finish(line) == <<Word("-"), Word("b"), Word(":"), Integer(line), Word("\n")>>

(* What the constructor, the user and the destructor insert; the buffer is *)
(* given to g_output.                                                      *)
LogArgs(savedErrno, func, message, line) ==
  LogImpl(savedErrno) \o LogFunc(func) \o message \o finish(line)

LogLine(args) == InsertAll(NewStream, args)

-----------------------------------------------------------------------------
(* Properties.                                                             *)

(* What a reader makes of a text: in a base, with a sign. *)
ValueOf(text, base) ==
  LET value(char) == CHOOSE d \in 0 .. 15 : digitsHex[d + 1] = char
      number(s) == FoldLeft(LAMBDA sum, char : sum * base + value(char), 0, s)
  IN IF text[1] = "-" THEN -number(Tail(text)) ELSE number(text)

(* Every integer reads back as itself, the smallest one, which has no      *)
(* negative, included (convert, convertHex).                               *)
NumbersReadBack ==
  /\ \A v \in Signed \cup Unsigned : ValueOf(convert(v), 10) = v
  /\ \A p \in Unsigned : ValueOf(convertHex(p), 16) = p

Args ==
  {Integer(-(2 ^ (Bits - 1))), Integer(0),
   [type |-> "pointer", v |-> 2 ^ Bits - 1],
   [type |-> "double", text |-> [i \in 1 .. kMaxNumericSize - 1 |-> "d"]],
   [type |-> "bool", b |-> TRUE], [type |-> "null"]}
  \cup {[type |-> "text", text |-> [i \in 1 .. n |-> "x"]] : n \in {0, 1, kSmallBuffer - 1}}

(* However full a stream is, an argument is taken whole or not at all, is  *)
(* written within the buffer, its NUL too, and is taken if there is the    *)
(* room for it and for any number (append, formatInteger, operator<<).     *)
TakenWhole ==
  \A n \in 0 .. kSmallBuffer - 1, arg \in Args :
    LET full == [data |-> [i \in 1 .. n |-> "x"], top |-> n]
        alone == Insert(NewStream, arg).data
        after == Insert(full, arg)
    IN /\ after.data \in {full.data, full.data \o alone}
       /\ after.top <= kSmallBuffer
       /\ n + Len(alone) + kMaxNumericSize <= kSmallBuffer
            => after.data = full.data \o alone

(* Hence the line of a message, any argument and a number n, is complete   *)
(* and ends in its newline if it leaves room for a number, with an errno   *)
(* and a function or without (Logger).                                     *)
IsComplete(n) ==
  \A savedErrno \in {0, 1}, func \in BOOLEAN, arg \in Args :
    LET args == LogArgs(savedErrno, func, <<arg, Integer(n)>>, 1)
        alone == [i \in DOMAIN args |-> Insert(NewStream, args[i]).data]
        all == FlattenSeq(alone)
    IN Len(all) + kMaxNumericSize <= kSmallBuffer => LogLine(args).data = all
=============================================================================
