----------------------------- MODULE BufferText -----------------------------
(***************************************************************************)
(* What callers read out of a Buffer and write into it (net/Buffer.h):     *)
(* integers in network byte order, with the conversions of net/Endian.h,   *)
(* and lines that end in CRLF or LF.                                       *)
(***************************************************************************)
EXTENDS Buffer, FiniteSets, SequencesExt

CONSTANTS CR, LF        \* '\r' and '\n'

Base == Cardinality(Byte)

ASSUME TextAssumption ==
  Byte = 0 .. Base - 1 /\ Base > 1 /\ {CR, LF} \subseteq Byte /\ CR # LF

(* The integers of n bytes, in two's complement. *)
IntOf(n) == - ((Base ^ n) \div 2) .. (Base ^ n + 1) \div 2 - 1

-----------------------------------------------------------------------------
(* Integers.                                                               *)

(* The bytes of x as the (little-endian) host keeps them. *)
HostBytes(n, x) == [i \in 1 .. n |-> (x % Base ^ n) \div Base ^ (i - 1) % Base]

FromHostBytes(s) ==
  LET value[i \in 0 .. Len(s)] ==
        IF i = 0 THEN 0 ELSE value[i - 1] + s[i] * Base ^ (i - 1)
      v == value[Len(s)]
  IN IF v \in IntOf(Len(s)) THEN v ELSE v - Base ^ Len(s)

(* Mutant of hostToNetwork: the 16-bit overload is used for every width. *)
HostToNetworkShort(s) ==
  IF Len(s) < 2 THEN s ELSE <<s[2], s[1]>> \o SubSeq(s, 3, Len(s))

(* htobe16, htobe32 and htobe64, and their inverses. *)
HostToNetwork(s) == Reverse(s)
NetworkToHost(s) == Reverse(s)

AppendInt(b, n, x) == Append_(b, HostToNetwork(HostBytes(n, x)))
PrependInt(b, n, x) == Prepend(b, HostToNetwork(HostBytes(n, x)))
PeekInt(b, n) == FromHostBytes(NetworkToHost(SubSeq(Content(b), 1, n)))

(* readInt: what it returns and the buffer it leaves. *)
ReadInt(b, n) == [result |-> PeekInt(b, n), rest |-> Retrieve(b, n)]

-----------------------------------------------------------------------------
(* Lines.  A pointer into the content is its offset from peek().           *)

NULL == -1

(* The first offset of at that std::search or memchr finds, if any. *)
First(at) == IF at = {} THEN NULL ELSE CHOOSE i \in at : \A j \in at : i <= j

FindCRLF(b, start) ==
  First({i \in start .. ReadableBytes(b) - 2 :
           Content(b)[i + 1] = CR /\ Content(b)[i + 2] = LF})

FindEOL(b, start) ==
  First({i \in start .. ReadableBytes(b) - 1 : Content(b)[i + 1] = LF})

RetrieveUntil(b, end) == Retrieve(b, end)

RetrieveAsString(b, len) ==
  [result |-> SubSeq(Content(b), 1, len), rest |-> Retrieve(b, len)]

RetrieveAllAsString(b) == RetrieveAsString(b, ReadableBytes(b))

-----------------------------------------------------------------------------
(* Properties.                                                             *)

(* A reader's loop: as long as a line end is found, the line before it is  *)
(* taken and the buffer retrieved until behind the end, which is n long.   *)
ReadLines(b, Find(_, _), n) ==
  LET read[k \in 0 .. ReadableBytes(b)] ==
        IF k = 0 THEN [lines |-> <<>>, rest |-> b]
        ELSE LET r == read[k - 1]
                 end == Find(r.rest, 0)
             IN IF end = NULL THEN r
                ELSE [lines |-> Append(r.lines, SubSeq(Content(r.rest), 1, end)),
                      rest |-> RetrieveUntil(r.rest, end + n)]
  IN read[ReadableBytes(b)]

(* The value a peer reads from bytes in network order. *)
WireValue(s) == FoldLeft(LAMBDA v, byte : v * Base + byte, 0, s)

(* An integer appended goes behind the content, most significant byte      *)
(* first, and one prepended before a message of any content is what the    *)
(* reader gets, negative or not; reading it leaves the message             *)
(* (appendInt, prependInt, peekInt, readInt, hostToNetwork).               *)
IntegersTravel ==
  \A n \in 1 .. MaxLen + 1 : \A x \in IntOf(n) :
    /\ LET sent == SubSeq(Content(AppendInt(buf, n, x)),
                          ReadableBytes(buf) + 1, ReadableBytes(buf) + n)
       IN WireValue(sent) = x % Base ^ n
    /\ n <= PrependableBytes(buf) =>
         LET read == ReadInt(PrependInt(buf, n, x), n)
         IN read.result = x /\ Content(read.rest) = Content(buf)

(* Whatever a buffer went through, reading it line by line cuts its        *)
(* content at the line ends and loses no other byte (findCRLF, findEOL,    *)
(* retrieveUntil, retrieveAllAsString).                                    *)
LinesAreCut ==
  LET crlf == ReadLines(buf, FindCRLF, 2)
      eol == ReadLines(buf, FindEOL, 1)
      Joined(lines, end) ==
        FoldLeft(LAMBDA all, line : all \o line \o end, <<>>, lines)
  IN /\ Content(buf) = Joined(crlf.lines, <<CR, LF>>)
                         \o RetrieveAllAsString(crlf.rest).result
     /\ Content(buf) = Joined(eol.lines, <<LF>>)
                         \o RetrieveAllAsString(eol.rest).result
     /\ FindCRLF(crlf.rest, 0) = NULL /\ FindEOL(eol.rest, 0) = NULL
     /\ ReadableBytes(RetrieveAllAsString(buf).rest) = 0

(* Both of the above: text and integers survive the buffer. *)
TextReadsBack == IntegersTravel /\ LinesAreCut
=============================================================================
