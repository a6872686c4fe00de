------------------------------- MODULE Buffer -------------------------------
(***************************************************************************)
(* muduo::net::Buffer (net/Buffer.h, net/Buffer.cc): a vector of bytes of  *)
(* which [readerIndex_, writerIndex_) is the content, with space before    *)
(* it for headers and behind it for more.                                  *)
(*                                                                         *)
(* A Buffer is a record; its member functions are operators on records,    *)
(* and the machine below applies them, in any order, to one buffer.        *)
(***************************************************************************)
EXTENDS Integers, Sequences

CONSTANTS kCheapPrepend,
          kInitialSize,
          ExtraSize,    \* sizeof extrabuf, in readFd
          Byte,         \* values of a char
          MaxSize,      \* longest vector (bound)
          MaxLen        \* longest piece of data in one call (bound)

ASSUME BufferAssumption ==
  /\ kCheapPrepend \in Nat /\ kInitialSize \in Nat /\ ExtraSize \in Nat
  /\ MaxSize \in Nat /\ MaxLen \in Nat
  /\ 0 \in Byte

VARIABLE buf

bufferVars == <<buf>>

(* A buffer: the vector's size and elements, and the two indices. *)
Make(size, data, reader, writer) ==
  [size |-> size, data |-> data, readerIndex_ |-> reader, writerIndex_ |-> writer]

Zeros(size) == [i \in 0 .. size - 1 |-> 0]

(* The constructor. *)
Empty(size) ==
  Make(kCheapPrepend + size, Zeros(kCheapPrepend + size),
       kCheapPrepend, kCheapPrepend)

ReadableBytes(b) == b.writerIndex_ - b.readerIndex_
WritableBytes(b) == b.size - b.writerIndex_
PrependableBytes(b) == b.readerIndex_

(* What peek and readableBytes describe. *)
Content(b) == [i \in 1 .. ReadableBytes(b) |-> b.data[b.readerIndex_ + i - 1]]

(* std::copy of the sequence s to index at. *)
Copied(data, at, s) ==
  [i \in DOMAIN data |-> IF i \in at .. at + Len(s) - 1 THEN s[i - at + 1]
                                                        ELSE data[i]]

(* vector::resize to a larger size. *)
Resized(b, size) ==
  Make(size, [i \in 0 .. size - 1 |-> IF i < b.size THEN b.data[i] ELSE 0],
       b.readerIndex_, b.writerIndex_)

(* Mutant of makeSpace: the indices are moved, the bytes are not. *)
MovedToFrontUncopied(b) ==
  Make(b.size, b.data, kCheapPrepend, kCheapPrepend + ReadableBytes(b))

(* The content moved to the front. *)
MovedToFront(b) ==
  Make(b.size, Copied(b.data, kCheapPrepend, Content(b)),
       kCheapPrepend, kCheapPrepend + ReadableBytes(b))

(* Mutant of makeSpace's condition: moving would make the space for the    *)
(* data but not keep the headroom.                                         *)
MustGrowLate(b, len) == WritableBytes(b) + PrependableBytes(b) < len

MustGrow(b, len) ==
  WritableBytes(b) + PrependableBytes(b) < len + kCheapPrepend

MakeSpace(b, len) ==
  IF MustGrow(b, len) THEN Resized(b, b.writerIndex_ + len) ELSE MovedToFront(b)

EnsureWritableBytes(b, len) ==
  IF WritableBytes(b) < len THEN MakeSpace(b, len) ELSE b

(* beginWrite, std::copy and hasWritten. *)
Written(b, s) ==
  Make(b.size, Copied(b.data, b.writerIndex_, s),
       b.readerIndex_, b.writerIndex_ + Len(s))

Append_(b, s) == Written(EnsureWritableBytes(b, Len(s)), s)

RetrieveAll(b) == Make(b.size, b.data, kCheapPrepend, kCheapPrepend)

Retrieve(b, len) ==
  IF len < ReadableBytes(b)
  THEN Make(b.size, b.data, b.readerIndex_ + len, b.writerIndex_)
  ELSE RetrieveAll(b)

Unwrite(b, len) ==
  Make(b.size, b.data, b.readerIndex_, b.writerIndex_ - len)

Prepend(b, s) ==
  Make(b.size, Copied(b.data, b.readerIndex_ - Len(s), s),
       b.readerIndex_ - Len(s), b.writerIndex_)

(* shrink: a new buffer takes the content. *)
Shrink(b, reserve) ==
  Append_(EnsureWritableBytes(Empty(kInitialSize), ReadableBytes(b) + reserve),
          Content(b))

(* readFd: readv fills the writable space, then extrabuf, unless there is  *)
(* room for as much as extrabuf could take.                                *)
ReadLimit(b) ==
  IF WritableBytes(b) < ExtraSize THEN WritableBytes(b) + ExtraSize
                                  ELSE WritableBytes(b)

ReadFd(b, s) ==
  LET w == WritableBytes(b) IN
  IF Len(s) <= w THEN Written(b, s)
  ELSE Append_(Written(b, SubSeq(s, 1, w)), SubSeq(s, w + 1, Len(s)))

-----------------------------------------------------------------------------
(* The machine: any member function that changes the buffer, called within *)
(* its assertion; retrieve also with more than there is, as                *)
(* FastCgi::ParseFromPhp does.                                             *)

Pieces == UNION {[1 .. n -> Byte] : n \in 0 .. MaxLen}

BufferInit == buf = Empty(kInitialSize)

AppendStep(s) == buf' = Append_(buf, s)
RetrieveStep(n) == buf' = Retrieve(buf, n)
UnwriteStep(n) == n <= ReadableBytes(buf) /\ buf' = Unwrite(buf, n)
PrependStep(s) == Len(s) <= PrependableBytes(buf) /\ buf' = Prepend(buf, s)
ShrinkStep(n) == buf' = Shrink(buf, n)
ReadFdStep(s) == Len(s) <= ReadLimit(buf) /\ buf' = ReadFd(buf, s)

BufferNext ==
  /\ \/ \E s \in Pieces : AppendStep(s) \/ PrependStep(s) \/ ReadFdStep(s)
     \/ \E n \in 0 .. MaxLen : RetrieveStep(n) \/ UnwriteStep(n) \/ ShrinkStep(n)
  /\ buf'.size <= MaxSize

BufferSpec == BufferInit /\ [][BufferNext]_bufferVars

-----------------------------------------------------------------------------
(* Properties.                                                             *)

IsBuffer(b) ==
  /\ b = Make(b.size, b.data, b.readerIndex_, b.writerIndex_)
  /\ b.size \in Nat /\ kCheapPrepend <= b.size
  /\ b.readerIndex_ \in 0 .. b.writerIndex_
  /\ b.writerIndex_ \in 0 .. b.size
  /\ b.data \in [0 .. b.size - 1 -> Byte]

(* The indices are ordered as the drawing in Buffer.h has them, and no     *)
(* write goes past the end of the vector (append, makeSpace, readFd).      *)
BufferTypeOK == IsBuffer(buf)

(* Every operation does to the content what a queue of bytes promises,     *)
(* whatever moves, grows, goes back to the front or through extrabuf       *)
(* (append, readFd, retrieve, unwrite, prepend, shrink, makeSpace).        *)
Queue == INSTANCE ByteQueue WITH content <- Content(buf)

ContentIsQueue ==
  [][/\ \A s \in Pieces :
          /\ AppendStep(s) \/ ReadFdStep(s) => Queue!Put(s)
          /\ PrependStep(s) => Queue!PutFront(s)
     /\ \A n \in 0 .. MaxLen :
          /\ RetrieveStep(n) => Queue!Take(n)
          /\ UnwriteStep(n) => Queue!TakeBack(n)
          /\ ShrinkStep(n) => UNCHANGED Content(buf)]_bufferVars
=============================================================================
