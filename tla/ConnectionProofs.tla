-------------------------- MODULE ConnectionProofs ---------------------------
(***************************************************************************)
(* Proofs about a connection and the buffers it is made with.  Buffer, for *)
(* every header space, initial size, size of extrabuf and set of bytes;    *)
(* then TcpConnection's output path, for every set of messages and of      *)
(* threads.  The two specifications have no state in common: in            *)
(* TcpConnection a buffer is the sequence of bytes that ByteQueue makes it.*)
(***************************************************************************)
EXTENDS Buffer, TcpConnection, SequenceTheorems, TLAPS

-----------------------------------------------------------------------------
(* Buffer.                                                                 *)

(* The fields of a buffer. *)
LEMMA FieldsOf ==
  ASSUME NEW b, IsBuffer(b)
  PROVE  /\ kCheapPrepend \in Nat
         /\ b.size \in Nat /\ kCheapPrepend <= b.size
         /\ b.readerIndex_ \in Nat /\ b.writerIndex_ \in Nat
         /\ b.readerIndex_ <= b.writerIndex_ /\ b.writerIndex_ <= b.size
         /\ b.data \in [0 .. b.size - 1 -> Byte]
  BY BufferAssumption DEF IsBuffer

(* What the content is, element by element. *)
LEMMA ContentIs ==
  ASSUME NEW b, IsBuffer(b)
  PROVE  /\ Content(b) \in Seq(Byte)
         /\ Len(Content(b)) = b.writerIndex_ - b.readerIndex_
         /\ \A i \in 1 .. b.writerIndex_ - b.readerIndex_ :
              Content(b)[i] = b.data[b.readerIndex_ + i - 1]
PROOF
  <1>1. b.writerIndex_ - b.readerIndex_ \in Nat
    BY FieldsOf
  <1>2. \A i \in 1 .. b.writerIndex_ - b.readerIndex_ :
          b.data[b.readerIndex_ + i - 1] \in Byte
    BY FieldsOf, SMTT(40)
  <1>3. Content(b) \in [1 .. b.writerIndex_ - b.readerIndex_ -> Byte]
    BY <1>2 DEF Content, ReadableBytes
  <1>4. Content(b) \in Seq(Byte) /\ Len(Content(b)) = b.writerIndex_ - b.readerIndex_
    <2> DEFINE n == b.writerIndex_ - b.readerIndex_
    <2>1. Content(b) \in Seq(Byte)
      BY <1>1, <1>3, SeqDef
    <2>2. DOMAIN Content(b) = 1 .. n
      BY <1>3
    <2> QED BY <1>1, <2>1, <2>2, LenProperties
  <1> QED BY <1>4 DEF Content, ReadableBytes

(* std::copy inside the vector. *)
LEMMA CopiedIs ==
  ASSUME NEW size \in Nat, NEW data \in [0 .. size - 1 -> Byte], NEW at \in Nat,
         NEW s \in Seq(Byte), at + Len(s) <= size
  PROVE  /\ Copied(data, at, s) \in [0 .. size - 1 -> Byte]
         /\ \A i \in 1 .. Len(s) : Copied(data, at, s)[at + i - 1] = s[i]
         /\ \A j \in 0 .. size - 1 :
              j < at \/ j >= at + Len(s) => Copied(data, at, s)[j] = data[j]
PROOF
  <1>1. Len(s) \in Nat /\ DOMAIN data = 0 .. size - 1
    BY LenProperties
  <1>2. \A j \in 0 .. size - 1 :
          j \in at .. at + Len(s) - 1 => j - at + 1 \in 1 .. Len(s) /\ s[j - at + 1] \in Byte
    <2> SUFFICES ASSUME NEW j \in 0 .. size - 1, j \in at .. at + Len(s) - 1
                 PROVE  j - at + 1 \in 1 .. Len(s) /\ s[j - at + 1] \in Byte
      OBVIOUS
    <2>1. j - at + 1 \in 1 .. Len(s)
      BY <1>1
    <2> QED BY <2>1, ElementOfSeq
  <1>3. Copied(data, at, s) \in [0 .. size - 1 -> Byte]
    BY <1>1, <1>2 DEF Copied
  <1>4. \A i \in 1 .. Len(s) : Copied(data, at, s)[at + i - 1] = s[i]
    BY <1>1 DEF Copied
  <1> QED BY <1>1, <1>3, <1>4 DEF Copied

(* A buffer is determined by its fields. *)
LEMMA MakeIs ==
  ASSUME NEW size \in Nat, kCheapPrepend <= size,
         NEW data \in [0 .. size - 1 -> Byte],
         NEW w \in 0 .. size, NEW r \in 0 .. w
  PROVE  /\ IsBuffer(Make(size, data, r, w))
         /\ Make(size, data, r, w).size = size
         /\ Make(size, data, r, w).data = data
         /\ Make(size, data, r, w).readerIndex_ = r
         /\ Make(size, data, r, w).writerIndex_ = w
  BY DEF IsBuffer, Make

(* Two ways to say what is in a buffer. *)
LEMMA ContentEq ==
  ASSUME NEW size \in Nat, kCheapPrepend <= size,
         NEW data \in [0 .. size - 1 -> Byte],
         NEW w \in 0 .. size, NEW r \in 0 .. w,
         NEW s \in Seq(Byte), Len(s) = w - r,
         \A i \in 1 .. w - r : data[r + i - 1] = s[i]
  PROVE  Content(Make(size, data, r, w)) = s
PROOF
  <1> DEFINE b == Make(size, data, r, w)
  <1>0. IsBuffer(Make(size, data, r, w))
    BY MakeIs
  <1>1. IsBuffer(b) /\ b.data = data /\ b.readerIndex_ = r /\ b.writerIndex_ = w
    BY <1>0 DEF Make
  <1> HIDE DEF b
  <1>2. Content(b) \in Seq(Byte) /\ Len(Content(b)) = w - r
    BY <1>1, ContentIs
  <1>3. \A i \in 1 .. w - r : Content(b)[i] = s[i]
    BY <1>1, ContentIs
  <1>4. Content(b) = s
    BY <1>2, <1>3, SeqEqual
  <1> QED BY <1>4 DEF b

-----------------------------------------------------------------------------
(* The member functions. *)

(* Moving the content to the front keeps it (makeSpace). *)
LEMMA MovedToFrontKeeps ==
  ASSUME NEW b, IsBuffer(b), kCheapPrepend <= b.readerIndex_
  PROVE  /\ IsBuffer(MovedToFront(b))
         /\ Content(MovedToFront(b)) = Content(b)
         /\ MovedToFront(b).size = b.size
         /\ MovedToFront(b).readerIndex_ = kCheapPrepend
         /\ MovedToFront(b).writerIndex_ = kCheapPrepend + b.writerIndex_ - b.readerIndex_
PROOF
  <1> DEFINE n == b.writerIndex_ - b.readerIndex_
             data == Copied(b.data, kCheapPrepend, Content(b))
  <1>1. kCheapPrepend \in Nat /\ n \in Nat /\ kCheapPrepend + n <= b.size
        /\ b.size \in Nat /\ b.data \in [0 .. b.size - 1 -> Byte]
        /\ kCheapPrepend <= b.size
    BY BufferAssumption, FieldsOf
  <1>2. Content(b) \in Seq(Byte) /\ Len(Content(b)) = n
    BY ContentIs
  <1>3. MovedToFront(b) = Make(b.size, data, kCheapPrepend, kCheapPrepend + n)
    BY DEF MovedToFront, ReadableBytes
  <1> HIDE DEF n
  <1>4. data \in [0 .. b.size - 1 -> Byte]
        /\ \A i \in 1 .. n : data[kCheapPrepend + i - 1] = Content(b)[i]
    BY <1>1, <1>2, CopiedIs, ZenonT(60)
  <1> HIDE DEF data
  <1> DEFINE w == kCheapPrepend + n
  <1>5. w \in 0 .. b.size /\ kCheapPrepend \in 0 .. w /\ n = w - kCheapPrepend
    BY <1>1
  <1>6. MovedToFront(b) = Make(b.size, data, kCheapPrepend, w)
    BY <1>3
  <1> HIDE DEF w
  <1>7. Len(Content(b)) = w - kCheapPrepend
        /\ \A i \in 1 .. w - kCheapPrepend : data[kCheapPrepend + i - 1] = Content(b)[i]
    BY <1>2, <1>4, <1>5
  <1>11. /\ b.size \in Nat /\ kCheapPrepend <= b.size
         /\ data \in [0 .. b.size - 1 -> Byte]
    BY <1>1, <1>4
  <1>8. Content(Make(b.size, data, kCheapPrepend, w)) = Content(b)
    BY <1>2, <1>5, <1>7, <1>11, ContentEq
  <1>9. LET m == Make(b.size, data, kCheapPrepend, w)
        IN  /\ IsBuffer(m) /\ m.size = b.size
            /\ m.readerIndex_ = kCheapPrepend /\ m.writerIndex_ = w
    BY <1>5, <1>11, MakeIs
  <1>10. w = kCheapPrepend + b.writerIndex_ - b.readerIndex_
    BY <1>1, FieldsOf DEF w, n
  <1> QED BY <1>6, <1>8, <1>9, <1>10

(* resize keeps the content (makeSpace). *)
LEMMA ResizedKeeps ==
  ASSUME NEW b, IsBuffer(b), NEW size \in Nat, b.size <= size
  PROVE  /\ IsBuffer(Resized(b, size))
         /\ Content(Resized(b, size)) = Content(b)
         /\ Resized(b, size).size = size
         /\ Resized(b, size).readerIndex_ = b.readerIndex_
         /\ Resized(b, size).writerIndex_ = b.writerIndex_
PROOF
  <1> DEFINE data == [i \in 0 .. size - 1 |-> IF i < b.size THEN b.data[i] ELSE 0]
             r == b.readerIndex_
             w == b.writerIndex_
  <1>1. r \in 0 .. w /\ w \in 0 .. size /\ w <= b.size /\ kCheapPrepend <= size
    BY BufferAssumption, FieldsOf
  <1>2. data \in [0 .. size - 1 -> Byte]
    BY BufferAssumption, FieldsOf
  <1>3. \A i \in 1 .. w - r : data[r + i - 1] = b.data[r + i - 1]
    BY <1>1 DEF IsBuffer
  <1>4. Content(b) \in Seq(Byte) /\ Len(Content(b)) = w - r
        /\ \A i \in 1 .. w - r : b.data[r + i - 1] = Content(b)[i]
    BY ContentIs
  <1>5. Resized(b, size) = Make(size, data, r, w)
    BY DEF Resized
  <1> HIDE DEF data, r, w
  <1>6. \A i \in 1 .. w - r : data[r + i - 1] = Content(b)[i]
    BY <1>3, <1>4
  <1>7. Content(Resized(b, size)) = Content(b)
    <2>1. Content(Make(size, data, r, w)) = Content(b)
      BY <1>1, <1>2, <1>4, <1>6, ContentEq
    <2> QED BY <1>5, <2>1
  <1> QED BY <1>1, <1>2, <1>5, <1>7, MakeIs DEF r, w

(* ensureWritableBytes makes the space and keeps the content, and the      *)
(* data it moves to the front moves forward, as makeSpace asserts.         *)
LEMMA EnsureMakesSpace ==
  ASSUME NEW b, IsBuffer(b), NEW len \in Nat
  PROVE  LET c == EnsureWritableBytes(b, len)
         IN  /\ IsBuffer(c)
             /\ Content(c) = Content(b)
             /\ c.size - c.writerIndex_ >= len
PROOF
  <1>1. /\ kCheapPrepend \in Nat /\ b.size \in Nat /\ b.readerIndex_ \in Nat
        /\ b.writerIndex_ \in Nat /\ b.writerIndex_ <= b.size
        /\ b.readerIndex_ <= b.writerIndex_
    BY BufferAssumption, FieldsOf
  <1>2. CASE ~(b.size - b.writerIndex_ < len)
    BY <1>1, <1>2 DEF EnsureWritableBytes, WritableBytes
  <1>3. CASE /\ b.size - b.writerIndex_ < len
             /\ b.size - b.writerIndex_ + b.readerIndex_ < len + kCheapPrepend
    <2>1. EnsureWritableBytes(b, len) = Resized(b, b.writerIndex_ + len)
      BY <1>3 DEF EnsureWritableBytes, WritableBytes, PrependableBytes, MakeSpace, MustGrow
    <2> DEFINE size == b.writerIndex_ + len
    <2>2. size \in Nat /\ b.size <= size /\ size - b.writerIndex_ >= len
      BY <1>1, <1>3
    <2> HIDE DEF size
    <2>3. /\ IsBuffer(Resized(b, size)) /\ Content(Resized(b, size)) = Content(b)
          /\ Resized(b, size).size = size
          /\ Resized(b, size).writerIndex_ = b.writerIndex_
      BY <2>2, ResizedKeeps
    <2> QED BY <2>1, <2>2, <2>3 DEF size
  <1>4. CASE /\ b.size - b.writerIndex_ < len
             /\ ~(b.size - b.writerIndex_ + b.readerIndex_ < len + kCheapPrepend)
    <2>1. EnsureWritableBytes(b, len) = MovedToFront(b)
      BY <1>4 DEF EnsureWritableBytes, WritableBytes, PrependableBytes, MakeSpace, MustGrow
    <2>2. kCheapPrepend <= b.readerIndex_
      BY <1>1, <1>4
    <2>3. b.size - (kCheapPrepend + b.writerIndex_ - b.readerIndex_) >= len
      BY <1>1, <1>4
    <2> QED BY <2>1, <2>2, <2>3, MovedToFrontKeeps
  <1> QED BY <1>2, <1>3, <1>4

(* Writing into the writable space appends (append, readFd). *)
LEMMA WrittenAppends ==
  ASSUME NEW b, IsBuffer(b), NEW s \in Seq(Byte), Len(s) <= b.size - b.writerIndex_
  PROVE  /\ IsBuffer(Written(b, s))
         /\ Content(Written(b, s)) = Content(b) \o s
PROOF
  <1> DEFINE r == b.readerIndex_
             w == b.writerIndex_
             n == Len(s)
             data == Copied(b.data, w, s)
             c == Content(b)
  <1>1. r \in 0 .. w /\ w \in 0 .. b.size /\ b.size \in Nat /\ n \in Nat
        /\ w + n <= b.size /\ w \in Nat /\ b.data \in [0 .. b.size - 1 -> Byte]
        /\ kCheapPrepend <= b.size
    BY LenProperties, FieldsOf
  <1>2. c \in Seq(Byte) /\ Len(c) = w - r
        /\ \A i \in 1 .. w - r : c[i] = b.data[r + i - 1]
    BY ContentIs
  <1>3. Written(b, s) = Make(b.size, data, r, w + n)
    BY DEF Written
  <1> HIDE DEF r, w, c
  <1>4. data \in [0 .. b.size - 1 -> Byte]
        /\ (\A i \in 1 .. n : data[w + i - 1] = s[i])
        /\ \A j \in 0 .. b.size - 1 : j < w => data[j] = b.data[j]
    <2>1. w + Len(s) <= b.size
      BY <1>1
    <2>2. data \in [0 .. b.size - 1 -> Byte]
      BY <1>1, <2>1, CopiedIs
    <2>3. \A i \in 1 .. Len(s) : Copied(b.data, w, s)[w + i - 1] = s[i]
      BY <1>1, <2>1, CopiedIs, SMTT(40)
    <2>4. \A j \in 0 .. b.size - 1 :
            j < w \/ j >= w + Len(s) => Copied(b.data, w, s)[j] = b.data[j]
      BY <1>1, <2>1, CopiedIs, ZenonT(60)
    <2> QED BY <2>2, <2>3, <2>4
  <1> HIDE DEF n, data
  <1>5. c \o s \in Seq(Byte) /\ Len(c \o s) = (w + n) - r
        /\ \A i \in 1 .. (w + n) - r :
             (c \o s)[i] = IF i <= w - r THEN c[i] ELSE s[i - (w - r)]
    <2>1. c \o s \in Seq(Byte) /\ Len(c \o s) = Len(c) + Len(s)
          /\ \A i \in 1 .. Len(c) + Len(s) :
               (c \o s)[i] = IF i <= Len(c) THEN c[i] ELSE s[i - Len(c)]
      BY <1>2, ConcatProperties
    <2>2. Len(c) + Len(s) = (w + n) - r /\ Len(c) = w - r
      BY <1>1, <1>2 DEF n
    <2> QED BY <2>1, <2>2
  <1>6. ASSUME NEW i \in 1 .. (w + n) - r
        PROVE  data[r + i - 1] = (c \o s)[i]
    <2>1. CASE i <= w - r
      <3>1. r + i - 1 \in 0 .. b.size - 1 /\ r + i - 1 < w /\ i \in 1 .. w - r
        BY <1>1, <2>1
      <3> QED BY <1>2, <1>4, <1>5, <2>1, <3>1
    <2>2. CASE ~(i <= w - r)
      <3> DEFINE k == i - (w - r)
      <3>1. k \in 1 .. n /\ r + i - 1 = w + k - 1
        BY <1>1, <2>2
      <3>2. (c \o s)[i] = s[k]
        BY <1>5, <2>2
      <3> QED BY <1>4, <3>1, <3>2
    <2> QED BY <2>1, <2>2
  <1> DEFINE v == w + n
  <1>7. v \in 0 .. b.size /\ r \in 0 .. v
    BY <1>1
  <1>8. Len(c \o s) = v - r /\ \A i \in 1 .. v - r : data[r + i - 1] = (c \o s)[i]
    BY <1>5, <1>6
  <1>9. Written(b, s) = Make(b.size, data, r, v)
    BY <1>3
  <1> HIDE DEF v
  <1>10. Content(Make(b.size, data, r, v)) = c \o s
    BY <1>1, <1>4, <1>5, <1>7, <1>8, ContentEq
  <1>11. IsBuffer(Make(b.size, data, r, v))
    BY <1>1, <1>4, <1>7, MakeIs
  <1> QED BY <1>9, <1>10, <1>11 DEF c

(* append, wherever it finds or makes the space. *)
LEMMA AppendAppends ==
  ASSUME NEW b, IsBuffer(b), NEW s \in Seq(Byte)
  PROVE  /\ IsBuffer(Append_(b, s))
         /\ Content(Append_(b, s)) = Content(b) \o s
PROOF
  <1> DEFINE c == EnsureWritableBytes(b, Len(s))
  <1>1. Len(s) \in Nat
    BY LenProperties
  <1>2. /\ IsBuffer(c) /\ Content(c) = Content(b)
        /\ c.size - c.writerIndex_ >= Len(s)
    BY <1>1, EnsureMakesSpace
  <1>3. Len(s) <= c.size - c.writerIndex_
    BY <1>1, <1>2, FieldsOf
  <1> HIDE DEF c
  <1>4. IsBuffer(Written(c, s)) /\ Content(Written(c, s)) = Content(c) \o s
    BY <1>2, <1>3, WrittenAppends
  <1> QED BY <1>2, <1>4 DEF c, Append_

(* A fresh buffer is empty. *)
LEMMA EmptyIs ==
  ASSUME NEW n \in Nat
  PROVE  IsBuffer(Empty(n)) /\ Content(Empty(n)) = <<>>
PROOF
  <1> DEFINE total == kCheapPrepend + n
             data == Zeros(total)
  <1>6. kCheapPrepend \in Nat /\ 0 \in Byte
    BY BufferAssumption
  <1>7. total \in Nat /\ kCheapPrepend <= total
    BY <1>6
  <1>8. data \in [0 .. total - 1 -> Byte]
    BY <1>6 DEF Zeros
  <1>1. kCheapPrepend \in 0 .. total /\ kCheapPrepend \in 0 .. kCheapPrepend
    BY <1>6, <1>7
  <1>2. Empty(n) = Make(total, data, kCheapPrepend, kCheapPrepend)
    BY DEF Empty
  <1> HIDE DEF total, data
  <1>3. <<>> \in Seq(Byte) /\ Len(<<>>) = kCheapPrepend - kCheapPrepend
    BY <1>6, EmptySeq
  <1>4. \A i \in 1 .. kCheapPrepend - kCheapPrepend : data[kCheapPrepend + i - 1] = <<>>[i]
    BY <1>6
  <1>5. Content(Make(total, data, kCheapPrepend, kCheapPrepend)) = <<>>
    BY <1>1, <1>3, <1>4, <1>7, <1>8, ContentEq
  <1> QED BY <1>1, <1>2, <1>5, <1>7, <1>8, MakeIs

(* shrink keeps the content. *)
LEMMA ShrinkKeeps ==
  ASSUME NEW b, IsBuffer(b), NEW n \in Nat
  PROVE  IsBuffer(Shrink(b, n)) /\ Content(Shrink(b, n)) = Content(b)
PROOF
  <1> DEFINE e == Empty(kInitialSize)
             len == ReadableBytes(b) + n
             c == EnsureWritableBytes(e, len)
  <1>1. IsBuffer(e) /\ Content(e) = <<>>
    BY EmptyIs, BufferAssumption
  <1>2. len \in Nat
    BY FieldsOf DEF ReadableBytes
  <1> HIDE DEF e, len
  <1>3. IsBuffer(c) /\ Content(c) = <<>>
    BY <1>1, <1>2, EnsureMakesSpace
  <1>4. Content(b) \in Seq(Byte)
    BY ContentIs
  <1> HIDE DEF c
  <1>5. /\ IsBuffer(Append_(c, Content(b)))
        /\ Content(Append_(c, Content(b))) = <<>> \o Content(b)
    BY <1>3, <1>4, AppendAppends
  <1>6. <<>> \o Content(b) = Content(b)
    BY <1>4, ConcatEmptySeq
  <1> QED BY <1>5, <1>6 DEF Shrink, c, e, len

(* readFd appends what readv delivered, through extrabuf or not. *)
LEMMA ReadFdAppends ==
  ASSUME NEW b, IsBuffer(b), NEW s \in Seq(Byte)
  PROVE  IsBuffer(ReadFd(b, s)) /\ Content(ReadFd(b, s)) = Content(b) \o s
PROOF
  <1> DEFINE w == WritableBytes(b)
  <1>1. w \in Nat /\ w = b.size - b.writerIndex_ /\ Len(s) \in Nat
    BY LenProperties, FieldsOf DEF WritableBytes
  <1>2. CASE Len(s) <= w
    BY <1>1, <1>2, WrittenAppends DEF ReadFd
  <1>3. CASE ~(Len(s) <= w)
    <2> DEFINE s1 == SubSeq(s, 1, w)
               s2 == SubSeq(s, w + 1, Len(s))
               c  == Written(b, s1)
    <2>1. ReadFd(b, s) = Append_(c, s2)
      BY <1>3 DEF ReadFd
    <2> HIDE DEF w
    <2>2. s1 \in Seq(Byte) /\ Len(s1) <= w
      <3>1. \A i \in 1 .. w : s[i] \in Byte
        BY <1>1, <1>3, ElementOfSeq
      <3>2. s1 \in Seq(Byte) /\ Len(s1) = IF 1 <= w THEN w - 1 + 1 ELSE 0
        BY <1>1, <3>1, SubSeqProperties
      <3> QED BY <1>1, <3>2
    <2>3. s2 \in Seq(Byte)
      <3>1. \A i \in w + 1 .. Len(s) : s[i] \in Byte
        BY <1>1, ElementOfSeq
      <3> QED BY <1>1, <3>1, SubSeqProperties
    <2>4. s1 \o s2 = s
      <3>1. 1 \in 1 .. Len(s) + 1 /\ w \in 1 - 1 .. Len(s) /\ Len(s) \in w .. Len(s)
        BY <1>1, <1>3
      <3>2. s1 \o s2 = SubSeq(s, 1, Len(s))
        BY <3>1, ConcatAdjacentSubSeq
      <3>3. SubSeq(s, 1, Len(s)) = s
        BY SubSeqFull
      <3> QED BY <3>2, <3>3
    <2> HIDE DEF s1, s2
    <2>5. IsBuffer(c) /\ Content(c) = Content(b) \o s1
      BY <1>1, <2>2, WrittenAppends
    <2> HIDE DEF c
    <2>6. /\ IsBuffer(Append_(c, s2))
          /\ Content(Append_(c, s2)) = (Content(b) \o s1) \o s2
      BY <2>3, <2>5, AppendAppends
    <2>7. (Content(b) \o s1) \o s2 = Content(b) \o (s1 \o s2)
      BY <2>2, <2>3, ContentIs, ConcatAssociative, SMTT(40)
    <2> QED BY <2>1, <2>4, <2>6, <2>7
  <1> QED BY <1>2, <1>3

(* A piece of the content, left when bytes are taken from its ends. *)
LEMMA ContentPart ==
  ASSUME NEW b, IsBuffer(b),
         NEW m \in Nat, NEW k \in Nat, m + k <= b.writerIndex_ - b.readerIndex_
  PROVE  LET c == Make(b.size, b.data, b.readerIndex_ + m, b.writerIndex_ - k)
         IN  /\ IsBuffer(c)
             /\ Content(c) = SubSeq(Content(b), m + 1, Len(Content(b)) - k)
PROOF
  <1> DEFINE r == b.readerIndex_ + m
             w == b.writerIndex_ - k
             s == Content(b)
             lo == m + 1
             hi == Len(s) - k
             t == SubSeq(s, lo, hi)
  <1>1. s \in Seq(Byte) /\ Len(s) = b.writerIndex_ - b.readerIndex_ /\ Len(s) \in Nat
        /\ \A i \in 1 .. Len(s) : s[i] = b.data[b.readerIndex_ + i - 1]
    <2>1. s \in Seq(Byte) /\ Len(s) = b.writerIndex_ - b.readerIndex_
          /\ \A i \in 1 .. b.writerIndex_ - b.readerIndex_ : s[i] = b.data[b.readerIndex_ + i - 1]
      BY ContentIs
    <2> QED BY <2>1, LenProperties
  <1>2. /\ b.size \in Nat /\ b.data \in [0 .. b.size - 1 -> Byte]
        /\ w \in 0 .. b.size /\ r \in 0 .. w
        /\ b.readerIndex_ \in Nat /\ b.writerIndex_ \in Nat
        /\ kCheapPrepend <= b.size
        /\ (Len(s) - k) - (m + 1) + 1 = w - r
    <2> HIDE DEF s, t, lo, hi
    <2>1. /\ b.size \in Nat /\ kCheapPrepend <= b.size
          /\ b.data \in [0 .. b.size - 1 -> Byte]
      BY FieldsOf
    <2>2. /\ b.readerIndex_ \in Nat /\ b.writerIndex_ \in Nat
          /\ b.readerIndex_ <= b.writerIndex_
      BY FieldsOf
    <2>3. b.size \in Nat /\ b.writerIndex_ <= b.size
      BY FieldsOf
    <2>4. w \in Nat /\ r \in Nat /\ r <= w
      BY <2>2
    <2>5. w <= b.size
      BY <2>2, <2>3
    <2>6. (Len(s) - k) - (m + 1) + 1 = w - r
      <3>1. Len(s) = b.writerIndex_ - b.readerIndex_
        BY <1>1
      <3>2. Len(s) - k \in Int
        BY <2>2, <3>1
      <3>3. (Len(s) - k) - (m + 1) + 1 = (Len(s) - k) - m
        BY <3>2
      <3>4. Len(s) - k = w - b.readerIndex_
        BY <2>2, <3>1
      <3>5. (w - b.readerIndex_) - m = w - r
        BY <2>2, <2>4
      <3> QED BY <3>3, <3>4, <3>5, Zenon
    <2>7. w \in 0 .. b.size /\ r \in 0 .. w
      <3> HIDE DEF w, r
      <3> QED BY <2>3, <2>4, <2>5
    <2> QED BY <2>1, <2>2, <2>6, <2>7, Zenon
  <1> HIDE DEF s
  <1>3. t \in Seq(Byte) /\ Len(t) = w - r
        /\ \A i \in 1 .. w - r : t[i] = s[m + i]
    <2>6. /\ Len(s) = b.writerIndex_ - b.readerIndex_ /\ Len(s) \in Nat
          /\ b.readerIndex_ \in Nat /\ b.writerIndex_ \in Nat
      BY <1>1, <1>2
    <2>7. lo \in Int /\ lo - 1 = m /\ lo >= 1
      OBVIOUS
    <2>8. hi \in Int /\ hi <= Len(s)
      BY <2>6
    <2>9. hi - lo + 1 = w - r
      BY <1>2, Zenon
    <2>1. /\ lo \in Int /\ hi \in Int /\ hi - lo + 1 = w - r
          /\ lo - 1 = m /\ lo >= 1 /\ hi <= Len(s)
      BY <2>7, <2>8, <2>9, Zenon
    <2> HIDE DEF lo, hi
    <2>2. \A i \in lo .. hi : s[i] \in Byte
      BY <1>1, <2>1, ElementOfSeq
    <2>3. /\ t \in Seq(Byte)
          /\ Len(t) = IF lo <= hi THEN hi - lo + 1 ELSE 0
          /\ \A i \in 1 .. hi - lo + 1 : t[i] = s[lo + i - 1]
      BY <2>1, <2>2, SubSeqProperties
    <2>4. Len(t) = w - r
      BY <1>2, <2>1, <2>3, SMTT(40)
    <2>5. \A i \in 1 .. w - r : lo + i - 1 = m + i
      BY <2>1
    <2> QED BY <2>1, <2>3, <2>4, <2>5
  <1>4. \A i \in 1 .. w - r : b.data[r + i - 1] = t[i]
    <2> SUFFICES ASSUME NEW i \in 1 .. w - r PROVE b.data[r + i - 1] = t[i]
      OBVIOUS
    <2>6. /\ Len(s) = b.writerIndex_ - b.readerIndex_
          /\ b.readerIndex_ \in Nat /\ b.writerIndex_ \in Nat
      BY <1>1, <1>2
    <2>1. m + i \in 1 .. Len(s)
      BY <2>6, SMTT(20)
    <2>3. b.readerIndex_ + (m + i) - 1 = r + i - 1
      BY <2>6
    <2>2. s[m + i] = b.data[b.readerIndex_ + (m + i) - 1]
      BY <1>1, <2>1
    <2> QED BY <1>3, <2>2, <2>3
  <1> HIDE DEF r, w, t
  <1>5. Content(Make(b.size, b.data, r, w)) = t
    BY <1>2, <1>3, <1>4, ContentEq, ZenonT(60)
  <1>6. IsBuffer(Make(b.size, b.data, r, w))
    BY <1>2, MakeIs
  <1> QED BY <1>5, <1>6 DEF r, w, s, t, lo, hi

(* retrieve takes from the front, everything if asked for more. *)
LEMMA RetrieveTakes ==
  ASSUME NEW b, IsBuffer(b), NEW n \in Nat
  PROVE  /\ IsBuffer(Retrieve(b, n))
         /\ Content(Retrieve(b, n)) = SubSeq(Content(b), n + 1, Len(Content(b)))
PROOF
  <1>1. /\ Content(b) \in Seq(Byte) /\ b.size \in Nat
        /\ Len(Content(b)) = b.writerIndex_ - b.readerIndex_
        /\ b.data \in [0 .. b.size - 1 -> Byte]
        /\ b.writerIndex_ \in Nat /\ b.readerIndex_ \in Nat
        /\ b.readerIndex_ <= b.writerIndex_ /\ b.writerIndex_ <= b.size
    BY ContentIs, FieldsOf
  <1>2. CASE n < b.writerIndex_ - b.readerIndex_
    <2>1. Retrieve(b, n) = Make(b.size, b.data, b.readerIndex_ + n, b.writerIndex_ - 0)
      BY <1>1, <1>2 DEF Retrieve, ReadableBytes
    <2>2. n + 0 <= b.writerIndex_ - b.readerIndex_ /\ 0 \in Nat
      BY <1>1, <1>2
    <2>3. Len(Content(b)) - 0 = Len(Content(b))
      BY <1>1
    <2>4. /\ IsBuffer(Make(b.size, b.data, b.readerIndex_ + n, b.writerIndex_ - 0))
          /\ Content(Make(b.size, b.data, b.readerIndex_ + n, b.writerIndex_ - 0))
               = SubSeq(Content(b), n + 1, Len(Content(b)) - 0)
      BY <2>2, ContentPart
    <2> QED BY <2>1, <2>3, <2>4
  <1>3. CASE ~(n < b.writerIndex_ - b.readerIndex_)
    <2>1. Retrieve(b, n) = Make(b.size, b.data, kCheapPrepend, kCheapPrepend)
      BY <1>3 DEF Retrieve, ReadableBytes, RetrieveAll
    <2>2. SubSeq(Content(b), n + 1, Len(Content(b))) = <<>>
      BY <1>1, <1>3, SubSeqEmpty
    <2>3. IsBuffer(Retrieve(b, n)) /\ Content(Retrieve(b, n)) = <<>>
      <3>1. /\ kCheapPrepend \in 0 .. b.size /\ kCheapPrepend \in 0 .. kCheapPrepend
            /\ kCheapPrepend <= b.size
        BY BufferAssumption, FieldsOf
      <3>2. <<>> \in Seq(Byte) /\ Len(<<>>) = kCheapPrepend - kCheapPrepend
        BY <3>1, EmptySeq
      <3>3. \A i \in 1 .. kCheapPrepend - kCheapPrepend : b.data[kCheapPrepend + i - 1] = <<>>[i]
        BY <3>1
      <3> DEFINE k == kCheapPrepend
                 e == <<>>
      <3>5. k \in 0 .. b.size /\ k \in 0 .. k /\ e \in Seq(Byte) /\ Len(e) = k - k
            /\ \A i \in 1 .. k - k : b.data[k + i - 1] = e[i]
        BY <3>1, <3>2, <3>3
      <3> HIDE DEF e
      <3>4. Content(Make(b.size, b.data, kCheapPrepend, kCheapPrepend)) = e
        BY <1>1, <3>1, <3>5, ContentEq, ZenonT(60)
      <3>6. IsBuffer(Make(b.size, b.data, kCheapPrepend, kCheapPrepend))
        BY <1>1, <3>1, MakeIs
      <3> QED BY <2>1, <3>4, <3>6 DEF e
    <2> QED BY <2>2, <2>3
  <1> QED BY <1>2, <1>3

(* unwrite takes the last bytes back. *)
LEMMA UnwriteTakesBack ==
  ASSUME NEW b, IsBuffer(b), NEW n \in Nat, n <= ReadableBytes(b)
  PROVE  /\ IsBuffer(Unwrite(b, n))
         /\ n <= Len(Content(b))
         /\ Content(Unwrite(b, n)) = SubSeq(Content(b), 1, Len(Content(b)) - n)
PROOF
  <1>1. 0 \in Nat /\ 0 + n <= b.writerIndex_ - b.readerIndex_
        /\ b.readerIndex_ + 0 = b.readerIndex_
    BY FieldsOf DEF ReadableBytes
  <1>2. LET c == Make(b.size, b.data, b.readerIndex_ + 0, b.writerIndex_ - n)
        IN  /\ IsBuffer(c)
            /\ Content(c) = SubSeq(Content(b), 0 + 1, Len(Content(b)) - n)
    BY <1>1, ContentPart
  <1>3. Len(Content(b)) = b.writerIndex_ - b.readerIndex_
    BY ContentIs
  <1> QED BY <1>1, <1>2, <1>3 DEF Unwrite, ReadableBytes

(* prepend pushes in front. *)
LEMMA PrependPushes ==
  ASSUME NEW b, IsBuffer(b), NEW s \in Seq(Byte), Len(s) <= PrependableBytes(b)
  PROVE  /\ IsBuffer(Prepend(b, s))
         /\ Content(Prepend(b, s)) = s \o Content(b)
PROOF
  <1> DEFINE n == Len(s)
             r == b.readerIndex_ - n
             w == b.writerIndex_
             c == Content(b)
             data == Copied(b.data, r, s)
  <1>1. /\ n \in Nat /\ r \in Nat /\ w \in Nat /\ b.size \in Nat
        /\ r + n = b.readerIndex_ /\ r + n <= w /\ w <= b.size
        /\ b.data \in [0 .. b.size - 1 -> Byte] /\ kCheapPrepend <= b.size
    BY LenProperties, FieldsOf DEF PrependableBytes
  <1>2. c \in Seq(Byte) /\ Len(c) = w - (r + n)
        /\ \A i \in 1 .. w - (r + n) : c[i] = b.data[(r + n) + i - 1]
    BY <1>1, ContentIs
  <1>3. Prepend(b, s) = Make(b.size, data, r, w)
    BY DEF Prepend
  <1> HIDE DEF r, w, c
  <1>4. r + Len(s) <= b.size
    BY <1>1
  <1>copied. /\ Copied(b.data, r, s) \in [0 .. b.size - 1 -> Byte]
             /\ \A i \in 1 .. Len(s) : Copied(b.data, r, s)[r + i - 1] = s[i]
             /\ \A j \in 0 .. b.size - 1 :
                  j < r \/ j >= r + Len(s) => Copied(b.data, r, s)[j] = b.data[j]
    <2>1. /\ b.size \in Nat /\ b.data \in [0 .. b.size - 1 -> Byte] /\ r \in Nat
          /\ s \in Seq(Byte) /\ r + Len(s) <= b.size
      BY <1>1, <1>4
    <2> QED BY <2>1, CopiedIs, ZenonT(60)
  <1>5. data \in [0 .. b.size - 1 -> Byte]
    BY <1>copied
  <1>6. \A i \in 1 .. n : data[r + i - 1] = s[i]
    BY <1>copied
  <1>7. \A j \in 0 .. b.size - 1 : j >= r + n => data[j] = b.data[j]
    BY <1>copied
  <1>8. s \o c \in Seq(Byte) /\ Len(s \o c) = n + Len(c)
        /\ \A i \in 1 .. n + Len(c) : (s \o c)[i] = IF i <= n THEN s[i] ELSE c[i - n]
    <2>1. s \o c \in Seq(Byte) /\ Len(s \o c) = Len(s) + Len(c)
          /\ \A i \in 1 .. Len(s) + Len(c) :
               (s \o c)[i] = IF i <= Len(s) THEN s[i] ELSE c[i - Len(s)]
      <3>1. c \in Seq(Byte)
        BY <1>2
      <3> QED BY <3>1, ConcatProperties
    <2> QED BY <2>1
  <1> HIDE DEF n, data
  <1>9. Len(s \o c) = w - r
    BY <1>1, <1>2, <1>8
  <1>10. ASSUME NEW i \in 1 .. w - r
         PROVE  data[r + i - 1] = (s \o c)[i]
    <2>1. n + Len(c) = w - r
      BY <1>1, <1>2
    <2>2. CASE i <= n
      <3>1. i \in 1 .. n
        BY <1>1, <2>2
      <3> QED BY <1>6, <1>8, <2>1, <2>2, <3>1
    <2>3. CASE ~(i <= n)
      <3> DEFINE k == i - n
      <3>1. k \in 1 .. w - (r + n) /\ (r + n) + k - 1 = r + i - 1
        BY <1>1, <2>3
      <3>2. r + i - 1 \in 0 .. b.size - 1 /\ r + i - 1 >= r + n
        BY <1>1, <2>3
      <3>3. (s \o c)[i] = c[k]
        BY <1>8, <2>1, <2>3
      <3>4. c[k] = b.data[(r + n) + k - 1]
        BY <1>2, <3>1
      <3> QED BY <1>7, <3>1, <3>2, <3>3, <3>4
    <2> QED BY <2>2, <2>3
  <1>11. w \in 0 .. b.size /\ r \in 0 .. w
    BY <1>1
  <1>12. Content(Make(b.size, data, r, w)) = s \o c
    BY <1>1, <1>5, <1>8, <1>9, <1>10, <1>11, ContentEq
  <1>13. IsBuffer(Make(b.size, data, r, w))
    BY <1>1, <1>5, <1>11, MakeIs
  <1> QED BY <1>3, <1>12, <1>13 DEF c

-----------------------------------------------------------------------------
(* The theorems. *)

(* What a caller passes is a sequence of bytes. *)
LEMMA PiecesAreBytes == Pieces \subseteq Seq(Byte)
PROOF
  <1> SUFFICES ASSUME NEW n \in 0 .. MaxLen, NEW s \in [1 .. n -> Byte]
               PROVE  s \in Seq(Byte)
    BY DEF Pieces
  <1>1. n \in Nat
    BY BufferAssumption
  <1> QED BY <1>1, SeqDef

(* Every call of Buffer leaves the indexes in order and the bytes a         *)
(* sequence of bytes.                                                       *)
LEMMA BufferNextType == BufferTypeOK /\ [BufferNext]_bufferVars => BufferTypeOK'
PROOF
  <1> SUFFICES ASSUME BufferTypeOK, [BufferNext]_bufferVars PROVE IsBuffer(buf')
    BY DEF BufferTypeOK
  <1>1. IsBuffer(buf)
    BY DEF BufferTypeOK
  <1>2. ASSUME NEW s \in Pieces, AppendStep(s) \/ PrependStep(s) \/ ReadFdStep(s)
        PROVE  IsBuffer(buf')
    <2>1. s \in Seq(Byte)
      BY PiecesAreBytes
    <2> QED BY <1>1, <1>2, <2>1, AppendAppends, PrependPushes, ReadFdAppends
            DEF AppendStep, PrependStep, ReadFdStep
  <1>3. ASSUME NEW n \in 0 .. MaxLen, RetrieveStep(n) \/ UnwriteStep(n) \/ ShrinkStep(n)
        PROVE  IsBuffer(buf')
    <2>1. n \in Nat
      BY BufferAssumption
    <2> QED BY <1>1, <1>3, <2>1, RetrieveTakes, UnwriteTakesBack, ShrinkKeeps
            DEF RetrieveStep, UnwriteStep, ShrinkStep
  <1>4. CASE UNCHANGED bufferVars
    BY <1>1, <1>4 DEF bufferVars
  <1> QED BY <1>2, <1>3, <1>4 DEF BufferNext

(* The indices stay ordered and inside the vector, and every byte of it is *)
(* one, after any sequence of calls (makeSpace, append, readFd, prepend).  *)
THEOREM BufferTypeCorrect == BufferSpec => []BufferTypeOK
PROOF
  <1>1. BufferInit => BufferTypeOK
    BY EmptyIs, BufferAssumption DEF BufferInit, BufferTypeOK
  <1> QED BY <1>1, BufferNextType, PTL DEF BufferSpec

(* Every call does to the content what a queue of bytes promises, for      *)
(* every size of buffer and of extrabuf (append, readFd, retrieve, unwrite,*)
(* prepend, shrink, makeSpace).                                            *)
THEOREM OperationsAreAQueue == BufferSpec => ContentIsQueue
PROOF
  <1> DEFINE Contract ==
        /\ \A s \in Pieces :
             /\ AppendStep(s) \/ ReadFdStep(s) => Queue!Put(s)
             /\ PrependStep(s) => Queue!PutFront(s)
        /\ \A n \in 0 .. MaxLen :
             /\ RetrieveStep(n) => Queue!Take(n)
             /\ UnwriteStep(n) => Queue!TakeBack(n)
             /\ ShrinkStep(n) => UNCHANGED Content(buf)
  <1>1. BufferTypeOK => Contract
    <2> SUFFICES ASSUME IsBuffer(buf) PROVE Contract
      BY DEF BufferTypeOK
    <2>1. ASSUME NEW s \in Pieces
          PROVE  /\ AppendStep(s) \/ ReadFdStep(s) => Queue!Put(s)
                 /\ PrependStep(s) => Queue!PutFront(s)
      <3>1. s \in Seq(Byte)
        BY PiecesAreBytes
      <3> QED BY <3>1, AppendAppends, ReadFdAppends, PrependPushes, ZenonT(60)
              DEF AppendStep, ReadFdStep, PrependStep, Queue!Put, Queue!PutFront
    <2>2. ASSUME NEW n \in 0 .. MaxLen
          PROVE  /\ RetrieveStep(n) => Queue!Take(n)
                 /\ UnwriteStep(n) => Queue!TakeBack(n)
                 /\ ShrinkStep(n) => UNCHANGED Content(buf)
      <3>1. n \in Nat
        BY BufferAssumption
      <3> QED BY <3>1, RetrieveTakes, UnwriteTakesBack, ShrinkKeeps
              DEF RetrieveStep, UnwriteStep, ShrinkStep, Queue!Take, Queue!TakeBack
    <2> QED BY <2>1, <2>2
  <1>2. BufferTypeOK /\ [BufferNext]_bufferVars => [Contract]_bufferVars
    BY <1>1
  <1>3. BufferSpec => [][Contract]_bufferVars
    BY <1>2, BufferTypeCorrect, PTL DEF BufferSpec
  <1> QED BY <1>3 DEF ContentIsQueue

(* The buffer implements the queue of bytes. *)
THEOREM BufferImplementsQueue == BufferSpec => Queue!Spec
PROOF
  <1>1. BufferInit => Queue!Init
    BY EmptyIs, BufferAssumption DEF BufferInit, Queue!Init
  <1>2. BufferTypeOK /\ [BufferNext]_bufferVars => [Queue!Next]_(Content(buf))
    <2> SUFFICES ASSUME IsBuffer(buf), [BufferNext]_bufferVars
                 PROVE  Queue!Next \/ Content(buf)' = Content(buf)
      BY DEF BufferTypeOK
    <2>1. ASSUME NEW s \in Pieces, AppendStep(s) \/ PrependStep(s) \/ ReadFdStep(s)
          PROVE  Queue!Next
      <3>1. s \in Seq(Byte)
        BY PiecesAreBytes
      <3>2. Queue!Put(s) \/ Queue!PutFront(s)
        BY <2>1, <3>1, AppendAppends, ReadFdAppends, PrependPushes, ZenonT(60)
           DEF AppendStep, ReadFdStep, PrependStep, Queue!Put, Queue!PutFront
      <3> QED BY <3>1, <3>2 DEF Queue!Next
    <2>2. ASSUME NEW n \in 0 .. MaxLen, RetrieveStep(n) \/ UnwriteStep(n)
          PROVE  Queue!Next
      <3>1. n \in Nat
        BY BufferAssumption
      <3>2. Queue!Take(n) \/ Queue!TakeBack(n)
        BY <2>2, <3>1, RetrieveTakes, UnwriteTakesBack
           DEF RetrieveStep, UnwriteStep, Queue!Take, Queue!TakeBack
      <3> QED BY <3>1, <3>2 DEF Queue!Next
    <2>3. ASSUME NEW n \in 0 .. MaxLen, ShrinkStep(n)
          PROVE  Content(buf)' = Content(buf)
      <3>1. n \in Nat
        BY BufferAssumption
      <3> QED BY <2>3, <3>1, ShrinkKeeps DEF ShrinkStep
    <2>4. CASE UNCHANGED bufferVars
      BY <2>4 DEF bufferVars, Content, ReadableBytes
    <2> QED BY <2>1, <2>2, <2>3, <2>4 DEF BufferNext
  <1> QED BY <1>1, <1>2, BufferTypeCorrect, PTL DEF BufferSpec, Queue!Spec

-----------------------------------------------------------------------------
(* TcpConnection.                                                          *)

(* What reached the wire is a prefix of what was sent even after a loss,   *)
(* when outputBuffer_ no longer accounts for the rest.                     *)
WireIsPrefix == Stream!IsPrefix(wire, sent)

(* The inductive invariant: the four invariants lean on one another.  That *)
(* the bytes add up needs writing to mean output; that needs "lost" to     *)
(* leave the buffer empty; and TypeOK makes the sequences sequences.       *)
OutInv ==
  /\ NothingLostOrReordered
  /\ WritingIffOutput
  /\ WriteCompleteQueued
  /\ WireIsPrefix

IInv == TypeOK /\ OutInv

-----------------------------------------------------------------------------
(* Sequences.                                                              *)

(* ConcatAssociative for bytes.                                             *)
LEMMA BytesAssociate ==
  ASSUME NEW s \in Seq(Bytes), NEW t \in Seq(Bytes), NEW u \in Seq(Bytes)
  PROVE  (s \o t) \o u = s \o (t \o u)
BY ConcatAssociative

(* Bytes put behind others leave those as a prefix.                         *)
LEMMA ConcatPrefix ==
  ASSUME NEW s \in Seq(Bytes), NEW t \in Seq(Bytes)
  PROVE  Stream!IsPrefix(s, s \o t)
<1>1. /\ s \o t \in Seq(Bytes)
      /\ Len(s \o t) = Len(s) + Len(t)
      /\ \A i \in 1 .. Len(s) + Len(t) :
           (s \o t)[i] = IF i <= Len(s) THEN s[i] ELSE t[i - Len(s)]
  BY ConcatProperties
<1>2. Len(s) \in Nat /\ Len(t) \in Nat
  BY LenProperties
<1>3. SubSeq(s, 1, Len(s)) = s
  BY SubSeqFull
<1>4. /\ SubSeq(s \o t, 1, Len(s)) \in Seq(Bytes)
      /\ Len(SubSeq(s \o t, 1, Len(s))) = Len(s)
      /\ \A i \in 1 .. Len(s) : SubSeq(s \o t, 1, Len(s))[i] = (s \o t)[i]
  <2>1. \A i \in 1 .. Len(s) : (s \o t)[i] \in Bytes
    BY <1>1, <1>2, ElementOfSeq
  <2> QED BY <2>1, <1>2, SubSeqProperties
<1>5. SubSeq(s \o t, 1, Len(s)) = s
  BY <1>1, <1>2, <1>4, SeqEqual
<1> QED BY <1>1, <1>2, <1>3, <1>5 DEF Stream!IsPrefix

(* A prefix, byte by byte.                                                  *)
LEMMA PrefixElements ==
  ASSUME NEW s \in Seq(Bytes), NEW t \in Seq(Bytes)
  PROVE  Stream!IsPrefix(s, t) <=>
           Len(s) <= Len(t) /\ \A i \in 1 .. Len(s) : s[i] = t[i]
<1>1. Len(s) \in Nat /\ Len(t) \in Nat
  BY LenProperties
<1>2. SubSeq(s, 1, Len(s)) = s
  BY SubSeqFull
<1>3. ASSUME Len(s) <= Len(t)
      PROVE  /\ SubSeq(t, 1, Len(s)) \in Seq(Bytes)
             /\ Len(SubSeq(t, 1, Len(s))) = Len(s)
             /\ \A i \in 1 .. Len(s) : SubSeq(t, 1, Len(s))[i] = t[i]
  <2>1. \A i \in 1 .. Len(s) : t[i] \in Bytes
    BY <1>1, <1>3, ElementOfSeq
  <2> QED BY <2>1, <1>1, SubSeqProperties
<1>4. ASSUME Len(s) <= Len(t), \A i \in 1 .. Len(s) : s[i] = t[i]
      PROVE  s = SubSeq(t, 1, Len(s))
  BY <1>3, <1>4, SeqEqual
<1> QED BY <1>2, <1>3, <1>4 DEF Stream!IsPrefix

(* A prefix of a prefix is one, ...                                         *)
LEMMA PrefixTransitive ==
  ASSUME NEW s \in Seq(Bytes), NEW t \in Seq(Bytes), NEW u \in Seq(Bytes),
         Stream!IsPrefix(s, t), Stream!IsPrefix(t, u)
  PROVE  Stream!IsPrefix(s, u)
<1>1. Len(s) \in Nat /\ Len(t) \in Nat /\ Len(u) \in Nat
  BY LenProperties
<1>2. Len(s) <= Len(t) /\ \A i \in 1 .. Len(s) : s[i] = t[i]
  BY PrefixElements
<1>3. Len(t) <= Len(u) /\ \A i \in 1 .. Len(t) : t[i] = u[i]
  BY PrefixElements
<1>4. Len(s) <= Len(u) /\ \A i \in 1 .. Len(s) : s[i] = u[i]
  BY <1>1, <1>2, <1>3
<1> QED BY <1>4, PrefixElements

(* ... and so is the whole.                                                 *)
LEMMA PrefixReflexive ==
  ASSUME NEW s \in Seq(Bytes)
  PROVE  Stream!IsPrefix(s, s)
BY LenProperties, PrefixElements

(* A message is a nonempty sequence of bytes. *)
LEMMA MessageIsBytes ==
  ASSUME NEW m \in Messages
  PROVE  Message(m) \in Seq(Bytes) /\ Message(m) # <<>> /\ Len(Message(m)) \in Nat
<1>1. Message(m) \in [1 .. MsgLen -> Bytes]
  BY DEF Message, Bytes
<1>2. MsgLen \in Nat
  BY TcpConnectionAssumption
<1>3. Message(m) \in Seq(Bytes)
  BY <1>1, <1>2, SeqDef
<1>4. Len(Message(m)) = MsgLen
  BY <1>1, <1>2, <1>3, LenProperties
<1> QED BY <1>3, <1>4, EmptySeq, TcpConnectionAssumption

(* What was written and what is left make up the data. *)
LEMMA RestIs ==
  ASSUME NEW s \in Seq(Bytes), NEW n \in 1 .. Len(s)
  PROVE  /\ SubSeq(s, 1, n) \in Seq(Bytes)
         /\ Rest(s, n) \in Seq(Bytes)
         /\ Len(SubSeq(s, 1, n)) = n
         /\ SubSeq(s, 1, n) \o Rest(s, n) = s
         /\ Rest(s, n) = <<>> <=> n = Len(s)
<1>1. Len(s) \in Nat
  BY LenProperties
<1>2. \A i \in 1 .. Len(s) : s[i] \in Bytes
  BY ElementOfSeq
<1>3. SubSeq(s, 1, n) \in Seq(Bytes) /\ Len(SubSeq(s, 1, n)) = n
  BY <1>1, <1>2, SubSeqProperties
<1>4. /\ Rest(s, n) \in Seq(Bytes)
      /\ Len(Rest(s, n)) = IF n + 1 <= Len(s) THEN Len(s) - n ELSE 0
  <2>1. \A i \in n + 1 .. Len(s) : s[i] \in Bytes
    BY <1>1, <1>2
  <2>2. /\ SubSeq(s, n + 1, Len(s)) \in Seq(Bytes)
        /\ Len(SubSeq(s, n + 1, Len(s)))
             = IF n + 1 <= Len(s) THEN Len(s) - (n + 1) + 1 ELSE 0
    BY <2>1, <1>1, SubSeqProperties
  <2> QED BY <2>2, <1>1 DEF Rest
<1>5. SubSeq(s, 1, n) \o SubSeq(s, n + 1, Len(s)) = SubSeq(s, 1, Len(s))
  BY <1>1, ConcatAdjacentSubSeq
<1>6. SubSeq(s, 1, n) \o Rest(s, n) = s
  BY <1>5, SubSeqFull DEF Rest
<1>7. n = Len(s) => Rest(s, n) = <<>>
  BY <1>1, SubSeqEmpty DEF Rest
<1>8. n # Len(s) => Rest(s, n) # <<>>
  BY <1>1, <1>4, EmptySeq
<1> QED BY <1>3, <1>4, <1>6, <1>7, <1>8

-----------------------------------------------------------------------------
(* What runs in the loop keeps the invariant.                              *)

(* The part of an action's effect that the loop's functions decide. *)
OutputType ==
  /\ sent' \in Seq(Bytes) /\ wire' \in Seq(Bytes)
  /\ outputBuffer_' \in Seq(Bytes)
  /\ writing' \in BOOLEAN /\ lost' \in BOOLEAN /\ ub' \in BOOLEAN
  /\ pending' \in Seq(FunctorType)
  /\ completed' \in Nat
  /\ Len(wire) <= Len(wire')

(* sendInLoop puts what write did not take behind outputBuffer_ and watches *)
(* for writability.                                                         *)
LEMMA AppendOutputEffect ==
  ASSUME TypeOK, NEW s \in Seq(Bytes), s # <<>>, AppendOutput(s)
  PROVE  /\ outputBuffer_' \in Seq(Bytes)
         /\ outputBuffer_' = outputBuffer_ \o s
         /\ outputBuffer_' # <<>>
         /\ writing'
         /\ writing' \in BOOLEAN /\ ub' \in BOOLEAN
<1>1. outputBuffer_ \in Seq(Bytes)
  BY DEF TypeOK
<1>2. outputBuffer_' = outputBuffer_ \o s
  BY DEF AppendOutput
<1>3. outputBuffer_ \o s \in Seq(Bytes)
  BY <1>1, ConcatProperties
<1>4. outputBuffer_ \o s # <<>>
  BY <1>1, ConcatEqualIffEmpty
<1>5. writing' /\ writing' \in BOOLEAN /\ ub' \in BOOLEAN
  BY DEF AppendOutput, EnableWriting, TypeOK
<1> QED BY <1>2, <1>3, <1>4, <1>5

(* A write that takes everything queues writeCompleteCallback_.             *)
LEMMA WriteCompleteEffect ==
  ASSUME NEW queue \in Seq(FunctorType), wire' \in Seq(Bytes),
         QueueWriteComplete(queue)
  PROVE  /\ pending' \in Seq(FunctorType)
         /\ completed' \in Nat
         /\ completed' = Len(wire')
<1>1. Functor("writeComplete", NULL) \in FunctorType
  BY DEF Functor, FunctorType
<1>2. Len(wire') \in Nat
  BY LenProperties
<1> QED BY <1>1, <1>2, AppendProperties DEF QueueWriteComplete

(* sendInLoop with a message it does not give up: where the bytes go.      *)
LEMMA SendMoves ==
  ASSUME IInv, NEW m \in Messages, NEW queue \in Seq(FunctorType),
         state_ # "kDisconnected", SendInLoop(m, queue)
  PROVE  /\ OutputType
         /\ sent' = sent \o Message(m)
         /\ \/ /\ Broken /\ lost' /\ wire' = wire
               /\ outputBuffer_' = <<>> /\ ~writing'
            \/ /\ ~lost /\ lost' = lost /\ writing'
               /\ outputBuffer_' # <<>>
               /\ wire' \o outputBuffer_' = (wire \o outputBuffer_) \o Message(m)
               /\ Stream!IsPrefix(wire, wire')
               /\ fin => wire' = wire
            \/ /\ ~lost /\ lost' = lost /\ ~writing'
               /\ outputBuffer_' = <<>>
               /\ completed' = Len(wire')
               /\ wire' = (wire \o outputBuffer_) \o Message(m)
               /\ Stream!IsPrefix(wire, wire')
               /\ ~fin
<1> DEFINE s == Message(m)
           Dropping ==
             /\ Broken /\ lost' = TRUE /\ pending' = queue
             /\ UNCHANGED <<outputBuffer_, writing, wire, completed, ub>>
           Waiting ==
             /\ Blocked /\ AppendOutput(s) /\ pending' = queue
             /\ UNCHANGED <<wire, lost, completed>>
           Taking ==
             \E n \in Taken(Len(s)) :
               /\ wire' = wire \o SubSeq(s, 1, n)
               /\ IF n = Len(s)
                  THEN QueueWriteComplete(queue) /\ UNCHANGED <<outputBuffer_, writing, ub>>
                  ELSE AppendOutput(Rest(s, n)) /\ pending' = queue /\ UNCHANGED completed
               /\ UNCHANGED lost
<1>a. s \in Seq(Bytes) /\ s # <<>> /\ Len(s) \in Nat
  BY MessageIsBytes
<1>b. /\ sent \in Seq(Bytes) /\ wire \in Seq(Bytes) /\ outputBuffer_ \in Seq(Bytes)
      /\ writing \in BOOLEAN /\ lost \in BOOLEAN /\ ub \in BOOLEAN
      /\ completed \in Nat /\ Len(wire) \in Nat
  BY LenProperties DEF IInv, TypeOK
<1>c. sent' = sent \o s /\ sent \o s \in Seq(Bytes)
  BY <1>a, <1>b, ConcatProperties DEF SendInLoop
<1>d. IF MayWrite THEN DirectWrite(s, queue)
      ELSE AppendOutput(s) /\ pending' = queue /\ UNCHANGED <<wire, lost, completed>>
  BY DEF SendInLoop
<1>e. lost => MayWrite
  BY DEF IInv, OutInv, NothingLostOrReordered, MayWrite
<1>f. TypeOK
  BY DEF IInv
<1>g. MayWrite => outputBuffer_ = <<>> /\ ~writing
  BY DEF MayWrite
<1>h. wire \o <<>> = wire
  BY <1>b, ConcatEmptySeq
<1> HIDE DEF s
<1>1. CASE ~MayWrite
  <2>1. AppendOutput(s) /\ pending' = queue /\ UNCHANGED <<wire, lost, completed>>
    BY <1>1, <1>d
  <2>2. outputBuffer_' \in Seq(Bytes) /\ outputBuffer_' = outputBuffer_ \o s
        /\ outputBuffer_' # <<>> /\ writing' /\ writing' \in BOOLEAN /\ ub' \in BOOLEAN
    BY <2>1, <1>a, <1>f, AppendOutputEffect
  <2>3. wire \o (outputBuffer_ \o s) = (wire \o outputBuffer_) \o s
    BY <1>a, <1>b, ConcatAssociative, SMTT(40)
  <2>4. Stream!IsPrefix(wire, wire')
    BY <2>1, <1>b, PrefixReflexive
  <2>5. OutputType
    BY <2>1, <2>2, <1>b, <1>c DEF OutputType
  <2> QED BY <1>1, <1>c, <1>e, <2>1, <2>2, <2>3, <2>4, <2>5 DEF s
<1>2. CASE MayWrite /\ Dropping
  <2>1. OutputType
    BY <1>2, <1>b, <1>c DEF OutputType
  <2> QED BY <2>1, <1>2, <1>c, <1>g DEF s
<1>3. CASE MayWrite /\ Waiting
  <2>1. outputBuffer_' \in Seq(Bytes) /\ outputBuffer_' = outputBuffer_ \o s
        /\ outputBuffer_' # <<>> /\ writing' /\ writing' \in BOOLEAN /\ ub' \in BOOLEAN
    BY <1>3, <1>a, <1>f, AppendOutputEffect
  <2>2. wire \o (outputBuffer_ \o s) = (wire \o outputBuffer_) \o s
    BY <1>a, <1>b, ConcatAssociative, SMTT(40)
  <2>3. Stream!IsPrefix(wire, wire')
    BY <1>3, <1>b, PrefixReflexive
  <2>4. ~lost
    BY <1>3 DEF Blocked, IInv, OutInv, NothingLostOrReordered
  <2>5. OutputType
    BY <1>3, <2>1, <1>b, <1>c DEF OutputType
  <2> QED BY <1>3, <1>c, <2>1, <2>2, <2>3, <2>4, <2>5 DEF s
<1>4. ASSUME MayWrite, NEW n \in Taken(Len(s)),
             wire' = wire \o SubSeq(s, 1, n),
             IF n = Len(s)
             THEN QueueWriteComplete(queue) /\ UNCHANGED <<outputBuffer_, writing, ub>>
             ELSE AppendOutput(Rest(s, n)) /\ pending' = queue /\ UNCHANGED completed,
             UNCHANGED lost
      PROVE  /\ OutputType
             /\ ~lost /\ lost' = lost
             /\ Stream!IsPrefix(wire, wire')
             /\ ~fin
             /\ IF n = Len(s)
                THEN /\ outputBuffer_' = <<>> /\ ~writing'
                     /\ completed' = Len(wire')
                     /\ wire' = (wire \o outputBuffer_) \o s
                ELSE /\ outputBuffer_' # <<>> /\ writing'
                     /\ wire' \o outputBuffer_' = (wire \o outputBuffer_) \o s
  <2>1. ~Broken /\ n \in 1 .. Len(s)
    BY <1>4 DEF Taken
  <2>2. ~lost /\ lost' = lost /\ ~fin
    BY <2>1, <1>4 DEF Broken, IInv, OutInv, NothingLostOrReordered
  <2>3. /\ SubSeq(s, 1, n) \in Seq(Bytes) /\ Rest(s, n) \in Seq(Bytes)
        /\ Len(SubSeq(s, 1, n)) = n
        /\ SubSeq(s, 1, n) \o Rest(s, n) = s
        /\ (Rest(s, n) = <<>> <=> n = Len(s))
    BY <2>1, <1>a, RestIs
  <2>4. wire' \in Seq(Bytes) /\ Len(wire') = Len(wire) + n
    BY <1>4, <1>b, <2>3, ConcatProperties
  <2>5. Len(wire) <= Len(wire')
    BY <2>1, <2>4, <1>a, <1>b
  <2>6. Stream!IsPrefix(wire, wire')
    BY <1>4, <1>b, <2>3, ConcatPrefix
  <2>7. wire \o outputBuffer_ = wire
    BY <1>4, <1>g, <1>h
  <2>8. CASE n = Len(s)
    <3>1. pending' \in Seq(FunctorType) /\ completed' \in Nat /\ completed' = Len(wire')
      BY <2>8, <1>4, <2>4, WriteCompleteEffect
    <3>2. SubSeq(s, 1, n) = s
      BY <2>8, <1>a, SubSeqFull
    <3>3. outputBuffer_' = outputBuffer_ /\ writing' = writing /\ ub' = ub
      BY <2>8, <1>4
    <3>4. OutputType
      BY <3>1, <3>3, <2>2, <2>4, <2>5, <1>b, <1>c DEF OutputType
    <3> QED BY <3>1, <3>2, <3>3, <3>4, <2>2, <2>6, <2>7, <2>8, <1>4, <1>g
  <2>9. CASE n # Len(s)
    <3>1. AppendOutput(Rest(s, n)) /\ pending' = queue /\ completed' = completed
      BY <2>9, <1>4
    <3>2. Rest(s, n) # <<>>
      BY <2>9, <2>3
    <3>3. outputBuffer_' \in Seq(Bytes) /\ outputBuffer_' = outputBuffer_ \o Rest(s, n)
          /\ outputBuffer_' # <<>> /\ writing' /\ writing' \in BOOLEAN /\ ub' \in BOOLEAN
      BY <3>1, <3>2, <2>3, <1>f, AppendOutputEffect
    <3>4. outputBuffer_' = Rest(s, n)
      BY <3>3, <1>4, <1>g, <2>3, ConcatEmptySeq
    <3>5. (wire \o SubSeq(s, 1, n)) \o Rest(s, n) = wire \o s
      <4> DEFINE first == SubSeq(s, 1, n)
                 rest == Rest(s, n)
      <4>1. first \in Seq(Bytes) /\ rest \in Seq(Bytes) /\ first \o rest = s
        BY <2>3
      <4> HIDE DEF first, rest
      <4>2. (wire \o first) \o rest = wire \o (first \o rest)
        BY <1>b, <4>1, BytesAssociate, ZenonT(60)
      <4> QED BY <4>1, <4>2 DEF first, rest
    <3>6. OutputType
      BY <3>1, <3>3, <2>2, <2>4, <2>5, <1>b, <1>c DEF OutputType
    <3> QED BY <3>3, <3>4, <3>5, <3>6, <2>2, <2>6, <2>7, <2>9, <1>4
  <2> QED BY <2>8, <2>9
<1>5. MayWrite => Dropping \/ Waiting \/ Taking
  BY <1>d DEF DirectWrite
<1>6. CASE MayWrite /\ Taking
  <2>1. PICK n \in Taken(Len(s)) :
             /\ wire' = wire \o SubSeq(s, 1, n)
             /\ IF n = Len(s)
                THEN QueueWriteComplete(queue) /\ UNCHANGED <<outputBuffer_, writing, ub>>
                ELSE AppendOutput(Rest(s, n)) /\ pending' = queue /\ UNCHANGED completed
             /\ UNCHANGED lost
    BY <1>6
  <2>2. /\ OutputType
        /\ ~lost /\ lost' = lost
        /\ Stream!IsPrefix(wire, wire')
        /\ ~fin
        /\ IF n = Len(s)
           THEN /\ outputBuffer_' = <<>> /\ ~writing'
                /\ completed' = Len(wire')
                /\ wire' = (wire \o outputBuffer_) \o s
           ELSE /\ outputBuffer_' # <<>> /\ writing'
                /\ wire' \o outputBuffer_' = (wire \o outputBuffer_) \o s
    BY <1>4, <1>6, <2>1
  <2> QED BY <2>2, <1>c DEF s
<1> HIDE DEF Dropping, Waiting, Taking
<1> QED BY <1>1, <1>2, <1>3, <1>5, <1>6

(* What every step owes: the invariant about the output again, and a step  *)
(* of the abstract stream.                                                 *)
Owed == OutInv' /\ Stream!Next

(* sendInLoop, on its own or as a functor. *)
LEMMA SendKeeps ==
  ASSUME IInv, NEW m \in Messages, NEW queue \in Seq(FunctorType),
         SendInLoop(m, queue), UNCHANGED <<channel, fin, peer>>
  PROVE  OutputType /\ Owed
<1>a. /\ sent \in Seq(Bytes) /\ wire \in Seq(Bytes) /\ outputBuffer_ \in Seq(Bytes)
      /\ writing \in BOOLEAN /\ lost \in BOOLEAN /\ ub \in BOOLEAN /\ fin \in BOOLEAN
      /\ completed \in Nat /\ Len(wire) \in Nat
  BY LenProperties DEF IInv, TypeOK
<1>b. OutInv
  BY DEF IInv
<1>c. Broken' = Broken
  BY DEF Broken
<1>1. CASE state_ = "kDisconnected"
  <2>1. pending' = queue
        /\ UNCHANGED <<outputBuffer_, writing, wire, sent, lost, completed, ub>>
    BY <1>1 DEF SendInLoop
  <2>2. OutputType
    BY <2>1, <1>a DEF OutputType
  <2>3. OutInv'
    BY <2>1, <1>b, <1>c DEF OutInv, NothingLostOrReordered, WritingIffOutput,
         WriteCompleteQueued, WireIsPrefix, Stream!IsPrefix
  <2>4. Stream!IsPrefix(sent, sent') /\ Stream!IsPrefix(wire, wire')
    BY <2>1, <1>a, PrefixReflexive
  <2>5. Stream!IsPrefix(wire', sent')
    BY <2>1, <1>b DEF OutInv, WireIsPrefix
  <2> QED BY <2>1, <2>2, <2>3, <2>4, <2>5
        DEF Owed, Stream!Next, Stream!Flow, Stream!Break
<1>2. CASE state_ # "kDisconnected"
  <2> DEFINE s == Message(m)
  <2>a. s \in Seq(Bytes)
    BY MessageIsBytes
  <2>1. /\ OutputType
        /\ sent' = sent \o s
        /\ \/ /\ Broken /\ lost' /\ wire' = wire
              /\ outputBuffer_' = <<>> /\ ~writing'
           \/ /\ ~lost /\ lost' = lost /\ writing'
              /\ outputBuffer_' # <<>>
              /\ wire' \o outputBuffer_' = (wire \o outputBuffer_) \o s
              /\ Stream!IsPrefix(wire, wire')
              /\ fin => wire' = wire
           \/ /\ ~lost /\ lost' = lost /\ ~writing'
              /\ outputBuffer_' = <<>>
              /\ completed' = Len(wire')
              /\ wire' = (wire \o outputBuffer_) \o s
              /\ Stream!IsPrefix(wire, wire')
              /\ ~fin
    BY <1>2, SendMoves
  <2> HIDE DEF s
  <2>b. /\ sent' \in Seq(Bytes) /\ wire' \in Seq(Bytes) /\ outputBuffer_' \in Seq(Bytes)
    BY <2>1 DEF OutputType
  <2>2. Stream!IsPrefix(sent, sent')
    BY <2>1, <2>a, <1>a, ConcatPrefix
  <2>3. ~lost => sent = wire \o outputBuffer_
    BY <1>b DEF OutInv, NothingLostOrReordered
  <2>4. ~lost' => sent' = wire' \o outputBuffer_'
    <3>1. wire' \o <<>> = wire'
      BY <2>b, ConcatEmptySeq
    <3> QED BY <2>1, <2>3, <3>1
  <2>5. Stream!IsPrefix(wire, wire')
    BY <2>1, <1>a, PrefixReflexive
  <2>6. Stream!IsPrefix(wire', sent')
    <3>1. CASE lost'
      <4>1. wire' = wire
        BY <3>1, <2>1
      <4> QED BY <4>1, <2>2, <2>b, <1>a, <1>b, PrefixTransitive DEF OutInv, WireIsPrefix
    <3>2. CASE ~lost'
      BY <3>2, <2>4, <2>b, ConcatPrefix
    <3> QED BY <3>1, <3>2
  <2>7. NothingLostOrReordered'
    BY <2>1, <2>4, <1>c DEF NothingLostOrReordered
  <2>8. WritingIffOutput'
    BY <2>1 DEF WritingIffOutput
  <2>9. WriteCompleteQueued'
    BY <2>1 DEF WriteCompleteQueued
  <2>10. OutInv'
    BY <2>6, <2>7, <2>8, <2>9 DEF OutInv, WireIsPrefix
  <2>11. (fin => wire' = wire) /\ (lost => lost')
    BY <2>1
  <2> QED BY <2>1, <2>2, <2>5, <2>6, <2>10, <2>11
        DEF Owed, Stream!Next, Stream!Flow, Stream!Break
<1> QED BY <1>1, <1>2

(* Steps that leave the output alone and do not bring back the channel: the *)
(* FIN, if they send it, comes when nothing is being written.              *)
LEMMA QuietKeeps ==
  ASSUME IInv,
         UNCHANGED <<outputBuffer_, wire, sent, lost, completed>>,
         UNCHANGED <<writing, channel>> \/ (~writing' /\ channel' # "polled"),
         fin' = fin \/ (fin' = (fin \/ ~writing) /\ UNCHANGED channel),
         peer = "reset" => peer' = "reset"
  PROVE  Owed
<1>a. /\ sent \in Seq(Bytes) /\ wire \in Seq(Bytes) /\ outputBuffer_ \in Seq(Bytes)
      /\ writing \in BOOLEAN /\ lost \in BOOLEAN /\ fin \in BOOLEAN
  BY DEF IInv, TypeOK
<1>b. OutInv
  BY DEF IInv
<1>1. Broken => Broken'
  BY <1>a DEF Broken
<1>2. NothingLostOrReordered'
  BY <1>1, <1>b DEF OutInv, NothingLostOrReordered
<1>3. WritingIffOutput'
  BY <1>b DEF OutInv, WritingIffOutput
<1>4. WriteCompleteQueued'
  BY <1>b DEF OutInv, WriteCompleteQueued
<1>5. Stream!IsPrefix(sent, sent') /\ Stream!IsPrefix(wire, wire')
  BY <1>a, PrefixReflexive
<1>6. Stream!IsPrefix(wire', sent')
  BY <1>b DEF OutInv, WireIsPrefix
<1>7. OutInv'
  BY <1>2, <1>3, <1>4, <1>6 DEF OutInv, WireIsPrefix
<1>8. fin' # fin => lost \/ channel # "polled" \/ wire = sent
  <2>1. SUFFICES ASSUME fin' # fin, ~lost, channel = "polled"
                 PROVE  wire = sent
    OBVIOUS
  <2>2. ~writing
    BY <2>1, <1>a
  <2>3. outputBuffer_ = <<>> /\ sent = wire \o outputBuffer_
    BY <2>1, <2>2, <1>b DEF OutInv, WritingIffOutput, NothingLostOrReordered
  <2> QED BY <2>3, <1>a, ConcatEmptySeq
<1>9. fin' # fin => ~fin /\ fin'
  BY <1>a
<1> QED BY <1>5, <1>6, <1>7, <1>8, <1>9
      DEF Owed, Stream!Next, Stream!Flow, Stream!Finish, Stream!Break

(* handleWrite: what it takes from the buffer it puts on the wire. *)
LEMMA HandleWriteKeeps ==
  ASSUME IInv, HandleWrite
  PROVE  OutputType /\ Owed
<1>a. /\ sent \in Seq(Bytes) /\ wire \in Seq(Bytes) /\ outputBuffer_ \in Seq(Bytes)
      /\ writing \in BOOLEAN /\ lost \in BOOLEAN /\ ub \in BOOLEAN /\ fin \in BOOLEAN
      /\ completed \in Nat /\ Len(wire) \in Nat /\ pending \in Seq(FunctorType)
      /\ Len(outputBuffer_) \in Nat
  BY LenProperties DEF IInv, TypeOK
<1>b. OutInv
  BY DEF IInv
<1>c. channel = "polled" /\ writing /\ UNCHANGED <<channel, peer, sent, lost, ub>>
  BY DEF HandleWrite, netVars
<1>1. PICK n \in Taken(Len(outputBuffer_)) :
        /\ wire' = wire \o SubSeq(outputBuffer_, 1, n)
        /\ outputBuffer_' = Rest(outputBuffer_, n)
        /\ IF n = Len(outputBuffer_)
           THEN Drained
           ELSE UNCHANGED <<writing, pending, completed, fin>>
  BY DEF HandleWrite
<1>2. ~Broken /\ n \in 1 .. Len(outputBuffer_)
  BY DEF Taken
<1>3. ~lost /\ ~fin
  BY <1>2, <1>b DEF OutInv, NothingLostOrReordered, Broken
<1> DEFINE first == SubSeq(outputBuffer_, 1, n)
           rest == Rest(outputBuffer_, n)
<1>4. /\ first \in Seq(Bytes) /\ rest \in Seq(Bytes)
      /\ Len(first) = n
      /\ first \o rest = outputBuffer_
      /\ (rest = <<>> <=> n = Len(outputBuffer_))
  BY <1>2, <1>a, RestIs
<1>5. wire' = wire \o first /\ outputBuffer_' = rest
  BY <1>1
<1> HIDE DEF first, rest
<1>6. wire' \in Seq(Bytes) /\ Len(wire') = Len(wire) + n /\ outputBuffer_' \in Seq(Bytes)
  BY <1>4, <1>5, <1>a, ConcatProperties
<1>7. Stream!IsPrefix(wire, wire')
  BY <1>4, <1>5, <1>a, ConcatPrefix
<1>8. sent = wire' \o outputBuffer_'
  <2>1. (wire \o first) \o rest = wire \o (first \o rest)
    BY <1>a, <1>4, BytesAssociate, ZenonT(60)
  <2>2. sent = wire \o outputBuffer_
    BY <1>3, <1>b DEF OutInv, NothingLostOrReordered
  <2> QED BY <2>1, <2>2, <1>4, <1>5
<1>9. Stream!IsPrefix(wire', sent') /\ Stream!IsPrefix(sent, sent')
  BY <1>8, <1>c, <1>6, <1>a, ConcatPrefix, PrefixReflexive
<1>10. Len(wire) <= Len(wire')
  BY <1>2, <1>6, <1>a
<1>11. CASE n = Len(outputBuffer_)
  <2>1. Drained
    BY <1>11, <1>1
  <2>2. ~writing' /\ writing' \in BOOLEAN
        /\ fin' = (fin \/ state_ = "kDisconnecting")
    BY <2>1 DEF Drained
  <2>3. pending' \in Seq(FunctorType) /\ completed' \in Nat /\ completed' = Len(wire')
    BY <2>1, <1>6, <1>a, WriteCompleteEffect DEF Drained
  <2>4. outputBuffer_' = <<>>
    BY <1>11, <1>4, <1>5
  <2>5. OutputType
    BY <2>2, <2>3, <1>6, <1>10, <1>a, <1>c DEF OutputType
  <2>6. NothingLostOrReordered'
    BY <1>3, <1>8, <1>c DEF NothingLostOrReordered
  <2>7. WritingIffOutput' /\ WriteCompleteQueued'
    BY <2>2, <2>3, <2>4 DEF WritingIffOutput, WriteCompleteQueued
  <2>8. wire' = sent'
    BY <1>8, <1>c, <1>6, <2>4, ConcatEmptySeq
  <2>9. fin' = fin \/ (~fin /\ fin')
    BY <2>2, <1>a
  <2>10. Stream!Next
    BY <1>3, <1>7, <1>9, <1>c, <2>9, <2>8
    DEF Stream!Next, Stream!Flow, Stream!Finish, Stream!Break
  <2> QED BY <2>5, <2>6, <2>7, <2>10, <1>9 DEF Owed, OutInv, WireIsPrefix
<1>12. CASE n # Len(outputBuffer_)
  <2>1. UNCHANGED <<writing, pending, completed, fin>>
    BY <1>12, <1>1
  <2>2. outputBuffer_' # <<>>
    BY <1>12, <1>4, <1>5
  <2>3. OutputType
    BY <2>1, <1>6, <1>10, <1>a, <1>c DEF OutputType
  <2>4. NothingLostOrReordered'
    BY <1>3, <1>8, <1>c DEF NothingLostOrReordered
  <2>5. WritingIffOutput' /\ WriteCompleteQueued'
    BY <2>1, <2>2, <1>c DEF WritingIffOutput, WriteCompleteQueued
  <2>6. Stream!Next
    BY <1>3, <1>7, <1>9, <1>c, <2>1 DEF Stream!Next, Stream!Flow, Stream!Break
  <2> QED BY <2>3, <2>4, <2>5, <2>6, <1>9 DEF Owed, OutInv, WireIsPrefix
<1> QED BY <1>11, <1>12

-----------------------------------------------------------------------------
(* Every action.                                                           *)

(* A functor taken from the front of the queue, or put at its end. *)
LEMMA QueueTypes ==
  ASSUME NEW queue \in Seq(FunctorType), NEW f \in FunctorType
  PROVE  /\ Append(queue, f) \in Seq(FunctorType)
         /\ queue # <<>> => /\ Head(queue) \in FunctorType
                            /\ Tail(queue) \in Seq(FunctorType)
<1>1. Append(queue, f) \in Seq(FunctorType)
  BY AppendProperties
<1>2. queue # <<>> => /\ Head(queue) \in FunctorType
                      /\ Tail(queue) \in Seq(FunctorType)
  BY HeadTailProperties
<1> QED BY <1>1, <1>2

(* Every step keeps the output in step with what was sent and is a step of  *)
(* the stream or none.                                                      *)
LEMMA StepKeeps == IInv /\ [Next]_vars => TypeOK' /\ OutInv' /\ [Stream!Next]_(Stream!vars)
<1> SUFFICES ASSUME IInv, [Next]_vars
             PROVE  TypeOK' /\ OutInv' /\ [Stream!Next]_(Stream!vars)
  OBVIOUS
<1>a. TypeOK
  BY DEF IInv
<1>b. Owed => OutInv' /\ [Stream!Next]_(Stream!vars)
  BY DEF Owed
<1>c. drained \in Nat /\ drained <= Len(wire) /\ Len(wire) \in Nat
      /\ pending \in Seq(FunctorType)
  BY <1>a, LenProperties DEF TypeOK
(* A step that leaves the output and the wire alone: only types remain.    *)
<1>d. ASSUME UNCHANGED <<outputBuffer_, wire, sent, lost, completed, drained, ub>>,
             writing' \in BOOLEAN, fin' \in BOOLEAN,
             state_' \in {"kConnected", "kDisconnecting", "kDisconnected"},
             channel' \in {"polled", "hidden", "removed"},
             pending' \in Seq(FunctorType),
             call' \in [Threads -> CallType],
             used' \in SUBSET Messages,
             closing' \in BOOLEAN,
             peer' \in {"open", "closed", "reset"}
      PROVE  TypeOK'
  BY <1>a, <1>d DEF TypeOK
(* A step that moves bytes. *)
<1>e. ASSUME OutputType, UNCHANGED <<channel, call, closing, drained, peer>>,
             state_' = state_, fin' \in BOOLEAN, used' \in SUBSET Messages
      PROVE  TypeOK'
  <2>1. Len(wire') \in Nat
    BY <1>e, LenProperties DEF OutputType
  <2>2. drained' <= Len(wire')
    BY <1>c, <1>e, <2>1 DEF OutputType
  <2> QED BY <1>a, <1>e, <2>2 DEF TypeOK, OutputType
<1>1. CASE RunFunctor
  <2> DEFINE f == Head(pending)
             queue == Tail(pending)
  <2>1. f \in FunctorType /\ queue \in Seq(FunctorType)
    BY <1>1, <1>c, HeadTailProperties DEF RunFunctor
  <2>2. UNCHANGED <<call, used, closing, drained, peer>>
    BY <1>1 DEF RunFunctor, netVars
  <2>3. CASE f.op = "sendInLoop"
    <3>1. SendInLoop(f.msg, queue) /\ UNCHANGED <<state_, channel, fin>>
      BY <1>1, <2>3 DEF RunFunctor
    <3>2. f.msg \in Messages
      BY <2>1, <2>3 DEF FunctorType
    <3>3. OutputType /\ Owed
      BY <2>1, <2>2, <3>1, <3>2, SendKeeps
    <3>4. fin' \in BOOLEAN /\ used' \in SUBSET Messages
      BY <3>1, <2>2, <1>a DEF TypeOK
    <3> QED BY <3>1, <3>3, <3>4, <2>2, <1>b, <1>e
  <2>4. CASE f.op = "shutdownInLoop"
    <3>1. ShutdownInLoop /\ pending' = queue
          /\ UNCHANGED <<state_, outputBuffer_, writing, channel, wire, sent,
                         lost, completed, ub>>
      BY <1>1, <2>4 DEF RunFunctor
    <3>2. Owed
      BY <3>1, <2>2, QuietKeeps DEF ShutdownInLoop
    <3>3. fin' \in BOOLEAN
      BY <3>1 DEF ShutdownInLoop
    <3>4. TypeOK'
      BY <3>1, <3>3, <2>1, <2>2, <1>a, <1>d DEF TypeOK
    <3> QED BY <3>2, <3>4, <1>b
  <2>5. CASE f.op = "connectDestroyed"
    <3>1. ConnectDestroyed /\ pending' = queue
          /\ UNCHANGED <<outputBuffer_, wire, fin, sent, lost, completed, ub>>
      BY <1>1, <2>5 DEF RunFunctor
    <3>2. ~writing' /\ writing' \in BOOLEAN
          /\ channel' = "removed" /\ state_' = "kDisconnected"
      BY <3>1 DEF ConnectDestroyed
    <3>3. Owed
      <4>1. UNCHANGED <<outputBuffer_, wire, sent, lost, completed>>
        BY <3>1
      <4>2. UNCHANGED <<writing, channel>> \/ (~writing' /\ channel' # "polled")
        BY <3>2
      <4>3. /\ fin' = fin \/ (fin' = (fin \/ ~writing) /\ UNCHANGED channel)
            /\ peer = "reset" => peer' = "reset"
        BY <3>1, <2>2
      <4> QED BY <4>1, <4>2, <4>3, QuietKeeps
    <3>4. TypeOK'
      BY <3>1, <3>2, <2>1, <2>2, <1>a, <1>d DEF TypeOK
    <3> QED BY <3>3, <3>4, <1>b
  <2>6. CASE f.op = "writeComplete"
    <3>1. pending' = queue
          /\ UNCHANGED <<state_, outputBuffer_, writing, channel, wire, fin,
                         sent, lost, completed, ub>>
      BY <1>1, <2>6 DEF RunFunctor
    <3>2. Owed
      BY <3>1, <2>2, QuietKeeps
    <3>3. TypeOK'
      BY <3>1, <2>1, <2>2, <1>a, <1>d DEF TypeOK
    <3> QED BY <3>2, <3>3, <1>b
  <2> QED BY <1>1, <2>3, <2>4, <2>5, <2>6 DEF RunFunctor
<1>2. CASE HandleWrite
  <2>1. OutputType /\ Owed
    BY <1>2, HandleWriteKeeps
  <2>2. UNCHANGED <<state_, channel, call, used, closing, drained, peer>>
    BY <1>2 DEF HandleWrite, netVars
  <2>3. fin' \in BOOLEAN
    BY <1>2, <1>a DEF HandleWrite, Drained, TypeOK
  <2>4. used' \in SUBSET Messages
    BY <2>2, <1>a DEF TypeOK
  <2> QED BY <2>1, <2>2, <2>3, <2>4, <1>b, <1>e
<1>3. CASE HandleClose
  <2>1. ~writing' /\ writing' \in BOOLEAN /\ channel' = "hidden" /\ closing'
        /\ closing' \in BOOLEAN
        /\ UNCHANGED <<state_, outputBuffer_, pending, call, used, wire, fin,
                       sent, lost, completed, ub, drained, peer>>
    BY <1>3 DEF HandleClose, netVars
  <2>2. Owed
    <3>1. UNCHANGED <<outputBuffer_, wire, sent, lost, completed>>
      BY <2>1
    <3>2. UNCHANGED <<writing, channel>> \/ (~writing' /\ channel' # "polled")
      BY <2>1
    <3>3. /\ fin' = fin \/ (fin' = (fin \/ ~writing) /\ UNCHANGED channel)
          /\ peer = "reset" => peer' = "reset"
      BY <2>1
    <3> QED BY <3>1, <3>2, <3>3, QuietKeeps
  <2>3. TypeOK'
    BY <2>1, <1>a, <1>d DEF TypeOK
  <2> QED BY <2>2, <2>3, <1>b
<1>4. CASE ShutdownSelf
  <2>1. ShutdownInLoop /\ state_' = "kDisconnecting"
        /\ UNCHANGED <<outputBuffer_, writing, channel, pending, call, used,
                       closing, wire, sent, lost, completed, ub, drained, peer>>
    BY <1>4 DEF ShutdownSelf, netVars
  <2>2. Owed
    BY <2>1, QuietKeeps DEF ShutdownInLoop
  <2>3. fin' \in BOOLEAN
    BY <2>1 DEF ShutdownInLoop
  <2>4. TypeOK'
    BY <2>1, <2>3, <1>a, <1>d DEF TypeOK
  <2> QED BY <2>2, <2>4, <1>b
<1>5. ASSUME NEW m \in Messages, SendSelf(m)
      PROVE  TypeOK' /\ OutInv' /\ [Stream!Next]_(Stream!vars)
  <2>1. SendInLoop(m, pending) /\ used' = used \cup {m}
        /\ UNCHANGED <<state_, channel, call, closing, fin, drained, peer>>
    BY <1>5 DEF SendSelf, netVars
  <2>2. OutputType /\ Owed
    BY <2>1, <1>c, SendKeeps
  <2>3. fin' \in BOOLEAN /\ used' \in SUBSET Messages
    BY <2>1, <1>a DEF TypeOK
  <2> QED BY <2>1, <2>2, <2>3, <1>b, <1>e
<1>6. CASE RemoveConnectionInLoop
  <2>1. /\ pending' = Append(pending, Functor("connectDestroyed", NULL))
        /\ closing' \in BOOLEAN
        /\ UNCHANGED <<state_, outputBuffer_, writing, channel, call, used, wire,
                       fin, sent, lost, completed, ub, drained, peer>>
    BY <1>6 DEF RemoveConnectionInLoop, netVars
  <2>2. Functor("connectDestroyed", NULL) \in FunctorType
    BY DEF Functor, FunctorType
  <2>3. pending' \in Seq(FunctorType)
    BY <2>1, <2>2, <1>c, QueueTypes
  <2>4. Owed
    BY <2>1, QuietKeeps
  <2>5. TypeOK'
    BY <2>1, <2>3, <1>a, <1>d DEF TypeOK
  <2> QED BY <2>4, <2>5, <1>b
<1>7. ASSUME NEW t \in Threads, CallStep(t)
      PROVE  TypeOK' /\ OutInv' /\ [Stream!Next]_(Stream!vars)
  <2>1. UNCHANGED <<outputBuffer_, writing, channel, used, closing, wire, fin,
                    sent, lost, completed, ub, drained, peer>>
    BY <1>7 DEF CallStep, SendQueue, ShutdownSet, ShutdownQueue, netVars
  <2>2. Owed
    BY <2>1, QuietKeeps
  <2>3. call \in [Threads -> CallType] /\ call[t] \in CallType
    BY <1>a DEF TypeOK
  <2>4. /\ call' \in [Threads -> CallType]
        /\ pending' \in Seq(FunctorType)
        /\ state_' \in {"kConnected", "kDisconnecting", "kDisconnected"}
    <3>1. CASE SendQueue(t)
      <4>1. call[t].msg \in Messages
        BY <3>1, <2>3 DEF SendQueue, CallType
      <4>2. Functor("sendInLoop", call[t].msg) \in FunctorType
        BY <4>1 DEF Functor, FunctorType
      <4>3. pending' \in Seq(FunctorType)
        BY <3>1, <4>2, <1>c, QueueTypes DEF SendQueue
      <4> QED BY <3>1, <4>3, <2>3, <1>a DEF SendQueue, Idle, CallType, TypeOK
    <3>2. CASE ShutdownSet(t)
      BY <3>2, <2>3, <1>a DEF ShutdownSet, Goto, CallType, TypeOK
    <3>3. CASE ShutdownQueue(t)
      <4>1. Functor("shutdownInLoop", NULL) \in FunctorType
        BY DEF Functor, FunctorType
      <4>2. pending' \in Seq(FunctorType)
        BY <3>3, <4>1, <1>c, QueueTypes DEF ShutdownQueue
      <4> QED BY <3>3, <4>2, <2>3, <1>a DEF ShutdownQueue, Idle, CallType, TypeOK
    <3> QED BY <1>7, <3>1, <3>2, <3>3 DEF CallStep
  <2>5. TypeOK'
    BY <2>1, <2>4, <1>a, <1>d DEF TypeOK
  <2> QED BY <2>2, <2>5, <1>b
<1>8. ASSUME NEW t \in Threads, ShutdownTest(t)
      PROVE  TypeOK' /\ OutInv' /\ [Stream!Next]_(Stream!vars)
  <2>1. UNCHANGED <<state_, outputBuffer_, writing, channel, pending, used,
                    closing, wire, fin, sent, lost, completed, ub, drained, peer>>
    BY <1>8 DEF ShutdownTest, netVars
  <2>2. call' \in [Threads -> CallType]
    BY <1>8, <1>a DEF ShutdownTest, Goto, CallType, TypeOK
  <2>3. Owed
    BY <2>1, QuietKeeps
  <2>4. TypeOK'
    BY <2>1, <2>2, <1>a, <1>d DEF TypeOK
  <2> QED BY <2>3, <2>4, <1>b
<1>9. ASSUME NEW t \in Threads, NEW m \in Messages, SendTest(t, m)
      PROVE  TypeOK' /\ OutInv' /\ [Stream!Next]_(Stream!vars)
  <2>1. UNCHANGED <<state_, outputBuffer_, writing, channel, pending,
                    closing, wire, fin, sent, lost, completed, ub, drained, peer>>
    BY <1>9 DEF SendTest, netVars
  <2>2. call' \in [Threads -> CallType] /\ used' \in SUBSET Messages
    BY <1>9, <1>a DEF SendTest, Goto, CallType, TypeOK
  <2>3. Owed
    BY <2>1, QuietKeeps
  <2>4. TypeOK'
    BY <2>1, <2>2, <1>a, <1>d DEF TypeOK
  <2> QED BY <2>3, <2>4, <1>b
<1>10. CASE PeerRead
  <2>1. drained' = Len(wire) /\ drained' \in Nat
        /\ UNCHANGED <<state_, outputBuffer_, writing, channel, pending, call,
                       used, closing, wire, fin, peer, sent, lost, completed, ub>>
    BY <1>10, <1>c DEF PeerRead
  <2>2. Owed
    BY <2>1, QuietKeeps
  <2>3. TypeOK'
    BY <2>1, <1>a, <1>c DEF TypeOK
  <2> QED BY <2>2, <2>3, <1>b
<1>11. CASE PeerClose
  <2>1. peer' \in {"closed", "reset"} /\ peer # "reset"
        /\ UNCHANGED <<state_, outputBuffer_, writing, channel, pending, call,
                       used, closing, wire, drained, fin, sent, lost, completed,
                       ub>>
    BY <1>11 DEF PeerClose
  <2>2. Owed
    BY <2>1, QuietKeeps
  <2>3. TypeOK'
    BY <2>1, <1>a, <1>d DEF TypeOK
  <2> QED BY <2>2, <2>3, <1>b
<1>12. CASE UNCHANGED vars
  <2>1. UNCHANGED <<outputBuffer_, writing, channel, wire, fin, sent, lost,
                    completed, peer>>
    BY <1>12 DEF vars
  <2>2. Owed
    BY <2>1, QuietKeeps
  <2>3. TypeOK'
    BY <1>12, <1>a DEF vars, TypeOK
  <2> QED BY <2>2, <2>3, <1>b
<1>13. Next => \/ RunFunctor \/ HandleWrite \/ HandleClose \/ ShutdownSelf
               \/ \E m \in Messages : SendSelf(m)
               \/ RemoveConnectionInLoop
               \/ \E t \in Threads : CallStep(t) \/ ShutdownTest(t)
               \/ \E t \in Threads, m \in Messages : SendTest(t, m)
               \/ PeerRead \/ PeerClose
  BY DEF Next
<1> QED BY <1>1, <1>2, <1>3, <1>4, <1>5, <1>6, <1>7, <1>8, <1>9, <1>10, <1>11,
           <1>12, <1>13

(* A connection that has just been established.                             *)
LEMMA InitHolds == Init => IInv /\ Stream!Init
<1> SUFFICES ASSUME Init PROVE IInv /\ Stream!Init
  OBVIOUS
<1>1. <<>> \in Seq(Bytes) /\ <<>> \in Seq(FunctorType) /\ Len(<<>>) = 0
  BY EmptySeq
<1>2. TypeOK
  <2>1. Idle \in CallType
    BY DEF Idle, CallType
  <2>2. call \in [Threads -> CallType]
    BY <2>1 DEF Init
  <2>3. drained \in Nat /\ drained <= Len(wire)
    BY <1>1 DEF Init
  <2> QED BY <1>1, <2>2, <2>3 DEF Init, TypeOK
<1>3. wire \o outputBuffer_ = <<>>
  BY <1>1, ConcatEmptySeq DEF Init
<1>4. Stream!IsPrefix(wire, sent)
  BY <1>1, PrefixReflexive DEF Init
<1>5. NothingLostOrReordered /\ WritingIffOutput /\ WriteCompleteQueued
  BY <1>1, <1>3 DEF Init, NothingLostOrReordered, WritingIffOutput,
     WriteCompleteQueued
<1> QED BY <1>2, <1>4, <1>5 DEF Init, IInv, OutInv, WireIsPrefix, Stream!Init

(* The inductive invariant of the output path: sendInLoop, handleWrite,     *)
(* shutdownInLoop and the functors between them keep every byte in its      *)
(* place.                                                                   *)
THEOREM Invariant == Spec => []IInv
<1>1. Init => IInv
  BY InitHolds
<1>2. IInv /\ [Next]_vars => IInv'
  BY StepKeeps DEF IInv
<1> QED BY <1>1, <1>2, PTL DEF Spec

(* The variables keep their types: every byte on the wire and in the       *)
(* buffer comes from a message (sendInLoop, handleWrite).                  *)
THEOREM TypeCorrect == Spec => []TypeOK
<1>1. IInv => TypeOK
  BY DEF IInv
<1> QED BY <1>1, Invariant, PTL

(* sendInLoop and handleWrite neither lose, repeat nor reorder a byte,     *)
(* whatever the socket takes and whichever threads call send.              *)
THEOREM BytesAddUp == Spec => []NothingLostOrReordered
<1>1. IInv => NothingLostOrReordered
  BY DEF IInv, OutInv
<1> QED BY <1>1, Invariant, PTL

(* POLLOUT is asked for exactly while there is output, and the completion  *)
(* of the last byte has been queued when there is none (sendInLoop,        *)
(* handleWrite).                                                           *)
THEOREM OutputStaysInStep == Spec => []OutputInStep
<1>1. IInv => OutputInStep
  BY DEF IInv, OutInv, OutputInStep
<1> QED BY <1>1, Invariant, PTL

(* The connection implements OutStream: in particular shutdown sends FIN   *)
(* only after the last byte (shutdownInLoop, handleWrite).                 *)
THEOREM ConnectionIsStream == Spec => StreamSpec
<1>1. Init => Stream!Init
  BY InitHolds
<1>2. IInv /\ [Next]_vars => [Stream!Next]_(Stream!vars)
  BY StepKeeps
<1> QED BY <1>1, <1>2, Invariant, PTL DEF Spec, StreamSpec, Stream!Spec
=============================================================================
