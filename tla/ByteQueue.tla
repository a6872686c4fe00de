------------------------------ MODULE ByteQueue ------------------------------
(* What a muduo::net::Buffer promises: a queue of bytes that is appended   *)
(* to at the back, taken from at the front, and whose last bytes and first *)
(* bytes may be taken back and pushed in front.                            *)
EXTENDS Integers, Sequences

CONSTANT Byte

VARIABLE content

Put(s) == content' = content \o s

(* Taking more than there is takes everything. *)
Take(n) == content' = SubSeq(content, n + 1, Len(content))

PutFront(s) == content' = s \o content

TakeBack(n) ==
  /\ n <= Len(content)
  /\ content' = SubSeq(content, 1, Len(content) - n)

Init == content = <<>>

Next ==
  \/ \E s \in Seq(Byte) : Put(s) \/ PutFront(s)
  \/ \E n \in Nat : Take(n) \/ TakeBack(n)

Spec == Init /\ [][Next]_content
=============================================================================
