----------------------------- MODULE ByteBuffer -----------------------------
(***************************************************************************)
(* AP_HAL/utility/RingBuffer.cpp: the circular buffer of bytes between one *)
(* writing and one reading thread.  A buffer is a record [buf, size, head, *)
(* tail]; head is stored by the reader only, tail by the writer only, and  *)
(* each operation below loads the other thread's index once.  One slot     *)
(* stays free, so that head = tail means empty.                            *)
(***************************************************************************)
EXTENDS Integers, Sequences

CONSTANT NoByte         \* what a slot holds before it is written

\* An IoVec: len slots from slot data on.
IoVec(data, len) == [data |-> data, len |-> len]

Lesser(a, b) == IF a < b THEN a ELSE b

\* The constructor, and set_size with memory: both indices at zero.
set_size(n) ==
    [buf |-> [i \in 0 .. n - 1 |-> NoByte], size |-> n, head |-> 0, tail |-> 0]

available(b) ==
    IF b.head > b.tail THEN b.size - b.head + b.tail ELSE b.tail - b.head

space(b) ==
    IF b.size = 0 THEN 0
    ELSE (IF b.head <= b.tail THEN b.size ELSE 0) + b.head - b.tail - 1

\* readptr: how many bytes lie in one piece from head on.
readptr(b) == IF b.head > b.tail THEN b.size - b.head ELSE b.tail - b.head

\* peekiovec: the first n bytes queued, as one or two pieces.
peekiovec(b, n) ==
    LET len == Lesser(n, available(b))
        one == Lesser(readptr(b), len)
    IN  IF len = 0 THEN <<>>
        ELSE IF len <= one THEN <<IoVec(b.head, one)>>
        ELSE <<IoVec(b.head, one), IoVec(0, len - one)>>

\* reserve: up to n free slots, as one or two pieces.
reserve(b, n) ==
    LET len == Lesser(n, space(b))
        one == b.size - b.tail
    IN  IF len = 0 THEN <<>>
        ELSE IF len <= one THEN <<IoVec(b.tail, len)>>
        ELSE <<IoVec(b.tail, one), IoVec(0, len - one)>>

\* commit and advance refuse, and change nothing, when asked for more than
\* there is.
commit(b, n) ==
    IF n > space(b) THEN b ELSE [b EXCEPT !.tail = (@ + n) % b.size]

advance(b, n) ==
    IF n > available(b) THEN b ELSE [b EXCEPT !.head = (@ + n) % b.size]

\* memcpy of the sequence s to a piece, and from one.
CopyTo(b, v, s) ==
    [b EXCEPT !.buf = [i \in DOMAIN @ |->
        IF i \in v.data .. v.data + v.len - 1 THEN s[i - v.data + 1] ELSE @[i]]]

CopyFrom(b, v) == [i \in 1 .. v.len |-> b.buf[v.data + i - 1]]

\* The copying half of write(): reserve, then fill one or two pieces.
Fill(b, s) ==
    LET v == reserve(b, Len(s))
    IN  CASE Len(v) = 0 -> b
          [] Len(v) = 1 -> CopyTo(b, v[1], s)
          [] OTHER -> CopyTo(CopyTo(b, v[1], s), v[2],
                             SubSeq(s, v[1].len + 1, Len(s)))

\* The byte peek(0) returns.
peek(b) == b.buf[b.head]

\* The bytes queued, oldest first.
Contents(b) == [i \in 1 .. available(b) |-> b.buf[(b.head + i - 1) % b.size]]
=============================================================================
