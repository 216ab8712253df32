------------------------------ MODULE ByteQueue ------------------------------
(***************************************************************************)
(* What a ByteBuffer (AP_HAL/utility/RingBuffer.h) promises the two        *)
(* threads that share it: a bounded queue of bytes.  Bytes enter at one    *)
(* end a few at a time, leave at the other in the order they entered, and  *)
(* none is lost, made up or repeated.                                      *)
(***************************************************************************)
EXTENDS Sequences, Naturals

CONSTANTS Bytes,        \* what may be queued
          Capacity      \* number of bytes the queue can hold

VARIABLES queue,        \* what is queued
          taken         \* everything that has left

vars == <<queue, taken>>

Init == queue = <<>> /\ taken = <<>>

\* write(): one or more bytes enter.
Put ==
    /\ Len(queue') \in Len(queue) + 1 .. Capacity
    /\ SubSeq(queue', 1, Len(queue)) = queue
    /\ \A i \in 1 .. Len(queue') : queue'[i] \in Bytes
    /\ UNCHANGED taken

\* read() or advance(): the first n bytes leave.
Take(n) ==
    /\ n <= Len(queue)
    /\ queue' = SubSeq(queue, n + 1, Len(queue))
    /\ taken' = taken \o SubSeq(queue, 1, n)

Next == Put \/ \E n \in 1 .. Capacity : Take(n)

Spec == Init /\ [][Next]_vars
=============================================================================
