-------------------------- MODULE UARTDriverProofs --------------------------
(***************************************************************************)
(* Proofs about UARTDriver: begin() replaces a ring only while nobody uses *)
(* it, no byte is lost or reordered on its way from the line to read(),    *)
(* and both rings implement ByteQueue, whichever threads call write(), for *)
(* rings of every size.                                                    *)
(***************************************************************************)
EXTENDS UARTDriver, TLAPS

\* A leaf that names no prover is Zenon's.
USE ZenonT(30)

\* What a slot or a byte variable may hold.
Vals == Nat \cup {NoByte}
Piece == [data : Nat, len : Nat]

\* A ring in order: its indices lie inside it.
Ring(b) ==
    /\ b = [buf |-> b.buf, size |-> b.size, head |-> b.head, tail |-> b.tail]
    /\ b.size \in Nat /\ b.buf \in [0 .. b.size - 1 -> Vals]
    /\ b.head \in Nat /\ b.tail \in Nat
    /\ b.size = 0 => b.head = 0 /\ b.tail = 0
    /\ b.size > 0 => b.head < b.size /\ b.tail < b.size

TickPcs == {"sleep", "mark", "peek", "write", "advance", "reserve", "read", "commit", "done"}
BeginPcs == {"out", "rx", "set_rx", "tx", "set_tx", "open"}

\* Complete types.
Types ==
    /\ rx_fifo \in [buffer : [0 .. BufSz - 1 -> Vals], put_index : 0 .. BufSz - 1,
                    get_index : 0 .. BufSz - 1, is_full : BOOLEAN]
    /\ Ring(_readbuf) /\ Ring(_writebuf)
    /\ _initialised \in BOOLEAN /\ _in_timer \in BOOLEAN /\ _dev \in BOOLEAN
    /\ _nonblocking_writes \in BOOLEAN
    /\ tick \in [pc : TickPcs, vec : Seq(Piece), got : Nat]
    /\ begin \in [pc : BeginPcs, rx : Nat, tx : Nat]
    /\ byte \in Vals
    /\ writer \in [Writers -> [pc : {"out", "fill", "commit"}, left : Nat, len : Nat,
                               bytewise : BOOLEAN]]
    /\ arrived \in 0 .. MaxIn /\ offered \in Nat /\ dropped \subseteq Vals
    /\ received \in Seq(Vals) /\ sent \in Seq(Vals)

\* A ring has its least size or none, has it where it is in use, and is
\* replaced only where it has none.
SizeInv ==
    /\ _readbuf.size \in {0, MinRx} /\ _writebuf.size \in {0, MinTx}
    /\ _initialised \/ tick # Asleep => _readbuf.size = MinRx /\ _writebuf.size = MinTx
    /\ \A w \in Writers : writer[w].pc # "out" => _writebuf.size = MinTx /\ writer[w].left > 0
    /\ begin.pc # "out" => begin.rx = MinRx /\ begin.tx = MinTx
    /\ begin.pc = "set_rx" => _readbuf.size = 0
    /\ begin.pc = "set_tx" => _writebuf.size = 0

\* The pieces of n slots from slot k on, of a ring of the given size.
Pieces(vec, k, n, size) ==
    /\ Len(vec) \in 1 .. 2 /\ vec[1].data = k /\ vec[1].len > 0
    /\ Len(vec) = 1 => vec[1].len <= n /\ k + vec[1].len <= size
    /\ Len(vec) = 2 => /\ k + vec[1].len = size
                       /\ vec[2].data = 0 /\ vec[2].len > 0
                       /\ vec[1].len + vec[2].len <= n

\* Between its reserve and its commits, the tick holds free slots of _readbuf
\* from tail on, although read() moves head meanwhile.
RxInv ==
    /\ tick.pc \in {"read", "commit"} =>
          /\ Pieces(tick.vec, _readbuf.tail, space(_readbuf), _readbuf.size)
          /\ tick.got <= tick.vec[1].len
    /\ byte # NoByte => available(_readbuf) > 0 /\ byte = peek(_readbuf)
    /\ rx_fifo.is_full => rx_fifo.put_index # rx_fifo.get_index

\* Between its peek and its last advance, the tick holds bytes of _writebuf
\* from head on, although write() moves tail meanwhile.
TxInv ==
    /\ tick.pc \in {"write", "advance"} =>
          Pieces(tick.vec, _writebuf.head, available(_writebuf), _writebuf.size)
    /\ tick.pc = "advance" =>
          LET n == tick.vec[1].len
          IN  /\ n <= Len(sent)
              /\ \A i \in 1 .. n :
                    sent[Len(sent) - n + i] = _writebuf.buf[_writebuf.head + i - 1]

\* The slot i places after slot k.
Slot(k, i, size) == IF k + i < size THEN k + i ELSE k + i - size

\* The port is nobody's or the main thread's, and no other thread is in write().
OwnerInv ==
    /\ _uart_owner_pid \in {NoThread, Main}
    /\ \A w \in Writers : w # Main => writer[w].pc = "out"

\* The writer finds the bytes it has filled in where it left them.
Filled(x, o, b) ==
    /\ x.pc = "fill" => x.left > 0 /\ o + x.left <= MaxOut
    /\ x.pc = "commit" =>
          /\ x.len <= space(b) /\ x.len <= o /\ x.left > 0
          /\ o + (IF x.bytewise THEN x.left - 1 ELSE 0) <= MaxOut
          /\ \A j \in 1 .. x.len : b.buf[Slot(b.tail, j - 1, b.size)] = o - x.len + j

FillInv == \A w \in Writers : Filled(writer[w], offered, _writebuf)

\* The bytes queued are bytes.
Queued(q) == \A i \in 1 .. Len(q) : q[i] \in 1 .. MaxOut

-----------------------------------------------------------------------------
(* Sequences *)

LEMMA SameSeq ==
    ASSUME NEW S, NEW s \in Seq(S), NEW t \in Seq(S), Len(s) = Len(t),
           \A i \in 1 .. Len(s) : s[i] = t[i]
    PROVE  s = t
BY SMTT(60)

LEMMA EmptyIs ==
    ASSUME NEW S, NEW s \in Seq(S), Len(s) = 0
    PROVE  s = <<>>
BY SMTT(60)

LEMMA Joined ==
    ASSUME NEW S, NEW a \in Seq(S), NEW b \in Seq(S)
    PROVE  /\ a \o b \in Seq(S) /\ Len(a \o b) = Len(a) + Len(b)
           /\ \A j \in 1 .. Len(a) + Len(b) :
                 (a \o b)[j] = IF j <= Len(a) THEN a[j] ELSE b[j - Len(a)]
BY SMTT(60)

-----------------------------------------------------------------------------
(* RingBuffer.cpp: one ring *)

LEMMA SlotMod ==
    ASSUME NEW n \in Nat, n > 0, NEW k \in Nat, k < n, NEW i \in Nat, i <= n
    PROVE  (k + i) % n = Slot(k, i, n) /\ Slot(k, i, n) \in 0 .. n - 1
<1>4. QED
  BY SMTT(60) DEF Slot

\* The bytes queued and the free slots add up to all but one.
LEMMA Counts ==
    ASSUME NEW b, Ring(b), b.size > 0
    PROVE  /\ available(b) \in Nat /\ available(b) < b.size
           /\ space(b) \in Nat /\ space(b) + available(b) = b.size - 1
BY SMTT(60) DEF Ring, available, space

LEMMA NoSlots ==
    ASSUME NEW b, Ring(b), b.size = 0
    PROVE  available(b) = 0 /\ space(b) = 0
BY SMTT(60) DEF Ring, available, space

LEMMA ContentsAt ==
    ASSUME NEW b, Ring(b), b.size > 0
    PROVE  /\ Contents(b) \in Seq(Vals) /\ Len(Contents(b)) = available(b)
           /\ \A i \in 1 .. available(b) : Contents(b)[i] = b.buf[Slot(b.head, i - 1, b.size)]
<1>1. available(b) \in Nat /\ available(b) < b.size /\ b.size \in Nat /\ b.head \in Nat
      /\ b.head < b.size /\ b.buf \in [0 .. b.size - 1 -> Vals]
  BY Counts DEF Ring
<1>2. ASSUME NEW i \in 1 .. available(b)
      PROVE  /\ (b.head + i - 1) % b.size = Slot(b.head, i - 1, b.size)
             /\ Slot(b.head, i - 1, b.size) \in 0 .. b.size - 1
  <2>1. i - 1 \in Nat /\ i - 1 <= b.size /\ b.head + (i - 1) = b.head + i - 1
    BY <1>1, SMTT(60)
  <2>2. QED
    BY <1>1, <2>1, SlotMod
<1> DEFINE f == [i \in 1 .. available(b) |-> b.buf[Slot(b.head, i - 1, b.size)]]
<1>3. Contents(b) = f
  BY <1>2 DEF Contents
<1>4. f \in [1 .. available(b) -> Vals]
  BY <1>1, <1>2
<1>5. f \in Seq(Vals) /\ Len(f) = available(b)
  <2> HIDE DEF f
  <2>1. QED
    BY <1>1, <1>4, SMTT(60)
<1>6. QED
  BY <1>3, <1>5

LEMMA ContentsNone ==
    ASSUME NEW b, Ring(b), b.size = 0
    PROVE  Contents(b) = <<>>
BY NoSlots, SMTT(60) DEF Contents

LEMMA AdvanceIs ==
    ASSUME NEW b, Ring(b), b.size > 0, NEW n \in Nat, n <= available(b)
    PROVE  /\ Ring(advance(b, n)) /\ advance(b, n).size = b.size
           /\ advance(b, n).buf = b.buf /\ advance(b, n).tail = b.tail
           /\ advance(b, n).head = Slot(b.head, n, b.size)
           /\ available(advance(b, n)) = available(b) - n
           /\ space(advance(b, n)) = space(b) + n
<1>1. b.size \in Nat /\ b.head \in Nat /\ b.head < b.size /\ n <= b.size
  BY Counts, SMTT(60) DEF Ring
<1>2. (b.head + n) % b.size = Slot(b.head, n, b.size) /\ Slot(b.head, n, b.size) \in 0 .. b.size - 1
  BY <1>1, SlotMod
<1>3. ~(n > available(b))
  BY Counts, SMTT(60)
<1>4. advance(b, n) = [b EXCEPT !.head = Slot(b.head, n, b.size)]
  BY <1>2, <1>3 DEF advance
<1> DEFINE h == Slot(b.head, n, b.size)
<1>5. advance(b, n) = [buf |-> b.buf, size |-> b.size, head |-> h, tail |-> b.tail]
  BY <1>4 DEF Ring
<1>6. h \in Nat /\ h < b.size
  BY <1>1, <1>2, SMTT(60)
<1>7. Ring(advance(b, n))
  <2> HIDE DEF h
  <2>1. QED
    BY <1>5, <1>6, SMTT(60) DEF Ring
<1>8. available(advance(b, n)) = available(b) - n
  BY <1>1, <1>5, SMTT(60) DEF available, Slot, Ring
<1>9. space(advance(b, n)) = space(b) + n
  BY <1>5, <1>7, <1>8, Counts, SMTT(60)
<1>10. QED
  BY <1>5, <1>7, <1>8, <1>9, SMTT(60)

LEMMA CommitIs ==
    ASSUME NEW b, Ring(b), b.size > 0, NEW n \in Nat, n <= space(b)
    PROVE  /\ Ring(commit(b, n)) /\ commit(b, n).size = b.size
           /\ commit(b, n).buf = b.buf /\ commit(b, n).head = b.head
           /\ commit(b, n).tail = Slot(b.tail, n, b.size)
           /\ available(commit(b, n)) = available(b) + n
           /\ space(commit(b, n)) = space(b) - n
<1>1. b.size \in Nat /\ b.tail \in Nat /\ b.tail < b.size /\ n <= b.size
  BY Counts, SMTT(60) DEF Ring
<1>2. (b.tail + n) % b.size = Slot(b.tail, n, b.size) /\ Slot(b.tail, n, b.size) \in 0 .. b.size - 1
  BY <1>1, SlotMod
<1>3. ~(n > space(b))
  BY Counts, SMTT(60)
<1>4. commit(b, n) = [b EXCEPT !.tail = Slot(b.tail, n, b.size)]
  BY <1>2, <1>3 DEF commit
<1> DEFINE t == Slot(b.tail, n, b.size)
<1>5. commit(b, n) = [buf |-> b.buf, size |-> b.size, head |-> b.head, tail |-> t]
  BY <1>4 DEF Ring
<1>6. t \in Nat /\ t < b.size
  BY <1>1, <1>2, SMTT(60)
<1>7. Ring(commit(b, n))
  <2> HIDE DEF t
  <2>1. QED
    BY <1>5, <1>6, SMTT(60) DEF Ring
<1>8. available(commit(b, n)) = available(b) + n
  BY <1>1, <1>5, SMTT(60) DEF available, space, Slot, Ring
<1>9. space(commit(b, n)) = space(b) - n
  BY <1>5, <1>7, <1>8, Counts, SMTT(60)
<1>10. QED
  BY <1>5, <1>7, <1>8, <1>9, SMTT(60)

LEMMA SlotSum ==
    ASSUME NEW n \in Nat, n > 0, NEW k \in Nat, k < n, NEW i \in Nat, NEW j \in Nat, i + j <= n
    PROVE  Slot(Slot(k, i, n), j, n) = Slot(k, i + j, n)
BY SMTT(60) DEF Slot

LEMMA TailAfterContents ==
    ASSUME NEW b, Ring(b), b.size > 0
    PROVE  Slot(b.head, available(b), b.size) = b.tail
BY SMTT(60) DEF Ring, Slot, available

\* advance() drops the oldest bytes.
LEMMA ContentsAdvance ==
    ASSUME NEW b, Ring(b), b.size > 0, NEW n \in Nat, n <= available(b)
    PROVE  Contents(advance(b, n)) = SubSeq(Contents(b), n + 1, available(b))
<1> DEFINE c == advance(b, n)
           s == Contents(b)
           u == SubSeq(s, n + 1, available(b))
<1>1. Ring(c) /\ c.size = b.size /\ c.buf = b.buf /\ c.head = Slot(b.head, n, b.size)
      /\ available(c) = available(b) - n
  BY AdvanceIs
<1>2. b.size \in Nat /\ b.head \in Nat /\ b.head < b.size /\ available(b) \in Nat
      /\ available(b) < b.size
  BY Counts DEF Ring
<1>3. /\ s \in Seq(Vals) /\ Len(s) = available(b)
      /\ \A i \in 1 .. available(b) : s[i] = b.buf[Slot(b.head, i - 1, b.size)]
  BY ContentsAt
<1>4. /\ Contents(c) \in Seq(Vals) /\ Len(Contents(c)) = available(b) - n
      /\ \A i \in 1 .. available(b) - n : Contents(c)[i] = b.buf[Slot(c.head, i - 1, b.size)]
  BY <1>1, ContentsAt
<1> HIDE DEF c, s
<1>5. \A i \in n + 1 .. available(b) : s[i] \in Vals
  BY <1>3, SMTT(60)
<1>6. /\ u \in Seq(Vals) /\ Len(u) = available(b) - n
      /\ \A i \in 1 .. available(b) - n : u[i] = s[n + i]
  BY <1>2, <1>5, SMTT(60)
<1> HIDE DEF u
<1>7. ASSUME NEW i \in 1 .. available(b) - n PROVE Contents(c)[i] = u[i]
  <2>1. i - 1 \in Nat /\ n + (i - 1) <= b.size /\ n + (i - 1) = n + i - 1 /\ n + i \in 1 .. available(b)
    BY <1>2, SMTT(60)
  <2>2. Slot(c.head, i - 1, b.size) = Slot(b.head, n + i - 1, b.size)
    BY <1>1, <1>2, SlotSum, SMTT(60)
  <2>3. Contents(c)[i] = b.buf[Slot(c.head, i - 1, b.size)] /\ u[i] = s[n + i]
    BY <1>4, <1>6
  <2>4. s[n + i] = b.buf[Slot(b.head, n + i - 1, b.size)]
    BY <1>3, <2>1, SMTT(60)
  <2>5. QED
    BY <2>2, <2>3, <2>4
<1>8. Contents(c) = u
  BY <1>4, <1>6, <1>7, SMTT(60)
<1>9. QED
  BY <1>8 DEF c, s, u

\* commit() adds the bytes in the slots from tail on.
LEMMA ContentsCommit ==
    ASSUME NEW b, Ring(b), b.size > 0, NEW n \in Nat, n <= space(b),
           NEW s \in Seq(Vals), Len(s) = n,
           \A j \in 1 .. n : s[j] = b.buf[Slot(b.tail, j - 1, b.size)]
    PROVE  Contents(commit(b, n)) = Contents(b) \o s
<1> DEFINE c == commit(b, n)
           t == Contents(b)
           u == t \o s
<1>1. Ring(c) /\ c.size = b.size /\ c.buf = b.buf /\ c.head = b.head
      /\ available(c) = available(b) + n
  BY CommitIs
<1>2. b.size \in Nat /\ b.head \in Nat /\ b.head < b.size /\ available(b) \in Nat
      /\ available(b) + n < b.size
  BY Counts, SMTT(60) DEF Ring
<1>3. /\ t \in Seq(Vals) /\ Len(t) = available(b)
      /\ \A i \in 1 .. available(b) : t[i] = b.buf[Slot(b.head, i - 1, b.size)]
  BY ContentsAt
<1>4. /\ Contents(c) \in Seq(Vals) /\ Len(Contents(c)) = available(b) + n
      /\ \A i \in 1 .. available(b) + n : Contents(c)[i] = b.buf[Slot(b.head, i - 1, b.size)]
  BY <1>1, ContentsAt, SMTT(60)
<1> HIDE DEF c, t
<1>5. /\ u \in Seq(Vals) /\ Len(u) = available(b) + n
      /\ \A i \in 1 .. available(b) + n :
            u[i] = IF i <= available(b) THEN t[i] ELSE s[i - available(b)]
  <2>1. t \in Seq(Vals) /\ s \in Seq(Vals) /\ Len(t) = available(b) /\ Len(s) = n
    BY <1>3
  <2>2. /\ t \o s \in Seq(Vals) /\ Len(t \o s) = Len(t) + Len(s)
        /\ \A i \in 1 .. Len(t) + Len(s) :
              (t \o s)[i] = IF i <= Len(t) THEN t[i] ELSE s[i - Len(t)]
    BY <2>1, Joined
  <2>3. QED
    BY <2>1, <2>2
<1> HIDE DEF u
<1>6. ASSUME NEW i \in 1 .. available(b) + n PROVE Contents(c)[i] = u[i]
  <2>1. CASE i <= available(b)
    <3>2. u[i] = t[i] /\ t[i] = b.buf[Slot(b.head, i - 1, b.size)]
      BY <1>3, <1>5, <2>1, SMTT(60)
    <3>3. QED
      BY <1>4, <3>2
  <2>2. CASE ~(i <= available(b))
    <3>1. i - available(b) \in 1 .. n /\ i - available(b) - 1 \in Nat
          /\ available(b) + (i - available(b) - 1) = i - 1 /\ i - 1 <= b.size
      BY <1>2, <2>2, SMTT(60)
    <3> DEFINE k == i - available(b) - 1
    <3>2. Slot(b.tail, k, b.size) = Slot(b.head, i - 1, b.size)
      <4>1. k \in Nat /\ available(b) + k = i - 1 /\ available(b) + k <= b.size
        BY <3>1
      <4> HIDE DEF k
      <4>2. Slot(Slot(b.head, available(b), b.size), k, b.size) = Slot(b.head, available(b) + k, b.size)
        BY <1>2, <4>1, SlotSum, SMTT(60)
      <4>3. QED
        BY <4>1, <4>2, TailAfterContents
    <3>3. u[i] = s[i - available(b)] /\ s[i - available(b)] = b.buf[Slot(b.tail, k, b.size)]
      BY <1>5, <2>2, <3>1
    <3>4. QED
      BY <1>4, <3>2, <3>3
  <2>3. QED
    BY <2>1, <2>2
<1>7. Contents(c) = u
  BY <1>4, <1>5, <1>6, SMTT(60)
<1>8. QED
  BY <1>7 DEF c, t, u

\* The slots from tail on are free.
LEMMA FreeSlot ==
    ASSUME NEW b, Ring(b), b.size > 0, NEW i \in 1 .. available(b), NEW j \in Nat, j <= space(b)
    PROVE  /\ Slot(b.tail, j, b.size) # Slot(b.head, i - 1, b.size)
           /\ Slot(b.tail, j, b.size) \in 0 .. b.size - 1
<1>FreeSlotNumber. ASSUME NEW n \in Nat, NEW h \in Nat, NEW t \in Nat, h < n, t < n,
                          NEW ii \in Nat, NEW jj \in Nat, ii >= 1,
                          ii <= IF h > t THEN n - h + t ELSE t - h,
                          jj <= (IF h <= t THEN n ELSE 0) + h - t - 1
                   PROVE  Slot(t, jj, n) # Slot(h, ii - 1, n) /\ Slot(t, jj, n) \in 0 .. n - 1
  <2> USE <1>FreeSlotNumber
  <2>1. CASE h > t
    BY SMTT(60) DEF Slot
  <2>2. CASE h <= t
    BY SMTT(60) DEF Slot
  <2>3. QED
    BY <2>1, <2>2, SMTT(60)
<1>1. b.size \in Nat /\ b.head \in Nat /\ b.tail \in Nat /\ b.head < b.size /\ b.tail < b.size
      /\ b.size # 0
  BY SMTT(60) DEF Ring
<1>2. i \in Nat /\ i >= 1 /\ i <= available(b)
  BY SMTT(60)
<1>3. /\ i <= IF b.head > b.tail THEN b.size - b.head + b.tail ELSE b.tail - b.head
      /\ j <= (IF b.head <= b.tail THEN b.size ELSE 0) + b.head - b.tail - 1
  BY SMTT(60) DEF available, space
<1>4. QED
  BY <1>1, <1>2, <1>3, <1>FreeSlotNumber

\* c is b with other bytes in it, those that are queued excepted.
SameQueue(c, b) ==
    /\ c = [b EXCEPT !.buf = c.buf] /\ c.buf \in [0 .. b.size - 1 -> Vals]
    /\ \A i \in 1 .. available(b) :
          c.buf[Slot(b.head, i - 1, b.size)] = b.buf[Slot(b.head, i - 1, b.size)]

LEMMA SameQueueKeeps ==
    ASSUME NEW b, NEW c, Ring(b), b.size > 0, SameQueue(c, b)
    PROVE  /\ Ring(c) /\ c.size = b.size /\ c.head = b.head /\ c.tail = b.tail
           /\ available(c) = available(b) /\ space(c) = space(b)
           /\ Contents(c) = Contents(b)
<1>1. c.size = b.size /\ c.head = b.head /\ c.tail = b.tail
      /\ c = [buf |-> c.buf, size |-> c.size, head |-> c.head, tail |-> c.tail]
  BY DEF SameQueue, Ring
<1>2. Ring(c)
  BY DEF Ring, SameQueue
<1>3. available(c) = available(b) /\ space(c) = space(b)
  BY <1>1 DEF available, space
<1>4. ASSUME NEW i \in 1 .. available(b) PROVE Contents(c)[i] = Contents(b)[i]
  <2>1. Contents(b)[i] = b.buf[Slot(b.head, i - 1, b.size)]
    BY ContentsAt
  <2>2. Contents(c)[i] = c.buf[Slot(b.head, i - 1, b.size)]
    BY <1>1, <1>2, <1>3, ContentsAt, SMTT(60)
  <2>3. QED
    BY <2>1, <2>2 DEF SameQueue
<1>5. Contents(c) = Contents(b)
  BY <1>1, <1>2, <1>3, <1>4, ContentsAt, SameSeq
<1>6. QED
  BY <1>1, <1>2, <1>3, <1>5

\* A step of filling: c is b with the first l bytes of s from slot d on.
Copied(c, b, d, l, s) ==
    /\ c = [buf |-> c.buf, size |-> b.size, head |-> b.head, tail |-> b.tail]
    /\ c.buf \in [0 .. b.size - 1 -> Vals]
    /\ \A i \in 0 .. b.size - 1 :
          c.buf[i] = IF d <= i /\ i < d + l THEN s[i - d + 1] ELSE b.buf[i]

IsBuffer(b) ==
    /\ b = [buf |-> b.buf, size |-> b.size, head |-> b.head, tail |-> b.tail]
    /\ b.size \in Nat /\ b.buf \in [0 .. b.size - 1 -> Vals]

\* One byte put into a free slot.
LEMMA PutByte ==
    ASSUME NEW b, Ring(b), b.size > 0, NEW j \in Nat, j <= space(b), NEW x \in Vals,
           NEW k, k = Slot(b.tail, j, b.size)
    PROVE  LET c == [b EXCEPT !.buf[k] = x]
           IN  SameQueue(c, b) /\ c.buf = [b.buf EXCEPT ![k] = x]
<1> DEFINE c == [b EXCEPT !.buf[k] = x]
<1>2. \A i \in 1 .. available(b) : Slot(b.head, i - 1, b.size) # k
  BY FreeSlot
<1>3. ASSUME NEW i \in 1 .. available(b)
      PROVE  c.buf[Slot(b.head, i - 1, b.size)] = b.buf[Slot(b.head, i - 1, b.size)]
  BY <1>2, SMTT(60) DEF Ring
<1>4. c.buf \in [0 .. b.size - 1 -> Vals]
  BY DEF Ring
<1>5. QED
  BY <1>3, <1>4, SMTT(60) DEF SameQueue

\* The copying half of write(), in one piece or in two.
LEMMA FillIs ==
    ASSUME NEW b, Ring(b), b.size > 0, NEW s \in Seq(Vals), Len(s) <= space(b)
    PROVE  /\ SameQueue(Fill(b, s), b)
           /\ \A j \in 1 .. Len(s) : Fill(b, s).buf[Slot(b.tail, j - 1, b.size)] = s[j]
<1>CopyToIs. ASSUME NEW bb, IsBuffer(bb),
                    NEW d \in Nat, NEW l \in Nat, NEW ss \in Seq(Vals), l <= Len(ss)
             PROVE  Copied(CopyTo(bb, IoVec(d, l), ss), bb, d, l, ss)
  <2> USE <1>CopyToIs
  <2> USE DEF IsBuffer
  <2> DEFINE g == [i \in 0 .. bb.size - 1 |->
                      IF d <= i /\ i < d + l THEN ss[i - d + 1] ELSE bb.buf[i]]
  <2>1. \A i \in 0 .. bb.size - 1 : i \in d .. d + l - 1 <=> d <= i /\ i < d + l
    BY SMTT(60)
  <2>2. CopyTo(bb, IoVec(d, l), ss) = [bb EXCEPT !.buf = g]
    BY <2>1 DEF CopyTo, IoVec
  <2>4. g \in [0 .. bb.size - 1 -> Vals]
    BY SMTT(60)
  <2> HIDE DEF g
  <2>6. QED
    BY <2>2, <2>4 DEF g, Copied
<1>PartOf. ASSUME NEW S, NEW q, NEW m \in Int, NEW n \in Int, \A i \in m .. n : q[i] \in S
           PROVE  /\ SubSeq(q, m, n) \in Seq(S)
                  /\ Len(SubSeq(q, m, n)) = IF m <= n THEN n - m + 1 ELSE 0
                  /\ \A j \in 1 .. n - m + 1 : SubSeq(q, m, n)[j] = q[m + j - 1]
  BY <1>PartOf, SMTT(60)
<1> DEFINE n == Len(s)
           one == b.size - b.tail
<1>1. n \in Nat /\ n <= space(b) /\ space(b) \in Nat /\ n < b.size
  <2>1. b.size \in Nat /\ n \in Nat
    BY SMTT(60) DEF Ring
  <2>2. QED
    BY <2>1, Counts, SMTT(60)
<1>2. b.size \in Nat /\ b.tail \in Nat /\ b.tail < b.size /\ one \in Nat /\ one > 0 /\ one <= b.size
      /\ b = [buf |-> b.buf, size |-> b.size, head |-> b.head, tail |-> b.tail]
      /\ b.buf \in [0 .. b.size - 1 -> Vals] /\ IsBuffer(b)
  BY SMTT(60) DEF Ring, IsBuffer
<1>3. Lesser(n, space(b)) = n
  BY <1>1, SMTT(60) DEF Lesser
\* It is enough that the slots from tail on, and no others, are written.
<1>4. ASSUME NEW c, c = [buf |-> c.buf, size |-> b.size, head |-> b.head, tail |-> b.tail],
             c.buf \in [0 .. b.size - 1 -> Vals],
             \A i \in 0 .. b.size - 1 :
                c.buf[i] = b.buf[i] \/ \E j \in Nat : j < n /\ i = Slot(b.tail, j, b.size)
      PROVE  SameQueue(c, b)
  <2>1. c = [b EXCEPT !.buf = c.buf]
    BY <1>2, <1>4, SMTT(60)
  <2>2. ASSUME NEW i \in 1 .. available(b)
        PROVE  c.buf[Slot(b.head, i - 1, b.size)] = b.buf[Slot(b.head, i - 1, b.size)]
    <3>1. available(b) \in Nat /\ available(b) < b.size /\ b.head \in Nat /\ b.head < b.size
      BY Counts DEF Ring
    <3>2. i - 1 \in Nat /\ i - 1 <= b.size
      BY <1>2, <3>1, SMTT(60)
    <3>3. Slot(b.head, i - 1, b.size) \in 0 .. b.size - 1
      BY <1>2, <3>1, <3>2, SlotMod
    <3>4. ASSUME NEW j \in Nat, j < n
          PROVE  Slot(b.tail, j, b.size) # Slot(b.head, i - 1, b.size)
      <4>1. j <= space(b)
        BY <1>1, <3>4, SMTT(60)
      <4>2. QED
        BY <4>1, FreeSlot
    <3>5. QED
      BY <1>4, <3>3, <3>4
  <2>3. QED
    BY <1>4, <2>1, <2>2 DEF SameQueue
<1>5. CASE n = 0
  <2>1. reserve(b, n) = <<>>
    BY <1>3, <1>5 DEF reserve
  <2>2. Fill(b, s) = b
    BY <2>1, SMTT(60) DEF Fill
  <2>3. SameQueue(b, b)
    BY <1>2, <1>4
  <2>4. QED
    BY <1>5, <2>2, <2>3, SMTT(60)
<1>6. CASE n > 0 /\ n <= one
  <2> DEFINE c == CopyTo(b, IoVec(b.tail, n), s)
  <2>1. reserve(b, n) = <<IoVec(b.tail, n)>>
    BY <1>3, <1>6, SMTT(60) DEF reserve
  <2>2. Fill(b, s) = c
    BY <2>1, SMTT(60) DEF Fill
  <2>3. /\ c = [buf |-> c.buf, size |-> b.size, head |-> b.head, tail |-> b.tail]
        /\ c.buf \in [0 .. b.size - 1 -> Vals]
        /\ \A i \in 0 .. b.size - 1 :
              c.buf[i] = IF b.tail <= i /\ i < b.tail + n THEN s[i - b.tail + 1] ELSE b.buf[i]
    <3>1. Copied(c, b, b.tail, n, s)
      <4>1. n \in Nat /\ n <= Len(s)
        BY SMTT(60)
      <4>2. QED
        BY <1>2, <4>1, SMTT(60)
    <3>2. QED
      BY <3>1 DEF Copied
  <2> HIDE DEF c
  <2>4. ASSUME NEW i \in 0 .. b.size - 1
        PROVE  c.buf[i] = b.buf[i] \/ \E j \in Nat : j < n /\ i = Slot(b.tail, j, b.size)
    <3>1. CASE b.tail <= i /\ i < b.tail + n
      <4>1. i - b.tail \in Nat /\ i - b.tail < n /\ i = Slot(b.tail, i - b.tail, b.size)
        BY <1>2, <3>1, SMTT(60) DEF Slot
      <4>2. QED
        BY <4>1
    <3>2. CASE ~(b.tail <= i /\ i < b.tail + n)
      BY <2>3, <3>2
    <3>3. QED
      BY <3>1, <3>2
  <2>5. SameQueue(c, b)
    BY <1>4, <2>3, <2>4
  <2>6. ASSUME NEW j \in 1 .. n PROVE c.buf[Slot(b.tail, j - 1, b.size)] = s[j]
    <3> DEFINE i == b.tail + j - 1
    <3>1. Slot(b.tail, j - 1, b.size) = i /\ i \in 0 .. b.size - 1
          /\ b.tail <= i /\ i < b.tail + n /\ i - b.tail + 1 = j
      BY <1>2, <1>6, SMTT(60) DEF Slot
    <3> HIDE DEF i
    <3>2. c.buf[i] = s[i - b.tail + 1]
      BY <2>3, <3>1
    <3>3. QED
      BY <3>1, <3>2
  <2>7. QED
    BY <2>2, <2>5, <2>6
<1>7. CASE n > one
  <2> DEFINE r == SubSeq(s, one + 1, n)
             a == CopyTo(b, IoVec(b.tail, one), s)
             c == CopyTo(a, IoVec(0, n - one), r)
  <2>1. reserve(b, n) = <<IoVec(b.tail, one), IoVec(0, n - one)>>
    BY <1>2, <1>3, <1>7, SMTT(60) DEF reserve
  <2>2. Fill(b, s) = c
    BY <2>1, SMTT(60) DEF Fill, IoVec
  <2>3. /\ a = [buf |-> a.buf, size |-> b.size, head |-> b.head, tail |-> b.tail]
        /\ a.buf \in [0 .. b.size - 1 -> Vals]
        /\ \A i \in 0 .. b.size - 1 :
              a.buf[i] = IF b.tail <= i /\ i < b.tail + one THEN s[i - b.tail + 1] ELSE b.buf[i]
    <3>2. Copied(a, b, b.tail, one, s)
      BY <1>2, <1>CopyToIs, SMTT(60)
    <3>3. QED
      BY <3>2 DEF Copied
  <2>4. r \in Seq(Vals) /\ Len(r) = n - one /\ \A i \in 1 .. n - one : r[i] = s[one + i]
    <3>1. \A i \in one + 1 .. n : s[i] \in Vals
      BY <1>2, SMTT(60)
    <3>2. QED
      BY <1>1, <1>2, <1>7, <3>1, <1>PartOf, SMTT(60)
  <2> HIDE DEF r, a
  <2>5. /\ c = [buf |-> c.buf, size |-> b.size, head |-> b.head, tail |-> b.tail]
        /\ c.buf \in [0 .. b.size - 1 -> Vals]
        /\ \A i \in 0 .. b.size - 1 :
              c.buf[i] = IF 0 <= i /\ i < 0 + (n - one) THEN r[i - 0 + 1] ELSE a.buf[i]
    <3>2. a.size = b.size /\ a.head = b.head /\ a.tail = b.tail /\ IsBuffer(a)
      BY <1>2, <2>3, SMTT(60) DEF IsBuffer
    <3>3. Copied(c, a, 0, n - one, r)
      BY <2>4, <3>2, <1>CopyToIs, SMTT(60)
    <3>4. QED
      BY <3>2, <3>3 DEF Copied
  <2> HIDE DEF c
  <2>6. ASSUME NEW i \in 0 .. b.size - 1
        PROVE  c.buf[i] = b.buf[i] \/ \E j \in Nat : j < n /\ i = Slot(b.tail, j, b.size)
    <3>1. CASE i < n - one
      <4>1. i + one \in Nat /\ i + one < n /\ i = Slot(b.tail, i + one, b.size)
        BY <1>1, <1>2, <3>1, SMTT(60) DEF Slot
      <4>2. QED
        BY <4>1
    <3>2. CASE ~(i < n - one) /\ b.tail <= i
      <4>1. i - b.tail \in Nat /\ i - b.tail < n /\ i = Slot(b.tail, i - b.tail, b.size)
        BY <1>2, <1>7, <3>2, SMTT(60) DEF Slot
      <4>2. QED
        BY <4>1, SMTT(60)
    <3>3. CASE ~(i < n - one) /\ ~(b.tail <= i)
      BY <1>2, <2>3, <2>5, <3>3, SMTT(60)
    <3>4. QED
      BY <3>1, <3>2, <3>3
  <2>7. SameQueue(c, b)
    BY <1>4, <2>5, <2>6
  <2>8. ASSUME NEW j \in 1 .. n PROVE c.buf[Slot(b.tail, j - 1, b.size)] = s[j]
    <3>1. CASE j <= one
      <4> DEFINE i == b.tail + j - 1
      <4>1. Slot(b.tail, j - 1, b.size) = i /\ i \in 0 .. b.size - 1 /\ ~(i < n - one)
            /\ b.tail <= i /\ i < b.tail + one /\ i - b.tail + 1 = j
        BY <1>1, <1>2, <3>1, SMTT(60) DEF Slot
      <4> HIDE DEF i
      <4>2. c.buf[i] = a.buf[i] /\ a.buf[i] = s[i - b.tail + 1]
        BY <1>1, <1>2, <2>3, <2>5, <4>1, SMTT(60)
      <4>3. QED
        BY <4>1, <4>2
    <3>2. CASE ~(j <= one)
      <4> DEFINE i == j - one - 1
      <4>1. Slot(b.tail, j - 1, b.size) = i /\ i \in 0 .. b.size - 1 /\ i < n - one
            /\ i + 1 \in 1 .. n - one /\ one + (i + 1) = j /\ i - 0 + 1 = i + 1
        <5>1. j \in Nat /\ j <= n /\ n < b.size /\ j > one /\ b.tail + one = b.size
          BY <1>1, <1>2, <3>2, SMTT(60)
        <5>2. ~(b.tail + (j - 1) < b.size) /\ b.tail + (j - 1) - b.size = i
          BY <1>2, <5>1, SMTT(60)
        <5>3. Slot(b.tail, j - 1, b.size) = i
          BY <5>2 DEF Slot
        <5>4. one \in Nat /\ n \in Nat /\ b.size \in Nat /\ one > 0
          BY <1>2, SMTT(60)
        <5>5. i = j - one - 1
          OBVIOUS
        <5> HIDE DEF n, one, i
        <5>6. i \in Nat /\ i < n - one /\ i + 1 <= n - one /\ one + (i + 1) = j /\ i < b.size
          BY <5>1, <5>4, <5>5, SMTT(60)
        <5>8. QED
          BY <5>3, <5>4, <5>6, SMTT(60)
      <4> HIDE DEF i
      <4>2. i \in Nat /\ i < 0 + (n - one)
        BY <1>2, <4>1, SMTT(60)
      <4>3. c.buf[i] = r[i - 0 + 1]
        BY <2>5, <4>1, <4>2, SMTT(60)
      <4>4. r[i + 1] = s[one + (i + 1)]
        BY <2>4, <4>1
      <4>5. QED
        BY <4>1, <4>3, <4>4
    <3>3. QED
      BY <3>1, <3>2
  <2>9. QED
    BY <2>2, <2>7, <2>8, SMTT(60)
<1>8. QED
  BY <1>2, <1>5, <1>6, <1>7, SMTT(60)

LEMMA OnePiece ==
    ASSUME NEW d \in Nat, NEW l \in Nat
    PROVE  LET v == <<IoVec(d, l)>>
           IN  v \in Seq(Piece) /\ Len(v) = 1 /\ v # <<>> /\ v[1].data = d /\ v[1].len = l
BY SMTT(60) DEF IoVec, Piece

LEMMA TwoPieces ==
    ASSUME NEW d \in Nat, NEW l \in Nat, NEW e \in Nat, NEW m \in Nat
    PROVE  LET v == <<IoVec(d, l), IoVec(e, m)>>
           IN  /\ v \in Seq(Piece) /\ Len(v) = 2 /\ v # <<>>
               /\ v[1].data = d /\ v[1].len = l /\ v[2].data = e /\ v[2].len = m
BY SMTT(60) DEF IoVec, Piece

\* reserve() gives the free slots from tail on.
LEMMA ReserveIs ==
    ASSUME NEW b, Ring(b), b.size > 0
    PROVE  LET v == reserve(b, space(b))
           IN  v \in Seq(Piece) /\ (v # <<>> => Pieces(v, b.tail, space(b), b.size))
<1> DEFINE n == space(b)
           one == b.size - b.tail
           v == reserve(b, n)
<1>1. n \in Nat /\ one \in Nat /\ one > 0 /\ b.tail \in Nat /\ b.size \in Nat
      /\ b.tail + one = b.size
  <2>1. n \in Nat
    BY Counts
  <2>2. one \in Nat /\ one > 0 /\ b.tail \in Nat /\ b.size \in Nat /\ b.tail + one = b.size
    BY SMTT(60) DEF Ring
  <2>3. QED
    BY <2>1, <2>2
<1>2. Lesser(n, n) = n
  BY DEF Lesser
<1>3. CASE n = 0
  <2>1. v = <<>>
    BY <1>2, <1>3 DEF reserve
  <2>2. QED
    BY <2>1, SMTT(60)
<1>4. CASE n > 0 /\ n <= one
  <2>1. v = <<IoVec(b.tail, n)>>
    BY <1>2, <1>4, SMTT(60) DEF reserve
  <2> HIDE DEF n, one, v
  <2>2. v \in Seq(Piece) /\ Len(v) = 1 /\ v[1].data = b.tail /\ v[1].len = n
    BY <1>1, <2>1, OnePiece, SMTT(60)
  <2>3. Pieces(v, b.tail, n, b.size)
    BY <1>1, <1>4, <2>2, SMTT(60) DEF Pieces
  <2>4. QED
    BY <2>2, <2>3 DEF v, n
<1>5. CASE n > one
  <2>1. v = <<IoVec(b.tail, one), IoVec(0, n - one)>>
    BY <1>1, <1>2, <1>5, SMTT(60) DEF reserve
  <2> HIDE DEF n, one, v
  <2>2. n - one \in Nat /\ 0 \in Nat /\ n - one > 0 /\ one + (n - one) <= n
    BY <1>1, <1>5, SMTT(60)
  <2>3. v \in Seq(Piece) /\ Len(v) = 2 /\ v[1].data = b.tail /\ v[1].len = one
        /\ v[2].data = 0 /\ v[2].len = n - one
    BY <1>1, <2>1, <2>2, TwoPieces, SMTT(60)
  <2>4. Pieces(v, b.tail, n, b.size)
    BY <1>1, <2>2, <2>3, SMTT(60) DEF Pieces
  <2>5. QED
    BY <2>3, <2>4 DEF v, n
<1>6. QED
  BY <1>1, <1>3, <1>4, <1>5, SMTT(60)

\* peekiovec() gives the bytes from head on.
LEMMA PeekIs ==
    ASSUME NEW b, Ring(b), b.size > 0
    PROVE  LET v == peekiovec(b, available(b))
           IN  v \in Seq(Piece) /\ (v # <<>> => Pieces(v, b.head, available(b), b.size))
<1> DEFINE n == available(b)
           one == readptr(b)
           v == peekiovec(b, n)
<1>1. n \in Nat /\ one \in Nat /\ b.head \in Nat /\ b.size \in Nat /\ one <= n
      /\ b.head + one <= b.size
      /\ (one < n => b.head + one = b.size /\ one > 0)
  BY SMTT(60) DEF Ring, available, readptr
<1>2. Lesser(n, n) = n /\ Lesser(one, n) = one
  BY <1>1, SMTT(60) DEF Lesser
<1>3. CASE n = 0
  <2>1. v = <<>>
    BY <1>2, <1>3 DEF peekiovec
  <2>2. QED
    BY <2>1, SMTT(60)
<1>4. CASE n > 0 /\ n <= one
  <2>1. v = <<IoVec(b.head, one)>>
    BY <1>2, <1>4, SMTT(60) DEF peekiovec
  <2> HIDE DEF n, one, v
  <2>2. v \in Seq(Piece) /\ Len(v) = 1 /\ v[1].data = b.head /\ v[1].len = one
    BY <1>1, <2>1, OnePiece, SMTT(60)
  <2>3. Pieces(v, b.head, n, b.size)
    BY <1>1, <1>4, <2>2, SMTT(60) DEF Pieces
  <2>4. QED
    BY <2>2, <2>3 DEF v, n
<1>5. CASE n > one
  <2>1. v = <<IoVec(b.head, one), IoVec(0, n - one)>>
    BY <1>1, <1>2, <1>5, SMTT(60) DEF peekiovec
  <2> HIDE DEF n, one, v
  <2>2. n - one \in Nat /\ 0 \in Nat /\ n - one > 0 /\ one + (n - one) <= n /\ one > 0
        /\ b.head + one = b.size
    BY <1>1, <1>5, SMTT(60)
  <2>3. v \in Seq(Piece) /\ Len(v) = 2 /\ v[1].data = b.head /\ v[1].len = one
        /\ v[2].data = 0 /\ v[2].len = n - one
    BY <1>1, <2>1, TwoPieces, SMTT(60)
  <2>4. Pieces(v, b.head, n, b.size)
    BY <2>2, <2>3, SMTT(60) DEF Pieces
  <2>5. QED
    BY <2>3, <2>4 DEF v, n
<1>6. QED
  BY <1>1, <1>3, <1>4, <1>5, SMTT(60)

LEMMA PieceTypes ==
    ASSUME NEW v \in Seq(Piece), NEW k, NEW n, NEW size, Pieces(v, k, n, size)
    PROVE  /\ v[1].data \in Nat /\ v[1].len \in Nat /\ Head(v) = v[1] /\ v # <<>>
           /\ Len(v) \in 1 .. 2 /\ (Len(v) = 2 => v[2].data \in Nat /\ v[2].len \in Nat)
<1>1. Len(v) \in 1 .. 2
  BY DEF Pieces
<1>2. v[1] \in Piece /\ (Len(v) = 2 => v[2] \in Piece)
  BY <1>1, SMTT(60)
<1>3. QED
  BY <1>1, <1>2, SMTT(60) DEF Piece

\* More room does not spoil the pieces held.
LEMMA PiecesKept ==
    ASSUME NEW v \in Seq(Piece), NEW k \in Nat, NEW n \in Nat, NEW m \in Nat, NEW size \in Nat,
           n <= m, Pieces(v, k, n, size)
    PROVE  Pieces(v, k, m, size)
<1>1. v[1].len \in Nat /\ (Len(v) = 2 => v[2].data \in Nat /\ v[2].len \in Nat)
  BY PieceTypes
<1>2. QED
  BY <1>1, SMTT(60) DEF Pieces

\* The first piece lies in one stretch.
LEMMA FirstPiece ==
    ASSUME NEW v \in Seq(Piece), NEW k \in Nat, NEW n \in Nat, NEW size \in Nat, k < size, n < size,
           Pieces(v, k, n, size)
    PROVE  /\ v[1].len <= n /\ k + v[1].len <= size
           /\ \A i \in Nat : i < v[1].len => Slot(k, i, size) = k + i
<1> DEFINE l == v[1].len
           m == v[2].len
<1>a. v[1].len \in Nat /\ (Len(v) = 2 => v[2].data \in Nat /\ v[2].len \in Nat)
      /\ Len(v) \in 1 .. 2
  BY PieceTypes
<1>1. v[1].len \in Nat /\ v[1].len <= n /\ k + v[1].len <= size
  <2>1. CASE Len(v) = 1
    BY <1>a, SMTT(60) DEF Pieces
  <2>2. CASE Len(v) = 2
    <3>1. k + l = size /\ m > 0 /\ l + m <= n /\ l \in Nat /\ m \in Nat
      BY <1>a, <2>2 DEF Pieces
    <3> HIDE DEF l, m
    <3>3. QED
      BY <3>1, SMTT(60) DEF l
  <2>3. QED
    BY <1>a, <2>1, <2>2, SMTT(60)
<1>2. QED
  BY <1>1, SMTT(60) DEF Slot

\* What is left when the first piece is done with.
LEMMA LastPiece ==
    ASSUME NEW v \in Seq(Piece), NEW k \in Nat, NEW n \in Nat, NEW size \in Nat, k < size, n < size,
           Pieces(v, k, n, size)
    PROVE  /\ Tail(v) \in Seq(Piece)
           /\ Tail(v) # <<>> =>
                 /\ Slot(k, v[1].len, size) = 0
                 /\ Pieces(Tail(v), 0, n - v[1].len, size)
<1>1. v # <<>> /\ Len(v) \in 1 .. 2 /\ v[1].len \in Nat
      /\ (Len(v) = 2 => v[2].data \in Nat /\ v[2].len \in Nat)
  BY PieceTypes
<1>2. Tail(v) \in Seq(Piece) /\ Len(Tail(v)) = Len(v) - 1
      /\ \A i \in 1 .. Len(Tail(v)) : Tail(v)[i] = v[i + 1]
  BY <1>1, SMTT(60)
<1>3. CASE Len(v) = 1
  <2>1. Len(Tail(v)) = 0
    BY <1>3, SMTT(60)
  <2>2. Tail(v) = <<>>
    BY <1>2, <2>1, EmptyIs
  <2>3. QED
    BY <1>2, <2>2
<1>4. CASE Len(v) = 2
  <2>1. Len(Tail(v)) = 1 /\ Tail(v)[1] = v[2]
    <3>1. Len(Tail(v)) = 1 /\ 1 \in 1 .. 1 /\ 1 + 1 = 2
      BY <1>4, SMTT(60)
    <3>3. QED
      BY <3>1, SMTT(60)
  <2>2. k + v[1].len = size /\ v[2].data = 0 /\ v[2].len > 0 /\ v[1].len + v[2].len <= n
    BY <1>4 DEF Pieces
  <2>3. Slot(k, v[1].len, size) = 0
    BY <1>1, <2>2, SMTT(60) DEF Slot
  <2>4. v[2].len <= n - v[1].len /\ 0 + v[2].len <= size
    BY <1>1, <1>4, <2>2, SMTT(60)
  <2>5. Pieces(Tail(v), 0, n - v[1].len, size)
    BY <2>1, <2>2, <2>4, SMTT(60) DEF Pieces
  <2>6. QED
    BY <1>2, <2>3, <2>5
<1>5. QED
  BY <1>1, <1>3, <1>4, SMTT(60)

LEMMA NewRing ==
    ASSUME NEW n \in Nat
    PROVE  /\ Ring(set_size(n)) /\ set_size(n).size = n /\ available(set_size(n)) = 0
           /\ Contents(set_size(n)) = <<>>
<1>1. set_size(n).buf \in [0 .. n - 1 -> Vals]
  BY DEF set_size, Vals
<1>2. Ring(set_size(n)) /\ set_size(n).size = n
  BY <1>1 DEF Ring, set_size
<1>3. available(set_size(n)) = 0
  BY SMTT(60) DEF available, set_size
<1>4. Contents(set_size(n)) = <<>>
  BY <1>3, SMTT(60) DEF Contents
<1>5. QED
  BY <1>2, <1>3, <1>4

-----------------------------------------------------------------------------
(* Which steps change which ring *)

\* The steps that store into _readbuf.
LEMMA ReadRingSteps ==
    ASSUME Next
    PROVE  \/ UNCHANGED _readbuf
           \/ _read_fd \/ tick_commit \/ begin_set_rx \/ read_advance
<1>1. CASE rt_hw_serial_isr
  BY <1>1 DEF rt_hw_serial_isr
<1>2. CASE UartThread
  BY <1>2 DEF UartThread, tick_test, tick_mark, tick_peek, _write_fd, tick_advance, tick_reserve,
              tick_done
<1>3. CASE Begin
  BY <1>3 DEF Begin, begin_call, begin_rx, begin_tx, begin_set_tx, begin_open
<1>4. CASE read_peek \/ set_blocking_writes
  BY <1>4 DEF read_peek, set_blocking_writes
<1>5. ASSUME NEW w \in Writers, Write(w)
      PROVE  UNCHANGED _readbuf
  BY <1>5 DEF Write, write_call, write_fill, write_refused, write_commit, WriteOnly
<1>6. QED
  BY <1>1, <1>2, <1>3, <1>4, <1>5 DEF Next

\* The steps that store into _writebuf.
LEMMA WriteRingSteps ==
    ASSUME Next
    PROVE  \/ UNCHANGED _writebuf
           \/ tick_advance \/ begin_set_tx
           \/ \E w \in Writers : write_fill(w) \/ write_commit(w)
<1>1. CASE rt_hw_serial_isr
  BY <1>1 DEF rt_hw_serial_isr
<1>2. CASE UartThread
  BY <1>2 DEF UartThread, tick_test, tick_mark, tick_peek, _write_fd, tick_reserve, _read_fd,
              tick_commit, tick_done
<1>3. CASE Begin
  BY <1>3 DEF Begin, begin_call, begin_rx, begin_tx, begin_set_rx, begin_open
<1>4. CASE read_peek \/ read_advance \/ set_blocking_writes
  BY <1>4 DEF read_peek, read_advance, set_blocking_writes
<1>5. ASSUME NEW w \in Writers, Write(w)
      PROVE  UNCHANGED _writebuf \/ write_fill(w) \/ write_commit(w)
  BY <1>5 DEF Write, write_call, write_refused
<1>6. QED
  BY <1>1, <1>2, <1>3, <1>4, <1>5 DEF Next

LEMMA FifoNonEmpty ==
    ASSUME Types, ~FifoEmpty
    PROVE  rx_fifo.buffer[rx_fifo.get_index] \in Vals
BY DEF Types

\* What a byte's way from rx_fifo to _readbuf changes.
LEMMA ReadFdIs ==
    ASSUME Types, SizeInv, RxInv, _read_fd, ~(tick.got = Head(tick.vec).len \/ FifoEmpty)
    PROVE  /\ SameQueue(_readbuf', _readbuf)
           /\ _readbuf'.buf = [_readbuf.buf EXCEPT
                  ![Slot(_readbuf.tail, tick.got, _readbuf.size)] =
                      rx_fifo.buffer[rx_fifo.get_index]]
           /\ tick.got < tick.vec[1].len /\ ~FifoEmpty
           /\ tick' = [tick EXCEPT !.got = @ + 1]
           /\ rx_fifo' = [rx_fifo EXCEPT !.get_index = Following(@), !.is_full = FALSE]
<1> DEFINE v == tick.vec
           b == _readbuf
           k == Slot(b.tail, tick.got, b.size)
           x == rx_fifo.buffer[rx_fifo.get_index]
<1>1. tick.pc = "read" /\ ~(tick.got = Head(v).len \/ FifoEmpty)
      /\ _readbuf' = [_readbuf EXCEPT !.buf[Head(v).data + tick.got] = x]
      /\ rx_fifo' = [rx_fifo EXCEPT !.get_index = Following(@), !.is_full = FALSE]
      /\ tick' = [tick EXCEPT !.got = @ + 1]
  BY DEF _read_fd
<1>2. tick # Asleep
  BY <1>1, SMTT(60) DEF Asleep
<1>3. b.size = MinRx /\ b.size > 0 /\ Ring(b) /\ MinRx \in Nat
  BY <1>2, UARTAssumption, SMTT(60) DEF SizeInv, Types
<1>4. Pieces(v, b.tail, space(b), b.size) /\ tick.got <= v[1].len /\ v \in Seq(Piece) /\ tick.got \in Nat
  BY <1>1 DEF RxInv, Types
<1>5. Head(v) = v[1] /\ v[1].len \in Nat /\ v[1].data = b.tail
  <2>1. Head(v) = v[1] /\ v[1].len \in Nat
    BY <1>4, PieceTypes
  <2>2. QED
    BY <1>4, <2>1 DEF Pieces
<1>6. tick.got < v[1].len
  BY <1>4, <1>5, SMTT(60)
<1>7. b.tail \in Nat /\ b.size \in Nat /\ b.tail < b.size /\ space(b) \in Nat /\ space(b) < b.size
  <2>1. space(b) \in Nat /\ available(b) \in Nat /\ space(b) + available(b) = b.size - 1
    BY <1>3, Counts
  <2>2. b.tail \in Nat /\ b.size \in Nat /\ b.tail < b.size
    BY <1>3 DEF Ring
  <2>3. QED
    BY <2>1, <2>2, SMTT(60)
<1>8. v[1].len <= space(b) /\ k = b.tail + tick.got
  BY <1>4, <1>6, <1>7, FirstPiece, SMTT(60)
<1>9. tick.got <= space(b)
  BY <1>4, <1>5, <1>7, <1>8, SMTT(60)
<1>10. x \in Vals
  BY FifoNonEmpty
<1>11. _readbuf' = [b EXCEPT !.buf[k] = x]
  BY <1>1, <1>5, <1>8
<1> HIDE DEF v, b, k, x
<1>12. SameQueue([b EXCEPT !.buf[k] = x], b) /\ [b EXCEPT !.buf[k] = x].buf = [b.buf EXCEPT ![k] = x]
  BY <1>3, <1>4, <1>9, <1>10, PutByte, SMTT(60) DEF k
<1>13. QED
  BY <1>1, <1>6, <1>11, <1>12 DEF b, k, x, v

\* Outside its sleep, the tick finds both rings.
LEMMA RingsInTick ==
    ASSUME Types, SizeInv, tick.pc # "sleep"
    PROVE  /\ Ring(_readbuf) /\ _readbuf.size = MinRx /\ _readbuf.size > 0
           /\ Ring(_writebuf) /\ _writebuf.size = MinTx /\ _writebuf.size > 0
<1>1. tick # Asleep
  BY SMTT(60) DEF Asleep
<1>2. QED
  BY <1>1, UARTAssumption, SMTT(60) DEF SizeInv, Types

LEMMA RingNumbers ==
    ASSUME NEW b, Ring(b), b.size > 0
    PROVE  /\ b.size \in Nat /\ b.head \in Nat /\ b.tail \in Nat /\ b.head < b.size /\ b.tail < b.size
           /\ available(b) \in Nat /\ space(b) \in Nat
           /\ available(b) < b.size /\ space(b) < b.size
<1>1. available(b) \in Nat /\ space(b) \in Nat /\ space(b) + available(b) = b.size - 1
  BY Counts
<1>2. b.size \in Nat /\ b.head \in Nat /\ b.tail \in Nat /\ b.head < b.size /\ b.tail < b.size
  BY DEF Ring
<1>3. QED
  BY <1>1, <1>2, SMTT(60)

\* What commit of the tick changes.
LEMMA TickCommitIs ==
    ASSUME Types, SizeInv, RxInv, tick_commit
    PROVE  /\ tick.got \in Nat /\ tick.got <= space(_readbuf)
           /\ Ring(_readbuf) /\ _readbuf.size > 0
           /\ _readbuf' = commit(_readbuf, tick.got)
           /\ tick'.pc \in {"read", "done"} /\ tick'.got = 0
           /\ tick' = [pc |-> tick'.pc, vec |-> tick'.vec, got |-> 0]
           /\ tick'.vec \in Seq(Piece)
           /\ tick'.pc = "read" =>
                 Pieces(tick'.vec, _readbuf'.tail, space(_readbuf'), _readbuf'.size)
<1> DEFINE v == tick.vec
           b == _readbuf
           c == commit(b, tick.got)
<1>1. tick.pc = "commit" /\ _readbuf' = c
      /\ tick' = [pc |-> IF tick.got = Head(v).len /\ Tail(v) # <<>> THEN "read" ELSE "done",
                  vec |-> Tail(v), got |-> 0]
  BY DEF tick_commit
<1>2. Ring(b) /\ b.size > 0
  BY <1>1, RingsInTick
<1>3. Pieces(v, b.tail, space(b), b.size) /\ tick.got <= v[1].len /\ v \in Seq(Piece) /\ tick.got \in Nat
  BY <1>1 DEF RxInv, Types
<1>4. Head(v) = v[1] /\ v[1].len \in Nat
  BY <1>3, PieceTypes
<1>5. b.tail \in Nat /\ b.size \in Nat /\ b.tail < b.size /\ space(b) \in Nat /\ space(b) < b.size
  BY <1>2, RingNumbers
<1>6. v[1].len <= space(b)
  BY <1>3, <1>5, FirstPiece
<1>7. tick.got <= space(b)
  BY <1>3, <1>4, <1>5, <1>6, SMTT(60)
<1>8. Tail(v) \in Seq(Piece)
      /\ (Tail(v) # <<>> => Slot(b.tail, v[1].len, b.size) = 0
                            /\ Pieces(Tail(v), 0, space(b) - v[1].len, b.size))
  BY <1>3, <1>5, LastPiece
<1>9. c.size = b.size /\ c.tail = Slot(b.tail, tick.got, b.size) /\ space(c) = space(b) - tick.got
  BY <1>2, <1>3, <1>7, CommitIs
<1> HIDE DEF b, v, c
<1>10. ASSUME tick'.pc = "read"
       PROVE  Pieces(tick'.vec, c.tail, space(c), c.size)
  <2>1. tick.got = v[1].len /\ Tail(v) # <<>> /\ tick'.vec = Tail(v)
    BY <1>1, <1>10, SMTT(60)
  <2>2. QED
    BY <1>8, <1>9, <2>1
<1>12. QED
  BY <1>1, <1>2, <1>3, <1>7, <1>8, <1>10 DEF b, c

\* read() drops a byte that is there.
LEMMA ReadAdvanceIs ==
    ASSUME Types, SizeInv, RxInv, read_advance
    PROVE  /\ 1 <= available(_readbuf) /\ byte = peek(_readbuf)
           /\ Ring(_readbuf) /\ _readbuf.size > 0
           /\ _readbuf' = advance(_readbuf, 1)
<1>1. available(_readbuf) > 0 /\ byte = peek(_readbuf) /\ _readbuf' = advance(_readbuf, 1)
  BY DEF read_advance, RxInv
<1>2. Ring(_readbuf) /\ _readbuf.size \in Nat
  BY DEF Types, Ring
<1>3. _readbuf.size # 0
  BY <1>1, <1>2, NoSlots, SMTT(60)
<1>4. available(_readbuf) \in Nat
  BY <1>2, <1>3, Counts, SMTT(60)
<1>5. QED
  BY <1>1, <1>2, <1>3, <1>4, SMTT(60)

\* The tick's advance drops bytes that are there.
LEMMA TickAdvanceIs ==
    ASSUME Types, SizeInv, TxInv, tick_advance
    PROVE  /\ tick.vec[1].len \in Nat /\ tick.vec[1].len <= available(_writebuf)
           /\ Head(tick.vec) = tick.vec[1] /\ tick.vec[1].len > 0
           /\ Ring(_writebuf) /\ _writebuf.size > 0
           /\ _writebuf' = advance(_writebuf, tick.vec[1].len)
           /\ tick'.pc \in {"reserve", "write"} /\ tick'.vec \in Seq(Piece) /\ tick'.got = tick.got
           /\ tick' = [pc |-> tick'.pc, vec |-> tick'.vec, got |-> tick.got]
           /\ tick'.pc = "write" =>
                 Pieces(tick'.vec, _writebuf'.head, available(_writebuf'), _writebuf'.size)
<1> DEFINE v == tick.vec
           b == _writebuf
           c == advance(b, v[1].len)
<1>1. tick.pc = "advance" /\ _writebuf' = advance(b, Head(v).len)
      /\ tick' = [tick EXCEPT !.vec = Tail(@), !.pc = IF Tail(v) = <<>> THEN "reserve" ELSE "write"]
  BY DEF tick_advance
<1>2. Ring(b) /\ b.size > 0
  BY <1>1, RingsInTick
<1>3. Pieces(v, b.head, available(b), b.size) /\ v \in Seq(Piece)
      /\ tick = [pc |-> tick.pc, vec |-> v, got |-> tick.got]
  BY <1>1 DEF TxInv, Types
<1>4. Head(v) = v[1] /\ v[1].len \in Nat
  BY <1>3, PieceTypes
<1>4a. v[1].len > 0
  BY <1>3 DEF Pieces
<1>5. b.head \in Nat /\ b.size \in Nat /\ b.head < b.size /\ available(b) \in Nat /\ available(b) < b.size
  BY <1>2, RingNumbers
<1>6. v[1].len <= available(b)
  BY <1>3, <1>5, FirstPiece
<1>8. Tail(v) \in Seq(Piece)
      /\ (Tail(v) # <<>> => Slot(b.head, v[1].len, b.size) = 0
                            /\ Pieces(Tail(v), 0, available(b) - v[1].len, b.size))
  BY <1>3, <1>5, LastPiece
<1>9. c.size = b.size /\ c.head = Slot(b.head, v[1].len, b.size)
      /\ available(c) = available(b) - v[1].len
  BY <1>2, <1>4, <1>6, AdvanceIs
<1>11. tick'.pc = (IF Tail(v) = <<>> THEN "reserve" ELSE "write") /\ tick'.got = tick.got
       /\ tick'.vec = Tail(v) /\ tick' = [pc |-> tick'.pc, vec |-> tick'.vec, got |-> tick.got]
  BY <1>1, <1>3
<1>12. _writebuf' = c
  BY <1>1, SMTT(60)
<1> HIDE DEF b, v, c
<1>10. ASSUME tick'.pc = "write"
       PROVE  Pieces(tick'.vec, c.head, available(c), c.size)
  <2>1. Tail(v) # <<>> /\ tick'.vec = Tail(v)
    BY <1>11, <1>10
  <2>2. QED
    BY <1>8, <1>9, <2>1
<1>14. QED
  BY <1>2, <1>4, <1>4a, <1>6, <1>8, <1>10, <1>11, <1>12 DEF b, c, v

\* write() fills free slots, from tail on, with the next bytes.
LEMMA WriteFillIs ==
    ASSUME Types, SizeInv, NEW w \in Writers, write_fill(w)
    PROVE  LET len == writer'[w].len
           IN  /\ Ring(_writebuf) /\ _writebuf.size > 0
               /\ len \in Nat /\ len <= space(_writebuf)
               /\ len <= (IF writer[w].bytewise THEN 1 ELSE writer[w].left)
               /\ offered' = offered + len
               /\ writer' = [writer EXCEPT ![w].pc = "commit", ![w].len = len]
               /\ SameQueue(_writebuf', _writebuf)
               /\ \A j \in 1 .. len :
                     _writebuf'.buf[Slot(_writebuf.tail, j - 1, _writebuf.size)] = offered + j
<1> DEFINE b == _writebuf
           m == IF writer[w].bytewise THEN 1 ELSE writer[w].left
           len == Lesser(m, space(b))
           s == [i \in 1 .. len |-> offered + i]
<1>1. writer[w].pc = "fill" /\ _writebuf' = Fill(b, s) /\ offered' = offered + len
      /\ writer' = [writer EXCEPT ![w].pc = "commit", ![w].len = len]
  BY DEF write_fill
<1>2. Ring(b) /\ b.size > 0
  <2> HIDE DEF m, len, s
  <2>1. b.size = MinTx
    BY <1>1 DEF SizeInv
  <2>2. MinTx > 0
    BY UARTAssumption, SMTT(60)
  <2>3. QED
    BY <2>1, <2>2 DEF Types
<1>3. space(b) \in Nat
  BY <1>2, RingNumbers
<1>4. writer[w] \in [pc : {"out", "fill", "commit"}, left : Nat, len : Nat, bytewise : BOOLEAN]
      /\ writer \in [Writers -> [pc : {"out", "fill", "commit"}, left : Nat, len : Nat,
                                 bytewise : BOOLEAN]]
      /\ offered \in Nat
  BY DEF Types
<1>5. m \in Nat
  BY <1>4
<1>6. writer'[w].len = len
  BY <1>1, <1>4
<1> HIDE DEF m, b
<1>7. len \in Nat /\ len <= space(b) /\ len <= m
  BY <1>3, <1>5, SMTT(60) DEF Lesser
<1> HIDE DEF len
<1>8. s \in Seq(Vals) /\ Len(s) = len /\ \A j \in 1 .. len : s[j] = offered + j
  <2>1. \A j \in 1 .. len : offered + j \in Vals
    BY <1>4, SMTT(60) DEF Vals
  <2>2. s \in [1 .. len -> Vals]
    BY <2>1
  <2>3. s \in Seq(Vals) /\ Len(s) = len
    BY <1>7, <2>2, SMTT(60)
  <2>4. QED
    BY <2>3
<1> HIDE DEF s
<1>9. SameQueue(Fill(b, s), b)
      /\ \A j \in 1 .. Len(s) : Fill(b, s).buf[Slot(b.tail, j - 1, b.size)] = s[j]
  BY <1>2, <1>7, <1>8, FillIs
<1>10. \A j \in 1 .. len : _writebuf'.buf[Slot(b.tail, j - 1, b.size)] = offered + j
  BY <1>1, <1>8, <1>9
<1>11. QED
  BY <1>1, <1>2, <1>6, <1>7, <1>9, <1>10 DEF b, m

\* commit of write() takes its bytes in, or nothing.
LEMMA WriteCommitIs ==
    ASSUME Types, SizeInv, NEW w \in Writers, write_commit(w)
    PROVE  /\ Ring(_writebuf) /\ _writebuf.size > 0
           /\ writer[w].len \in Nat
           /\ _writebuf' = commit(_writebuf, writer[w].len)
           /\ writer[w].len <= space(_writebuf) \/ _writebuf' = _writebuf
<1>1. writer[w].pc = "commit" /\ _writebuf' = commit(_writebuf, writer[w].len)
  BY DEF write_commit
<1>2. Ring(_writebuf) /\ _writebuf.size > 0 /\ writer[w].len \in Nat
  BY <1>1, UARTAssumption, SMTT(60) DEF SizeInv, Types
<1>3. space(_writebuf) \in Nat
  BY <1>2, RingNumbers
<1>4. writer[w].len <= space(_writebuf) \/ commit(_writebuf, writer[w].len) = _writebuf
  BY <1>2, <1>3, SMTT(60) DEF commit
<1>5. QED
  BY <1>1, <1>2, <1>4

\* The rings stay in order, and a ring of any size keeps it.
LEMMA RingsStep ==
    ASSUME Types, SizeInv, RxInv, TxInv, Next
    PROVE  /\ Ring(_readbuf') /\ Ring(_writebuf')
           /\ \/ _readbuf'.size = _readbuf.size
              \/ begin.pc = "set_rx" /\ begin_set_rx /\ _readbuf'.size \in {0, MinRx}
           /\ \/ _writebuf'.size = _writebuf.size
              \/ begin.pc = "set_tx" /\ begin_set_tx /\ _writebuf'.size \in {0, MinTx}
<1>1. Ring(_readbuf) /\ Ring(_writebuf)
  BY DEF Types
<1>2. Ring(_readbuf') /\ \/ _readbuf'.size = _readbuf.size
                         \/ begin.pc = "set_rx" /\ begin_set_rx /\ _readbuf'.size \in {0, MinRx}
  <2>1. CASE UNCHANGED _readbuf
    BY <1>1, <2>1
  <2>2. CASE _read_fd /\ ~(tick.got = Head(tick.vec).len \/ FifoEmpty)
    <3>1. SameQueue(_readbuf', _readbuf)
      BY <2>2, ReadFdIs
    <3>2. tick.pc = "read"
      BY <2>2 DEF _read_fd
    <3>3. _readbuf.size > 0
      BY <3>2, RingsInTick
    <3>4. QED
      BY <1>1, <3>1, <3>3, SameQueueKeeps
  <2>3. CASE tick_commit
    BY <2>3, TickCommitIs, CommitIs, SMTT(60)
  <2>4. CASE begin_set_rx
    <3>1. begin.pc = "set_rx" /\ begin.rx = MinRx /\ _readbuf' \in {set_size(MinRx), set_size(0)}
      BY <2>4 DEF begin_set_rx, SizeInv
    <3>2. MinRx \in Nat /\ 0 \in Nat
      BY UARTAssumption
    <3>3. QED
      BY <2>4, <3>1, <3>2, NewRing
  <2>5. CASE read_advance
    BY <2>5, ReadAdvanceIs, AdvanceIs, SMTT(60)
  <2>6. CASE _read_fd /\ (tick.got = Head(tick.vec).len \/ FifoEmpty)
    BY <2>1, <2>6 DEF _read_fd
  <2>7. QED
    BY <2>1, <2>2, <2>3, <2>4, <2>5, <2>6, ReadRingSteps
<1>3. Ring(_writebuf') /\ \/ _writebuf'.size = _writebuf.size
                          \/ begin.pc = "set_tx" /\ begin_set_tx /\ _writebuf'.size \in {0, MinTx}
  <2>1. CASE UNCHANGED _writebuf
    BY <1>1, <2>1
  <2>2. CASE tick_advance
    BY <2>2, TickAdvanceIs, AdvanceIs, SMTT(60)
  <2>3. CASE begin_set_tx
    <3>1. begin.pc = "set_tx" /\ begin.tx = MinTx /\ _writebuf' \in {set_size(MinTx), set_size(0)}
      BY <2>3 DEF begin_set_tx, SizeInv
    <3>2. MinTx \in Nat /\ 0 \in Nat
      BY UARTAssumption
    <3>3. QED
      BY <2>3, <3>1, <3>2, NewRing
  <2>4. ASSUME NEW w \in Writers, write_fill(w)
        PROVE  Ring(_writebuf') /\ _writebuf'.size = _writebuf.size
    <3>1. SameQueue(_writebuf', _writebuf) /\ _writebuf.size > 0
      BY <2>4, WriteFillIs
    <3>2. QED
      BY <1>1, <3>1, SameQueueKeeps
  <2>5. ASSUME NEW w \in Writers, write_commit(w)
        PROVE  Ring(_writebuf') /\ _writebuf'.size = _writebuf.size
    BY <2>5, WriteCommitIs, CommitIs, SMTT(60)
  <2>6. QED
    BY <2>1, <2>2, <2>3, <2>4, <2>5, WriteRingSteps
<1>4. QED
  BY <1>2, <1>3

\* _write_fd puts the bytes of one piece on the line.
LEMMA WriteFdIs ==
    ASSUME Types, SizeInv, TxInv, _write_fd
    PROVE  LET n == tick.vec[1].len
               s == CopyFrom(_writebuf, Head(tick.vec))
           IN  /\ Ring(_writebuf) /\ _writebuf.size > 0
               /\ n \in Nat /\ n <= available(_writebuf) /\ n > 0 /\ Head(tick.vec) = tick.vec[1]
               /\ s \in Seq(Vals) /\ Len(s) = n /\ sent' = sent \o s
               /\ \A i \in 1 .. n : s[i] = _writebuf.buf[_writebuf.head + i - 1]
               /\ \A i \in 1 .. n : s[i] = _writebuf.buf[Slot(_writebuf.head, i - 1, _writebuf.size)]
<1> DEFINE v == tick.vec
           b == _writebuf
           n == v[1].len
           s == CopyFrom(b, Head(v))
<1>1. tick.pc = "write" /\ sent' = sent \o s
  BY DEF _write_fd
<1>2. Ring(b) /\ b.size > 0
  BY <1>1, RingsInTick
<1>3. Pieces(v, b.head, available(b), b.size) /\ v \in Seq(Piece)
  BY <1>1 DEF TxInv, Types
<1>4. Head(v) = v[1] /\ v[1].len \in Nat
  BY <1>3, PieceTypes
<1>5. v[1].len > 0 /\ v[1].data = b.head
  BY <1>3 DEF Pieces
<1>6. b.head \in Nat /\ b.size \in Nat /\ b.head < b.size /\ available(b) \in Nat /\ available(b) < b.size
  BY <1>2, RingNumbers
<1>7. v[1].len <= available(b) /\ b.head + v[1].len <= b.size
      /\ \A i \in Nat : i < v[1].len => Slot(b.head, i, b.size) = b.head + i
  BY <1>3, <1>6, FirstPiece
<1>8. s = [i \in 1 .. n |-> b.buf[b.head + i - 1]]
  BY <1>5, SMTT(60) DEF CopyFrom
<1>9. b.buf \in [0 .. b.size - 1 -> Vals]
  BY <1>2 DEF Ring
<1> HIDE DEF n, b, v, s
<1>10. \A i \in 1 .. n : b.head + i - 1 \in 0 .. b.size - 1 /\ i - 1 \in Nat /\ i - 1 < n
                         /\ b.head + (i - 1) = b.head + i - 1
  BY <1>4, <1>6, <1>7, SMTT(60) DEF n
<1>11. s \in [1 .. n -> Vals] /\ \A i \in 1 .. n : s[i] = b.buf[b.head + i - 1]
  BY <1>8, <1>9, <1>10
<1>12. s \in Seq(Vals) /\ Len(s) = n
  BY <1>4, <1>11, SMTT(60) DEF n
<1>13. \A i \in 1 .. n : Slot(b.head, i - 1, b.size) = b.head + i - 1
  BY <1>7, <1>10 DEF n
<1>14. \A i \in 1 .. n : s[i] = b.buf[Slot(b.head, i - 1, b.size)]
  BY <1>11, <1>13
<1>15. QED
  BY <1>1, <1>2, <1>5, <1>7, <1>11, <1>12, <1>14, SMTT(60) DEF s, n, b, v

WriterRecords == [pc : {"out", "fill", "commit"}, left : Nat, len : Nat, bytewise : BOOLEAN]

\* What write() does next, when a commit is done.
LEMMA WriterCommitted ==
    ASSUME Types, SizeInv, NEW w \in Writers, write_commit(w)
    PROVE  \E y \in WriterRecords :
              /\ writer' = [writer EXCEPT ![w] = y]
              /\ \/ y = NotInWrite
                 \/ /\ writer[w].bytewise /\ writer[w].left # 1
                    /\ y.pc = "fill" /\ y.left = writer[w].left - 1 /\ y.len = 0
                    /\ y.bytewise = writer[w].bytewise
<1>WriterGoesOn. ASSUME NEW x \in WriterRecords, x.left > 0
                 PROVE  LET y == [x EXCEPT !.pc = "fill", !.left = @ - 1, !.len = 0]
                        IN  /\ y \in WriterRecords /\ y.pc = "fill" /\ y.left = x.left - 1 /\ y.len = 0
                            /\ y.bytewise = x.bytewise
  <2> USE <1>WriterGoesOn
  <2>1. x.left - 1 \in Nat
    BY SMTT(60) DEF WriterRecords
  <2>2. ASSUME NEW k \in Nat
        PROVE  LET y == [x EXCEPT !.pc = "fill", !.left = k, !.len = 0]
               IN  /\ y \in WriterRecords /\ y.pc = "fill" /\ y.left = k /\ y.len = 0
                   /\ y.bytewise = x.bytewise
    <3> DEFINE y == [x EXCEPT !.pc = "fill", !.left = k, !.len = 0]
    <3>1. y \in WriterRecords
      BY DEF WriterRecords
    <3>4. QED
      BY <3>1, SMTT(60)
  <2>3. QED
    BY <2>1, <2>2
<1> DEFINE e == [writer[w] EXCEPT !.pc = "fill", !.left = @ - 1, !.len = 0]
           y == IF ~writer[w].bytewise \/ writer[w].left = 1 THEN NotInWrite ELSE e
<1>1. writer[w] \in WriterRecords
  BY DEF Types, WriterRecords
<1>2. writer[w].left > 0
  BY DEF SizeInv, write_commit
<1>3. e \in WriterRecords /\ e.pc = "fill" /\ e.left = writer[w].left - 1 /\ e.len = 0
      /\ e.bytewise = writer[w].bytewise
  BY <1>1, <1>2, <1>WriterGoesOn
<1>4. writer' = [writer EXCEPT ![w] = y]
  BY DEF write_commit
<1> HIDE DEF e
<1>5. NotInWrite \in WriterRecords
  BY DEF NotInWrite, WriterRecords
<1>6. QED
  BY <1>3, <1>4, <1>5

\* The main thread, the writers and the tick keep to the sizes.
LEMMA SizeStep ==
    ASSUME Types, SizeInv, RxInv, TxInv, [Next]_vars
    PROVE  SizeInv'
<1>0. CASE UNCHANGED vars
  BY <1>0 DEF vars, rx, port, SizeInv, Asleep
<1> SUFFICES ASSUME Next PROVE SizeInv'
  BY <1>0
<1> DEFINE RSize == \/ _readbuf'.size = _readbuf.size
                    \/ begin.pc = "set_rx" /\ begin_set_rx /\ _readbuf'.size \in {0, MinRx}
           WSize == \/ _writebuf'.size = _writebuf.size
                    \/ begin.pc = "set_tx" /\ begin_set_tx /\ _writebuf'.size \in {0, MinTx}
<1>1. RSize /\ WSize
  BY RingsStep
<1> HIDE DEF RSize, WSize
<1>4. CASE /\ _readbuf'.size = _readbuf.size /\ _writebuf'.size = _writebuf.size
           /\ UNCHANGED <<_initialised, writer, begin>> /\ (tick' # Asleep => tick # Asleep \/ _initialised)
  BY <1>4 DEF SizeInv, Asleep
<1>5. CASE rt_hw_serial_isr \/ read_peek \/ set_blocking_writes
  BY <1>4, <1>5 DEF rt_hw_serial_isr, read_peek, set_blocking_writes, port
<1>6. CASE read_advance
  <2>1. UNCHANGED <<_writebuf, _initialised, writer, begin, tick>>
    BY <1>6 DEF read_advance, port
  <2>2. _readbuf.size > 0
    BY <1>6, ReadAdvanceIs
  <2>3. _readbuf'.size = _readbuf.size
    BY <1>1, <2>2, SMTT(60) DEF SizeInv, RSize
  <2>4. QED
    BY <1>4, <2>1, <2>3
<1>7. CASE UartThread
  <2>1. UNCHANGED <<_initialised, writer, begin>>
    BY <1>7 DEF UartThread, tick_test, tick_mark, tick_peek, _write_fd, tick_advance, tick_reserve,
                _read_fd, tick_commit, tick_done, ThreadOnly, port
  <2>2. tick # Asleep \/ _initialised
    BY <1>7, SMTT(60) DEF UartThread, tick_test, tick_mark, tick_peek, _write_fd, tick_advance, tick_reserve,
                _read_fd, tick_commit, tick_done, Asleep
  <2>3. ~(begin_set_rx /\ begin.pc = "set_rx") /\ ~(begin_set_tx /\ begin.pc = "set_tx")
    BY <2>1 DEF begin_set_rx, begin_set_tx, Types
  <2>4. QED
    BY <1>1, <1>4, <2>1, <2>2, <2>3 DEF RSize, WSize
<1>8. ASSUME NEW w \in Writers, Write(w)
      PROVE  SizeInv'
  <2>1. UNCHANGED <<_readbuf, _initialised, begin, tick>>
    BY <1>8 DEF Write, write_call, write_fill, write_refused, write_commit, WriteOnly, port
  <2>2. ~(begin_set_tx /\ begin.pc = "set_tx")
    BY <2>1 DEF begin_set_tx, Types
  <2>3. _writebuf'.size = _writebuf.size
    BY <1>1, <2>2 DEF WSize
  <2>4. _initialised \/ writer[w].pc # "out"
    BY <1>8 DEF Write, write_call, write_fill, write_refused, write_commit
  <2>5. \A x \in Writers : x # w => writer'[x] = writer[x]
    BY <1>8 DEF Write, write_call, write_fill, write_refused, write_commit, Types
  <2>6. writer'[w].pc # "out" => writer'[w].left > 0
    <3>1. writer[w] \in [pc : {"out", "fill", "commit"}, left : Nat, len : Nat, bytewise : BOOLEAN]
          /\ writer \in [Writers -> [pc : {"out", "fill", "commit"}, left : Nat, len : Nat,
                                     bytewise : BOOLEAN]]
      BY DEF Types
    <3>2. ASSUME NEW n \in WriteSizes, write_call(w, n)
          PROVE  writer'[w].left > 0
      BY <3>1, <3>2, UARTAssumption, SMTT(60) DEF write_call
    <3>3. CASE write_fill(w)
      <4>1. writer'[w].left = writer[w].left /\ writer[w].pc = "fill"
        BY <3>1, <3>3 DEF write_fill
      <4>2. QED
        BY <4>1 DEF SizeInv
    <3>4. CASE write_refused(w)
      BY <3>1, <3>4 DEF write_refused, NotInWrite
    <3>5. CASE write_commit(w)
      <4>1. writer[w].left > 0 /\ writer[w].left \in Nat
        BY <3>1, <3>5 DEF SizeInv, write_commit
      <4>2. PICK y \in WriterRecords :
                 /\ writer' = [writer EXCEPT ![w] = y]
                 /\ \/ y = NotInWrite
                    \/ writer[w].left # 1 /\ y.left = writer[w].left - 1
        BY <3>5, WriterCommitted
      <4>4. QED
        BY <4>1, <4>2, SMTT(60) DEF NotInWrite
    <3>6. QED
      BY <1>8, <3>2, <3>3, <3>4, <3>5 DEF Write
  <2>7. QED
    BY <2>1, <2>3, <2>4, <2>5, <2>6 DEF SizeInv
<1>9. ASSUME NEW r \in AskedSizes, NEW t \in AskedSizes, begin_call(r, t)
      PROVE  SizeInv'
  <2>1. begin'.pc = "rx" /\ begin'.rx = MinRx /\ begin'.tx = MinTx
    BY <1>9, UARTAssumption, SMTT(60) DEF begin_call
  <2>2. UNCHANGED <<_initialised, writer, tick, _readbuf, _writebuf>>
    BY <1>9 DEF begin_call, port
  <2>3. QED
    BY <2>1, <2>2 DEF SizeInv

<1>10. ASSUME begin_rx \/ begin_set_rx \/ begin_tx \/ begin_set_tx
       PROVE  /\ begin' = [begin EXCEPT !.pc = begin'.pc]
              /\ begin.pc # "out" /\ begin.rx = MinRx /\ begin.tx = MinTx
              /\ UNCHANGED <<writer, tick>>
              /\ (_initialised' => _initialised)
  BY <1>10, SMTT(60) DEF begin_rx, begin_set_rx, begin_tx, begin_set_tx, BeginOnly, SizeInv, Types
<1>11. ASSUME begin_rx \/ begin_set_rx \/ begin_tx \/ begin_set_tx
       PROVE  begin'.rx = MinRx /\ begin'.tx = MinTx
  BY <1>10, <1>11 DEF Types
<1>12. CASE begin_rx
  <2>1. UNCHANGED <<_readbuf, _writebuf>> /\ begin'.pc \in {"set_rx", "tx"}
        /\ (begin'.pc = "set_rx" => begin.rx # _readbuf.size)
    BY <1>12 DEF begin_rx, Types
  <2>2. QED
    BY <1>10, <1>11, <1>12, <2>1 DEF SizeInv, Asleep
<1>13. CASE begin_tx
  <2>1. UNCHANGED <<_readbuf, _writebuf>> /\ begin'.pc \in {"set_tx", "open"}
        /\ (begin'.pc = "set_tx" => begin.tx # _writebuf.size)
    BY <1>13 DEF begin_tx, Types
  <2>2. QED
    BY <1>10, <1>11, <1>13, <2>1 DEF SizeInv, Asleep
<1>14. CASE begin_set_rx
  <2>1. UNCHANGED <<_writebuf, _initialised>> /\ begin'.pc = "tx" /\ _readbuf.size = 0
    BY <1>14 DEF begin_set_rx, Types, SizeInv
  <2>2. _readbuf'.size \in {0, MinRx}
    BY <1>1, <2>1 DEF RSize
  <2>4. QED
    BY <1>10, <1>11, <1>14, <2>1, <2>2 DEF SizeInv, Asleep
<1>15. CASE begin_set_tx
  <2>1. UNCHANGED <<_readbuf, _initialised>> /\ begin'.pc = "open" /\ _writebuf.size = 0
    BY <1>15 DEF begin_set_tx, Types, SizeInv
  <2>2. _writebuf'.size \in {0, MinTx}
    BY <1>1, <2>1 DEF WSize
  <2>4. QED
    BY <1>10, <1>11, <1>15, <2>1, <2>2 DEF SizeInv, Asleep
<1>16. CASE begin_open
  <2>1. UNCHANGED <<_readbuf, _writebuf, tick, writer>> /\ begin'.pc = "out"
    BY <1>16 DEF begin_open, BeginOnly, NotInBegin
  <2>2. _initialised' => _initialised \/ (_writebuf.size # 0 /\ _readbuf.size # 0)
    BY <1>16 DEF begin_open
  <2>3. QED
    BY <2>1, <2>2 DEF SizeInv, Asleep
<1>17. QED
  BY <1>5, <1>6, <1>7, <1>8, <1>9, <1>12, <1>13, <1>14, <1>15, <1>16 DEF Next, Begin

\* Which steps change which of the other variables.
LEMMA Owners ==
    ASSUME Next
    PROVE  /\ UNCHANGED <<arrived, dropped>> \/ rt_hw_serial_isr
           /\ UNCHANGED rx_fifo \/ rt_hw_serial_isr \/ _read_fd
           /\ UNCHANGED tick \/ UartThread
           /\ UNCHANGED begin \/ Begin
           /\ UNCHANGED byte \/ read_peek \/ read_advance
           /\ UNCHANGED received \/ read_advance
           /\ UNCHANGED <<writer, offered>> \/ \E w \in Writers : Write(w)
           /\ UNCHANGED sent \/ _write_fd
<1>1. CASE rt_hw_serial_isr
  BY <1>1 DEF rt_hw_serial_isr
<1>2. CASE UartThread
  <2>1. UNCHANGED <<arrived, dropped, begin, byte, received, writer, offered>>
    BY <1>2 DEF UartThread, tick_test, tick_mark, tick_peek, _write_fd, tick_advance, tick_reserve,
                _read_fd, tick_commit, tick_done, ThreadOnly
  <2>2. (UNCHANGED rx_fifo \/ _read_fd) /\ (UNCHANGED sent \/ _write_fd)
    BY <1>2 DEF UartThread, tick_test, tick_mark, tick_peek, _write_fd, tick_advance, tick_reserve,
                _read_fd, tick_commit, tick_done
  <2>3. QED
    BY <1>2, <2>1, <2>2
<1>3. CASE Begin
  <2>1. UNCHANGED <<rx, tick, byte, writer, offered, received, sent>>
    BY <1>3 DEF Begin, begin_call, begin_rx, begin_set_rx, begin_tx, begin_set_tx, begin_open,
                BeginOnly
  <2>2. QED
    BY <1>3, <2>1 DEF rx
<1>4. CASE read_peek \/ read_advance \/ set_blocking_writes
  BY <1>4 DEF read_peek, read_advance, set_blocking_writes, rx
<1>5. ASSUME NEW w \in Writers, Write(w)
      PROVE  UNCHANGED <<rx, tick, begin, byte, received, sent>>
  BY <1>5 DEF Write, write_call, write_fill, write_refused, write_commit, WriteOnly
<1>6. CASE \E w \in Writers : Write(w)
  BY <1>5, <1>6 DEF rx
<1>7. QED
  BY <1>1, <1>2, <1>3, <1>4, <1>6 DEF Next

LEMMA FollowingIs ==
    ASSUME NEW i \in 0 .. BufSz - 1
    PROVE  Following(i) \in 0 .. BufSz - 1 /\ Following(i) # i
BY UARTAssumption, SMTT(60) DEF Following

\* What the interrupt and the tick do to the indices of rx_fifo.
LEMMA FifoStep ==
    ASSUME Types, SizeInv, RxInv, Next
    PROVE  /\ rx_fifo' \in [buffer : [0 .. BufSz - 1 -> Vals], put_index : 0 .. BufSz - 1,
                            get_index : 0 .. BufSz - 1, is_full : BOOLEAN]
           /\ arrived' \in 0 .. MaxIn /\ dropped' \subseteq Vals
           /\ rx_fifo'.is_full => rx_fifo'.put_index # rx_fifo'.get_index
<1> DEFINE FT == [buffer : [0 .. BufSz - 1 -> Vals], put_index : 0 .. BufSz - 1,
                  get_index : 0 .. BufSz - 1, is_full : BOOLEAN]
           get == rx_fifo.get_index
           put == rx_fifo.put_index
<1>1. rx_fifo \in FT /\ arrived \in 0 .. MaxIn /\ dropped \subseteq Vals
      /\ get \in 0 .. BufSz - 1 /\ put \in 0 .. BufSz - 1 /\ rx_fifo.is_full \in BOOLEAN
      /\ rx_fifo.buffer \in [0 .. BufSz - 1 -> Vals]
      /\ rx_fifo = [buffer |-> rx_fifo.buffer, put_index |-> put, get_index |-> get,
                    is_full |-> rx_fifo.is_full]
  BY DEF Types, Vals
<1>2. rx_fifo.is_full => put # get
  BY DEF RxInv
<1>3. Following(get) \in 0 .. BufSz - 1 /\ Following(get) # get /\ Following(put) \in 0 .. BufSz - 1
      /\ Following(put) # put
  BY <1>1, FollowingIs
<1>4. CASE UNCHANGED <<rx_fifo, arrived, dropped>>
  BY <1>1, <1>2, <1>4
<1>5. CASE _read_fd /\ UNCHANGED <<arrived, dropped>> /\ ~UNCHANGED rx_fifo
  <2>1. rx_fifo' = [rx_fifo EXCEPT !.get_index = Following(@), !.is_full = FALSE]
    BY <1>5 DEF _read_fd
  <2>2. rx_fifo' = [buffer |-> rx_fifo.buffer, put_index |-> put, get_index |-> Following(get),
                    is_full |-> FALSE]
    BY <1>1, <2>1
  <2>3. QED
    BY <1>1, <1>3, <1>5, <2>2
<1>6. CASE rt_hw_serial_isr
  <2> DEFINE full == Following(put) = get
             stored == [rx_fifo.buffer EXCEPT ![put] = arrived + 1]
             next == IF full THEN Following(get) ELSE get
             over == full \/ rx_fifo.is_full
  <2>1. arrived < MaxIn /\ arrived' = arrived + 1
        /\ rx_fifo' = [buffer |-> stored, put_index |-> Following(put), get_index |-> next,
                       is_full |-> over]
        /\ dropped' = IF full THEN dropped \cup {stored[get]} ELSE dropped
    BY <1>6 DEF rt_hw_serial_isr
  <2>2. arrived + 1 \in 0 .. MaxIn /\ arrived + 1 \in Vals
    BY <1>1, <2>1, UARTAssumption, SMTT(60) DEF Vals
  <2>3. stored \in [0 .. BufSz - 1 -> Vals] /\ next \in 0 .. BufSz - 1 /\ stored[get] \in Vals
    BY <1>1, <1>3, <2>2
  <2>4. over \in BOOLEAN
    OBVIOUS
  <2>5. Following(put) # next
    BY <1>3
  <2> HIDE DEF stored, next, over, full
  <2>6. rx_fifo' \in FT
    BY <1>3, <2>1, <2>3, <2>4
  <2>7. rx_fifo'.put_index # rx_fifo'.get_index
    BY <2>1, <2>5
  <2>8. dropped' \subseteq Vals
    BY <1>1, <2>1, <2>3 DEF Vals
  <2>9. QED
    BY <2>1, <2>2, <2>6, <2>7, <2>8
<1>7. QED
  <2>1. UNCHANGED <<arrived, dropped>> \/ rt_hw_serial_isr
    BY Owners
  <2>2. UNCHANGED rx_fifo \/ rt_hw_serial_isr \/ _read_fd
    BY Owners
  <2>3. QED
    BY <1>4, <1>5, <1>6, <2>1, <2>2

\* What the steps of the tick that touch neither ring do.
LEMMA TickMoves ==
    ASSUME Types, SizeInv, RxInv, TxInv, Next
    PROVE  /\ tick' \in [pc : TickPcs, vec : Seq(Piece), got : Nat]
           /\ tick'.pc = "read" =>
                 \/ tick_reserve /\ Pieces(tick'.vec, _readbuf.tail, space(_readbuf), _readbuf.size)
                                 /\ tick'.got = 0
                 \/ _read_fd \/ tick_commit \/ UNCHANGED tick
           /\ tick'.pc = "write" =>
                 \/ tick_peek /\ Pieces(tick'.vec, _writebuf.head, available(_writebuf),
                                        _writebuf.size)
                 \/ tick_advance \/ UNCHANGED tick
           /\ tick'.pc = "commit" => _read_fd \/ UNCHANGED tick
           /\ tick'.pc = "advance" => _write_fd \/ UNCHANGED tick
<1> DEFINE T == [pc : TickPcs, vec : Seq(Piece), got : Nat]
<1>1. tick \in T /\ tick = [pc |-> tick.pc, vec |-> tick.vec, got |-> tick.got]
      /\ tick.vec \in Seq(Piece) /\ tick.got \in Nat
  BY DEF Types
<1>2. CASE UNCHANGED tick
  BY <1>1, <1>2
<1>3. ASSUME NEW p \in TickPcs, tick' = [tick EXCEPT !.pc = p]
      PROVE  tick' \in T /\ tick'.pc = p
  <2>1. tick' = [pc |-> p, vec |-> tick.vec, got |-> tick.got]
    BY <1>1, <1>3
  <2>2. QED
    BY <1>1, <2>1
<1>4. {"mark", "peek", "advance", "commit", "write", "reserve", "read", "done", "sleep"} = TickPcs
  BY DEF TickPcs
<1>5. CASE tick_test \/ tick_mark \/ _write_fd
  <2>1. \E p \in {"mark", "peek", "advance"} :
           tick' = [tick EXCEPT !.pc = p] /\ (p = "advance" => _write_fd)
    BY <1>5 DEF tick_test, tick_mark, _write_fd
  <2>2. QED
    BY <1>3, <1>4, <2>1
<1>6. CASE tick_peek
  <2> DEFINE v == peekiovec(_writebuf, available(_writebuf))
             p == IF v = <<>> THEN "reserve" ELSE "write"
  <2>1. tick.pc = "peek" /\ tick' = [tick EXCEPT !.vec = v, !.pc = p]
    BY <1>6 DEF tick_peek
  <2>2. Ring(_writebuf) /\ _writebuf.size > 0
    BY <2>1, RingsInTick
  <2>3. v \in Seq(Piece)
        /\ (v # <<>> => Pieces(v, _writebuf.head, available(_writebuf), _writebuf.size))
    BY <2>2, PeekIs
  <2>4. p \in {"reserve", "write"} /\ (p = "write" => v # <<>>)
    OBVIOUS
  <2> HIDE DEF v, p
  <2>5. tick' = [pc |-> p, vec |-> v, got |-> tick.got]
    BY <1>1, <2>1
  <2>6. tick' \in T /\ tick'.pc = p /\ tick'.vec = v
    BY <1>1, <1>4, <2>3, <2>4, <2>5
  <2>7. QED
    BY <1>6, <2>3, <2>4, <2>6
<1>7. CASE tick_advance
  <2>1. tick' = [pc |-> tick'.pc, vec |-> tick'.vec, got |-> tick.got]
        /\ tick'.pc \in {"reserve", "write"} /\ tick'.vec \in Seq(Piece)
    BY <1>7, TickAdvanceIs
  <2>2. tick' \in T
    BY <1>1, <1>4, <2>1, SMTT(60)
  <2>3. QED
    BY <1>7, <2>1, <2>2
<1>8. CASE tick_reserve
  <2> DEFINE v == reserve(_readbuf, space(_readbuf))
             p == IF v = <<>> THEN "done" ELSE "read"
  <2>1. tick.pc = "reserve" /\ tick' = [pc |-> p, vec |-> v, got |-> 0]
    BY <1>8 DEF tick_reserve
  <2>2. Ring(_readbuf) /\ _readbuf.size > 0
    BY <2>1, RingsInTick
  <2>3. v \in Seq(Piece)
        /\ (v # <<>> => Pieces(v, _readbuf.tail, space(_readbuf), _readbuf.size))
    BY <2>2, ReserveIs
  <2>4. p \in {"done", "read"} /\ (p = "read" => v # <<>>)
    OBVIOUS
  <2> HIDE DEF v, p
  <2>5. tick' \in T /\ tick'.pc = p /\ tick'.vec = v /\ tick'.got = 0
    BY <1>4, <2>1, <2>3, <2>4
  <2>6. QED
    BY <1>8, <2>3, <2>4, <2>5
<1>9. CASE _read_fd
  <2>1. CASE tick' = [tick EXCEPT !.pc = "commit"]
    BY <1>3, <1>4, <1>9, <2>1
  <2>2. CASE tick' = [tick EXCEPT !.got = @ + 1] /\ tick.pc = "read"
    <3>1. tick' = [pc |-> "read", vec |-> tick.vec, got |-> tick.got + 1]
      BY <1>1, <2>2
    <3>3. tick' \in T /\ tick'.pc = "read"
      BY <1>1, <1>4, <3>1, SMTT(60)
    <3>4. QED
      BY <1>9, <3>3
  <2>3. QED
    BY <1>9, <2>1, <2>2 DEF _read_fd
<1>10. CASE tick_commit
  <2>1. tick' = [pc |-> tick'.pc, vec |-> tick'.vec, got |-> 0]
        /\ tick'.pc \in {"read", "done"} /\ tick'.vec \in Seq(Piece)
    BY <1>10, TickCommitIs
  <2>2. tick' \in T
    BY <1>4, <2>1, SMTT(60)
  <2>3. QED
    BY <1>10, <2>1, <2>2
<1>11. CASE tick_done
  <2>1. tick' = [pc |-> "sleep", vec |-> <<>>, got |-> 0]
    BY <1>11 DEF tick_done, Asleep
  <2>2. tick' \in T
    BY <1>4, <2>1, SMTT(60)
  <2>3. QED
    BY <2>1, <2>2
<1>12. QED
  <2>1. UNCHANGED tick \/ UartThread
    BY Owners
  <2>2. QED
    BY <1>2, <1>5, <1>6, <1>7, <1>8, <1>9, <1>10, <1>11, <2>1 DEF UartThread

LEMMA PeekVal ==
    ASSUME NEW b, Ring(b), b.size > 0
    PROVE  peek(b) \in Vals
<1>1. b.head \in 0 .. b.size - 1 /\ b.buf \in [0 .. b.size - 1 -> Vals]
  BY SMTT(60) DEF Ring
<1>2. QED
  BY <1>1 DEF peek

\* The types.
LEMMA TypesStep ==
    ASSUME Types, SizeInv, RxInv, TxInv, Next
    PROVE  Types'
\* The writers' records and the count of bytes.
<1>WriterStep. ASSUME Types, SizeInv, NEW w \in Writers, Write(w)
               PROVE  /\ writer' \in [Writers -> [pc : {"out", "fill", "commit"}, left : Nat, len : Nat,
                                                  bytewise : BOOLEAN]]
                      /\ offered' \in Nat
  <2> USE <1>WriterStep
  <2> DEFINE R == [pc : {"out", "fill", "commit"}, left : Nat, len : Nat, bytewise : BOOLEAN]
  <2>1. writer \in [Writers -> R] /\ offered \in Nat /\ writer[w] \in R /\ R = WriterRecords
    BY DEF Types, WriterRecords
  <2>2. ASSUME NEW r \in R, writer' = [writer EXCEPT ![w] = r]
        PROVE  writer' \in [Writers -> R]
    BY <2>1, <2>2
  <2>3. NotInWrite \in R
    BY DEF NotInWrite
  <2>4. ASSUME NEW n \in WriteSizes, write_call(w, n)
        PROVE  writer' \in [Writers -> R] /\ offered' \in Nat
    <3> DEFINE c == n = 1 \/ ~_nonblocking_writes
               r == [pc |-> "fill", left |-> n, len |-> 0, bytewise |-> c]
    <3>1. c \in BOOLEAN
      OBVIOUS
    <3>2. n \in Nat
      BY UARTAssumption
    <3>3. writer' = [writer EXCEPT ![w] = r] /\ offered' = offered
      BY <2>4 DEF write_call
    <3> HIDE DEF c
    <3>4. r \in R
      BY <3>1, <3>2
    <3> HIDE DEF r
    <3>5. QED
      BY <2>1, <3>3, <3>4
  <2>5. CASE write_fill(w)
    <3> DEFINE l == writer'[w].len
               r == [writer[w] EXCEPT !.pc = "commit", !.len = l]
    <3>1. l \in Nat /\ offered' = offered + l
          /\ writer' = [writer EXCEPT ![w].pc = "commit", ![w].len = l]
      BY <2>5, WriteFillIs
    <3> HIDE DEF l
    <3> HIDE DEF r
    <3>4. QED
      BY <2>1, <2>2, <3>1, SMTT(60)
  <2>6. CASE write_refused(w)
    BY <2>1, <2>3, <2>6 DEF write_refused
  <2>7. CASE write_commit(w)
    <3>1. PICK y \in WriterRecords : writer' = [writer EXCEPT ![w] = y]
      BY <2>7, WriterCommitted
    <3>2. offered' = offered
      BY <2>7 DEF write_commit
    <3>3. QED
      BY <2>1, <3>1, <3>2
  <2>8. QED
    BY <2>4, <2>5, <2>6, <2>7 DEF Write
<1>1. Ring(_readbuf') /\ Ring(_writebuf')
  BY RingsStep
<1>2. /\ rx_fifo' \in [buffer : [0 .. BufSz - 1 -> Vals], put_index : 0 .. BufSz - 1,
                       get_index : 0 .. BufSz - 1, is_full : BOOLEAN]
      /\ arrived' \in 0 .. MaxIn /\ dropped' \subseteq Vals
  BY FifoStep
<1>3. tick' \in [pc : TickPcs, vec : Seq(Piece), got : Nat]
  BY TickMoves
<1>4. /\ writer' \in [Writers -> [pc : {"out", "fill", "commit"}, left : Nat, len : Nat,
                                  bytewise : BOOLEAN]]
      /\ offered' \in Nat
  <2>1. CASE UNCHANGED <<writer, offered>>
    BY <2>1 DEF Types
  <2>2. UNCHANGED <<writer, offered>> \/ \E w \in Writers : Write(w)
    BY Owners
  <2>3. QED
    BY <2>1, <2>2, <1>WriterStep
<1>5. byte' \in Vals /\ received' \in Seq(Vals)
  <2>1. byte \in Vals /\ received \in Seq(Vals) /\ NoByte \in Vals /\ Ring(_readbuf)
    BY DEF Types, Vals
  <2>2. CASE read_peek
    <3>1. _initialised /\ byte' = peek(_readbuf) /\ received' = received
      BY <2>2 DEF read_peek
    <3>2. _readbuf.size > 0
      BY <3>1, UARTAssumption, SMTT(60) DEF SizeInv
    <3>3. QED
      BY <2>1, <3>1, <3>2, PeekVal
  <2>3. CASE read_advance
    BY <2>1, <2>3, SMTT(60) DEF read_advance
  <2>4. UNCHANGED byte \/ read_peek \/ read_advance
    BY Owners
  <2>5. UNCHANGED received \/ read_advance
    BY Owners
  <2>6. QED
    BY <2>1, <2>2, <2>3, <2>4, <2>5
<1>6. sent' \in Seq(Vals)
  <2>1. sent \in Seq(Vals)
    BY DEF Types
  <2>2. CASE _write_fd
    <3>1. CopyFrom(_writebuf, Head(tick.vec)) \in Seq(Vals)
          /\ sent' = sent \o CopyFrom(_writebuf, Head(tick.vec))
      BY <2>2, WriteFdIs
    <3>2. QED
      BY <2>1, <3>1, SMTT(60)
  <2>3. UNCHANGED sent \/ _write_fd
    BY Owners
  <2>4. QED
    BY <2>1, <2>2, <2>3
<1>7. begin' \in [pc : BeginPcs, rx : Nat, tx : Nat]
  <2>1. begin \in [pc : BeginPcs, rx : Nat, tx : Nat]
    BY DEF Types
  <2>2. ASSUME NEW p \in BeginPcs, begin' = [begin EXCEPT !.pc = p]
        PROVE  begin' \in [pc : BeginPcs, rx : Nat, tx : Nat]
    BY <2>1, <2>2
  <2>3. {"set_rx", "tx", "set_tx", "open", "rx", "out"} = BeginPcs
    BY DEF BeginPcs
  <2>4. CASE begin_rx \/ begin_set_rx \/ begin_tx \/ begin_set_tx
    BY <2>2, <2>3, <2>4 DEF begin_rx, begin_set_rx, begin_tx, begin_set_tx
  <2>5. CASE begin_open
    BY <2>3, <2>5 DEF begin_open, NotInBegin
  <2>6. ASSUME NEW r \in AskedSizes, NEW t \in AskedSizes, begin_call(r, t)
        PROVE  begin' \in [pc : BeginPcs, rx : Nat, tx : Nat]
    BY <2>3, <2>6, UARTAssumption DEF begin_call
  <2>7. UNCHANGED begin \/ Begin
    BY Owners
  <2>8. QED
    BY <2>1, <2>4, <2>5, <2>6, <2>7 DEF Begin
<1>8. _initialised' \in BOOLEAN /\ _in_timer' \in BOOLEAN /\ _dev' \in BOOLEAN
      /\ _nonblocking_writes' \in BOOLEAN
  <2>1. _initialised \in BOOLEAN /\ _in_timer \in BOOLEAN /\ _dev \in BOOLEAN
        /\ _nonblocking_writes \in BOOLEAN
    BY DEF Types
  <2>2. CASE UNCHANGED <<port, _in_timer>>
    BY <2>1, <2>2 DEF port
  <2>3. CASE rt_hw_serial_isr \/ read_peek \/ read_advance
    BY <2>2, <2>3 DEF rt_hw_serial_isr, read_peek, read_advance
  <2>4. CASE set_blocking_writes
    BY <2>1, <2>4 DEF set_blocking_writes
  <2>5. CASE UartThread
    BY <2>1, <2>5 DEF UartThread, tick_test, tick_mark, tick_peek, _write_fd, tick_advance,
                      tick_reserve, _read_fd, tick_commit, tick_done, ThreadOnly, port
  <2>6. ASSUME NEW w \in Writers, Write(w)
        PROVE  UNCHANGED <<port, _in_timer>>
    BY <2>6 DEF Write, write_call, write_fill, write_refused, write_commit, WriteOnly
  <2>7. CASE Begin
    <3>1. _in_timer' = _in_timer /\ _nonblocking_writes' = _nonblocking_writes
      BY <2>7 DEF Begin, begin_call, begin_rx, begin_set_rx, begin_tx, begin_set_tx, begin_open,
                  BeginOnly, port
    <3>2. _dev' \in {TRUE, _dev}
      BY <2>7 DEF Begin, begin_call, begin_rx, begin_set_rx, begin_tx, begin_set_tx, begin_open,
                  port
    <3>3. _initialised' \in BOOLEAN
      BY <2>1, <2>7 DEF Begin, begin_call, begin_rx, begin_set_rx, begin_tx, begin_set_tx,
                               begin_open, port
    <3>4. QED
      BY <2>1, <3>1, <3>2, <3>3
  <2>8. QED
    BY <2>2, <2>3, <2>4, <2>5, <2>6, <2>7 DEF Next
<1>9. QED
  BY <1>1, <1>2, <1>3, <1>4, <1>5, <1>6, <1>7, <1>8 DEF Types

LEMMA RxStep ==
    ASSUME Types, SizeInv, RxInv, TxInv, Next
    PROVE  RxInv'
\* The tick's hold on _readbuf.
\* The byte read() has looked at stays the first.
<1>RxByteStep. ASSUME Types, SizeInv, RxInv, TxInv, Next, byte' # NoByte
               PROVE  available(_readbuf') > 0 /\ byte' = peek(_readbuf')
  <2> USE <1>RxByteStep
  <2>1. CASE read_peek
    BY <2>1 DEF read_peek
  <2>2. CASE read_advance
    BY <2>2 DEF read_advance
  <2>3. CASE UNCHANGED byte
    <3> DEFINE b == _readbuf
    <3>1. available(b) > 0 /\ byte = peek(b)
      BY <2>3 DEF RxInv
    <3>2. Ring(b) /\ b.size # 0 /\ b.size \in Nat
      <4>1. Ring(b)
        BY DEF Types
      <4>2. b.size # 0
        BY <3>1, <4>1, NoSlots, SMTT(60)
      <4>3. QED
        BY <4>1, <4>2 DEF Ring
    <3>4. CASE UNCHANGED _readbuf
      BY <2>3, <3>1, <3>4
    <3>5. CASE _read_fd /\ ~(tick.got = Head(tick.vec).len \/ FifoEmpty)
      <4>1. SameQueue(_readbuf', b)
        BY <3>5, ReadFdIs
      <4>2. available(_readbuf') = available(b) /\ _readbuf'.head = b.head
        BY <3>2, <4>1, SameQueueKeeps, SMTT(60)
      <4>3. 1 \in 1 .. available(b) /\ Slot(b.head, 1 - 1, b.size) = b.head
        <5>1. available(b) \in Nat /\ b.head \in Nat /\ b.head < b.size
          BY <3>2, RingNumbers, SMTT(60)
        <5>2. QED
          BY <3>1, <5>1, SMTT(60) DEF Slot
      <4>4. _readbuf'.buf[b.head] = b.buf[b.head]
        BY <4>1, <4>3, SMTT(60) DEF SameQueue
      <4>5. QED
        BY <2>3, <3>1, <4>2, <4>4 DEF peek
    <3>6. CASE tick_commit
      <4>1. tick.got \in Nat /\ tick.got <= space(b) /\ _readbuf' = commit(b, tick.got)
        BY <3>6, TickCommitIs
      <4>2. _readbuf'.buf = b.buf /\ _readbuf'.head = b.head
            /\ available(_readbuf') = available(b) + tick.got
        BY <3>2, <4>1, CommitIs, SMTT(60)
      <4>3. available(b) \in Nat
        BY <3>2, RingNumbers, SMTT(60)
      <4>4. QED
        BY <2>3, <3>1, <4>1, <4>2, <4>3, SMTT(60) DEF peek
    <3>7. ~begin_set_rx
      BY <3>2 DEF SizeInv, begin_set_rx
    <3>8. CASE _read_fd /\ (tick.got = Head(tick.vec).len \/ FifoEmpty)
      BY <3>4, <3>8 DEF _read_fd
    <3>9. QED
      BY <2>2, <3>4, <3>5, <3>6, <3>7, <3>8, ReadRingSteps
  <2>4. QED
    BY <2>1, <2>2, <2>3, Owners
<1>RxHoldStep. ASSUME Types, SizeInv, RxInv, TxInv, Next, tick'.pc \in {"read", "commit"}
               PROVE  /\ Pieces(tick'.vec, _readbuf'.tail, space(_readbuf'), _readbuf'.size)
                      /\ tick'.got <= tick'.vec[1].len
  <2> USE <1>RxHoldStep
  <2> DEFINE Hold(v, g, b) == Pieces(v, b.tail, space(b), b.size) /\ g <= v[1].len
  <2>1. tick.vec \in Seq(Piece) /\ tick.got \in Nat
        /\ tick = [pc |-> tick.pc, vec |-> tick.vec, got |-> tick.got]
    BY DEF Types
  <2>2. CASE tick_reserve
    <3>1. Pieces(tick'.vec, _readbuf.tail, space(_readbuf), _readbuf.size) /\ tick'.got = 0
      BY <2>2, TickMoves DEF tick_reserve, _read_fd, tick_commit
    <3>2. UNCHANGED _readbuf
      BY <2>2 DEF tick_reserve
    <3>4. tick'.vec \in Seq(Piece)
      BY TickMoves
    <3>5. tick'.vec[1].len \in Nat
      BY <3>1, <3>4, PieceTypes
    <3>6. QED
      BY <3>1, <3>2, <3>5, SMTT(60)
  <2>3. CASE _read_fd
    <3>1. Hold(tick.vec, tick.got, _readbuf) /\ tick.pc = "read"
      BY <2>3 DEF _read_fd, RxInv
    <3>2. CASE tick.got = Head(tick.vec).len \/ FifoEmpty
      <4>1. tick' = [tick EXCEPT !.pc = "commit"] /\ UNCHANGED _readbuf
        BY <2>3, <3>2 DEF _read_fd
      <4>3. QED
        BY <3>1, <4>1, SMTT(60)
    <3>3. CASE ~(tick.got = Head(tick.vec).len \/ FifoEmpty)
      <4>1. SameQueue(_readbuf', _readbuf) /\ tick.got < tick.vec[1].len
            /\ tick' = [tick EXCEPT !.got = @ + 1]
        BY <2>3, <3>3, ReadFdIs
      <4>2. Ring(_readbuf) /\ _readbuf.size > 0
        BY <3>1, RingsInTick
      <4>3. _readbuf'.size = _readbuf.size /\ _readbuf'.tail = _readbuf.tail
            /\ space(_readbuf') = space(_readbuf)
        BY <4>1, <4>2, SameQueueKeeps
      <4>4. tick'.vec = tick.vec /\ tick'.got = tick.got + 1
        BY <4>1, SMTT(60)
      <4>5. tick.vec[1].len \in Nat
        BY <2>1, <3>1, PieceTypes
      <4>6. tick'.got <= tick'.vec[1].len
        BY <2>1, <4>1, <4>5, SMTT(60)
      <4>7. QED
        BY <3>1, <4>3, <4>4, <4>6
    <3>4. QED
      BY <3>2, <3>3
  <2>4. CASE tick_commit
    <3>1. tick'.pc \in {"read", "done"} /\ tick'.got = 0 /\ tick'.vec \in Seq(Piece)
      BY <2>4, TickCommitIs
    <3>2. Pieces(tick'.vec, _readbuf'.tail, space(_readbuf'), _readbuf'.size)
      BY <2>4, TickCommitIs
    <3>3. tick'.vec[1].len \in Nat
      BY <3>1, <3>2, PieceTypes
    <3>4. QED
      BY <3>1, <3>2, <3>3, SMTT(60)
  <2>5. CASE UNCHANGED tick
    <3>1. Hold(tick.vec, tick.got, _readbuf) /\ tick.pc \in {"read", "commit"}
      BY <2>5 DEF RxInv
    <3>2. Ring(_readbuf) /\ _readbuf.size > 0
      BY <3>1, RingsInTick
    <3>3. CASE UNCHANGED _readbuf
      BY <2>5, <3>1, <3>3
    <3>4. CASE read_advance
      <4> DEFINE b == _readbuf
                 c == advance(b, 1)
      <4>1. 1 \in Nat /\ 1 <= available(b) /\ _readbuf' = c
        BY <3>4, ReadAdvanceIs
      <4>2. c.size = b.size /\ c.tail = b.tail /\ space(c) = space(b) + 1
        BY <3>2, <4>1, AdvanceIs
      <4>3. b.tail \in Nat /\ b.size \in Nat /\ space(b) \in Nat
        BY <3>2, RingNumbers
      <4> HIDE DEF b, c
      <4>4. space(b) + 1 \in Nat /\ space(b) <= space(b) + 1
        BY <4>3, SMTT(60)
      <4>5. Pieces(tick.vec, b.tail, space(b), b.size)
        BY <3>1 DEF b
      <4>6. Pieces(tick.vec, b.tail, space(b) + 1, b.size)
        BY <2>1, <4>3, <4>4, <4>5, PiecesKept
      <4>7. QED
        BY <2>5, <3>1, <4>1, <4>2, <4>6
    <3>5. ~begin_set_rx
      <4>1. begin.pc # "set_rx"
        BY <3>2, SMTT(60) DEF SizeInv
      <4>2. QED
        BY <4>1 DEF begin_set_rx
    <3>6. CASE _read_fd \/ tick_commit
      BY <2>3, <2>4, <3>6
    <3>7. QED
      BY <3>3, <3>4, <3>5, <3>6, ReadRingSteps
  <2>6. QED
    BY <2>2, <2>3, <2>4, <2>5, TickMoves
<1>1. rx_fifo'.is_full => rx_fifo'.put_index # rx_fifo'.get_index
  BY FifoStep
<1>2. QED
  BY <1>1, <1>RxHoldStep, <1>RxByteStep DEF RxInv

\* The tick's hold on _writebuf.
LEMMA TxStep ==
    ASSUME Types, SizeInv, RxInv, TxInv, Next
    PROVE  TxInv'
\* What another thread's write() does to _writebuf while the tick holds bytes
\* of it: more of them, and those it holds are the same.
<1>WriteKeeps. ASSUME Types, SizeInv, NEW w \in Writers, write_fill(w) \/ write_commit(w)
               PROVE  /\ _writebuf'.size = _writebuf.size /\ _writebuf'.head = _writebuf.head
                      /\ available(_writebuf') \in Nat /\ available(_writebuf) <= available(_writebuf')
                      /\ \A i \in 1 .. available(_writebuf) :
                            _writebuf'.buf[Slot(_writebuf.head, i - 1, _writebuf.size)]
                                = _writebuf.buf[Slot(_writebuf.head, i - 1, _writebuf.size)]
  <2> USE <1>WriteKeeps
  <2> DEFINE b == _writebuf
             c == _writebuf'
  <2>1. Ring(b) /\ b.size > 0
    BY WriteFillIs, WriteCommitIs
  <2>2. available(b) \in Nat
    BY <2>1, RingNumbers
  <2>3. CASE write_fill(w)
    <3>1. SameQueue(c, b)
      BY <2>3, WriteFillIs
    <3>2. QED
      BY <2>1, <2>2, <3>1, SameQueueKeeps, SMTT(60) DEF SameQueue
  <2>4. CASE write_commit(w)
    <3> DEFINE n == writer[w].len
    <3>1. n \in Nat /\ c = commit(b, n) /\ (n <= space(b) \/ c = b)
      BY <2>4, WriteCommitIs
    <3>2. CASE c = b
      BY <2>2, <3>2, SMTT(60)
    <3>3. CASE n <= space(b)
      <4>1. c.buf = b.buf /\ c.head = b.head /\ c.size = b.size
            /\ available(c) = available(b) + n
        BY <2>1, <3>1, <3>3, CommitIs
      <4> HIDE DEF b, c, n
      <4>2. available(c) \in Nat /\ available(b) <= available(c)
        BY <2>2, <3>1, <4>1, SMTT(60)
      <4>3. QED
        BY <4>1, <4>2 DEF b, c
    <3>4. QED
      BY <3>1, <3>2, <3>3
  <2>5. QED
    BY <2>3, <2>4
<1> DEFINE b == _writebuf
           c == _writebuf'
           Held == Pieces(tick.vec, b.head, available(b), b.size)
           Out(s, v, d) == /\ v[1].len <= Len(s)
                           /\ \A i \in 1 .. v[1].len :
                                 s[Len(s) - v[1].len + i] = d.buf[d.head + i - 1]
           Holds == Pieces(tick'.vec, c.head, available(c), c.size)
<1>1. tick.vec \in Seq(Piece) /\ tick.got \in Nat
      /\ tick = [pc |-> tick.pc, vec |-> tick.vec, got |-> tick.got]
  BY DEF Types
<1>2. CASE tick_peek
  <2>1. tick'.pc = "write" => Holds
    BY <1>2, TickMoves DEF tick_peek, tick_advance
  <2>2. tick'.pc # "advance"
    BY <1>2 DEF tick_peek, Types
  <2>3. QED
    BY <2>1, <2>2 DEF TxInv
<1>3. CASE tick_advance
  <2>1. tick'.pc = "write" => Holds
    BY <1>3, TickAdvanceIs
  <2>2. tick'.pc # "advance"
    BY <1>3, TickAdvanceIs
  <2>3. QED
    BY <2>1, <2>2, SMTT(60) DEF TxInv
<1>4. CASE _write_fd
  <2>1. Held /\ c = b
    BY <1>4 DEF _write_fd, TxInv
  <2>2. tick'.pc = "advance" /\ tick'.vec = tick.vec
    BY <1>4, SMTT(60) DEF _write_fd
  <2>3. Out(sent', tick.vec, b)
    <3> DEFINE n == tick.vec[1].len
               s == CopyFrom(_writebuf, Head(tick.vec))
    <3>1. n \in Nat /\ s \in Seq(Vals) /\ Len(s) = n /\ sent' = sent \o s
      BY <1>4, WriteFdIs
    <3>2. \A i \in 1 .. n : s[i] = b.buf[b.head + i - 1]
      BY <1>4, WriteFdIs
    <3>3. sent \in Seq(Vals)
      BY SMTT(60) DEF Types
    <3> HIDE DEF n, s, b
    <3>4. /\ Len(sent') = Len(sent) + n
          /\ \A i \in 1 .. n : sent'[Len(sent) + i] = s[i]
      <4>1. Len(sent') = Len(sent) + n
            /\ \A j \in 1 .. Len(sent) + n :
                  sent'[j] = IF j <= Len(sent) THEN sent[j] ELSE s[j - Len(sent)]
        BY <3>1, <3>3, Joined
      <4>2. ASSUME NEW i \in 1 .. n
            PROVE  sent'[Len(sent) + i] = s[i]
        <5>2. Len(sent) + i \in 1 .. Len(sent) + n /\ ~(Len(sent) + i <= Len(sent))
              /\ Len(sent) + i - Len(sent) = i
          BY <3>1, SMTT(60)
        <5>3. QED
          BY <4>1, <5>2, SMTT(60)
      <4>3. QED
        BY <4>1, <4>2
    <3>5. n <= Len(sent') /\ \A i \in 1 .. n : sent'[Len(sent') - n + i] = s[i]
      BY <3>1, <3>4, SMTT(60)
    <3>6. QED
      BY <3>2, <3>5 DEF n
  <2>4. QED
    BY <2>1, <2>2, <2>3 DEF TxInv
<1>5. CASE UNCHANGED tick
  <2> SUFFICES ASSUME tick.pc \in {"write", "advance"}
               PROVE  Holds /\ (tick.pc = "advance" => Out(sent', tick.vec, c))
    BY <1>5 DEF TxInv
  <2>1. Held /\ (tick.pc = "advance" => Out(sent, tick.vec, b))
    BY DEF TxInv
  <2>2. Ring(b) /\ b.size > 0
    BY RingsInTick
  <2>3. UNCHANGED sent
    <3>1. _write_fd => tick'.pc = "advance" /\ tick.pc = "write"
      BY SMTT(60) DEF _write_fd
    <3>2. QED
      BY <1>5, <3>1, Owners
  <2>4. CASE UNCHANGED _writebuf
    BY <1>5, <2>1, <2>3, <2>4
  <2>5. ASSUME NEW w \in Writers, write_fill(w) \/ write_commit(w)
        PROVE  Holds /\ (tick.pc = "advance" => Out(sent', tick.vec, c))
    <3>1. c.size = b.size /\ c.head = b.head
          /\ available(c) \in Nat /\ available(b) <= available(c)
      BY <2>5, <1>WriteKeeps
    <3>2. \A i \in 1 .. available(b) :
             c.buf[Slot(b.head, i - 1, b.size)] = b.buf[Slot(b.head, i - 1, b.size)]
      BY <2>5, <1>WriteKeeps
    <3>3. b.size \in Nat /\ b.head \in Nat /\ b.head < b.size
          /\ available(b) \in Nat /\ available(b) < b.size
      BY <2>2, RingNumbers
    <3> HIDE DEF b, c
    <3>4. Pieces(tick.vec, b.head, available(c), b.size)
      BY <1>1, <2>1, <3>1, <3>3, PiecesKept
    <3>5. tick.vec[1].len <= available(b)
          /\ \A i \in Nat : i < tick.vec[1].len => Slot(b.head, i, b.size) = b.head + i
      BY <1>1, <2>1, <3>3, FirstPiece, SMTT(60)
    <3>6. tick.vec[1].len \in Nat
      BY <1>1, <2>1, PieceTypes
    <3>7. \A i \in 1 .. tick.vec[1].len : c.buf[b.head + i - 1] = b.buf[b.head + i - 1]
      <4> SUFFICES ASSUME NEW i \in 1 .. tick.vec[1].len
                   PROVE  c.buf[b.head + i - 1] = b.buf[b.head + i - 1]
        OBVIOUS
      <4>1. i - 1 \in Nat /\ i - 1 < tick.vec[1].len /\ i \in 1 .. available(b)
            /\ b.head + (i - 1) = b.head + i - 1
        BY <3>3, <3>5, <3>6, SMTT(60)
      <4>2. Slot(b.head, i - 1, b.size) = b.head + i - 1
        BY <3>5, <4>1
      <4>3. QED
        BY <3>2, <4>1, <4>2
    <3>8. QED
      BY <1>5, <2>1, <2>3, <3>1, <3>4, <3>7
  <2>6. ~tick_advance
    <3>1. tick_advance => tick.pc = "advance" /\ tick'.pc \in {"reserve", "write"}
      BY SMTT(60) DEF tick_advance
    <3>2. QED
      BY <1>5, <3>1
  <2>7. ~begin_set_tx
    BY <2>2, SMTT(60) DEF SizeInv, begin_set_tx
  <2>8. QED
    BY <2>4, <2>5, <2>6, <2>7, WriteRingSteps
<1>6. QED
  <2>1. CASE tick'.pc \in {"write", "advance"}
    BY <1>2, <1>3, <1>4, <1>5, <2>1, TickMoves
  <2>2. CASE tick'.pc \notin {"write", "advance"}
    BY <2>2 DEF TxInv
  <2>3. QED
    BY <2>1, <2>2

-----------------------------------------------------------------------------
(* The invariant *)

Inv0 == Types /\ SizeInv /\ RxInv /\ TxInv

LEMMA Inv0Init ==
    ASSUME Init
    PROVE  Inv0
<1>1. BufSz \in Nat /\ MaxIn \in Nat /\ BufSz > 0
  BY UARTAssumption, SMTT(60)
<1>2. Ring(set_size(0)) /\ set_size(0).size = 0
  BY NewRing
<1>3. rx_fifo \in [buffer : [0 .. BufSz - 1 -> Vals], put_index : 0 .. BufSz - 1,
                   get_index : 0 .. BufSz - 1, is_full : BOOLEAN]
      /\ ~rx_fifo.is_full
  BY <1>1, SMTT(60) DEF Init, EmptyFifo, Vals
<1>4. tick \in [pc : TickPcs, vec : Seq(Piece), got : Nat] /\ tick = Asleep /\ tick.pc = "sleep"
  BY SMTT(60) DEF Init, Asleep, TickPcs
<1>5. begin \in [pc : BeginPcs, rx : Nat, tx : Nat] /\ begin.pc = "out"
  BY DEF Init, NotInBegin, BeginPcs
<1>6. writer \in [Writers -> [pc : {"out", "fill", "commit"}, left : Nat, len : Nat,
                              bytewise : BOOLEAN]]
  BY DEF Init, NotInWrite
<1>7. \A w \in Writers : writer[w].pc = "out"
  BY DEF Init, NotInWrite
<1>8. received \in Seq(Vals) /\ sent \in Seq(Vals) /\ dropped \subseteq Vals
      /\ byte \in Vals /\ byte = NoByte
  BY SMTT(60) DEF Init, Vals
<1>9. Types
  <2>1. _initialised \in BOOLEAN /\ _in_timer \in BOOLEAN /\ _dev \in BOOLEAN
        /\ _nonblocking_writes \in BOOLEAN /\ Ring(_readbuf) /\ Ring(_writebuf)
    BY <1>2 DEF Init
  <2>2. arrived \in 0 .. MaxIn /\ offered \in Nat
    BY <1>1, SMTT(60) DEF Init
  <2>3. QED
    BY <1>3, <1>4, <1>5, <1>6, <1>8, <2>1, <2>2 DEF Types
<1>10. SizeInv
  <2>1. _readbuf.size = 0 /\ _writebuf.size = 0 /\ ~_initialised
    BY <1>2 DEF Init
  <2>2. QED
    BY <1>4, <1>5, <1>7, <2>1 DEF SizeInv
<1>11. QED
  BY <1>3, <1>4, <1>8, <1>9, <1>10 DEF Inv0, RxInv, TxInv

LEMMA Inv0Step ==
    ASSUME Inv0, [Next]_vars
    PROVE  Inv0'
<1>1. CASE Next
  BY <1>1, TypesStep, SizeStep, RxStep, TxStep DEF Inv0
<1>2. CASE UNCHANGED vars
  <2>1. Types'
    BY <1>2 DEF Inv0, Types, Ring, vars, rx, port
  <2>2. SizeInv'
    BY SizeStep DEF Inv0
  <2>3. RxInv'
    BY <1>2 DEF Inv0, RxInv, vars, rx, port
  <2>4. TxInv'
    BY <1>2 DEF Inv0, TxInv, vars, rx, port
  <2>5. QED
    BY <2>1, <2>2, <2>3, <2>4 DEF Inv0
<1>3. QED
  BY <1>1, <1>2

\* The inductive invariant of the port: its types, the sizes of its rings, and
\* what the UART thread's pieces stand for while read() and write() go on.
THEOREM PortInvariant == Spec => []Inv0
<1>1. Init => Inv0
  BY Inv0Init
<1>2. Inv0 /\ [Next]_vars => Inv0'
  BY Inv0Step
<1>3. QED
  BY <1>1, <1>2, PTL DEF Spec

\* The types of the port and the ranges of its indices.
THEOREM TypeCorrect == Spec => []TypeOK
<1>1. Inv0 => TypeOK
  <2> SUFFICES ASSUME Inv0
               PROVE  TypeOK
    OBVIOUS
  <2>1. ASSUME NEW b, Ring(b), b.size > 0
        PROVE  b.head \in 0 .. b.size - 1 /\ b.tail \in 0 .. b.size - 1
    BY <2>1, SMTT(60) DEF Ring
  <2>2. \A b \in {_readbuf, _writebuf} :
           b.size > 0 => b.head \in 0 .. b.size - 1 /\ b.tail \in 0 .. b.size - 1
    BY <2>1 DEF Inv0, Types
  <2>3. {_initialised, _in_timer, _dev, _nonblocking_writes} \subseteq BOOLEAN
    BY DEF Inv0, Types
  <2>4. \A w \in Writers : writer[w].pc \in {"out", "fill", "commit"}
    BY DEF Inv0, Types
  <2>5. rx_fifo.put_index \in 0 .. BufSz - 1 /\ rx_fifo.get_index \in 0 .. BufSz - 1
        /\ tick.pc \in TickPcs /\ begin.pc \in BeginPcs
    BY DEF Inv0, Types
  <2>6. QED
    BY <2>2, <2>3, <2>4, <2>5 DEF Inv0, SizeInv, TypeOK, TickPcs, BeginPcs
<1>2. QED
  BY <1>1, PortInvariant, PTL

\* begin() replaces a ring only while the UART thread sleeps, whatever the
\* interleaving of its wait with the tick's unmarked beginning.
THEOREM ResizesAlone == Spec => []ResizedAlone
<1>1. Inv0 => ResizedAlone
  <2>1. MinRx # 0 /\ MinTx # 0
    BY UARTAssumption
  <2>2. QED
    BY <2>1 DEF Inv0, SizeInv, ResizedAlone
<1>2. QED
  BY <1>1, PortInvariant, PTL

-----------------------------------------------------------------------------
(* The way of a received byte *)

Cat(a, b) == a \o b

LEMMA CatType ==
    ASSUME NEW a \in Seq(Vals), NEW b \in Seq(Vals)
    PROVE  Cat(a, b) \in Seq(Vals)
BY SMTT(60) DEF Cat

LEMMA ThreeJoined ==
    ASSUME NEW a \in Seq(Vals), NEW b \in Seq(Vals), NEW c \in Seq(Vals)
    PROVE  Cat(Cat(a, b), c) = Cat(a, Cat(b, c))
<1>4. QED
  BY SMTT(60) DEF Cat

\* The bytes in rx_fifo lie in it as those of a ring do.
Fifos == [buffer : [0 .. BufSz - 1 -> Vals], put_index : 0 .. BufSz - 1,
          get_index : 0 .. BufSz - 1, is_full : BOOLEAN]
RingOf(r) == [buf |-> r.buffer, size |-> BufSz, head |-> r.get_index, tail |-> r.put_index]
BytesOf(r) ==
    [i \in 1 .. (r.put_index - r.get_index) % BufSz |->
        r.buffer[(r.get_index + i - 1) % BufSz]]

LEMMA FifoIsRing ==
    ASSUME NEW r \in Fifos
    PROVE  /\ Ring(RingOf(r)) /\ RingOf(r).size = BufSz /\ BufSz > 0
           /\ RingOf(r).buf = r.buffer
           /\ RingOf(r).head = r.get_index /\ RingOf(r).tail = r.put_index
           /\ BytesOf(r) = Contents(RingOf(r))
<1>ModBelow. ASSUME NEW n \in Nat, n > 0, NEW p \in 0 .. n - 1, NEW g \in 0 .. n - 1
             PROVE  (p - g) % n = IF g > p THEN n - g + p ELSE p - g
  BY <1>ModBelow, SMTT(60)
<1>1. BufSz \in Nat /\ BufSz > 0
  BY UARTAssumption, SMTT(60)
<1>2. /\ r.put_index \in 0 .. BufSz - 1 /\ r.get_index \in 0 .. BufSz - 1
      /\ r.buffer \in [0 .. BufSz - 1 -> Vals]
  BY DEF Fifos
<1>3. RingOf(r).size = BufSz /\ RingOf(r).buf = r.buffer
      /\ RingOf(r).head = r.get_index /\ RingOf(r).tail = r.put_index
      /\ RingOf(r) = [buf |-> RingOf(r).buf, size |-> RingOf(r).size,
                     head |-> RingOf(r).head, tail |-> RingOf(r).tail]
  BY DEF RingOf
<1>4. Ring(RingOf(r))
  BY <1>1, <1>2, <1>3, SMTT(60) DEF Ring
<1>5. (r.put_index - r.get_index) % BufSz = available(RingOf(r))
  <2>1. (r.put_index - r.get_index) % BufSz
           = IF r.get_index > r.put_index
             THEN BufSz - r.get_index + r.put_index
             ELSE r.put_index - r.get_index
    BY <1>1, <1>2, <1>ModBelow
  <2>2. QED
    BY <1>3, <2>1 DEF available
<1>6. BytesOf(r) = Contents(RingOf(r))
  BY <1>3, <1>5 DEF BytesOf, Contents
<1>7. QED
  BY <1>1, <1>3, <1>4, <1>6

LEMMA FollowingSlot ==
    ASSUME NEW i \in 0 .. BufSz - 1
    PROVE  Following(i) = Slot(i, 1, BufSz) /\ Following(i) \in 0 .. BufSz - 1
<1>1. BufSz \in Nat /\ BufSz > 0
  BY UARTAssumption, SMTT(60)
<1>2. QED
  BY <1>1, SMTT(60) DEF Following, Slot

\* The numbers 1 to n without those of D, in order.
InOrder(q, n, D) ==
    /\ \A i, j \in DOMAIN q : i < j => q[i] < q[j]
    /\ {q[i] : i \in DOMAIN q} = 1 .. n \ D

LEMMA OrderIs ==
    ASSUME NEW S, NEW q \in Seq(S), NEW n, NEW D
    PROVE  InOrder(q, n, D) <=>
              /\ \A i, j \in 1 .. Len(q) : i < j => q[i] < q[j]
              /\ \A i \in 1 .. Len(q) : q[i] \in 1 .. n /\ q[i] \notin D
              /\ \A k \in 1 .. n : k \notin D => \E i \in 1 .. Len(q) : q[i] = k
BY SMTT(60) DEF InOrder

\* _serial_int_rx takes the oldest byte of rx_fifo.
LEMMA FifoTake ==
    ASSUME Types, RxInv, Types', ~FifoEmpty,
           rx_fifo' = [rx_fifo EXCEPT !.get_index = Following(@), !.is_full = FALSE]
    PROVE  InFifo = <<rx_fifo.buffer[rx_fifo.get_index]>> \o InFifo'
           /\ rx_fifo.buffer[rx_fifo.get_index] \in Vals /\ InFifo' \in Seq(Vals)
<1>HeadApart. ASSUME NEW S, NEW q \in Seq(S), Len(q) > 0
              PROVE  q = <<q[1]>> \o SubSeq(q, 2, Len(q)) /\ q[1] \in S /\ SubSeq(q, 2, Len(q)) \in Seq(S)
                     /\ Len(SubSeq(q, 2, Len(q))) = Len(q) - 1
  BY <1>HeadApart, SMTT(60)
<1> DEFINE f == RingOf(rx_fifo)
           g == rx_fifo.get_index
<1>1. /\ Ring(f) /\ f.size = BufSz /\ f.size > 0 /\ f.buf = rx_fifo.buffer
      /\ f.head = g /\ f.tail = rx_fifo.put_index /\ InFifo = Contents(f)
  <2>1. rx_fifo \in Fifos /\ InFifo = BytesOf(rx_fifo)
    BY DEF Types, Fifos, InFifo, BytesOf
  <2>2. QED
    BY <2>1, FifoIsRing
<1>2. g \in 0 .. BufSz - 1 /\ g # rx_fifo.put_index
  BY DEF Types, RxInv, FifoEmpty
<1>3. 1 \in Nat /\ 1 <= available(f)
  <2>1. f.head \in Nat /\ f.tail \in Nat /\ f.size \in Nat /\ f.head < f.size /\ f.head # f.tail
        /\ f.tail < f.size
    BY <1>1, <1>2, RingNumbers
  <2>2. QED
    BY <2>1, SMTT(60) DEF available
<1>4. InFifo' = Contents(advance(f, 1))
  <2>1. InFifo' = Contents(RingOf(rx_fifo'))
    <3>1. rx_fifo' \in Fifos /\ InFifo' = BytesOf(rx_fifo')
      BY DEF Types, Fifos, InFifo, BytesOf
    <3>2. QED
      BY <3>1, FifoIsRing
  <2>2. RingOf(rx_fifo') = [buf |-> f.buf, size |-> f.size, head |-> Slot(f.head, 1, f.size),
                     tail |-> f.tail]
    <3>2. Following(g) = Slot(g, 1, BufSz)
      BY <1>2, FollowingSlot
    <3>3. QED
      BY <3>2, SMTT(60) DEF RingOf
  <2>3. advance(f, 1) = RingOf(rx_fifo')
    <3>1. advance(f, 1).size = f.size /\ advance(f, 1).buf = f.buf
          /\ advance(f, 1).tail = f.tail /\ advance(f, 1).head = Slot(f.head, 1, f.size)
          /\ Ring(advance(f, 1))
      BY <1>1, <1>3, AdvanceIs
    <3>2. QED
      BY <2>2, <3>1 DEF Ring
  <2>4. QED
    BY <2>1, <2>3
<1>5. Contents(advance(f, 1)) = SubSeq(Contents(f), 2, available(f))
  BY <1>1, <1>3, ContentsAdvance, SMTT(60)
<1>6. Contents(f) \in Seq(Vals) /\ Len(Contents(f)) = available(f)
      /\ Contents(f)[1] = f.buf[f.head]
  <2>1. available(f) \in Nat /\ f.head \in Nat /\ f.head < f.size /\ f.size \in Nat
    BY <1>1, RingNumbers
  <2>2. 1 \in 1 .. available(f) /\ Slot(f.head, 1 - 1, f.size) = f.head
    BY <1>3, <2>1, SMTT(60) DEF Slot
  <2>3. QED
    BY <1>1, <2>2, ContentsAt
<1>7. Len(Contents(f)) > 0
  BY <1>3, <1>6, SMTT(60)
<1> HIDE DEF f
<1>8. QED
  BY <1>1, <1>4, <1>5, <1>6, <1>7, <1>HeadApart

\* rt_hw_serial_isr puts the byte that arrives behind the others, and gives up
\* the oldest when rx_fifo is full.
LEMMA FifoPut ==
    ASSUME Types, Types', rt_hw_serial_isr
    PROVE  /\ InFifo \in Seq(Vals) /\ arrived' = arrived + 1 /\ arrived + 1 \in Vals
           /\ \/ InFifo' = InFifo \o <<arrived + 1>> /\ UNCHANGED dropped
              \/ \E x \in Vals, t \in Seq(Vals) :
                    /\ InFifo = <<x>> \o t /\ InFifo' = t \o <<arrived + 1>>
                    /\ dropped' = dropped \cup {x}
<1> DEFINE f == RingOf(rx_fifo)
           g == rx_fifo.get_index
           p == rx_fifo.put_index
           x == arrived + 1
           c == [f EXCEPT !.buf[p] = x]
           stored == [rx_fifo.buffer EXCEPT ![p] = x]
<1>1. /\ Ring(f) /\ f.size = BufSz /\ f.size > 0 /\ f.buf = rx_fifo.buffer
      /\ f.head = g /\ f.tail = p /\ InFifo = Contents(f)
      /\ InFifo' = Contents(RingOf(rx_fifo'))
  <2>1. /\ rx_fifo \in Fifos /\ InFifo = BytesOf(rx_fifo)
        /\ rx_fifo' \in Fifos /\ InFifo' = BytesOf(rx_fifo')
    BY DEF Types, Fifos, InFifo, BytesOf
  <2>2. QED
    BY <2>1, FifoIsRing
<1>2. /\ g \in 0 .. BufSz - 1 /\ p \in 0 .. BufSz - 1 /\ x \in Vals
      /\ BufSz \in Nat /\ BufSz > 1
  <2>1. g \in 0 .. BufSz - 1 /\ p \in 0 .. BufSz - 1 /\ arrived \in 0 .. MaxIn
    BY DEF Types
  <2>2. BufSz \in Nat \ {0, 1} /\ MaxIn \in Nat
    BY UARTAssumption
  <2>3. QED
    BY <2>1, <2>2, SMTT(60) DEF Vals
<1>3. /\ Ring(c) /\ c.size = BufSz /\ c.head = g /\ c.tail = p /\ Contents(c) = Contents(f)
      /\ available(c) = available(f) /\ c.buf = stored
  <2>1. 0 \in Nat /\ 0 <= space(f) /\ p = Slot(f.tail, 0, f.size)
    <3>1. f.tail \in Nat /\ f.tail < f.size /\ f.size \in Nat /\ space(f) \in Nat
      BY <1>1, RingNumbers
    <3>2. QED
      BY <1>1, <3>1, SMTT(60) DEF Slot
  <2>2. SameQueue(c, f) /\ c.buf = [f.buf EXCEPT ![p] = x]
    BY <1>1, <1>2, <2>1, PutByte, SMTT(60)
  <2>3. QED
    BY <1>1, <2>2, SameQueueKeeps, SMTT(60)
<1> HIDE DEF c
<1>4. /\ stored[p] = x
      /\ arrived' = x
      /\ rx_fifo' = [buffer |-> stored, put_index |-> Following(p),
                     get_index |-> IF Following(p) = g THEN Following(g) ELSE g,
                     is_full |-> (Following(p) = g) \/ rx_fifo.is_full]
      /\ dropped' = IF Following(p) = g THEN dropped \cup {stored[g]} ELSE dropped
  BY DEF rt_hw_serial_isr, Types
<1>5. Following(p) = Slot(p, 1, BufSz) /\ Following(g) = Slot(g, 1, BufSz)
  BY <1>2, FollowingSlot
<1>6. RingOf(rx_fifo') = [buf |-> stored, size |-> BufSz,
                   head |-> IF Following(p) = g THEN Following(g) ELSE g,
                   tail |-> Following(p)]
  BY <1>4 DEF RingOf
<1>7. <<x>> \in Seq(Vals) /\ Len(<<x>>) = 1 /\ <<x>>[1] = x
  BY <1>2, SMTT(60)
<1>8. Contents(c) \in Seq(Vals) /\ Len(Contents(c)) = available(c) /\ available(c) \in Nat
  BY <1>1, <1>3, ContentsAt, RingNumbers
<1>9. ASSUME NEW d, Ring(d), d.size = BufSz, d.tail = p, d.buf = stored, space(d) >= 1
      PROVE  /\ Contents(commit(d, 1)) = Contents(d) \o <<x>>
             /\ commit(d, 1) = [buf |-> stored, size |-> BufSz, head |-> d.head,
                                tail |-> Following(p)]
  <2>1. 1 \in Nat /\ 1 <= space(d) /\ d.size > 0
    BY <1>2, <1>9, SMTT(60)
  <2>2. \A j \in 1 .. 1 : <<x>>[j] = d.buf[Slot(d.tail, j - 1, d.size)]
    <3>1. Slot(p, 1 - 1, BufSz) = p
      BY <1>2, SMTT(60) DEF Slot
    <3>2. QED
      BY <1>4, <1>9, <3>1, SMTT(60)
  <2>3. Contents(commit(d, 1)) = Contents(d) \o <<x>>
    BY <1>7, <1>9, <2>1, <2>2, ContentsCommit
  <2>4. /\ Ring(commit(d, 1)) /\ commit(d, 1).size = d.size /\ commit(d, 1).buf = d.buf
        /\ commit(d, 1).head = d.head /\ commit(d, 1).tail = Slot(d.tail, 1, d.size)
    BY <1>9, <2>1, CommitIs
  <2>5. QED
    BY <1>5, <1>9, <2>3, <2>4 DEF Ring
<1>10. CASE Following(p) # g
  <2>1. space(c) >= 1
    <3>1. c.size = BufSz /\ c.head = g /\ c.tail = p /\ Slot(p, 1, BufSz) # g
      BY <1>3, <1>5, <1>10
    <3>2. QED
      BY <1>2, <3>1, SMTT(60) DEF space, Slot
  <2>2. RingOf(rx_fifo') = commit(c, 1) /\ Contents(commit(c, 1)) = Contents(c) \o <<x>>
    BY <1>3, <1>6, <1>9, <1>10, <2>1
  <2>3. QED
    BY <1>1, <1>2, <1>3, <1>4, <1>8, <1>10, <2>2
<1>11. CASE Following(p) = g
  <2>1. 1 \in Nat /\ 1 <= available(c) /\ c.size > 0
    <3>1. c.size = BufSz /\ c.head = g /\ c.tail = p /\ Slot(p, 1, BufSz) = g
      BY <1>3, <1>5, <1>11
    <3>2. QED
      BY <1>2, <3>1, SMTT(60) DEF available, Slot
  <2> DEFINE d == advance(c, 1)
  <2>2. Ring(d) /\ d.size = BufSz /\ d.buf = stored /\ d.tail = p
        /\ d.head = Following(g) /\ space(d) = space(c) + 1
    BY <1>3, <1>5, <2>1, AdvanceIs, SMTT(60)
  <2>3. space(d) >= 1
    <3>1. space(c) \in Nat
      BY <1>3, <2>1, RingNumbers
    <3>2. QED
      BY <2>2, <3>1, SMTT(60)
  <2>4. RingOf(rx_fifo') = commit(d, 1) /\ Contents(commit(d, 1)) = Contents(d) \o <<x>>
    BY <1>6, <1>9, <1>11, <2>2, <2>3
  <2>5. Contents(d) = SubSeq(Contents(c), 2, available(c))
    BY <1>3, <2>1, ContentsAdvance, SMTT(60)
  <2>6. Contents(c)[1] = stored[g]
    <3>1. 1 \in 1 .. available(c) /\ Slot(g, 1 - 1, BufSz) = g
      BY <1>2, <2>1, SMTT(60) DEF Slot
    <3>2. Contents(c)[1] = c.buf[Slot(c.head, 1 - 1, c.size)]
      BY <1>3, <2>1, <3>1, ContentsAt
    <3>3. QED
      BY <1>3, <3>1, <3>2
  <2>7. /\ Contents(c) = <<Contents(c)[1]>> \o Contents(d)
        /\ Contents(c)[1] \in Vals /\ Contents(d) \in Seq(Vals)
    <3> HIDE DEF c, d
    <3>1. Len(Contents(c)) > 0
      BY <1>8, <2>1, SMTT(60)
    <3>2. QED
      BY <1>8, <2>5, <3>1, SMTT(60)
  <2>8. InFifo = <<stored[g]>> \o Contents(d) /\ InFifo' = Contents(d) \o <<x>>
        /\ dropped' = dropped \cup {stored[g]}
    BY <1>1, <1>3, <1>4, <1>11, <2>4, <2>6, <2>7
  <2>9. QED
    BY <1>2, <1>3, <1>4, <1>8, <2>6, <2>7, <2>8
<1>12. QED
  BY <1>10, <1>11

\* All bytes between the line and the reader.
Way == received \o Contents(_readbuf) \o Uncommitted \o InFifo

LEMMA ContentsSeq ==
    ASSUME NEW b, Ring(b)
    PROVE  Contents(b) \in Seq(Vals)
<1>1. CASE b.size = 0
  <2>1. Contents(b) = <<>>
    BY <1>1, ContentsNone
  <2>2. <<>> \in Seq(Vals)
    BY SMTT(60)
  <2>3. QED
    BY <2>1, <2>2
<1>3. QED
  BY <1>1, SMTT(60) DEF Ring

LEMMA UncommittedIs ==
    ASSUME Types, SizeInv, RxInv
    PROVE  /\ Uncommitted \in Seq(Vals)
           /\ tick.pc \in {"read", "commit"} =>
                 /\ Len(Uncommitted) = tick.got
                 /\ \A i \in 1 .. tick.got :
                       Uncommitted[i] = _readbuf.buf[Slot(_readbuf.tail, i - 1, _readbuf.size)]
\* The first g slots of a piece.
<1>PieceBytes. ASSUME NEW b, Ring(b), b.size > 0, NEW v \in Seq(Piece), NEW g \in Nat,
                      Pieces(v, b.tail, space(b), b.size), g <= v[1].len
               PROVE  LET s == CopyFrom(b, IoVec(Head(v).data, g))
                      IN  /\ s \in Seq(Vals) /\ Len(s) = g
                          /\ \A i \in 1 .. g : s[i] = b.buf[Slot(b.tail, i - 1, b.size)]
  <2> USE <1>PieceBytes
  <2> DEFINE s == CopyFrom(b, IoVec(Head(v).data, g))
  <2>1. /\ b.size \in Nat /\ b.tail \in Nat /\ b.tail < b.size /\ space(b) \in Nat
        /\ space(b) < b.size
    BY RingNumbers
  <2>2. Head(v) = v[1] /\ v[1].len \in Nat /\ v[1].data = b.tail
    BY PieceTypes DEF Pieces
  <2>3. b.tail + v[1].len <= b.size
        /\ \A i \in Nat : i < v[1].len => Slot(b.tail, i, b.size) = b.tail + i
    BY <2>1, FirstPiece, SMTT(60)
  <2>4. s = [i \in 1 .. g |-> b.buf[b.tail + i - 1]]
    BY <2>2 DEF CopyFrom, IoVec
  <2>5. ASSUME NEW i \in 1 .. g
        PROVE  /\ b.buf[b.tail + i - 1] = b.buf[Slot(b.tail, i - 1, b.size)]
               /\ b.buf[b.tail + i - 1] \in Vals
    <3>1. /\ i - 1 \in Nat /\ i - 1 < v[1].len /\ b.tail + (i - 1) = b.tail + i - 1
          /\ b.tail + i - 1 \in 0 .. b.size - 1
      <4>1. ASSUME NEW t \in Nat, NEW l \in Nat, NEW n \in Nat, t + l <= n, g <= l
            PROVE  i - 1 \in Nat /\ i - 1 < l /\ t + (i - 1) = t + i - 1 /\ t + i - 1 \in 0 .. n - 1
        BY <4>1, SMTT(60)
      <4>2. QED
        BY <2>1, <2>2, <2>3, <4>1
    <3>2. Slot(b.tail, i - 1, b.size) = b.tail + i - 1
      BY <2>3, <3>1
    <3>3. b.buf \in [0 .. b.size - 1 -> Vals]
      BY DEF Ring
    <3>4. QED
      BY <3>1, <3>2, <3>3
  <2> HIDE DEF s
  <2>6. s \in Seq(Vals) /\ Len(s) = g
    <3>1. s \in [1 .. g -> Vals]
      BY <2>4, <2>5
    <3>2. QED
      BY <3>1, SMTT(60)
  <2>7. \A i \in 1 .. g : s[i] = b.buf[Slot(b.tail, i - 1, b.size)]
    BY <2>4, <2>5
  <2>8. QED
    BY <2>6, <2>7 DEF s
<1>1. CASE tick.pc \in {"read", "commit"}
  <2> DEFINE s == CopyFrom(_readbuf, IoVec(Head(tick.vec).data, tick.got))
  <2>1. Ring(_readbuf) /\ _readbuf.size > 0
    BY <1>1, RingsInTick
  <2>2. tick.vec \in Seq(Piece) /\ tick.got \in Nat
    BY DEF Types
  <2>3. Pieces(tick.vec, _readbuf.tail, space(_readbuf), _readbuf.size)
        /\ tick.got <= tick.vec[1].len
    BY <1>1 DEF RxInv
  <2>4. /\ s \in Seq(Vals) /\ Len(s) = tick.got
        /\ \A i \in 1 .. tick.got :
              s[i] = _readbuf.buf[Slot(_readbuf.tail, i - 1, _readbuf.size)]
    BY <2>1, <2>2, <2>3, <1>PieceBytes
  <2>5. Uncommitted = s
    BY <1>1 DEF Uncommitted
  <2>6. QED
    BY <2>4, <2>5
<1>2. CASE tick.pc \notin {"read", "commit"}
  BY <1>2, SMTT(60) DEF Uncommitted
<1>3. QED
  BY <1>1, <1>2

LEMMA WayTypes ==
    ASSUME Inv0
    PROVE  /\ received \in Seq(Vals) /\ Contents(_readbuf) \in Seq(Vals)
           /\ Uncommitted \in Seq(Vals) /\ InFifo \in Seq(Vals)
<1>1. received \in Seq(Vals) /\ Ring(_readbuf) /\ rx_fifo \in Fifos
  BY DEF Inv0, Types, Fifos
<1>2. InFifo = Contents(RingOf(rx_fifo)) /\ Ring(RingOf(rx_fifo))
  BY <1>1, FifoIsRing DEF InFifo, BytesOf
<1>3. QED
  BY <1>1, <1>2, ContentsSeq, UncommittedIs DEF Inv0

\* One more slot of a piece is filled.
Part(f, d, g) == [i \in 1 .. g |-> f[d + i - 1]]

Stored(e, f, k, x, n) ==
    /\ f \in [0 .. n - 1 -> Vals] /\ k < n /\ e[k] = x
    /\ \A j \in 0 .. n - 1 : j # k => e[j] = f[j]

\* No step but the interrupt's changes them.
LEMMA WayReadFd ==
    ASSUME Inv0, Types', _read_fd, ~(tick.got = Head(tick.vec).len \/ FifoEmpty)
    PROVE  Way' = Way
<1>LongerPart. ASSUME NEW n \in Nat, NEW d \in Nat, NEW g \in Nat, NEW x \in Vals, NEW y, y = <<x>>,
                      NEW f, NEW e, Stored(e, f, d + g, x, n)
               PROVE  Part(e, d, g + 1) = Cat(Part(f, d, g), y)
  <2> USE <1>LongerPart
  <2> DEFINE s == Part(f, d, g)
             t == Part(e, d, g + 1)
  <2>2. \A i \in 1 .. g : f[d + i - 1] \in Vals /\ e[d + i - 1] = f[d + i - 1]
    BY SMTT(60) DEF Stored
  <2>3. e[d + (g + 1) - 1] = x
    BY SMTT(60) DEF Stored
  <2>4. s \in Seq(Vals) /\ Len(s) = g /\ \A i \in 1 .. g : s[i] = f[d + i - 1]
    BY <2>2, SMTT(60) DEF Part
  <2>5. ASSUME NEW i \in 1 .. g + 1
        PROVE  e[d + i - 1] \in Vals
    <3>1. CASE i = g + 1
      BY <2>3, <3>1
    <3>2. CASE i \in 1 .. g
      BY <2>2, <3>2
    <3>3. i = g + 1 \/ i \in 1 .. g
      BY SMTT(60)
    <3>4. QED
      BY <3>1, <3>2, <3>3
  <2>6. t \in Seq(Vals) /\ Len(t) = g + 1 /\ \A i \in 1 .. g + 1 : t[i] = e[d + i - 1]
    BY <2>5, SMTT(60) DEF Part
  <2> HIDE DEF s, t
  <2>7. s \o y \in Seq(Vals) /\ Len(s \o y) = g + 1 /\ (s \o y)[g + 1] = x
        /\ \A i \in 1 .. g : (s \o y)[i] = s[i]
    BY <2>4, SMTT(60)
  <2>8. ASSUME NEW i \in 1 .. g + 1
        PROVE  t[i] = (s \o y)[i]
    <3>1. CASE i = g + 1
      BY <2>3, <2>6, <2>7, <3>1
    <3>2. CASE i \in 1 .. g
      BY <2>2, <2>4, <2>6, <2>7, <3>2
    <3>3. i = g + 1 \/ i \in 1 .. g
      BY SMTT(60)
    <3>4. QED
      BY <3>1, <3>2, <3>3
  <2>9. t = s \o y
    BY <2>6, <2>7, <2>8, SameSeq
  <2>10. QED
    BY <2>9 DEF s, t, Cat
<1>FourJoined. ASSUME NEW a \in Seq(Vals), NEW b \in Seq(Vals), NEW c \in Seq(Vals), NEW d \in Seq(Vals)
               PROVE  Cat(Cat(a, Cat(b, c)), d) = Cat(Cat(a, b), Cat(c, d))
  <2> USE <1>FourJoined
  <2> DEFINE s == (a \o (b \o c)) \o d
             t == (a \o b) \o (c \o d)
  <2>1. s \in Seq(Vals) /\ t \in Seq(Vals) /\ Len(s) = Len(t)
    BY SMTT(60)
  <2>2. ASSUME NEW i \in 1 .. Len(s)
        PROVE  s[i] = t[i]
    BY SMTT(60)
  <2> HIDE DEF s, t
  <2>3. s = t
    BY <2>1, <2>2, SMTT(60)
  <2>4. QED
    BY <2>3 DEF s, t, Cat
<1> DEFINE r == received
           C == Contents(_readbuf)
           x == rx_fifo.buffer[rx_fifo.get_index]
           y == <<x>>
           b == _readbuf
<1>1. /\ SameQueue(_readbuf', b) /\ tick.got < tick.vec[1].len /\ ~FifoEmpty
      /\ _readbuf'.buf = [b.buf EXCEPT ![Slot(b.tail, tick.got, b.size)] = x]
      /\ tick' = [tick EXCEPT !.got = @ + 1]
      /\ rx_fifo' = [rx_fifo EXCEPT !.get_index = Following(@), !.is_full = FALSE]
  BY ReadFdIs DEF Inv0
<1>2. InFifo = y \o InFifo' /\ x \in Vals /\ InFifo' \in Seq(Vals)
  BY <1>1, FifoTake DEF Inv0
<1>3. Ring(b) /\ b.size > 0 /\ tick.pc = "read"
  BY RingsInTick DEF Inv0, _read_fd
<1>4. Contents(_readbuf') = C
  BY <1>1, <1>3, SameQueueKeeps
<1>5. r \in Seq(Vals) /\ C \in Seq(Vals) /\ Uncommitted \in Seq(Vals) /\ y \in Seq(Vals)
  BY <1>2, WayTypes, SMTT(60)
<1>6. Uncommitted' = Cat(Uncommitted, y)
  <2> DEFINE g == tick.got
             d == Head(tick.vec).data
  <2>1. tick.vec \in Seq(Piece) /\ g \in Nat
        /\ tick = [pc |-> tick.pc, vec |-> tick.vec, got |-> tick.got]
    BY DEF Inv0, Types
  <2>2. tick'.pc = "read" /\ tick'.vec = tick.vec /\ tick'.got = g + 1
    BY <1>1, <1>3, SMTT(60)
  <2>3. Uncommitted = Part(b.buf, d, g)
    BY <1>3 DEF Uncommitted, CopyFrom, IoVec, Part
  <2>4. Uncommitted' = Part(_readbuf'.buf, d, g + 1)
    BY <2>2 DEF Uncommitted, CopyFrom, IoVec, Part
  <2>5. Pieces(tick.vec, b.tail, space(b), b.size)
    BY <1>3 DEF Inv0, RxInv
  <2>6. d \in Nat /\ Slot(b.tail, g, b.size) = d + g /\ d + g < b.size
    <3>1. /\ b.size \in Nat /\ b.tail \in Nat /\ b.tail < b.size /\ space(b) \in Nat
          /\ space(b) < b.size
      BY <1>3, RingNumbers
    <3>2. Head(tick.vec) = tick.vec[1] /\ tick.vec[1].len \in Nat /\ tick.vec[1].data = b.tail
      BY <2>1, <2>5, PieceTypes DEF Pieces
    <3>3. b.tail + tick.vec[1].len <= b.size
          /\ \A i \in Nat : i < tick.vec[1].len => Slot(b.tail, i, b.size) = b.tail + i
      BY <2>1, <2>5, <3>1, FirstPiece, SMTT(60)
    <3>4. d = b.tail /\ Slot(b.tail, g, b.size) = d + g
      BY <1>1, <2>1, <3>2, <3>3
    <3> HIDE DEF b, d, g
    <3>5. d + g < b.size
      <4>1. g < tick.vec[1].len
        BY <1>1 DEF g
      <4>2. QED
        BY <2>1, <3>1, <3>2, <3>3, <3>4, <4>1, SMTT(60)
    <3>6. QED
      BY <3>1, <3>4, <3>5
  <2>7. b.buf \in [0 .. b.size - 1 -> Vals] /\ b.size \in Nat
    BY <1>3 DEF Ring
  <2>8. /\ _readbuf'.buf[d + g] = x
        /\ \A k \in 0 .. b.size - 1 : k # d + g => _readbuf'.buf[k] = b.buf[k]
    BY <1>1, <2>1, <2>6, <2>7, SMTT(60)
  <2> HIDE DEF b, d, g, x, y
  <2>9. QED
    <3> DEFINE n == b.size
               f == b.buf
               e == _readbuf'.buf
    <3>1. y = <<x>>
      BY DEF y
    <3>2. n \in Nat /\ d \in Nat /\ g \in Nat /\ x \in Vals /\ Stored(e, f, d + g, x, n)
      BY <1>2, <2>1, <2>6, <2>7, <2>8 DEF Stored
    <3>3. Uncommitted = Part(f, d, g) /\ Uncommitted' = Part(e, d, g + 1)
      BY <2>3, <2>4
    <3> HIDE DEF n, f, e
    <3>4. Part(e, d, g + 1) = Cat(Part(f, d, g), y)
      BY <3>1, <3>2, <1>LongerPart, SMTT(60)
    <3>5. QED
      BY <3>3, <3>4
<1>7. UNCHANGED received
  BY DEF _read_fd, ThreadOnly
<1> HIDE DEF r, C, x, y, b
<1>8. Cat(r, C) \in Seq(Vals)
  BY <1>5, CatType
<1>9. Way = Cat(Cat(Cat(r, C), Uncommitted), Cat(y, InFifo'))
  BY <1>2 DEF Way, r, C, Cat
<1>10. Way' = Cat(Cat(Cat(r, C), Cat(Uncommitted, y)), InFifo')
  BY <1>4, <1>6, <1>7 DEF Way, r, Cat
<1>11. QED
  BY <1>2, <1>5, <1>8, <1>9, <1>10, <1>FourJoined, SMTT(60)

LEMMA CatNone ==
    ASSUME NEW a \in Seq(Vals)
    PROVE  Cat(a, <<>>) = a
<1>2. QED
  BY SMTT(60) DEF Cat

LEMMA WayTickCommit ==
    ASSUME Inv0, tick_commit
    PROVE  Way' = Way
<1> DEFINE r == received
           C == Contents(_readbuf)
           U == Uncommitted
<1>1. r \in Seq(Vals) /\ C \in Seq(Vals) /\ U \in Seq(Vals) /\ InFifo \in Seq(Vals)
  BY WayTypes
<1>2. /\ tick.got \in Nat /\ tick.got <= space(_readbuf) /\ Ring(_readbuf) /\ _readbuf.size > 0
      /\ _readbuf' = commit(_readbuf, tick.got) /\ tick'.got = 0
  BY TickCommitIs DEF Inv0
<1>3. /\ Len(U) = tick.got
      /\ \A i \in 1 .. tick.got : U[i] = _readbuf.buf[Slot(_readbuf.tail, i - 1, _readbuf.size)]
  BY UncommittedIs DEF Inv0, tick_commit
<1> HIDE DEF U
<1>4. Contents(_readbuf') = Cat(C, U)
  BY <1>1, <1>2, <1>3, ContentsCommit DEF Cat
<1>5. Uncommitted' = <<>>
  BY <1>2, SMTT(60) DEF Uncommitted, CopyFrom, IoVec, Part
<1>6. UNCHANGED received /\ InFifo' = InFifo
  BY DEF tick_commit, ThreadOnly, InFifo
<1> HIDE DEF r, C
<1>7. Way = Cat(Cat(Cat(r, C), U), InFifo)
  BY DEF Way, r, C, U, Cat
<1>8. Way' = Cat(Cat(Cat(r, Cat(C, U)), <<>>), InFifo)
  BY <1>4, <1>5, <1>6 DEF Way, r, Cat
<1>9. Cat(C, U) \in Seq(Vals) /\ Cat(r, Cat(C, U)) \in Seq(Vals)
  BY <1>1, CatType
<1>10. Cat(Cat(r, Cat(C, U)), <<>>) = Cat(r, Cat(C, U))
  BY <1>9, CatNone
<1>11. Cat(Cat(r, C), U) = Cat(r, Cat(C, U))
  BY <1>1, ThreeJoined, SMTT(60)
<1>12. QED
  BY <1>7, <1>8, <1>10, <1>11

LEMMA WayReadAdvance ==
    ASSUME Inv0, read_advance
    PROVE  Way' = Way
<1> DEFINE r == received
           C == Contents(_readbuf)
           D == Contents(_readbuf')
           U == Uncommitted
           y == <<byte>>
           b == _readbuf
<1>1. r \in Seq(Vals) /\ C \in Seq(Vals)
  BY WayTypes
<1>2. 1 <= available(b) /\ byte = peek(b) /\ Ring(b) /\ b.size > 0 /\ _readbuf' = advance(b, 1)
  BY ReadAdvanceIs DEF Inv0
<1>3. D = SubSeq(C, 2, available(b))
  BY <1>2, ContentsAdvance, SMTT(60)
<1>4. available(b) \in Nat /\ b.head \in Nat /\ b.head < b.size /\ b.size \in Nat
  BY <1>2, RingNumbers
<1>5. Len(C) = available(b) /\ C[1] = byte
  <2>1. 1 \in 1 .. available(b) /\ Slot(b.head, 1 - 1, b.size) = b.head
    BY <1>2, <1>4, SMTT(60) DEF Slot
  <2>2. Len(C) = available(b) /\ C[1] = b.buf[Slot(b.head, 1 - 1, b.size)]
    BY <1>2, ContentsAt, SMTT(60)
  <2>3. QED
    BY <1>2, <2>1, <2>2 DEF peek
<1>6. C = Cat(y, D) /\ y \in Seq(Vals) /\ D \in Seq(Vals)
  <2> HIDE DEF C, D
  <2>1. Len(C) > 0
    BY <1>2, <1>5, SMTT(60)
  <2>2. C = <<C[1]>> \o SubSeq(C, 2, Len(C)) /\ C[1] \in Vals /\ SubSeq(C, 2, Len(C)) \in Seq(Vals)
    BY <1>1, <2>1, SMTT(60)
  <2>3. QED
    BY <1>3, <1>5, <2>2, SMTT(60) DEF Cat
<1>7. received' = Cat(r, y)
  BY SMTT(60) DEF read_advance, Cat
<1>8. U' = U /\ InFifo' = InFifo
  <2>1. _readbuf'.buf = b.buf
    BY <1>2, AdvanceIs
  <2>2. QED
    BY <2>1 DEF read_advance, rx, Uncommitted, CopyFrom, InFifo
<1> HIDE DEF r, C, D, U, y
<1>9. Way = Cat(Cat(Cat(r, C), U), InFifo)
  BY SMTT(60) DEF Way, r, C, U, Cat
<1>10. Way' = Cat(Cat(Cat(Cat(r, y), D), U), InFifo)
  BY <1>7, <1>8 DEF Way, D, U, Cat
<1>11. Cat(Cat(r, y), D) = Cat(r, Cat(y, D))
  BY <1>1, <1>6, ThreeJoined, SMTT(60)
<1>12. QED
  BY <1>6, <1>9, <1>10, <1>11

LEMMA WayStep ==
    ASSUME Inv0, Types', Next, ~rt_hw_serial_isr
    PROVE  Way' = Way
<1>1. CASE _read_fd /\ ~(tick.got = Head(tick.vec).len \/ FifoEmpty)
  BY <1>1, WayReadFd
<1>2. CASE tick_commit
  BY <1>2, WayTickCommit
<1>3. CASE read_advance
  BY <1>3, WayReadAdvance, SMTT(60)
<1>4. CASE /\ ~(_read_fd /\ ~(tick.got = Head(tick.vec).len \/ FifoEmpty))
           /\ ~tick_commit /\ ~read_advance
  <2>2. UNCHANGED received /\ UNCHANGED rx_fifo
    <3>1. _read_fd => UNCHANGED rx_fifo
      BY <1>4 DEF _read_fd
    <3>2. QED
      BY <1>4, <3>1, Owners
  <2>3. InFifo' = InFifo
    BY <2>2 DEF InFifo
  <2>4. CASE begin_set_rx
    <3>1. tick.pc = "sleep" /\ UNCHANGED tick
      <4>1. MinRx # 0
        BY UARTAssumption
      <4>2. tick = Asleep
        BY <2>4, <4>1 DEF Inv0, SizeInv, begin_set_rx
      <4>3. QED
        BY <2>4, <4>2 DEF Asleep, begin_set_rx, BeginOnly
    <3>2. Contents(_readbuf) = <<>>
      BY <2>4, ContentsNone DEF Inv0, Types, SizeInv, begin_set_rx
    <3>3. Contents(_readbuf') = <<>>
      <4>1. begin.rx \in Nat /\ 0 \in Nat
        BY DEF Inv0, Types
      <4>2. _readbuf' = set_size(begin.rx) \/ _readbuf' = set_size(0)
        BY <2>4 DEF begin_set_rx
      <4>3. QED
        BY <4>1, <4>2, NewRing
    <3>4. Uncommitted' = Uncommitted
      BY <3>1 DEF Uncommitted
    <3>5. QED
      BY <2>2, <2>3, <3>2, <3>3, <3>4 DEF Way
  <2>5. CASE UNCHANGED _readbuf
    <3>1. Uncommitted' = Uncommitted
      <4>1. CASE UNCHANGED tick
        BY <2>5, <4>1 DEF Uncommitted, CopyFrom
      <4>2. CASE tick_reserve
        <5>1. tick.pc = "reserve" /\ tick'.got = 0
          BY <4>2 DEF tick_reserve
        <5>2. QED
          BY <5>1, SMTT(60) DEF Uncommitted, CopyFrom, IoVec, Part
      <4>3. CASE _read_fd
        <5>1. tick' = [tick EXCEPT !.pc = "commit"] /\ tick.pc = "read"
          BY <1>4, <4>3 DEF _read_fd
        <5>3. QED
          BY <2>5, <5>1, SMTT(60) DEF Uncommitted, CopyFrom
      <4>4. CASE UartThread /\ ~tick_reserve /\ ~_read_fd
        <5>1. tick.pc \notin {"read", "commit"}
          BY <1>4, <4>4, SMTT(60) DEF UartThread, tick_test, tick_mark, tick_peek, _write_fd, tick_advance,
                            tick_done, Asleep
        <5>2. tick'.pc \notin {"read", "commit"} \/ UNCHANGED tick
          BY <1>4, <4>4, TickMoves DEF Inv0
        <5>3. QED
          BY <5>1, <5>2 DEF Uncommitted
      <4>5. QED
        BY <4>1, <4>2, <4>3, <4>4, Owners
    <3>2. QED
      BY <2>2, <2>3, <2>5, <3>1 DEF Way
  <2>6. CASE _read_fd
    BY <1>4, <2>5, <2>6 DEF _read_fd
  <2>7. QED
    BY <1>4, <2>4, <2>5, <2>6, ReadRingSteps
<1>5. QED
  BY <1>1, <1>2, <1>3, <1>4

-----------------------------------------------------------------------------
(* No received byte is lost or reordered *)

\* ReceivedInOrder is inductive once a byte is given up only after it arrived.
RxWayInv == Inv0 /\ ReceivedInOrder /\ dropped \subseteq 1 .. arrived

LEMMA OrderOfWay == ReceivedInOrder <=> InOrder(Way, arrived, dropped)
BY DEF ReceivedInOrder, InOrder, Way

LEMMA OrderOfWayNext == ReceivedInOrder' <=> InOrder(Way', arrived', dropped')
BY DEF ReceivedInOrder, InOrder, Way

LEMMA RxWayInit ==
    ASSUME Init
    PROVE  RxWayInv
<1>1. Inv0
  BY Inv0Init
<1>2. /\ received = <<>> /\ arrived = 0 /\ dropped = {} /\ tick.pc = "sleep"
      /\ _readbuf = set_size(0) /\ rx_fifo.put_index = 0 /\ rx_fifo.get_index = 0
  BY DEF Init, Asleep, EmptyFifo
<1>3. Contents(_readbuf) = <<>>
  BY <1>2, NewRing
<1>4. Uncommitted = <<>>
  BY <1>2 DEF Uncommitted
<1>5. InFifo = <<>>
  <2>1. BufSz \in Nat /\ BufSz > 0 /\ 0 \in 0 .. BufSz - 1
    BY UARTAssumption, SMTT(60)
  <2>2. (0 - 0) % BufSz = 0
    BY <2>1, SMTT(60)
  <2>3. QED
    BY <1>2, <2>2, SMTT(60) DEF InFifo
<1>6. Way = <<>>
  BY <1>2, <1>3, <1>4, <1>5, SMTT(60) DEF Way
<1>7. InOrder(Way, arrived, dropped)
  BY <1>2, <1>6, SMTT(60) DEF InOrder
<1>8. QED
  BY <1>1, <1>2, <1>7, OrderOfWay DEF RxWayInv

LEMMA RxWayStep ==
    ASSUME RxWayInv, [Next]_vars
    PROVE  RxWayInv'
\* The next byte arrives ...
\* ... and one is given up.
<1>OneLess. ASSUME NEW S, NEW p \in Seq(S), NEW x \in S, NEW t \in Seq(S), NEW n \in Nat, NEW D,
                   InOrder(p \o (<<x>> \o t), n, D)
            PROVE  InOrder(p \o t, n, D \cup {x}) /\ x \in 1 .. n
  <2> USE <1>OneLess
  <2> DEFINE q == p \o (<<x>> \o t)
             r == p \o t
             m == Len(p)
  <2>1. q \in Seq(S) /\ r \in Seq(S) /\ Len(q) = Len(r) + 1 /\ q[m + 1] = x
        /\ m \in Nat /\ Len(r) \in Nat /\ m <= Len(r)
    BY SMTT(60)
  <2>2. \A i \in 1 .. Len(r) : r[i] = q[IF i <= m THEN i ELSE i + 1]
    BY SMTT(60)
  <2>3. /\ \A i, j \in 1 .. Len(q) : i < j => q[i] < q[j]
        /\ \A i \in 1 .. Len(q) : q[i] \in 1 .. n /\ q[i] \notin D
        /\ \A k \in 1 .. n : k \notin D => \E i \in 1 .. Len(q) : q[i] = k
    BY <2>1, OrderIs
  <2> HIDE DEF q, r, m
  <2>4. x \in 1 .. n
    BY <2>1, <2>3, SMTT(60)
  <2>5. ASSUME NEW i \in 1 .. Len(r), NEW j \in 1 .. Len(r), i < j
        PROVE  r[i] < r[j]
    <3> DEFINE From(k) == IF k <= m THEN k ELSE k + 1
    <3>1. From(i) \in 1 .. Len(q) /\ From(j) \in 1 .. Len(q) /\ From(i) < From(j)
      BY <2>1, <2>5, SMTT(60)
    <3>2. r[i] = q[From(i)] /\ r[j] = q[From(j)]
      BY <2>2
    <3>3. QED
      BY <2>3, <3>1, <3>2
  <2>6. ASSUME NEW i \in 1 .. Len(r)
        PROVE  r[i] \in 1 .. n /\ r[i] \notin D /\ r[i] # x
    <3>1. CASE i <= m
      <4>1. r[i] = q[i] /\ i \in 1 .. Len(q) /\ m + 1 \in 1 .. Len(q) /\ i < m + 1
        BY <2>1, <2>2, <3>1, SMTT(60)
      <4>2. q[i] < q[m + 1] /\ q[i] \in 1 .. n /\ q[i] \notin D
        BY <2>3, <4>1
      <4>3. QED
        BY <2>1, <4>1, <4>2, SMTT(60)
    <3>2. CASE ~(i <= m)
      <4>1. i + 1 \in 1 .. Len(q) /\ m + 1 \in 1 .. Len(q) /\ m + 1 < i + 1
        BY <2>1, <3>2, SMTT(60)
      <4>4. r[i] = q[i + 1]
        BY <2>2, <3>2
      <4>2. q[m + 1] < q[i + 1] /\ q[i + 1] \in 1 .. n /\ q[i + 1] \notin D
            /\ q[m + 1] \in 1 .. n
        BY <2>3, <4>1
      <4>3. QED
        BY <2>1, <4>2, <4>4, SMTT(60)
    <3>3. QED
      BY <3>1, <3>2
  <2>7. ASSUME NEW k \in 1 .. n, k \notin D \cup {x}
        PROVE  \E i \in 1 .. Len(r) : r[i] = k
    <3>1. PICK i \in 1 .. Len(q) : q[i] = k
      BY <2>3, <2>7
    <3>2. i # m + 1
      BY <2>1, <2>7, <3>1
    <3>3. CASE i <= m
      <4>1. i \in 1 .. Len(r) /\ r[i] = q[i]
        BY <2>1, <2>2, <3>3, SMTT(60)
      <4>2. QED
        BY <3>1, <4>1
    <3>4. CASE i > m + 1
      <4>1. i - 1 \in 1 .. Len(r) /\ ~(i - 1 <= m) /\ (i - 1) + 1 = i
        BY <2>1, <3>4, SMTT(60)
      <4>2. r[i - 1] = q[i]
        BY <2>2, <4>1
      <4>3. QED
        BY <3>1, <4>1, <4>2
    <3>5. QED
      BY <2>1, <3>2, <3>3, <3>4, SMTT(60)
  <2>8. InOrder(r, n, D \cup {x})
    BY <2>1, <2>5, <2>6, <2>7, OrderIs
  <2>9. QED
    BY <2>4, <2>8 DEF r
<1>OneMore. ASSUME NEW S, NEW q \in Seq(S), NEW n \in Nat, NEW D, D \subseteq 1 .. n, n + 1 \in S,
                   InOrder(q, n, D)
            PROVE  InOrder(q \o <<n + 1>>, n + 1, D)
  <2> USE <1>OneMore
  <2> DEFINE r == q \o <<n + 1>>
  <2>1. r \in Seq(S) /\ Len(r) = Len(q) + 1 /\ r[Len(q) + 1] = n + 1
        /\ \A i \in 1 .. Len(q) : r[i] = q[i]
    BY SMTT(60)
  <2>2. /\ \A i, j \in 1 .. Len(q) : i < j => q[i] < q[j]
        /\ \A i \in 1 .. Len(q) : q[i] \in 1 .. n /\ q[i] \notin D
        /\ \A k \in 1 .. n : k \notin D => \E i \in 1 .. Len(q) : q[i] = k
    BY OrderIs
  <2>3. Len(q) \in Nat
    BY SMTT(60)
  <2> HIDE DEF r
  <2>4. \A i, j \in 1 .. Len(r) : i < j => r[i] < r[j]
    BY <2>1, <2>2, <2>3, SMTT(60)
  <2>5. \A i \in 1 .. Len(r) : r[i] \in 1 .. n + 1 /\ r[i] \notin D
    BY <2>1, <2>2, SMTT(60)
  <2>6. ASSUME NEW k \in 1 .. n + 1, k \notin D
        PROVE  \E i \in 1 .. Len(r) : r[i] = k
    <3>1. CASE k = n + 1
      BY <2>1, <3>1, SMTT(60)
    <3>2. CASE k \in 1 .. n
      <4>1. PICK i \in 1 .. Len(q) : q[i] = k
        BY <2>2, <2>6, <3>2
      <4>2. i \in 1 .. Len(r) /\ r[i] = k
        BY <2>1, <4>1, SMTT(60)
      <4>3. QED
        BY <4>2
    <3>3. QED
      BY <3>1, <3>2, SMTT(60)
  <2>7. InOrder(r, n + 1, D)
    BY <2>1, <2>4, <2>5, <2>6, OrderIs
  <2>8. QED
    BY <2>7 DEF r
<1>1. Inv0' /\ Inv0 /\ Types' /\ Types
  BY Inv0Step DEF RxWayInv, Inv0
<1>2. InOrder(Way, arrived, dropped) /\ dropped \subseteq 1 .. arrived
  BY OrderOfWay DEF RxWayInv
<1>3. CASE rt_hw_serial_isr
  <2> DEFINE P == Cat(Cat(received, Contents(_readbuf)), Uncommitted)
             x == arrived + 1
             y == <<x>>
  <2>1. P \in Seq(Vals)
    <3>1. received \in Seq(Vals) /\ Contents(_readbuf) \in Seq(Vals) /\ Uncommitted \in Seq(Vals)
      BY <1>1, WayTypes
    <3>3. QED
      BY <3>1, CatType
  <2>2. Way = Cat(P, InFifo) /\ Way' = Cat(P, InFifo')
    <3>1. UNCHANGED <<received, _readbuf, tick>>
      BY <1>3 DEF rt_hw_serial_isr
    <3>2. Uncommitted' = Uncommitted
      BY <3>1 DEF Uncommitted, CopyFrom
    <3>3. QED
      BY <3>1, <3>2 DEF Way, Cat
  <2>3. InFifo \in Seq(Vals) /\ arrived' = x /\ x \in Vals /\ arrived \in Nat /\ y \in Seq(Vals)
    <3>1. InFifo \in Seq(Vals) /\ arrived' = x /\ x \in Vals
      BY <1>1, <1>3, FifoPut
    <3>2. arrived \in Nat
      BY <1>1, SMTT(60) DEF Types
    <3>3. QED
      BY <3>1, <3>2, SMTT(60)
  <2> HIDE DEF P, y
  <2>4. ASSUME NEW q \in Seq(Vals), NEW D, D \subseteq 1 .. arrived, InOrder(q, arrived, D)
        PROVE  InOrder(Cat(q, y), x, D) /\ D \subseteq 1 .. x
    <3>1. InOrder(q \o <<arrived + 1>>, arrived + 1, D)
      BY <2>3, <2>4, <1>OneMore
    <3>2. D \subseteq 1 .. x
      BY <2>3, <2>4, SMTT(60)
    <3>3. QED
      BY <3>1, <3>2 DEF Cat, y
  <2>5. CASE InFifo' = InFifo \o <<x>> /\ UNCHANGED dropped
    <3>1. Way' = Cat(Cat(P, InFifo), y)
      <4>1. InFifo' = Cat(InFifo, y)
        BY <2>5 DEF Cat, y
      <4>2. QED
        BY <2>1, <2>2, <2>3, <4>1, ThreeJoined
    <3>2. Cat(P, InFifo) \in Seq(Vals)
      BY <2>1, <2>3, CatType
    <3>3. InOrder(Way', arrived', dropped') /\ dropped' \subseteq 1 .. arrived'
      BY <1>2, <2>2, <2>3, <2>4, <2>5, <3>1, <3>2
    <3>4. QED
      BY <1>1, <3>3, OrderOfWayNext DEF RxWayInv
  <2>6. ASSUME NEW z \in Vals, NEW t \in Seq(Vals), InFifo = <<z>> \o t, InFifo' = t \o <<x>>,
               dropped' = dropped \cup {z}
        PROVE  RxWayInv'
    <3>1. InOrder(P \o (<<z>> \o t), arrived, dropped)
      BY <1>2, <2>2, <2>6 DEF Cat
    <3>2. InOrder(P \o t, arrived, dropped \cup {z}) /\ z \in 1 .. arrived
      BY <2>1, <2>3, <3>1, <1>OneLess
    <3>3. InOrder(Cat(P, t), arrived, dropped') /\ dropped' \subseteq 1 .. arrived
      BY <1>2, <2>6, <3>2 DEF Cat
    <3>4. Way' = Cat(Cat(P, t), y)
      <4>1. InFifo' = Cat(t, y)
        BY <2>6 DEF Cat, y
      <4>2. QED
        BY <2>1, <2>2, <2>3, <4>1, ThreeJoined
    <3>5. Cat(P, t) \in Seq(Vals)
      BY <2>1, CatType
    <3>6. InOrder(Way', arrived', dropped') /\ dropped' \subseteq 1 .. arrived'
      BY <2>3, <2>4, <3>3, <3>4, <3>5
    <3>7. QED
      BY <1>1, <3>6, OrderOfWayNext DEF RxWayInv
  <2>7. QED
    BY <1>1, <1>3, <2>5, <2>6, FifoPut
<1>4. CASE Next /\ ~rt_hw_serial_isr
  <2>1. Way' = Way
    BY <1>1, <1>4, WayStep
  <2>2. UNCHANGED <<arrived, dropped>>
    BY <1>4, Owners
  <2>3. QED
    BY <1>1, <1>2, <2>1, <2>2, OrderOfWayNext DEF RxWayInv
<1>5. CASE UNCHANGED vars
  <2>1. UNCHANGED <<received, _readbuf, rx_fifo, tick, arrived, dropped>>
    BY <1>5 DEF vars, rx
  <2>2. Uncommitted' = Uncommitted /\ InFifo' = InFifo
    BY <2>1 DEF Uncommitted, InFifo, CopyFrom
  <2>3. Way' = Way
    BY <2>1, <2>2 DEF Way
  <2>4. QED
    BY <1>1, <1>2, <2>1, <2>3, OrderOfWayNext DEF RxWayInv
<1>6. QED
  BY <1>3, <1>4, <1>5

\* Every byte that arrived is, once and in order, with the reader, in _readbuf,
\* on its way there or in rx_fifo, or was given up by the interrupt.
THEOREM NothingLostOrReordered == Spec => []ReceivedInOrder
<1>1. Init => RxWayInv
  BY RxWayInit, SMTT(60)
<1>2. RxWayInv /\ [Next]_vars => RxWayInv'
  BY RxWayStep, SMTT(60)
<1>3. RxWayInv => ReceivedInOrder
  BY DEF RxWayInv
<1>4. QED
  BY <1>1, <1>2, <1>3, PTL DEF Spec

-----------------------------------------------------------------------------
(* _readbuf is a queue *)

\* What both queues need of a ring: how many bytes it may hold.
LEMMA ContentsBound ==
    ASSUME NEW b, Ring(b), b.size > 0
    PROVE  Len(Contents(b)) \in Nat /\ Len(Contents(b)) <= b.size - 1
BY Counts, ContentsAt, SMTT(60) DEF Ring

LEMMA FirstOf ==
    ASSUME NEW q, NEW m \in Nat, \A i \in 1 .. m : q[i] \in Vals
    PROVE  /\ SubSeq(q, 1, m) \in Seq(Vals) /\ Len(SubSeq(q, 1, m)) = m
           /\ \A i \in 1 .. m : SubSeq(q, 1, m)[i] = q[i]
<1>1. ASSUME NEW k \in Int, NEW n \in Int
      PROVE  /\ Len(SubSeq(q, k, n)) = IF k <= n THEN n - k + 1 ELSE 0
             /\ \A j \in 1 .. n - k + 1 : SubSeq(q, k, n)[j] = q[k + j - 1]
  BY SMTT(60)
<1>2. SubSeq(q, 1, m) \in Seq(Vals)
  BY SMTT(60)
<1>3. 1 \in Int /\ m \in Int
  BY SMTT(60)
<1>4. /\ Len(SubSeq(q, 1, m)) = IF 1 <= m THEN m - 1 + 1 ELSE 0
      /\ \A j \in 1 .. m - 1 + 1 : SubSeq(q, 1, m)[j] = q[1 + j - 1]
  BY <1>1, <1>3
<1>5. (IF 1 <= m THEN m - 1 + 1 ELSE 0) = m /\ m - 1 + 1 = m /\ \A j \in 1 .. m : 1 + j - 1 = j
  BY SMTT(60)
<1>6. QED
  BY <1>2, <1>4, <1>5

LEMMA ContentsInWay ==
    RxWayInv => \A i \in 1 .. Len(Contents(_readbuf)) : Contents(_readbuf)[i] \in 1 .. MaxIn
<1> SUFFICES ASSUME RxWayInv, NEW i \in 1 .. Len(Contents(_readbuf))
             PROVE  Contents(_readbuf)[i] \in 1 .. MaxIn
  OBVIOUS
<1> DEFINE r == received
           C == Contents(_readbuf)
<1>1. r \in Seq(Vals) /\ C \in Seq(Vals) /\ Uncommitted \in Seq(Vals) /\ InFifo \in Seq(Vals)
  BY WayTypes DEF RxWayInv
<1>2. InOrder(Way, arrived, dropped)
  BY OrderOfWay DEF RxWayInv
<1>3. arrived \in 0 .. MaxIn /\ MaxIn \in Nat
  BY UARTAssumption DEF RxWayInv, Inv0, Types
<1>4. Way \in Seq(Vals) /\ \E j \in 1 .. Len(Way) : Way[j] = C[i]
  <2> HIDE DEF r, C
  <2> DEFINE j == Len(r) + i
             p == r \o C
             u == p \o Uncommitted
  <2>1. p \in Seq(Vals) /\ j \in 1 .. Len(p) /\ p[j] = C[i]
    BY <1>1, SMTT(60) DEF C
  <2> HIDE DEF p, j
  <2>2. u \in Seq(Vals) /\ j \in 1 .. Len(u) /\ u[j] = C[i]
    BY <1>1, <2>1, SMTT(60)
  <2> HIDE DEF u
  <2>3. u \o InFifo \in Seq(Vals) /\ j \in 1 .. Len(u \o InFifo) /\ (u \o InFifo)[j] = C[i]
    BY <1>1, <2>2, SMTT(60)
  <2>4. Way = u \o InFifo
    BY DEF Way, u, p, r, C
  <2>5. QED
    BY <2>3, <2>4
<1>5. \A j \in 1 .. Len(Way) : Way[j] \in 1 .. arrived
  BY <1>2, <1>4, OrderIs
<1> HIDE DEF C
<1>6. C[i] \in 1 .. arrived
  BY <1>4, <1>5
<1>7. C[i] \in 1 .. MaxIn
  BY <1>3, <1>6, SMTT(60)
<1>8. QED
  BY <1>7 DEF C

LEMMA RxQueueCommit ==
    ASSUME RxWayInv, RxWayInv', tick_commit
    PROVE  Rx!Put \/ UNCHANGED Rx!vars
\* Bytes enter behind those that are there ...
<1>PutIs. ASSUME NEW q \in Seq(Vals), NEW s \in Seq(Vals), Len(s) > 0, NEW p, p = q \o s,
                 NEW n \in Nat, Len(p) <= n
          PROVE  Len(p) \in Len(q) + 1 .. n /\ SubSeq(p, 1, Len(q)) = q
  BY <1>PutIs, SMTT(60)
<1> DEFINE C == Contents(_readbuf)
           D == Contents(_readbuf')
           U == Uncommitted
<1>1. /\ tick.got \in Nat /\ tick.got <= space(_readbuf) /\ Ring(_readbuf) /\ _readbuf.size > 0
      /\ _readbuf' = commit(_readbuf, tick.got)
  BY TickCommitIs DEF RxWayInv, Inv0
<1>2. C \in Seq(Vals) /\ U \in Seq(Vals) /\ Len(U) = tick.got
      /\ \A i \in 1 .. tick.got : U[i] = _readbuf.buf[Slot(_readbuf.tail, i - 1, _readbuf.size)]
  BY WayTypes, UncommittedIs DEF RxWayInv, Inv0, tick_commit
<1>3. D = C \o U
  <2> HIDE DEF U
  <2>1. QED
    BY <1>1, <1>2, ContentsCommit
<1>4. received' = received
  BY DEF tick_commit, ThreadOnly
<1>5. CASE tick.got = 0
  <2> HIDE DEF C, U
  <2>1. C \o U = C
    <3>1. U = <<>>
      BY <1>2, <1>5, SMTT(60)
    <3>2. QED
      BY <3>1, SMTT(60) DEF Cat
  <2>2. QED
    BY <1>3, <1>4, <2>1 DEF Rx!vars, C
<1>6. CASE tick.got > 0
  <2>1. Ring(_readbuf') /\ _readbuf'.size = MinRx /\ _readbuf'.size > 0 /\ MinRx \in Nat
    <3>1. _readbuf.size = MinRx /\ MinRx \in Nat
      BY RingsInTick, UARTAssumption DEF RxWayInv, Inv0, tick_commit
    <3>2. QED
      BY <1>1, <3>1, CommitIs
  <2>2. Len(D) <= MinRx - 1 /\ MinRx - 1 \in Nat
    BY <2>1, ContentsBound, SMTT(60)
  <2>3. \A i \in 1 .. Len(D) : D[i] \in 1 .. MaxIn
    <3>1. (\A i \in 1 .. Len(Contents(_readbuf)) : Contents(_readbuf)[i] \in 1 .. MaxIn)'
      BY ContentsInWay, PTL
    <3>2. QED
      BY <3>1
  <2> HIDE DEF C, D, U
  <2>4. Len(D) \in Len(C) + 1 .. MinRx - 1 /\ SubSeq(D, 1, Len(C)) = C
    BY <1>2, <1>3, <1>6, <2>2, <1>PutIs
  <2>5. QED
    BY <1>4, <2>3, <2>4 DEF Rx!Put, C, D
<1>7. QED
  BY <1>1, <1>5, <1>6, SMTT(60)

LEMMA RxQueueTake ==
    ASSUME RxWayInv, read_advance
    PROVE  \E n \in 1 .. MinRx - 1 : Rx!Take(n)
<1> DEFINE b == _readbuf
           C == Contents(b)
<1>1. Inv0
  BY DEF RxWayInv
<1>2. 1 <= available(b) /\ byte = peek(b) /\ Ring(b) /\ b.size > 0 /\ _readbuf' = advance(b, 1)
  BY <1>1, ReadAdvanceIs DEF Inv0
<1>3. available(b) \in Nat /\ b.head \in Nat /\ b.head < b.size /\ b.size \in Nat
  BY <1>2, RingNumbers, SMTT(60)
<1>4. C \in Seq(Vals) /\ Len(C) = available(b) /\ C[1] = byte
  <2>1. 1 \in 1 .. available(b) /\ Slot(b.head, 1 - 1, b.size) = b.head
    BY <1>2, <1>3, SMTT(60) DEF Slot
  <2>2. C \in Seq(Vals) /\ Len(C) = available(b) /\ C[1] = b.buf[Slot(b.head, 1 - 1, b.size)]
    BY <1>2, ContentsAt, SMTT(60)
  <2>3. QED
    BY <1>2, <2>1, <2>2 DEF peek
<1>5. Contents(_readbuf') = SubSeq(C, 1 + 1, Len(C))
  BY <1>2, <1>4, ContentsAdvance
<1> HIDE DEF C
<1>6. SubSeq(C, 1, 1) = <<byte>>
  <2>1. C[1] \in Vals /\ 1 \in Nat /\ \A i \in 1 .. 1 : C[i] \in Vals
    BY <1>2, <1>4, SMTT(60)
  <2>2. /\ SubSeq(C, 1, 1) \in Seq(Vals) /\ Len(SubSeq(C, 1, 1)) = 1
        /\ \A i \in 1 .. 1 : SubSeq(C, 1, 1)[i] = C[i]
    BY <2>1, FirstOf
  <2>3. <<C[1]>> \in Seq(Vals) /\ Len(<<C[1]>>) = 1
        /\ \A i \in 1 .. 1 : SubSeq(C, 1, 1)[i] = <<C[1]>>[i]
    BY <2>1, SMTT(60)
  <2>4. SubSeq(C, 1, 1) = <<C[1]>>
    BY <2>2, <2>3, SameSeq
  <2>5. QED
    BY <1>4, <2>4
<1>7. received' = received \o SubSeq(C, 1, 1)
  <2>2. received' = received \o <<byte>>
    BY SMTT(60) DEF read_advance
  <2>3. QED
    BY <1>6, <2>2
<1>8. 1 \in 1 .. MinRx - 1 /\ 1 <= Len(C)
  <2>1. MinRx \in Nat \ {0, 1}
    BY UARTAssumption
  <2>2. QED
    BY <1>2, <1>4, <2>1, SMTT(60)
<1>9. Rx!Take(1)
  BY <1>5, <1>7, <1>8 DEF Rx!Take, C
<1>10. QED
  BY <1>8, <1>9

LEMMA RxQueueStep ==
    ASSUME RxWayInv, RxWayInv', [Next]_vars
    PROVE  [Rx!Next]_(Rx!vars)
<1>1. CASE tick_commit
  BY <1>1, RxQueueCommit DEF Rx!Next
<1>2. CASE read_advance
  BY <1>2, RxQueueTake DEF Rx!Next
<1>3. CASE Next /\ ~tick_commit /\ ~read_advance
  <2>1. UNCHANGED received
    BY <1>3, Owners
  <2>2. Contents(_readbuf') = Contents(_readbuf)
    <3>2. CASE _read_fd
      <4>1. CASE tick.got = Head(tick.vec).len \/ FifoEmpty
        BY <3>2, <4>1 DEF _read_fd
      <4>2. CASE ~(tick.got = Head(tick.vec).len \/ FifoEmpty)
        <5>1. SameQueue(_readbuf', _readbuf)
          BY <3>2, <4>2, ReadFdIs DEF RxWayInv, Inv0
        <5>2. Ring(_readbuf) /\ _readbuf.size > 0
          BY <3>2, RingsInTick DEF RxWayInv, Inv0, _read_fd
        <5>3. QED
          BY <5>1, <5>2, SameQueueKeeps
      <4>3. QED
        BY <4>1, <4>2
    <3>3. CASE begin_set_rx
      <4>1. Contents(_readbuf) = <<>>
        BY <3>3, ContentsNone DEF RxWayInv, Inv0, Types, SizeInv, begin_set_rx
      <4>2. begin.rx \in Nat /\ 0 \in Nat
        BY DEF RxWayInv, Inv0, Types
      <4>3. _readbuf' = set_size(begin.rx) \/ _readbuf' = set_size(0)
        BY <3>3 DEF begin_set_rx
      <4>4. QED
        BY <4>1, <4>2, <4>3, NewRing
    <3>4. QED
      BY <1>3, <3>2, <3>3, ReadRingSteps
  <2>3. QED
    BY <2>1, <2>2 DEF Rx!vars
<1>4. CASE UNCHANGED vars
  BY <1>4 DEF vars, Rx!vars
<1>5. QED
  BY <1>1, <1>2, <1>3, <1>4

\* The tick's receiving in two pieces, begin()'s new rings and read() together
\* implement a bounded queue between rx_fifo and the reader.
THEOREM ReadbufIsQueue == Spec => RxIsQueue
<1>1. Init => RxWayInv
  BY RxWayInit, SMTT(60)
<1>2. RxWayInv /\ [Next]_vars => RxWayInv'
  BY RxWayStep, SMTT(60)
<1>3. Init => Rx!Init
  BY NewRing DEF Init, Rx!Init
<1>4. RxWayInv /\ RxWayInv' /\ [Next]_vars => [Rx!Next]_(Rx!vars)
  BY RxQueueStep
<1>5. QED
  BY <1>1, <1>2, <1>3, <1>4, PTL DEF Spec, RxIsQueue, Rx!Spec

-----------------------------------------------------------------------------
(* _writebuf is a queue *)

\* The test of _uart_owner_pid lets no thread but the main one write.
LEMMA OwnerWrites ==
    ASSUME OwnerInv, NEW w \in Writers, Write(w)
    PROVE  w = Main
<1>1. NoThread \notin Writers
  BY UARTAssumption
<1>2. CASE \E n \in WriteSizes : write_call(w, n)
  BY <1>1, <1>2 DEF write_call, getpid, OwnerInv
<1>3. CASE write_fill(w) \/ write_refused(w) \/ write_commit(w)
  <2>1. writer[w].pc # "out"
    BY <1>3 DEF write_fill, write_refused, write_commit
  <2>2. QED
    BY <2>1 DEF OwnerInv
<1>4. QED
  BY <1>2, <1>3 DEF Write

LEMMA OwnerStep ==
    ASSUME Types, OwnerInv, [Next]_vars
    PROVE  OwnerInv'
<1>1. ASSUME NEW w \in Writers, Write(w)
      PROVE  OwnerInv'
  <2>1. w = Main
    BY <1>1, OwnerWrites
  <2>2. UNCHANGED _uart_owner_pid
    BY <1>1 DEF Write, write_call, write_fill, write_refused, write_commit, WriteOnly, port
  <2>3. \A x \in Writers : x # w => writer'[x] = writer[x]
    BY <1>1 DEF Write, write_call, write_fill, write_refused, write_commit, Types
  <2>4. QED
    BY <2>1, <2>2, <2>3 DEF OwnerInv
<1>2. CASE begin_open
  <2>1. UNCHANGED writer /\ (_uart_owner_pid' = Main \/ UNCHANGED _uart_owner_pid)
    BY <1>2 DEF begin_open, BeginOnly, getpid
  <2>2. QED
    BY <2>1 DEF OwnerInv
<1>3. CASE UNCHANGED <<writer, _uart_owner_pid>>
  BY <1>3 DEF OwnerInv
<1>4. CASE rt_hw_serial_isr \/ read_peek \/ read_advance \/ set_blocking_writes
  BY <1>3, <1>4 DEF rt_hw_serial_isr, read_peek, read_advance, set_blocking_writes, port
<1>5. CASE UartThread
  <2>1. UNCHANGED ThreadOnly
    BY <1>5 DEF UartThread, tick_test, tick_mark, tick_peek, _write_fd, tick_advance,
                tick_reserve, _read_fd, tick_commit, tick_done
  <2>2. QED
    BY <1>3, <2>1 DEF ThreadOnly, port
<1>6. CASE Begin /\ ~begin_open
  BY <1>3, <1>6 DEF Begin, begin_call, begin_rx, begin_set_rx, begin_tx, begin_set_tx,
                    BeginOnly, port
<1>7. CASE UNCHANGED vars
  BY <1>3, <1>7 DEF vars, port
<1>8. QED
  BY <1>1, <1>2, <1>4, <1>5, <1>6, <1>7 DEF Next

LEMMA FillInWrite ==
    ASSUME Inv0, NEW w \in Writers, Write(w), Filled(writer[w], offered, _writebuf)
    PROVE  Filled(writer'[w], offered', _writebuf')
<1>WriterFilled. ASSUME NEW x \in WriterRecords, NEW m \in Nat
                 PROVE  LET y == [x EXCEPT !.pc = "commit", !.len = m]
                        IN  /\ y \in WriterRecords /\ y.pc = "commit" /\ y.left = x.left /\ y.len = m
                            /\ y.bytewise = x.bytewise
  <2> USE <1>WriterFilled
  <2> DEFINE y == [x EXCEPT !.pc = "commit", !.len = m]
  <2>1. y \in WriterRecords
    BY DEF WriterRecords
  <2>4. QED
    BY <2>1, SMTT(60)
<1> DEFINE b == _writebuf
           x == writer[w]
           z == writer'[w]
<1>1. /\ writer \in [Writers -> WriterRecords] /\ x \in WriterRecords
      /\ offered \in Nat /\ MaxOut \in Nat
  BY UARTAssumption DEF Inv0, Types, WriterRecords
<1>2. ASSUME NEW n \in WriteSizes, write_call(w, n)
      PROVE  Filled(z, offered', _writebuf')
  <2>1. z.pc = "fill" /\ z.left = n /\ UNCHANGED offered
    BY <1>1, <1>2 DEF write_call
  <2>2. n > 0 /\ offered + n <= MaxOut
    BY <1>2, UARTAssumption, SMTT(60) DEF write_call
  <2>3. QED
    BY <2>1, <2>2 DEF Filled
<1>3. CASE write_fill(w)
  <2> DEFINE m == z.len
  <2>1. /\ Ring(b) /\ b.size > 0 /\ m \in Nat /\ m <= space(b)
        /\ m <= (IF x.bytewise THEN 1 ELSE x.left) /\ offered' = offered + m
        /\ writer' = [writer EXCEPT ![w].pc = "commit", ![w].len = m]
        /\ SameQueue(_writebuf', b)
    BY <1>3, WriteFillIs DEF Inv0
  <2>2. \A j \in 1 .. m : _writebuf'.buf[Slot(b.tail, j - 1, b.size)] = offered + j
    BY <1>3, WriteFillIs DEF Inv0
  <2>3. /\ _writebuf'.size = b.size /\ _writebuf'.tail = b.tail /\ space(_writebuf') = space(b)
    BY <2>1, SameQueueKeeps
  <2>4. z.pc = "commit" /\ z.left = x.left /\ z.bytewise = x.bytewise
    <3> HIDE DEF m
    <3>1. z = [x EXCEPT !.pc = "commit", !.len = m]
      BY <1>1, <2>1
    <3>2. m \in Nat
      BY <2>1
    <3> HIDE DEF x, z
    <3>3. QED
      BY <1>1, <3>1, <3>2, <1>WriterFilled
  <2>5. x.left > 0 /\ offered + x.left <= MaxOut /\ x.left \in Nat
    BY <1>1, <1>3 DEF Filled, write_fill, WriterRecords
  <2> HIDE DEF b, m, x
  <2>6. offered + m + (IF x.bytewise THEN x.left - 1 ELSE 0) <= MaxOut
    <3>1. CASE x.bytewise
      BY <1>1, <2>1, <2>5, SMTT(60)
    <3>2. CASE ~x.bytewise
      BY <1>1, <2>1, <2>5, SMTT(60)
    <3>3. QED
      BY <3>1, <3>2
  <2>7. m <= offered' /\ \A j \in 1 .. m : offered' - m + j = offered + j
    BY <1>1, <2>1, SMTT(60)
  <2>8. QED
    BY <2>1, <2>2, <2>3, <2>4, <2>5, <2>6, <2>7 DEF Filled, m
<1>4. CASE write_refused(w)
  BY <1>1, <1>4 DEF write_refused, NotInWrite, Filled
<1>5. CASE write_commit(w)
  <2>1. PICK y \in WriterRecords :
           /\ writer' = [writer EXCEPT ![w] = y]
           /\ \/ y = NotInWrite
              \/ /\ x.bytewise /\ x.left # 1
                 /\ y.pc = "fill" /\ y.left = x.left - 1 /\ y.len = 0
                 /\ y.bytewise = x.bytewise
    BY <1>5, WriterCommitted DEF Inv0
  <2>2. z = y
    BY <1>1, <2>1
  <2>3. CASE y = NotInWrite
    BY <2>2, <2>3, SMTT(60) DEF NotInWrite, Filled
  <2>4. CASE y # NotInWrite
    <3>1. x.left \in Nat /\ x.left > 0 /\ offered + (x.left - 1) <= MaxOut /\ UNCHANGED offered
      BY <1>1, <1>5, <2>1, <2>4 DEF Filled, write_commit, WriterRecords
    <3>2. y.pc = "fill" /\ y.left = x.left - 1 /\ x.left # 1
      BY <2>1, <2>4
    <3>3. y.left > 0
      BY <3>1, <3>2, SMTT(60)
    <3>4. QED
      BY <2>2, <3>1, <3>2, <3>3 DEF Filled
  <2>5. QED
    BY <2>3, <2>4
<1>6. QED
  BY <1>2, <1>3, <1>4, <1>5 DEF Write

LEMMA FillStep ==
    ASSUME OwnerInv, Inv0, FillInv, Next
    PROVE  FillInv'
<1> SUFFICES ASSUME NEW w \in Writers
             PROVE  Filled(writer'[w], offered', _writebuf')
  BY DEF FillInv
<1>1. Filled(writer[w], offered, _writebuf)
  BY DEF FillInv
<1>2. CASE \E v \in Writers : Write(v)
  <2>1. Write(Main)
    BY <1>2, OwnerWrites
  <2>2. CASE w = Main
    BY <1>1, <2>1, <2>2, FillInWrite
  <2>3. CASE w # Main
    <3>1. OwnerInv'
      BY OwnerStep DEF Inv0
    <3>2. QED
      BY <2>3, <3>1 DEF OwnerInv, Filled
  <2>4. QED
    BY <2>2, <2>3
<1>3. CASE ~\E v \in Writers : Write(v)
  <2>1. UNCHANGED <<writer, offered>>
    BY <1>3, Owners
  <2>2. CASE UNCHANGED _writebuf
    BY <1>1, <2>1, <2>2
  <2>3. CASE tick_advance
    <3> DEFINE b == _writebuf
               n == tick.vec[1].len
               c == advance(b, n)
    <3>1. n \in Nat /\ n <= available(b) /\ Ring(b) /\ b.size > 0 /\ _writebuf' = c
      BY <2>3, TickAdvanceIs DEF Inv0
    <3>2. c.size = b.size /\ c.buf = b.buf /\ c.tail = b.tail /\ space(c) = space(b) + n
      BY <3>1, AdvanceIs
    <3>3. space(b) \in Nat /\ writer[w].len \in Nat
      BY <3>1, RingNumbers DEF Inv0, Types
    <3> HIDE DEF n
    <3>4. writer[w].len <= space(b) => writer[w].len <= space(c)
      BY <3>1, <3>2, <3>3, SMTT(60)
    <3> HIDE DEF b, c
    <3>5. Filled(writer[w], offered, c)
      BY <1>1, <3>2, <3>4 DEF Filled, b
    <3>6. QED
      BY <2>1, <3>1, <3>5
  <2>4. CASE begin_set_tx
    <3>1. MinTx # 0
      BY UARTAssumption
    <3>2. writer[w].pc = "out"
      BY <2>4, <3>1 DEF Inv0, SizeInv, begin_set_tx
    <3>3. QED
      BY <2>1, <3>2 DEF Filled
  <2>5. ~\E v \in Writers : write_fill(v) \/ write_commit(v)
    BY <1>3 DEF Write
  <2>6. QED
    BY <2>2, <2>3, <2>4, <2>5, WriteRingSteps
<1>4. QED
  BY <1>2, <1>3

LEMMA TxQueueCommit ==
    ASSUME Inv0, NEW w \in Writers, write_commit(w), Filled(writer[w], offered, _writebuf),
           Queued(Contents(_writebuf))
    PROVE  /\ Tx!Put \/ UNCHANGED Tx!vars
           /\ Queued(Contents(_writebuf'))
<1> DEFINE b == _writebuf
           C == Contents(b)
           D == Contents(_writebuf')
           n == writer[w].len
           s == [j \in 1 .. n |-> offered - n + j]
<1>1. /\ Ring(b) /\ b.size > 0 /\ n \in Nat /\ _writebuf' = commit(b, n) /\ b.size = MinTx
      /\ MinTx \in Nat
  <2>1. writer[w].pc # "out"
    BY DEF write_commit
  <2>2. b.size = MinTx /\ MinTx \in Nat
    BY <2>1, UARTAssumption DEF Inv0, SizeInv
  <2>3. QED
    BY <2>2, WriteCommitIs DEF Inv0
<1>2. /\ n <= space(b) /\ n <= offered
      /\ \A j \in 1 .. n : b.buf[Slot(b.tail, j - 1, b.size)] = offered - n + j
  BY DEF Filled, write_commit
<1>3. offered \in Nat /\ MaxOut \in Nat /\ offered <= MaxOut
  <2>1. offered \in Nat /\ MaxOut \in Nat /\ writer[w].left \in Nat
    BY UARTAssumption DEF Inv0, Types
  <2>2. writer[w].left > 0 /\ offered + (IF writer[w].bytewise THEN writer[w].left - 1 ELSE 0) <= MaxOut
    BY DEF Filled, write_commit
  <2>3. QED
    BY <2>1, <2>2, SMTT(60)
<1>4. C \in Seq(Vals)
  BY <1>1, ContentsAt
<1>5. TakenFromTx' = TakenFromTx
  BY DEF TakenFromTx, write_commit, WriteOnly
<1>6. \A j \in 1 .. n : offered - n + j \in 1 .. MaxOut
  <2> HIDE DEF n
  <2>1. QED
    BY <1>1, <1>2, <1>3, SMTT(60)
<1>7. s \in Seq(Vals) /\ Len(s) = n /\ \A j \in 1 .. n : s[j] = offered - n + j
  <2>1. \A j \in 1 .. n : offered - n + j \in Vals
    BY <1>6, SMTT(60) DEF Vals
  <2>2. QED
    BY <1>1, <2>1, SMTT(60)
<1> HIDE DEF s
<1>8. D = C \o s
  <2>1. \A j \in 1 .. n : s[j] = b.buf[Slot(b.tail, j - 1, b.size)]
    BY <1>2, <1>7
  <2> HIDE DEF n
  <2>2. QED
    BY <1>1, <1>2, <1>7, <2>1, ContentsCommit
<1>9. Queued(D)
  <2> HIDE DEF C, D, n
  <2>1. ASSUME NEW i \in 1 .. Len(D)
        PROVE  D[i] \in 1 .. MaxOut
    <3>1. /\ Len(D) = Len(C) + n /\ Len(C) \in Nat
          /\ \A j \in 1 .. Len(C) + n : D[j] = IF j <= Len(C) THEN C[j] ELSE s[j - Len(C)]
      <4>1. /\ Len(C \o s) = Len(C) + Len(s)
            /\ \A j \in 1 .. Len(C) + Len(s) :
                  (C \o s)[j] = IF j <= Len(C) THEN C[j] ELSE s[j - Len(C)]
        BY <1>4, <1>7, Joined
      <4>2. Len(C) \in Nat
        BY SMTT(60)
      <4>3. QED
        BY <1>7, <1>8, <4>1, <4>2
    <3>2. CASE i <= Len(C)
      BY <3>1, <3>2, SMTT(60) DEF Queued, C
    <3>3. CASE ~(i <= Len(C))
      BY <1>6, <1>7, <3>1, <3>3, SMTT(60)
    <3>4. QED
      BY <3>2, <3>3
  <2>2. QED
    BY <2>1 DEF Queued
<1>10. CASE n = 0
  <2> HIDE DEF C
  <2>1. C \o s = C
    <3>1. s = <<>>
      BY <1>7, <1>10, SMTT(60)
    <3>2. QED
      BY <3>1, SMTT(60) DEF Cat
  <2>2. UNCHANGED Tx!vars
    BY <1>5, <1>8, <2>1 DEF Tx!vars, C
  <2>3. QED
    BY <1>9, <2>2
<1>11. CASE n > 0
  <2>1. Len(D) <= MinTx - 1 /\ MinTx - 1 \in Nat
    <3>1. Ring(_writebuf') /\ _writebuf'.size = MinTx
      BY <1>1, <1>2, CommitIs
    <3>2. QED
      BY <1>1, <3>1, ContentsBound, SMTT(60)
  <2> HIDE DEF C, D
  <2>2. Len(D) \in Len(C) + 1 .. MinTx - 1 /\ SubSeq(D, 1, Len(C)) = C
    BY <1>4, <1>7, <1>8, <1>11, <2>1, SMTT(60)
  <2>3. Tx!Put
    BY <1>5, <1>9, <2>2 DEF Tx!Put, C, D, Queued
  <2>4. QED
    BY <1>9, <2>3 DEF D
<1>12. QED
  BY <1>1, <1>10, <1>11, SMTT(60)

LEMMA TxQueueTake ==
    ASSUME Inv0, tick_advance, Queued(Contents(_writebuf))
    PROVE  /\ \E n \in 1 .. MinTx - 1 : Tx!Take(n)
           /\ Queued(Contents(_writebuf'))
\* A sequence that ends with the first n elements of another.
<1>EndIs. ASSUME NEW s \in Seq(Vals), NEW c \in Seq(Vals), NEW n \in Nat, n <= Len(s), n <= Len(c),
                 \A j \in 1 .. n : s[Len(s) - n + j] = c[j]
          PROVE  s = SubSeq(s, 1, Len(s) - n) \o SubSeq(c, 1, n)
  <2> USE <1>EndIs
  <2> DEFINE m == Len(s) - n
             a == SubSeq(s, 1, m)
             b == SubSeq(c, 1, n)
  <2>1. m \in Nat /\ Len(s) = m + n /\ (\A i \in 1 .. m : s[i] \in Vals)
        /\ \A i \in 1 .. n : c[i] \in Vals
    BY SMTT(60)
  <2>2. \A j \in 1 .. n : s[m + j] = c[j]
    OBVIOUS
  <2> HIDE DEF m
  <2>3. a \in Seq(Vals) /\ Len(a) = m /\ \A i \in 1 .. m : a[i] = s[i]
    BY <2>1, FirstOf
  <2>4. b \in Seq(Vals) /\ Len(b) = n /\ \A i \in 1 .. n : b[i] = c[i]
    BY <2>1, FirstOf
  <2> HIDE DEF a, b
  <2>5. a \o b \in Seq(Vals) /\ Len(a \o b) = m + n
        /\ \A j \in 1 .. m + n : (a \o b)[j] = IF j <= m THEN a[j] ELSE b[j - m]
    BY <2>3, <2>4, Joined
  <2>6. ASSUME NEW i \in 1 .. m + n
        PROVE  s[i] = (a \o b)[i]
    <3>1. CASE i <= m
      BY <2>3, <3>1, SMTT(60)
    <3>2. CASE ~(i <= m)
      <4>1. i - m \in 1 .. n /\ m + (i - m) = i
        BY <2>1, <3>2, SMTT(60)
      <4>2. s[i] = c[i - m]
        BY <2>2, <4>1
      <4>3. QED
        BY <2>4, <2>5, <3>2, <4>1, <4>2
    <3>3. QED
      BY <3>1, <3>2
  <2>7. s = a \o b
    BY <2>1, <2>5, <2>6, SMTT(60)
  <2>8. QED
    BY <2>7 DEF a, b, m
<1> DEFINE b == _writebuf
           C == Contents(b)
           D == Contents(_writebuf')
           n == tick.vec[1].len
<1>1. /\ n \in Nat /\ n <= available(b) /\ n > 0 /\ Head(tick.vec) = tick.vec[1]
      /\ Ring(b) /\ b.size > 0 /\ _writebuf' = advance(b, n)
      /\ tick'.pc \in {"reserve", "write"} /\ tick.pc = "advance"
  BY TickAdvanceIs DEF Inv0, tick_advance
<1>2. /\ C \in Seq(Vals) /\ Len(C) = available(b)
      /\ \A i \in 1 .. available(b) : C[i] = b.buf[Slot(b.head, i - 1, b.size)]
  BY <1>1, ContentsAt
<1>3. D = SubSeq(C, n + 1, Len(C))
  BY <1>1, <1>2, ContentsAdvance
<1>4. n \in 1 .. MinTx - 1 /\ n <= Len(C)
  <2>1. b.size = MinTx /\ b.size \in Nat /\ available(b) < b.size /\ available(b) \in Nat
    BY <1>1, RingsInTick, RingNumbers DEF Inv0
  <2> HIDE DEF n
  <2>2. QED
    BY <1>1, <1>2, <2>1, SMTT(60)
<1>5. sent \in Seq(Vals) /\ sent' = sent /\ n <= Len(sent)
      /\ \A i \in 1 .. n : sent[Len(sent) - n + i] = b.buf[b.head + i - 1]
  BY DEF Inv0, Types, TxInv, tick_advance
<1>6. \A i \in 1 .. n : C[i] = b.buf[b.head + i - 1]
  <2>1. tick.vec \in Seq(Piece) /\ Pieces(tick.vec, b.head, available(b), b.size)
    BY <1>1 DEF Inv0, Types, TxInv
  <2>2. b.size \in Nat /\ b.head \in Nat /\ b.head < b.size
        /\ available(b) \in Nat /\ available(b) < b.size
    BY <1>1, RingNumbers
  <2>3. \A i \in Nat : i < n => Slot(b.head, i, b.size) = b.head + i
    <3> HIDE DEF b
    <3>1. QED
      BY <2>1, <2>2, FirstPiece
  <2> HIDE DEF b, n, C
  <2>4. ASSUME NEW i \in 1 .. n
        PROVE  C[i] = b.buf[b.head + i - 1]
    <3>1. i - 1 \in Nat /\ i - 1 < n /\ i \in 1 .. available(b)
          /\ b.head + (i - 1) = b.head + i - 1
      BY <1>1, <2>2, SMTT(60)
    <3>2. QED
      BY <1>2, <2>3, <3>1
  <2>5. QED
    BY <2>4
<1> HIDE DEF b, C, n
<1>7. sent = SubSeq(sent, 1, Len(sent) - n) \o SubSeq(C, 1, n)
  <2>1. \A i \in 1 .. n : sent[Len(sent) - n + i] = C[i]
    BY <1>5, <1>6
  <2>2. QED
    BY <1>1, <1>2, <1>5, <2>1, <1>EndIs
<1>8. TakenFromTx = SubSeq(sent, 1, Len(sent) - n)
  BY <1>1 DEF TakenFromTx, n
<1>9. TakenFromTx' = sent
  <2>1. TakenFromTx' = SubSeq(sent, 1, Len(sent) - 0)
    BY <1>1, <1>5 DEF TakenFromTx
  <2>3. QED
    BY <1>5, <2>1, SMTT(60)
<1>10. Tx!Take(n)
  BY <1>3, <1>4, <1>7, <1>8, <1>9 DEF Tx!Take, C, D, b
<1>11. Queued(D)
  <2> HIDE DEF D
  <2>1. Len(C) \in Nat /\ n \in Nat /\ \A i \in 1 .. Len(C) : C[i] \in 1 .. MaxOut /\ C[i] \in Vals
    BY <1>1, <1>2, SMTT(60) DEF Queued, C, b
  <2> DEFINE m == n + 1
             k == Len(C)
  <2>2. m \in Int /\ k \in Int /\ \A i \in m .. k : C[i] \in Vals
    BY <2>1, SMTT(60)
  <2>3. D = SubSeq(C, m, k)
    BY <1>3
  <2> HIDE DEF m, k
  <2>4. /\ Len(D) = IF m <= k THEN k - m + 1 ELSE 0
        /\ \A j \in 1 .. k - m + 1 : D[j] = C[m + j - 1]
    BY <2>2, <2>3, SMTT(60)
  <2>5. ASSUME NEW j \in 1 .. Len(D)
        PROVE  D[j] \in 1 .. MaxOut
    <3>1. j \in 1 .. k - m + 1 /\ m + j - 1 \in 1 .. Len(C)
      BY <1>4, <2>4, SMTT(60) DEF m, k
    <3>2. QED
      BY <2>1, <2>4, <3>1
  <2>6. QED
    BY <2>5 DEF Queued
<1>12. QED
  BY <1>4, <1>10, <1>11 DEF D

LEMMA TxQueueSend ==
    ASSUME Inv0, _write_fd
    PROVE  UNCHANGED Tx!vars
<1> DEFINE n == tick.vec[1].len
           s == CopyFrom(_writebuf, Head(tick.vec))
<1>1. n \in Nat /\ s \in Seq(Vals) /\ Len(s) = n /\ n > 0 /\ sent' = sent \o s
      /\ Head(tick.vec) = tick.vec[1]
  BY WriteFdIs DEF Inv0
<1>2. sent \in Seq(Vals) /\ tick = [pc |-> tick.pc, vec |-> tick.vec, got |-> tick.got]
      /\ tick.pc = "write"
  BY DEF Inv0, Types, _write_fd
<1>3. tick'.pc = "advance" /\ tick'.vec = tick.vec
  BY SMTT(60) DEF _write_fd
<1>4. TakenFromTx = sent
  <2>1. TakenFromTx = SubSeq(sent, 1, Len(sent) - 0)
    BY <1>2 DEF TakenFromTx
  <2>3. QED
    BY <1>2, <2>1, SMTT(60)
<1>5. TakenFromTx' = sent
  <2>1. TakenFromTx' = SubSeq(sent', 1, Len(sent') - n)
    BY <1>1, <1>3 DEF TakenFromTx
  <2> HIDE DEF n, s
  <2>2. Len(sent') \in Nat /\ Len(sent') - n = Len(sent)
    BY <1>1, <1>2, SMTT(60)
  <2>3. SubSeq(sent', 1, Len(sent)) = sent
    BY <1>1, <1>2, SMTT(60)
  <2>4. QED
    BY <2>1, <2>2, <2>3
<1>6. UNCHANGED _writebuf
  BY DEF _write_fd
<1>7. QED
  BY <1>4, <1>5, <1>6 DEF Tx!vars

LEMMA TakenSame ==
    ASSUME Inv0, Next, ~tick_advance, ~_write_fd
    PROVE  UNCHANGED TakenFromTx
<1>1. UNCHANGED sent
  BY Owners
<1>2. CASE UNCHANGED tick
  BY <1>1, <1>2 DEF TakenFromTx
<1>3. CASE ~UNCHANGED tick
  <2>1. UartThread
    BY <1>3, Owners
  <2>2. tick.pc # "advance"
    BY <2>1, SMTT(60) DEF UartThread, tick_test, tick_mark, tick_peek, tick_reserve, _read_fd,
                tick_commit, tick_done, Asleep
  <2>3. tick'.pc # "advance"
    BY <1>3, TickMoves DEF Inv0
  <2>4. QED
    BY <1>1, <2>2, <2>3 DEF TakenFromTx
<1>4. QED
  BY <1>2, <1>3

LEMMA TxQueueStep ==
    ASSUME Inv0, FillInv, Queued(Contents(_writebuf)), Next
    PROVE  [Tx!Next]_(Tx!vars) /\ Queued(Contents(_writebuf'))
<1>1. CASE tick_advance
  BY <1>1, TxQueueTake DEF Tx!Next
<1>2. CASE _write_fd
  <2>1. UNCHANGED Tx!vars
    BY <1>2, TxQueueSend
  <2>2. UNCHANGED _writebuf
    BY <1>2 DEF _write_fd
  <2>3. QED
    BY <2>1, <2>2
<1>3. CASE \E w \in Writers : write_commit(w)
  <2>1. PICK w \in Writers : write_commit(w)
    BY <1>3
  <2>2. Filled(writer[w], offered, _writebuf)
    BY DEF FillInv
  <2>3. QED
    BY <2>1, <2>2, TxQueueCommit DEF Tx!Next
<1>4. CASE ~tick_advance /\ ~_write_fd /\ ~\E w \in Writers : write_commit(w)
  <2>1. UNCHANGED TakenFromTx
    BY <1>4, TakenSame
  <2>2. Contents(_writebuf') = Contents(_writebuf)
    <3>2. CASE \E w \in Writers : write_fill(w)
      <4>1. Ring(_writebuf) /\ _writebuf.size > 0 /\ SameQueue(_writebuf', _writebuf)
        BY <3>2, WriteFillIs DEF Inv0
      <4>2. QED
        BY <4>1, SameQueueKeeps
    <3>3. CASE begin_set_tx
      <4>1. Contents(_writebuf) = <<>>
        BY <3>3, ContentsNone DEF Inv0, Types, SizeInv, begin_set_tx
      <4>2. begin.tx \in Nat /\ 0 \in Nat
        BY DEF Inv0, Types
      <4>3. _writebuf' = set_size(begin.tx) \/ _writebuf' = set_size(0)
        BY <3>3 DEF begin_set_tx
      <4>4. QED
        BY <4>1, <4>2, <4>3, NewRing
    <3>4. QED
      BY <1>4, <3>2, <3>3, WriteRingSteps
  <2>3. QED
    BY <2>1, <2>2 DEF Tx!vars
<1>5. QED
  BY <1>1, <1>2, <1>3, <1>4

LEMMA NothingQueued ==
    ASSUME Init
    PROVE  Contents(_writebuf) = <<>> /\ TakenFromTx = <<>>
<1>1. Contents(_writebuf) = <<>>
  BY NewRing DEF Init
<1>2. sent = <<>> /\ tick.pc # "advance"
  BY DEF Init, Asleep
<1>3. TakenFromTx = SubSeq(sent, 1, Len(sent) - 0)
  BY <1>2 DEF TakenFromTx
<1>6. QED
  BY <1>1, <1>2, <1>3, SMTT(60)

\* write()'s two copies, the tick's sending in two pieces and begin()'s new
\* rings together implement a bounded queue between the writer and the line,
\* however many threads call write(): the owner test turns all but one away.
THEOREM WritebufIsQueue == Spec => TxIsQueue
<1> DEFINE J == Inv0 /\ OwnerInv /\ FillInv /\ Queued(Contents(_writebuf))
<1>1. Init => J /\ Tx!Init
  <2> SUFFICES ASSUME Init
               PROVE  J /\ Tx!Init
    OBVIOUS
  <2>1. Inv0
    BY Inv0Init
  <2>2. FillInv
    BY DEF Init, FillInv, Filled, NotInWrite
  <2>3. Contents(_writebuf) = <<>> /\ TakenFromTx = <<>>
    BY NothingQueued
  <2>4. Queued(Contents(_writebuf))
    BY <2>3, SMTT(60) DEF Queued
  <2>5. OwnerInv
    BY DEF Init, OwnerInv, NotInWrite
  <2>6. QED
    BY <2>1, <2>2, <2>3, <2>4, <2>5 DEF Tx!Init
<1>2. J /\ [Next]_vars => J'
  <2> SUFFICES ASSUME J, [Next]_vars
               PROVE  J'
    OBVIOUS
  <2>0. OwnerInv'
    BY OwnerStep DEF Inv0
  <2>1. CASE Next
    <3>1. Inv0'
      BY Inv0Step
    <3>2. FillInv'
      BY <2>1, FillStep
    <3>3. Queued(Contents(_writebuf'))
      BY <2>1, TxQueueStep
    <3>4. QED
      BY <2>0, <3>1, <3>2, <3>3
  <2>2. CASE UNCHANGED vars
    <3>1. Inv0'
      BY Inv0Step, SMTT(60)
    <3>2. FillInv'
      BY <2>2 DEF vars, FillInv
    <3>3. Queued(Contents(_writebuf'))
      BY <2>2 DEF vars
    <3>4. QED
      BY <2>0, <3>1, <3>2, <3>3, SMTT(60)
  <2>3. QED
    BY <2>1, <2>2
<1>3. J /\ [Next]_vars => [Tx!Next]_(Tx!vars)
  <2>1. CASE Next
    BY <2>1, TxQueueStep
  <2>2. CASE UNCHANGED vars
    BY <2>2 DEF vars, Tx!vars, TakenFromTx
  <2>3. QED
    BY <2>1, <2>2
<1>4. QED
  BY <1>1, <1>2, <1>3, PTL DEF Spec, TxIsQueue, Tx!Spec
=============================================================================
