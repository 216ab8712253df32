---------------------------- MODULE HrTimerProofs ----------------------------
(***************************************************************************)
(* Proofs about HrTimer, for every set of timers, every delay, every       *)
(* period of the counter and every interleaving of the threads with the    *)
(* interrupt.                                                              *)
(***************************************************************************)
EXTENDS HrTimer, WellFoundedInduction, TLAPS

\* A leaf that names no prover is Zenon's.
USE ZenonT(30)

-----------------------------------------------------------------------------
(* The inductive invariant *)

\* What the place of a timer's thread says about the flag and the list.
StopPcs == {"stop", "remove", "clear", "zero", "init"}
OutPcs == {"zero", "init", "unlink", "read", "insert"}

ThreadInv ==
    \A t \in Timers :
        /\ thr[t].pc \in StopPcs => t \notin Periodic
        /\ thr[t].pc = "clear" => t \notin Queued
        /\ thr[t].pc \in OutPcs => t \notin Queued /\ t \notin active

\* How far the clock of the latest reading is behind true time: a reading that
\* comes a turn of the counter late loses it.
Lag == readAt - (base + last)

\* The clock: whole turns and the count of the latest reading.
ClockInv ==
    /\ last = readAt % Period
    /\ base % Period = 0
    /\ isr.pc # "idle" => isr.tick <= base + last

\* A deadline is, on that clock, no earlier than the time asked for.
DueInv ==
    \A t \in Timers :
        t \in Queued \/ thr[t].pc = "insert" => due[t] <= timeout[t] + Lag

IInv ==
    /\ TypeOK /\ ListSorted /\ FlagTellsQueued /\ CancelledStaysOut
    /\ ThreadInv /\ ClockInv /\ DueInv /\ WakeupArmed

-----------------------------------------------------------------------------
(* Lists *)

Elems(q) == {q[i] : i \in 1 .. Len(q)}

Sorted(q, to) ==
    \A i, j \in 1 .. Len(q) : i < j => q[i] # q[j] /\ to[q[i]] =< to[q[j]]

\* A nonempty set of natural numbers has a least element.
LEMMA NatMin ==
    ASSUME NEW T \in SUBSET Nat, T # {}
    PROVE  \E x \in T : \A y \in T : x <= y
<1>1. IsWellFoundedOn(OpToRel(<, Nat), Nat)
  BY NatLessThanWellFounded
<1>2. PICK x \in T : \A y \in T : ~(<<y, x>> \in OpToRel(<, Nat))
  BY <1>1, WFMin
<1>3. ASSUME NEW y \in T PROVE x <= y
  <2>2. y < x => <<y, x>> \in OpToRel(<, Nat)
    BY DEF OpToRel
  <2>3. ~(y < x)
    BY <1>2, <2>2
  <2>4. QED
    BY <2>3, SMTT(60)
<1>4. QED
  BY <1>3

\* Two pieces of a list.
LEMMA Joined ==
    ASSUME NEW a \in Seq(Timers), NEW b \in Seq(Timers)
    PROVE  /\ a \o b \in Seq(Timers) /\ Len(a \o b) = Len(a) + Len(b)
           /\ \A j \in 1 .. Len(a) + Len(b) :
                 (a \o b)[j] = IF j <= Len(a) THEN a[j] ELSE b[j - Len(a)]
BY SMTT(60)

\* The list without its i-th timer.
LEMMA CutOut ==
    ASSUME NEW q \in Seq(Timers), NEW i \in 1 .. Len(q)
    PROVE  LET r == SubSeq(q, 1, i - 1) \o SubSeq(q, i + 1, Len(q))
           IN  /\ r \in Seq(Timers) /\ Len(r) = Len(q) - 1
               /\ \A j \in 1 .. Len(q) - 1 : r[j] = IF j < i THEN q[j] ELSE q[j + 1]
<1> DEFINE n == Len(q)
           a == SubSeq(q, 1, i - 1)
           b == SubSeq(q, i + 1, n)
<1>1. n \in Nat /\ i \in 1 .. n /\ \A j \in 1 .. n : q[j] \in Timers
  BY SMTT(60)
<1>2. /\ a \in Seq(Timers) /\ Len(a) = i - 1 /\ \A j \in 1 .. i - 1 : a[j] = q[j]
  BY SMTT(60)
<1>3. /\ b \in Seq(Timers) /\ Len(b) = n - i /\ \A j \in 1 .. n - i : b[j] = q[i + j]
  <2>1. i + 1 \in Int /\ n \in Int /\ \A j \in i + 1 .. n : q[j] \in Timers
    BY SMTT(60)
  <2> HIDE DEF n
  <2>2. /\ b \in Seq(Timers) /\ Len(b) = IF i + 1 <= n THEN n - (i + 1) + 1 ELSE 0
        /\ \A j \in 1 .. n - (i + 1) + 1 : b[j] = q[(i + 1) + j - 1]
    BY <2>1, SMTT(60)
  <2> HIDE DEF b
  <2>3. i \in Int /\ n \in Int /\ i <= n
    BY <1>1, SMTT(60)
  <2>4. Len(b) = n - i /\ n - (i + 1) + 1 = n - i
    BY <2>2, <2>3, SMTT(60)
  <2>6. QED
    BY <2>2, <2>4, SMTT(60)
<1> HIDE DEF a, b, n
<1>4. /\ a \o b \in Seq(Timers) /\ Len(a \o b) = n - 1
      /\ \A j \in 1 .. n - 1 : (a \o b)[j] = IF j <= i - 1 THEN a[j] ELSE b[j - (i - 1)]
  <2> DEFINE k == i - 1
             l == n - i
  <2>1. k \in Nat /\ l \in Nat /\ k + l = n - 1
    BY <1>1, SMTT(60)
  <2>2. a \in Seq(Timers) /\ b \in Seq(Timers) /\ Len(a) = k /\ Len(b) = l
    BY <1>2, <1>3
  <2> HIDE DEF k, l
  <2>3. /\ a \o b \in Seq(Timers) /\ Len(a \o b) = Len(a) + Len(b)
        /\ \A j \in 1 .. Len(a) + Len(b) :
              (a \o b)[j] = IF j <= Len(a) THEN a[j] ELSE b[j - Len(a)]
    BY <2>2, Joined
  <2>4. QED
    BY <2>1, <2>2, <2>3 DEF k
<1>5. ASSUME NEW j \in 1 .. n - 1
      PROVE  (a \o b)[j] = IF j < i THEN q[j] ELSE q[j + 1]
  <2>1. CASE j < i
    BY <1>2, <2>1, SMTT(60)
  <2>2. CASE ~(j < i)
    <3>1. j - (i - 1) \in 1 .. n - i /\ i + (j - (i - 1)) = j + 1 /\ ~(j <= i - 1)
      BY <1>1, <2>2, SMTT(60)
    <3>2. QED
      BY <1>3, <1>4, <3>1, SMTT(60)
  <2>3. QED
    BY <2>1, <2>2
<1>6. QED
  BY <1>4, <1>5 DEF a, b, n

\* The list with a timer put in after its first i.
PutAt(q, i, t) == SubSeq(q, 1, i) \o <<t>> \o SubSeq(q, i + 1, Len(q))

LEMMA PutIn ==
    ASSUME NEW q \in Seq(Timers), NEW i \in 0 .. Len(q), NEW t \in Timers
    PROVE  /\ PutAt(q, i, t) \in Seq(Timers) /\ Len(PutAt(q, i, t)) = Len(q) + 1
           /\ \A j \in 1 .. Len(q) + 1 :
                 PutAt(q, i, t)[j] = IF j <= i THEN q[j] ELSE IF j = i + 1 THEN t ELSE q[j - 1]
<1> DEFINE n == Len(q)
           a == SubSeq(q, 1, i)
           b == SubSeq(q, i + 1, n)
           c == <<t>>
<1>1. n \in Nat /\ i \in 0 .. n /\ \A j \in 1 .. n : q[j] \in Timers
  BY SMTT(60)
<1>2. /\ a \in Seq(Timers) /\ Len(a) = i /\ \A j \in 1 .. i : a[j] = q[j]
  BY SMTT(60)
<1>3. /\ b \in Seq(Timers) /\ Len(b) = n - i /\ \A j \in 1 .. n - i : b[j] = q[i + j]
  <2> HIDE DEF n
  <2>3. QED
    BY <1>1, SMTT(60)
<1>4. c \in Seq(Timers) /\ Len(c) = 1 /\ c[1] = t
  BY SMTT(60)
<1> HIDE DEF a, b, c, n
<1>5. /\ a \o c \in Seq(Timers) /\ Len(a \o c) = i + 1
      /\ \A j \in 1 .. i + 1 : (a \o c)[j] = IF j <= i THEN a[j] ELSE c[j - i]
  <2>1. /\ a \o c \in Seq(Timers) /\ Len(a \o c) = Len(a) + Len(c)
        /\ \A j \in 1 .. Len(a) + Len(c) :
              (a \o c)[j] = IF j <= Len(a) THEN a[j] ELSE c[j - Len(a)]
    BY <1>2, <1>4, Joined
  <2>2. QED
    BY <1>2, <1>4, <2>1
<1> DEFINE ac == a \o c
<1> HIDE DEF ac
<1>6. /\ ac \in Seq(Timers) /\ Len(ac) = i + 1
      /\ \A j \in 1 .. i + 1 : ac[j] = IF j <= i THEN q[j] ELSE t
  BY <1>2, <1>4, <1>5, SMTT(60) DEF ac
<1>7. /\ ac \o b \in Seq(Timers) /\ Len(ac \o b) = n + 1
      /\ \A j \in 1 .. n + 1 : (ac \o b)[j] = IF j <= i + 1 THEN ac[j] ELSE b[j - (i + 1)]
  <2>1. i + 1 \in Nat /\ n - i \in Nat /\ (i + 1) + (n - i) = n + 1
    BY <1>1, SMTT(60)
  <2>2. /\ ac \o b \in Seq(Timers) /\ Len(ac \o b) = Len(ac) + Len(b)
        /\ \A j \in 1 .. Len(ac) + Len(b) :
              (ac \o b)[j] = IF j <= Len(ac) THEN ac[j] ELSE b[j - Len(ac)]
    BY <1>3, <1>6, Joined
  <2>3. QED
    BY <1>3, <1>6, <2>1, <2>2
<1>8. ASSUME NEW j \in 1 .. n + 1
      PROVE  (ac \o b)[j] = IF j <= i THEN q[j] ELSE IF j = i + 1 THEN t ELSE q[j - 1]
  <2>1. CASE j <= i + 1
    BY <1>6, <2>1, SMTT(60)
  <2>2. CASE ~(j <= i + 1)
    <3>1. j - (i + 1) \in 1 .. n - i /\ i + (j - (i + 1)) = j - 1 /\ ~(j <= i) /\ j # i + 1
      BY <1>1, <2>2, SMTT(60)
    <3>2. QED
      BY <1>3, <1>7, <3>1, SMTT(60)
  <2>3. QED
    BY <2>1, <2>2
<1>9. QED
  BY <1>7, <1>8 DEF a, b, c, n, ac, PutAt

LEMMA ElemsOf ==
    ASSUME NEW q \in Seq(Timers)
    PROVE  /\ Elems(q) \subseteq Timers
           /\ Len(q) \in Nat
           /\ \A i \in 1 .. Len(q) : q[i] \in Timers /\ q[i] \in Elems(q)
           /\ q # <<>> => 1 \in 1 .. Len(q) /\ Head(q) = q[1] /\ Head(q) \in Elems(q)
           /\ q = <<>> => Elems(q) = {}
<1>4. QED
  BY SMTT(60) DEF Elems

\* Unlinking keeps the order, and the first deadline can only get later.
LEMMA WithoutProps ==
    ASSUME NEW q \in Seq(Timers), NEW to \in [Timers -> Nat], NEW t \in Timers, Sorted(q, to)
    PROVE  /\ Without(q, t) \in Seq(Timers)
           /\ Elems(Without(q, t)) = Elems(q) \ {t}
           /\ Sorted(Without(q, t), to)
           /\ Without(q, t) # <<>> => q # <<>> /\ to[Head(q)] <= to[Head(Without(q, t))]
<1> DEFINE n == Len(q)
<1>0. n \in Nat /\ \A j \in 1 .. n : q[j] \in Timers /\ to[q[j]] \in Nat
  BY SMTT(60)
<1>1. CASE ~ \E i \in 1 .. Len(q) : q[i] = t
  <2>1. Without(q, t) = q
    BY <1>1 DEF Without
  <2>3. QED
    BY <1>1, <2>1, SMTT(60) DEF Elems
<1>2. CASE \E i \in 1 .. Len(q) : q[i] = t
  <2> DEFINE k == CHOOSE i \in 1 .. Len(q) : q[i] = t
             r == SubSeq(q, 1, k - 1) \o SubSeq(q, k + 1, Len(q))
  <2>1. Without(q, t) = r
    BY <1>2 DEF Without
  <2>2. k \in 1 .. Len(q) /\ q[k] = t
    BY <1>2
  <2> HIDE DEF k
  <2>3. /\ r \in Seq(Timers) /\ Len(r) = Len(q) - 1
        /\ \A j \in 1 .. Len(q) - 1 : r[j] = IF j < k THEN q[j] ELSE q[j + 1]
    BY <2>2, CutOut
  <2> HIDE DEF r
  <2>4. \A i, j \in 1 .. n : i < j => q[i] # q[j] /\ to[q[i]] <= to[q[j]]
    BY DEF Sorted
  <2>5. k \in 1 .. n /\ Len(r) = n - 1
        /\ \A j \in 1 .. n - 1 : r[j] = IF j < k THEN q[j] ELSE q[j + 1]
    BY <2>2, <2>3
  <2> HIDE DEF n
  <2>6. Elems(r) \subseteq Elems(q) \ {t}
    <3>1. ASSUME NEW j \in 1 .. n - 1
          PROVE  r[j] \in Elems(q) /\ r[j] # t
      <4>1. CASE j < k
        BY <1>0, <2>2, <2>4, <2>5, <4>1, SMTT(60) DEF Elems, n
      <4>2. CASE ~(j < k)
        <5>1. j + 1 \in 1 .. n /\ k < j + 1 /\ r[j] = q[j + 1]
          BY <1>0, <2>5, <4>2, SMTT(60)
        <5>2. QED
          BY <2>2, <2>4, <5>1 DEF Elems, n
      <4>3. QED
        BY <4>1, <4>2
    <3>2. QED
      BY <3>1, <2>5 DEF Elems
  <2>7. Elems(q) \ {t} \subseteq Elems(r)
    <3>1. ASSUME NEW j \in 1 .. n, q[j] # t
          PROVE  \E i \in 1 .. n - 1 : r[i] = q[j]
      <4>1. j # k
        BY <2>2, <3>1
      <4>2. CASE j < k
        <5>1. j \in 1 .. n - 1 /\ r[j] = q[j]
          BY <1>0, <2>5, <4>2, SMTT(60)
        <5>2. QED
          BY <5>1
      <4>3. CASE j > k
        <5>1. j - 1 \in 1 .. n - 1 /\ ~(j - 1 < k) /\ (j - 1) + 1 = j
          BY <1>0, <2>5, <4>3, SMTT(60)
        <5>2. r[j - 1] = q[j]
          BY <2>5, <5>1
        <5>3. QED
          BY <5>1, <5>2
      <4>4. j < k \/ j > k
        BY <2>5, <4>1, SMTT(60)
      <4>5. QED
        BY <4>2, <4>3, <4>4
    <3>2. ASSUME NEW x \in Elems(q) \ {t}
          PROVE  x \in Elems(r)
      <4>1. PICK j \in 1 .. n : x = q[j]
        BY DEF Elems, n
      <4>2. PICK i \in 1 .. n - 1 : r[i] = q[j]
        BY <3>1, <4>1
      <4>3. QED
        BY <2>5, <4>1, <4>2 DEF Elems
    <3>3. QED
      BY <3>2
  <2>8. ASSUME NEW i \in 1 .. n - 1, NEW j \in 1 .. n - 1, i < j
        PROVE  r[i] # r[j] /\ to[r[i]] <= to[r[j]]
    <3> DEFINE ii == IF i < k THEN i ELSE i + 1
               jj == IF j < k THEN j ELSE j + 1
    <3>1. ii \in 1 .. n /\ jj \in 1 .. n /\ ii < jj
      BY <1>0, <2>5, <2>8, SMTT(60)
    <3>2. r[i] = q[ii] /\ r[j] = q[jj]
      <4>1. r[i] = IF i < k THEN q[i] ELSE q[i + 1]
        BY <2>5
      <4>2. r[j] = IF j < k THEN q[j] ELSE q[j + 1]
        BY <2>5
      <4>3. QED
        BY <4>1, <4>2
    <3> HIDE DEF ii, jj
    <3>3. QED
      BY <2>4, <3>1, <3>2
  <2>9. Sorted(r, to)
    BY <2>5, <2>8 DEF Sorted
  <2>10. r # <<>> => q # <<>> /\ to[Head(q)] <= to[Head(r)]
    <3> SUFFICES ASSUME r # <<>>
                 PROVE  q # <<>> /\ to[Head(q)] <= to[Head(r)]
      OBVIOUS
    <3>1. 1 \in 1 .. n - 1 /\ Head(r) = r[1] /\ q # <<>> /\ Head(q) = q[1]
      <4>2. q # <<>>
        BY <2>2, SMTT(60)
      <4>3. QED
        BY <2>5, <4>2, SMTT(60)
    <3>2. r[1] = q[1] \/ r[1] = q[2]
      BY <2>5, SMTT(60)
    <3>3. 1 \in 1 .. n /\ 2 \in 1 .. n
      BY <1>0, <3>1, SMTT(60)
    <3>4. to[q[1]] <= to[q[2]] /\ to[q[1]] \in Nat
      BY <1>0, <2>4, <3>3, SMTT(60)
    <3>5. QED
      BY <3>1, <3>2, <3>4, SMTT(60)
  <2>11. QED
    BY <2>1, <2>3, <2>6, <2>7, <2>9, <2>10
<1>3. QED
  BY <1>1, <1>2

LEMMA TailProps ==
    ASSUME NEW q \in Seq(Timers), q # <<>>, NEW to \in [Timers -> Nat], Sorted(q, to)
    PROVE  /\ Tail(q) \in Seq(Timers)
           /\ Elems(Tail(q)) = Elems(q) \ {Head(q)}
           /\ Sorted(Tail(q), to)
<1> DEFINE n == Len(q)
           r == Tail(q)
<1>1. /\ r \in Seq(Timers) /\ Len(r) = n - 1 /\ n \in Nat
      /\ \A i \in 1 .. n - 1 : r[i] = q[i + 1]
  BY SMTT(60)
<1>2. 1 \in 1 .. n /\ Head(q) = q[1]
  BY SMTT(60)
<1>3. \A i, j \in 1 .. n : i < j => q[i] # q[j] /\ to[q[i]] <= to[q[j]]
  BY DEF Sorted
<1> HIDE DEF n, r
<1>4. Elems(r) \subseteq Elems(q) \ {q[1]}
  <2>1. ASSUME NEW i \in 1 .. n - 1
        PROVE  r[i] \in Elems(q) /\ r[i] # q[1]
    <3>1. i + 1 \in 1 .. n /\ 1 < i + 1 /\ r[i] = q[i + 1]
      BY <1>1, SMTT(60)
    <3>2. QED
      BY <1>2, <1>3, <3>1 DEF Elems, n
  <2>2. QED
    BY <1>1, <2>1 DEF Elems
<1>5. Elems(q) \ {q[1]} \subseteq Elems(r)
  <2>1. ASSUME NEW j \in 1 .. n, q[j] # q[1]
        PROVE  \E i \in 1 .. n - 1 : r[i] = q[j]
    <3>1. j - 1 \in 1 .. n - 1 /\ (j - 1) + 1 = j
      BY <1>1, <2>1, SMTT(60)
    <3>2. r[j - 1] = q[j]
      BY <1>1, <3>1
    <3>3. QED
      BY <3>1, <3>2
  <2>2. ASSUME NEW x \in Elems(q) \ {q[1]}
        PROVE  x \in Elems(r)
    <3>1. PICK j \in 1 .. n : x = q[j]
      BY DEF Elems, n
    <3>2. PICK i \in 1 .. n - 1 : r[i] = q[j]
      BY <2>1, <3>1
    <3>3. QED
      BY <1>1, <3>1, <3>2 DEF Elems
  <2>3. QED
    BY <2>2
<1>6. ASSUME NEW i \in 1 .. n - 1, NEW j \in 1 .. n - 1, i < j
      PROVE  r[i] # r[j] /\ to[r[i]] <= to[r[j]]
  <2>1. i + 1 \in 1 .. n /\ j + 1 \in 1 .. n /\ i + 1 < j + 1
    BY <1>1, <1>6, SMTT(60)
  <2>2. r[i] = q[i + 1] /\ r[j] = q[j + 1]
    BY <1>1
  <2>3. QED
    BY <1>3, <2>1, <2>2
<1>7. Sorted(r, to)
  BY <1>1, <1>6 DEF Sorted
<1>8. QED
  BY <1>4, <1>5, <1>7, SMTT(60) DEF r

\* Only the deadlines of the timers in the list matter.
LEMMA SortedSame ==
    ASSUME NEW q, NEW to, NEW too, Sorted(q, to), \A t \in Elems(q) : too[t] = to[t]
    PROVE  Sorted(q, too)
BY DEF Sorted, Elems

\* In a sorted list, the timers that expire no later than t come first.
LEMMA CutAt ==
    ASSUME NEW q \in Seq(Timers), NEW to \in [Timers -> Nat], NEW t \in Timers, Sorted(q, to)
    PROVE  LET k == Passed(q, t, to)
           IN  /\ k \in 0 .. Len(q)
               /\ \A j \in 1 .. Len(q) : j <= k <=> to[q[j]] <= to[t]
<1> DEFINE n == Len(q)
           Stop(i) == /\ \A j \in 1 .. i : to[q[j]] <= to[t]
                      /\ i < n => to[q[i + 1]] > to[t]
           k == CHOOSE i \in 0 .. n : Stop(i)
           M == {j \in 1 .. n + 1 : j = n + 1 \/ ~(to[q[j]] <= to[t])}
<1>1. n \in Nat /\ to[t] \in Nat /\ \A j \in 1 .. n : to[q[j]] \in Nat
  BY SMTT(60)
<1>2. \A i, j \in 1 .. n : i < j => to[q[i]] <= to[q[j]]
  BY DEF Sorted
<1> HIDE DEF n
<1>3. M \in SUBSET Nat /\ M # {}
  <2>1. n + 1 \in M
    BY <1>1, SMTT(60)
  <2>2. ASSUME NEW x \in M PROVE x \in Nat
    BY SMTT(60)
  <2> HIDE DEF M
  <2>3. QED
    BY <2>1, <2>2
<1>4. PICK m \in M : \A y \in M : m <= y
  BY <1>3, NatMin
<1>6. m - 1 \in 0 .. n /\ Stop(m - 1)
  <2>1. m - 1 \in 0 .. n
    BY <1>1, SMTT(60)
  <2>2. ASSUME NEW j \in 1 .. m - 1
        PROVE  to[q[j]] <= to[t]
    <3>1. j \in 1 .. n /\ j \notin M
      BY <1>1, <1>4, SMTT(60)
    <3>2. j \in 1 .. n + 1 /\ j # n + 1
      BY <1>1, SMTT(60)
    <3>3. QED
      BY <3>1, <3>2
  <2>3. ASSUME m - 1 < n
        PROVE  to[q[(m - 1) + 1]] > to[t]
    <3>1. m \in 1 .. n /\ (m - 1) + 1 = m /\ m # n + 1
      BY <1>1, <2>3, SMTT(60)
    <3>3. QED
      BY <1>1, <3>1, SMTT(60)
  <2>4. QED
    BY <2>1, <2>2, <2>3
<1> HIDE DEF M
<1>7. k \in 0 .. n /\ Stop(k)
  BY <1>6
<1> HIDE DEF k
<1>8. ASSUME NEW j \in 1 .. n
      PROVE  j <= k <=> to[q[j]] <= to[t]
  <2>1. ASSUME j <= k
        PROVE  to[q[j]] <= to[t]
    <3>1. j \in 1 .. k
      BY <2>1, SMTT(60)
    <3>2. QED
      BY <1>7, <3>1
  <2>2. ASSUME ~(j <= k)
        PROVE  ~(to[q[j]] <= to[t])
    <3>1. k < n /\ k + 1 \in 1 .. n /\ (k + 1 = j \/ k + 1 < j)
      BY <1>1, <1>7, <2>2, SMTT(60)
    <3>2. to[q[k + 1]] > to[t]
      BY <1>7, <3>1
    <3>3. to[q[k + 1]] <= to[q[j]]
      BY <1>1, <1>2, <3>1, SMTT(60)
    <3>4. QED
      BY <1>1, <3>1, <3>2, <3>3, SMTT(60)
  <2>3. QED
    BY <2>1, <2>2
<1>9. Passed(q, t, to) = k
  BY DEF Passed, k, n
<1>10. QED
  BY <1>7, <1>8, <1>9 DEF n

LEMMA InsertProps ==
    ASSUME NEW q \in Seq(Timers), NEW to \in [Timers -> Nat], NEW t \in Timers,
           Sorted(q, to), t \notin Elems(q)
    PROVE  /\ Insert(q, t, to) \in Seq(Timers)
           /\ Elems(Insert(q, t, to)) = Elems(q) \cup {t}
           /\ Sorted(Insert(q, t, to), to)
           /\ Insert(q, t, to) # <<>>
<1> DEFINE n == Len(q)
           k == Passed(q, t, to)
           r == PutAt(q, k, t)
<1>1. Insert(q, t, to) = r
  BY DEF Insert, PutAt
<1>2. k \in 0 .. Len(q) /\ \A j \in 1 .. Len(q) : j <= k <=> to[q[j]] <= to[t]
  BY CutAt
<1> HIDE DEF k
<1>3. /\ r \in Seq(Timers) /\ Len(r) = Len(q) + 1
      /\ \A j \in 1 .. Len(q) + 1 :
            r[j] = IF j <= k THEN q[j] ELSE IF j = k + 1 THEN t ELSE q[j - 1]
  <2>1. k \in 0 .. Len(q)
    BY <1>2
  <2>2. QED
    BY <2>1, PutIn, SMTT(60)
<1> HIDE DEF r
<1>4. n \in Nat /\ to[t] \in Nat /\ \A j \in 1 .. n : to[q[j]] \in Nat /\ q[j] # t
  BY ElemsOf
<1>5. \A i, j \in 1 .. n : i < j => q[i] # q[j] /\ to[q[i]] <= to[q[j]]
  BY DEF Sorted
<1>6. k \in 0 .. n /\ \A j \in 1 .. n : j <= k <=> to[q[j]] <= to[t]
  BY <1>2
<1>7. /\ Len(r) = n + 1
      /\ \A j \in 1 .. n + 1 :
            r[j] = IF j <= k THEN q[j] ELSE IF j = k + 1 THEN t ELSE q[j - 1]
  BY <1>3
<1> HIDE DEF n
<1>8. Elems(r) \subseteq Elems(q) \cup {t}
  <2>1. ASSUME NEW j \in 1 .. n + 1
        PROVE  r[j] = t \/ \E i \in 1 .. n : r[j] = q[i]
    <3>1. CASE j <= k
      BY <1>4, <1>6, <1>7, SMTT(60)
    <3>2. CASE j = k + 1
      BY <1>4, <1>6, <1>7, SMTT(60)
    <3>3. CASE j > k + 1
      <4>1. j - 1 \in 1 .. n /\ r[j] = q[j - 1]
        BY <1>4, <1>6, <1>7, <3>3, SMTT(60)
      <4>2. QED
        BY <4>1
    <3>4. QED
      BY <1>6, <3>1, <3>2, <3>3, SMTT(60)
  <2>2. Elems(r) = {r[j] : j \in 1 .. n + 1} /\ Elems(q) = {q[i] : i \in 1 .. n}
    BY <1>7 DEF Elems, n
  <2>3. QED
    BY <2>1, <2>2
<1>9. Elems(q) \cup {t} \subseteq Elems(r)
  <2>1. k + 1 \in 1 .. n + 1 /\ r[k + 1] = t
    BY <1>4, <1>6, <1>7, SMTT(60)
  <2>2. ASSUME NEW j \in 1 .. n
        PROVE  \E i \in 1 .. n + 1 : r[i] = q[j]
    <3>1. CASE j <= k
      <4>1. j \in 1 .. n + 1 /\ r[j] = q[j]
        BY <1>4, <1>7, <3>1, SMTT(60)
      <4>2. QED
        BY <4>1
    <3>2. CASE ~(j <= k)
      <4>1. j + 1 \in 1 .. n + 1 /\ ~(j + 1 <= k) /\ j + 1 # k + 1 /\ (j + 1) - 1 = j
        BY <1>4, <1>6, <3>2, SMTT(60)
      <4>2. r[j + 1] = q[j]
        BY <1>7, <4>1, SMTT(60)
      <4>3. QED
        BY <4>1, <4>2
    <3>3. QED
      BY <3>1, <3>2
  <2>3. ASSUME NEW x \in Elems(q)
        PROVE  x \in Elems(r)
    <3>1. PICK j \in 1 .. n : x = q[j]
      BY DEF Elems, n
    <3>2. PICK i \in 1 .. n + 1 : r[i] = q[j]
      BY <2>2
    <3>3. QED
      BY <1>7, <3>1, <3>2 DEF Elems
  <2>4. t \in Elems(r)
    BY <1>7, <2>1 DEF Elems
  <2>5. QED
    BY <2>3, <2>4
<1>10. ASSUME NEW i \in 1 .. n + 1, NEW j \in 1 .. n + 1, i < j
       PROVE  r[i] # r[j] /\ to[r[i]] <= to[r[j]]
  <2> DEFINE ii == IF i <= k THEN i ELSE i - 1
             jj == IF j <= k THEN j ELSE j - 1
  <2>1. /\ r[i] = IF i = k + 1 THEN t ELSE q[ii]
        /\ r[j] = IF j = k + 1 THEN t ELSE q[jj]
    <3>1. r[i] = IF i <= k THEN q[i] ELSE IF i = k + 1 THEN t ELSE q[i - 1]
      BY <1>7
    <3>2. r[j] = IF j <= k THEN q[j] ELSE IF j = k + 1 THEN t ELSE q[j - 1]
      BY <1>7
    <3>3. ~(k + 1 <= k)
      BY <1>6, SMTT(60)
    <3>4. QED
      BY <3>1, <3>2, <3>3
  <2>2. /\ i # k + 1 => ii \in 1 .. n /\ (ii <= k <=> i <= k)
        /\ j # k + 1 => jj \in 1 .. n /\ (jj <= k <=> j <= k)
        /\ i # k + 1 /\ j # k + 1 => ii < jj
        /\ i = k + 1 => ~(j <= k) /\ j # k + 1
        /\ j = k + 1 => i <= k /\ i # k + 1
    BY <1>4, <1>6, <1>10, SMTT(60)
  <2> HIDE DEF ii, jj
  <2>3. CASE i = k + 1
    <3>1. r[i] = t /\ r[j] = q[jj] /\ jj \in 1 .. n /\ ~(jj <= k)
      BY <2>1, <2>2, <2>3
    <3>2. to[q[jj]] \in Nat /\ q[jj] # t /\ ~(to[q[jj]] <= to[t])
      BY <1>4, <1>6, <3>1
    <3>3. QED
      BY <3>1, <3>2, SMTT(60)
  <2>4. CASE j = k + 1
    <3>1. r[j] = t /\ r[i] = q[ii] /\ ii \in 1 .. n /\ ii <= k
      BY <2>1, <2>2, <2>4
    <3>2. q[ii] # t /\ to[q[ii]] <= to[t]
      BY <1>4, <1>6, <3>1
    <3>3. QED
      BY <3>1, <3>2
  <2>5. CASE i # k + 1 /\ j # k + 1
    BY <1>5, <2>1, <2>2, <2>5
  <2>6. QED
    BY <2>3, <2>4, <2>5
<1>11. Sorted(r, to)
  BY <1>7, <1>10 DEF Sorted
<1>13. QED
  BY <1>1, <1>3, <1>8, <1>9, <1>11, SMTT(60)

-----------------------------------------------------------------------------
(* Arithmetic of the counter *)


LEMMA DivMod ==
    ASSUME NEW x \in Int, NEW n \in Nat \ {0}
    PROVE  /\ x \div n \in Int /\ x % n \in 0 .. n - 1
           /\ x = (x \div n) * n + (x % n)
<1>1. x \div n \in Int /\ x % n \in 0 .. n - 1
  BY SMTT(60)
<1>2. x - (x \div n) * n = x % n
  BY SMTT(60)
<1> DEFINE d == x \div n
           r == x % n
<1> HIDE DEF d, r
<1>3. d \in Int /\ r \in 0 .. n - 1 /\ x - d * n = r
  BY <1>1, <1>2 DEF d, r
<1>4. x = d * n + r
  BY <1>3, SMTT(60)
<1>5. QED
  BY <1>3, <1>4 DEF d, r

LEMMA ModUnique ==
    ASSUME NEW x \in Int, NEW n \in Nat \ {0}, NEW k \in Int, NEW r \in 0 .. n - 1, x = k * n + r
    PROVE  x % n = r
BY SMTT(60)

\* A whole number of periods more is a whole number of periods.
LEMMA WholePeriods ==
    ASSUME NEW x \in Int, NEW n \in Nat \ {0}, NEW k \in Int, x % n = 0
    PROVE  (x + k * n) % n = 0
<1> DEFINE d == x \div n
<1>1. d \in Int /\ x = d * n
  BY SMTT(60)
<1> HIDE DEF d
<1>2. x + k * n = (d + k) * n + 0 /\ d + k \in Int /\ x + k * n \in Int /\ 0 \in 0 .. n - 1
  BY <1>1, SMTT(60)
<1>3. QED
  BY <1>2, SMTT(60)

\* The difference of two counts, modulo the period.
LEMMA CountDiff ==
    ASSUME NEW n \in Nat \ {0}, NEW m \in 0 .. n - 1, NEW c \in 0 .. n - 1
    PROVE  (m - c) % n = IF m >= c THEN m - c ELSE m - c + n
<1>3. QED
  BY SMTT(60)

\* The count after one more microsecond.
LEMMA NextCount ==
    ASSUME NEW n \in Nat \ {0}, NEW x \in Nat
    PROVE  (x + 1) % n = IF x % n = n - 1 THEN 0 ELSE (x % n) + 1
<1> DEFINE d == x \div n
           r == x % n
<1>1. d \in Int /\ r \in 0 .. n - 1 /\ x = d * n + r
  BY SMTT(60)
<1> HIDE DEF d, r
<1>2. CASE r = n - 1
  <2>1. x + 1 = (d + 1) * n + 0 /\ d + 1 \in Int /\ x + 1 \in Int /\ 0 \in 0 .. n - 1
    BY <1>1, <1>2, SMTT(60)
  <2>2. (x + 1) % n = 0
    BY <2>1, ModUnique
  <2>3. QED
    BY <1>2, <2>2 DEF r
<1>3. CASE r # n - 1
  <2>1. x + 1 = d * n + (r + 1) /\ x + 1 \in Int /\ r + 1 \in 0 .. n - 1
    BY <1>1, <1>3, SMTT(60)
  <2>2. (x + 1) % n = r + 1
    BY <1>1, <2>1, SMTT(60)
  <2>3. QED
    BY <2>2, SMTT(60) DEF r
<1>4. QED
  BY <1>2, <1>3

\* One reading at x after one at y: the clock it returns is not earlier than the
\* one before, no later than true time would have made it, and exact when less
\* than a period lies between the two.
Read(n, b, l, y, x, c, nb) ==
    /\ n \in Nat \ {0} /\ b \in Nat /\ l \in Nat /\ y \in Nat /\ x \in Nat /\ y <= x
    /\ l = y % n /\ b % n = 0 /\ c = x % n
    /\ nb = IF c < l THEN b + n ELSE b

LEMMA Reading ==
    ASSUME NEW n, NEW b, NEW l, NEW y, NEW x, NEW c, NEW nb, Read(n, b, l, y, x, c, nb)
    PROVE  /\ c \in 0 .. n - 1 /\ nb \in Nat /\ nb % n = 0 /\ (nb + c) % n = c
           /\ b + l <= nb + c /\ nb + c <= b + l + (x - y)
           /\ x - y < n => nb + c = b + l + (x - y)
<1> USE DEF Read
<1> DEFINE k == y \div n
           j == x \div n
<1>1. k \in Int /\ l \in 0 .. n - 1 /\ y = k * n + l
  BY SMTT(60)
<1>2. j \in Int /\ c \in 0 .. n - 1 /\ x = j * n + c
  BY SMTT(60)
<1> HIDE DEF k, j
<1>3. nb \in Nat /\ nb % n = 0
  <2>0. b \in Int /\ 1 \in Int
    BY SMTT(60)
  <2>1. (b + 1 * n) % n = 0
    BY <2>0, WholePeriods
  <2>3. QED
    BY <2>1, SMTT(60)
<1>4. (nb + c) % n = c
  <2> DEFINE e == nb \div n
  <2>1. e \in Int /\ nb = e * n + 0
    BY <1>3, SMTT(60)
  <2> HIDE DEF e
  <2>2. nb + c = e * n + c /\ nb + c \in Int
    BY <2>1, SMTT(60)
  <2>3. QED
    BY <1>2, <2>1, <2>2, ModUnique
<1> DEFINE m == j - k
<1>5. m \in Int /\ x - y = m * n + c - l
  BY <1>1, <1>2, SMTT(60)
<1> HIDE DEF m
<1>6. m >= 0 /\ (c < l => m >= 1)
  <2> DEFINE p == m * n
  <2> HIDE DEF p
  <2>2. QED
    BY <1>5, SMTT(60)
<1>7. m = 0 \/ m = 1 \/ m >= 2
  BY <1>5, SMTT(60)
<1> DEFINE p == m * n
<1>9. p \in Int
  BY <1>5, SMTT(60)
<1> HIDE DEF p
<1>10. x - y = p + c - l /\ (m >= 1 => p >= n) /\ (m >= 2 => p >= 2 * n) /\ (m = 1 => p = n) /\ (m = 0 => p = 0)
  BY <1>5, SMTT(60) DEF p
<1>11. CASE c < l
  BY <1>1, <1>2, <1>4, <1>6, <1>7, <1>9, <1>10, SMTT(60)
<1>12. CASE ~(c < l)
  BY <1>1, <1>2, <1>4, <1>6, <1>7, <1>9, <1>10, SMTT(60)
<1>13. QED
  BY <1>11, <1>12

\* Ticks x < s, written as turns of the counter and a count, and the distance d
\* of the counts.
Turns(n, s, x, k, c, j, r, d) ==
    /\ n \in Nat \ {0} /\ s \in Nat /\ x \in Nat /\ x < s
    /\ k \in Int /\ c \in 0 .. n - 1 /\ x = k * n + c
    /\ j \in Int /\ r \in 0 .. n - 1 /\ s = j * n + r
    /\ d = IF r >= c THEN r - c ELSE r - c + n

LEMMA TurnsApart ==
    ASSUME NEW n, NEW s, NEW x, NEW k, NEW c, NEW j, NEW r, NEW d,
           Turns(n, s, x, k, c, j, r, d)
    PROVE  (IF d = 0 THEN n ELSE d) <= s - x
<1> USE DEF Turns
<1> DEFINE m == j - k
<1>1. m \in Int /\ s - x = m * n + r - c
  BY SMTT(60)
<1> HIDE DEF m
<1> DEFINE p == m * n
<1> HIDE DEF p
<1>4. QED
  BY <1>1, SMTT(60)

\* The counter reaches a match set for a later tick s no later than at s.
LEMMA UntilSet ==
    ASSUME NEW n \in Nat \ {0}, NEW s \in Nat, NEW x \in Nat, x < s,
           NEW c, c = x % n, NEW r, r = s % n, NEW d, d = (r - c) % n
    PROVE  (IF d = 0 THEN n ELSE d) <= s - x
<1> DEFINE k == x \div n
           j == s \div n
<1>1. x \in Int /\ s \in Int
  BY SMTT(60)
<1>2. k \in Int /\ c \in 0 .. n - 1 /\ x = k * n + c
  BY <1>1, DivMod
<1>3. j \in Int /\ r \in 0 .. n - 1 /\ s = j * n + r
  BY <1>1, DivMod
<1> HIDE DEF k, j
<1>4. d = IF r >= c THEN r - c ELSE r - c + n
  <2>1. (r - c) % n = IF r >= c THEN r - c ELSE r - c + n
    BY <1>2, <1>3, CountDiff
  <2>2. QED
    BY <2>1
<1>5. Turns(n, s, x, k, c, j, r, d)
  BY <1>2, <1>3, <1>4 DEF Turns
<1>6. QED
  BY <1>5, TurnsApart

-----------------------------------------------------------------------------
(* Parts of a step *)

ThrType == [op : {"none", "after", "cancel", "start"}, pc : Pcs, delay : Nat]

IsrType == [pc : {"idle", "loop", "again"}, tick : Nat, timer : Timers \cup {NoTimer}]

\* What the invariant says about one timer.
LocalInv(t) ==
    /\ thr[t].pc \in StopPcs => t \notin Periodic
    /\ thr[t].pc = "clear" => t \notin Elems(queue)
    /\ thr[t].pc \in OutPcs => t \notin Elems(queue) /\ t \notin active
    /\ t \in Elems(queue) => t \in active
    /\ t \in active /\ t \notin Elems(queue) => thr[t].pc = "clear"
    /\ t \in cancelled => t \notin Elems(queue)

LEMMA QueuedIs == Queued = Elems(queue)
BY DEF Queued, Elems

LEMMA SortedIs == ListSorted <=> Sorted(queue, timeout)
BY DEF ListSorted, Sorted

LEMMA LocalIs ==
    cancelled \subseteq Timers =>
        (FlagTellsQueued /\ CancelledStaysOut /\ ThreadInv <=> \A t \in Timers : LocalInv(t))
<1> SUFFICES ASSUME cancelled \subseteq Timers
             PROVE  FlagTellsQueued /\ CancelledStaysOut /\ ThreadInv
                      <=> \A t \in Timers : LocalInv(t)
  OBVIOUS
<1>1. FlagTellsQueued <=> \A t \in Timers :
          /\ t \in Elems(queue) => t \in active
          /\ t \in active /\ t \notin Elems(queue) => thr[t].pc = "clear"
  <2>1. ASSUME NEW t \in Timers
        PROVE  ((t \in active) # (t \in Elems(queue)) => t \in active /\ thr[t].pc = "clear")
                 <=> /\ t \in Elems(queue) => t \in active
                     /\ t \in active /\ t \notin Elems(queue) => thr[t].pc = "clear"
    <3>4. CASE t \notin active /\ t \notin Elems(queue)
      BY SMTT(60)
    <3>5. QED
      BY <3>4
  <2>2. QED
    BY <2>1, QueuedIs DEF FlagTellsQueued
<1>2. CancelledStaysOut <=> \A t \in Timers : t \in cancelled => t \notin Elems(queue)
  BY QueuedIs DEF CancelledStaysOut
<1>3. ThreadInv <=> \A t \in Timers :
          /\ thr[t].pc \in StopPcs => t \notin Periodic
          /\ thr[t].pc = "clear" => t \notin Elems(queue)
          /\ thr[t].pc \in OutPcs => t \notin Elems(queue) /\ t \notin active
  BY QueuedIs DEF ThreadInv
<1>4. QED
  BY <1>1, <1>2, <1>3 DEF LocalInv

\* A step that does nothing to a timer keeps what is said about it.
LocalSame(u) ==
    /\ thr'[u].pc = thr[u].pc
    /\ (u \in active') <=> (u \in active)
    /\ (u \in Elems(queue')) <=> (u \in Elems(queue))
    /\ (u \in cancelled') <=> (u \in cancelled)

LEMMA LocalKept ==
    ASSUME NEW u, LocalInv(u), LocalSame(u)
    PROVE  LocalInv(u)'
BY DEF LocalInv, LocalSame

\* The parts of the invariant, in the form the proofs use.
LEMMA Parts ==
    ASSUME IInv
    PROVE  /\ TypeOK /\ Sorted(queue, timeout) /\ ClockInv /\ WakeupArmed
           /\ \A t \in Timers : LocalInv(t)
           /\ \A t \in Timers : t \in Elems(queue) \/ thr[t].pc = "insert"
                                   => due[t] <= timeout[t] + Lag
<1>1. cancelled \subseteq Timers
  BY DEF IInv, TypeOK
<1>2. QED
  BY <1>1, LocalIs, SortedIs, QueuedIs DEF IInv, DueInv

LEMMA Whole ==
    ASSUME TypeOK', Sorted(queue, timeout)', ClockInv', WakeupArmed',
           \A t \in Timers : LocalInv(t)',
           \A t \in Timers : (t \in Elems(queue) \/ thr[t].pc = "insert")'
                                   => due'[t] <= timeout'[t] + Lag'
    PROVE  IInv'
<1>1. (cancelled \subseteq Timers)'
  BY DEF TypeOK
<1>2. (FlagTellsQueued /\ CancelledStaysOut /\ ThreadInv <=> \A t \in Timers : LocalInv(t))'
  BY <1>1, LocalIs, PTL
<1>3. ListSorted' /\ Queued' = Elems(queue)'
  BY DEF ListSorted, Sorted, Queued, Elems
<1>4. DueInv'
  BY <1>3 DEF DueInv
<1>5. QED
  BY <1>2, <1>3, <1>4 DEF IInv

\* The types a proof needs most.
LEMMA Types ==
    ASSUME TypeOK
    PROVE  /\ now \in Nat /\ match \in 0 .. Period - 1 /\ base \in Nat /\ last \in 0 .. Period - 1
           /\ readAt \in 0 .. now /\ armedAt \in Nat /\ busy \in Nat
           /\ queue \in Seq(Timers) /\ timeout \in [Timers -> Nat]
           /\ init_tick \in [Timers -> Nat] /\ due \in [Timers -> Nat]
           /\ Period \in Nat \ {0}
BY HrTimerAssumption, SMTT(60) DEF TypeOK

LEMMA ReadClock ==
    ASSUME TypeOK, ClockInv, get_cur_tick, now' = now
    PROVE  /\ count \in 0 .. Period - 1 /\ cur_tick \in Nat /\ cur_tick % Period = count
           /\ base' \in Nat /\ last' \in 0 .. Period - 1 /\ readAt' = now
           /\ last' = readAt' % Period /\ base' % Period = 0
           /\ base' + last' = cur_tick /\ base + last <= cur_tick
           /\ Lag \in Int /\ Lag' = now - cur_tick /\ Lag <= Lag'
           /\ Clock' = cur_tick /\ Clock' <= Clock
           /\ now - readAt < Period => cur_tick = Clock
<1>1. /\ now \in Nat /\ base \in Nat /\ last \in Nat /\ readAt \in Nat /\ readAt <= now
      /\ Period \in Nat \ {0}
  BY Types, SMTT(60)
<1>2. last = readAt % Period /\ base % Period = 0
  BY DEF ClockInv
<1>3. count = now % Period /\ NextBase = IF count < last THEN base + Period ELSE base
  BY DEF count, NextBase
<1>4. /\ count \in 0 .. Period - 1 /\ NextBase \in Nat /\ NextBase % Period = 0
      /\ (NextBase + count) % Period = count
      /\ base + last <= NextBase + count /\ NextBase + count <= base + last + (now - readAt)
      /\ now - readAt < Period => NextBase + count = base + last + (now - readAt)
  <2>1. Read(Period, base, last, readAt, now, count, NextBase)
    BY <1>1, <1>2, <1>3 DEF Read
  <2>2. QED
    BY <2>1, Reading, SMTT(60)
<1>5. base' = NextBase /\ last' = count /\ readAt' = now /\ cur_tick = NextBase + count
  BY DEF get_cur_tick, cur_tick
<1>6. last' = readAt' % Period /\ base' % Period = 0 /\ cur_tick % Period = count
  BY <1>3, <1>4, <1>5
<1> DEFINE a == NextBase
           b == count
<1>7. /\ a \in Nat /\ b \in 0 .. Period - 1 /\ base' = a /\ last' = b /\ readAt' = now
      /\ base + last <= a + b /\ a + b <= base + last + (now - readAt)
      /\ now - readAt < Period => a + b = base + last + (now - readAt)
      /\ cur_tick = a + b
  BY <1>4, <1>5
<1> HIDE DEF a, b
<1>8. cur_tick \in Nat /\ base' + last' = cur_tick /\ base + last <= cur_tick
  BY <1>7, SMTT(60)
<1>9. /\ Lag \in Int /\ Lag' = now - cur_tick /\ Lag <= Lag'
      /\ Clock' = cur_tick /\ Clock' <= Clock
  BY <1>1, <1>7, SMTT(60) DEF Lag, Clock
<1>10. now - readAt < Period => cur_tick = Clock
  BY <1>7 DEF Clock
<1>11. base' \in Nat /\ last' \in 0 .. Period - 1 /\ count \in 0 .. Period - 1
  BY <1>4, <1>5
<1>12. QED
  BY <1>5, <1>6, <1>8, <1>9, <1>10, <1>11

\* set_timeout(q, to), right after a reading of the clock.
LEMMA Arming ==
    ASSUME TypeOK, ClockInv, get_cur_tick, now' = now,
           NEW q \in Seq(Timers), NEW to \in [Timers -> Nat], set_timeout(q, to)
    PROVE  /\ match' \in 0 .. Period - 1 /\ armedAt' = cur_tick /\ armedAt' \in Nat
           /\ UntilMatch' \in Nat
           /\ q # <<>> => \/ Clock' + UntilMatch' <= to[Head(q)]
                          \/ Clock' + UntilMatch' <= armedAt' + IntervalMin
           /\ (q # <<>> => to[Head(q)] <= cur_tick + IntervalMax) => UntilMatch' <= IntervalMax
<1> DEFINE tick == next_timeout_tick(q, to)
           set == IF tick =< cur_tick + IntervalMin THEN cur_tick + IntervalMin ELSE tick
           d == (match' - count) % Period
           u == IF d = 0 THEN Period ELSE d
<1>1. /\ cur_tick \in Nat /\ cur_tick % Period = count /\ Clock' = cur_tick
      /\ count \in 0 .. Period - 1
  BY ReadClock
<1>2. /\ Period \in Nat \ {0} /\ IntervalMax \in Nat /\ IntervalMin \in Nat \ {0}
      /\ IntervalMin < IntervalMax
  BY HrTimerAssumption
<1>3. match' = set % Period /\ armedAt' = cur_tick
  BY DEF set_timeout
<1>5. tick = IF q = <<>> THEN cur_tick + IntervalMax ELSE to[Head(q)]
  BY SMTT(60) DEF next_timeout_tick
<1>6. tick \in Nat
  BY <1>1, <1>2, <1>5, SMTT(60)
<1> HIDE DEF tick
<1>7. set \in Nat /\ cur_tick < set /\ (set = tick \/ set = cur_tick + IntervalMin)
  BY <1>1, <1>2, <1>6, SMTT(60)
<1> HIDE DEF set
<1>8. u <= set - cur_tick
  BY <1>1, <1>2, <1>3, <1>7, UntilSet
<1>9. match' \in 0 .. Period - 1
  BY <1>2, <1>3, <1>7, SMTT(60)
<1>10. d \in 0 .. Period - 1
  <2>1. match' - count \in Int
    BY <1>1, <1>9, SMTT(60)
  <2>2. QED
    BY <1>2, <2>1, DivMod
<1>11. UntilMatch' = u
  <2>1. count' = count
    BY DEF count
  <2>2. QED
    BY <2>1 DEF UntilMatch
<1> HIDE DEF d
<1>12. u \in Nat
  BY <1>2, <1>10, SMTT(60)
<1> HIDE DEF u
<1>13. q # <<>> => cur_tick + u <= to[Head(q)] \/ cur_tick + u <= cur_tick + IntervalMin
  BY <1>1, <1>5, <1>7, <1>8, <1>12, SMTT(60)
<1>14. (q # <<>> => to[Head(q)] <= cur_tick + IntervalMax) => u <= IntervalMax
  BY <1>1, <1>2, <1>5, <1>7, <1>8, <1>12, SMTT(60)
<1>15. QED
  BY <1>1, <1>3, <1>9, <1>11, <1>12, <1>13, <1>14

LEMMA GotoThr ==
    ASSUME thr \in [Timers -> ThrType], NEW t \in Timers, NEW pc \in Pcs, Goto(t, pc)
    PROVE  /\ thr' \in [Timers -> ThrType]
           /\ thr'[t].pc = pc /\ thr'[t].delay = thr[t].delay
           /\ \A u \in Timers \ {t} : thr'[u] = thr[u]
<1>1. thr' = [thr EXCEPT ![t].pc = pc]
  BY DEF Goto
<1>3. [thr[t] EXCEPT !.pc = pc] \in ThrType
  BY DEF ThrType
<1>6. QED
  BY <1>1, <1>3, SMTT(60)

LEMMA ThrIs ==
    ASSUME TypeOK
    PROVE  thr \in [Timers -> ThrType] /\ \A t \in Timers : thr[t].pc \in Pcs /\ thr[t].delay \in Nat
<1>1. thr \in [Timers -> ThrType]
  BY DEF TypeOK, ThrType
<1>2. \A r \in ThrType : r.pc \in Pcs /\ r.delay \in Nat
  BY DEF ThrType
<1>3. QED
  BY <1>1, <1>2

\* A step of t's thread that neither reads the clock nor puts a timer in the list.
QuietStep(t) ==
    /\ now' = now /\ match' = match /\ pending' = pending /\ busy' = busy /\ armedAt' = armedAt
    /\ base' = base /\ last' = last /\ readAt' = readAt /\ isr' = isr /\ due' = due
    /\ thr' \in [Timers -> ThrType] /\ thr'[t].pc # "insert"
    /\ timeout' \in [Timers -> Nat] /\ init_tick' \in [Timers -> Nat]
    /\ active' \subseteq Timers /\ cancelled' \subseteq Timers
    /\ queue' = queue \/ queue' = Without(queue, t)
    /\ t \in Elems(queue') => timeout'[t] = timeout[t]
    /\ \A u \in Timers \ {t} :
          /\ timeout'[u] = timeout[u] /\ thr'[u].pc = thr[u].pc
          /\ (u \in active') <=> (u \in active)
          /\ (u \in cancelled') <=> (u \in cancelled)
    /\ LocalInv(t)'

LEMMA QuietCase ==
    ASSUME IInv, NEW t \in Timers, QuietStep(t)
    PROVE  IInv'
<1>1. /\ TypeOK /\ Sorted(queue, timeout) /\ ClockInv /\ WakeupArmed
      /\ \A u \in Timers : LocalInv(u)
      /\ \A u \in Timers : u \in Elems(queue) \/ thr[u].pc = "insert" => due[u] <= timeout[u] + Lag
  BY Parts
<1>2. /\ now \in Nat /\ match \in 0 .. Period - 1 /\ base \in Nat /\ last \in 0 .. Period - 1
      /\ readAt \in 0 .. now /\ armedAt \in Nat /\ queue \in Seq(Timers)
      /\ timeout \in [Timers -> Nat] /\ due \in [Timers -> Nat] /\ Period \in Nat \ {0}
  BY <1>1, Types
<1>3. /\ queue' \in Seq(Timers) /\ Sorted(queue', timeout)
      /\ Elems(queue') \subseteq Elems(queue) /\ Elems(queue) \ {t} \subseteq Elems(queue')
      /\ queue' # <<>> => queue # <<>> /\ timeout[Head(queue)] <= timeout[Head(queue')]
  <2>1. CASE queue' = queue
    BY <1>1, <1>2, <2>1, SMTT(60)
  <2>2. CASE queue' = Without(queue, t)
    <3> DEFINE w == Without(queue, t)
    <3>1. /\ w \in Seq(Timers) /\ Elems(w) = Elems(queue) \ {t} /\ Sorted(w, timeout)
          /\ w # <<>> => queue # <<>> /\ timeout[Head(queue)] <= timeout[Head(w)]
      BY <1>1, <1>2, WithoutProps
    <3> HIDE DEF w
    <3>2. queue' = w
      BY <2>2 DEF w
    <3>3. QED
      BY <3>1, <3>2
  <2>3. QED
    BY <2>1, <2>2 DEF QuietStep
<1>4. /\ Elems(queue') \subseteq Timers
      /\ \A u \in Elems(queue') : timeout'[u] = timeout[u]
  <2>1. Elems(queue') \subseteq Timers
    BY <1>3, ElemsOf
  <2>2. QED
    BY <2>1 DEF QuietStep
<1>5. Sorted(queue', timeout')
  BY <1>3, <1>4, SortedSame
<1>6. TypeOK'
  BY <1>1, <1>3 DEF TypeOK, QuietStep, ThrType
<1>7. ClockInv' /\ Lag' = Lag
  BY <1>1 DEF ClockInv, QuietStep, Lag
<1>8. WakeupArmed'
  <2> SUFFICES ASSUME queue' # <<>>, ~pending', isr'.pc = "idle"
               PROVE  \/ Clock' + UntilMatch' <= timeout'[Head(queue')]
                      \/ Clock' + UntilMatch' <= armedAt' + IntervalMin
    BY DEF WakeupArmed
  <2>1. Clock' = Clock /\ UntilMatch' = UntilMatch /\ armedAt' = armedAt
    BY DEF QuietStep, Clock, UntilMatch, count
  <2>2. \/ Clock + UntilMatch <= timeout[Head(queue)]
        \/ Clock + UntilMatch <= armedAt + IntervalMin
    BY <1>1, <1>3 DEF WakeupArmed, QuietStep
  <2>3. timeout[Head(queue)] \in Nat /\ timeout'[Head(queue')] = timeout[Head(queue')]
    <3>1. queue # <<>> /\ Head(queue) \in Timers /\ Head(queue') \in Elems(queue')
      BY <1>2, <1>3, ElemsOf
    <3>2. QED
      BY <1>2, <1>4, <3>1
  <2>4. timeout[Head(queue)] <= timeout'[Head(queue')] /\ timeout'[Head(queue')] \in Nat
    BY <1>2, <1>3, <2>3, SMTT(60)
  <2>5. Clock + UntilMatch \in Int
    <3>1. Clock \in Int
      BY <1>2, SMTT(60) DEF Clock
    <3>2. UntilMatch \in Int
      BY <1>2, SMTT(60) DEF UntilMatch, count
    <3>3. QED
      BY <3>1, <3>2, SMTT(60)
  <2> DEFINE cu == Clock + UntilMatch
  <2> HIDE DEF cu
  <2>6. cu \in Int /\ (cu <= timeout[Head(queue)] \/ cu <= armedAt + IntervalMin)
    BY <2>2, <2>5 DEF cu
  <2>7. Clock' + UntilMatch' = cu
    BY <2>1 DEF cu
  <2>8. QED
    BY <2>1, <2>3, <2>4, <2>6, <2>7, SMTT(60)
<1>9. ASSUME NEW u \in Timers PROVE LocalInv(u)'
  <2>1. CASE u = t
    BY <2>1 DEF QuietStep
  <2>2. CASE u # t
    <3>1. LocalSame(u)
      BY <1>3, <2>2 DEF LocalSame, QuietStep
    <3>2. QED
      BY <1>1, <3>1, LocalKept
  <2>3. QED
    BY <2>1, <2>2
<1>10. ASSUME NEW u \in Timers, u \in Elems(queue') \/ thr'[u].pc = "insert"
       PROVE  due'[u] <= timeout'[u] + Lag'
  <2>1. timeout'[u] = timeout[u] /\ due'[u] = due[u]
    BY <1>10 DEF QuietStep
  <2>2. u \in Elems(queue) \/ thr[u].pc = "insert"
    BY <1>3, <1>10 DEF QuietStep
  <2>3. QED
    BY <1>1, <1>7, <2>1, <2>2
<1>11. QED
  BY <1>5, <1>6, <1>7, <1>8, <1>9, <1>10, Whole

\* The thread of a timer, step by step.
LEMMA ThreadFacts ==
    ASSUME IInv, NEW t \in Timers
    PROVE  /\ thr \in [Timers -> ThrType] /\ thr[t].pc \in Pcs /\ thr[t].delay \in Nat
           /\ LocalInv(t)
           /\ timeout \in [Timers -> Nat] /\ init_tick \in [Timers -> Nat]
           /\ active \subseteq Timers /\ cancelled \subseteq Timers
           /\ Elems(Without(queue, t)) = Elems(queue) \ {t}
<1>1. TypeOK /\ Sorted(queue, timeout) /\ \A u \in Timers : LocalInv(u)
  BY Parts
<1>2. queue \in Seq(Timers) /\ timeout \in [Timers -> Nat]
  BY <1>1, Types
<1>3. Elems(Without(queue, t)) = Elems(queue) \ {t}
  BY <1>1, <1>2, WithoutProps
<1>4. thr \in [Timers -> ThrType] /\ thr[t].pc \in Pcs /\ thr[t].delay \in Nat
  BY <1>1, ThrIs
<1>5. QED
  BY <1>1, <1>3, <1>4 DEF TypeOK

LEMMA CallAfter ==
    ASSUME IInv, NEW t \in Timers, NEW d \in Delays, hrt_call_after(t, d)
    PROVE  IInv'
<1>1. /\ thr \in [Timers -> ThrType] /\ thr[t].pc \in Pcs /\ thr[t].delay \in Nat
      /\ LocalInv(t)
      /\ timeout \in [Timers -> Nat] /\ init_tick \in [Timers -> Nat]
      /\ active \subseteq Timers /\ cancelled \subseteq Timers
      /\ Elems(Without(queue, t)) = Elems(queue) \ {t}
  BY ThreadFacts
<1> DEFINE r == [op |-> "after", delay |-> d, pc |-> IF t \in active THEN "stop" ELSE "init"]
<1>2. thr' = [thr EXCEPT ![t] = r]
  BY DEF hrt_call_after
<1>3. r \in ThrType /\ r.pc = IF t \in active THEN "stop" ELSE "init"
  BY HrTimerAssumption DEF ThrType, Pcs
<1> HIDE DEF r
<1>4. /\ thr' \in [Timers -> ThrType] /\ thr'[t] = r
      /\ \A u \in Timers \ {t} : thr'[u] = thr[u]
  BY <1>1, <1>2, <1>3
<1>5. /\ thr'[t].pc = IF t \in active THEN "stop" ELSE "init"
      /\ thr[t].pc = "idle" /\ t \notin Periodic
      /\ queue' = queue /\ active' = active /\ cancelled' = cancelled
  BY <1>4 DEF hrt_call_after, Ready, listVars
<1>6. LocalInv(t)'
  BY <1>1, <1>5 DEF LocalInv, StopPcs, OutPcs
<1>7. QuietStep(t)
  BY <1>1, <1>4, <1>6 DEF QuietStep, hrt_call_after, ThreadOnly, hwVars, clockVars, listVars
<1>8. QED
  BY <1>7, QuietCase

LEMMA Cancel ==
    ASSUME IInv, NEW t \in Timers, hrt_cancel(t)
    PROVE  IInv'
<1>1. /\ thr \in [Timers -> ThrType] /\ thr[t].pc \in Pcs /\ thr[t].delay \in Nat
      /\ LocalInv(t)
      /\ timeout \in [Timers -> Nat] /\ init_tick \in [Timers -> Nat]
      /\ active \subseteq Timers /\ cancelled \subseteq Timers
      /\ Elems(Without(queue, t)) = Elems(queue) \ {t}
  BY ThreadFacts
<1>2. thr[t].pc = "idle" /\ t \notin Periodic
  BY DEF hrt_cancel, Ready
<1>3. CASE t \in active
  <2> DEFINE r == [op |-> "cancel", delay |-> 0, pc |-> "stop"]
  <2>1. thr' = [thr EXCEPT ![t] = r]
    BY <1>3 DEF hrt_cancel
  <2>2. r \in ThrType /\ r.pc = "stop"
    BY DEF ThrType, Pcs
  <2> HIDE DEF r
  <2>3. /\ thr' \in [Timers -> ThrType] /\ thr'[t] = r
        /\ \A u \in Timers \ {t} : thr'[u] = thr[u]
    BY <1>1, <2>1, <2>2
  <2>4. thr'[t].pc = "stop" /\ queue' = queue /\ active' = active /\ cancelled' = cancelled
    BY <1>3, <2>3 DEF hrt_cancel, listVars
  <2>5. LocalInv(t)'
    BY <1>1, <1>2, <2>4 DEF LocalInv, StopPcs, OutPcs
  <2>6. QuietStep(t)
    BY <1>1, <2>3, <2>4, <2>5
    DEF QuietStep, hrt_cancel, ThreadOnly, hwVars, clockVars, listVars
  <2>7. QED
    BY <2>6, QuietCase
<1>4. CASE t \notin active
  <2>1. /\ thr' = thr /\ queue' = queue /\ active' = active /\ cancelled' = cancelled \cup {t}
    BY <1>4 DEF hrt_cancel, listVars
  <2>2. LocalInv(t)'
    BY <1>1, <1>4, <2>1 DEF LocalInv, StopPcs, OutPcs
  <2>3. QuietStep(t)
    BY <1>1, <1>2, <2>1, <2>2
    DEF QuietStep, hrt_cancel, ThreadOnly, hwVars, clockVars, listVars
  <2>4. QED
    BY <2>3, QuietCase, SMTT(60)
<1>5. QED
  BY <1>3, <1>4

LEMMA StartCreated ==
    ASSUME IInv, NEW t \in Timers, NEW d \in Delays, hrtimer_start(t, d)
    PROVE  IInv'
<1>1. /\ thr \in [Timers -> ThrType] /\ thr[t].pc \in Pcs /\ thr[t].delay \in Nat
      /\ LocalInv(t)
      /\ timeout \in [Timers -> Nat] /\ init_tick \in [Timers -> Nat]
      /\ active \subseteq Timers /\ cancelled \subseteq Timers
      /\ Elems(Without(queue, t)) = Elems(queue) \ {t}
  BY ThreadFacts, SMTT(60)
<1> DEFINE r == [op |-> "start", delay |-> d, pc |-> "unlink"]
<1>2. thr' = [thr EXCEPT ![t] = r]
  BY DEF hrtimer_start
<1>3. r \in ThrType /\ r.pc = "unlink"
  BY HrTimerAssumption DEF ThrType, Pcs
<1> HIDE DEF r
<1>4. /\ thr' \in [Timers -> ThrType] /\ thr'[t] = r
      /\ \A u \in Timers \ {t} : thr'[u] = thr[u]
  BY <1>1, <1>2, <1>3
<1>5. /\ thr'[t].pc = "unlink" /\ thr[t].pc = "idle" /\ t \notin active
      /\ queue' = queue /\ active' = active /\ cancelled' = cancelled
  BY <1>4 DEF hrtimer_start, Ready
<1>6. LocalInv(t)'
  BY <1>1, <1>5 DEF LocalInv, StopPcs, OutPcs
<1>7. init_tick' \in [Timers -> Nat]
  BY <1>1, HrTimerAssumption DEF hrtimer_start
<1>8. QuietStep(t)
  BY <1>1, <1>4, <1>6, <1>7 DEF QuietStep, hrtimer_start, ThreadOnly, hwVars, clockVars
<1>9. QED
  BY <1>8, QuietCase, SMTT(60)

LEMMA StopTest ==
    ASSUME IInv, NEW t \in Timers, stop_test(t)
    PROVE  IInv'
<1>1. /\ thr \in [Timers -> ThrType] /\ thr[t].pc \in Pcs /\ thr[t].delay \in Nat
      /\ LocalInv(t)
      /\ timeout \in [Timers -> Nat] /\ init_tick \in [Timers -> Nat]
      /\ active \subseteq Timers /\ cancelled \subseteq Timers
      /\ Elems(Without(queue, t)) = Elems(queue) \ {t}
  BY ThreadFacts, SMTT(60)
<1> DEFINE pc == IF t \in active THEN "remove" ELSE AfterStop(t)
<1>2. pc \in Pcs /\ pc \in {"remove", "init", "zero"} /\ (pc = "remove" <=> t \in active)
  BY DEF AfterStop, Pcs
<1>3. Goto(t, pc) /\ thr[t].pc = "stop"
  BY DEF stop_test, At
<1> HIDE DEF pc
<1>4. /\ thr' \in [Timers -> ThrType] /\ thr'[t].pc = pc
      /\ \A u \in Timers \ {t} : thr'[u] = thr[u]
  BY <1>1, <1>2, <1>3, GotoThr
<1>5. queue' = queue /\ active' = active /\ cancelled' = cancelled
  BY DEF stop_test, listVars
<1>6. LocalInv(t)'
  BY <1>1, <1>2, <1>3, <1>4, <1>5 DEF LocalInv, StopPcs, OutPcs
<1>7. QuietStep(t)
  BY <1>1, <1>2, <1>4, <1>6 DEF QuietStep, stop_test, ThreadOnly, hwVars, clockVars, listVars
<1>8. QED
  BY <1>7, QuietCase, SMTT(60)

LEMMA StopRemove ==
    ASSUME IInv, NEW t \in Timers, stop_remove(t)
    PROVE  IInv'
<1>1. /\ thr \in [Timers -> ThrType] /\ thr[t].pc \in Pcs /\ thr[t].delay \in Nat
      /\ LocalInv(t)
      /\ timeout \in [Timers -> Nat] /\ init_tick \in [Timers -> Nat]
      /\ active \subseteq Timers /\ cancelled \subseteq Timers
      /\ Elems(Without(queue, t)) = Elems(queue) \ {t}
  BY ThreadFacts, SMTT(60)
<1>2. Goto(t, "clear") /\ thr[t].pc = "remove" /\ "clear" \in Pcs
  BY DEF stop_remove, At, Pcs
<1>3. /\ thr' \in [Timers -> ThrType] /\ thr'[t].pc = "clear"
      /\ \A u \in Timers \ {t} : thr'[u] = thr[u]
  BY <1>1, <1>2, GotoThr
<1>4. queue' = Without(queue, t) /\ active' = active /\ cancelled' = cancelled
  BY DEF stop_remove
<1>6. LocalInv(t)'
  BY <1>1, <1>2, <1>3, <1>4 DEF LocalInv, StopPcs, OutPcs
<1>7. QuietStep(t)
  BY <1>1, <1>3, <1>6 DEF QuietStep, stop_remove, ThreadOnly, hwVars, clockVars
<1>8. QED
  BY <1>7, QuietCase, SMTT(60)

LEMMA StopClear ==
    ASSUME IInv, NEW t \in Timers, stop_clear(t)
    PROVE  IInv'
<1>1. /\ thr \in [Timers -> ThrType] /\ thr[t].pc \in Pcs /\ thr[t].delay \in Nat
      /\ LocalInv(t)
      /\ timeout \in [Timers -> Nat] /\ init_tick \in [Timers -> Nat]
      /\ active \subseteq Timers /\ cancelled \subseteq Timers
      /\ Elems(Without(queue, t)) = Elems(queue) \ {t}
  BY ThreadFacts, SMTT(60)
<1> DEFINE pc == AfterStop(t)
<1>2. pc \in Pcs /\ pc \in {"init", "zero"}
  BY DEF AfterStop, Pcs
<1>3. Goto(t, pc) /\ thr[t].pc = "clear"
  BY DEF stop_clear, At
<1> HIDE DEF pc
<1>4. /\ thr' \in [Timers -> ThrType] /\ thr'[t].pc = pc
      /\ \A u \in Timers \ {t} : thr'[u] = thr[u]
  BY <1>1, <1>2, <1>3, GotoThr
<1>5. queue' = queue /\ active' = active \ {t} /\ cancelled' = cancelled
  BY DEF stop_clear
<1>6. LocalInv(t)'
  BY <1>1, <1>3, <1>5 DEF LocalInv, StopPcs, OutPcs
<1>7. QuietStep(t)
  BY <1>1, <1>2, <1>4, <1>6 DEF QuietStep, stop_clear, ThreadOnly, hwVars, clockVars
<1>8. QED
  BY <1>7, QuietCase, SMTT(60)

LEMMA CancelZero ==
    ASSUME IInv, NEW t \in Timers, cancel_zero(t)
    PROVE  IInv'
<1>1. /\ thr \in [Timers -> ThrType] /\ thr[t].pc \in Pcs /\ thr[t].delay \in Nat
      /\ LocalInv(t)
      /\ timeout \in [Timers -> Nat] /\ init_tick \in [Timers -> Nat]
      /\ active \subseteq Timers /\ cancelled \subseteq Timers
      /\ Elems(Without(queue, t)) = Elems(queue) \ {t}
  BY ThreadFacts, SMTT(60)
<1>2. Idle \in ThrType /\ Idle.pc = "idle"
  BY DEF ThrType, Pcs, Idle
<1>3. thr' = [thr EXCEPT ![t] = Idle] /\ thr[t].pc = "zero"
  BY DEF cancel_zero, At
<1>4. /\ thr' \in [Timers -> ThrType] /\ thr'[t] = Idle
      /\ \A u \in Timers \ {t} : thr'[u] = thr[u]
  BY <1>1, <1>2, <1>3
<1>5. /\ thr'[t].pc = "idle" /\ queue' = queue /\ active' = active \ {t}
      /\ cancelled' = cancelled \cup {t}
  BY <1>2, <1>4 DEF cancel_zero
<1>6. t \notin Elems(queue)
  BY <1>1, <1>3 DEF LocalInv, OutPcs
<1>7. LocalInv(t)'
  BY <1>5, <1>6 DEF LocalInv, StopPcs, OutPcs
<1>9. QuietStep(t)
  BY <1>1, <1>4, <1>5, <1>6, <1>7 DEF QuietStep, cancel_zero, ThreadOnly, hwVars, clockVars
<1>10. QED
  BY <1>9, QuietCase, SMTT(60)

LEMMA InitTimer ==
    ASSUME IInv, NEW t \in Timers, init(t)
    PROVE  IInv'
<1>1. /\ thr \in [Timers -> ThrType] /\ thr[t].pc \in Pcs /\ thr[t].delay \in Nat
      /\ LocalInv(t)
      /\ timeout \in [Timers -> Nat] /\ init_tick \in [Timers -> Nat]
      /\ active \subseteq Timers /\ cancelled \subseteq Timers
      /\ Elems(Without(queue, t)) = Elems(queue) \ {t}
  BY ThreadFacts, SMTT(60)
<1>2. Goto(t, "unlink") /\ thr[t].pc = "init" /\ "unlink" \in Pcs
  BY DEF init, At, Pcs
<1>3. /\ thr' \in [Timers -> ThrType] /\ thr'[t].pc = "unlink"
      /\ \A u \in Timers \ {t} : thr'[u] = thr[u]
  BY <1>1, <1>2, GotoThr
<1>4. queue' = queue /\ active' = active \ {t} /\ cancelled' = cancelled
  BY DEF init
<1>5. t \notin Elems(queue)
  BY <1>1, <1>2 DEF LocalInv, OutPcs
<1>6. LocalInv(t)'
  BY <1>3, <1>4, <1>5 DEF LocalInv, StopPcs, OutPcs
<1>8. QuietStep(t)
  BY <1>1, <1>3, <1>5, <1>6 DEF QuietStep, init, ThreadOnly, hwVars, clockVars
<1>9. QED
  BY <1>8, QuietCase, SMTT(60)

LEMMA StartUnlink ==
    ASSUME IInv, NEW t \in Timers, start_unlink(t)
    PROVE  IInv'
<1>1. /\ thr \in [Timers -> ThrType] /\ thr[t].pc \in Pcs /\ thr[t].delay \in Nat
      /\ LocalInv(t)
      /\ timeout \in [Timers -> Nat] /\ init_tick \in [Timers -> Nat]
      /\ active \subseteq Timers /\ cancelled \subseteq Timers
      /\ Elems(Without(queue, t)) = Elems(queue) \ {t}
  BY ThreadFacts, SMTT(60)
<1>2. Goto(t, "read") /\ thr[t].pc = "unlink" /\ "read" \in Pcs
  BY DEF start_unlink, At, Pcs
<1>3. /\ thr' \in [Timers -> ThrType] /\ thr'[t].pc = "read"
      /\ \A u \in Timers \ {t} : thr'[u] = thr[u]
  BY <1>1, <1>2, GotoThr
<1>4. queue' = Without(queue, t) /\ active' = active \ {t} /\ cancelled' = cancelled
  BY DEF start_unlink
<1>5. t \notin Elems(queue')
  BY <1>1, <1>4
<1>6. LocalInv(t)'
  BY <1>3, <1>4, <1>5 DEF LocalInv, StopPcs, OutPcs
<1>7. QuietStep(t)
  BY <1>1, <1>3, <1>6 DEF QuietStep, start_unlink, ThreadOnly, hwVars, clockVars
<1>8. QED
  BY <1>7, QuietCase, SMTT(60)

-----------------------------------------------------------------------------
(* Steps that read the clock *)

\* A reading alone leaves the wakeup armed: the clock it returns is no later.
LEMMA ReadKeepsArmed ==
    ASSUME TypeOK, ClockInv, WakeupArmed, get_cur_tick,
           now' = now, match' = match, pending' = pending, armedAt' = armedAt, isr' = isr,
           queue' = queue, \A u \in Elems(queue) : timeout'[u] = timeout[u]
    PROVE  WakeupArmed'
<1> SUFFICES ASSUME queue # <<>>, ~pending, isr.pc = "idle"
             PROVE  \/ Clock' + UntilMatch' <= timeout'[Head(queue)]
                    \/ Clock' + UntilMatch' <= armedAt + IntervalMin
  BY DEF WakeupArmed
<1>1. /\ now \in Nat /\ match \in 0 .. Period - 1 /\ base \in Nat /\ last \in 0 .. Period - 1
      /\ readAt \in 0 .. now /\ armedAt \in Nat /\ queue \in Seq(Timers)
      /\ timeout \in [Timers -> Nat] /\ Period \in Nat \ {0}
  BY Types
<1>2. Clock' <= Clock /\ Clock' = cur_tick /\ cur_tick \in Nat
  BY ReadClock
<1>3. UntilMatch' = UntilMatch
  BY DEF UntilMatch, count
<1>4. Clock + UntilMatch <= timeout[Head(queue)] \/ Clock + UntilMatch <= armedAt + IntervalMin
  BY DEF WakeupArmed
<1>5. timeout'[Head(queue)] = timeout[Head(queue)] /\ timeout[Head(queue)] \in Nat
  BY <1>1, ElemsOf
<1>6. Clock \in Int
  BY <1>1, SMTT(60) DEF Clock
<1>7. UntilMatch \in Int
  BY <1>1, SMTT(60) DEF UntilMatch, count
<1>8. IntervalMin \in Int
  BY HrTimerAssumption, SMTT(60)
<1> DEFINE c == Clock
           cc == Clock'
           u == UntilMatch
<1>9. /\ c \in Int /\ cc \in Int /\ cc <= c /\ u \in Int
      /\ c + u <= timeout[Head(queue)] \/ c + u <= armedAt + IntervalMin
  BY <1>2, <1>4, <1>6, <1>7, SMTT(60)
<1> HIDE DEF c, cc, u
<1>10. cc + u <= timeout[Head(queue)] \/ cc + u <= armedAt + IntervalMin
  BY <1>1, <1>8, <1>9, SMTT(60)
<1>11. QED
  BY <1>3, <1>5, <1>10 DEF cc, u

LEMMA GetTick ==
    ASSUME IInv, hrtimer_get_tick
    PROVE  IInv'
<1>1. /\ TypeOK /\ Sorted(queue, timeout) /\ ClockInv /\ WakeupArmed
      /\ \A u \in Timers : LocalInv(u)
      /\ \A u \in Timers : u \in Elems(queue) \/ thr[u].pc = "insert" => due[u] <= timeout[u] + Lag
  BY Parts
<1>2. /\ get_cur_tick /\ now' = now /\ match' = match /\ pending' = pending /\ busy' = busy
      /\ armedAt' = armedAt /\ queue' = queue /\ timeout' = timeout /\ init_tick' = init_tick
      /\ active' = active /\ thr' = thr /\ isr' = isr /\ due' = due /\ cancelled' = cancelled
  BY DEF hrtimer_get_tick, hwVars, listVars
<1>3. /\ base' \in Nat /\ last' \in 0 .. Period - 1 /\ readAt' = now
      /\ base' + last' = cur_tick /\ base + last <= cur_tick /\ Lag <= Lag' /\ cur_tick \in Nat
  BY <1>1, <1>2, ReadClock
<1>3b. Lag \in Int /\ Lag' = now - cur_tick
  BY <1>1, <1>2, ReadClock
<1>3a. last' = readAt' % Period /\ base' % Period = 0
  BY <1>1, <1>2, ReadClock
<1>4. TypeOK'
  BY <1>1, <1>2, <1>3, SMTT(60) DEF TypeOK
<1>5. ClockInv'
  <2>1. isr.pc # "idle" => isr.tick <= cur_tick
    BY DEF hrtimer_get_tick
  <2>2. QED
    BY <1>2, <1>3, <1>3a, <2>1 DEF ClockInv
<1>6. WakeupArmed'
  BY <1>1, <1>2, ReadKeepsArmed
<1>7. ASSUME NEW u \in Timers PROVE LocalInv(u)'
  BY <1>1, <1>2 DEF LocalInv
<1>8. ASSUME NEW u \in Timers, u \in Elems(queue') \/ thr'[u].pc = "insert"
      PROVE  due'[u] <= timeout'[u] + Lag'
  <2>1. due[u] <= timeout[u] + Lag
    BY <1>1, <1>2, <1>8
  <2>2. due[u] \in Nat /\ timeout[u] \in Nat /\ Lag \in Int /\ Lag' \in Int
    <3>1. due \in [Timers -> Nat] /\ timeout \in [Timers -> Nat] /\ now \in Nat
      BY <1>1, Types
    <3>2. QED
      BY <1>3b, <3>1, SMTT(60)
  <2>3. QED
    BY <1>2, <1>3, <2>1, <2>2, SMTT(60)
<1>9. Sorted(queue, timeout)'
  BY <1>1, <1>2
<1>10. QED
  BY <1>4, <1>5, <1>6, <1>7, <1>8, <1>9, Whole

LEMMA StartRead ==
    ASSUME IInv, NEW t \in Timers, start_read(t)
    PROVE  IInv'
<1>1. /\ TypeOK /\ Sorted(queue, timeout) /\ ClockInv /\ WakeupArmed
      /\ \A u \in Timers : LocalInv(u)
      /\ \A u \in Timers : u \in Elems(queue) \/ thr[u].pc = "insert" => due[u] <= timeout[u] + Lag
  BY Parts
<1>2. /\ get_cur_tick /\ now' = now /\ match' = match /\ pending' = pending /\ busy' = busy
      /\ armedAt' = armedAt /\ queue' = queue /\ init_tick' = init_tick
      /\ active' = active /\ isr' = isr /\ cancelled' = cancelled
      /\ isr.pc = "idle" /\ thr[t].pc = "read" /\ Goto(t, "insert")
      /\ timeout' = [timeout EXCEPT ![t] = cur_tick + init_tick[t]]
      /\ due' = [due EXCEPT ![t] = now + init_tick[t]]
  BY DEF start_read, At, hwVars
<1>3. /\ base' \in Nat /\ last' \in 0 .. Period - 1 /\ readAt' = now
      /\ base' + last' = cur_tick /\ base + last <= cur_tick /\ Lag <= Lag' /\ cur_tick \in Nat
  BY <1>1, <1>2, ReadClock
<1>3b. Lag \in Int /\ Lag' = now - cur_tick
  BY <1>1, <1>2, ReadClock
<1>3a. last' = readAt' % Period /\ base' % Period = 0
  BY <1>1, <1>2, ReadClock
<1>4. /\ now \in Nat /\ timeout \in [Timers -> Nat] /\ due \in [Timers -> Nat]
      /\ init_tick \in [Timers -> Nat] /\ queue \in Seq(Timers) /\ base \in Nat
      /\ last \in 0 .. Period - 1 /\ readAt \in 0 .. now
  BY <1>1, Types
<1>5. /\ thr' \in [Timers -> ThrType] /\ thr'[t].pc = "insert"
      /\ \A u \in Timers \ {t} : thr'[u] = thr[u]
  BY <1>1, <1>2, ThrIs, GotoThr DEF Pcs
<1>6. /\ timeout' \in [Timers -> Nat] /\ timeout'[t] = cur_tick + init_tick[t]
      /\ \A u \in Timers \ {t} : timeout'[u] = timeout[u]
  BY <1>2, <1>3, <1>4, SMTT(60)
<1>7. /\ due' \in [Timers -> Nat] /\ due'[t] = now + init_tick[t]
      /\ \A u \in Timers \ {t} : due'[u] = due[u]
  BY <1>2, <1>4, SMTT(60)
<1>8. t \notin Elems(queue) /\ t \notin active
  BY <1>1, <1>2 DEF LocalInv, OutPcs
<1>9. TypeOK'
  <2>1. /\ now \in 0 .. MaxTime /\ match \in 0 .. Period - 1 /\ pending \in BOOLEAN
        /\ busy \in 0 .. MaxLatency /\ armedAt \in Nat /\ isr \in IsrType
        /\ active \subseteq Timers /\ cancelled \subseteq Timers
    BY <1>1 DEF TypeOK, IsrType
  <2>2. readAt' \in 0 .. now'
    BY <1>2, <1>3, <1>4, SMTT(60)
  <2>3. QED
    BY <1>2, <1>3, <1>4, <1>5, <1>6, <1>7, <2>1, <2>2 DEF TypeOK, ThrType, IsrType
<1>10. ClockInv'
  BY <1>2, <1>3a DEF ClockInv
<1>11. \A u \in Elems(queue) : timeout'[u] = timeout[u]
  BY <1>4, <1>6, <1>8, ElemsOf
<1>12. WakeupArmed'
  BY <1>1, <1>2, <1>11, ReadKeepsArmed
<1>13. ASSUME NEW u \in Timers PROVE LocalInv(u)'
  <2>1. CASE u = t
    BY <1>1, <1>2, <1>5 DEF LocalInv, StopPcs, OutPcs
  <2>2. CASE u # t
    BY <1>1, <1>2, <1>5, <2>2 DEF LocalInv
  <2>3. QED
    BY <2>1, <2>2
<1>14. ASSUME NEW u \in Timers, u \in Elems(queue') \/ thr'[u].pc = "insert"
       PROVE  due'[u] <= timeout'[u] + Lag'
  <2>1. Lag \in Int /\ Lag' \in Int /\ Lag' = now - cur_tick
    BY <1>3b, SMTT(60)
  <2>2. CASE u = t
    BY <1>3, <1>4, <1>6, <1>7, <2>1, <2>2, SMTT(60)
  <2>3. CASE u # t
    <3>1. due[u] <= timeout[u] + Lag /\ due[u] \in Nat /\ timeout[u] \in Nat
      BY <1>1, <1>2, <1>4, <1>5, <1>14, <2>3
    <3>2. QED
      BY <1>3, <1>6, <1>7, <2>1, <2>3, <3>1, SMTT(60)
  <2>4. QED
    BY <2>2, <2>3
<1>15. Sorted(queue, timeout)'
  BY <1>1, <1>2, <1>11, SortedSame
<1>16. QED
  BY <1>9, <1>10, <1>12, <1>13, <1>14, <1>15, Whole

LEMMA StartInsert ==
    ASSUME IInv, NEW t \in Timers, start_insert(t)
    PROVE  IInv'
<1>1. /\ TypeOK /\ Sorted(queue, timeout) /\ ClockInv /\ WakeupArmed
      /\ \A u \in Timers : LocalInv(u)
      /\ \A u \in Timers : u \in Elems(queue) \/ thr[u].pc = "insert" => due[u] <= timeout[u] + Lag
  BY Parts, SMTT(60)
<1>2. /\ get_cur_tick /\ now' = now /\ pending' = pending /\ busy' = busy
      /\ set_timeout(queue', timeout) /\ queue' = Insert(queue, t, timeout)
      /\ init_tick' = init_tick /\ active' = active \cup {t} /\ isr' = isr
      /\ cancelled' = cancelled \ {t}
      /\ isr.pc = "idle" /\ thr[t].pc = "insert" /\ thr' = [thr EXCEPT ![t] = Idle]
      /\ timeout' = timeout /\ due' = due
  BY DEF start_insert, At
<1>3. /\ base' \in Nat /\ last' \in 0 .. Period - 1 /\ readAt' = now
      /\ base' + last' = cur_tick /\ base + last <= cur_tick /\ Lag <= Lag' /\ cur_tick \in Nat
  BY <1>1, <1>2, ReadClock
<1>3b. Lag \in Int /\ Lag' = now - cur_tick
  BY <1>1, <1>2, ReadClock
<1>3a. last' = readAt' % Period /\ base' % Period = 0
  BY <1>1, <1>2, ReadClock
<1>4. /\ now \in Nat /\ timeout \in [Timers -> Nat] /\ due \in [Timers -> Nat]
      /\ queue \in Seq(Timers) /\ base \in Nat
      /\ last \in 0 .. Period - 1 /\ readAt \in 0 .. now
  BY <1>1, Types
<1>5. Idle \in ThrType /\ Idle.pc = "idle"
  BY SMTT(60) DEF ThrType, Pcs, Idle
<1>6. /\ thr' \in [Timers -> ThrType] /\ thr'[t].pc = "idle"
      /\ \A u \in Timers \ {t} : thr'[u] = thr[u]
  BY <1>1, <1>2, <1>5, ThrIs
<1>7. t \notin Elems(queue)
  BY <1>1, <1>2 DEF LocalInv, OutPcs
<1>8. /\ queue' \in Seq(Timers) /\ Elems(queue') = Elems(queue) \cup {t}
      /\ Sorted(queue', timeout) /\ queue' # <<>>
  BY <1>1, <1>2, <1>4, <1>7, InsertProps
<1>9. /\ match' \in 0 .. Period - 1 /\ armedAt' \in Nat
      /\ \/ Clock' + UntilMatch' <= timeout[Head(queue')]
         \/ Clock' + UntilMatch' <= armedAt' + IntervalMin
  BY <1>1, <1>2, <1>4, <1>8, Arming
<1>10. TypeOK'
  <2>1. /\ now \in 0 .. MaxTime /\ pending \in BOOLEAN /\ busy \in 0 .. MaxLatency
        /\ isr \in IsrType /\ active \subseteq Timers /\ cancelled \subseteq Timers
        /\ init_tick \in [Timers -> Nat]
    BY <1>1 DEF TypeOK, IsrType
  <2>2. readAt' \in 0 .. now'
    BY <1>2, <1>3, <1>4, SMTT(60)
  <2>4. QED
    BY <1>2, <1>3, <1>4, <1>6, <1>8, <1>9, <2>1, <2>2 DEF TypeOK, ThrType, IsrType
<1>11. ClockInv'
  BY <1>2, <1>3a DEF ClockInv
<1>12. WakeupArmed'
  BY <1>2, <1>9 DEF WakeupArmed
<1>13. ASSUME NEW u \in Timers PROVE LocalInv(u)'
  <2>1. CASE u = t
    BY <1>2, <1>6, <1>8, <2>1 DEF LocalInv, StopPcs, OutPcs
  <2>2. CASE u # t
    <3>1. LocalSame(u)
      BY <1>2, <1>8, <2>2, SMTT(60) DEF LocalSame
    <3>2. QED
      BY <1>1, <3>1, LocalKept
  <2>3. QED
    BY <2>1, <2>2, SMTT(60)
<1>14. ASSUME NEW u \in Timers, u \in Elems(queue') \/ thr'[u].pc = "insert"
       PROVE  due'[u] <= timeout'[u] + Lag'
  <2>1. due[u] <= timeout[u] + Lag
    BY <1>1, <1>2, <1>8, <1>14, SMTT(60)
  <2>2. due[u] \in Nat /\ timeout[u] \in Nat /\ Lag \in Int /\ Lag' \in Int
    BY <1>3b, <1>4, SMTT(60)
  <2>3. QED
    BY <1>2, <1>3, <2>1, <2>2, SMTT(60)
<1>15. Sorted(queue, timeout)'
  BY <1>2, <1>8
<1>16. QED
  BY <1>10, <1>11, <1>12, <1>13, <1>14, <1>15, Whole, SMTT(60)

-----------------------------------------------------------------------------
(* Time and the interrupt *)

LEMMA TickUntil ==
    ASSUME TypeOK, now' = now + 1, match' = match, (now + 1) % Period # match
    PROVE  UntilMatch \in Int /\ UntilMatch' = UntilMatch - 1
<1> DEFINE c == now % Period
           e == (now + 1) % Period
           d == (match - c) % Period
           f == (match - e) % Period
<1>1. now \in Nat /\ match \in 0 .. Period - 1 /\ Period \in Nat \ {0} /\ now \in Int /\ now + 1 \in Int
  BY Types, SMTT(60)
<1>2. c \in 0 .. Period - 1 /\ e \in 0 .. Period - 1
  BY <1>1, DivMod
<1>3. e = IF c = Period - 1 THEN 0 ELSE c + 1
  BY <1>1, NextCount
<1>4. UntilMatch = IF d = 0 THEN Period ELSE d
  BY DEF UntilMatch, count
<1>5. UntilMatch' = IF f = 0 THEN Period ELSE f
  BY DEF UntilMatch, count
<1>6. e # match
  OBVIOUS
<1> HIDE DEF c, e
<1>7. d = IF match >= c THEN match - c ELSE match - c + Period
  BY <1>1, <1>2, CountDiff
<1>8. f = IF match >= e THEN match - e ELSE match - e + Period
  BY <1>1, <1>2, CountDiff
<1> HIDE DEF d, f
<1>9. /\ (IF d = 0 THEN Period ELSE d) \in Int
      /\ (IF f = 0 THEN Period ELSE f) = (IF d = 0 THEN Period ELSE d) - 1
  BY <1>1, <1>2, <1>3, <1>6, <1>7, <1>8, SMTT(60)
<1>10. QED
  BY <1>4, <1>5, <1>9

LEMMA TimePasses ==
    ASSUME IInv, Tick
    PROVE  IInv'
<1>1. /\ TypeOK /\ Sorted(queue, timeout) /\ ClockInv /\ WakeupArmed
      /\ \A u \in Timers : LocalInv(u)
      /\ \A u \in Timers : u \in Elems(queue) \/ thr[u].pc = "insert" => due[u] <= timeout[u] + Lag
  BY Parts, SMTT(60)
<1>2. /\ match' = match /\ armedAt' = armedAt /\ base' = base /\ last' = last /\ readAt' = readAt
      /\ queue' = queue /\ timeout' = timeout /\ init_tick' = init_tick /\ active' = active
      /\ thr' = thr /\ isr' = isr /\ due' = due /\ cancelled' = cancelled
      /\ now' = now + 1 /\ now < MaxTime
  BY DEF Tick, clockVars, listVars
<1>3. /\ now \in Nat /\ match \in 0 .. Period - 1 /\ base \in Nat /\ last \in 0 .. Period - 1
      /\ readAt \in 0 .. now /\ armedAt \in Nat /\ queue \in Seq(Timers)
      /\ timeout \in [Timers -> Nat]
  BY <1>1, Types
<1>4. TypeOK'
  <2>1. /\ now \in 0 .. MaxTime /\ busy \in 0 .. MaxLatency /\ MaxTime \in Nat /\ MaxLatency \in Nat
    BY <1>1, HrTimerAssumption DEF TypeOK
  <2>2. now' \in 0 .. MaxTime /\ readAt' \in 0 .. now'
    BY <1>2, <1>3, <2>1, SMTT(60)
  <2>3. busy' \in 0 .. MaxLatency
    BY <2>1, SMTT(60) DEF Tick
  <2>4. pending' \in BOOLEAN
    BY DEF Tick
  <2>5. QED
    BY <1>1, <1>2, <2>2, <2>3, <2>4 DEF TypeOK
<1>5. ClockInv' /\ Lag' = Lag
  BY <1>1, <1>2 DEF ClockInv, Lag
<1>6. WakeupArmed'
  <2> SUFFICES ASSUME queue # <<>>, ~pending', isr.pc = "idle"
               PROVE  \/ Clock' + UntilMatch' <= timeout[Head(queue)]
                      \/ Clock' + UntilMatch' <= armedAt + IntervalMin
    BY <1>2 DEF WakeupArmed
  <2>1. ~pending /\ (now + 1) % Period # match
    BY DEF Tick
  <2>2. UntilMatch \in Int /\ UntilMatch' = UntilMatch - 1
    BY <1>1, <1>2, <2>1, TickUntil
  <2>3. Clock \in Int /\ Clock' = Clock + 1
    BY <1>2, <1>3, SMTT(60) DEF Clock
  <2>4. \/ Clock + UntilMatch <= timeout[Head(queue)]
        \/ Clock + UntilMatch <= armedAt + IntervalMin
    BY <1>1, <2>1 DEF WakeupArmed
  <2> DEFINE c == Clock
             u == UntilMatch
  <2> HIDE DEF c, u
  <2>6. QED
    BY <2>2, <2>3, <2>4, SMTT(60) DEF c, u
<1>7. ASSUME NEW u \in Timers PROVE LocalInv(u)'
  BY <1>1, <1>2 DEF LocalInv
<1>8. ASSUME NEW u \in Timers, u \in Elems(queue') \/ thr'[u].pc = "insert"
      PROVE  due'[u] <= timeout'[u] + Lag'
  BY <1>1, <1>2, <1>5, <1>8
<1>9. Sorted(queue, timeout)'
  BY <1>1, <1>2
<1>10. QED
  BY <1>4, <1>5, <1>6, <1>7, <1>8, <1>9, Whole

LEMMA IsrEnter ==
    ASSUME IInv, isr_enter
    PROVE  IInv'
<1>1. /\ TypeOK /\ Sorted(queue, timeout) /\ ClockInv
      /\ \A u \in Timers : LocalInv(u)
      /\ \A u \in Timers : u \in Elems(queue) \/ thr[u].pc = "insert" => due[u] <= timeout[u] + Lag
  BY Parts
<1>2. /\ get_cur_tick /\ now' = now /\ match' = match /\ pending' = FALSE /\ busy' = busy
      /\ armedAt' = armedAt /\ queue' = queue /\ timeout' = timeout /\ init_tick' = init_tick
      /\ active' = active /\ thr' = thr /\ due' = due /\ cancelled' = cancelled
  BY DEF isr_enter, listVars
<1>3. /\ base' \in Nat /\ last' \in 0 .. Period - 1 /\ readAt' = now
      /\ base' + last' = cur_tick /\ base + last <= cur_tick /\ Lag <= Lag' /\ cur_tick \in Nat
  BY <1>1, <1>2, ReadClock
<1>3b. Lag \in Int /\ Lag' = now - cur_tick
  BY <1>1, <1>2, ReadClock
<1>3a. last' = readAt' % Period /\ base' % Period = 0
  BY <1>1, <1>2, ReadClock
<1>4. isr'.pc = "loop" /\ isr'.tick = cur_tick /\ isr' \in IsrType
  BY <1>3 DEF IsrIdle, IsrType, isr_enter
<1>5. /\ due \in [Timers -> Nat] /\ timeout \in [Timers -> Nat] /\ now \in Nat
  BY <1>1, Types
<1>6. TypeOK'
  <2>1. /\ now \in 0 .. MaxTime /\ match \in 0 .. Period - 1 /\ busy \in 0 .. MaxLatency
        /\ armedAt \in Nat /\ active \subseteq Timers /\ cancelled \subseteq Timers
        /\ queue \in Seq(Timers) /\ init_tick \in [Timers -> Nat] /\ thr \in [Timers -> ThrType]
    BY <1>1 DEF TypeOK, ThrType
  <2>2. readAt' \in 0 .. now'
    BY <1>2, <1>3, <1>5, SMTT(60)
  <2>3. isr' \in IsrType /\ pending' \in BOOLEAN
    BY <1>2, <1>4
  <2>4. QED
    BY <1>2, <1>3, <1>5, <2>1, <2>2, <2>3 DEF TypeOK, IsrType, ThrType
<1>7. ClockInv'
  <2>1. isr'.tick <= base' + last'
    <3>1. cur_tick <= cur_tick
      BY <1>3, SMTT(60)
    <3>2. QED
      BY <1>3, <1>4, <3>1
  <2>2. QED
    BY <1>3a, <2>1 DEF ClockInv
<1>8. WakeupArmed'
  BY <1>4 DEF WakeupArmed
<1>9. ASSUME NEW u \in Timers PROVE LocalInv(u)'
  BY <1>1, <1>2 DEF LocalInv
<1>10. ASSUME NEW u \in Timers, u \in Elems(queue') \/ thr'[u].pc = "insert"
       PROVE  due'[u] <= timeout'[u] + Lag'
  <2>1. due[u] <= timeout[u] + Lag
    BY <1>1, <1>2, <1>10
  <2>2. due[u] \in Nat /\ timeout[u] \in Nat /\ Lag' \in Int
    BY <1>3b, <1>5, SMTT(60)
  <2>3. QED
    BY <1>2, <1>3, <1>3b, <2>1, <2>2, SMTT(60)
<1>11. Sorted(queue, timeout)'
  BY <1>1, <1>2
<1>12. QED
  BY <1>6, <1>7, <1>8, <1>9, <1>10, <1>11, Whole, SMTT(60)

LEMMA IsrLeave ==
    ASSUME IInv, isr_leave
    PROVE  IInv'
<1>1. /\ TypeOK /\ Sorted(queue, timeout) /\ ClockInv
      /\ \A u \in Timers : LocalInv(u)
      /\ \A u \in Timers : u \in Elems(queue) \/ thr[u].pc = "insert" => due[u] <= timeout[u] + Lag
  BY Parts, SMTT(60)
<1>2. /\ get_cur_tick /\ now' = now /\ pending' = pending /\ busy' = 0
      /\ set_timeout(queue, timeout) /\ queue' = queue /\ timeout' = timeout
      /\ init_tick' = init_tick /\ active' = active /\ thr' = thr /\ due' = due
      /\ cancelled' = cancelled /\ isr' = IsrIdle
  BY DEF isr_leave, listVars
<1>3. /\ base' \in Nat /\ last' \in 0 .. Period - 1 /\ readAt' = now
      /\ base' + last' = cur_tick /\ base + last <= cur_tick /\ Lag <= Lag' /\ cur_tick \in Nat
  BY <1>1, <1>2, ReadClock
<1>3b. Lag \in Int /\ Lag' = now - cur_tick
  BY <1>1, <1>2, ReadClock
<1>3a. last' = readAt' % Period /\ base' % Period = 0
  BY <1>1, <1>2, ReadClock
<1>4. isr'.pc = "idle" /\ isr' \in IsrType
  BY <1>2 DEF IsrIdle, IsrType
<1>5. /\ due \in [Timers -> Nat] /\ timeout \in [Timers -> Nat] /\ now \in Nat
      /\ queue \in Seq(Timers)
  BY <1>1, Types
<1>6. /\ match' \in 0 .. Period - 1 /\ armedAt' \in Nat
      /\ queue # <<>> => \/ Clock' + UntilMatch' <= timeout[Head(queue)]
                         \/ Clock' + UntilMatch' <= armedAt' + IntervalMin
  BY <1>1, <1>2, <1>5, Arming
<1>7. TypeOK'
  <2>1. busy' \in 0 .. MaxLatency
    BY <1>2, HrTimerAssumption, SMTT(60)
  <2>2. /\ now \in 0 .. MaxTime /\ pending \in BOOLEAN
        /\ active \subseteq Timers /\ cancelled \subseteq Timers
        /\ init_tick \in [Timers -> Nat] /\ thr \in [Timers -> ThrType]
    BY <1>1 DEF TypeOK, ThrType
  <2>3. readAt' \in 0 .. now'
    BY <1>2, <1>3, <1>5, SMTT(60)
  <2>4. isr' \in IsrType
    BY <1>4
  <2>5. QED
    BY <1>2, <1>3, <1>5, <1>6, <2>1, <2>2, <2>3, <2>4 DEF TypeOK, IsrType, ThrType
<1>8. ClockInv'
  BY <1>3a, <1>4 DEF ClockInv
<1>9. WakeupArmed'
  BY <1>2, <1>6 DEF WakeupArmed
<1>10. ASSUME NEW u \in Timers PROVE LocalInv(u)'
  BY <1>1, <1>2 DEF LocalInv
<1>11. ASSUME NEW u \in Timers, u \in Elems(queue') \/ thr'[u].pc = "insert"
       PROVE  due'[u] <= timeout'[u] + Lag'
  <2>1. due[u] <= timeout[u] + Lag
    BY <1>1, <1>2, <1>11
  <2>2. due[u] \in Nat /\ timeout[u] \in Nat /\ Lag' \in Int
    BY <1>3b, <1>5, SMTT(60)
  <2>3. QED
    BY <1>2, <1>3, <1>3b, <2>1, <2>2, SMTT(60)
<1>12. Sorted(queue, timeout)'
  BY <1>1, <1>2
<1>13. QED
  BY <1>7, <1>8, <1>9, <1>10, <1>11, <1>12, Whole, SMTT(60)

\* What hrtimer_check finds when the first timer has expired.
LEMMA FireFacts ==
    ASSUME IInv, isr_fire, NEW t, t = Head(queue)
    PROVE  /\ TypeOK /\ Sorted(queue, timeout) /\ ClockInv
           /\ \A u \in Timers : LocalInv(u)
           /\ \A u \in Timers : u \in Elems(queue) \/ thr[u].pc = "insert"
                                  => due[u] <= timeout[u] + Lag
           /\ t \in Timers /\ t \in Elems(queue) /\ t \in active /\ t \notin cancelled
           /\ thr[t].pc # "clear" /\ thr[t].pc \notin OutPcs
           /\ Tail(queue) \in Seq(Timers) /\ Elems(Tail(queue)) = Elems(queue) \ {t}
           /\ Sorted(Tail(queue), timeout)
           /\ isr \in IsrType /\ isr.tick <= base + last /\ timeout[t] <= isr.tick
           /\ isr' \in IsrType /\ isr'.pc = "again" /\ isr'.tick = isr.tick /\ isr'.timer = t
           /\ thr' = thr
<1>1. /\ TypeOK /\ Sorted(queue, timeout) /\ ClockInv
      /\ \A u \in Timers : LocalInv(u)
      /\ \A u \in Timers : u \in Elems(queue) \/ thr[u].pc = "insert" => due[u] <= timeout[u] + Lag
  BY Parts
<1>2. queue \in Seq(Timers) /\ timeout \in [Timers -> Nat] /\ queue # <<>>
  BY <1>1, Types DEF isr_fire
<1>3. t \in Elems(queue) /\ t \in Timers
  BY <1>2, ElemsOf
<1>4. t \in active /\ t \notin cancelled /\ thr[t].pc # "clear" /\ thr[t].pc \notin OutPcs
  BY <1>1, <1>3 DEF LocalInv
<1>5. /\ Tail(queue) \in Seq(Timers) /\ Elems(Tail(queue)) = Elems(queue) \ {t}
      /\ Sorted(Tail(queue), timeout)
  BY <1>1, <1>2, TailProps
<1>6. isr \in IsrType
  BY <1>1 DEF TypeOK, IsrType
<1>7. isr.pc = "loop" /\ isr' = [isr EXCEPT !.pc = "again", !.timer = t]
  BY DEF isr_fire
<1>8. isr' \in IsrType /\ isr'.pc = "again" /\ isr'.tick = isr.tick /\ isr'.timer = t
  BY <1>3, <1>6, <1>7 DEF IsrType
<1>9. isr.tick <= base + last
  BY <1>1, <1>7 DEF ClockInv
<1>10. timeout[t] <= isr.tick
  <2>1. isr.tick >= timeout[t]
    BY DEF isr_fire
  <2>3. QED
    BY <2>1
<1>11. thr' = thr
  BY DEF isr_fire
<1>12. QED
  BY <1>1, <1>3, <1>4, <1>5, <1>6, <1>8, <1>9, <1>10, <1>11

LEMMA FireOnce ==
    ASSUME IInv, isr_fire, NEW t, t = Head(queue),
           queue' = Tail(queue), active' = active \ {t}, due' = [due EXCEPT ![t] = 0],
           UNCHANGED <<hwVars, clockVars, timeout, init_tick, cancelled>>
    PROVE  IInv'
<1>1. /\ TypeOK /\ Sorted(queue, timeout) /\ ClockInv
      /\ \A u \in Timers : LocalInv(u)
      /\ \A u \in Timers : u \in Elems(queue) \/ thr[u].pc = "insert"
                             => due[u] <= timeout[u] + Lag
  BY FireFacts
<1>2. /\ t \in Timers /\ t \in Elems(queue) /\ t \in active /\ t \notin cancelled
      /\ thr[t].pc # "clear" /\ thr[t].pc \notin OutPcs /\ thr' = thr
  BY FireFacts
<1>3. /\ queue' \in Seq(Timers) /\ Elems(queue') = Elems(queue) \ {t}
      /\ Sorted(queue', timeout)
  BY FireFacts
<1>4. /\ isr.tick <= base + last
      /\ isr' \in IsrType /\ isr'.pc = "again" /\ isr'.tick = isr.tick
  BY FireFacts
<1>5. /\ now' = now /\ match' = match /\ pending' = pending /\ busy' = busy /\ armedAt' = armedAt
      /\ base' = base /\ last' = last /\ readAt' = readAt /\ timeout' = timeout
      /\ init_tick' = init_tick /\ cancelled' = cancelled
  BY DEF hwVars, clockVars
<1>7. TypeOK'
  BY <1>1, <1>2, <1>3, <1>4, <1>5 DEF TypeOK, IsrType
<1>8. ClockInv' /\ Lag' = Lag
  BY <1>1, <1>4, <1>5 DEF ClockInv, Lag
<1>9. WakeupArmed'
  BY <1>4 DEF WakeupArmed
<1>10. ASSUME NEW u \in Timers PROVE LocalInv(u)'
  <2>1. CASE u = t
    <3>1. u \notin Elems(queue') /\ u \notin active' /\ thr'[u].pc \notin OutPcs
      BY <1>2, <1>3, <2>1
    <3>2. thr'[u].pc \in StopPcs => u \notin Periodic
      BY <1>1, <1>2 DEF LocalInv
    <3>3. QED
      BY <3>1, <3>2 DEF LocalInv
  <2>2. CASE u # t
    <3>1. LocalSame(u)
      BY <1>2, <1>3, <2>2 DEF LocalSame
    <3>2. QED
      BY <1>1, <3>1, LocalKept
  <2>3. QED
    BY <2>1, <2>2
<1>11. ASSUME NEW u \in Timers, u \in Elems(queue') \/ thr'[u].pc = "insert"
       PROVE  due'[u] <= timeout'[u] + Lag'
  <2>1. u # t
    BY <1>2, <1>3, <1>11 DEF OutPcs
  <2>2. due[u] <= timeout[u] + Lag
    BY <1>1, <1>2, <1>3, <1>11
  <2>3. QED
    BY <1>8, <2>1, <2>2, SMTT(60)
<1>12. Sorted(queue, timeout)'
  BY <1>3
<1>13. QED
  BY <1>7, <1>8, <1>9, <1>10, <1>11, <1>12, Whole

LEMMA FireAgain ==
    ASSUME IInv, isr_fire, NEW t, t = Head(queue), NEW d \in Delays,
           get_cur_tick, timeout' = [timeout EXCEPT ![t] = cur_tick + d],
           init_tick' = [init_tick EXCEPT ![t] = d], due' = [due EXCEPT ![t] = now + d],
           queue' = Insert(Tail(queue), t, timeout'), set_timeout(queue', timeout'),
           UNCHANGED <<now, pending, busy, active, cancelled>>
    PROVE  IInv'
<1>1. /\ TypeOK /\ Sorted(queue, timeout) /\ ClockInv
      /\ \A u \in Timers : LocalInv(u)
      /\ \A u \in Timers : u \in Elems(queue) \/ thr[u].pc = "insert"
                             => due[u] <= timeout[u] + Lag
  BY FireFacts
<1>2. /\ t \in Timers /\ t \in Elems(queue) /\ t \in active /\ t \notin cancelled
      /\ thr[t].pc # "clear" /\ thr[t].pc \notin OutPcs /\ thr' = thr
  BY FireFacts
<1>3. /\ base' \in Nat /\ last' \in 0 .. Period - 1 /\ readAt' = now
      /\ base' + last' = cur_tick /\ base + last <= cur_tick /\ Lag <= Lag' /\ cur_tick \in Nat
  BY <1>1, ReadClock
<1>3b. Lag \in Int /\ Lag' = now - cur_tick
  BY <1>1, ReadClock
<1>3a. last' = readAt' % Period /\ base' % Period = 0
  BY <1>1, ReadClock
<1>4. /\ now \in Nat /\ timeout \in [Timers -> Nat] /\ due \in [Timers -> Nat]
      /\ init_tick \in [Timers -> Nat] /\ base \in Nat /\ last \in 0 .. Period - 1
      /\ d \in Nat
  BY <1>1, Types, HrTimerAssumption
<1>5. /\ timeout' \in [Timers -> Nat] /\ timeout'[t] = cur_tick + d
      /\ \A u \in Timers \ {t} : timeout'[u] = timeout[u]
  BY <1>2, <1>3, <1>4, SMTT(60)
<1>6. /\ due' \in [Timers -> Nat] /\ due'[t] = now + d
      /\ \A u \in Timers \ {t} : due'[u] = due[u]
  BY <1>2, <1>4, SMTT(60)
<1>7. /\ queue' \in Seq(Timers) /\ Elems(queue') = Elems(queue)
      /\ Sorted(queue', timeout')
  <2> DEFINE q == Tail(queue)
  <2>1. q \in Seq(Timers) /\ Elems(q) = Elems(queue) \ {t} /\ Sorted(q, timeout)
    BY FireFacts
  <2> HIDE DEF q
  <2>2. \A u \in Elems(q) : timeout'[u] = timeout[u]
    BY <2>1, SMTT(60)
  <2>3. Sorted(q, timeout') /\ t \notin Elems(q)
    BY <2>1, <2>2, SortedSame
  <2>4. /\ Insert(q, t, timeout') \in Seq(Timers)
        /\ Elems(Insert(q, t, timeout')) = Elems(q) \cup {t}
        /\ Sorted(Insert(q, t, timeout'), timeout')
    <3>1. timeout' \in [Timers -> Nat] /\ q \in Seq(Timers) /\ t \in Timers
      BY <1>5, <2>1, SMTT(60)
    <3>2. QED
      BY <2>3, <3>1, InsertProps
  <2>5. queue' = Insert(q, t, timeout')
    BY DEF q
  <2>6. QED
    BY <1>2, <2>1, <2>4, <2>5
<1>8. match' \in 0 .. Period - 1 /\ armedAt' \in Nat
  BY <1>1, <1>5, <1>7, Arming
<1>9. /\ isr.tick <= base + last /\ isr \in IsrType
      /\ isr' \in IsrType /\ isr'.pc = "again" /\ isr'.tick = isr.tick
  BY FireFacts
<1>10. TypeOK'
  <2>1. /\ now \in 0 .. MaxTime /\ pending \in BOOLEAN /\ busy \in 0 .. MaxLatency
        /\ active \subseteq Timers /\ cancelled \subseteq Timers /\ thr \in [Timers -> ThrType]
    BY <1>1 DEF TypeOK, ThrType
  <2>2. readAt' \in 0 .. now'
    BY <1>3, <1>4, SMTT(60)
  <2>3. init_tick' \in [Timers -> Nat]
    BY <1>4
  <2>4. isr' \in IsrType /\ thr' = thr
    BY <1>2, <1>9
  <2>5. QED
    BY <1>3, <1>5, <1>6, <1>7, <1>8, <2>1, <2>2, <2>3, <2>4 DEF TypeOK, ThrType, IsrType
<1>11. ClockInv'
  <2>1. isr.tick \in Nat
    BY <1>9 DEF IsrType
  <2> DEFINE k == isr.tick
  <2>1a. k \in Nat /\ k <= base + last
    BY <1>9, <2>1
  <2> HIDE DEF k
  <2>1b. k <= base' + last'
    <3> DEFINE b == base + last
               c == base' + last'
    <3>1. b \in Int /\ c \in Int
      BY <1>3, <1>4, SMTT(60)
    <3>2. k <= b /\ b <= c
      BY <1>3, <2>1a
    <3> HIDE DEF b, c
    <3>3. k <= c
      BY <2>1a, <3>1, <3>2, SMTT(60)
    <3>4. QED
      BY <3>3 DEF c
  <2>2. isr.tick <= base' + last'
    BY <2>1b DEF k
  <2>3. isr'.tick <= base' + last'
    BY <1>9, <2>2
  <2>4. QED
    BY <1>3a, <2>3 DEF ClockInv
<1>12. WakeupArmed'
  BY <1>9 DEF WakeupArmed
<1>13. ASSUME NEW u \in Timers PROVE LocalInv(u)'
  <2>1. LocalSame(u)
    BY <1>2, <1>7 DEF LocalSame
  <2>2. QED
    BY <1>1, <2>1, LocalKept
<1>14. ASSUME NEW u \in Timers, u \in Elems(queue') \/ thr'[u].pc = "insert"
       PROVE  due'[u] <= timeout'[u] + Lag'
  <2>1. CASE u = t
    BY <1>3, <1>3b, <1>4, <2>1, SMTT(60)
  <2>2. CASE u # t
    <3>1. due[u] <= timeout[u] + Lag /\ due[u] \in Nat /\ timeout[u] \in Nat
      BY <1>1, <1>2, <1>4, <1>7, <1>14
    <3>3. QED
      BY <1>3, <1>3b, <2>2, <3>1, SMTT(60)
  <2>3. QED
    BY <2>1, <2>2
<1>15. Sorted(queue, timeout)'
  BY <1>7
<1>16. QED
  BY <1>10, <1>11, <1>12, <1>13, <1>14, <1>15, Whole

LEMMA IsrFire ==
    ASSUME IInv, isr_fire
    PROVE  IInv'
<1> DEFINE t == Head(queue)
<1>1. CASE /\ queue' = Tail(queue)
           /\ active' = active \ {t}
           /\ due' = [due EXCEPT ![t] = 0]
           /\ UNCHANGED <<hwVars, clockVars, timeout, init_tick, cancelled>>
  BY <1>1, FireOnce
<1>2. ASSUME NEW d \in Delays,
             /\ get_cur_tick
             /\ timeout' = [timeout EXCEPT ![t] = cur_tick + d]
             /\ init_tick' = [init_tick EXCEPT ![t] = d]
             /\ due' = [due EXCEPT ![t] = now + d]
             /\ queue' = Insert(Tail(queue), t, timeout')
             /\ set_timeout(queue', timeout')
             /\ UNCHANGED <<now, pending, busy, active, cancelled>>
      PROVE  IInv'
  BY <1>2, FireAgain
<1>3. QED
  BY <1>1, <1>2 DEF isr_fire

LEMMA IsrAgain ==
    ASSUME IInv, isr_again
    PROVE  IInv'
<1> DEFINE t == isr.timer
<1>1. /\ TypeOK /\ Sorted(queue, timeout) /\ ClockInv
      /\ \A u \in Timers : LocalInv(u)
      /\ \A u \in Timers : u \in Elems(queue) \/ thr[u].pc = "insert" => due[u] <= timeout[u] + Lag
  BY Parts, SMTT(60)
<1>2. /\ get_cur_tick /\ now' = now /\ match' = match /\ pending' = pending /\ busy' = busy
      /\ armedAt' = armedAt /\ init_tick' = init_tick /\ active' = active /\ thr' = thr
      /\ cancelled' = cancelled
  BY DEF isr_again, hwVars
<1>3. /\ base' \in Nat /\ last' \in 0 .. Period - 1 /\ readAt' = now
      /\ base' + last' = cur_tick /\ base + last <= cur_tick /\ Lag <= Lag' /\ cur_tick \in Nat
  BY <1>1, <1>2, ReadClock
<1>3b. Lag \in Int /\ Lag' = now - cur_tick
  BY <1>1, <1>2, ReadClock
<1>3a. last' = readAt' % Period /\ base' % Period = 0
  BY <1>1, <1>2, ReadClock
<1>4. /\ now \in Nat /\ timeout \in [Timers -> Nat] /\ due \in [Timers -> Nat]
      /\ init_tick \in [Timers -> Nat] /\ queue \in Seq(Timers)
      /\ base \in Nat /\ last \in 0 .. Period - 1
  BY <1>1, Types
<1>5. isr'.pc = "loop" /\ isr'.tick = cur_tick /\ isr' \in IsrType
  <2>1. isr \in IsrType
    BY <1>1 DEF TypeOK, IsrType
  <2>2. isr' = [isr EXCEPT !.pc = "loop", !.tick = cur_tick]
    BY DEF isr_again
  <2>3. QED
    BY <1>3, <2>1, <2>2 DEF IsrType
\* The list holds the same timers, and only t's deadline may have changed.
<1>6. /\ queue' \in Seq(Timers) /\ Elems(queue') = Elems(queue) /\ Sorted(queue', timeout')
      /\ timeout' \in [Timers -> Nat] /\ due' \in [Timers -> Nat]
      /\ \A u \in Timers : \/ timeout'[u] = timeout[u] /\ due'[u] = due[u]
                           \/ /\ timeout'[u] = cur_tick + init_tick[u]
                              /\ due'[u] = now + init_tick[u]
  <2>1. CASE t \in Periodic /\ t \in active
    <3>1. /\ timeout' = [timeout EXCEPT ![t] = cur_tick + init_tick[t]]
          /\ queue' = Insert(Without(queue, t), t, timeout')
          /\ due' = [due EXCEPT ![t] = now + init_tick[t]]
      BY <2>1 DEF isr_again
    <3>2. t \in Timers
      BY <2>1, HrTimerAssumption
    <3> HIDE DEF t
    <3>3. t \in Elems(queue)
      BY <1>1, <2>1, <3>2 DEF LocalInv, StopPcs
    <3>4. /\ timeout' \in [Timers -> Nat] /\ timeout'[t] = cur_tick + init_tick[t]
          /\ \A u \in Timers \ {t} : timeout'[u] = timeout[u]
      BY <1>3, <1>4, <3>1, <3>2, SMTT(60)
    <3>5. /\ due' \in [Timers -> Nat] /\ due'[t] = now + init_tick[t]
          /\ \A u \in Timers \ {t} : due'[u] = due[u]
      BY <1>4, <3>1, <3>2, SMTT(60)
    <3> DEFINE q == Without(queue, t)
    <3>6. q \in Seq(Timers) /\ Elems(q) = Elems(queue) \ {t} /\ Sorted(q, timeout)
      BY <1>1, <1>4, <3>2, WithoutProps
    <3>7. queue' = Insert(q, t, timeout')
      BY <3>1
    <3> HIDE DEF q
    <3>8. \A u \in Elems(q) : timeout'[u] = timeout[u]
      BY <3>4, <3>6, ElemsOf
    <3>9. Sorted(q, timeout') /\ t \notin Elems(q)
      BY <3>6, <3>8, SortedSame
    <3>10. /\ Insert(q, t, timeout') \in Seq(Timers)
           /\ Elems(Insert(q, t, timeout')) = Elems(q) \cup {t}
           /\ Sorted(Insert(q, t, timeout'), timeout')
      BY <3>2, <3>4, <3>6, <3>9, InsertProps
    <3>11. queue' \in Seq(Timers) /\ Elems(queue') = Elems(queue) /\ Sorted(queue', timeout')
      BY <3>3, <3>6, <3>7, <3>10
    <3>12. QED
      BY <3>4, <3>5, <3>11
  <2>2. CASE ~(t \in Periodic /\ t \in active)
    <3>1. timeout' = timeout /\ queue' = queue /\ due' = due
      BY <2>2 DEF isr_again
    <3>2. QED
      BY <1>1, <1>4, <3>1
  <2>3. QED
    BY <2>1, <2>2
<1> HIDE DEF t
<1>7. TypeOK'
  <2>1. /\ now \in 0 .. MaxTime /\ pending \in BOOLEAN /\ busy \in 0 .. MaxLatency
        /\ match \in 0 .. Period - 1 /\ armedAt \in Nat
        /\ active \subseteq Timers /\ cancelled \subseteq Timers /\ thr \in [Timers -> ThrType]
    BY <1>1 DEF TypeOK, ThrType
  <2>2. readAt' \in 0 .. now'
    BY <1>2, <1>3, <1>4, SMTT(60)
  <2>3. isr' \in IsrType
    BY <1>5
  <2>4. queue' \in Seq(Timers) /\ timeout' \in [Timers -> Nat] /\ due' \in [Timers -> Nat]
    BY <1>6
  <2>5. QED
    BY <1>2, <1>3, <1>4, <2>1, <2>2, <2>3, <2>4 DEF TypeOK, ThrType, IsrType
<1>8. ClockInv'
  <2>1. isr'.tick <= base' + last'
    <3>1. cur_tick <= cur_tick
      BY <1>3, SMTT(60)
    <3>2. QED
      BY <1>3, <1>5, <3>1
  <2>2. QED
    BY <1>3a, <2>1, SMTT(60) DEF ClockInv
<1>9. WakeupArmed'
  BY <1>5, SMTT(60) DEF WakeupArmed
<1>10. ASSUME NEW u \in Timers PROVE LocalInv(u)'
  <2>1. LocalSame(u)
    BY <1>2, <1>6 DEF LocalSame
  <2>2. QED
    BY <1>1, <2>1, LocalKept
<1>11. ASSUME NEW u \in Timers, u \in Elems(queue') \/ thr'[u].pc = "insert"
       PROVE  due'[u] <= timeout'[u] + Lag'
  <2>1. CASE timeout'[u] = cur_tick + init_tick[u] /\ due'[u] = now + init_tick[u]
    BY <1>3, <1>3b, <1>4, <2>1, SMTT(60)
  <2>2. CASE timeout'[u] = timeout[u] /\ due'[u] = due[u]
    <3>0. u \in Elems(queue) \/ thr[u].pc = "insert"
      BY <1>2, <1>6, <1>11
    <3>0a. due[u] \in Nat /\ timeout[u] \in Nat
      BY <1>4
    <3>1. due[u] <= timeout[u] + Lag /\ due[u] \in Nat /\ timeout[u] \in Nat
      BY <1>1, <3>0, <3>0a
    <3>3. QED
      BY <1>3, <1>3b, <2>2, <3>1, SMTT(60)
  <2>3. QED
    BY <1>6, <2>1, <2>2
<1>12. Sorted(queue, timeout)'
  BY <1>6
<1>13. QED
  BY <1>7, <1>8, <1>9, <1>10, <1>11, <1>12, Whole, SMTT(60)

-----------------------------------------------------------------------------
(* Theorems *)

LEMMA InitInv == Init => IInv
<1> SUFFICES ASSUME Init PROVE IInv
  OBVIOUS
<1>1. /\ now = 0 /\ match = IntervalMax /\ pending = FALSE /\ busy = 0 /\ base = 0 /\ last = 0
      /\ queue = <<>> /\ timeout = [t \in Timers |-> 0] /\ init_tick = [t \in Timers |-> 0]
      /\ active = {} /\ thr = [t \in Timers |-> Idle] /\ isr = IsrIdle /\ readAt = 0
      /\ due = [t \in Timers |-> 0] /\ armedAt = 0 /\ cancelled = {}
  BY DEF Init
<1>2. Elems(queue) = {} /\ Queued = {}
  BY <1>1, QueuedIs, SMTT(60) DEF Elems
<1>3. TypeOK
  <2>1. match \in 0 .. Period - 1 /\ 0 \in 0 .. Period - 1 /\ 0 \in 0 .. MaxTime /\ 0 \in 0 .. MaxLatency
    BY <1>1, HrTimerAssumption, SMTT(60)
  <2>2. thr \in [Timers -> ThrType]
    BY <1>1 DEF ThrType, Idle, Pcs
  <2>3. isr \in IsrType
    BY <1>1 DEF IsrIdle, IsrType
  <2>5. pending \in BOOLEAN
    BY <1>1
  <2>7. QED
    BY <1>1, <2>1, <2>2, <2>3, <2>5, SMTT(60) DEF TypeOK, ThrType, IsrType
<1>4. \A t \in Timers : thr[t].pc = "idle"
  BY <1>1 DEF Idle
<1>5. ListSorted
  BY <1>1, SMTT(60) DEF ListSorted
<1>6. FlagTellsQueued /\ CancelledStaysOut /\ ThreadInv
  <2>1. \A t \in Timers : LocalInv(t)
    BY <1>1, <1>2, <1>4 DEF LocalInv, StopPcs, OutPcs
  <2>2. cancelled \subseteq Timers
    BY <1>1
  <2>3. QED
    BY <2>1, <2>2, LocalIs
<1>7. ClockInv
  <2>1. isr.pc = "idle"
    BY <1>1 DEF IsrIdle
  <2>2. 0 % Period = 0
    BY HrTimerAssumption, SMTT(60)
  <2>3. QED
    BY <1>1, <2>1, <2>2 DEF ClockInv
<1>8. DueInv
  BY <1>2, <1>4 DEF DueInv
<1>9. WakeupArmed
  BY <1>1 DEF WakeupArmed
<1>10. QED
  BY <1>3, <1>5, <1>6, <1>7, <1>8, <1>9 DEF IInv

LEMMA StepInv == IInv /\ [Next]_vars => IInv'
<1> SUFFICES ASSUME IInv, [Next]_vars PROVE IInv'
  OBVIOUS
<1>1. CASE Tick
  BY <1>1, TimePasses
<1>2. ASSUME NEW t \in Timers, ThreadStep(t) PROVE IInv'
  <2>1. ASSUME NEW d \in Delays, hrt_call_after(t, d) \/ hrtimer_start(t, d) PROVE IInv'
    BY <2>1, CallAfter, StartCreated
  <2>2. CASE hrt_cancel(t)
    BY <2>2, Cancel
  <2>3. CASE stop_test(t)
    BY <2>3, StopTest, SMTT(60)
  <2>4. CASE stop_remove(t)
    BY <2>4, StopRemove, SMTT(60)
  <2>5. CASE stop_clear(t)
    BY <2>5, StopClear, SMTT(60)
  <2>6. CASE cancel_zero(t)
    BY <2>6, CancelZero, SMTT(60)
  <2>7. CASE init(t)
    BY <2>7, InitTimer, SMTT(60)
  <2>8. CASE start_unlink(t)
    BY <2>8, StartUnlink, SMTT(60)
  <2>9. CASE start_read(t)
    BY <2>9, StartRead, SMTT(60)
  <2>10. CASE start_insert(t)
    BY <2>10, StartInsert, SMTT(60)
  <2>11. QED
    BY <1>2, <2>1, <2>2, <2>3, <2>4, <2>5, <2>6, <2>7, <2>8, <2>9, <2>10, SMTT(60) DEF ThreadStep
<1>3. CASE hrtimer_get_tick
  BY <1>3, GetTick, SMTT(60)
<1>4. CASE isr_enter
  BY <1>4, IsrEnter, SMTT(60)
<1>5. CASE isr_fire
  BY <1>5, IsrFire, SMTT(60)
<1>6. CASE isr_again
  BY <1>6, IsrAgain, SMTT(60)
<1>7. CASE isr_leave
  BY <1>7, IsrLeave, SMTT(60)
<1>8. CASE UNCHANGED vars
  <2>1. Queued' = Queued
    BY <1>8 DEF vars, Queued
  <2>2. TypeOK' /\ ListSorted'
    BY <1>8, SMTT(60) DEF vars, IInv, TypeOK, ListSorted
  <2>3. FlagTellsQueued' /\ CancelledStaysOut' /\ ThreadInv'
    BY <1>8, <2>1 DEF vars, IInv, FlagTellsQueued, CancelledStaysOut, ThreadInv
  <2>4. ClockInv' /\ DueInv'
    BY <1>8, <2>1 DEF vars, IInv, ClockInv, DueInv, Lag
  <2>5. WakeupArmed'
    <3>1. UntilMatch' = UntilMatch /\ Clock' = Clock
      BY <1>8 DEF vars, UntilMatch, Clock, count
    <3>2. QED
      BY <1>8, <3>1 DEF vars, IInv, WakeupArmed
  <2>6. QED
    BY <2>2, <2>3, <2>4, <2>5 DEF IInv
<1>9. QED
  BY <1>1, <1>2, <1>3, <1>4, <1>5, <1>6, <1>7, <1>8 DEF Next

\* The timers' invariant holds for every number of timers and every period.
THEOREM Invariance == Spec => []IInv
BY InitInv, StepInv, PTL DEF Spec

\* The variables keep their types.
THEOREM TypeCorrect == Spec => []TypeOK
<1>1. IInv => TypeOK
  BY DEF IInv
<1>2. QED
  BY Invariance, <1>1, PTL

\* hr_timer.c: hrtimer_list stays sorted and holds no timer twice, although
\* _hrtimer_start computes the deadline with interrupts enabled.
THEOREM SortedList == Spec => []ListSorted
<1>1. IInv => ListSorted
  BY DEF IInv
<1>2. QED
  BY Invariance, <1>1, PTL

\* hr_timer.c: RT_TIMER_FLAG_ACTIVATED tells whether a timer is in the list,
\* except between the two halves of its own hrtimer_stop.
THEOREM FlagSound == Spec => []FlagTellsQueued
<1>1. IInv => FlagTellsQueued
  BY DEF IInv
<1>2. QED
  BY Invariance, <1>1, PTL

\* drv_hrt.c: a call whose hrt_cancel has returned is not in the list until
\* hrt_call_after puts it there again.
THEOREM CancelSound == Spec => []CancelledStaysOut
<1>1. IInv => CancelledStaysOut
  BY DEF IInv
<1>2. QED
  BY Invariance, <1>1, PTL

\* drv_hrtimer.c, set_timeout: with a timer in the list, the match interrupt is
\* raised, running or due no later than the first deadline.
THEOREM NoTimerForgotten == Spec => []WakeupArmed
<1>1. IInv => WakeupArmed
  BY DEF IInv
<1>2. QED
  BY Invariance, <1>1, PTL

LEMMA FiresLate ==
    ASSUME IInv, isr_fire, NEW t, t = Head(queue)
    PROVE  due[t] <= now
<1>1. /\ TypeOK /\ t \in Timers /\ due[t] <= timeout[t] + Lag
      /\ isr.tick <= base + last /\ timeout[t] <= isr.tick /\ isr \in IsrType
  BY FireFacts
<1>2. /\ now \in Nat /\ timeout \in [Timers -> Nat] /\ due \in [Timers -> Nat]
      /\ base \in Nat /\ last \in 0 .. Period - 1 /\ readAt \in 0 .. now
  BY <1>1, Types
<1>3. isr.tick \in Nat
  BY <1>1 DEF IsrType
<1> DEFINE k == isr.tick
           a == timeout[t]
           b == due[t]
<1>4. /\ k \in Nat /\ a \in Nat /\ b \in Nat /\ k <= base + last /\ a <= k
      /\ b <= a + (readAt - (base + last))
  BY <1>1, <1>2, <1>3 DEF Lag
<1> HIDE DEF k, a, b
<1>5. b <= now
  BY <1>2, <1>4, SMTT(60)
<1>6. QED
  BY <1>5 DEF b

\* drv_hrt.h: a callback never runs before its delay has passed in true time,
\* whatever the readings of the clock and however late the interrupt.
THEOREM NeverEarly == Spec => NotEarly
<1>1. IInv /\ [Next]_vars =>
        [\A t \in Timers : isr.pc = "loop" /\ isr'.pc = "again" /\ isr'.timer = t => now >= due[t]]_vars
  <2> SUFFICES ASSUME IInv, Next, NEW t \in Timers,
                      isr.pc = "loop", isr'.pc = "again", isr'.timer = t
               PROVE  now >= due[t]
    OBVIOUS
  <2>1. isr_fire
    <3>2. ~ (isr_enter \/ isr_again \/ isr_leave)
      BY SMTT(60) DEF isr_enter, isr_again, isr_leave, IsrIdle
    <3>3. ~ Tick /\ ~ hrtimer_get_tick
      BY DEF Tick, hrtimer_get_tick
    <3>4. ASSUME NEW u \in Timers PROVE ~ ThreadStep(u)
      BY DEF ThreadStep, hrt_call_after, hrt_cancel, hrtimer_start, stop_test, stop_remove,
         stop_clear, cancel_zero, init, start_unlink, start_read, start_insert, ThreadOnly
    <3>5. QED
      BY <3>2, <3>3, <3>4 DEF Next
  <2>2. isr'.timer = Head(queue)
    BY <2>1, FireFacts
  <2>3. due[t] <= now /\ due[t] \in Nat /\ now \in Nat
    BY <2>1, <2>2, FiresLate, Types DEF IInv
  <2>4. QED
    BY <2>3
<1>2. QED
  BY Invariance, <1>1, PTL DEF Spec, NotEarly

-----------------------------------------------------------------------------
(* The clock is exact *)

\* A thread reads the clock often enough.
GapInv == ClockExact /\ now - readAt <= ReadGap

\* Every step reads the clock, leaves it alone, or is the passing of time.
LEMMA ClockSteps ==
    ASSUME Next
    PROVE  \/ get_cur_tick /\ now' = now
           \/ base' = base /\ last' = last /\ readAt' = readAt /\ now' = now
           \/ Tick
<1>1. ASSUME NEW t \in Timers, ThreadStep(t)
      PROVE  \/ get_cur_tick /\ now' = now
             \/ base' = base /\ last' = last /\ readAt' = readAt /\ now' = now
  BY <1>1 DEF ThreadStep, hrt_call_after, hrt_cancel, hrtimer_start, stop_test, stop_remove,
       stop_clear, cancel_zero, init, start_unlink, start_read, start_insert, ThreadOnly,
       clockVars, hwVars
<1>2. CASE hrtimer_get_tick \/ isr_enter \/ isr_again \/ isr_leave
  BY <1>2 DEF hrtimer_get_tick, isr_enter, isr_again, isr_leave, hwVars
<1>3. CASE isr_fire
  BY <1>3 DEF isr_fire, hwVars, clockVars
<1>4. QED
  BY <1>1, <1>2, <1>3 DEF Next

LEMMA ReadExact ==
    ASSUME TypeOK, ClockInv, ClockExact, now - readAt < Period, get_cur_tick, now' = now
    PROVE  ClockExact' /\ cur_tick = now /\ readAt' = now
<1>1. base' + last' = cur_tick /\ cur_tick = Clock /\ readAt' = now
  BY ReadClock
<1>2. now \in Nat /\ base \in Nat /\ last \in 0 .. Period - 1 /\ readAt \in 0 .. now
  BY Types
<1>3. Clock = now
  BY <1>2, SMTT(60) DEF Clock, ClockExact
<1>4. QED
  BY <1>1, <1>3 DEF ClockExact

\* drv_hrtimer.c, get_cur_tick: every reading is the true time when some thread
\* reads the clock more often than the counter turns (the timer thread of
\* AP_HAL_PX4's scheduler reads it every millisecond, a turn takes 65).
THEOREM ClockExactByReaders ==
    ASSUME ReadGap < Period
    PROVE  Spec => []ClockExact
<1>1. Init => GapInv
  BY HrTimerAssumption, SMTT(60) DEF Init, GapInv, ClockExact
<1>2. IInv /\ GapInv /\ [Next]_vars => GapInv'
  <2> SUFFICES ASSUME IInv, GapInv, [Next]_vars PROVE GapInv'
    OBVIOUS
  <2>1. /\ now \in Nat /\ readAt \in 0 .. now /\ ReadGap \in Nat /\ Period \in Nat
        /\ TypeOK /\ ClockInv
    BY Types, HrTimerAssumption DEF IInv
  <2>2. CASE get_cur_tick /\ now' = now
    <3>2. ClockExact' /\ readAt' = now
      BY <2>1, <2>2, ReadExact, SMTT(60) DEF GapInv
    <3>3. QED
      BY <2>1, <2>2, <3>2, SMTT(60) DEF GapInv
  <2>3. CASE base' = base /\ last' = last /\ readAt' = readAt /\ now' = now
    BY <2>3 DEF GapInv, ClockExact
  <2>4. CASE Tick
    BY <2>1, <2>4, SMTT(60) DEF GapInv, ClockExact, Tick, clockVars
  <2>5. CASE UNCHANGED vars
    BY <2>5 DEF GapInv, ClockExact, vars
  <2>6. QED
    BY <2>2, <2>3, <2>4, <2>5, ClockSteps
<1>3. GapInv => ClockExact
  BY DEF GapInv
<1>4. QED
  BY Invariance, <1>1, <1>2, <1>3, PTL DEF Spec
=============================================================================
