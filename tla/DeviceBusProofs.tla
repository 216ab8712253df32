--------------------------- MODULE DeviceBusProofs ---------------------------
(***************************************************************************)
(* Proofs about DeviceBus, for every set of callbacks, periods, delays and *)
(* priorities, and every interleaving of the two threads.                  *)
(***************************************************************************)
EXTENDS DeviceBus, WellFoundedInduction, TLAPS

\* A leaf that names no prover is Zenon's.
USE ZenonT(30)

-----------------------------------------------------------------------------
(* The inductive invariant *)

InCallback == {"callback", "sample", "publish", "published", "give"}

\* The list: no callback is linked twice, and the bus thread is in a callback of
\* it.
ListInv ==
    /\ main \in Callbacks => main \notin Listed
    /\ bus.pc \in InCallback => bus.i > 0

Threads == {"bus", "main"}
Other(t) == IF t = "bus" THEN "main" ELSE "bus"

\* Where a thread owns a mutex or waits for it.
Uses(t, m) ==
    IF t = "main" THEN main = m
    ELSE IF m = "_sem" THEN bus.pc = "publish"
    ELSE bus.pc \in InCallback

\* Where the bus thread has just asked for it.
Asked(m) == bus.pc = IF m = "_sem" THEN "publish" ELSE "callback"

\* A mutex that t took at priority p, with the threads of q waiting.
Taken(t, p, q) ==
    [value |-> 0, owner |-> t, hold |-> 1, original_priority |-> p, suspend_thread |-> q]

\* A mutex is as the two threads' program counters say.
Good(m) ==
    LET x == mutex[m] IN
    \/ x = rt_mutex_init /\ \A t \in Threads : ~Uses(t, m)
    \/ /\ x.owner \in Threads /\ x.original_priority \in Nat
       /\ x = Taken(x.owner, x.original_priority, x.suspend_thread)
       /\ Uses(x.owner, m)
       /\ \/ x.suspend_thread = <<>> /\ ~Uses(Other(x.owner), m)
          \/ /\ x.suspend_thread = <<Other(x.owner)>> /\ Uses(Other(x.owner), m)
             /\ x.owner = "main" => Asked(m)

MutexInv == DOMAIN mutex = Mutexes /\ \A m \in Mutexes : Good(m)

Higher == IF busPrio < MainPrio THEN busPrio ELSE MainPrio
WaitsFor(t, m) == mutex[m].suspend_thread = <<t>>

\* Every priority is a thread's own or the higher of the two, as the mutexes say.
PrioInv ==
    /\ \A m \in Mutexes : mutex[m].owner = "main" => mutex[m].original_priority = MainPrio
    /\ mutex["semaphore"].owner = "bus" => mutex["semaphore"].original_priority = busPrio
    /\ mutex["_sem"].owner = "bus" =>
         \/ mutex["_sem"].original_priority = busPrio
         \/ mutex["_sem"].original_priority = Higher /\ WaitsFor("main", "semaphore")
    /\ prio["main"] = IF \E m \in Mutexes : WaitsFor("bus", m) THEN Higher ELSE MainPrio
    /\ \/ prio["bus"] = IF \E m \in Mutexes : WaitsFor("main", m) THEN Higher ELSE busPrio
       \/ prio["bus"] = busPrio /\ bus.pc = "published"

IInv == TypeOK /\ ListInv /\ MutexInv /\ PrioInv /\ PhaseKept /\ WakesInTime

-----------------------------------------------------------------------------
(* The mutex in the four situations the two threads can bring it into *)

LEMMA TakeFree ==
    ASSUME NEW t, NEW pr
    PROVE  /\ rt_mutex_take(rt_mutex_init, t, pr) = Taken(t, pr[t], <<>>)
           /\ take_prio(rt_mutex_init, t, pr) = pr
<1> DEFINE x == rt_mutex_init
<1>1. /\ x.value = 1 /\ x.hold = 0 /\ x.suspend_thread = <<>>
      /\ x = [value |-> 1, owner |-> NoThread, hold |-> 0, original_priority |-> NoPriority,
              suspend_thread |-> <<>>]
  BY DEF rt_mutex_init
<1> HIDE DEF x
<1>2. rt_mutex_take(x, t, pr) = [x EXCEPT !.value = 0, !.owner = t, !.hold = 1,
                                          !.original_priority = pr[t]]
  BY <1>1, SMTT(60) DEF rt_mutex_take
<1>3. rt_mutex_take(x, t, pr) = Taken(t, pr[t], <<>>)
  BY <1>1, <1>2 DEF Taken
<1>4. take_prio(x, t, pr) = pr
  BY <1>1, SMTT(60) DEF take_prio
<1>5. QED
  BY <1>3, <1>4 DEF x

LEMMA TakeTaken ==
    ASSUME NEW t, NEW pr, NEW o, NEW p
    PROVE  /\ rt_mutex_take(Taken(o, p, <<>>), t, pr) = Taken(o, p, <<t>>)
           /\ take_prio(Taken(o, p, <<>>), t, pr)
                = IF pr[t] < pr[o] THEN [pr EXCEPT ![o] = pr[t]] ELSE pr
BY SMTT(60) DEF rt_mutex_take, take_prio, Taken

LEMMA GiveAlone ==
    ASSUME NEW pr, NEW o, NEW p
    PROVE  /\ rt_mutex_release(Taken(o, p, <<>>), pr) = rt_mutex_init
           /\ release_prio(Taken(o, p, <<>>), pr) = [pr EXCEPT ![o] = p]
BY SMTT(60) DEF rt_mutex_release, release_prio, Taken

LEMMA GiveNext ==
    ASSUME NEW t, NEW pr, NEW o, NEW p, NEW q, q = <<t>>
    PROVE  /\ rt_mutex_release(Taken(o, p, q), pr) = Taken(t, pr[t], <<>>)
           /\ release_prio(Taken(o, p, q), pr) = [pr EXCEPT ![o] = p]
<1>1. q # <<>> /\ Head(q) = t /\ Tail(q) = <<>>
  BY SMTT(60)
<1>2. /\ Taken(o, p, q).hold = 1 /\ Taken(o, p, q).suspend_thread = q
      /\ Taken(o, p, q) = [value |-> 0, owner |-> o, hold |-> 1, original_priority |-> p,
                           suspend_thread |-> q]
  BY DEF Taken
<1>3. rt_mutex_release(Taken(o, p, q), pr)
        = [Taken(o, p, q) EXCEPT !.owner = t, !.suspend_thread = <<>>,
                                 !.original_priority = pr[t]]
  <2> DEFINE x == Taken(o, p, q)
  <2> HIDE DEF x
  <2>1. x.hold = 1 /\ x.suspend_thread = q
    BY <1>2 DEF x
  <2>2. rt_mutex_release(x, pr)
          = [x EXCEPT !.owner = Head(x.suspend_thread), !.suspend_thread = Tail(@),
                      !.original_priority = pr[Head(x.suspend_thread)]]
    BY <1>1, <2>1, SMTT(60) DEF rt_mutex_release
  <2>3. Tail(x.suspend_thread) = <<>> /\ Head(x.suspend_thread) = t
    BY <1>1, <2>1
  <2>4. rt_mutex_release(x, pr)
          = [x EXCEPT !.owner = t, !.suspend_thread = <<>>, !.original_priority = pr[t]]
    BY <2>2, <2>3
  <2>5. QED
    BY <2>4 DEF x
<1>4. rt_mutex_release(Taken(o, p, q), pr) = Taken(t, pr[t], <<>>)
  BY <1>2, <1>3 DEF Taken
<1>5. release_prio(Taken(o, p, q), pr) = [pr EXCEPT ![o] = p]
  BY DEF release_prio, Taken
<1>6. QED
  BY <1>4, <1>5

LEMMA TakenFields ==
    ASSUME NEW t, NEW p, NEW q
    PROVE  /\ Taken(t, p, q).owner = t /\ Taken(t, p, q).original_priority = p
           /\ Taken(t, p, q).suspend_thread = q
BY DEF Taken

LEMMA FreeFields ==
    /\ rt_mutex_init.owner = NoThread /\ rt_mutex_init.suspend_thread = <<>>
    /\ NoThread \notin Threads
BY DeviceBusAssumption DEF rt_mutex_init, Threads

\* A thread waits when it is the one that a mutex's list holds.
LEMMA WaitsWhere ==
    ASSUME MutexInv, NEW t \in Threads
    PROVE  Waits(t) <=> \E m \in Mutexes : WaitsFor(t, m)
<1>1. ASSUME NEW m \in Mutexes
      PROVE  mutex[m].suspend_thread \in {<<>>, <<"bus">>, <<"main">>}
  BY FreeFields DEF MutexInv, Good, Other, Threads
<1>2. ASSUME NEW m \in Mutexes
      PROVE  (\E i \in 1 .. Len(mutex[m].suspend_thread) : mutex[m].suspend_thread[i] = t)
               <=> WaitsFor(t, m)
  <2>1. CASE mutex[m].suspend_thread = <<>>
    BY <2>1, SMTT(60) DEF WaitsFor
  <2>2. ASSUME NEW u \in Threads, mutex[m].suspend_thread = <<u>>
        PROVE  (\E i \in 1 .. Len(mutex[m].suspend_thread) : mutex[m].suspend_thread[i] = t)
                 <=> WaitsFor(t, m)
    <3>1. Len(<<u>>) = 1 /\ <<u>>[1] = u /\ 1 \in 1 .. 1 /\ (\A i \in 1 .. 1 : i = 1)
      BY SMTT(60)
    <3>2. <<u>> = <<t>> <=> u = t
      OBVIOUS
    <3>3. QED
      BY <2>2, <3>1, <3>2 DEF WaitsFor
  <2>3. QED
    BY <1>1, <2>1, <2>2 DEF Threads
<1>3. QED
  BY <1>2 DEF Waits

\* What Take does to a mutex that the other thread uses or does not.
LEMMA TakeShape ==
    ASSUME MutexInv, NEW t \in Threads, NEW m \in Mutexes, Take(t, m), ~Uses(t, m)
    PROVE  /\ DOMAIN mutex' = Mutexes /\ \A n \in Mutexes \ {m} : mutex'[n] = mutex[n]
           /\ \/ /\ mutex[m] = rt_mutex_init /\ ~Uses(Other(t), m)
                 /\ mutex'[m] = Taken(t, prio[t], <<>>) /\ prio' = prio
              \/ /\ mutex[m].owner = Other(t) /\ mutex[m].original_priority \in Nat
                 /\ mutex[m].suspend_thread = <<>> /\ Uses(Other(t), m)
                 /\ mutex'[m] = Taken(Other(t), mutex[m].original_priority, <<t>>)
                 /\ prio' = IF prio[t] < prio[Other(t)]
                            THEN [prio EXCEPT ![Other(t)] = prio[t]] ELSE prio
<1>1. /\ DOMAIN mutex = Mutexes /\ Good(m)
      /\ mutex' = [mutex EXCEPT ![m] = rt_mutex_take(mutex[m], t, prio)]
      /\ prio' = take_prio(mutex[m], t, prio)
  BY DEF MutexInv, Take
<1>2. /\ DOMAIN mutex' = Mutexes /\ mutex'[m] = rt_mutex_take(mutex[m], t, prio)
      /\ \A n \in Mutexes \ {m} : mutex'[n] = mutex[n]
  BY <1>1
<1>3. CASE mutex[m] = rt_mutex_init
  <2>1. ~Uses(Other(t), m)
    BY <1>1, <1>3, FreeFields DEF Good, Other, Threads
  <2>2. QED
    BY <1>1, <1>2, <1>3, <2>1, TakeFree
<1>4. CASE mutex[m] # rt_mutex_init
  <2> DEFINE p == mutex[m].original_priority
  <2>1. /\ mutex[m].owner \in Threads /\ p \in Nat
        /\ mutex[m] = Taken(mutex[m].owner, p, mutex[m].suspend_thread)
        /\ Uses(mutex[m].owner, m)
    BY <1>1, <1>4 DEF Good
  <2>2. mutex[m].owner = Other(t) /\ Other(mutex[m].owner) = t
    BY <2>1 DEF Threads, Other
  <2>3. mutex[m].suspend_thread = <<>>
    BY <1>1, <1>4, <2>2 DEF Good
  <2>4. mutex[m] = Taken(Other(t), p, <<>>)
    BY <2>1, <2>2, <2>3
  <2> HIDE DEF p
  <2>5. /\ mutex'[m] = Taken(Other(t), p, <<t>>)
        /\ prio' = IF prio[t] < prio[Other(t)]
                   THEN [prio EXCEPT ![Other(t)] = prio[t]] ELSE prio
    BY <1>1, <1>2, <2>4, TakeTaken, SMTT(60)
  <2>6. QED
    BY <1>2, <2>1, <2>2, <2>3, <2>5 DEF p
<1>5. QED
  BY <1>3, <1>4

\* What Give by the owner does.
LEMMA GiveShape ==
    ASSUME MutexInv, NEW t \in Threads, NEW m \in Mutexes, Give(m), Uses(t, m), ~WaitsFor(t, m)
    PROVE  /\ DOMAIN mutex' = Mutexes /\ \A n \in Mutexes \ {m} : mutex'[n] = mutex[n]
           /\ mutex[m].owner = t /\ mutex[m].original_priority \in Nat
           /\ prio' = [prio EXCEPT ![t] = mutex[m].original_priority]
           /\ \/ /\ mutex[m].suspend_thread = <<>> /\ ~Uses(Other(t), m)
                 /\ mutex'[m] = rt_mutex_init
              \/ /\ mutex[m].suspend_thread = <<Other(t)>> /\ Uses(Other(t), m)
                 /\ mutex'[m] = Taken(Other(t), prio[Other(t)], <<>>)
<1> DEFINE p == mutex[m].original_priority
<1>1. /\ DOMAIN mutex = Mutexes /\ Good(m)
      /\ mutex' = [mutex EXCEPT ![m] = rt_mutex_release(mutex[m], prio)]
      /\ prio' = release_prio(mutex[m], prio)
  BY DEF MutexInv, Give
<1>2. /\ DOMAIN mutex' = Mutexes /\ mutex'[m] = rt_mutex_release(mutex[m], prio)
      /\ \A n \in Mutexes \ {m} : mutex'[n] = mutex[n]
  BY <1>1
<1>3. /\ mutex[m].owner \in Threads /\ p \in Nat
      /\ mutex[m] = Taken(mutex[m].owner, p, mutex[m].suspend_thread)
      /\ \/ mutex[m].suspend_thread = <<>> /\ ~Uses(Other(mutex[m].owner), m)
         \/ /\ mutex[m].suspend_thread = <<Other(mutex[m].owner)>>
            /\ Uses(Other(mutex[m].owner), m)
  BY <1>1 DEF Good
<1>4. mutex[m].owner = t
  BY <1>3 DEF WaitsFor, Other, Threads
<1> HIDE DEF p
<1>5. CASE mutex[m].suspend_thread = <<>> /\ ~Uses(Other(t), m)
  <2>1. mutex[m] = Taken(t, p, <<>>)
    BY <1>3, <1>4, <1>5
  <2>2. mutex'[m] = rt_mutex_init /\ prio' = [prio EXCEPT ![t] = p]
    BY <1>1, <1>2, <2>1, GiveAlone, SMTT(60)
  <2>3. QED
    BY <1>2, <1>3, <1>4, <1>5, <2>2 DEF p
<1>6. CASE mutex[m].suspend_thread = <<Other(t)>> /\ Uses(Other(t), m)
  <2>1. mutex[m] = Taken(t, p, <<Other(t)>>)
    BY <1>3, <1>4, <1>6
  <2>2. mutex'[m] = Taken(Other(t), prio[Other(t)], <<>>) /\ prio' = [prio EXCEPT ![t] = p]
    <3> DEFINE q == mutex[m].suspend_thread
               u == Other(t)
    <3>1. mutex[m] = Taken(t, p, q) /\ q = <<u>>
      BY <1>6, <2>1
    <3> HIDE DEF q, u
    <3>2. /\ rt_mutex_release(Taken(t, p, q), prio) = Taken(u, prio[u], <<>>)
          /\ release_prio(Taken(t, p, q), prio) = [prio EXCEPT ![t] = p]
      BY <3>1, GiveNext, SMTT(60)
    <3>3. QED
      BY <1>1, <1>2, <3>1, <3>2 DEF u
  <2>3. QED
    BY <1>2, <1>3, <1>4, <1>6, <2>2 DEF p
<1>7. QED
  BY <1>3, <1>4, <1>5, <1>6

\* The mutexes stay good when a thread goes to where it asks for one ...
LEMMA TakeGood ==
    ASSUME MutexInv, NEW t \in Threads, NEW m \in Mutexes, Take(t, m), ~Uses(t, m),
           prio \in [Threads -> Nat],
           \A u \in Threads, n \in Mutexes : Uses(u, n)' <=> Uses(u, n) \/ (u = t /\ n = m),
           IF t = "bus" THEN Asked(m)' /\ (\A n \in Mutexes : ~WaitsFor("bus", n))
                        ELSE \A n \in Mutexes : Asked(n)' <=> Asked(n)
    PROVE  MutexInv'
<1>1. /\ DOMAIN mutex' = Mutexes /\ \A n \in Mutexes \ {m} : mutex'[n] = mutex[n]
      /\ \/ /\ mutex[m] = rt_mutex_init /\ ~Uses(Other(t), m)
            /\ mutex'[m] = Taken(t, prio[t], <<>>) /\ prio' = prio
         \/ /\ mutex[m].owner = Other(t) /\ mutex[m].original_priority \in Nat
            /\ mutex[m].suspend_thread = <<>> /\ Uses(Other(t), m)
            /\ mutex'[m] = Taken(Other(t), mutex[m].original_priority, <<t>>)
  BY TakeShape
<1>2. /\ Other(t) \in Threads /\ Other(t) # t /\ Other(Other(t)) = t /\ prio[t] \in Nat
      /\ Other(t) = "main" <=> t = "bus"
  BY DEF Other, Threads
<1>3. ASSUME NEW n \in Mutexes \ {m} PROVE Good(n)'
  <2>1. Good(n) /\ mutex'[n] = mutex[n]
    BY <1>1 DEF MutexInv
  <2>2. \A u \in Threads : Uses(u, n)' <=> Uses(u, n)
    OBVIOUS
  <2>3. ASSUME mutex[n].owner = "main", mutex[n].suspend_thread = <<Other("main")>>, Asked(n)
        PROVE  Asked(n)'
    BY <2>3 DEF WaitsFor, Other, Threads
  <2>4. CASE mutex[n] = rt_mutex_init /\ \A u \in Threads : ~Uses(u, n)
    BY <2>1, <2>2, <2>4 DEF Good
  <2>5. CASE ~(mutex[n] = rt_mutex_init /\ \A u \in Threads : ~Uses(u, n))
    <3>1. Other(mutex[n].owner) \in Threads
      BY DEF Other, Threads
    <3>2. QED
      BY <2>1, <2>2, <2>3, <2>5, <3>1 DEF Good
  <2>6. QED
    BY <2>4, <2>5
<1>4. Good(m)'
  <2>1. CASE mutex'[m] = Taken(t, prio[t], <<>>) /\ ~Uses(Other(t), m)
    <3>1. /\ mutex'[m].owner = t /\ mutex'[m].suspend_thread = <<>>
          /\ mutex'[m].original_priority = prio[t]
      BY <2>1, TakenFields, SMTT(60)
    <3>2. Uses(t, m)' /\ ~Uses(Other(t), m)'
      BY <1>2, <2>1
    <3>3. QED
      BY <1>2, <2>1, <3>1, <3>2 DEF Good
  <2>2. CASE /\ mutex'[m] = Taken(Other(t), mutex[m].original_priority, <<t>>)
             /\ Uses(Other(t), m) /\ mutex[m].original_priority \in Nat
    <3>1. /\ mutex'[m].owner = Other(t) /\ mutex'[m].suspend_thread = <<t>>
          /\ mutex'[m].original_priority = mutex[m].original_priority
      BY <2>2, TakenFields, SMTT(60)
    <3>2. Uses(Other(t), m)' /\ Uses(t, m)'
      BY <1>2, <2>2
    <3>3. mutex'[m].owner = "main" => Asked(m)'
      BY <1>2, <3>1
    <3>4. QED
      BY <1>2, <2>2, <3>1, <3>2, <3>3 DEF Good
  <2>3. QED
    BY <1>1, <2>1, <2>2
<1>5. QED
  BY <1>1, <1>3, <1>4 DEF MutexInv

\* ... and when it gives one.
LEMMA GiveGood ==
    ASSUME MutexInv, NEW t \in Threads, NEW m \in Mutexes, Give(m), Uses(t, m), ~WaitsFor(t, m),
           prio \in [Threads -> Nat],
           \A u \in Threads, n \in Mutexes : Uses(u, n)' <=> Uses(u, n) /\ ~(u = t /\ n = m),
           IF t = "bus" THEN \A n \in Mutexes : ~WaitsFor("bus", n)
                        ELSE \A n \in Mutexes : Asked(n)' <=> Asked(n)
    PROVE  MutexInv'
<1>1. /\ DOMAIN mutex' = Mutexes /\ \A n \in Mutexes \ {m} : mutex'[n] = mutex[n]
      /\ \/ mutex[m].suspend_thread = <<>> /\ ~Uses(Other(t), m) /\ mutex'[m] = rt_mutex_init
         \/ /\ mutex[m].suspend_thread = <<Other(t)>> /\ Uses(Other(t), m)
            /\ mutex'[m] = Taken(Other(t), prio[Other(t)], <<>>)
  BY GiveShape
<1>2. /\ Other(t) \in Threads /\ Other(t) # t /\ Other(Other(t)) = t
      /\ prio[Other(t)] \in Nat
  BY DEF Other, Threads
<1>3. ASSUME NEW n \in Mutexes \ {m} PROVE Good(n)'
  <2>1. Good(n) /\ mutex'[n] = mutex[n]
    BY <1>1 DEF MutexInv
  <2>2. \A u \in Threads : Uses(u, n)' <=> Uses(u, n)
    OBVIOUS
  <2>3. ASSUME mutex[n].owner = "main", mutex[n].suspend_thread = <<Other("main")>>, Asked(n)
        PROVE  Asked(n)'
    BY <2>3 DEF WaitsFor, Other, Threads
  <2>4. CASE mutex[n] = rt_mutex_init /\ \A u \in Threads : ~Uses(u, n)
    BY <2>1, <2>2, <2>4 DEF Good
  <2>5. CASE ~(mutex[n] = rt_mutex_init /\ \A u \in Threads : ~Uses(u, n))
    <3>1. Other(mutex[n].owner) \in Threads
      BY DEF Other, Threads
    <3>2. QED
      BY <2>1, <2>2, <2>3, <2>5, <3>1 DEF Good
  <2>6. QED
    BY <2>4, <2>5
<1>4. Good(m)'
  <2>1. CASE mutex'[m] = rt_mutex_init /\ ~Uses(Other(t), m)
    <3>1. \A u \in Threads : u = t \/ u = Other(t)
      BY SMTT(60) DEF Other, Threads
    <3>2. QED
      BY <1>2, <2>1, <3>1 DEF Good
  <2>2. CASE mutex'[m] = Taken(Other(t), prio[Other(t)], <<>>) /\ Uses(Other(t), m)
    BY <1>2, <2>2, TakenFields, SMTT(60) DEF Good
  <2>3. QED
    BY <1>1, <2>1, <2>2
<1>5. QED
  BY <1>1, <1>3, <1>4 DEF MutexInv

\* A thread waits only for a mutex that the other owns, and both are where they
\* use it.
LEMMA WaitFacts ==
    ASSUME MutexInv, NEW t \in Threads, NEW m \in Mutexes, WaitsFor(t, m)
    PROVE  mutex[m].owner = Other(t) /\ Uses(t, m) /\ Uses(Other(t), m)
<1>1. Good(m) /\ mutex[m].suspend_thread = <<t>>
  BY DEF MutexInv, WaitsFor
<1>2. <<t>> # <<>>
  OBVIOUS
<1>3. /\ mutex[m].owner \in Threads /\ Uses(mutex[m].owner, m)
      /\ mutex[m].suspend_thread = <<Other(mutex[m].owner)>> /\ Uses(Other(mutex[m].owner), m)
  BY <1>1, <1>2, FreeFields DEF Good
<1>4. t = Other(mutex[m].owner)
  BY <1>1, <1>3, SMTT(60)
<1>5. QED
  BY <1>3, <1>4 DEF Other, Threads

\* Distinct threads make distinct lists.
LEMMA ListFacts ==
    ASSUME NEW t \in Threads, NEW m \in Mutexes, NEW u \in Threads
    PROVE  /\ mutex[m].suspend_thread = <<>> => ~WaitsFor(t, m)
           /\ mutex[m].suspend_thread = <<u>> => (WaitsFor(t, m) <=> t = u)
<1>1. <<t>> # <<>> /\ (<<t>> = <<u>> <=> t = u)
  OBVIOUS
<1>2. QED
  BY <1>1 DEF WaitsFor

\* rt_mutex_take lends the owner the higher priority, and finds the taker at its
\* own: the main thread when it takes either mutex, ...
LEMMA MainTakePrio ==
    ASSUME IInv, NEW m \in Mutexes, Take("main", m), main = "idle", UNCHANGED <<bus, busPrio>>
    PROVE  PrioInv' /\ prio' \in [Threads -> Nat]
<1>1. /\ MutexInv /\ PrioInv /\ prio \in [Threads -> Nat] /\ busPrio \in Nat /\ MainPrio \in Nat
      /\ "main" \in Threads /\ "bus" \in Threads /\ Other("main") = "bus" /\ Other("bus") = "main"
      /\ main \notin Mutexes /\ "bus" # "main"
  BY DeviceBusAssumption DEF IInv, TypeOK, Threads, Other, Mutexes
<1>2. \A n \in Mutexes : ~Uses("main", n)
  BY <1>1 DEF Uses
<1>3. \A u \in Threads, n \in Mutexes : ~WaitsFor(u, n)
  <2>1. SUFFICES ASSUME NEW u \in Threads, NEW n \in Mutexes, WaitsFor(u, n) PROVE FALSE
    OBVIOUS
  <2>2. Uses(u, n) /\ Uses(Other(u), n)
    BY <1>1, <2>1, WaitFacts
  <2>3. QED
    BY <1>1, <1>2, <2>2 DEF Threads
<1>4. /\ prio["main"] = MainPrio /\ prio["bus"] = busPrio
      /\ \A n \in Mutexes : mutex[n].owner # "main"
  <2>1. prio["main"] = MainPrio /\ prio["bus"] = busPrio
    BY <1>1, <1>3 DEF PrioInv
  <2>2. ASSUME NEW n \in Mutexes PROVE mutex[n].owner # "main"
    BY <1>1, <1>2, FreeFields DEF MutexInv, Good
  <2>3. QED
    BY <2>1, <2>2
<1>5. mutex["_sem"].owner = "bus" => mutex["_sem"].original_priority = busPrio
  BY <1>1, <1>3 DEF PrioInv, Mutexes
<1>6. CASE /\ mutex'[m] = Taken("main", prio["main"], <<>>) /\ prio' = prio
           /\ \A n \in Mutexes \ {m} : mutex'[n] = mutex[n]
  <2>1. /\ mutex'[m].owner = "main" /\ mutex'[m].original_priority = MainPrio
        /\ mutex'[m].suspend_thread = <<>>
    BY <1>4, <1>6, TakenFields, SMTT(60)
  <2>2. \A u \in Threads, n \in Mutexes : ~WaitsFor(u, n)'
    BY <1>3, <1>6, <2>1, ListFacts, SMTT(60) DEF WaitsFor
  <2>3. QED
    BY <1>1, <1>4, <1>5, <1>6, <2>1, <2>2, SMTT(60) DEF PrioInv, Mutexes
<1>7. CASE /\ mutex[m].owner = "bus" /\ \A n \in Mutexes \ {m} : mutex'[n] = mutex[n]
           /\ mutex'[m] = Taken("bus", mutex[m].original_priority, <<"main">>)
           /\ prio' = IF prio["main"] < prio["bus"]
                      THEN [prio EXCEPT !["bus"] = prio["main"]] ELSE prio
  <2>1. /\ mutex'[m].owner = "bus" /\ mutex'[m].suspend_thread = <<"main">>
        /\ mutex'[m].original_priority = mutex[m].original_priority
    BY <1>7, TakenFields, SMTT(60)
  <2>2. WaitsFor("main", m)' /\ ~WaitsFor("bus", m)'
    BY <1>1, <2>1, ListFacts, SMTT(60) DEF WaitsFor
  <2>3. \A n \in Mutexes : ~WaitsFor("bus", n)'
    BY <1>1, <1>3, <1>7, <2>2 DEF WaitsFor
  <2>4. prio' \in [Threads -> Nat] /\ prio'["main"] = MainPrio /\ prio'["bus"] = Higher
    BY <1>1, <1>4, <1>7, SMTT(60) DEF Higher, Threads
  <2>5. Higher' = Higher /\ busPrio' = busPrio
    BY DEF Higher
  <2>6. \A n \in Mutexes : mutex'[n].owner # "main"
    BY <1>1, <1>4, <1>7, <2>1
  <2>7. /\ (mutex["_sem"].owner = "bus" => mutex["_sem"].original_priority = busPrio)'
        /\ (mutex["semaphore"].owner = "bus" => mutex["semaphore"].original_priority = busPrio)'
    BY <1>1, <1>5, <1>7, <2>1, <2>5 DEF PrioInv, Mutexes
  <2>8. QED
    BY <2>2, <2>3, <2>4, <2>5, <2>6, <2>7 DEF PrioInv
<1>8. QED
  <2>1. /\ \A n \in Mutexes \ {m} : mutex'[n] = mutex[n]
        /\ \/ mutex'[m] = Taken("main", prio["main"], <<>>) /\ prio' = prio
           \/ /\ mutex[m].owner = "bus"
              /\ mutex'[m] = Taken("bus", mutex[m].original_priority, <<"main">>)
              /\ prio' = IF prio["main"] < prio["bus"]
                         THEN [prio EXCEPT !["bus"] = prio["main"]] ELSE prio
    BY <1>1, <1>2, TakeShape
  <2>2. QED
    BY <1>6, <1>7, <2>1

\* ... the bus thread when it takes the bus's semaphore for a callback, and
\* when it takes _sem in one, where the main thread may be waiting for the first.
LEMMA BusTakePrio ==
    ASSUME IInv, NEW m \in Mutexes, Take("bus", m), ~Waits("bus"), UNCHANGED <<main, busPrio>>,
           bus.pc = IF m = "_sem" THEN "sample" ELSE "next"
    PROVE  PrioInv' /\ prio' \in [Threads -> Nat]
<1>1. /\ MutexInv /\ PrioInv /\ prio \in [Threads -> Nat] /\ busPrio \in Nat /\ MainPrio \in Nat
      /\ "main" \in Threads /\ "bus" \in Threads /\ Other("main") = "bus" /\ Other("bus") = "main"
      /\ "bus" # "main" /\ Higher' = Higher /\ busPrio' = busPrio
  BY DeviceBusAssumption DEF IInv, TypeOK, Threads, Other, Higher
<1>2. ~Uses("bus", m) /\ ~Uses("bus", "_sem") /\ (m = "semaphore" => ~Uses("bus", "semaphore"))
  BY DEF Uses, Mutexes, InCallback
<1>3. \A n \in Mutexes : ~WaitsFor("bus", n)
  BY <1>1, WaitsWhere
<1>4. \A n \in Mutexes : WaitsFor("main", n) => n = "semaphore" /\ m = "_sem"
  BY <1>1, <1>2, WaitFacts DEF Mutexes
<1>5. /\ prio["main"] = MainPrio
      /\ prio["bus"] = IF WaitsFor("main", "semaphore") THEN Higher ELSE busPrio
  BY <1>1, <1>3, <1>4 DEF PrioInv, Mutexes
<1>6. mutex["_sem"].owner # "bus" /\ (m = "semaphore" => mutex["semaphore"].owner # "bus")
  BY <1>1, <1>2, FreeFields DEF MutexInv, Good, Mutexes
<1>7. CASE /\ mutex[m] = rt_mutex_init /\ mutex'[m] = Taken("bus", prio["bus"], <<>>)
           /\ prio' = prio /\ \A n \in Mutexes \ {m} : mutex'[n] = mutex[n]
  <2>1. /\ mutex'[m].owner = "bus" /\ mutex'[m].original_priority = prio["bus"]
        /\ mutex'[m].suspend_thread = <<>>
    BY <1>7, TakenFields, SMTT(60)
  <2>2. \A u \in Threads, n \in Mutexes : WaitsFor(u, n)' <=> WaitsFor(u, n)
    BY <1>7, <2>1, FreeFields, ListFacts DEF WaitsFor
  <2>3. \A n \in Mutexes : mutex'[n].owner = "main" => mutex'[n].original_priority = MainPrio
    BY <1>1, <1>7, <2>1 DEF PrioInv
  <2>4. (mutex["semaphore"].owner = "bus" => mutex["semaphore"].original_priority = busPrio)'
    BY <1>1, <1>4, <1>5, <1>7, <2>1 DEF PrioInv, Mutexes
  <2>5. (mutex["_sem"].owner = "bus" =>
           \/ mutex["_sem"].original_priority = busPrio
           \/ mutex["_sem"].original_priority = Higher /\ WaitsFor("main", "semaphore"))'
    BY <1>1, <1>5, <1>6, <1>7, <2>1, <2>2 DEF Mutexes
  <2>6. (prio["main"] = IF \E n \in Mutexes : WaitsFor("bus", n) THEN Higher ELSE MainPrio)'
    BY <1>1, <1>3, <1>5, <1>7, <2>2
  <2>7. (prio["bus"] = IF \E n \in Mutexes : WaitsFor("main", n) THEN Higher ELSE busPrio)'
    BY <1>1, <1>4, <1>5, <1>7, <2>2 DEF Mutexes
  <2>8. QED
    BY <1>1, <1>7, <2>3, <2>4, <2>5, <2>6, <2>7 DEF PrioInv
<1>8. CASE /\ mutex[m].owner = "main" /\ \A n \in Mutexes \ {m} : mutex'[n] = mutex[n]
           /\ mutex[m].suspend_thread = <<>> /\ Uses("main", m)
           /\ mutex'[m] = Taken("main", mutex[m].original_priority, <<"bus">>)
           /\ prio' = IF prio["bus"] < prio["main"]
                      THEN [prio EXCEPT !["main"] = prio["bus"]] ELSE prio
  <2>1. /\ mutex'[m].owner = "main" /\ mutex'[m].suspend_thread = <<"bus">>
        /\ mutex'[m].original_priority = mutex[m].original_priority
    BY <1>8, TakenFields, SMTT(60)
  <2>2. \A n \in Mutexes : ~WaitsFor("main", n)
    <3>1. \A n \in Mutexes : WaitsFor("main", n) => Uses("main", n)
      BY <1>1, WaitFacts
    <3>2. ~WaitsFor("main", m)
      BY <1>1, <1>8, ListFacts
    <3>3. QED
      BY <1>8, <3>1, <3>2 DEF Uses
  <2>3. WaitsFor("bus", m)' /\ ~WaitsFor("main", m)'
    BY <1>1, <2>1, ListFacts, SMTT(60) DEF WaitsFor
  <2>4. \A n \in Mutexes : ~WaitsFor("main", n)'
    BY <1>1, <1>8, <2>2, <2>3 DEF WaitsFor
  <2>5. prio' \in [Threads -> Nat] /\ prio'["main"] = Higher /\ prio'["bus"] = busPrio
    <3>1. prio["bus"] = busPrio
      BY <1>5, <2>2 DEF Mutexes
    <3>2. QED
      BY <1>1, <1>5, <1>8, <3>1 DEF Higher, Threads
  <2>6. \A n \in Mutexes : mutex'[n].owner = "main" => mutex'[n].original_priority = MainPrio
    BY <1>1, <1>8, <2>1 DEF PrioInv
  <2>7. (mutex["semaphore"].owner = "bus" => mutex["semaphore"].original_priority = busPrio)'
    BY <1>1, <1>8, <2>1 DEF PrioInv, Mutexes
  <2>8. mutex'["_sem"].owner # "bus"
    BY <1>1, <1>6, <1>8, <2>1 DEF Mutexes
  <2>9. QED
    BY <1>1, <2>3, <2>4, <2>5, <2>6, <2>7, <2>8 DEF PrioInv
<1>9. QED
  <2>1. /\ \A n \in Mutexes \ {m} : mutex'[n] = mutex[n]
        /\ \/ mutex[m] = rt_mutex_init /\ mutex'[m] = Taken("bus", prio["bus"], <<>>) /\ prio' = prio
           \/ /\ mutex[m].owner = "main" /\ mutex[m].suspend_thread = <<>> /\ Uses("main", m)
              /\ mutex'[m] = Taken("main", mutex[m].original_priority, <<"bus">>)
              /\ prio' = IF prio["bus"] < prio["main"]
                         THEN [prio EXCEPT !["main"] = prio["bus"]] ELSE prio
    BY <1>1, <1>2, TakeShape, SMTT(60)
  <2>2. QED
    BY <1>7, <1>8, <2>1

\* rt_mutex_release gives the owner the priority it took the mutex with: the
\* bus thread that gives _sem may lose what it inherited, ...
LEMMA BusPublishPrio ==
    ASSUME IInv, Give("_sem"), ~Waits("bus"), UNCHANGED <<main, busPrio>>,
           bus.pc = "publish", bus'.pc = "published"
    PROVE  PrioInv' /\ prio' \in [Threads -> Nat]
<1>1. /\ MutexInv /\ PrioInv /\ prio \in [Threads -> Nat] /\ busPrio \in Nat /\ MainPrio \in Nat
      /\ "main" \in Threads /\ "bus" \in Threads /\ Other("main") = "bus" /\ Other("bus") = "main"
      /\ "bus" # "main" /\ Higher' = Higher /\ busPrio' = busPrio
      /\ "_sem" \in Mutexes /\ "semaphore" \in Mutexes /\ Mutexes = {"_sem", "semaphore"}
  BY DeviceBusAssumption DEF IInv, TypeOK, Threads, Other, Higher, Mutexes
<1>2. Uses("bus", "_sem")
  BY DEF Uses
<1>3. \A n \in Mutexes : ~WaitsFor("bus", n)
  BY <1>1, WaitsWhere
<1>4. /\ mutex'["semaphore"] = mutex["semaphore"] /\ mutex["_sem"].owner = "bus"
      /\ prio' = [prio EXCEPT !["bus"] = mutex["_sem"].original_priority]
      /\ mutex["_sem"].original_priority \in Nat
      /\ \/ mutex["_sem"].suspend_thread = <<>> /\ mutex'["_sem"] = rt_mutex_init
         \/ /\ mutex["_sem"].suspend_thread = <<"main">>
            /\ mutex'["_sem"] = Taken("main", prio["main"], <<>>)
  BY <1>1, <1>2, <1>3, GiveShape, SMTT(60)
<1>5. prio["main"] = MainPrio
  BY <1>1, <1>3 DEF PrioInv
<1>6. /\ mutex'["_sem"].suspend_thread = <<>> /\ mutex'["_sem"].owner # "bus"
      /\ mutex'["_sem"].owner = "main" => mutex'["_sem"].original_priority = MainPrio
  BY <1>1, <1>4, <1>5, FreeFields, TakenFields, SMTT(60)
<1>7. \A u \in Threads : ~WaitsFor(u, "_sem")' /\ (WaitsFor(u, "semaphore")' <=> WaitsFor(u, "semaphore"))
  BY <1>1, <1>4, <1>6, ListFacts, SMTT(60) DEF WaitsFor
<1>8. /\ prio' \in [Threads -> Nat] /\ prio'["main"] = MainPrio
      /\ prio'["bus"] = mutex["_sem"].original_priority
  BY <1>1, <1>4, <1>5
<1>9. \/ mutex["_sem"].original_priority = busPrio
      \/ mutex["_sem"].original_priority = Higher /\ WaitsFor("main", "semaphore")
  BY <1>1, <1>4 DEF PrioInv
<1>10. \A n \in Mutexes : mutex'[n].owner = "main" => mutex'[n].original_priority = MainPrio
  BY <1>1, <1>4, <1>6 DEF PrioInv
<1>11. (mutex["semaphore"].owner = "bus" => mutex["semaphore"].original_priority = busPrio)'
  BY <1>1, <1>4 DEF PrioInv
<1>12. QED
  BY <1>1, <1>3, <1>6, <1>7, <1>8, <1>9, <1>10, <1>11 DEF PrioInv

\* ... has its own back when it gives the bus's semaphore, ...
LEMMA BusGivePrio ==
    ASSUME IInv, Give("semaphore"), ~Waits("bus"), UNCHANGED <<main, busPrio>>,
           bus.pc \in {"give", "published"}
    PROVE  PrioInv' /\ prio' \in [Threads -> Nat]
<1>1. /\ MutexInv /\ PrioInv /\ prio \in [Threads -> Nat] /\ busPrio \in Nat /\ MainPrio \in Nat
      /\ "main" \in Threads /\ "bus" \in Threads /\ Other("main") = "bus" /\ Other("bus") = "main"
      /\ "bus" # "main" /\ Higher' = Higher /\ busPrio' = busPrio
      /\ "_sem" \in Mutexes /\ "semaphore" \in Mutexes /\ Mutexes = {"_sem", "semaphore"}
  BY DeviceBusAssumption DEF IInv, TypeOK, Threads, Other, Higher, Mutexes
<1>2. Uses("bus", "semaphore") /\ ~Uses("bus", "_sem")
  BY DEF Uses, InCallback
<1>3. (\A n \in Mutexes : ~WaitsFor("bus", n)) /\ ~WaitsFor("main", "_sem")
  BY <1>1, <1>2, WaitsWhere, WaitFacts
<1>4. /\ mutex'["_sem"] = mutex["_sem"] /\ mutex["semaphore"].owner = "bus"
      /\ prio' = [prio EXCEPT !["bus"] = mutex["semaphore"].original_priority]
      /\ \/ mutex["semaphore"].suspend_thread = <<>> /\ mutex'["semaphore"] = rt_mutex_init
         \/ /\ mutex["semaphore"].suspend_thread = <<"main">>
            /\ mutex'["semaphore"] = Taken("main", prio["main"], <<>>)
  BY <1>1, <1>2, <1>3, GiveShape, SMTT(60)
<1>5. prio["main"] = MainPrio /\ mutex["semaphore"].original_priority = busPrio
  BY <1>1, <1>3, <1>4 DEF PrioInv
<1>6. /\ mutex'["semaphore"].suspend_thread = <<>> /\ mutex'["semaphore"].owner # "bus"
      /\ mutex'["semaphore"].owner = "main" => mutex'["semaphore"].original_priority = MainPrio
  BY <1>1, <1>4, <1>5, FreeFields, TakenFields, SMTT(60)
<1>7. \A u \in Threads : ~WaitsFor(u, "semaphore")' /\ ~WaitsFor(u, "_sem")'
  <2>1. \A u \in Threads : ~WaitsFor(u, "semaphore")'
    BY <1>1, <1>6, ListFacts, SMTT(60) DEF WaitsFor
  <2>2. \A u \in Threads : WaitsFor(u, "_sem")' <=> WaitsFor(u, "_sem")
    BY <1>4 DEF WaitsFor
  <2>3. QED
    BY <1>1, <1>3, <2>1, <2>2 DEF Threads
<1>8. prio' \in [Threads -> Nat] /\ prio'["main"] = MainPrio /\ prio'["bus"] = busPrio
  BY <1>1, <1>4, <1>5
<1>9. mutex'["_sem"].owner # "bus"
  BY <1>1, <1>2, <1>4, FreeFields, SMTT(60) DEF MutexInv, Good
<1>10. \A n \in Mutexes : mutex'[n].owner = "main" => mutex'[n].original_priority = MainPrio
  BY <1>1, <1>4, <1>6 DEF PrioInv
<1>11. QED
  BY <1>1, <1>6, <1>7, <1>8, <1>9, <1>10 DEF PrioInv

\* ... and so has the main thread when it gives the one it owns.
LEMMA MainGivePrio ==
    ASSUME IInv, NEW m \in Mutexes, Give(m), main = m, ~Waits("main"), UNCHANGED <<bus, busPrio>>
    PROVE  PrioInv' /\ prio' \in [Threads -> Nat]
<1>1. /\ MutexInv /\ PrioInv /\ prio \in [Threads -> Nat] /\ busPrio \in Nat /\ MainPrio \in Nat
      /\ "main" \in Threads /\ "bus" \in Threads /\ Other("main") = "bus" /\ Other("bus") = "main"
      /\ "bus" # "main" /\ Higher' = Higher /\ busPrio' = busPrio
  BY DeviceBusAssumption DEF IInv, TypeOK, Threads, Other, Higher
<1>2. \A n \in Mutexes : Uses("main", n) <=> n = m
  BY DEF Uses
<1>3. /\ \A n \in Mutexes : ~WaitsFor("main", n)
      /\ \A n \in Mutexes : WaitsFor("bus", n) => n = m
  <2>1. \A n \in Mutexes : ~WaitsFor("main", n)
    BY <1>1, WaitsWhere
  <2>2. \A n \in Mutexes : WaitsFor("bus", n) => Uses("main", n)
    BY <1>1, WaitFacts
  <2>3. QED
    BY <1>2, <2>1, <2>2
<1>4. /\ \A n \in Mutexes \ {m} : mutex'[n] = mutex[n]
      /\ mutex[m].owner = "main"
      /\ prio' = [prio EXCEPT !["main"] = mutex[m].original_priority]
      /\ \/ mutex[m].suspend_thread = <<>> /\ mutex'[m] = rt_mutex_init
         \/ /\ mutex[m].suspend_thread = <<"bus">>
            /\ mutex'[m] = Taken("bus", prio["bus"], <<>>)
  BY <1>1, <1>2, <1>3, GiveShape, SMTT(60)
<1>5. prio["bus"] = busPrio /\ mutex[m].original_priority = MainPrio
  BY <1>1, <1>3, <1>4 DEF PrioInv
<1>6. /\ mutex'[m].suspend_thread = <<>> /\ mutex'[m].owner # "main"
      /\ mutex'[m].owner = "bus" => mutex'[m].original_priority = busPrio
  BY <1>1, <1>4, <1>5, FreeFields, TakenFields, SMTT(60)
<1>7. \A u \in Threads, n \in Mutexes : ~WaitsFor(u, n)'
  <2>1. \A u \in Threads : ~WaitsFor(u, m)'
    BY <1>1, <1>6, ListFacts, SMTT(60) DEF WaitsFor
  <2>2. \A u \in Threads, n \in Mutexes \ {m} : WaitsFor(u, n)' <=> WaitsFor(u, n)
    BY <1>4 DEF WaitsFor
  <2>3. \A u \in Threads, n \in Mutexes \ {m} : ~WaitsFor(u, n)
    BY <1>3 DEF Threads
  <2>4. QED
    BY <2>1, <2>2, <2>3
<1>8. prio' \in [Threads -> Nat] /\ prio'["main"] = MainPrio /\ prio'["bus"] = busPrio
  BY <1>1, <1>4, <1>5
<1>9. \A n \in Mutexes : mutex'[n].owner = "main" => mutex'[n].original_priority = MainPrio
  BY <1>1, <1>4, <1>6 DEF PrioInv
<1>10. \A n \in Mutexes : mutex[n].owner = "bus" => mutex[n].original_priority = busPrio
  BY <1>1, <1>3 DEF PrioInv, Mutexes
<1>11. \A n \in Mutexes : mutex'[n].owner = "bus" => mutex'[n].original_priority = busPrio
  BY <1>1, <1>4, <1>6, <1>10
<1>12. QED
  BY <1>1, <1>7, <1>8, <1>9, <1>11 DEF PrioInv, Mutexes

-----------------------------------------------------------------------------
(* Arithmetic *)

LEMMA DivMod ==
    ASSUME NEW x \in Int, NEW n \in Nat \ {0}
    PROVE  /\ x \div n \in Int /\ x % n \in 0 .. n - 1
           /\ x = (x \div n) * n + (x % n)
<1>1. x \div n \in Int /\ x % n \in 0 .. n - 1
  BY SMTT(60)
<1>2. x - (x \div n) * n = x % n
  <2>1. n \in Int /\ n > 0
    BY SMTT(60)
  <2>2. QED
    BY <2>1, SMTT(60)
<1> DEFINE d == x \div n
           r == x % n
<1> HIDE DEF d, r
<1>3. d \in Int /\ r \in 0 .. n - 1 /\ x - d * n = r
  BY <1>1, <1>2 DEF d, r
<1>4. x = d * n + r
  BY <1>3, SMTT(60)
<1>5. QED
  BY <1>3, <1>4 DEF d, r

LEMMA ModUnique ==
    ASSUME NEW x \in Int, NEW n \in Nat \ {0}, NEW k \in Int, NEW r \in 0 .. n - 1, x = k * n + r
    PROVE  x % n = r
BY SMTT(60)

\* A whole number of periods more is a whole number of periods.
LEMMA WholePeriods ==
    ASSUME NEW x \in Int, NEW n \in Nat \ {0}, NEW k \in Int, x % n = 0
    PROVE  (x + k * n) % n = 0
<1> DEFINE d == x \div n
<1>1. d \in Int /\ x = d * n
  BY DivMod, SMTT(60)
<1> HIDE DEF d
<1>2. x + k * n = (d + k) * n + 0 /\ d + k \in Int /\ x + k * n \in Int /\ 0 \in 0 .. n - 1
  BY <1>1, SMTT(60)
<1>3. QED
  BY <1>2, ModUnique

\* next_usec, once moved on, is after the time the clock was read and at most a
\* period away.
LEMMA MovedOnRange ==
    ASSUME NEW x \in Int, x <= 0, NEW n \in Nat \ {0}
    PROVE  /\ MovedOn(x, n) \in 1 .. n
           /\ \E k \in Int : MovedOn(x, n) = x + k * n
<1> DEFINE y == -x
           d == y \div n
           r == y % n
<1>1. MovedOn(x, n) = x + (d + 1) * n
  BY DEF MovedOn
<1>2. y \in Int /\ x = -y
  BY SMTT(60)
<1> HIDE DEF y
<1>3. d \in Int /\ r \in 0 .. n - 1 /\ y = d * n + r
  BY <1>2, DivMod
<1> HIDE DEF d, r
<1>4. x + (d + 1) * n = n - r
  BY <1>2, <1>3, SMTT(60)
<1>5. QED
  BY <1>1, <1>3, <1>4, SMTT(60)

\* A set of naturals that is not empty has a least element.
LEMMA NatMin ==
    ASSUME NEW T \in SUBSET Nat, T # {}
    PROVE  \E x \in T : \A y \in T : x <= y
<1>1. IsWellFoundedOn(OpToRel(<, Nat), Nat)
  BY NatLessThanWellFounded
<1>2. PICK x \in T : \A y \in T : ~(<<y, x>> \in OpToRel(<, Nat))
  BY <1>1, WFMin
<1>3. ASSUME NEW y \in T PROVE x <= y
  <2>1. y \in Nat /\ x \in Nat
    OBVIOUS
  <2>2. y < x => <<y, x>> \in OpToRel(<, Nat)
    BY <2>1 DEF OpToRel
  <2>3. ~(y < x)
    BY <1>2, <2>2
  <2>4. QED
    BY <2>1, <2>3, SMTT(60)
<1>4. QED
  BY <1>2, <1>3

\* So has a set of integers that is bounded below.
LEMMA LeastIs ==
    ASSUME NEW S \in SUBSET Int, S # {}, NEW b \in Nat, \A x \in S : -b <= x
    PROVE  Least(S) \in S /\ \A y \in S : Least(S) <= y
<1> DEFINE T == {x + b : x \in S}
<1>1. T \in SUBSET Nat /\ T # {}
  <2>1. \A x \in S : x + b \in Nat
    BY SMTT(60)
  <2>2. QED
    BY <2>1
<1>2. PICK t \in T : \A y \in T : t <= y
  BY <1>1, NatMin
<1>3. PICK x \in S : t = x + b
  BY <1>2
<1>4. \A y \in S : x <= y
  <2>1. ASSUME NEW y \in S PROVE x <= y
    <3>1. y + b \in T
      OBVIOUS
    <3>2. x + b <= y + b
      BY <1>2, <1>3, <3>1
    <3>3. QED
      BY <3>2, SMTT(60)
  <2>2. QED
    BY <2>1
<1>5. \E z \in S : \A y \in S : z <= y
  BY <1>3, <1>4
<1>6. QED
  BY <1>5 DEF Least

-----------------------------------------------------------------------------
(* The steps of the bus thread *)

\* A step that leaves the mutexes alone and moves no thread in or out of their
\* use.
LEMMA MutexesKept ==
    ASSUME IInv, UNCHANGED <<mutex, prio, busPrio>>,
           \A u \in Threads, n \in Mutexes : Uses(u, n)' <=> Uses(u, n),
           bus'.pc = bus.pc \/ (~Waits("bus") /\ bus.pc # "published")
    PROVE  MutexInv' /\ PrioInv'
<1>1. MutexInv /\ PrioInv
  BY DEF IInv
<1>2. ASSUME NEW m \in Mutexes PROVE Good(m)'
  <2>1. Good(m) /\ mutex'[m] = mutex[m]
    BY <1>1 DEF MutexInv
  <2>2. CASE mutex[m] = rt_mutex_init /\ \A u \in Threads : ~Uses(u, m)
    BY <2>1, <2>2 DEF Good
  <2>3. CASE ~(mutex[m] = rt_mutex_init /\ \A u \in Threads : ~Uses(u, m))
    <3>1. Other(mutex[m].owner) \in Threads
      BY DEF Other, Threads
    <3>2. ASSUME mutex[m].owner = "main", mutex[m].suspend_thread = <<Other("main")>>, Asked(m)
          PROVE  Asked(m)'
      <4>1. WaitsFor("bus", m) /\ "bus" \in Threads
        BY <3>2 DEF WaitsFor, Other, Threads
      <4>2. bus'.pc = bus.pc
        BY <1>1, <4>1, WaitsWhere
      <4>3. QED
        BY <3>2, <4>2 DEF Asked
    <3>3. QED
      BY <2>1, <2>3, <3>1, <3>2 DEF Good
  <2>4. QED
    BY <2>2, <2>3
<1>3. \A u, n : WaitsFor(u, n)' <=> WaitsFor(u, n)
  BY DEF WaitsFor
<1>4. Higher' = Higher
  BY DEF Higher
<1>5. PrioInv'
  BY <1>1, <1>3, <1>4 DEF PrioInv
<1>6. QED
  BY <1>1, <1>2, <1>5 DEF MutexInv

LEMMA PhaseSame ==
    ASSUME PhaseKept, UNCHANGED <<callbacks, due, phase>>
    PROVE  PhaseKept'
BY DEF PhaseKept, Listed

BusType ==
    [pc : {"none", "scan", "next", "callback", "sample", "publish", "published", "give", "sleep"},
     i : Nat, age : 0 .. MaxLate, wake : 0 .. MaxDelay, len : Nat]

LEMMA TypeFacts ==
    ASSUME TypeOK
    PROVE  /\ bus \in BusType /\ bus.i <= Len(callbacks) /\ bus.len <= Len(callbacks)
           /\ callbacks \in Seq(Callbacks) /\ Len(callbacks) \in Nat
           /\ \A i \in 1 .. Len(callbacks) : callbacks[i] \in Callbacks
           /\ Listed \subseteq Callbacks /\ 0 \in 0 .. MaxLate
<1>1. /\ callbacks \in Seq(Callbacks) /\ bus \in BusType
      /\ bus.i <= Len(callbacks) /\ bus.len <= Len(callbacks)
  BY DEF TypeOK, BusType
<1>2. Len(callbacks) \in Nat /\ \A i \in 1 .. Len(callbacks) : callbacks[i] \in Callbacks
  BY <1>1, SMTT(60)
<1>3. Listed \subseteq Callbacks
  BY <1>2 DEF Listed
<1>4. 0 \in 0 .. MaxLate
  BY DeviceBusAssumption, SMTT(60)
<1>5. QED
  BY <1>1, <1>2, <1>3, <1>4

LEMMA TypeKept ==
    ASSUME TypeOK, UNCHANGED <<callbacks, phase, busPrio, main, due, prio>>,
           bus' \in BusType, bus'.i <= Len(callbacks), bus'.len <= Len(callbacks)
    PROVE  TypeOK'
BY DEF TypeOK, BusType

LEMMA ScanIInv == IInv /\ bus_scan => IInv'
<1> SUFFICES ASSUME IInv, bus_scan PROVE IInv'
  OBVIOUS
<1>1. /\ TypeOK /\ ListInv /\ PhaseKept /\ bus.pc = "scan" /\ ~Waits("bus")
      /\ bus' = [bus EXCEPT !.pc = "next", !.i = Len(callbacks), !.age = 0]
      /\ UNCHANGED <<callbacks, phase, busPrio, main, due, mutex, prio>>
  BY DEF IInv, bus_scan, BusAt, ListOnly
<1>2. /\ bus'.pc = "next" /\ bus'.i = Len(callbacks) /\ bus'.len = bus.len
      /\ Len(callbacks) \in Nat /\ 0 \in 0 .. MaxLate
      /\ bus' \in BusType /\ bus'.i <= Len(callbacks) /\ bus'.len <= Len(callbacks)
  <2> DEFINE n == Len(callbacks)
  <2>1. bus \in BusType /\ bus.i <= n /\ bus.len <= n /\ n \in Nat /\ 0 \in 0 .. MaxLate
    BY <1>1, TypeFacts
  <2>2. bus' = [bus EXCEPT !.pc = "next", !.i = n, !.age = 0]
    BY <1>1
  <2> HIDE DEF n
  <2>3. bus' \in BusType
    BY <2>1, <2>2 DEF BusType
  <2>4. bus'.i <= n /\ bus'.len <= n /\ bus'.pc = "next" /\ bus'.i = n /\ bus'.len = bus.len
    BY <2>1, <2>2, SMTT(60) DEF BusType
  <2>5. QED
    BY <2>1, <2>3, <2>4 DEF n
<1>3. TypeOK'
  BY <1>1, <1>2, TypeKept
<1>4. ListInv' /\ PhaseKept' /\ WakesInTime'
  <2>1. ListInv'
    BY <1>1, <1>2 DEF ListInv, Listed, InCallback
  <2>2. PhaseKept'
    BY <1>1, PhaseSame
  <2>3. WakesInTime'
    BY <1>2 DEF WakesInTime
  <2>4. QED
    BY <2>1, <2>2, <2>3
<1>5. MutexInv' /\ PrioInv'
  BY <1>1, <1>2, MutexesKept DEF Uses, InCallback
<1>6. QED
  BY <1>3, <1>4, <1>5 DEF IInv

LEMMA WakeIInv == IInv /\ bus_wake => IInv'
<1> SUFFICES ASSUME IInv, bus_wake PROVE IInv'
  BY SMTT(60)
<1>1. /\ TypeOK /\ ListInv /\ PhaseKept /\ bus.pc = "sleep" /\ ~Waits("bus")
      /\ bus' = [bus EXCEPT !.pc = "scan", !.len = 0]
      /\ UNCHANGED <<callbacks, phase, busPrio, main, due, mutex, prio>>
  BY DEF IInv, bus_wake, BusAt, ListOnly
<1>2. /\ bus'.pc = "scan" /\ bus'.i = bus.i /\ bus'.len = 0 /\ Len(callbacks) \in Nat
      /\ bus' \in BusType /\ bus'.i <= Len(callbacks) /\ bus'.len <= Len(callbacks)
  <2> DEFINE n == Len(callbacks)
  <2>1. bus \in BusType /\ bus.i <= n /\ bus.len <= n /\ n \in Nat /\ 0 \in 0 .. MaxLate
    BY <1>1, TypeFacts
  <2>2. bus' = [bus EXCEPT !.pc = "scan", !.len = 0]
    BY <1>1
  <2> HIDE DEF n
  <2>3. bus' \in BusType
    BY <2>1, <2>2 DEF BusType
  <2>4. bus'.i <= n /\ bus'.len <= n /\ bus'.pc = "scan" /\ bus'.i = bus.i /\ bus'.len = 0
    BY <2>1, <2>2, SMTT(60) DEF BusType
  <2>5. QED
    BY <2>1, <2>3, <2>4 DEF n
<1>3. TypeOK'
  BY <1>1, <1>2, TypeKept
<1>4. ListInv' /\ PhaseKept' /\ WakesInTime'
  <2>1. ListInv'
    BY <1>1, <1>2 DEF ListInv, Listed, InCallback
  <2>2. PhaseKept'
    BY <1>1, PhaseSame
  <2>3. WakesInTime'
    BY <1>2 DEF WakesInTime
  <2>4. QED
    BY <2>1, <2>2, <2>3, SMTT(60)
<1>5. MutexInv' /\ PrioInv'
  BY <1>1, <1>2, MutexesKept DEF Uses, InCallback
<1>6. QED
  BY <1>3, <1>4, <1>5, SMTT(60) DEF IInv

\* The sleep ends by the time the first callback is due.
LEMMA SleepIInv == IInv /\ bus_sleep => IInv'
<1> SUFFICES ASSUME IInv, bus_sleep PROVE IInv'
  BY SMTT(60)
<1> DEFINE D == {due[c] : c \in Listed}
           needed == IF callbacks = <<>> THEN MaxDelay ELSE Least(D)
           w == Clamp(needed, MinDelay, MaxDelay)
<1>1. /\ TypeOK /\ ListInv /\ PhaseKept /\ bus.pc = "next" /\ ~Waits("bus")
      /\ bus' = [pc |-> "sleep", i |-> 0, age |-> 0, len |-> Len(callbacks), wake |-> w]
      /\ UNCHANGED <<callbacks, phase, busPrio, main, due, mutex, prio>>
  BY DEF IInv, bus_sleep, BusAt, ListOnly
<1>2. callbacks \in Seq(Callbacks) /\ Len(callbacks) \in Nat
  BY <1>1, SMTT(60) DEF TypeOK
<1>3. needed \in Int /\ \A i \in 1 .. Len(callbacks) : needed <= due[callbacks[i]]
  <2>1. CASE callbacks = <<>>
    BY <2>1, DeviceBusAssumption, SMTT(60)
  <2>2. CASE callbacks # <<>>
    <3>1. D \in SUBSET Int /\ D # {} /\ \A x \in D : -MaxLate <= x
      <4>1. Len(callbacks) > 0
        BY <1>2, <2>2, SMTT(60)
      <4>2. \A i \in 1 .. Len(callbacks) : callbacks[i] \in Callbacks
        BY <1>2, SMTT(60)
      <4>3. \A c \in Callbacks : due[c] \in Int /\ -MaxLate <= due[c]
        BY <1>1, DeviceBusAssumption, SMTT(60) DEF TypeOK
      <4>4. Listed \subseteq Callbacks /\ callbacks[1] \in Listed
        BY <1>2, <4>1, <4>2, SMTT(60) DEF Listed
      <4>5. QED
        BY <4>3, <4>4
    <3>2. Least(D) \in D /\ \A y \in D : Least(D) <= y
      <4> HIDE DEF D
      <4>1. QED
        BY <3>1, LeastIs, DeviceBusAssumption
    <3>3. \A i \in 1 .. Len(callbacks) : due[callbacks[i]] \in D
      BY DEF Listed
    <3>4. QED
      BY <2>2, <3>1, <3>2, <3>3
  <2>3. QED
    BY <2>1, <2>2
<1> HIDE DEF needed
<1>4. w \in 0 .. MaxDelay /\ (w <= MinDelay \/ w <= needed)
  BY <1>3, DeviceBusAssumption, SMTT(60) DEF Clamp
<1> HIDE DEF w
<1>5. /\ bus'.pc = "sleep" /\ bus'.i = 0 /\ bus'.len = Len(callbacks) /\ bus'.wake = w
      /\ bus' \in BusType /\ bus'.i <= Len(callbacks) /\ bus'.len <= Len(callbacks)
  BY <1>1, <1>2, <1>4, DeviceBusAssumption, SMTT(60) DEF BusType
<1>6. TypeOK'
  BY <1>1, <1>5, TypeKept
<1>7. ListInv' /\ PhaseKept'
  BY <1>1, <1>5, PhaseSame DEF ListInv, Listed, InCallback
<1>8. WakesInTime'
  <2>1. ASSUME NEW i \in 1 .. Len(callbacks) PROVE w <= due[callbacks[i]] \/ w <= MinDelay
    <3>1. due[callbacks[i]] \in Int
      BY <1>1, <1>2, SMTT(60) DEF TypeOK
    <3>2. QED
      BY <1>3, <1>4, <3>1, DeviceBusAssumption, SMTT(60)
  <2>2. QED
    BY <1>1, <1>5, <2>1 DEF WakesInTime
<1>9. MutexInv' /\ PrioInv'
  BY <1>1, <1>5, MutexesKept DEF Uses, InCallback
<1>10. QED
  BY <1>6, <1>7, <1>8, <1>9 DEF IInv

\* The bus thread moves within a callback, or on to the next one.
LEMMA BusMoves ==
    ASSUME TypeOK, NEW p \in {"next", "callback", "sample", "publish", "published", "give"},
           \/ bus' = [bus EXCEPT !.pc = p]
           \/ bus.i > 0 /\ bus' = [bus EXCEPT !.pc = p, !.i = bus.i - 1]
    PROVE  /\ bus' \in BusType /\ bus'.pc = p /\ bus'.i \in {bus.i, bus.i - 1}
           /\ bus'.i <= Len(callbacks) /\ bus'.len <= Len(callbacks) /\ bus'.len = bus.len
<1> DEFINE n == Len(callbacks)
<1>1. bus \in BusType /\ bus.i <= n /\ bus.len <= n /\ n \in Nat
  BY TypeFacts
<1> HIDE DEF n
<1>2. bus.i \in Nat /\ bus.len \in Nat
  BY <1>1 DEF BusType
<1>3. CASE bus' = [bus EXCEPT !.pc = p]
  <2>1. bus' \in BusType
    BY <1>1, <1>3 DEF BusType
  <2>2. bus'.pc = p /\ bus'.i = bus.i /\ bus'.len = bus.len
    BY <1>1, <1>3 DEF BusType
  <2>3. QED
    BY <1>1, <2>1, <2>2 DEF n
<1>4. CASE bus.i > 0 /\ bus' = [bus EXCEPT !.pc = p, !.i = bus.i - 1]
  <2>1. bus.i - 1 \in Nat
    BY <1>2, <1>4, SMTT(60)
  <2>2. bus' \in BusType
    BY <1>1, <1>4, <2>1 DEF BusType
  <2>3. bus'.pc = p /\ bus'.i = bus.i - 1 /\ bus'.len = bus.len
    BY <1>1, <1>4 DEF BusType
  <2>4. bus.i - 1 <= n
    BY <1>1, <1>2, SMTT(60)
  <2>5. QED
    BY <1>1, <2>2, <2>3, <2>4 DEF n
<1>5. QED
  BY <1>3, <1>4

\* The types after a step of the bus thread.
LEMMA BusTypes ==
    ASSUME TypeOK, UNCHANGED <<callbacks, busPrio, main>>, prio' \in [Threads -> Nat],
           bus' \in BusType, bus'.i <= Len(callbacks), bus'.len <= Len(callbacks),
           due' \in [Callbacks -> Int], phase' \in [Callbacks -> Int],
           \A c \in Callbacks : due'[c] \in -MaxLate .. Period[c] /\ phase'[c] \in 0 .. Period[c] - 1
    PROVE  TypeOK'
BY DEF TypeOK, BusType, Threads

\* next_usec is moved on by whole periods, so it stays in phase.
LEMMA MovedOnPhase ==
    ASSUME TypeOK, PhaseKept, NEW c \in Callbacks, NEW a \in 0 .. MaxLate, due[c] + a <= 0,
           due' = [due EXCEPT ![c] = MovedOn(due[c] + a, Period[c]) - a],
           UNCHANGED <<callbacks, phase>>
    PROVE  /\ PhaseKept' /\ due' \in [Callbacks -> Int]
           /\ \A d \in Callbacks : due'[d] \in -MaxLate .. Period[d]
<1> DEFINE n == Period[c]
           x == due[c] + a
           M == MovedOn(x, n)
<1>1. /\ n \in Nat \ {0} /\ x \in Int /\ due[c] \in Int /\ phase[c] \in Int /\ a \in Int
      /\ 0 <= a /\ a <= MaxLate /\ MaxLate \in Nat
  BY DeviceBusAssumption, SMTT(60) DEF TypeOK
<1>2. M \in 1 .. n /\ \E k \in Int : M = x + k * n
  <2> HIDE DEF x, n
  <2>1. x <= 0
    BY DEF x
  <2>2. QED
    BY <1>1, <2>1, MovedOnRange
<1>3. PICK k \in Int : M = x + k * n
  BY <1>2
<1>4. due' = [due EXCEPT ![c] = M - a]
  OBVIOUS
<1> HIDE DEF M
<1>5. M - a \in -MaxLate .. n /\ M - a \in Int
  <2> HIDE DEF n
  <2>1. QED
    BY <1>1, <1>2, SMTT(60)
<1>6. /\ due \in [Callbacks -> Int]
      /\ \A d \in Callbacks : due[d] \in -MaxLate .. Period[d]
  BY DEF TypeOK
<1>7. /\ due' \in [Callbacks -> Int] /\ due'[c] = M - a
      /\ \A d \in Callbacks \ {c} : due'[d] = due[d]
  BY <1>4, <1>5, <1>6
<1>8. \A d \in Callbacks : due'[d] \in -MaxLate .. Period[d]
  BY <1>5, <1>6, <1>7
<1>9. ASSUME NEW d \in Listed PROVE (due'[d] + phase[d]) % Period[d] = 0
  <2>1. d \in Callbacks /\ (due[d] + phase[d]) % Period[d] = 0
    BY TypeFacts DEF PhaseKept
  <2>2. CASE d # c
    BY <1>7, <2>1, <2>2
  <2>3. CASE d = c
    <3> DEFINE s == due[c] + phase[c]
    <3>1. s % n = 0 /\ s \in Int
      BY <1>1, <2>1, <2>3, SMTT(60)
    <3>2. due'[c] + phase[c] = s + k * n
      <4> DEFINE z == k * n
      <4>1. z \in Int
        BY <1>1, SMTT(60)
      <4>2. M = due[c] + a + z
        BY <1>3
      <4> HIDE DEF z
      <4>3. (M - a) + phase[c] = due[c] + phase[c] + z
        BY <1>1, <4>1, <4>2, SMTT(60)
      <4>4. QED
        BY <1>7, <4>3 DEF z
    <3> HIDE DEF s, n
    <3>3. (s + k * n) % n = 0
      BY <1>1, <3>1, WholePeriods
    <3>4. QED
      BY <2>3, <3>2, <3>3 DEF n
  <2>4. QED
    BY <2>2, <2>3
<1>10. PhaseKept'
  BY <1>9, SMTT(60) DEF PhaseKept, Listed
<1>11. QED
  BY <1>7, <1>8, <1>10

LEMMA BusNextIInv == IInv /\ bus_next => IInv'
<1> SUFFICES ASSUME IInv, bus_next PROVE IInv'
  BY SMTT(60)
<1> DEFINE c == callbacks[bus.i]
           x == due[c] + bus.age
<1>1. /\ TypeOK /\ ListInv /\ MutexInv /\ PhaseKept /\ bus.pc = "next" /\ ~Waits("bus") /\ bus.i > 0
      /\ UNCHANGED <<callbacks, phase, busPrio, main>> /\ prio \in [Threads -> Nat]
  BY DEF IInv, bus_next, BusAt, ListOnly, TypeOK, Threads
<1>2. c \in Callbacks /\ bus.age \in 0 .. MaxLate /\ bus.i \in Nat
  BY <1>1, TypeFacts, SMTT(60) DEF BusType
<1>3. CASE x <= 0
  <2>1. /\ due' = [due EXCEPT ![c] = MovedOn(x, Period[c]) - bus.age]
        /\ bus' = [bus EXCEPT !.pc = "callback"] /\ Take("bus", "semaphore")
    BY <1>3 DEF bus_next
  <2>2. /\ bus' \in BusType /\ bus'.pc = "callback" /\ bus'.i = bus.i
        /\ bus'.i <= Len(callbacks) /\ bus'.len <= Len(callbacks)
    <3>1. bus'.i = bus.i
      BY <1>1, <2>1, TypeFacts DEF BusType
    <3>2. QED
      BY <1>1, <2>1, <3>1, BusMoves
  <2>3. /\ PhaseKept' /\ due' \in [Callbacks -> Int]
        /\ \A d \in Callbacks : due'[d] \in -MaxLate .. Period[d]
    BY <1>1, <1>2, <1>3, <2>1, MovedOnPhase
  <2>4. PrioInv' /\ prio' \in [Threads -> Nat]
    BY <1>1, <2>1, BusTakePrio DEF Mutexes
  <2>5. TypeOK'
    <3>1. phase' \in [Callbacks -> Int] /\ \A d \in Callbacks : phase'[d] \in 0 .. Period[d] - 1
      BY <1>1 DEF TypeOK
    <3>2. QED
      BY <1>1, <2>2, <2>3, <2>4, <3>1, BusTypes
  <2>6. ListInv' /\ WakesInTime'
    BY <1>1, <2>2 DEF ListInv, Listed, WakesInTime
  <2>7. MutexInv'
    <3>1. \A n \in Mutexes : ~WaitsFor("bus", n)
      BY <1>1, WaitsWhere DEF Threads
    <3>2. /\ ~Uses("bus", "semaphore") /\ Asked("semaphore")'
          /\ \A u \in Threads, n \in Mutexes :
               Uses(u, n)' <=> Uses(u, n) \/ (u = "bus" /\ n = "semaphore")
      BY <1>1, <2>2 DEF Uses, Asked, Threads, Mutexes, InCallback
    <3>3. "bus" \in Threads /\ "semaphore" \in Mutexes
      BY DEF Threads, Mutexes
    <3>4. QED
      BY <1>1, <2>1, <3>1, <3>2, <3>3, TakeGood
  <2>8. QED
    BY <2>3, <2>4, <2>5, <2>6, <2>7 DEF IInv
<1>4. CASE ~(x <= 0)
  <2>1. bus' = [bus EXCEPT !.i = @ - 1] /\ UNCHANGED <<due, mutex, prio>>
    BY <1>4 DEF bus_next
  <2>2. bus' = [bus EXCEPT !.pc = "next", !.i = bus.i - 1]
    BY <1>1, <2>1, TypeFacts DEF BusType
  <2>3. /\ bus' \in BusType /\ bus'.pc = "next"
        /\ bus'.i <= Len(callbacks) /\ bus'.len <= Len(callbacks)
    BY <1>1, <2>2, BusMoves
  <2>4. TypeOK' /\ PhaseKept'
    BY <1>1, <2>1, <2>3, TypeKept, PhaseSame
  <2>5. ListInv' /\ WakesInTime'
    BY <1>1, <2>3 DEF ListInv, Listed, WakesInTime, InCallback
  <2>6. MutexInv' /\ PrioInv'
    BY <1>1, <2>1, <2>3, MutexesKept DEF Uses, InCallback
  <2>7. QED
    BY <2>4, <2>5, <2>6 DEF IInv
<1>5. QED
  BY <1>3, <1>4

\* A callback that starts or restarts its period is in phase.
LEMMA PhaseReset ==
    ASSUME TypeOK, PhaseKept, NEW c \in Callbacks, \A d \in Listed' : d = c \/ d \in Listed,
           due' = [due EXCEPT ![c] = Period[c]], phase' = [phase EXCEPT ![c] = 0]
    PROVE  /\ PhaseKept' /\ due' \in [Callbacks -> Int] /\ phase' \in [Callbacks -> Int]
           /\ \A d \in Callbacks :
                due'[d] \in -MaxLate .. Period[d] /\ phase'[d] \in 0 .. Period[d] - 1
<1>1. /\ Period[c] \in Nat \ {0} /\ MaxLate \in Nat
      /\ due \in [Callbacks -> Int] /\ phase \in [Callbacks -> Int]
      /\ \A d \in Callbacks : due[d] \in -MaxLate .. Period[d] /\ phase[d] \in 0 .. Period[d] - 1
  BY DeviceBusAssumption DEF TypeOK
<1>2. /\ due' \in [Callbacks -> Int] /\ due'[c] = Period[c]
      /\ phase' \in [Callbacks -> Int] /\ phase'[c] = 0
      /\ \A d \in Callbacks \ {c} : due'[d] = due[d] /\ phase'[d] = phase[d]
  BY <1>1, SMTT(60)
<1>3. \A d \in Callbacks :
        due'[d] \in -MaxLate .. Period[d] /\ phase'[d] \in 0 .. Period[d] - 1
  <2>1. Period[c] \in -MaxLate .. Period[c] /\ 0 \in 0 .. Period[c] - 1
    <3> DEFINE n == Period[c]
    <3> HIDE DEF n
    <3>1. n \in -MaxLate .. n /\ 0 \in 0 .. n - 1
      BY <1>1, SMTT(60) DEF n
    <3>2. QED
      BY <3>1 DEF n
  <2>2. QED
    BY <1>1, <1>2, <2>1
<1>4. (due'[c] + phase'[c]) % Period[c] = 0
  <2> DEFINE n == Period[c]
  <2> HIDE DEF n
  <2>1. n \in Nat \ {0} /\ n + 0 = 1 * n + 0 /\ n + 0 \in Int /\ 0 \in 0 .. n - 1
    BY <1>1, SMTT(60) DEF n
  <2>2. (n + 0) % n = 0
    BY <2>1, ModUnique, SMTT(60)
  <2>3. QED
    BY <1>2, <2>2 DEF n
<1>5. ASSUME NEW d \in Listed', d # c PROVE (due'[d] + phase'[d]) % Period[d] = 0
  <2>1. d \in Listed /\ d \in Callbacks
    BY <1>5, TypeFacts
  <2>2. (due[d] + phase[d]) % Period[d] = 0
    BY <2>1 DEF PhaseKept
  <2>3. QED
    BY <1>2, <1>5, <2>1, <2>2
<1>6. PhaseKept'
  BY <1>4, <1>5 DEF PhaseKept
<1>7. QED
  BY <1>2, <1>3, <1>6

LEMMA TransferIInv == IInv /\ bus_transfer => IInv'
<1> SUFFICES ASSUME IInv, bus_transfer PROVE IInv'
  BY SMTT(60)
<1> DEFINE c == callbacks[bus.i]
<1>1. /\ TypeOK /\ ListInv /\ MutexInv /\ PhaseKept /\ bus.pc = "callback" /\ ~Waits("bus")
      /\ UNCHANGED <<callbacks, busPrio, main, mutex, prio>> /\ bus.i > 0
      /\ prio \in [Threads -> Nat]
  BY DEF IInv, bus_transfer, BusAt, TypeOK, Threads, ListInv, InCallback
<1>2. c \in Callbacks
  BY <1>1, TypeFacts, SMTT(60) DEF BusType
<1>3. \/ bus' = [bus EXCEPT !.pc = "give"] \/ bus' = [bus EXCEPT !.pc = "sample"]
  BY DEF bus_transfer
<1>4. /\ bus' \in BusType /\ bus'.pc \in {"give", "sample"} /\ bus'.i = bus.i
      /\ bus'.i <= Len(callbacks) /\ bus'.len <= Len(callbacks)
  <2>1. bus'.i = bus.i
    BY <1>1, <1>3, TypeFacts DEF BusType
  <2>2. QED
    BY <1>1, <1>3, <2>1, BusMoves
<1>5. \/ UNCHANGED <<due, phase>>
      \/ due' = [due EXCEPT ![c] = Period[c]] /\ phase' = [phase EXCEPT ![c] = 0]
  BY DEF bus_transfer, adjust_timer
<1>6. /\ PhaseKept' /\ due' \in [Callbacks -> Int] /\ phase' \in [Callbacks -> Int]
      /\ \A d \in Callbacks :
           due'[d] \in -MaxLate .. Period[d] /\ phase'[d] \in 0 .. Period[d] - 1
  <2>1. CASE UNCHANGED <<due, phase>>
    BY <1>1, <2>1, PhaseSame DEF TypeOK
  <2>2. CASE due' = [due EXCEPT ![c] = Period[c]] /\ phase' = [phase EXCEPT ![c] = 0]
    <3>1. Listed' = Listed
      BY <1>1 DEF Listed
    <3>2. QED
      BY <1>1, <1>2, <2>2, <3>1, PhaseReset
  <2>3. QED
    BY <1>5, <2>1, <2>2
<1>7. TypeOK'
  BY <1>1, <1>4, <1>6, BusTypes
<1>8. ListInv' /\ WakesInTime'
  BY <1>1, <1>4 DEF ListInv, Listed, WakesInTime
<1>9. MutexInv' /\ PrioInv'
  BY <1>1, <1>4, MutexesKept DEF Uses, InCallback
<1>10. QED
  BY <1>6, <1>7, <1>8, <1>9 DEF IInv

LEMMA CallbackIInv == IInv /\ bus_callback => IInv'
<1> SUFFICES ASSUME IInv, bus_callback PROVE IInv'
  BY SMTT(60)
<1>1. /\ TypeOK /\ ListInv /\ MutexInv /\ PhaseKept /\ bus.pc = "sample" /\ ~Waits("bus")
      /\ UNCHANGED <<callbacks, phase, busPrio, main, due>> /\ bus.i > 0
      /\ prio \in [Threads -> Nat]
  BY DEF IInv, bus_callback, BusAt, ListOnly, TypeOK, Threads, ListInv, InCallback
<1>2. \/ bus' = [bus EXCEPT !.pc = "give"] /\ UNCHANGED <<mutex, prio>>
      \/ bus' = [bus EXCEPT !.pc = "publish"] /\ Take("bus", "_sem")
  BY DEF bus_callback
<1>3. /\ bus' \in BusType /\ bus'.pc \in {"give", "publish"} /\ bus'.i = bus.i
      /\ bus'.i <= Len(callbacks) /\ bus'.len <= Len(callbacks)
  <2>1. bus'.i = bus.i
    BY <1>1, <1>2, TypeFacts DEF BusType
  <2>2. QED
    BY <1>1, <1>2, <2>1, BusMoves
<1>4. ListInv' /\ WakesInTime' /\ PhaseKept'
  BY <1>1, <1>3, PhaseSame DEF ListInv, Listed, WakesInTime
<1>5. CASE bus' = [bus EXCEPT !.pc = "give"] /\ UNCHANGED <<mutex, prio>>
  <2>1. bus'.pc = "give"
    BY <1>1, <1>5, BusMoves
  <2>2. TypeOK'
    BY <1>1, <1>3, <1>5, TypeKept
  <2>3. MutexInv' /\ PrioInv'
    BY <1>1, <1>5, <2>1, MutexesKept DEF Uses, InCallback
  <2>4. QED
    BY <1>4, <2>2, <2>3 DEF IInv
<1>6. CASE bus' = [bus EXCEPT !.pc = "publish"] /\ Take("bus", "_sem")
  <2>1. bus'.pc = "publish"
    BY <1>1, <1>6, BusMoves
  <2>2. PrioInv' /\ prio' \in [Threads -> Nat]
    BY <1>1, <1>6, BusTakePrio DEF Mutexes
  <2>3. TypeOK'
    <3>1. /\ due' \in [Callbacks -> Int] /\ phase' \in [Callbacks -> Int]
          /\ \A d \in Callbacks :
               due'[d] \in -MaxLate .. Period[d] /\ phase'[d] \in 0 .. Period[d] - 1
      BY <1>1 DEF TypeOK
    <3>2. QED
      BY <1>1, <1>3, <2>2, <3>1, BusTypes
  <2>4. MutexInv'
    <3>1. \A n \in Mutexes : ~WaitsFor("bus", n)
      BY <1>1, WaitsWhere DEF Threads
    <3>2. /\ ~Uses("bus", "_sem") /\ Asked("_sem")'
          /\ \A u \in Threads, n \in Mutexes :
               Uses(u, n)' <=> Uses(u, n) \/ (u = "bus" /\ n = "_sem")
      BY <1>1, <2>1 DEF Uses, Asked, Threads, Mutexes, InCallback
    <3>3. "bus" \in Threads /\ "_sem" \in Mutexes
      BY DEF Threads, Mutexes
    <3>4. QED
      BY <1>1, <1>6, <3>1, <3>2, <3>3, TakeGood
  <2>5. QED
    BY <1>4, <2>2, <2>3, <2>4 DEF IInv
<1>7. QED
  BY <1>2, <1>5, <1>6

LEMMA PublishIInv == IInv /\ bus_publish => IInv'
<1> SUFFICES ASSUME IInv, bus_publish PROVE IInv'
  BY SMTT(60)
<1>1. /\ TypeOK /\ ListInv /\ MutexInv /\ PhaseKept /\ bus.pc = "publish" /\ ~Waits("bus")
      /\ UNCHANGED <<callbacks, phase, busPrio, main, due>> /\ bus.i > 0
      /\ prio \in [Threads -> Nat]
      /\ bus' = [bus EXCEPT !.pc = "published"] /\ Give("_sem")
  BY DEF IInv, bus_publish, BusAt, ListOnly, TypeOK, Threads, ListInv, InCallback
<1>2. /\ bus' \in BusType /\ bus'.pc = "published" /\ bus'.i = bus.i
      /\ bus'.i <= Len(callbacks) /\ bus'.len <= Len(callbacks)
  <2>1. bus'.i = bus.i
    BY <1>1, TypeFacts DEF BusType
  <2>2. QED
    BY <1>1, <2>1, BusMoves
<1>3. ListInv' /\ WakesInTime' /\ PhaseKept'
  BY <1>1, <1>2, PhaseSame DEF ListInv, Listed, WakesInTime
<1>4. PrioInv' /\ prio' \in [Threads -> Nat]
  BY <1>1, <1>2, BusPublishPrio
<1>5. TypeOK'
  <2>1. /\ due' \in [Callbacks -> Int] /\ phase' \in [Callbacks -> Int]
        /\ \A d \in Callbacks :
             due'[d] \in -MaxLate .. Period[d] /\ phase'[d] \in 0 .. Period[d] - 1
    BY <1>1 DEF TypeOK
  <2>2. QED
    BY <1>1, <1>2, <1>4, <2>1, BusTypes
<1>6. MutexInv'
  <2>1. \A n \in Mutexes : ~WaitsFor("bus", n)
    BY <1>1, WaitsWhere DEF Threads
  <2>2. /\ Uses("bus", "_sem")
        /\ \A u \in Threads, n \in Mutexes :
             Uses(u, n)' <=> Uses(u, n) /\ ~(u = "bus" /\ n = "_sem")
    BY <1>1, <1>2 DEF Uses, Threads, Mutexes, InCallback
  <2>3. "bus" \in Threads /\ "_sem" \in Mutexes
    BY SMTT(60) DEF Threads, Mutexes
  <2>4. QED
    BY <1>1, <2>1, <2>2, <2>3, GiveGood
<1>7. QED
  BY <1>3, <1>4, <1>5, <1>6, SMTT(60) DEF IInv

LEMMA GiveIInv == IInv /\ bus_give => IInv'
<1> SUFFICES ASSUME IInv, bus_give PROVE IInv'
  BY SMTT(60)
<1>1. /\ TypeOK /\ ListInv /\ MutexInv /\ PhaseKept /\ bus.pc \in {"give", "published"}
      /\ ~Waits("bus") /\ UNCHANGED <<callbacks, phase, busPrio, main, due>> /\ bus.i > 0
      /\ prio \in [Threads -> Nat]
      /\ bus' = [bus EXCEPT !.pc = "next", !.i = @ - 1] /\ Give("semaphore")
  BY DEF IInv, bus_give, BusAt, ListOnly, TypeOK, Threads, ListInv, InCallback
<1>2. /\ bus' \in BusType /\ bus'.pc = "next"
      /\ bus'.i <= Len(callbacks) /\ bus'.len <= Len(callbacks)
  <2>1. bus' = [bus EXCEPT !.pc = "next", !.i = bus.i - 1]
    BY <1>1
  <2>2. QED
    BY <1>1, <2>1, BusMoves
<1>3. ListInv' /\ WakesInTime' /\ PhaseKept'
  BY <1>1, <1>2, PhaseSame DEF ListInv, Listed, WakesInTime, InCallback
<1>4. PrioInv' /\ prio' \in [Threads -> Nat]
  BY <1>1, BusGivePrio
<1>5. TypeOK'
  <2>1. /\ due' \in [Callbacks -> Int] /\ phase' \in [Callbacks -> Int]
        /\ \A d \in Callbacks :
             due'[d] \in -MaxLate .. Period[d] /\ phase'[d] \in 0 .. Period[d] - 1
    BY <1>1 DEF TypeOK
  <2>2. QED
    BY <1>1, <1>2, <1>4, <2>1, BusTypes
<1>6. MutexInv'
  <2>1. \A n \in Mutexes : ~WaitsFor("bus", n)
    BY <1>1, WaitsWhere DEF Threads
  <2>2. /\ Uses("bus", "semaphore")
        /\ \A u \in Threads, n \in Mutexes :
             Uses(u, n)' <=> Uses(u, n) /\ ~(u = "bus" /\ n = "semaphore")
    BY <1>1, <1>2 DEF Uses, Threads, Mutexes, InCallback
  <2>3. "bus" \in Threads /\ "semaphore" \in Mutexes
    BY SMTT(60) DEF Threads, Mutexes
  <2>4. QED
    BY <1>1, <2>1, <2>2, <2>3, GiveGood
<1>7. QED
  BY <1>3, <1>4, <1>5, <1>6, SMTT(60) DEF IInv

-----------------------------------------------------------------------------
(* The steps of the main thread, and time *)

LEMMA StartIInv ==
    ASSUME IInv, NEW c \in Callbacks, register_start(c)
    PROVE  IInv'
<1>1. /\ TypeOK /\ ListInv /\ MutexInv /\ PhaseKept /\ WakesInTime /\ main = "idle" /\ c \notin Listed
      /\ main' = c /\ UNCHANGED <<callbacks, due, phase, busPrio, mutex, prio>>
      /\ bus' = IF bus.pc = "none" THEN [bus EXCEPT !.pc = "scan"] ELSE bus
  BY DEF IInv, register_start, MainAt
<1>2. main \notin Mutexes /\ main' \notin Mutexes /\ bus \in BusType
  BY <1>1, TypeFacts, DeviceBusAssumption DEF Mutexes
<1>3. /\ bus' \in BusType /\ bus'.i = bus.i /\ bus'.len = bus.len /\ bus'.wake = bus.wake
      /\ (bus'.pc = bus.pc \/ (bus.pc = "none" /\ bus'.pc = "scan"))
  <2>1. CASE bus.pc = "none"
    <3>1. bus' = [bus EXCEPT !.pc = "scan"]
      BY <1>1, <2>1
    <3>2. bus' \in BusType
      BY <1>2, <3>1 DEF BusType
    <3>3. bus'.i = bus.i /\ bus'.len = bus.len /\ bus'.wake = bus.wake /\ bus'.pc = "scan"
      BY <1>2, <3>1 DEF BusType
    <3>4. QED
      BY <2>1, <3>2, <3>3
  <2>2. CASE bus.pc # "none"
    BY <1>1, <1>2, <2>2
  <2>3. QED
    BY <2>1, <2>2
<1>4. TypeOK'
  BY <1>1, <1>3 DEF TypeOK, BusType
<1>5. ListInv' /\ PhaseKept'
  BY <1>1, <1>3, PhaseSame DEF ListInv, Listed, InCallback
<1>6. WakesInTime'
  BY <1>1, <1>3 DEF WakesInTime
<1>7. MutexInv' /\ PrioInv'
  <2>1. \A u \in Threads, n \in Mutexes : Uses(u, n)' <=> Uses(u, n)
    BY <1>2, <1>3 DEF Uses, InCallback
  <2>2. bus'.pc = bus.pc \/ (~Waits("bus") /\ bus.pc # "published")
    <3>1. CASE bus.pc = "none"
      <4>1. \A n \in Mutexes : ~Uses("bus", n)
        BY <3>1 DEF Uses, InCallback
      <4>2. ~Waits("bus")
        BY <1>1, <4>1, WaitsWhere, WaitFacts DEF Threads
      <4>3. QED
        BY <3>1, <4>2
    <3>2. QED
      BY <1>3, <3>1
  <2>3. QED
    BY <1>1, <2>1, <2>2, MutexesKept
<1>8. QED
  BY <1>4, <1>5, <1>6, <1>7 DEF IInv

LEMMA LinkIInv ==
    ASSUME IInv, NEW c \in Callbacks, register_link(c)
    PROVE  IInv'
<1>1. /\ TypeOK /\ ListInv /\ MutexInv /\ PhaseKept /\ WakesInTime /\ main = c
      /\ main' = "idle" /\ UNCHANGED <<busPrio, bus, mutex, prio>>
      /\ \/ /\ callbacks' = Append(callbacks, c) /\ due' = [due EXCEPT ![c] = Period[c]]
            /\ phase' = [phase EXCEPT ![c] = 0]
         \/ UNCHANGED <<callbacks, due, phase>>
  BY DEF IInv, register_link, MainAt, BusOnly
<1>2. /\ main \notin Mutexes /\ main' \notin Mutexes /\ main' \notin Callbacks /\ c \notin Listed
  BY <1>1, DeviceBusAssumption DEF Mutexes, ListInv
<1>3. MutexInv' /\ PrioInv'
  <2>1. \A u \in Threads, n \in Mutexes : Uses(u, n)' <=> Uses(u, n)
    BY <1>1, <1>2 DEF Uses
  <2>2. QED
    BY <1>1, <2>1, MutexesKept
<1>4. ListInv'
  BY <1>1, <1>2 DEF ListInv
<1>5. CASE UNCHANGED <<callbacks, due, phase>>
  <2>1. TypeOK'
    BY <1>1, <1>5 DEF TypeOK
  <2>2. PhaseKept' /\ WakesInTime'
    BY <1>1, <1>5, PhaseSame DEF WakesInTime
  <2>3. QED
    BY <1>3, <1>4, <2>1, <2>2 DEF IInv
<1>6. CASE /\ callbacks' = Append(callbacks, c) /\ due' = [due EXCEPT ![c] = Period[c]]
           /\ phase' = [phase EXCEPT ![c] = 0]
  <2> DEFINE n == Len(callbacks)
  <2>1. /\ callbacks' \in Seq(Callbacks) /\ Len(callbacks') = n + 1 /\ callbacks'[n + 1] = c
        /\ \A i \in 1 .. n : callbacks'[i] = callbacks[i]
        /\ n \in Nat
    BY <1>1, <1>6, TypeFacts, SMTT(60)
  <2>2. \A d \in Listed' : d = c \/ d \in Listed
    BY <2>1, SMTT(60) DEF Listed
  <2>3. /\ PhaseKept' /\ due' \in [Callbacks -> Int] /\ phase' \in [Callbacks -> Int]
        /\ \A d \in Callbacks :
             due'[d] \in -MaxLate .. Period[d] /\ phase'[d] \in 0 .. Period[d] - 1
    BY <1>1, <1>6, <2>2, PhaseReset
  <2>4. bus \in BusType /\ bus.i <= n /\ bus.len <= n /\ bus.i \in Nat /\ bus.len \in Nat
    BY <1>1, TypeFacts DEF BusType
  <2>5. TypeOK'
    <3>1. bus'.i <= Len(callbacks') /\ bus'.len <= Len(callbacks')
      <4> HIDE DEF n
      <4>1. QED
        BY <1>1, <2>1, <2>4, SMTT(60)
    <3>2. QED
      BY <1>1, <2>1, <2>3, <3>1 DEF TypeOK
  <2>6. WakesInTime'
    <3>1. SUFFICES ASSUME bus.pc = "sleep", NEW i \in 1 .. n + 1
                   PROVE  \/ bus.wake <= due'[callbacks'[i]] \/ bus.wake <= MinDelay
                          \/ i > bus.len /\ bus.wake <= MaxDelay
      BY <1>1, <2>1 DEF WakesInTime
    <3>2. CASE i = n + 1
      <4>1. bus.wake <= MaxDelay
        BY <2>4, DeviceBusAssumption, SMTT(60) DEF BusType
      <4>2. i > bus.len
        <5> HIDE DEF n
        <5>1. QED
          BY <2>1, <2>4, <3>2, SMTT(60)
      <4>3. QED
        BY <4>1, <4>2
    <3>3. CASE i # n + 1
      <4>1. i \in 1 .. n
        <5> HIDE DEF n
        <5>1. QED
          BY <2>1, <3>3, SMTT(60)
      <4>2. callbacks'[i] = callbacks[i] /\ callbacks[i] \in Listed /\ callbacks[i] \in Callbacks
        BY <1>1, <2>1, <4>1, TypeFacts DEF Listed
      <4>3. due'[callbacks[i]] = due[callbacks[i]]
        BY <1>1, <1>2, <1>6, <4>2 DEF TypeOK
      <4>4. \/ bus.wake <= due[callbacks[i]] \/ bus.wake <= MinDelay
            \/ i > bus.len /\ bus.wake <= MaxDelay
        BY <1>1, <3>1, <4>1 DEF WakesInTime
      <4>5. QED
        BY <4>2, <4>3, <4>4
    <3>4. QED
      BY <3>2, <3>3
  <2>7. QED
    BY <1>3, <1>4, <2>3, <2>5, <2>6 DEF IInv
<1>7. QED
  BY <1>1, <1>5, <1>6

LEMMA MainTakeIInv ==
    ASSUME IInv, NEW m \in Mutexes, main_take(m)
    PROVE  IInv'
<1>1. /\ TypeOK /\ ListInv /\ MutexInv /\ PhaseKept /\ WakesInTime /\ main = "idle"
      /\ Take("main", m) /\ main' = m /\ UNCHANGED <<callbacks, due, phase, busPrio, bus>>
      /\ prio \in [Threads -> Nat]
  BY DEF IInv, main_take, MainAt, BusOnly, TypeOK, Threads
<1>2. main \notin Mutexes /\ main' \notin Callbacks
  BY <1>1, DeviceBusAssumption DEF Mutexes
<1>3. PrioInv' /\ prio' \in [Threads -> Nat]
  BY <1>1, MainTakePrio
<1>4. TypeOK'
  BY <1>1, <1>3 DEF TypeOK, Threads
<1>5. ListInv' /\ PhaseKept' /\ WakesInTime'
  BY <1>1, <1>2, PhaseSame DEF ListInv, WakesInTime
<1>6. MutexInv'
  <2>1. /\ ~Uses("main", m) /\ "main" \in Threads /\ "main" # "bus"
        /\ \A u \in Threads, n \in Mutexes : Uses(u, n)' <=> Uses(u, n) \/ (u = "main" /\ n = m)
        /\ \A n \in Mutexes : Asked(n)' <=> Asked(n)
    BY <1>1, <1>2 DEF Uses, Asked, Threads
  <2>2. QED
    BY <1>1, <2>1, TakeGood
<1>7. QED
  BY <1>3, <1>4, <1>5, <1>6 DEF IInv

LEMMA MainGiveIInv ==
    ASSUME IInv, NEW m \in Mutexes, main_give(m)
    PROVE  IInv'
<1>1. /\ TypeOK /\ ListInv /\ MutexInv /\ PhaseKept /\ WakesInTime /\ main = m /\ ~Waits("main")
      /\ Give(m) /\ main' = "idle" /\ UNCHANGED <<callbacks, due, phase, busPrio, bus>>
      /\ prio \in [Threads -> Nat]
  BY DEF IInv, main_give, MainAt, BusOnly, TypeOK, Threads
<1>2. main' \notin Mutexes /\ main' \notin Callbacks
  BY <1>1, DeviceBusAssumption DEF Mutexes
<1>3. PrioInv' /\ prio' \in [Threads -> Nat]
  BY <1>1, MainGivePrio
<1>4. TypeOK'
  BY <1>1, <1>3 DEF TypeOK, Threads
<1>5. ListInv' /\ PhaseKept' /\ WakesInTime'
  BY <1>1, <1>2, PhaseSame DEF ListInv, WakesInTime
<1>6. MutexInv'
  <2>1. /\ Uses("main", m) /\ "main" \in Threads /\ "main" # "bus"
        /\ \A u \in Threads, n \in Mutexes : Uses(u, n)' <=> Uses(u, n) /\ ~(u = "main" /\ n = m)
        /\ \A n \in Mutexes : Asked(n)' <=> Asked(n)
    BY <1>1, <1>2 DEF Uses, Asked, Threads
  <2>2. ~WaitsFor("main", m)
    BY <1>1, <2>1, WaitsWhere
  <2>3. QED
    BY <1>1, <2>1, <2>2, GiveGood
<1>7. QED
  BY <1>3, <1>4, <1>5, <1>6, SMTT(60) DEF IInv

\* A callback gets a microsecond nearer as its phase gets one further.
LEMMA PhaseStep ==
    ASSUME NEW d \in Int, NEW n \in Nat \ {0}, NEW f \in 0 .. n - 1, (d + f) % n = 0
    PROVE  (d - 1 + ((f + 1) % n)) % n = 0
<1>1. CASE f + 1 < n
  <2>1. f + 1 = 0 * n + (f + 1) /\ f + 1 \in 0 .. n - 1 /\ f + 1 \in Int
    BY <1>1, SMTT(60)
  <2>2. (f + 1) % n = f + 1
    BY <2>1, ModUnique, SMTT(60)
  <2>3. d - 1 + (f + 1) = d + f
    BY SMTT(60)
  <2>4. QED
    BY <2>2, <2>3
<1>2. CASE ~(f + 1 < n)
  <2>1. f + 1 = 1 * n + 0 /\ 0 \in 0 .. n - 1 /\ f + 1 \in Int
    BY <1>2, SMTT(60)
  <2>2. (f + 1) % n = 0
    BY <2>1, ModUnique, SMTT(60)
  <2>3. d + f \in Int /\ -1 \in Int /\ d - 1 + 0 = d + f + (-1) * n
    BY <2>1, SMTT(60)
  <2>4. (d + f + (-1) * n) % n = 0
    BY <2>3, WholePeriods
  <2>5. QED
    BY <2>2, <2>3, <2>4
<1>3. QED
  BY <1>1, <1>2

LEMMA TickIInv == IInv /\ Tick => IInv'
<1> SUFFICES ASSUME IInv, Tick PROVE IInv'
  BY SMTT(60)
<1>1. /\ TypeOK /\ ListInv /\ MutexInv /\ PhaseKept /\ WakesInTime
      /\ UNCHANGED <<callbacks, busPrio, main, mutex, prio>>
      /\ \A c \in Listed : due[c] > -MaxLate
      /\ due' = [c \in Callbacks |-> IF c \in Listed THEN due[c] - 1 ELSE due[c]]
      /\ phase' = [c \in Callbacks |->
                     IF c \in Listed THEN (phase[c] + 1) % Period[c] ELSE phase[c]]
  BY DEF IInv, Tick
<1>2. /\ bus \in BusType /\ Listed \subseteq Callbacks /\ MaxLate \in Nat
      /\ bus.i <= Len(callbacks) /\ bus.len <= Len(callbacks)
  BY <1>1, TypeFacts, DeviceBusAssumption
<1>3. \/ bus.pc = "sleep" /\ bus.wake > 0 /\ bus' = [bus EXCEPT !.wake = bus.wake - 1]
      \/ bus.pc # "sleep" /\ bus' = bus
      \/ bus.pc # "sleep" /\ bus.age < MaxLate /\ bus' = [bus EXCEPT !.age = bus.age + 1]
  <2>1. bus.pc \in {"none", "scan", "next", "callback", "sample", "publish", "published", "give",
                    "sleep"}
    BY <1>2 DEF BusType
  <2>2. CASE bus.pc = "sleep"
    BY <2>2 DEF Tick
  <2>3. CASE bus.pc \in {"none", "scan"}
    BY <2>3 DEF Tick
  <2>4. CASE bus.pc \in {"next", "callback", "sample", "publish", "published", "give"}
    BY <2>4 DEF Tick
  <2>5. QED
    BY <2>1, <2>2, <2>3, <2>4
<1>4. /\ bus' \in BusType /\ bus'.pc = bus.pc /\ bus'.i = bus.i /\ bus'.len = bus.len
      /\ bus.pc = "sleep" => bus'.wake = bus.wake - 1
  <2>1. CASE bus.pc = "sleep" /\ bus.wake > 0 /\ bus' = [bus EXCEPT !.wake = bus.wake - 1]
    <3>1. bus.wake - 1 \in 0 .. MaxDelay
      BY <1>2, <2>1, DeviceBusAssumption, SMTT(60) DEF BusType
    <3>2. bus' \in BusType
      BY <1>2, <2>1, <3>1 DEF BusType
    <3>3. bus'.pc = bus.pc /\ bus'.i = bus.i /\ bus'.len = bus.len /\ bus'.wake = bus.wake - 1
      BY <1>2, <2>1 DEF BusType
    <3>4. QED
      BY <3>2, <3>3
  <2>2. CASE bus.pc # "sleep" /\ bus' = bus
    BY <1>2, <2>2
  <2>3. CASE bus.pc # "sleep" /\ bus.age < MaxLate /\ bus' = [bus EXCEPT !.age = bus.age + 1]
    <3>1. bus.age + 1 \in 0 .. MaxLate
      BY <1>2, <2>3, SMTT(60) DEF BusType
    <3>2. bus' \in BusType
      BY <1>2, <2>3, <3>1 DEF BusType
    <3>3. bus'.pc = bus.pc /\ bus'.i = bus.i /\ bus'.len = bus.len
      BY <1>2, <2>3 DEF BusType
    <3>4. QED
      BY <2>3, <3>2, <3>3
  <2>4. QED
    BY <1>3, <2>1, <2>2, <2>3
<1>5. ASSUME NEW c \in Callbacks
      PROVE  /\ due'[c] \in Int /\ due'[c] \in -MaxLate .. Period[c]
             /\ phase'[c] \in Int /\ phase'[c] \in 0 .. Period[c] - 1
             /\ c \in Listed => (due'[c] + phase'[c]) % Period[c] = 0
  <2> DEFINE n == Period[c]
             d == due[c]
             f == phase[c]
  <2>1. n \in Nat \ {0} /\ d \in Int /\ d \in -MaxLate .. n /\ f \in Int /\ f \in 0 .. n - 1
    BY <1>1, DeviceBusAssumption DEF TypeOK
  <2>2. CASE c \in Listed
    <3>1. due'[c] = d - 1 /\ phase'[c] = (f + 1) % n /\ d > -MaxLate /\ (d + f) % n = 0
      BY <1>1, <2>2 DEF PhaseKept
    <3> HIDE DEF n, d, f
    <3>2. (d - 1 + ((f + 1) % n)) % n = 0
      BY <2>1, <3>1, PhaseStep
    <3>3. f + 1 \in Int
      BY <2>1, SMTT(60)
    <3>4. (f + 1) % n \in 0 .. n - 1
      BY <2>1, <3>3, DivMod
    <3>5. d - 1 \in -MaxLate .. n /\ d - 1 \in Int
      BY <1>2, <2>1, <3>1, SMTT(60)
    <3>6. QED
      BY <2>1, <3>1, <3>2, <3>4, <3>5, SMTT(60) DEF n
  <2>3. CASE c \notin Listed
    BY <1>1, <2>1, <2>3
  <2>4. QED
    BY <2>2, <2>3
<1>6. TypeOK'
  <2>1. due' \in [Callbacks -> Int] /\ phase' \in [Callbacks -> Int]
    <3>1. DOMAIN due' = Callbacks /\ DOMAIN phase' = Callbacks
      BY <1>1
    <3>2. due' = [c \in Callbacks |-> due'[c]] /\ phase' = [c \in Callbacks |-> phase'[c]]
      BY <1>1, <3>1
    <3>3. QED
      BY <1>5, <3>2
  <2>2. prio' \in [Threads -> Nat]
    BY <1>1 DEF TypeOK, Threads
  <2>3. bus'.i <= Len(callbacks) /\ bus'.len <= Len(callbacks)
    BY <1>2, <1>4
  <2>4. QED
    BY <1>1, <1>4, <1>5, <2>1, <2>2, <2>3, BusTypes
<1>7. ListInv'
  BY <1>1, <1>4 DEF ListInv, Listed
<1>8. PhaseKept'
  BY <1>1, <1>2, <1>5 DEF PhaseKept, Listed
<1>9. WakesInTime'
  <2>1. SUFFICES ASSUME bus.pc = "sleep", NEW i \in 1 .. Len(callbacks)
                 PROVE  \/ bus.wake - 1 <= due'[callbacks[i]] \/ bus.wake - 1 <= MinDelay
                        \/ i > bus.len /\ bus.wake - 1 <= MaxDelay
    BY <1>1, <1>4 DEF WakesInTime
  <2>2. \/ bus.wake <= due[callbacks[i]] \/ bus.wake <= MinDelay
        \/ i > bus.len /\ bus.wake <= MaxDelay
    BY <1>1, <2>1 DEF WakesInTime
  <2>3. callbacks[i] \in Listed /\ callbacks[i] \in Callbacks
    BY <1>1, TypeFacts DEF Listed
  <2>4. due'[callbacks[i]] = due[callbacks[i]] - 1 /\ due[callbacks[i]] \in Int
    BY <1>1, <2>3 DEF TypeOK
  <2>5. bus.wake \in Nat /\ MinDelay \in Nat /\ MaxDelay \in Nat
    BY <1>2, DeviceBusAssumption, SMTT(60) DEF BusType
  <2> DEFINE e == due[callbacks[i]]
  <2> HIDE DEF e
  <2>6. bus.wake <= e => bus.wake - 1 <= e - 1
    BY <2>4, <2>5, SMTT(60) DEF e
  <2>7. /\ bus.wake <= MinDelay => bus.wake - 1 <= MinDelay
        /\ bus.wake <= MaxDelay => bus.wake - 1 <= MaxDelay
    BY <2>5, SMTT(60)
  <2>8. QED
    BY <2>2, <2>4, <2>6, <2>7 DEF e
<1>10. MutexInv' /\ PrioInv'
  <2>1. \A u \in Threads, n \in Mutexes : Uses(u, n)' <=> Uses(u, n)
    BY <1>1, <1>4 DEF Uses
  <2>2. QED
    BY <1>1, <1>4, <2>1, MutexesKept
<1>11. QED
  BY <1>6, <1>7, <1>8, <1>9, <1>10 DEF IInv

-----------------------------------------------------------------------------
(* Invariance *)

LEMMA InitIInv == Init => IInv
<1> SUFFICES ASSUME Init PROVE IInv
  OBVIOUS
<1>1. /\ callbacks = <<>> /\ Len(callbacks) = 0 /\ Listed = {} /\ main = "idle"
      /\ bus = [pc |-> "none", i |-> 0, age |-> 0, wake |-> 0, len |-> 0]
      /\ bus.pc = "none" /\ bus.i = 0 /\ bus.len = 0
      /\ mutex = [m \in Mutexes |-> rt_mutex_init]
      /\ prio["bus"] = busPrio /\ prio["main"] = MainPrio
  BY SMTT(60) DEF Init, Listed
<1>2. TypeOK
  <2>1. callbacks \in Seq(Callbacks) /\ main \in {"idle"}
    BY <1>1, SMTT(60)
  <2>2. busPrio \in Nat /\ prio \in [{"bus", "main"} -> Nat]
    BY DeviceBusAssumption DEF Init
  <2>3. due \in [Callbacks -> Int] /\ phase \in [Callbacks -> Int]
    BY SMTT(60) DEF Init
  <2>4. \A c \in Callbacks : due[c] \in -MaxLate .. Period[c] /\ phase[c] \in 0 .. Period[c] - 1
    <3>1. ASSUME NEW c \in Callbacks
          PROVE  0 \in -MaxLate .. Period[c] /\ 0 \in 0 .. Period[c] - 1
      BY DeviceBusAssumption, SMTT(60)
    <3>2. QED
      BY <3>1 DEF Init
  <2>5. bus \in BusType
    BY <1>1, DeviceBusAssumption, SMTT(60) DEF BusType
  <2>6. QED
    BY <1>1, <2>1, <2>2, <2>3, <2>4, <2>5, SMTT(60) DEF TypeOK, BusType
<1>3. ListInv /\ PhaseKept /\ WakesInTime
  <2>1. main \notin Callbacks
    BY <1>1, DeviceBusAssumption
  <2>2. QED
    BY <1>1, <2>1 DEF ListInv, PhaseKept, WakesInTime, InCallback
<1>4. MutexInv
  <2>1. \A t \in Threads, m \in Mutexes : ~Uses(t, m)
    BY <1>1 DEF Uses, Mutexes, InCallback
  <2>2. QED
    BY <1>1, <2>1 DEF MutexInv, Good
<1>5. PrioInv
  <2>1. \A m \in Mutexes : mutex[m].owner \notin Threads
    BY <1>1, FreeFields
  <2>2. \A t \in Threads, m \in Mutexes : ~WaitsFor(t, m)
    <3>1. \A m \in Mutexes : mutex[m].suspend_thread = <<>>
      BY <1>1, FreeFields
    <3>2. QED
      BY <3>1, ListFacts
  <2>3. QED
    BY <1>1, <2>1, <2>2 DEF PrioInv, Threads, Mutexes
<1>6. QED
  BY <1>2, <1>3, <1>4, <1>5 DEF IInv

LEMMA NextIInv == IInv /\ [Next]_vars => IInv'
<1> SUFFICES ASSUME IInv, [Next]_vars PROVE IInv'
  OBVIOUS
<1>1. CASE BusStep
  BY <1>1, ScanIInv, BusNextIInv, TransferIInv, CallbackIInv, PublishIInv, GiveIInv, SleepIInv,
     WakeIInv DEF BusStep
<1>2. CASE MainStep
  BY <1>2, LinkIInv, MainGiveIInv DEF MainStep
<1>3. CASE Tick
  BY <1>3, TickIInv
<1>4. ASSUME NEW c \in Callbacks, register_start(c) PROVE IInv'
  BY <1>4, StartIInv
<1>5. ASSUME NEW m \in Mutexes, main_take(m) PROVE IInv'
  BY <1>5, MainTakeIInv
<1>6. CASE UNCHANGED vars
  <2>1. UNCHANGED <<callbacks, due, phase, busPrio, bus, main, mutex, prio>>
    BY <1>6 DEF vars
  <2>2. TypeOK' /\ ListInv' /\ PhaseKept' /\ WakesInTime'
    BY <2>1, PhaseSame DEF IInv, TypeOK, ListInv, Listed, WakesInTime
  <2>3. \A u \in Threads, n \in Mutexes : Uses(u, n)' <=> Uses(u, n)
    BY <2>1 DEF Uses
  <2>4. MutexInv' /\ PrioInv'
    BY <2>1, <2>3, MutexesKept
  <2>5. QED
    BY <2>2, <2>4 DEF IInv
<1>7. QED
  BY <1>1, <1>2, <1>3, <1>4, <1>5, <1>6 DEF Next

\* The list, the mutexes, the priorities, the schedule and the sleep stay as the
\* program counters of the two threads say.
THEOREM Invariance == Spec => []IInv
<1>1. QED
  BY InitIInv, NextIInv, PTL DEF Spec

\* No step of bus_thread, of the main thread or of time takes a variable out of
\* its type.
THEOREM TypeCorrect == Spec => []TypeOK
<1>1. IInv => TypeOK
  BY DEF IInv
<1>2. QED
  BY <1>1, Invariance, PTL

LEMMA ConsistentWhen == IInv => MutexConsistent
<1> SUFFICES ASSUME IInv, NEW m \in Mutexes
             PROVE  LET x == mutex[m] IN
                    /\ (x.value = 1) <=> (x.owner = NoThread)
                    /\ x.owner = NoThread => x.hold = 0 /\ x.suspend_thread = <<>>
                    /\ \A i \in 1 .. Len(x.suspend_thread) :
                          /\ x.suspend_thread[i] # x.owner
                          /\ \A n \in Mutexes \ {m} : x.suspend_thread[i] \notin
                                 {mutex[n].suspend_thread[j] : j \in 1 .. Len(mutex[n].suspend_thread)}
  BY DEF MutexConsistent
<1> DEFINE x == mutex[m]
<1>1. MutexInv
  BY DEF IInv
<1>2. ASSUME NEW n \in Mutexes PROVE mutex[n].suspend_thread \in {<<>>, <<"bus">>, <<"main">>}
  BY <1>1, FreeFields DEF MutexInv, Good, Other, Threads
<1>3. /\ (x.value = 1) <=> (x.owner = NoThread)
      /\ x.owner = NoThread => x.hold = 0 /\ x.suspend_thread = <<>>
  <2>1. CASE x = rt_mutex_init
    BY <2>1, SMTT(60) DEF rt_mutex_init
  <2>2. CASE x # rt_mutex_init
    <3>1. x.owner \in Threads /\ x = Taken(x.owner, x.original_priority, x.suspend_thread)
      BY <1>1, <2>2 DEF MutexInv, Good
    <3>2. x.value = 0
      BY <3>1, SMTT(60) DEF Taken
    <3>3. QED
      BY <3>1, <3>2, FreeFields, SMTT(60)
  <2>3. QED
    BY <2>1, <2>2
<1>4. ASSUME NEW i \in 1 .. Len(x.suspend_thread)
      PROVE  /\ x.suspend_thread[i] \in Threads /\ WaitsFor(x.suspend_thread[i], m)
  <2>1. x.suspend_thread # <<>>
    BY SMTT(60)
  <2>2. PICK t \in Threads : x.suspend_thread = <<t>>
    BY <1>2, <2>1 DEF Threads
  <2>3. Len(<<t>>) = 1 /\ <<t>>[1] = t
    OBVIOUS
  <2>4. i = 1
    BY <2>2, <2>3, SMTT(60)
  <2>5. QED
    BY <2>2, <2>3, <2>4 DEF WaitsFor
<1>5. ASSUME NEW i \in 1 .. Len(x.suspend_thread), NEW n \in Mutexes \ {m},
             NEW j \in 1 .. Len(mutex[n].suspend_thread),
             x.suspend_thread[i] = mutex[n].suspend_thread[j]
      PROVE  FALSE
  <2> DEFINE t == x.suspend_thread[i]
  <2>1. t \in Threads /\ WaitsFor(t, m)
    BY <1>4
  <2>2. WaitsFor(t, n)
    <3>1. mutex[n].suspend_thread # <<>>
      BY <1>5, SMTT(60)
    <3>2. PICK u \in Threads : mutex[n].suspend_thread = <<u>>
      BY <1>2, <3>1 DEF Threads
    <3>3. Len(<<u>>) = 1 /\ <<u>>[1] = u
      OBVIOUS
    <3>4. j = 1
      BY <3>2, <3>3, SMTT(60)
    <3>5. QED
      BY <1>5, <3>2, <3>3, <3>4 DEF WaitsFor
  <2> HIDE DEF t
  <2>3. /\ mutex[m].owner = Other(t) /\ Uses(t, m) /\ Uses(Other(t), m)
        /\ mutex[n].owner = Other(t) /\ Uses(t, n) /\ Uses(Other(t), n)
    BY <1>1, <2>1, <2>2, WaitFacts
  <2>4. Uses("main", m) /\ Uses("main", n)
    BY <2>1, <2>3 DEF Other, Threads
  <2>5. QED
    BY <2>4 DEF Uses
<1>6. ASSUME NEW i \in 1 .. Len(x.suspend_thread) PROVE x.suspend_thread[i] # x.owner
  <2> DEFINE t == x.suspend_thread[i]
  <2>1. t \in Threads /\ WaitsFor(t, m)
    BY <1>4
  <2> HIDE DEF t
  <2>2. mutex[m].owner = Other(t)
    BY <1>1, <2>1, WaitFacts
  <2>3. QED
    BY <2>1, <2>2 DEF Other, Threads, t
<1>7. QED
  BY <1>3, <1>5, <1>6

\* The bus's semaphore and _sem, taken and given by the two threads in whatever
\* order, stay consistent and lose no waiter.
THEOREM MutexesConsistent == Spec => []MutexConsistent
<1>1. QED
  BY ConsistentWhen, Invariance, PTL

LEMMA InheritedWhen == IInv => PriorityInherited
<1> SUFFICES ASSUME IInv, NEW m \in Mutexes, NEW i \in 1 .. Len(mutex[m].suspend_thread),
                    prio[mutex[m].owner] > prio[mutex[m].suspend_thread[i]]
             PROVE  m = "semaphore" /\ mutex[m].owner = "bus" /\ bus.pc = "published"
  BY DEF PriorityInherited
<1>1. /\ MutexInv /\ PrioInv /\ prio \in [Threads -> Nat] /\ busPrio \in Nat /\ MainPrio \in Nat
      /\ "main" \in Threads /\ "bus" \in Threads /\ Other("main") = "bus" /\ Other("bus") = "main"
  BY DeviceBusAssumption DEF IInv, TypeOK, Threads, Other
<1>2. PICK t \in Threads : WaitsFor(t, m) /\ t = mutex[m].suspend_thread[i]
  <2>1. mutex[m].suspend_thread \in {<<>>, <<"bus">>, <<"main">>}
    BY <1>1, FreeFields DEF MutexInv, Good, Other, Threads
  <2>2. mutex[m].suspend_thread # <<>>
    BY SMTT(60)
  <2>3. PICK t \in Threads : mutex[m].suspend_thread = <<t>>
    BY <2>1, <2>2 DEF Threads
  <2>4. Len(<<t>>) = 1 /\ <<t>>[1] = t
    OBVIOUS
  <2>5. i = 1
    BY <2>3, <2>4, SMTT(60)
  <2>6. QED
    BY <2>3, <2>4, <2>5 DEF WaitsFor
<1>3. /\ mutex[m].owner = Other(t) /\ Uses(t, m) /\ Uses(Other(t), m)
      /\ prio[Other(t)] > prio[t]
  BY <1>1, <1>2, WaitFacts
<1>4. Uses("main", m)
  BY <1>1, <1>3 DEF Threads
<1>5. ~WaitsFor(Other(t), m)
  BY <1>2, SMTT(60) DEF WaitsFor, Other, Threads
<1>6. \A n \in Mutexes : ~WaitsFor(Other(t), n)
  <2>1. ASSUME NEW n \in Mutexes, WaitsFor(Other(t), n) PROVE FALSE
    <3>1. Uses("main", n)
      BY <1>1, <2>1, WaitFacts DEF Threads
    <3>2. n = m
      BY <1>4, <3>1 DEF Uses
    <3>3. QED
      BY <1>5, <2>1, <3>2
  <2>2. QED
    BY <2>1
<1>7. CASE t = "bus"
  <2>1. prio["main"] = Higher /\ prio["bus"] = busPrio
    BY <1>1, <1>2, <1>6, <1>7 DEF PrioInv
  <2>2. ~(Higher > busPrio)
    BY <1>1, SMTT(60) DEF Higher
  <2>3. QED
    BY <1>1, <1>3, <1>7, <2>1, <2>2
<1>8. CASE t = "main"
  <2>1. /\ prio["main"] = MainPrio
        /\ (prio["bus"] = Higher \/ (prio["bus"] = busPrio /\ bus.pc = "published"))
    BY <1>1, <1>2, <1>6, <1>8 DEF PrioInv
  <2>2. ~(Higher > MainPrio)
    BY <1>1, SMTT(60) DEF Higher
  <2>3. bus.pc = "published"
    BY <1>1, <1>3, <1>8, <2>1, <2>2
  <2>4. m # "_sem"
    BY <1>1, <1>3, <1>8, <2>3 DEF Uses
  <2>5. QED
    BY <1>1, <1>3, <1>8, <2>3, <2>4 DEF Mutexes
<1>9. QED
  BY <1>7, <1>8 DEF Threads

\* rt_mutex_take lends the owner the priority of the thread that waits, and only
\* a bus thread that has given _sem inside a callback is below one.
THEOREM OwnerInherits == Spec => []PriorityInherited
<1>1. QED
  BY InheritedWhen, Invariance, PTL

LEMMA RestoredWhen == IInv => PriorityRestored
<1> SUFFICES ASSUME IInv, NEW t \in Threads, Owns(t) = {}
             PROVE  prio[t] = IF t = "bus" THEN busPrio ELSE MainPrio
  BY DEF PriorityRestored, Threads
<1>1. /\ MutexInv /\ PrioInv /\ Other(t) \in Threads /\ Other(Other(t)) = t
  BY DEF IInv, Threads, Other
<1>2. \A m \in Mutexes : mutex[m].owner # t
  BY DEF Owns
<1>3. \A m \in Mutexes : ~WaitsFor(Other(t), m)
  BY <1>1, <1>2, WaitFacts
<1>4. CASE t = "bus"
  <2>1. \A m \in Mutexes : ~WaitsFor("main", m)
    BY <1>3, <1>4 DEF Other
  <2>2. QED
    BY <1>1, <1>4, <2>1 DEF PrioInv
<1>5. CASE t = "main"
  <2>1. \A m \in Mutexes : ~WaitsFor("bus", m)
    BY <1>3, <1>5 DEF Other
  <2>2. QED
    BY <1>1, <1>5, <2>1 DEF PrioInv
<1>6. QED
  BY <1>4, <1>5 DEF Threads

\* rt_mutex_release leaves a thread that owns nothing with its own priority,
\* nested mutexes notwithstanding.
THEOREM OwnPriorityBack == Spec => []PriorityRestored
<1>1. QED
  BY RestoredWhen, Invariance, PTL

\* bus_thread moves next_usec on by whole periods however late it is, for every
\* period.
THEOREM ScheduleKept == Spec => []PhaseKept
<1>1. IInv => PhaseKept
  BY DEF IInv
<1>2. QED
  BY <1>1, Invariance, PTL

\* bus_thread sleeps no longer than until the first callback is due, or the
\* shortest sleep, or MaxDelay for a callback linked while it sleeps.
THEOREM SleepEndsInTime == Spec => []WakesInTime
<1>1. IInv => WakesInTime
  BY DEF IInv
<1>2. QED
  BY <1>1, Invariance, PTL
=============================================================================
