------------------------------ MODULE DeviceBus ------------------------------
(***************************************************************************)
(* A sensor bus: the thread of AP_HAL_PX4/Device.cpp that calls the        *)
(* periodic callbacks of the drivers, and the two semaphores it shares     *)
(* with the main thread: the bus's, held during a callback, and the        *)
(* driver's _sem, taken inside it to hand over the samples.                *)
(*                                                                         *)
(* Times are relative to the present: due[c] is next_usec of callback c    *)
(* minus micros64(), and age counts the time since the bus thread read the *)
(* clock.                                                                  *)
(***************************************************************************)
EXTENDS RtMutex

CONSTANTS Callbacks,    \* the drivers' callbacks
          Period,       \* period_usec of each
          Adjusting,    \* those that call adjust_timer (a compass)
          MaxDelay,     \* the bus thread sleeps at most this long (50 ms)
          MinDelay,     \* and at least this long (400 us)
          MaxLate,      \* bound: how late the threads may get
          BusPrios,     \* priorities a bus thread may have
          MainPrio      \* APM_MAIN_PRIORITY

ASSUME DeviceBusAssumption ==
    /\ DOMAIN Period = Callbacks /\ Adjusting \subseteq Callbacks
    /\ \A c \in Callbacks : Period[c] \in Nat \ {0}
    /\ MinDelay \in Nat \ {0} /\ MaxDelay \in Nat /\ MaxDelay > MinDelay /\ MaxLate \in Nat
    /\ BusPrios \subseteq Nat /\ MainPrio \in Nat
    /\ NoThread \notin {"bus", "main"}
    /\ Callbacks \cap {"idle", "semaphore", "_sem"} = {}

VARIABLES
    callbacks,      \* the list, its head last
    due,            \* next_usec - micros64() of each callback
    phase,          \* history: time since each was registered or adjusted,
                    \* modulo its period
    busPrio,        \* thread_priority of this bus
    bus,            \* the bus thread: [pc, i, age, wake, len]
    main,           \* the main thread: what it is doing
    mutex,          \* "semaphore" of the bus and "_sem" of the driver
    prio            \* current_priority of the two threads

vars == <<callbacks, due, phase, busPrio, bus, main, mutex, prio>>

Mutexes == {"semaphore", "_sem"}
Listed == {callbacks[i] : i \in 1 .. Len(callbacks)}
Waits(t) == \E m \in Mutexes : \E i \in 1 .. Len(mutex[m].suspend_thread) :
                mutex[m].suspend_thread[i] = t

Take(t, m) ==
    /\ mutex' = [mutex EXCEPT ![m] = rt_mutex_take(@, t, prio)]
    /\ prio' = take_prio(mutex[m], t, prio)

Give(m) ==
    /\ prio' = release_prio(mutex[m], prio)
    /\ mutex' = [mutex EXCEPT ![m] = rt_mutex_release(@, prio)]

-----------------------------------------------------------------------------
(* bus_thread *)

BusAt(pc) == bus.pc = pc /\ ~Waits("bus")
ListOnly == <<callbacks, phase, busPrio, main>>

\* The clock is read and the list entered at its head.
bus_scan ==
    /\ BusAt("scan")
    /\ bus' = [bus EXCEPT !.pc = "next", !.i = Len(callbacks), !.age = 0]
    /\ UNCHANGED <<ListOnly, due, mutex, prio>>

\* next_usec of a callback that is due, x from the time the clock was read,
\* once it is moved on by whole periods.
Mut_MovedOn(x, p) == p      \* mutant: a late call shifts the schedule
MovedOn(x, p) == x + (((-x) \div p) + 1) * p

\* Mutant: a callback is left out when the semaphore is taken.
Mut_bus_next ==
    /\ BusAt("next") /\ bus.i > 0
    /\ LET c == callbacks[bus.i]
           x == due[c] + bus.age
       IN  IF x <= 0
           THEN /\ due' = [due EXCEPT ![c] = MovedOn(x, Period[c]) - bus.age]
                /\ IF mutex["semaphore"].value > 0
                   THEN bus' = [bus EXCEPT !.pc = "callback"] /\ Take("bus", "semaphore")
                   ELSE bus' = [bus EXCEPT !.i = @ - 1] /\ UNCHANGED <<mutex, prio>>
           ELSE /\ bus' = [bus EXCEPT !.i = @ - 1]
                /\ UNCHANGED <<due, mutex, prio>>
    /\ UNCHANGED ListOnly

\* The next callback: moved on and called if it was due when the clock was
\* read, else passed over.
bus_next ==
    /\ BusAt("next") /\ bus.i > 0
    /\ LET c == callbacks[bus.i]
           x == due[c] + bus.age
       IN  IF x <= 0
           THEN /\ due' = [due EXCEPT ![c] = MovedOn(x, Period[c]) - bus.age]
                /\ bus' = [bus EXCEPT !.pc = "callback"]
                /\ Take("bus", "semaphore")
           ELSE /\ bus' = [bus EXCEPT !.i = @ - 1]
                /\ UNCHANGED <<due, mutex, prio>>
    /\ UNCHANGED ListOnly

\* "same period, but start counting from now"
adjust_timer(c) ==
    /\ due' = [due EXCEPT ![c] = Period[c]]
    /\ phase' = [phase EXCEPT ![c] = 0]

\* The callback, with the semaphore held: the transfer fails, or it gets a
\* sample, and some callbacks then restart their period.
bus_transfer ==
    /\ BusAt("callback")
    /\ \/ bus' = [bus EXCEPT !.pc = "give"] /\ UNCHANGED <<due, phase>>
       \/ /\ bus' = [bus EXCEPT !.pc = "sample"]
          /\ IF callbacks[bus.i] \in Adjusting THEN adjust_timer(callbacks[bus.i])
             ELSE UNCHANGED <<due, phase>>
    /\ UNCHANGED <<callbacks, busPrio, main, mutex, prio>>

\* The sample is discarded, or handed over with the driver's _sem taken ...
bus_callback ==
    /\ BusAt("sample")
    /\ \/ bus' = [bus EXCEPT !.pc = "give"] /\ UNCHANGED <<mutex, prio>>
       \/ bus' = [bus EXCEPT !.pc = "publish"] /\ Take("bus", "_sem")
    /\ UNCHANGED <<ListOnly, due>>

\* ... and gives it.
bus_publish ==
    /\ BusAt("publish")
    /\ bus' = [bus EXCEPT !.pc = "published"]
    /\ Give("_sem")
    /\ UNCHANGED <<ListOnly, due>>

bus_give ==
    /\ BusAt("give") \/ BusAt("published")
    /\ bus' = [bus EXCEPT !.pc = "next", !.i = @ - 1]
    /\ Give("semaphore")
    /\ UNCHANGED <<ListOnly, due>>

Least(S) == CHOOSE x \in S : \A y \in S : x <= y
Clamp(x, lo, hi) == IF x < lo THEN lo ELSE IF x > hi THEN hi ELSE x

\* Mutant: the thread sleeps until the next callback it knows.
Mut_bus_sleep ==
    /\ BusAt("next") /\ bus.i = 0
    /\ LET needed == IF callbacks = <<>> THEN MaxDelay ELSE Least({due[c] : c \in Listed})
       IN  bus' = [pc |-> "sleep", i |-> 0, age |-> 0, len |-> Len(callbacks),
                   wake |-> IF needed < MinDelay THEN MinDelay ELSE needed]
    /\ UNCHANGED <<ListOnly, due, mutex, prio>>

\* The end of the list: the thread sleeps until a callback is due, but not too
\* long, for a callback may be added, nor too short.
bus_sleep ==
    /\ BusAt("next") /\ bus.i = 0
    /\ LET needed == IF callbacks = <<>> THEN MaxDelay ELSE Least({due[c] : c \in Listed})
       IN  bus' = [pc |-> "sleep", i |-> 0, age |-> 0, len |-> Len(callbacks),
                   wake |-> Clamp(needed, MinDelay, MaxDelay)]
    /\ UNCHANGED <<ListOnly, due, mutex, prio>>

bus_wake ==
    /\ BusAt("sleep") /\ bus.wake = 0
    /\ bus' = [bus EXCEPT !.pc = "scan", !.len = 0]
    /\ UNCHANGED <<ListOnly, due, mutex, prio>>

-----------------------------------------------------------------------------
(* The main thread *)

MainAt(pc) == main = pc /\ ~Waits("main")
BusOnly == <<busPrio, bus>>

\* register_periodic_callback starts the thread with the first callback, ...
register_start(c) ==
    /\ MainAt("idle") /\ c \notin Listed
    /\ bus' = IF bus.pc = "none" THEN [bus EXCEPT !.pc = "scan"] ELSE bus
    /\ main' = c
    /\ UNCHANGED <<callbacks, due, phase, busPrio, mutex, prio>>

\* ... and then, if there is memory for it, makes the callback the head of the
\* list.
register_link(c) ==
    /\ MainAt(c)
    /\ \/ /\ callbacks' = Append(callbacks, c)
          /\ due' = [due EXCEPT ![c] = Period[c]]
          /\ phase' = [phase EXCEPT ![c] = 0]
       \/ UNCHANGED <<callbacks, due, phase>>
    /\ main' = "idle"
    /\ UNCHANGED <<BusOnly, mutex, prio>>

\* A driver's transfer on the bus from the main thread, and its update().
main_take(m) ==
    /\ MainAt("idle")
    /\ Take("main", m)
    /\ main' = m
    /\ UNCHANGED <<callbacks, due, phase, BusOnly>>

main_give(m) ==
    /\ MainAt(m)
    /\ Give(m)
    /\ main' = "idle"
    /\ UNCHANGED <<callbacks, due, phase, BusOnly>>

\* Time passes; no callback gets later than MaxLate.
Tick ==
    /\ \A c \in Listed : due[c] > -MaxLate
    /\ bus.pc = "sleep" => bus.wake > 0
    /\ bus.pc \in {"next", "callback", "sample", "publish", "published", "give"} => bus.age < MaxLate
    /\ due' = [c \in Callbacks |-> IF c \in Listed THEN due[c] - 1 ELSE due[c]]
    /\ phase' = [c \in Callbacks |->
                   IF c \in Listed THEN (phase[c] + 1) % Period[c] ELSE phase[c]]
    /\ bus' = CASE bus.pc = "sleep" -> [bus EXCEPT !.wake = @ - 1]
                [] bus.pc \in {"none", "scan"} -> bus
                [] OTHER -> [bus EXCEPT !.age = @ + 1]
    /\ UNCHANGED <<callbacks, busPrio, main, mutex, prio>>

-----------------------------------------------------------------------------
Init ==
    /\ callbacks = <<>>
    /\ due = [c \in Callbacks |-> 0] /\ phase = [c \in Callbacks |-> 0]
    /\ busPrio \in BusPrios
    /\ bus = [pc |-> "none", i |-> 0, age |-> 0, wake |-> 0, len |-> 0]
    /\ main = "idle"
    /\ mutex = [m \in Mutexes |-> rt_mutex_init]
    /\ prio = [t \in {"bus", "main"} |-> IF t = "bus" THEN busPrio ELSE MainPrio]

BusStep ==
    \/ bus_scan \/ bus_next \/ bus_transfer \/ bus_callback \/ bus_publish
    \/ bus_give \/ bus_sleep \/ bus_wake

MainStep ==
    \/ \E c \in Callbacks : register_link(c)
    \/ \E m \in Mutexes : main_give(m)

Next ==
    \/ BusStep \/ MainStep \/ Tick
    \/ \E c \in Callbacks : register_start(c)
    \/ \E m \in Mutexes : main_take(m)

Spec == Init /\ [][Next]_vars

\* Time passes, the bus thread runs, and the main thread finishes what it has
\* begun.
FairSpec ==
    Spec /\ WF_vars(BusStep) /\ WF_vars(MainStep) /\ SF_vars(Tick)

-----------------------------------------------------------------------------
Owns(t) == {m \in Mutexes : mutex[m].owner = t}

\* The variables keep their types.
TypeOK ==
    /\ callbacks \in Seq(Callbacks) /\ busPrio \in Nat
    /\ due \in [Callbacks -> Int] /\ phase \in [Callbacks -> Int]
    /\ \A c \in Callbacks : due[c] \in -MaxLate .. Period[c] /\ phase[c] \in 0 .. Period[c] - 1
    /\ bus \in [pc : {"none", "scan", "next", "callback", "sample", "publish", "published",
                      "give", "sleep"},
                i : Nat, age : 0 .. MaxLate, wake : 0 .. MaxDelay, len : Nat]
    /\ bus.i =< Len(callbacks) /\ bus.len =< Len(callbacks)
    /\ main \in {"idle"} \cup Mutexes \cup Callbacks
    /\ prio \in [{"bus", "main"} -> Nat]

\* The kernel's mutexes stay consistent and no wakeup is lost: a mutex is
\* available just when it has no owner, a thread waits only for a mutex another
\* thread owns, and never for two.
MutexConsistent ==
    \A m \in Mutexes :
        LET x == mutex[m] IN
        /\ (x.value = 1) <=> (x.owner = NoThread)
        /\ x.owner = NoThread => x.hold = 0 /\ x.suspend_thread = <<>>
        /\ \A i \in 1 .. Len(x.suspend_thread) :
              /\ x.suspend_thread[i] # x.owner
              /\ \A n \in Mutexes \ {m} : x.suspend_thread[i] \notin
                     {mutex[n].suspend_thread[j] : j \in 1 .. Len(mutex[n].suspend_thread)}

\* "Mutex objects use inherited priority to prevent priority reversion"
\* (doxygen/kernel.h): the owner of a mutex never has a lower priority than a
\* thread that waits for it.  One exception: a bus thread that has given _sem
\* inside the callback has lost what it inherited through the bus's semaphore.
PriorityInherited ==
    \A m \in Mutexes : \A i \in 1 .. Len(mutex[m].suspend_thread) :
        prio[mutex[m].owner] > prio[mutex[m].suspend_thread[i]] =>
            m = "semaphore" /\ mutex[m].owner = "bus" /\ bus.pc = "published"

\* A thread that owns no mutex has its own priority again, nested mutexes and
\* waiters that come and go notwithstanding.
PriorityRestored ==
    \A t \in {"bus", "main"} :
        Owns(t) = {} => prio[t] = IF t = "bus" THEN busPrio ELSE MainPrio

\* Late and left out calls never shift a callback's schedule: next_usec stays a
\* whole number of periods after the registration, or after the time a callback
\* chose with adjust_timer.
PhaseKept == \A c \in Listed : (due[c] + phase[c]) % Period[c] = 0

\* A sleeping bus thread wakes by the time a callback is due, or as soon as the
\* shortest sleep allows; "delay for at most 50ms, to handle newly added
\* callbacks": within that for one registered while it sleeps.
WakesInTime ==
    bus.pc = "sleep" =>
        \A i \in 1 .. Len(callbacks) :
            \/ bus.wake <= due[callbacks[i]] \/ bus.wake <= MinDelay
            \/ i > bus.len /\ bus.wake <= MaxDelay

\* Every registered callback is called, with the bus semaphore held, again and
\* again, whatever the main thread does with the two semaphores: the two threads
\* never wait for each other, and no callback is left out of the list the thread
\* walks.
EveryCallbackRuns ==
    \A c \in Callbacks :
        c \in Listed ~> (BusAt("callback") /\ callbacks[bus.i] = c)
=============================================================================
