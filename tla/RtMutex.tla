------------------------------- MODULE RtMutex -------------------------------
(***************************************************************************)
(* The kernel's mutex (src/ipc.c) as the HAL's Semaphore uses it through   *)
(* pthread_mutex.c: taken without a timeout, never twice by one thread,    *)
(* waited for in the order of arrival.  Each operation runs with           *)
(* interrupts disabled, so it is a function of the mutex and of the        *)
(* current_priority of every thread.  A lower number is a higher priority. *)
(***************************************************************************)
EXTENDS Integers, Sequences

CONSTANT NoThread       \* RT_NULL

NoPriority == 255       \* original_priority of a free mutex

rt_mutex_init == [value |-> 1, owner |-> NoThread, hold |-> 0,
                  original_priority |-> NoPriority, suspend_thread |-> <<>>]

\* rt_mutex_take by thread t: the mutex is available, or t is suspended.
rt_mutex_take(m, t, prio) ==
    IF m.value > 0
    THEN [m EXCEPT !.value = @ - 1, !.owner = t, !.hold = @ + 1,
                   !.original_priority = prio[t]]
    ELSE [m EXCEPT !.suspend_thread = Append(@, t)]

\* Mutant: the owner keeps its priority.
Mut_take_prio(m, t, prio) == prio

\* A thread that has to wait lends the owner its priority.
take_prio(m, t, prio) ==
    IF m.value = 0 /\ prio[t] < prio[m.owner]
    THEN [prio EXCEPT ![m.owner] = prio[t]] ELSE prio

\* Mutant: the owner keeps the priority lent to it.
Mut_release_prio(m, prio) == prio

\* rt_mutex_release by the owner: it gets the priority it had when it took the
\* mutex, whatever it has now, ...
release_prio(m, prio) ==
    IF m.hold = 1 THEN [prio EXCEPT ![m.owner] = m.original_priority] ELSE prio

\* Mutant: a mutex nobody waits for is not made available.
Mut_rt_mutex_release(m, prio) ==
    IF m.suspend_thread = <<>> THEN [m EXCEPT !.owner = NoThread, !.hold = 0]
    ELSE [m EXCEPT !.owner = Head(m.suspend_thread), !.suspend_thread = Tail(@),
                   !.original_priority = prio[Head(m.suspend_thread)]]

\* ... and the mutex goes to the thread that has waited longest, or is free.
rt_mutex_release(m, prio) ==
    IF m.hold > 1 THEN [m EXCEPT !.hold = @ - 1]
    ELSE IF m.suspend_thread = <<>> THEN rt_mutex_init
    ELSE [m EXCEPT !.owner = Head(m.suspend_thread), !.suspend_thread = Tail(@),
                   !.original_priority = prio[Head(m.suspend_thread)]]
=============================================================================
