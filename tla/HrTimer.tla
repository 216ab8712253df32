------------------------------- MODULE HrTimer -------------------------------
(***************************************************************************)
(* The microsecond clock and its timers: a 16 bit hardware counter with    *)
(* one match register (drv_hrtimer.c), the sorted list of timers and the   *)
(* interrupt that runs them (hr_timer.c), and the call-after interface the *)
(* HAL uses (drv_hrt.c).                                                   *)
(*                                                                         *)
(* Each timer has one thread that starts and cancels it; the interrupt     *)
(* preempts every thread between two steps, except inside a section with   *)
(* interrupts disabled, which is one step here.  The interrupt itself is   *)
(* several steps, because time passes while callbacks run.                 *)
(***************************************************************************)
EXTENDS Integers, FiniteSets, Sequences

CONSTANTS Timers,       \* the hrt_call records and created timers
          NoTimer,      \* no timer
          Rearm,        \* timers whose callback calls hrt_call_after again
          Periodic,     \* timers created with RT_TIMER_FLAG_PERIODIC
          Delays,       \* delays callers ask for
          Period,       \* HRT_PERIOD: the counter counts modulo this
          IntervalMax,  \* HRT_INTERVAL_MAX
          IntervalMin,  \* HRT_INTERVAL_MIN
          MaxLatency,   \* bound: from the match to the end of the interrupt
          ReadGap,      \* bound: the timer thread reads the clock this often
          MaxTime       \* bound: last instant considered

ASSUME HrTimerAssumption ==
    /\ NoTimer \notin Timers
    /\ Rearm \subseteq Timers /\ Periodic \subseteq Timers
    /\ Delays \subseteq Nat
    /\ Period \in Nat \ {0} /\ IntervalMax \in Nat /\ IntervalMin \in Nat \ {0}
    /\ IntervalMin < IntervalMax /\ IntervalMax < Period
    /\ MaxLatency \in Nat /\ ReadGap \in Nat \ {0} /\ MaxTime \in Nat

VARIABLES
    now,         \* true time; the hardware counter is now % Period
    match,       \* the match register, as a count
    pending,     \* the match interrupt is raised
    busy,        \* time since it was raised, or since the last one ended
    base, last,  \* base_tick and last_count of get_cur_tick
    queue,       \* hrtimer_list, first to expire first
    timeout,     \* timeout_tick of each timer
    init_tick,   \* init_tick of each timer
    active,      \* timers with RT_TIMER_FLAG_ACTIVATED
    thr,         \* the thread that owns each timer: [op, pc, delay]
    isr,         \* the interrupt: [pc, tick, timer]
    readAt,      \* history: true time of the latest reading of the clock
    due,         \* history: earliest time the pending call may run
    armedAt,     \* history: clock value when the match was last set
    cancelled    \* history: timers whose cancellation has returned

clockVars == <<base, last, readAt>>
hwVars == <<now, match, pending, busy, armedAt>>
listVars == <<queue, timeout, init_tick, active>>
vars == <<now, match, pending, busy, base, last, queue, timeout, init_tick,
          active, thr, isr, readAt, due, armedAt, cancelled>>

Idle == [op |-> "none", pc |-> "idle", delay |-> 0]
IsrIdle == [pc |-> "idle", tick |-> 0, timer |-> NoTimer]

-----------------------------------------------------------------------------
(* drv_hrtimer.c *)

\* get_cur_tick: a count below the previous one means the counter wrapped.
count == now % Period
NextBase == IF count < last THEN base + Period ELSE base
cur_tick == NextBase + count

get_cur_tick ==
    /\ base' = NextBase
    /\ last' = count
    /\ readAt' = now

\* set_timeout, given the new queue and the timeouts: the first deadline, or
\* the keep-alive interval when there is none, but never too close to set.
Mut_next_timeout_tick(q, to) ==  \* mutant: keep-alive too close to a turn
    IF q = <<>> THEN cur_tick + Period - 1 ELSE to[q[1]]
next_timeout_tick(q, to) == IF q = <<>> THEN cur_tick + IntervalMax ELSE to[q[1]]

Mut_set_timeout(q, to) ==  \* mutant: no minimal interval
    /\ match' = next_timeout_tick(q, to) % Period
    /\ armedAt' = cur_tick

set_timeout(q, to) ==
    LET tick == next_timeout_tick(q, to)
        set  == IF tick =< cur_tick + IntervalMin THEN cur_tick + IntervalMin ELSE tick
    IN  /\ match' = set % Period
        /\ armedAt' = cur_tick

\* Time passes; the interrupt is raised when the counter reaches the match.
\* An interrupt is served, and the timer thread reads the clock, in time.
Tick ==
    /\ now < MaxTime
    /\ pending \/ isr.pc # "idle" => busy < MaxLatency
    /\ now + 1 - readAt =< ReadGap
    /\ now' = now + 1
    /\ pending' = (pending \/ (now + 1) % Period = match)
    /\ busy' = IF pending \/ isr.pc # "idle" THEN busy + 1 ELSE 0
    /\ UNCHANGED <<match, armedAt, clockVars, listVars, thr, isr, due, cancelled>>

-----------------------------------------------------------------------------
(* hr_timer.c: the list *)

\* _hrtimer_remove: the timer is unlinked, if it is in the list.
Without(q, t) ==
    IF \E i \in 1 .. Len(q) : q[i] = t
    THEN LET i == CHOOSE i \in 1 .. Len(q) : q[i] = t
         IN  SubSeq(q, 1, i - 1) \o SubSeq(q, i + 1, Len(q))
    ELSE q

Mut_Insert(q, t, to) == Append(q, t)  \* mutant: not sorted

\* How many timers the search of _hrtimer_start passes: it stops before the
\* first that expires later.
Passed(q, t, to) ==
    CHOOSE i \in 0 .. Len(q) :
        /\ \A j \in 1 .. i : to[q[j]] =< to[t]
        /\ i < Len(q) => to[q[i + 1]] > to[t]

\* _hrtimer_start, second critical section: the timer is linked after those.
Insert(q, t, to) ==
    LET i == Passed(q, t, to)
    IN  SubSeq(q, 1, i) \o <<t>> \o SubSeq(q, i + 1, Len(q))

-----------------------------------------------------------------------------
(* Threads: hrt_call_after, hrt_cancel, and hrtimer_start of a created timer *)

Ready(t) == isr.pc = "idle" /\ thr[t].pc = "idle"
At(t, pc) == isr.pc = "idle" /\ thr[t].pc = pc
Goto(t, pc) == thr' = [thr EXCEPT ![t].pc = pc]
ThreadOnly == UNCHANGED <<hwVars, clockVars, isr>>

\* hrt_call_after, to the test of the flag.
hrt_call_after(t, d) ==
    /\ Ready(t) /\ t \notin Periodic
    /\ thr' = [thr EXCEPT ![t] = [op |-> "after", delay |-> d,
                                  pc |-> IF t \in active THEN "stop" ELSE "init"]]
    /\ UNCHANGED <<listVars, due, cancelled>> /\ ThreadOnly

\* hrt_cancel does nothing to a timer that is not active.
hrt_cancel(t) ==
    /\ Ready(t) /\ t \notin Periodic
    /\ thr' = IF t \in active
                THEN [thr EXCEPT ![t] = [op |-> "cancel", delay |-> 0, pc |-> "stop"]]
                ELSE thr
    /\ cancelled' = IF t \in active THEN cancelled ELSE cancelled \cup {t}
    /\ UNCHANGED <<listVars, due>> /\ ThreadOnly

\* hrtimer_start of a timer made by hrtimer_create.
hrtimer_start(t, d) ==
    /\ Ready(t) /\ t \in Periodic /\ t \notin active
    /\ thr' = [thr EXCEPT ![t] = [op |-> "start", delay |-> d, pc |-> "unlink"]]
    /\ init_tick' = [init_tick EXCEPT ![t] = d]
    /\ UNCHANGED <<queue, timeout, active, due, cancelled>> /\ ThreadOnly

AfterStop(t) == IF thr[t].op = "after" THEN "init" ELSE "zero"

\* hrtimer_stop: the test of the flag, outside the critical section ...
stop_test(t) ==
    /\ At(t, "stop")
    /\ Goto(t, IF t \in active THEN "remove" ELSE AfterStop(t))
    /\ UNCHANGED <<listVars, due, cancelled>> /\ ThreadOnly

\* Mutant: the timer stays in the list.
Mut_stop_remove(t) ==
    /\ At(t, "remove")
    /\ Goto(t, "clear")
    /\ UNCHANGED <<listVars, due, cancelled>> /\ ThreadOnly

\* ... the removal inside it ...
stop_remove(t) ==
    /\ At(t, "remove")
    /\ queue' = Without(queue, t)
    /\ Goto(t, "clear")
    /\ UNCHANGED <<timeout, init_tick, active, due, cancelled>> /\ ThreadOnly

\* Mutant: the flag is left set.
Mut_stop_clear(t) ==
    /\ At(t, "clear")
    /\ Goto(t, AfterStop(t))
    /\ UNCHANGED <<listVars, due, cancelled>> /\ ThreadOnly

\* ... and the flag, outside it again.
stop_clear(t) ==
    /\ At(t, "clear")
    /\ active' = active \ {t}
    /\ Goto(t, AfterStop(t))
    /\ UNCHANGED <<queue, timeout, init_tick, due, cancelled>> /\ ThreadOnly

\* hrt_cancel clears the whole record and returns.
cancel_zero(t) ==
    /\ At(t, "zero")
    /\ active' = active \ {t}
    /\ timeout' = [timeout EXCEPT ![t] = 0]
    /\ init_tick' = [init_tick EXCEPT ![t] = 0]
    /\ cancelled' = cancelled \cup {t}
    /\ thr' = [thr EXCEPT ![t] = Idle]
    /\ UNCHANGED <<queue, due>> /\ ThreadOnly

\* hrtimer_init.
init(t) ==
    /\ At(t, "init")
    /\ active' = active \ {t}
    /\ timeout' = [timeout EXCEPT ![t] = 0]
    /\ init_tick' = [init_tick EXCEPT ![t] = thr[t].delay]
    /\ Goto(t, "unlink")
    /\ UNCHANGED <<queue, due, cancelled>> /\ ThreadOnly

\* _hrtimer_start: first critical section.
start_unlink(t) ==
    /\ At(t, "unlink")
    /\ queue' = Without(queue, t)
    /\ active' = active \ {t}
    /\ Goto(t, "read")
    /\ UNCHANGED <<timeout, init_tick, due, cancelled>> /\ ThreadOnly

\* Mutant: the delay counts from the previous reading.
Mut_start_read(t) ==
    /\ At(t, "read")
    /\ get_cur_tick
    /\ timeout' = [timeout EXCEPT ![t] = base + last + init_tick[t]]
    /\ due' = [due EXCEPT ![t] = now + init_tick[t]]
    /\ Goto(t, "insert")
    /\ UNCHANGED <<hwVars, queue, init_tick, active, isr, cancelled>>

\* The deadline is computed with interrupts enabled.
start_read(t) ==
    /\ At(t, "read")
    /\ get_cur_tick
    /\ timeout' = [timeout EXCEPT ![t] = cur_tick + init_tick[t]]
    /\ due' = [due EXCEPT ![t] = now + init_tick[t]]
    /\ Goto(t, "insert")
    /\ UNCHANGED <<hwVars, queue, init_tick, active, isr, cancelled>>

\* Second critical section.
start_insert(t) ==
    /\ At(t, "insert")
    /\ queue' = Insert(queue, t, timeout)
    /\ active' = active \cup {t}
    /\ cancelled' = cancelled \ {t}
    /\ get_cur_tick
    /\ set_timeout(queue', timeout)
    /\ thr' = [thr EXCEPT ![t] = Idle]
    /\ UNCHANGED <<now, pending, busy, timeout, init_tick, isr, due>>

\* Any thread reads the time (hrt_absolute_time).
hrtimer_get_tick ==
    /\ isr.pc = "idle"
    /\ get_cur_tick
    /\ UNCHANGED <<hwVars, listVars, thr, isr, due, cancelled>>

-----------------------------------------------------------------------------
(* The interrupt: Timer0IntHandler and hrtimer_check *)

isr_enter ==
    /\ isr.pc = "idle"
    /\ pending
    /\ pending' = FALSE
    /\ get_cur_tick
    /\ isr' = [IsrIdle EXCEPT !.pc = "loop", !.tick = cur_tick]
    /\ UNCHANGED <<now, match, busy, armedAt, listVars, thr, due, cancelled>>

\* The first timer has expired: take it off, and run its callback, which may
\* start it again (init, unlink, read and insert, with interrupts disabled).
isr_fire ==
    /\ isr.pc = "loop"
    /\ queue # <<>>
    /\ isr.tick >= timeout[Head(queue)]
    /\ LET t == Head(queue) IN
         /\ isr' = [isr EXCEPT !.pc = "again", !.timer = t]
         /\ \/ /\ t \notin Rearm
               /\ queue' = Tail(queue)
               /\ active' = active \ {t}
               /\ due' = [due EXCEPT ![t] = 0]
               /\ UNCHANGED <<hwVars, clockVars, timeout, init_tick, cancelled>>
            \/ \E d \in Delays :
               /\ t \in Rearm
               /\ get_cur_tick
               /\ timeout' = [timeout EXCEPT ![t] = cur_tick + d]
               /\ init_tick' = [init_tick EXCEPT ![t] = d]
               /\ due' = [due EXCEPT ![t] = now + d]
               /\ queue' = Insert(Tail(queue), t, timeout')
               /\ set_timeout(queue', timeout')
               /\ UNCHANGED <<now, pending, busy, active, cancelled>>
    /\ UNCHANGED thr

\* The clock is read again; a periodic timer starts again if it is active.
isr_again ==
    /\ isr.pc = "again"
    /\ get_cur_tick
    /\ LET t == isr.timer IN
         IF t \in Periodic /\ t \in active
           THEN /\ timeout' = [timeout EXCEPT ![t] = cur_tick + init_tick[t]]
                /\ queue' = Insert(Without(queue, t), t, timeout')
                /\ due' = [due EXCEPT ![t] = now + init_tick[t]]
           ELSE UNCHANGED <<timeout, queue, due>>
    /\ isr' = [isr EXCEPT !.pc = "loop", !.tick = cur_tick]
    /\ UNCHANGED <<hwVars, init_tick, active, thr, cancelled>>

\* Nothing (more) has expired: set the next match and return.
isr_leave ==
    /\ isr.pc = "loop"
    /\ queue # <<>> => isr.tick < timeout[Head(queue)]
    /\ get_cur_tick
    /\ set_timeout(queue, timeout)
    /\ isr' = IsrIdle
    /\ busy' = 0
    /\ UNCHANGED <<now, pending, listVars, thr, due, cancelled>>

Init ==
    /\ now = 0 /\ match = IntervalMax /\ pending = FALSE /\ busy = 0
    /\ base = 0 /\ last = 0
    /\ queue = <<>>
    /\ timeout = [t \in Timers |-> 0]
    /\ init_tick = [t \in Timers |-> 0]
    /\ active = {}
    /\ thr = [t \in Timers |-> Idle]
    /\ isr = IsrIdle
    /\ readAt = 0
    /\ due = [t \in Timers |-> 0]
    /\ armedAt = 0
    /\ cancelled = {}

ThreadStep(t) ==
    \/ \E d \in Delays : hrt_call_after(t, d) \/ hrtimer_start(t, d)
    \/ hrt_cancel(t)
    \/ stop_test(t) \/ stop_remove(t) \/ stop_clear(t) \/ cancel_zero(t)
    \/ init(t) \/ start_unlink(t) \/ start_read(t) \/ start_insert(t)

Next ==
    \/ Tick
    \/ \E t \in Timers : ThreadStep(t)
    \/ hrtimer_get_tick
    \/ isr_enter \/ isr_fire \/ isr_again \/ isr_leave

Spec == Init /\ [][Next]_vars
-----------------------------------------------------------------------------
Pcs == {"idle", "stop", "remove", "clear", "zero", "init", "unlink", "read", "insert"}

\* The variables keep their types.
TypeOK ==
    /\ now \in 0 .. MaxTime /\ match \in 0 .. Period - 1
    /\ pending \in BOOLEAN /\ busy \in 0 .. MaxLatency
    /\ base \in Nat /\ last \in 0 .. Period - 1
    /\ queue \in Seq(Timers)
    /\ timeout \in [Timers -> Nat] /\ init_tick \in [Timers -> Nat]
    /\ active \subseteq Timers
    /\ thr \in [Timers -> [op : {"none", "after", "cancel", "start"}, pc : Pcs, delay : Nat]]
    /\ isr \in [pc : {"idle", "loop", "again"}, tick : Nat, timer : Timers \cup {NoTimer}]
    /\ readAt \in 0 .. now
    /\ due \in [Timers -> Nat] /\ armedAt \in Nat
    /\ cancelled \subseteq Timers

Queued == {queue[i] : i \in 1 .. Len(queue)}

\* The list holds no timer twice and stays sorted, although deadlines are
\* computed outside the critical section that inserts them, and _hrtimer_init
\* writes timeout_tick of its timer with interrupts enabled.
ListSorted ==
    \A i, j \in 1 .. Len(queue) : i < j =>
        queue[i] # queue[j] /\ timeout[queue[i]] =< timeout[queue[j]]

\* The ACTIVATED flag tells whether a timer is in the list, although stop
\* reads and clears it with interrupts enabled; the one exception is between
\* the two halves of a stop.  So hrtimer_init, which unlinks nothing, never
\* reinitialises the links of a timer that is in the list.
FlagTellsQueued ==
    \A t \in Timers : (t \in active) # (t \in Queued) =>
        t \in active /\ thr[t].pc = "clear"

\* drv_hrt.h, "Call callout(arg) after delay has elapsed": a callback never
\* runs before its delay has passed in true time.
NotEarly ==
    [][\A t \in Timers :
        isr.pc = "loop" /\ isr'.pc = "again" /\ isr'.timer = t => now >= due[t]]_vars

\* After hrt_cancel returns, the call is not in the list again (so it cannot
\* run) until hrt_call_after puts it there, even if its callback restarted it
\* while the cancellation was in progress.
CancelledStaysOut == cancelled \cap Queued = {}

\* The clock of the latest reading, carried forward to now.
Clock == base + last + (now - readAt)

\* Time until the counter next reaches the match register.
UntilMatch == LET d == (match - count) % Period IN IF d = 0 THEN Period ELSE d

\* No expired timer is left behind: with a timer in the list, the interrupt is
\* raised, running, or due no later than the first deadline (or as soon after
\* the last setting as set_timeout allows).
WakeupArmed ==
    queue # <<>> /\ ~pending /\ isr.pc = "idle" =>
        \/ Clock + UntilMatch =< timeout[Head(queue)]
        \/ Clock + UntilMatch =< armedAt + IntervalMin

\* Every reading of the clock is the true time, so that it never steps back
\* (drv_hrt.h, "It should never wrap or go backwards"): get_cur_tick tells one
\* wrap of the counter from the last reading, so no whole turn may lie between
\* two readings.  In flight the 1 kHz threads see to that; with no reader, the
\* keep-alive match of set_timeout does, while no deadline lies beyond it.
ClockExact == base + last = readAt
=============================================================================
