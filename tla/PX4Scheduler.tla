---------------------------- MODULE PX4Scheduler ----------------------------
(***************************************************************************)
(* The timer processes of PX4Scheduler (AP_HAL_PX4/Scheduler.cpp) and the  *)
(* CPU failsafe of the copter (ArduCopter/failsafe.cpp) that runs with     *)
(* them.                                                                   *)
(*                                                                         *)
(* _run_timers is called by the timer thread every millisecond, and by the *)
(* main thread in resume_timer_procs.  The timer thread is above the main  *)
(* thread, but a boosted main thread (module MainPriority) runs in the     *)
(* middle of a tick, so the two interleave in both directions.  A unit of  *)
(* time is a second, far longer than any tick or loop.                     *)
(***************************************************************************)
EXTENDS Integers

CONSTANTS Procs,        \* the timer processes
          MaxProcs,     \* PX4_SCHEDULER_MAX_TIMER_PROCS
          NoProc,       \* an empty slot
          Trouble,      \* 2000000 us, in units
          Again,        \* 1000000 us, in units
          TimeWrap,     \* micros() counts modulo this
          CountWrap,    \* mainLoop_count counts modulo this
          MaxSuspends   \* bound: the pins change this often

ASSUME SchedulerAssumption ==
    /\ NoProc \notin Procs /\ MaxProcs \in Nat \ {0} /\ MaxSuspends \in Nat
    /\ Again \in Nat /\ Trouble \in Nat /\ TimeWrap \in Nat /\ CountWrap \in Nat
    /\ Again < Trouble /\ Trouble + 2 < TimeWrap /\ CountWrap > 2

Threads == {"timer", "main"}

VARIABLES
    _timer_proc, _num_timer_procs, _timer_suspended, _timer_event_missed,
    _in_timer_proc,
    run,            \* each thread in _run_timers: [pc, i, late]
    main,           \* where the main thread is
    failsafe_enabled, in_failsafe,
    loops,          \* mainLoop_count - failsafe_last_mainLoop_count
    elapsed,        \* micros() - failsafe_last_timestamp
    armed,          \* motors->armed()
    ticked, looped, \* the timer thread, the main loop, ran in this unit
    stall,          \* history: units since loop() or failsafe_enable() ran
    locked,         \* the main loop has locked up
    inProcs,        \* history: the tick was calling when suspend was called
    suspends        \* calls of suspend_timer_procs

sched == <<_timer_proc, _num_timer_procs, _timer_suspended, _timer_event_missed>>
susp == <<inProcs, suspends>>
fs == <<failsafe_enabled, in_failsafe, armed>>
world == <<looped, stall, locked>>
vs_last == <<loops, elapsed>>
vars == <<sched, _in_timer_proc, run, main, fs, vs_last, world, ticked, susp>>

Outside == [pc |-> "out", i |-> 0, late |-> FALSE]
Goto(t, pc) == run' = [run EXCEPT ![t].pc = pc]

-----------------------------------------------------------------------------
(* _run_timers, by thread t *)

\* The timer thread wakes every millisecond.
timer_wake ==
    /\ run["timer"] = Outside
    /\ Goto("timer", "test")
    /\ UNCHANGED <<sched, _in_timer_proc, main, fs, vs_last, world, ticked, susp>>

Return(t) ==
    /\ run' = [run EXCEPT ![t] = Outside]
    /\ ticked' = (ticked \/ t = "timer")

\* The test of _in_timer_proc ...
run_test(t) ==
    /\ run[t].pc = "test"
    /\ IF _in_timer_proc THEN Return(t) ELSE Goto(t, "enter") /\ UNCHANGED ticked
    /\ UNCHANGED <<sched, _in_timer_proc, main, fs, vs_last, world, susp>>

\* ... and the setting of it.
run_enter(t) ==
    /\ run[t].pc = "enter"
    /\ _in_timer_proc' = TRUE
    /\ Goto(t, "suspended")
    /\ UNCHANGED <<sched, main, fs, vs_last, world, ticked, susp>>

\* Mutant: the processes run although they are suspended.
Mut_run_suspended(t) ==
    /\ run[t].pc = "suspended"
    /\ run' = [run EXCEPT ![t].pc = "procs", ![t].i = 1]
    /\ UNCHANGED <<sched, _in_timer_proc, main, fs, vs_last, world, ticked, susp>>

\* Mutant: nothing at all is done while suspended, and the flag stays set.
Mut2_run_suspended(t) ==
    /\ run[t].pc = "suspended"
    /\ IF _timer_suspended THEN Return(t)
       ELSE run' = [run EXCEPT ![t].pc = "procs", ![t].i = 1] /\ UNCHANGED ticked
    /\ UNCHANGED <<sched, _in_timer_proc, main, fs, vs_last, world, susp>>

run_suspended(t) ==
    /\ run[t].pc = "suspended"
    /\ run' = [run EXCEPT ![t].pc = IF ~_timer_suspended THEN "procs"
                                    ELSE IF t = "timer" THEN "miss" ELSE "failsafe",
                          ![t].i = 1]
    /\ UNCHANGED <<sched, _in_timer_proc, main, fs, vs_last, world, ticked, susp>>

\* One process after the other, to the count as it is then.
run_procs(t) ==
    /\ run[t].pc = "procs"
    /\ run' = [run EXCEPT ![t] = IF run[t].i <= _num_timer_procs
                                 THEN [run[t] EXCEPT !.i = @ + 1]
                                 ELSE [Outside EXCEPT !.pc = "failsafe"]]
    /\ UNCHANGED <<sched, _in_timer_proc, main, fs, vs_last, world, ticked, susp>>

\* The process called in run_procs.
Called(t, p) ==
    /\ run[t].pc = "procs" /\ run[t].i <= _num_timer_procs
    /\ _timer_proc[run[t].i] = p

run_miss(t) ==
    /\ run[t].pc = "miss"
    /\ _timer_event_missed' = TRUE
    /\ run' = [run EXCEPT ![t] = [Outside EXCEPT !.pc = "failsafe"]]
    /\ UNCHANGED <<_timer_proc, _num_timer_procs, _timer_suspended, _in_timer_proc,
                   main, fs, vs_last, world, ticked, susp>>

\* failsafe_check reads the time first.
failsafe_time(t) ==
    /\ run[t].pc = "failsafe"
    /\ Goto(t, "check")
    /\ UNCHANGED <<sched, _in_timer_proc, main, fs, vs_last, world, ticked, susp>>

\* tnow - failsafe_last_timestamp, unsigned.  A timestamp that was stored
\* after tnow was read is some microseconds later than it.
Elapsed(t) == IF run[t].late THEN TimeWrap - 1 ELSE elapsed

\* Mutant: a short stall is enough.
Mut_failsafe_check(t) ==
    /\ run[t].pc = "check"
    /\ IF loops # 0
       THEN /\ loops' = 0 /\ elapsed' = 0 /\ in_failsafe' = FALSE
            /\ UNCHANGED armed
       ELSE /\ in_failsafe' = (in_failsafe \/ (failsafe_enabled /\ Elapsed(t) > Again))
            /\ IF failsafe_enabled /\ in_failsafe' /\ Elapsed(t) > Again
               THEN elapsed' = 0 /\ armed' = FALSE
               ELSE UNCHANGED <<elapsed, armed>>
            /\ UNCHANGED loops
    /\ Goto(t, "leave")
    /\ UNCHANGED <<sched, _in_timer_proc, main, failsafe_enabled, world, ticked, susp>>

\* The rest of failsafe_check: a loop that has run since the last check is all
\* right; one that has not for two seconds has the motors disarmed, and again
\* every second.
failsafe_check(t) ==
    /\ run[t].pc = "check"
    /\ IF loops # 0
       THEN /\ loops' = 0 /\ elapsed' = 0 /\ in_failsafe' = FALSE
            /\ UNCHANGED armed
       ELSE /\ in_failsafe' = (in_failsafe \/ (failsafe_enabled /\ Elapsed(t) > Trouble))
            /\ IF failsafe_enabled /\ in_failsafe' /\ Elapsed(t) > Again
               THEN elapsed' = 0 /\ armed' = FALSE
               ELSE UNCHANGED <<elapsed, armed>>
            /\ UNCHANGED loops
    /\ Goto(t, "leave")
    /\ UNCHANGED <<sched, _in_timer_proc, main, failsafe_enabled, world, ticked, susp>>

\* Mutant: the flag is left set.
Mut_run_leave(t) ==
    /\ run[t].pc = "leave"
    /\ Return(t)
    /\ UNCHANGED <<sched, _in_timer_proc, main, fs, vs_last, world, susp>>

run_leave(t) ==
    /\ run[t].pc = "leave"
    /\ _in_timer_proc' = FALSE
    /\ Return(t)
    /\ UNCHANGED <<sched, main, fs, vs_last, world, susp>>

-----------------------------------------------------------------------------
(* The main thread *)

InLoop == main \in {"loop", "tasks"} /\ ~locked

\* register_timer_process: not twice, not when full; the slot before the count.
register_timer_process(p) ==
    /\ InLoop
    /\ \A i \in 1 .. _num_timer_procs : _timer_proc[i] # p
    /\ _num_timer_procs < MaxProcs
    /\ _timer_proc' = [_timer_proc EXCEPT ![_num_timer_procs + 1] = p]
    /\ main' = "count"
    /\ UNCHANGED <<_num_timer_procs, _timer_suspended, _timer_event_missed,
                   _in_timer_proc, run, fs, vs_last, world, ticked, susp>>

count_proc ==
    /\ main = "count"
    /\ _num_timer_procs' = _num_timer_procs + 1
    /\ main' = "loop"
    /\ UNCHANGED <<_timer_proc, _timer_suspended, _timer_event_missed, _in_timer_proc,
                   run, fs, vs_last, world, ticked, susp>>

\* set_pin of an analog source, between suspend_timer_procs ...
suspend_timer_procs ==
    /\ InLoop /\ suspends < MaxSuspends
    /\ suspends' = suspends + 1
    /\ _timer_suspended' = TRUE
    /\ inProcs' = (run["timer"].pc = "procs")
    /\ main' = "set_pin"
    /\ UNCHANGED <<_timer_proc, _num_timer_procs, _timer_event_missed, _in_timer_proc,
                   run, fs, vs_last, world, ticked>>

\* ... and resume_timer_procs: the flag, ...
resume_timer_procs ==
    /\ main = "set_pin"
    /\ _timer_suspended' = FALSE
    /\ inProcs' = FALSE
    /\ main' = "resume"
    /\ UNCHANGED <<_timer_proc, _num_timer_procs, _timer_event_missed, _in_timer_proc,
                   run, fs, vs_last, world, ticked, suspends>>

\* ... the tick that was missed, ...
resume_test ==
    /\ main = "resume"
    /\ IF _timer_event_missed
       THEN main' = "missed" /\ Goto("main", "test")
       ELSE main' = "loop" /\ UNCHANGED run
    /\ UNCHANGED <<sched, _in_timer_proc, fs, vs_last, world, ticked, susp>>

\* ... and, once it has run, its flag.
resume_clear ==
    /\ main = "missed" /\ run["main"] = Outside
    /\ _timer_event_missed' = FALSE
    /\ main' = "loop"
    /\ UNCHANGED <<_timer_proc, _num_timer_procs, _timer_suspended, _in_timer_proc,
                   run, fs, vs_last, world, ticked, susp>>

\* loop() begins; it runs many times a second, and runs its tasks.
loop ==
    /\ InLoop /\ ~looped
    /\ loops' = (loops + 1) % CountWrap
    /\ looped' = TRUE
    /\ stall' = 0
    /\ main' = "tasks"
    /\ UNCHANGED <<sched, _in_timer_proc, run, fs, elapsed, ticked, locked, susp>>

\* init_arm_motors and compassmot, tasks of loop(), turn the failsafe off for
\* work that may take long, as setup() has it off, ...
failsafe_disable ==
    /\ main = "tasks" /\ ~locked
    /\ failsafe_enabled' = FALSE
    /\ main' = "busy"
    /\ UNCHANGED <<sched, _in_timer_proc, run, in_failsafe, armed, vs_last, world, ticked, susp>>

\* ... at the end of which the motors may be armed; failsafe_enable turns it
\* on ...
failsafe_enable ==
    /\ main = "busy"
    /\ failsafe_enabled' = TRUE
    /\ armed' \in {armed, TRUE}
    /\ main' = "stamp"
    /\ UNCHANGED <<sched, _in_timer_proc, run, in_failsafe, vs_last, world, ticked, susp>>

\* ... and then sets its time.
enable_stamp ==
    /\ main = "stamp"
    /\ elapsed' = 0
    /\ run' = [t \in Threads |-> [run[t] EXCEPT !.late = (run[t].pc = "check")]]
    /\ stall' = 0
    /\ main' = "loop"
    /\ UNCHANGED <<sched, _in_timer_proc, fs, loops, looped, locked, ticked, susp>>

\* init_disarm_motors.
disarm ==
    /\ InLoop /\ armed
    /\ armed' = FALSE
    /\ UNCHANGED <<sched, _in_timer_proc, run, main, failsafe_enabled, in_failsafe,
                   vs_last, world, ticked, susp>>

\* The main loop locks up.
Lockup ==
    /\ InLoop
    /\ locked' = TRUE
    /\ UNCHANGED <<sched, _in_timer_proc, run, main, fs, vs_last, looped,
                   stall, ticked, susp>>

\* A second passes: the timer thread has run in it, and the main thread is not
\* in one of its short sequences.
Time ==
    /\ ticked /\ run["timer"] = Outside
    /\ main \in {"loop", "tasks", "busy"}
    /\ elapsed' = (elapsed + 1) % TimeWrap
    /\ stall' = IF stall <= Trouble THEN stall + 1 ELSE stall
    /\ ticked' = FALSE /\ looped' = FALSE
    /\ UNCHANGED <<sched, _in_timer_proc, run, main, fs, loops, locked, susp>>

-----------------------------------------------------------------------------
Init ==
    /\ _timer_proc = [i \in 1 .. MaxProcs |-> NoProc] /\ _num_timer_procs = 0
    /\ _timer_suspended = FALSE /\ _timer_event_missed = FALSE
    /\ _in_timer_proc = FALSE
    /\ run = [t \in Threads |-> Outside] /\ main = "busy"
    /\ failsafe_enabled = FALSE /\ in_failsafe = FALSE
    /\ loops = 0 /\ elapsed = 0 /\ armed = FALSE
    /\ ticked = FALSE /\ looped = FALSE /\ stall = 0 /\ locked = FALSE
    /\ inProcs = FALSE /\ suspends = 0

RunStep(t) ==
    \/ run_test(t) \/ run_enter(t) \/ run_suspended(t) \/ run_procs(t) \/ run_miss(t)
    \/ failsafe_time(t) \/ failsafe_check(t) \/ run_leave(t)

\* What the main thread goes on with once it has begun.
MainStep ==
    \/ count_proc \/ resume_timer_procs \/ resume_test \/ resume_clear
    \/ failsafe_enable \/ enable_stamp

Next ==
    \/ timer_wake \/ MainStep \/ Time \/ Lockup
    \/ \E t \in Threads : RunStep(t)
    \/ \E p \in Procs : register_timer_process(p)
    \/ suspend_timer_procs \/ loop \/ failsafe_disable \/ disarm

Spec == Init /\ [][Next]_vars

\* The timer thread wakes and runs on, the main thread finishes what it has
\* begun, and time passes, ticks or not.
FairSpec ==
    /\ Spec
    /\ WF_vars(timer_wake) /\ WF_vars(MainStep) /\ SF_vars(Time)
    /\ \A t \in Threads : WF_vars(RunStep(t))

-----------------------------------------------------------------------------
RunType ==
    [pc : {"out", "test", "enter", "suspended", "procs", "miss", "failsafe", "check", "leave"},
     i : 0 .. MaxProcs + 1, late : BOOLEAN]

\* The variables keep their types; every counted slot holds a process, and no
\* process has two.
TypeOK ==
    /\ _num_timer_procs \in 0 .. MaxProcs
    /\ _timer_proc \in [1 .. MaxProcs -> Procs \cup {NoProc}]
    /\ \A i \in 1 .. _num_timer_procs : _timer_proc[i] \in Procs
    /\ \A i, j \in 1 .. _num_timer_procs : _timer_proc[i] = _timer_proc[j] => i = j
    /\ {_timer_suspended, _timer_event_missed, _in_timer_proc, failsafe_enabled,
        in_failsafe, armed, ticked, looped, locked, inProcs} \subseteq BOOLEAN
    /\ run \in [Threads -> RunType]
    /\ main \in {"loop", "tasks", "busy", "stamp", "count", "set_pin", "resume", "missed"}
    /\ run["main"] # Outside => main = "missed"
    /\ elapsed \in 0 .. TimeWrap - 1 /\ loops \in 0 .. CountWrap - 1
    /\ stall \in 0 .. Trouble + 1 /\ suspends \in 0 .. MaxSuspends

\* After suspend_timer_procs has returned no process is called by the timer
\* thread, except by a tick that was calling them when it was called.
SuspendHolds ==
    _timer_suspended /\ run["timer"].pc = "procs" => inProcs

\* "motors are running but we have gone 2 second since the main loop ran": the
\* failsafe disarms the motors only then, or a second later again.  The
\* exceptions are the two races of failsafe_enable: a check between its two
\* stores, which counts from the last check before failsafe_disable, and a
\* check that read the time before the second store, whose difference wraps.
DisarmsOnlyStalled ==
    [][\A t \in Threads :
          armed /\ ~armed' /\ run[t].pc = "check" /\ run'[t].pc = "leave" =>
              \/ stall > IF in_failsafe THEN Again ELSE Trouble
              \/ main = "stamp" \/ run[t].late]_vars

\* "our failsafe strategy is to detect main loop lockup and disarm the motors":
\* whatever the main thread did before, and whichever thread checks.
LockupDisarms == (locked /\ failsafe_enabled) ~> ~armed

\* A process once registered is called again and again: no interleaving of
\* suspend, resume and ticks leaves the processes suspended or _in_timer_proc
\* set.
ProcsKeepRunning ==
    \A p \in Procs :
        (\E i \in 1 .. _num_timer_procs : _timer_proc[i] = p)
            ~> (\E t \in Threads : Called(t, p))
=============================================================================
