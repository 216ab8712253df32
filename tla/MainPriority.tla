----------------------------- MODULE MainPriority -----------------------------
(***************************************************************************)
(* The priority of the main thread: main_loop of HAL_PX4_Class.cpp, the    *)
(* overrun call it arms around loop(), and the boost that                  *)
(* delay_microseconds_boost of Scheduler.cpp gives it.                     *)
(*                                                                         *)
(* Four things set the priority: the main thread itself, two timer         *)
(* interrupts (loop_overtime, and sem_post_boost / set_normal_priority     *)
(* sharing one record), and the kernel when the thread gives a mutex or    *)
(* the SPI bus thread waits for it (a sensor driver's _sem).  A priority   *)
(* set by an interrupt takes effect when the kernel next reschedules.  One *)
(* driver thread, below the main thread and above its overtime priority,   *)
(* stands for the drivers loop() may wait for.  As everywhere in RT-Thread *)
(* a lower number is a higher priority.                                    *)
(***************************************************************************)
EXTENDS RtMutex

CONSTANTS Overtime,     \* delay of the overrun call (100000 us), in ticks
          BoostTime,    \* APM_MAIN_PRIORITY_BOOST_USEC, in ticks
          Delays,       \* delays setup() and loop() ask for, in ticks
          GapDelay,     \* the 250 us given up after each loop()
          DriverPrio    \* priority of the driver thread

PriorityMax == 256                      \* RT_THREAD_PRIORITY_MAX
Boost == PriorityMax - 241              \* APM_MAIN_PRIORITY_BOOST
Main == PriorityMax - 180               \* APM_MAIN_PRIORITY
OvertimePrio == PriorityMax - 10        \* APM_OVERTIME_PRIORITY
SpiPrio == PriorityMax - 242            \* APM_SPI_PRIORITY
StartupPrio == PriorityMax - 10         \* APM_STARTUP_PRIORITY

ASSUME MainPriorityAssumption ==
    /\ Overtime \in Nat \ {0} /\ BoostTime \in Nat \ {0} /\ GapDelay \in Nat \ {0}
    /\ Delays \subseteq Nat \ {0}
    /\ DriverPrio \in Main + 1 .. OvertimePrio - 1
    /\ NoThread \notin {"main", "spi"}

VARIABLES
    pc,             \* where main_loop is
    wait,           \* "none", or what the main thread blocks on
    prio,           \* current_priority of the main thread
    cpu,            \* the thread that runs
    px4_ran_overtime,
    overtime_call,  \* loop_overtime_call: ticks left, Off when not armed
    wait_call,      \* the record of delay_microseconds_boost: [fn, left]
    delay_call,     \* the record of delay_microseconds_semaphore: ticks left
    need,           \* the main thread spins until the driver has run
    sem             \* the mutex of a sensor driver's _sem

vars == <<pc, wait, prio, cpu, px4_ran_overtime, overtime_call, wait_call,
          delay_call, need, sem>>

Off == -1
NoCall == [fn |-> "none", left |-> Off]

\* rt_schedule: the ready thread with the highest priority.
Schedule(w, p, n) ==
    IF w \in {"none", "woken"} /\ (p < DriverPrio \/ ~n) THEN "main"
    ELSE IF n THEN "driver" ELSE "idle"

Held == sem.owner = "main"
Running == cpu = "main" /\ wait = "none" /\ ~need /\ ~Held
Prios == [t \in {"main", "spi"} |-> IF t = "main" THEN prio ELSE SpiPrio]
Rest == <<pc, wait, px4_ran_overtime, overtime_call, wait_call, delay_call, need>>

-----------------------------------------------------------------------------
(* The main thread *)

\* main_loop, up to the call of setup().
start ==
    /\ pc = "start" /\ Running
    /\ prio' = StartupPrio
    /\ pc' = "setup"
    /\ UNCHANGED <<wait, cpu, px4_ran_overtime, overtime_call, wait_call, delay_call, need, sem>>

\* setup() has returned.
end_setup ==
    /\ pc = "setup" /\ Running
    /\ prio' = Main
    /\ pc' = "arm"
    /\ UNCHANGED <<wait, cpu, px4_ran_overtime, overtime_call, wait_call, delay_call, need, sem>>

\* hrt_call_after(&loop_overtime_call) stops a call still armed; then loop().
arm ==
    /\ pc = "arm" /\ Running
    /\ overtime_call' = Overtime
    /\ pc' = "loop"
    /\ UNCHANGED <<wait, prio, cpu, px4_ran_overtime, wait_call, delay_call, need, sem>>

\* loop() returns: the test of px4_ran_overtime.
end_loop ==
    /\ pc = "loop" /\ Running
    /\ pc' = IF px4_ran_overtime THEN "restore" ELSE "gap"
    /\ UNCHANGED <<wait, prio, cpu, px4_ran_overtime, overtime_call, wait_call, delay_call, need, sem>>

restore ==
    /\ pc = "restore" /\ Running
    /\ prio' = Main
    /\ pc' = "clear"
    /\ UNCHANGED <<wait, cpu, px4_ran_overtime, overtime_call, wait_call, delay_call, need, sem>>

clear ==
    /\ pc = "clear" /\ Running
    /\ px4_ran_overtime' = FALSE
    /\ pc' = "gap"
    /\ UNCHANGED <<wait, prio, cpu, overtime_call, wait_call, delay_call, need, sem>>

\* delay_microseconds_semaphore: arm a call and wait for its sem_post.
Block(d) ==
    /\ delay_call' = d
    /\ wait' = "sem"
    /\ cpu' = Schedule("sem", prio, need)
    /\ UNCHANGED <<prio, px4_ran_overtime, overtime_call, wait_call, need, sem>>

\* delay_microseconds(250) after loop(), then round again.
gap ==
    /\ pc = "gap" /\ Running
    /\ Block(GapDelay)
    /\ pc' = "arm"

\* setup() and loop() call delay_microseconds ...
delay_microseconds(d) ==
    /\ pc \in {"setup", "loop"} /\ Running
    /\ Block(d)
    /\ UNCHANGED pc

\* Mutant: a record still armed is not taken over.
Mut_delay_microseconds_boost(d) ==
    /\ pc \in {"setup", "loop"} /\ Running
    /\ wait_call' = IF wait_call = NoCall THEN [fn |-> "sem_post_boost", left |-> d]
                    ELSE wait_call
    /\ wait' = "boost"
    /\ cpu' = Schedule("boost", prio, need)
    /\ UNCHANGED <<pc, prio, px4_ran_overtime, overtime_call, delay_call, need, sem>>

\* ... and delay_microseconds_boost, which takes the record over from a
\* set_normal_priority that may still be armed in it ...
delay_microseconds_boost(d) ==
    /\ pc \in {"setup", "loop"} /\ Running
    /\ wait_call' = [fn |-> "sem_post_boost", left |-> d]
    /\ wait' = "boost"
    /\ cpu' = Schedule("boost", prio, need)
    /\ UNCHANGED <<pc, prio, px4_ran_overtime, overtime_call, delay_call, need, sem>>

\* Mutant: the boost is not given an end.
Mut_boost_return ==
    /\ wait = "woken" /\ cpu = "main"
    /\ wait' = "none"
    /\ UNCHANGED <<pc, prio, cpu, px4_ran_overtime, overtime_call, wait_call, delay_call, need, sem>>

\* ... and, once woken, arms set_normal_priority.
boost_return ==
    /\ wait = "woken" /\ cpu = "main"
    /\ wait_call' = [fn |-> "set_normal_priority", left |-> BoostTime]
    /\ wait' = "none"
    /\ UNCHANGED <<pc, prio, cpu, px4_ran_overtime, overtime_call, delay_call, need, sem>>

\* A tight loop waiting for the driver.
spin ==
    /\ pc \in {"setup", "loop"} /\ Running
    /\ need' = TRUE
    /\ UNCHANGED <<pc, wait, prio, cpu, px4_ran_overtime, overtime_call, wait_call, delay_call, sem>>

\* update_gyro and update_accel take _sem.  The SPI bus thread, above the main
\* thread and never blocked inside the mutex, does not own it when they do.
take ==
    /\ pc \in {"setup", "loop"} /\ Running
    /\ sem' = rt_mutex_take(sem, "main", Prios)
    /\ UNCHANGED <<Rest, prio, cpu>>

\* They give it.  The bus thread, if it waits, owns it next, runs at once and
\* gives it back.
give ==
    /\ Held /\ cpu = "main"
    /\ sem' = rt_mutex_init
    /\ prio' = release_prio(sem, Prios)["main"]
    /\ cpu' = IF sem.suspend_thread = <<>> THEN cpu ELSE Schedule(wait, prio', need)
    /\ UNCHANGED Rest

-----------------------------------------------------------------------------
\* The SPI bus thread finds _sem taken.
spi_wait ==
    /\ Held /\ sem.suspend_thread = <<>>
    /\ sem' = rt_mutex_take(sem, "spi", Prios)
    /\ prio' = take_prio(sem, "spi", Prios)["main"]
    /\ cpu' = Schedule(wait, prio', need)
    /\ UNCHANGED Rest

(* The driver thread, the timer interrupts, the kernel *)

\* The driver does its work and blocks again.
driver ==
    /\ cpu = "driver"
    /\ need' = FALSE
    /\ cpu' = Schedule(wait, prio, FALSE)
    /\ UNCHANGED <<pc, wait, prio, px4_ran_overtime, overtime_call, wait_call, delay_call, sem>>

\* Mutant: only the flag is set.
Mut_loop_overtime ==
    /\ overtime_call = 0
    /\ overtime_call' = Off
    /\ px4_ran_overtime' = TRUE
    /\ UNCHANGED <<pc, wait, prio, cpu, wait_call, delay_call, need, sem>>

\* loop_overtime, in the timer interrupt.
loop_overtime ==
    /\ overtime_call = 0
    /\ overtime_call' = Off
    /\ prio' = OvertimePrio
    /\ px4_ran_overtime' = TRUE
    /\ UNCHANGED <<pc, wait, cpu, wait_call, delay_call, need, sem>>

\* sem_post_boost: the priority, then sem_post, which reschedules.
sem_post_boost ==
    /\ wait_call = [fn |-> "sem_post_boost", left |-> 0]
    /\ wait_call' = NoCall
    /\ prio' = Boost
    /\ wait' = "woken"
    /\ cpu' = Schedule("woken", Boost, need)
    /\ UNCHANGED <<pc, px4_ran_overtime, overtime_call, delay_call, need, sem>>

set_normal_priority ==
    /\ wait_call = [fn |-> "set_normal_priority", left |-> 0]
    /\ wait_call' = NoCall
    /\ prio' = Main
    /\ UNCHANGED <<pc, wait, cpu, px4_ran_overtime, overtime_call, delay_call, need, sem>>

\* sem_post of delay_microseconds_semaphore.
delay_post ==
    /\ delay_call = 0
    /\ delay_call' = Off
    /\ wait' = "none"
    /\ cpu' = Schedule("none", prio, need)
    /\ UNCHANGED <<pc, prio, px4_ran_overtime, overtime_call, wait_call, need, sem>>

\* Another thread or interrupt makes the kernel reschedule (the timer thread
\* does so every millisecond).
rt_schedule ==
    /\ cpu' = Schedule(wait, prio, need)
    /\ UNCHANGED <<pc, wait, prio, px4_ran_overtime, overtime_call, wait_call, delay_call, need, sem>>

Down(n) == IF n = Off THEN Off ELSE n - 1

\* Time passes; a call that is due runs first.
Tick ==
    /\ overtime_call # 0 /\ wait_call.left # 0 /\ delay_call # 0
    /\ overtime_call' = Down(overtime_call)
    /\ wait_call' = [wait_call EXCEPT !.left = Down(@)]
    /\ delay_call' = Down(delay_call)
    /\ UNCHANGED <<pc, wait, prio, cpu, px4_ran_overtime, need, sem>>

Init ==
    /\ pc = "start" /\ wait = "none" /\ prio = Main /\ cpu = "main"
    /\ px4_ran_overtime = FALSE
    /\ overtime_call = Off /\ wait_call = NoCall /\ delay_call = Off
    /\ need = FALSE /\ sem = rt_mutex_init

MainStep ==
    \/ start \/ end_setup \/ arm \/ end_loop \/ restore \/ clear \/ gap
    \/ boost_return \/ spin \/ take \/ give
    \/ \E d \in Delays : delay_microseconds(d) \/ delay_microseconds_boost(d)

Interrupt == loop_overtime \/ sem_post_boost \/ set_normal_priority \/ delay_post

Next == MainStep \/ spi_wait \/ driver \/ Interrupt \/ rt_schedule \/ Tick

Spec == Init /\ [][Next]_vars

\* Time passes, due calls run, the kernel reschedules (the timer thread wakes
\* every millisecond) and the thread that has the processor advances.
FairSpec ==
    /\ Spec
    /\ WF_vars(Tick) /\ WF_vars(Interrupt) /\ WF_vars(rt_schedule)
    /\ WF_vars(driver) /\ WF_vars(boost_return)

-----------------------------------------------------------------------------
\* The variables keep their types.
TypeOK ==
    /\ pc \in {"start", "setup", "arm", "loop", "restore", "clear", "gap"}
    /\ wait \in {"none", "sem", "boost", "woken"}
    /\ prio \in {SpiPrio, Boost, Main, OvertimePrio}
    /\ cpu \in {"main", "driver", "idle"}
    /\ px4_ran_overtime \in BOOLEAN
    /\ overtime_call \in Off .. Overtime
    /\ wait_call \in [fn : {"none", "sem_post_boost", "set_normal_priority"}, left : Int]
    /\ wait_call.left >= Off /\ delay_call \in Int /\ delay_call >= Off
    /\ need \in BOOLEAN

Overboosted == prio = Boost /\ wait_call.fn = "none" /\ wait # "woken"

\* The boost outlives its call in one way only.  While the main thread is
\* boosted, one of the two calls that end the boost or renew it is armed, or
\* the thread is on its way to arming it; they share one record, and the main
\* loop's own changes of priority come in between.  Only a mutex that was taken
\* during the boost and is given after its end brings the boost back for good.
BoostEnds ==
    [][Overboosted' => Overboosted \/ (give /\ sem.original_priority = Boost)]_vars

\* A blocked main thread always has the call armed that will wake it, whatever
\* else uses the two records.
WakerArmed ==
    /\ wait = "sem" => delay_call # Off
    /\ wait = "boost" => wait_call.fn = "sem_post_boost"

\* "this ensures a tight loop waiting on a lower priority driver will
\* eventually give up some time for the driver to run" (main_loop), for a
\* tight loop that starts while the overrun call is armed and no
\* set_normal_priority is.
TightLoopYields ==
    (pc = "loop" /\ need /\ wait_call = NoCall /\ overtime_call # Off) ~> ~need
=============================================================================
