# Verification of the TM4C1294 port of ArduPilot

The repository is ArduCopter 3.5.7 on the RT-Thread kernel, ported to the
TM4C1294XL board. The kernel (`src/src`, `src/components`) and the vehicle code
(`src/ardupilot/ArduCopter`, most of `libraries`) are upstream. The port's own
logic is the hardware layer `src/ardupilot/libraries/AP_HAL_PX4`, rewritten for
RT-Thread, and the drivers in `src/bsp/tm4c129x`. That is what this project models:
threads of different priorities and interrupts that share memory mostly without
locks.

## The system

Priorities run from 0 (highest) to 255: SPI bus 14, boosted main 15, timer
thread 75, main thread 76, I2C bus 78, watchdog 79, UART 196, storage 197,
io 198, main thread during `setup()` or after an overrun 246. The kernel tick is 10 ms;
finer delays use the microsecond timers.

| Part | State | Operations | What is hard about it |
|---|---|---|---|
| Parameter storage | RAM copy, mask of dirty lines, EEPROM | `write_block` (main), `_timer_tick` (storage thread), power loss | read-modify-write of one mask word by two threads |
| Microsecond timers | 16 bit counter, match register, sorted list, flags | start, cancel, read the clock (threads), match interrupt | flag and list change in separate critical sections; counter wraps |
| Main thread's priority | priority, overrun flag, two timer calls | `main_loop`, delays, two kinds of interrupt, the mutex it shares with the SPI thread | four writers of one priority |
| RC input | decoder state, published frame | edge interrupt, loss check (timer thread), `new_input` (main) | edges lost or late; clock read outside the lock |
| RC output | pulse array, flags, PWM registers | `write`, `cork`, `push`, `set_freq` (main), `timer_tick` (timer thread) | both threads write the registers; two outputs share a generator |
| Safety switch, pin lock, watchdog | switch, button, light, lock flag, error flag | three tick timers, watchdog thread, idle hook, reset | an initial flag that contradicts the pins; tick wrap; hangs |
| Timer processes and CPU failsafe | process list, suspend and missed flags, loop counter and its time | register, suspend, resume, arm, disarm (main), `_run_timers` (timer thread and main) | test-then-set guard shared by two threads; unsigned times stored in two steps |
| Serial ports | two rings, receive buffer, `_initialised`, `_in_timer` | `begin`, `write`, `read` (main, io), UART thread, receive interrupt | rings replaced under the thread that uses them; more than one thread calls `write` |
| Bus threads | callback list, bus semaphore, driver's `_sem`, priorities | register, transfer, `update` (main), callbacks (bus thread) | list extended while it is walked; nested mutexes with inheritance |
| Tone alarm | tune position, note call | start, stop, next note (interrupt) | callback restarts its own timer |

They interact through the timers: the main thread's delays, boost and overrun are
calls of the microsecond timers, the tone alarm restarts its own call from the
interrupt, and RC input takes its time from the same clock. RC output is written
by the main thread, whose boost decides whether it may interrupt a tick of the timer
thread. The pin lock asks the safety switch and the error flag, and the flag comes
from the watchdog. The mutex of the kernel (`RtMutex`) appears twice: between a bus thread and the main
thread in `DeviceBus`, and in `MainPriority`, where giving it changes the priority the
timer calls also set.

`PROJECT.json` lists every part, modelled or not, the hazards by source line, and
the source lines of every definition.

## Modules

Each component has a module with its state, actions and properties, and an `MC...`
module with the constants of its runs. An action is one step no other actor can
split: an access to shared memory, a section with interrupts disabled, or a whole
handler where nothing can come between. Definitions prefixed `Mut_` are altered
forms of the definition that follows them: each breaks the property paired with it
in `PROJECT.json`, which shows that the property depends on that piece of code. `TypeOK` gives
the ranges of a module's variables; for Storage it is part of the invariant that is checked and proved.

**Storage** (`Storage.cpp`, `Storage.h`, `Bitmask.h`, `dev_eeprom.c`). A cell is a
4 byte word. `write_block` copies cells one at a time (`copy_cell`) and marks lines
by a load and a store of the mask word (`mark_load`, `mark_store`); the storage
thread's `timer_tick` and `scan_line` find a line, `clear_load` and `clear_store`
clear its mark, and `program_cell` writes a word of it. `Crash` keeps the EEPROM only. The
history variable `lost` records that a clear was stored over a mark made since its load.

**HrTimer** (`hr_timer.c`, `drv_hrtimer.c`, `drv_hrt.c`). True time `now` drives the
counter `now % Period`; `base` and `last` are what `get_cur_tick` keeps. Each timer
has a thread that starts and cancels it in the steps of `hrtimer_stop` and
`_hrtimer_start`, and the interrupt (`isr_enter`, `isr_fire`, `isr_again`,
`isr_leave`) comes between any two. Callbacks of timers in `Rearm` restart their
call, as the tone alarm does.

**MainPriority** (`HAL_PX4_Class.cpp`, `Scheduler.cpp`). `main_loop` with the overrun
call, the delays, and the interrupts that post semaphores and set priorities. One
driver thread stands for what `loop()` may wait for in a tight loop (`spin`, `need`). `take`
and `give` are the sensor driver's `_sem` in `update_gyro` and `update_accel`; the SPI bus thread,
above even the boosted main thread, may come to wait for it (`spi_wait`).

**RcIn** (`dev_rc_in.c`, `RCInput.cpp`). A transmitter sends frames of pulses and may fall
silent. An edge raises the interrupt (`status`), which waits up to `MaxHold` while others are
masked or served; `RC_IN_INT_HANDLER` stamps it with the time at which it runs, serves two edges as one
if the second came meanwhile, and is called once more for an edge that falls between clearing the
interrupt and reading the pin (`EdgeInHandler`). The decoder, the
loss check (clock reading and comparison are two steps), the copy under the lock and
`new_input` follow.

**RcOut** (`RCOutput.cpp`, `dev_rc_out.c`). Main and timer thread each carry a record of
where they are. A period or pulse is scaled with 1.875 counts per microsecond and
rounded down, as the code does. `set_freq` runs at normal priority, below the
timer thread, so a tick falls between its steps as a whole; `write`, `cork` and
`push` may also fall into a tick, when the main thread is boosted. Every
write carries a new pulse, so that the properties can tell writes apart; writing the
same pulse again does nothing in the code.

**SafetySwitch** (`dev_safety_switch.c`, the pin lock of `dev_rc_out.c`,
`dev_watchdog.c`, `board.c`, `application.c`). `SysTick` makes timers due, and their
handlers run before any thread does. `hang` says which threads are kept from running; the
watchdog counts down, raises an interrupt nobody clears, and resets at the next
zero. The button is read as pressed or released at each reading.

**PX4Scheduler** (`Scheduler.cpp`, `ArduCopter/failsafe.cpp`). `_run_timers` as steps of either
thread: the guard is tested and set in two steps, the processes are called one by one, then
`failsafe_check` reads the time and compares it in another. The main thread registers,
suspends and resumes (as `set_pin` does), counts its loops, turns the failsafe off and on around
arming, and may lock up. Times and counts appear only as the differences the code takes, modulo
their widths: `elapsed`, `loops`.

**ByteBuffer**, **ByteQueue**, **UARTDriver** (`RingBuffer.cpp`, `UARTDriver.cpp`, the receive side of
`serial.c`, `getpid` of the build's `nuttx/misc.c`). `ByteBuffer` has the ring's operations as operators on a record; `ByteQueue` is
the abstract bounded queue. `UARTDriver` splits `begin`, `read`, `write` and the UART thread's tick at
every access to what they share. Any thread of `Writers` may call `write`; `getpid()`, which returns the
calling thread, is what the owner test compares. Memory may run out and the device may fail to open. The port modelled
is one that receives; the console's `_read_fd` returns nothing.

**RtMutex**, **DeviceBus** (`ipc.c`, `Semaphores.cpp`, `Device.cpp`, the `_sem` of
`AP_InertialSensor_Backend.cpp`, the callback of `AP_Compass_IST8310.cpp`). `RtMutex` has `rt_mutex_take` and `rt_mutex_release` as functions of
the mutex and of the threads' priorities. In `DeviceBus` a bus thread (SPI or I2C) walks its callbacks with
the bus semaphore held around each, and `_sem` nested inside when there is a sample to hand over; a compass's callback restarts its own
period (`adjust_timer`). The main thread registers callbacks and takes either mutex alone. Times are kept relative to the present.

## Runs

| Run | Shows |
|---|---|
| `storage` | A changed line is forgotten only through the lost mark; the search finds a line; the inductive invariant `IInv`; once writers stop, nothing stays marked and the device holds the buffer unless a mark was lost (liveness). |
| `storage_race` | Violation: the comment at `Storage.cpp:72-74` says losing the race cannot leave a line unwritten. It can. |
| `hrtimer` | The list is sorted, the ACTIVATED flag tells what is queued, a cancelled call stays out, no call runs early, and the match register is set for the first deadline, with interrupts between any two steps. |
| `hrtimer_clock` | Over two turns of the counter, with no reader but the timers and all delays within the keep-alive interval: every reading of the clock is the true time, so no turn of the counter is missed and it never steps back. |
| `main_priority` | A boost has an end coming, unless a mutex taken during it is given after its end; a waiting main thread always has its wake-up armed; a tight loop that starts with the overrun call armed and no boost pending gives way to the driver (liveness). |
| `rc_in_decoder` | The interrupt by itself (`DecoderSpec`: the timer thread not started): a published frame has all its channels, each ending within `MaxHold` of where it was sent; the decoder leaves out every second frame, but never two in a row whose edges it served one by one. |
| `rc_in` | With the timer thread and the main thread: a lost signal is not reported as new, and a fresh frame is, unless it came between the loss check's two steps. |
| `rc_out` | At rest each width is one somebody asked for, in the present period; nothing of a corked group is sent before `push()`, unless a tick is under way when it is written; the last pulse written is on the output in the end, because every tick refreshes (liveness). |
| `safety` | Pins follow the switch within one check; an error keeps them locked; one toggle per long press; an unarmed vehicle does not show a steady light for good; a hang ends in locked outputs (the last two are liveness). |
| `uart` | Both rings implement `ByteQueue` (refinement, `queue` being the ring's contents), the sending one because the owner test lets one thread only write; bytes received are those that arrived, in order, but for those given up by the interrupt; `begin` replaces a ring only while the UART thread is asleep; all that is written is sent and every `write` returns (liveness). |
| `px4_scheduler` | No process is called while suspended but by a tick already calling; a lockup is disarmed (liveness); a loop that runs is not disarmed, but for two races of `failsafe_enable`; registered processes are called for ever (liveness). |
| `device_bus` | Mutexes stay consistent; a callback keeps its phase until it chooses another; the thread wakes in time for known and new callbacks; every callback is called for ever, so the threads never wait for each other (liveness); priorities are inherited, but for a nested release, and restored. |

### Observations

Where the code departs from what one would expect, the property states the exception, and the
run shows that there is no other:

- `loop_overtime` runs once per loop, and a `set_normal_priority` still pending when it runs undoes
  it: the comment at `HAL_PX4_Class.cpp:200` ("eventually give up some time") holds for the
  loops `TightLoopYields` describes, not for all.
- A mutex taken during the boost and given after its end puts the boosted priority back, until the
  next boost ends (`BoostEnds`). `AP_HAL/Scheduler.h:28` speaks of a "short time".
- `check_lost` reads the clock before it disables interrupts: a frame published in between is
  taken for lost and `new_input()` swallows it (`NewInputSeen`; `AP_HAL/RCInput.h:22`).
- The handler of RC input reads the clock when it runs, so an edge served late lengthens one channel and
  shortens the next by as much. The errors do not add up, and no more than `MaxHold` is ever moved
  (`PublishesSentFrame`); exact values are not promised.
- In flight the clock of the timers is kept exact by its readers: the timer thread and others read it every
  millisecond. The keep-alive match of `set_timeout` does so alone only while the first deadline lies within
  `HRT_INTERVAL_MAX` (50 ms); the overrun call of `main_loop` (100 ms) and long notes lie beyond it.
- `_corking` is tested once per tick: a tick under way sends part of a group
  (`NothingSentWhileCorked`; `AP_HAL/RCOutput.h:61`).
- `failsafe_enable` sets its flag before its time: a check in between, or one that
  read the time before, may disarm motors just armed (`DisarmsOnlyStalled`).
- A bus thread that gives `_sem` inside a callback loses the priority it inherited through the bus
  semaphore (`PriorityInherited`; `documentation/doxygen/kernel.h:77`).
- `hrtimer_check` clears ACTIVATED before it tests it, so a timer with `RT_TIMER_FLAG_PERIODIC`, as
  `hrtimer_test.c:60` creates it, runs once (`isr_fire`, `isr_again`). No flight code uses the flag.

### Bounds

`storage`: three lines of two words in one mask word, so that a write crosses a line
and marks share a word; two writes and one power loss, the least that loses a mark and
recovers. `hrtimer`: two calls, one restarting itself; a delay of zero, which puts the deadline
in the past, and one longer than a turn of the counter; time up to that deadline. `hrtimer_clock`:
two turns of the counter. `main_priority` has no bound on time: counters only count down, so
the state space is finite. `rc_in_decoder`: frames of two channels
in an array of three, edges late by one unit twice, one silence, and time for more than three frames, the least in which
the decoder resynchronises, skips a frame and meets the next. `rc_in`: frames of one channel, one late edge and one silence
longer than the loss delay, so that the loss check meets a new frame. `HoldAssumption` is what lateness must
keep to: sections with interrupts disabled last microseconds, channel pulses hundreds of them and the
gap between frames milliseconds, so an edge waits less than any pulse lasts and cannot make a channel
look like a gap, nor a gap like a channel. `rc_out`: two outputs on one generator (the board has four, of which two share one),
three writes, one change of period (shorter, longer or refused), one disable, one wrap of
`micros()`. `safety`: no bound on time; `rt_tick` wraps at 7, and periods and timeouts keep the
order of the real ones (check and button period below the press timeout, feeding below the watchdog's count).
`uart`: rings of three slots, four bytes each way and
two calls of `begin`, two threads that write, so that each ring fills, wraps and is sent in two pieces, and the receive buffer
overflows; callers ask for no more than the least sizes, as all callers in the build do.
`px4_scheduler`: two processes, two suspensions (a pin changes rarely), no bound on time; the time wraps at 5 and the
loop counter at 3. `device_bus`: periods 2 and 4 with a longest sleep of 3 between them, no bound on time, lateness
up to 3 (`MaxLate`), a bus above and one below the main thread.
In all of them real durations are replaced by small ones in the same order.

`CHECK_DEADLOCK FALSE` appears where the bounds themselves stop the model (a last
instant, a last write).

### Fairness

Storage: the storage thread and the caller finish the steps they have begun, as the
kernel runs ready threads once those above sleep, and every boot opens storage. MainPriority: time passes, an
interrupt that is due is taken, and the running thread continues. RcOut: strong fairness
of the timer thread, because it wakes every millisecond and the main thread is corked for
less than that at a time; strong fairness of the steps the main thread has begun, which it
takes between ticks. SafetySwitch: ticks keep coming and the handlers due in a tick
run. UARTDriver: the UART thread, which wakes every millisecond, and calls that have begun go on. PX4Scheduler: the timer
thread wakes and runs on, the main thread finishes short sequences, and time passes (strong fairness,
as it stands still while they run). DeviceBus: the bus thread runs, the main thread gives what it has
taken, time passes. Nothing is assumed of the user, of power, or of a hung thread.

## Proofs

Every module but RcIn has a proof module (`StorageProofs`, `HrTimerProofs`, ...) whose theorems hold
for every value of the constants that satisfies the module's named assumption: any number of lines,
timers, outputs, processes or callbacks, rings of any size, any durations. The argument is the same
in all of them. The property that matters is not inductive, because it says nothing of the places
where a thread can be interrupted; the inductive invariant adds what is known there. One lemma per
action shows that the action preserves it, `Invariance` (`PortInvariant` for the port) draws the
conclusion `Spec => []IInv`, and each property follows from the invariant or, for an action property,
from the invariant and one step. A module-level `USE ZenonT(30)` makes Zenon the prover of every
leaf that names no other; the leaves with arithmetic, records or sequences cite the SMT solver.

**StorageProofs.** `SearchSucceeds`: the branch of `_timer_tick` commented "this shouldn't be
possible" is not reached. `OnlyTheRaceForgets`: with no mark lost, a difference between buffer and
device is marked whenever both threads are at rest. `TypeCorrect`: both threads stay within buffer and mask. `IInv`, which the run `storage` checks
too, adds where each thread stands (`MainInv`, `StoreInv`) and `ChangesCovered`: a word that differs
is covered by a mark, by a mark `write_block` is about to make, or by the programming in progress.
That part holds only while `lost` is false, and `clear_store` is the one step that sets it.
`LayoutAssumption` is needed: a write that ends exactly on the last word of storage would mark a line
that does not exist; the copter's layout ends before it.

**HrTimerProofs.** `SortedList`, `FlagSound`, `CancelSound`, `NoTimerForgotten` and `NeverEarly` are
the five properties of the run `hrtimer`. `ThreadInv` says from where to where a starting or stopping
thread keeps its timer out of the list, `ClockInv` that the kept clock is whole turns and a count, and
`DueInv` that a deadline is not earlier than asked on the *kept* clock: `NeverEarly` holds even when
the clock has lost turns, since it then lags. `ClockExactByReaders`: it does not lose turns if some
thread reads the clock more often than the counter turns (`ReadGap < Period`), whatever the delays are. On the board the
counter turns every 65 ms and the 1 kHz threads read it at least once in each of their delays. The lemmas before the actions are about sorted lists (`InsertProps`,
`WithoutProps`, `TailProps`) and the arithmetic of the counter.

**MainPriorityProofs.** `WakerStaysArmed` and `BoostEndsUnlessGiven` (an action property). `WaitInv`
says that the two timer records are armed just while the main thread waits for them, `SemInv` that
the driver's mutex is free or was taken by the main thread at one of four priorities.

**RcOutProofs.** `CorkedGroupWaits` and `RegistersAgree`, for any wiring of outputs to generators, and
`TypeCorrect`: a pulse is always shorter than its period, which `pwm_set_pulse` relies on.
`SetInv` is the core: the outputs before the one `set_freq` is at are settled at the new period,
nothing is known of those behind it that share a generator, and each is put right in its turn.
`LoadMax` is at most what a 16 bit load register holds.

**SafetySwitchProofs.** `LockFollowsSwitch`, `ErrorLocks` and `LongPress` (an action property).
`LockInv` bounds how long `is_locked` may contradict the pins after a boot: until the first check, which
comes before any press can have lasted. `CheckInv` and `PressInv` relate the ticks since the last
change, and since the press, to the next check and the timeout, over the wrap of `rt_tick`.

**PX4SchedulerProofs.** `SuspendWorks` and `FailsafeSound` (an action property).
`CountInv`: at most two rounds of `loop()` go unseen by `failsafe_check`, so a loop counter
with more than two values (`CountWrap > 2`) cannot come round unnoticed. `StallInv` compares the
failsafe's time with the time the loop has really stalled.

**DeviceBusProofs.** `MutexesConsistent`, `OwnerInherits`, `OwnPriorityBack`, `ScheduleKept` and `SleepEndsInTime`.
`Good` lists the states of a mutex by the program counters of the two threads; `PrioInv` says which
of two priorities each thread has. The mutex operations are used through one lemma per situation.

**UARTDriverProofs.** `ResizesAlone`, `NothingLostOrReordered` (`ReceivedInOrder`), and the
refinement of `ByteQueue`, each step of the port being a step of the queue or a stutter:
`ReadbufIsQueue` and `WritebufIsQueue`, the latter for any set of threads that call `write`. The invariant of the port, `Inv0`, says that the pieces the UART thread
holds between `reserve` and `commit` are free slots from `tail` on although `read` moves
`head`, those between `peek_iovec` and `advance` bytes from `head` on although `write` moves `tail`
(`RxInv`, `TxInv`), and that a ring in use has its least size (`SizeInv`, which rests on no caller asking
for more). `ReceivedInOrder` speaks of the concatenation of what was read, what is in
`_readbuf`, what is copied and not committed, and what is in `rx_fifo`; each step of the receive path
moves a byte from one part to the one before it. The refinement of `_writebuf` also needs `OwnerInv`, no thread
but the port's owner gets past the test of `_uart_owner_pid`, and `FillInv`, the writer
finds the bytes it has filled in where it left them. The lemmas on rings (`ContentsAdvance`, `ContentsCommit`,
`SameQueueKeeps`, `FillIs`) say what each operation of `ByteBuffer` does to the contents, once, for both rings.

Only model-checked:

- liveness (`EventuallySaved`, `TightLoopYields`, `EventuallySent`, `SteadyLightMeansArmed`, `HangLocks`,
  `EverythingSent`, `LockupDisarms`, `ProcsKeepRunning`, `EveryCallbackRuns`): fairness and `ENABLED` are out of the prover's reach;
- the properties of RcIn: what the decoder makes of a frame (`EverySecondFrame`, `PublishesSentFrame`) is an
  induction over the pulses of the frame, and the prover has none over data; the two of `new_input`
  (`NewInputIsFresh`, `NewInputSeen`) speak of that same stream of frames and are left with it;
- `ClockExact` on the keep-alive match alone, which holds only for short delays;
- `NoLineForgotten`, which is violated.

## Plan

1. Abstract specifications: a timer service that `HrTimer` implements, and a reliable
   register that `Storage` implements while no mark is lost.
2. The tone alarm's player on top of the timers; the allocation lock of POSIX semaphores.

## Not modelled

The kernel, POSIX layer, file systems and network are third-party; their rules appear only where
the modelled code relies on them (priorities, tick timers, mutexes). The vehicle code is
upstream; only the CPU failsafe is modelled. `PX4UARTDriver::end` and mutexes taken with a
timeout or twice by one thread are left out: nothing calls the first, and the HAL's `Semaphore` polls instead of waiting
with a timeout and is refused by the POSIX layer when taken twice. The io processes are left out:
`_run_io` tests `_timer_suspended` once, as `_run_timers` does, but has one caller and shares nothing else with the
modelled threads. In `DeviceBus` a callback takes `_sem` at most once; the callbacks of the inertial sensors on SPI take and give
it several times in a row, which adds no order of taking that is not there already. A line that a power loss
leaves half programmed is loaded as it is at the next boot: nothing in the code, and no property here, detects it. `set_freq` is also called from
the disarmed vehicle's `one_hz_loop`, which is the priority modelled.
The ADC is not read on this board. The tone alarm's player is planned. SPI, I2C, GPIO and PWM drivers move data to registers and keep no state of their
own between calls. The Ethernet driver follows the vendor's example. CAN is compiled out for
this board. The 18-channel limit of RC input, frequencies below 16 Hz and the wrap of 64 bit
microseconds are outside the inputs considered.

The modules stand for the concurrent part of the port, a small share of the repository's lines: most of them
are the kernel, its components and board packages, the vendor's libraries and the other vehicles,
which this port neither changes nor, for the larger part, builds.
