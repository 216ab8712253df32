----------------------------- MODULE SafetySwitch -----------------------------
(***************************************************************************)
(* What keeps the motor outputs off: the safety switch and its light       *)
(* (dev_safety_switch.c), the lock of the PWM pins (dev_rc_out.c), the     *)
(* watchdog (dev_watchdog.c), and the error flag it leaves for the next    *)
(* boot (board.c, application.c).                                          *)
(*                                                                         *)
(* The button, the light and the lock are timers of the tick interrupt:    *)
(* no thread runs between the handlers that are due in one tick.           *)
(***************************************************************************)
EXTENDS Integers, Sequences

CONSTANTS ButtonPeriod,     \* BUTTON_TIMER_TICK
          CheckPeriod,      \* CHECK_LOCK_PERIOD
          PressTimeout,     \* BUTTON_PRESS_TIMEOUT
          FeedPeriod,       \* the delay of the watchdog thread
          WdtLoad,          \* wdt_load_value in ticks, half the time to a reset
          SlowTimeout,      \* slow_thread_timeout
          TickWrap,         \* rt_tick_t counts modulo this
          blink_init, blink_disarmed, blink_armed   \* sequences of [light, delay]

ASSUME SafetySwitchAssumption ==
    /\ {ButtonPeriod, CheckPeriod, FeedPeriod, WdtLoad, SlowTimeout} \subseteq Nat \ {0}
    /\ PressTimeout \in Nat /\ PressTimeout >= CheckPeriod
    /\ FeedPeriod < WdtLoad
    /\ TickWrap \in Nat /\ TickWrap > 2 * PressTimeout /\ TickWrap > 2 * SlowTimeout

ASSUME BlinkAssumption ==
    \A h \in {blink_init, blink_disarmed, blink_armed} :
        h # <<>> /\ h \in Seq([light : BOOLEAN, delay : Nat])

VARIABLES
    tick,           \* rt_tick
    due,            \* handlers of this tick that have not run yet
    button_in, check_in,    \* ticks until those timers expire; "blink" always does
    state, button_state, cur_button_timeout,
    cur_blink_head, cur_blink, cur_blink_timeout, led,
    is_locked,
    pins,           \* "low" or "pwm": what the output pins are configured as
    is_error,
    hang,           \* threads that do not run: "none", "idle", or "feeder" too
    wdt,            \* [count, int]: the watchdog's counter and pending interrupt
    feed_in,        \* ticks until the watchdog thread wakes, or Gone
    last_idle_tick,
    since,          \* history: ticks since state changed, up to CheckPeriod
    held            \* history: ticks of the present press, or Up, or Spent

switch == <<state, button_state, cur_button_timeout>>
light == <<cur_blink_head, cur_blink, cur_blink_timeout, led>>
lock == <<is_locked, pins>>
watchdog == <<wdt, feed_in, last_idle_tick>>
timers == <<tick, button_in, check_in>>
vars == <<timers, due, switch, light, lock, is_error, hang, watchdog, since, held>>

Up == -1
Spent == -2
Gone == -1
NoBlink == <<>>

AtMost(n, max) == IF n > max THEN max ELSE n

-----------------------------------------------------------------------------
(* Boot: the drivers are initialised and the tick interrupt runs.  The order *)
(* of the drivers' initialisation sets the phase of the timers.              *)

\* dev_rc_out_init locks the pins although is_locked is false.
Init ==
    /\ tick = 0 /\ due = {}
    /\ button_in \in 1 .. ButtonPeriod /\ check_in \in 1 .. CheckPeriod
    /\ state = "INIT" /\ button_state = "RELEASED" /\ cur_button_timeout = 0
    /\ cur_blink_head = NoBlink /\ cur_blink = 0 /\ cur_blink_timeout = 0 /\ led = FALSE
    /\ is_locked = FALSE /\ pins = "low" /\ is_error = FALSE
    /\ wdt = [count |-> WdtLoad, int |-> FALSE] /\ feed_in = 0 /\ last_idle_tick = 0
    /\ hang = "none"
    /\ since = 0 /\ held = Up

\* The same again; by rt_hw_check_error a reset by the watchdog is an error, and
\* power-up is not.
rt_hw_board_init(error) ==
    /\ tick' = 0 /\ due' = {}
    /\ button_in' \in 1 .. ButtonPeriod /\ check_in' \in 1 .. CheckPeriod
    /\ state' = "INIT" /\ button_state' = "RELEASED" /\ cur_button_timeout' = 0
    /\ cur_blink_head' = NoBlink /\ cur_blink' = 0 /\ cur_blink_timeout' = 0 /\ led' = FALSE
    /\ is_locked' = FALSE /\ pins' = "low" /\ is_error' = error
    /\ wdt' = [count |-> WdtLoad, int |-> FALSE] /\ feed_in' = 0 /\ last_idle_tick' = 0
    /\ hang' = "none" /\ since' = 0 /\ held' = Up

-----------------------------------------------------------------------------
(* The handlers of the tick interrupt *)

\* SysTick: rt_tick moves on and the timers that expire are due.  Threads that
\* are not held up have run since the last tick.
SysTick ==
    /\ due = {}
    /\ hang = "none" => last_idle_tick = tick
    /\ hang # "feeder" => feed_in # 0
    /\ wdt.count > 0
    /\ tick' = (tick + 1) % TickWrap
    /\ due' = {"blink"} \cup (IF button_in = 1 THEN {"button"} ELSE {})
                         \cup (IF check_in = 1 THEN {"check"} ELSE {})
    /\ button_in' = IF button_in = 1 THEN ButtonPeriod ELSE button_in - 1
    /\ check_in' = IF check_in = 1 THEN CheckPeriod ELSE check_in - 1
    /\ feed_in' = IF feed_in > 0 THEN feed_in - 1 ELSE feed_in
    /\ wdt' = [wdt EXCEPT !.count = @ - 1]
    /\ since' = AtMost(since + 1, CheckPeriod)
    /\ held' = IF held < 0 THEN held ELSE AtMost(held + 1, PressTimeout)
    /\ UNCHANGED <<switch, light, lock, is_error, hang, last_idle_tick>>

Toggle ==
    /\ state' = IF state = "ARMED" THEN "DISARMED" ELSE "ARMED"
    /\ since' = 0
    /\ held' = Spent

ButtonRest == UNCHANGED <<timers, light, lock, is_error, hang, watchdog>>

Seen(pressed) == IF ~pressed THEN Up ELSE IF held = Up THEN 0 ELSE held

\* Mutant: a toggle does not wait for the release.
Mut_button_timer_entry(pressed) ==
    /\ "button" \in due /\ due' = due \ {"button"}
    /\ IF state # "INIT" /\ pressed /\ button_state = "PRESSED" /\ tick >= cur_button_timeout
       THEN Toggle /\ button_state' = "RELEASED" /\ UNCHANGED cur_button_timeout
       ELSE /\ button_state' = IF state = "INIT" THEN button_state
                               ELSE IF pressed THEN "PRESSED" ELSE "RELEASED"
            /\ cur_button_timeout' = IF state # "INIT" /\ pressed /\ button_state = "RELEASED"
                                     THEN (tick + PressTimeout) % TickWrap
                                     ELSE cur_button_timeout
            /\ held' = IF state = "INIT" THEN held ELSE Seen(pressed)
            /\ UNCHANGED <<state, since>>
    /\ ButtonRest

\* button_timer_entry, with the button as it is read now
button_timer_entry(pressed) ==
    /\ "button" \in due /\ due' = due \ {"button"}
    /\ \/ /\ state = "INIT"
          /\ UNCHANGED <<switch, since, held>>
       \/ /\ state # "INIT" /\ ~pressed
          /\ button_state' = "RELEASED"
          /\ held' = Up
          /\ UNCHANGED <<state, cur_button_timeout, since>>
       \/ /\ state # "INIT" /\ pressed /\ button_state = "RELEASED"
          /\ cur_button_timeout' = (tick + PressTimeout) % TickWrap
          /\ button_state' = "PRESSED"
          /\ held' = Seen(pressed)
          /\ UNCHANGED <<state, since>>
       \/ /\ state # "INIT" /\ pressed /\ button_state = "PRESSED"
          /\ tick >= cur_button_timeout
          /\ Toggle
          /\ button_state' = "WAIT_RELEASE"
          /\ UNCHANGED cur_button_timeout
       \/ /\ state # "INIT" /\ pressed
          /\ button_state = "WAIT_RELEASE" \/ (button_state = "PRESSED" /\ tick < cur_button_timeout)
          /\ UNCHANGED <<switch, since, held>>
    /\ ButtonRest

\* Mutant: the break after SAFETY_INIT is missing.
Mut_next_blink_head == IF state = "DISARMED" THEN blink_disarmed ELSE blink_armed

next_blink_head == CASE state = "ARMED" -> blink_armed
                     [] state = "DISARMED" -> blink_disarmed
                     [] OTHER -> blink_init

\* cur_blink = b of pattern h is shown from now on.
Show(h, b) ==
    /\ cur_blink_head' = h /\ cur_blink' = b
    /\ cur_blink_timeout' = (tick + h[b].delay) % TickWrap
    /\ led' = h[b].light

\* blink_timer_entry: a timeout of 0 means that none is set.
blink_timer_entry ==
    /\ "blink" \in due /\ due' = due \ {"blink"}
    /\ IF cur_blink_head # next_blink_head THEN Show(next_blink_head, 1)
       ELSE IF cur_blink_timeout = 0 THEN Show(cur_blink_head, cur_blink)
       ELSE IF tick < cur_blink_timeout THEN UNCHANGED light
       ELSE Show(cur_blink_head, IF cur_blink < Len(cur_blink_head) THEN cur_blink + 1 ELSE 1)
    /\ UNCHANGED <<timers, switch, lock, is_error, hang, watchdog, since, held>>

check_lock == is_error \/ state # "ARMED"

CheckRest == UNCHANGED <<timers, switch, light, is_error, hang, watchdog, since, held>>

\* Mutant: the flag is not kept when the pins are locked.
Mut_check_timer_entry ==
    /\ "check" \in due /\ due' = due \ {"check"}
    /\ IF check_lock = is_locked THEN UNCHANGED lock
       ELSE pins' = (IF check_lock THEN "low" ELSE "pwm") /\ is_locked' = FALSE
    /\ CheckRest

\* check_timer_entry
check_timer_entry ==
    /\ "check" \in due /\ due' = due \ {"check"}
    /\ IF check_lock = is_locked THEN UNCHANGED lock
       ELSE is_locked' = check_lock /\ pins' = (IF check_lock THEN "low" ELSE "pwm")
    /\ CheckRest

-----------------------------------------------------------------------------
(* Threads, the watchdog and the world *)

\* Mutant: ArduPilot starts after an error too.
Mut_main ==
    /\ due = {} /\ hang = "none"
    /\ state = "INIT"
    /\ state' = "DISARMED" /\ since' = 0
    /\ UNCHANGED <<timers, due, button_state, cur_button_timeout, light, lock, is_error,
                   hang, watchdog, held>>

\* main: after an error it returns; otherwise main_loop declares the switch ready.
main ==
    /\ due = {} /\ hang = "none"
    /\ ~is_error /\ state = "INIT"
    /\ state' = "DISARMED" /\ since' = 0
    /\ UNCHANGED <<timers, due, button_state, cur_button_timeout, light, lock, is_error,
                   hang, watchdog, held>>

\* Mutant: the watchdog is fed whether the idle thread runs or not.
Mut_wdt_thread_entry ==
    /\ due = {} /\ hang # "feeder" /\ feed_in = 0
    /\ wdt' = [wdt EXCEPT !.count = WdtLoad]
    /\ feed_in' = FeedPeriod
    /\ UNCHANGED <<timers, due, switch, light, lock, is_error, hang, last_idle_tick,
                   since, held>>

\* wdt_thread_entry: it feeds, and leaves when the idle thread has not run.
wdt_thread_entry ==
    /\ due = {} /\ hang # "feeder" /\ feed_in = 0
    /\ wdt' = [wdt EXCEPT !.count = WdtLoad]
    /\ feed_in' = IF (tick - last_idle_tick) % TickWrap >= SlowTimeout THEN Gone ELSE FeedPeriod
    /\ UNCHANGED <<timers, due, switch, light, lock, is_error, hang, last_idle_tick,
                   since, held>>

wdt_idle_hook ==
    /\ due = {} /\ hang = "none" /\ last_idle_tick # tick
    /\ last_idle_tick' = tick
    /\ UNCHANGED <<timers, due, switch, light, lock, is_error, hang, wdt, feed_in,
                   since, held>>

\* The watchdog: at zero it raises an interrupt, which nobody clears, and
\* starts again; at zero with the interrupt pending it resets.
WatchdogZero ==
    /\ wdt.count = 0
    /\ \/ /\ wdt.int
          /\ rt_hw_board_init(TRUE)
       \/ /\ ~wdt.int
          /\ wdt' = [count |-> WdtLoad, int |-> TRUE]
          /\ UNCHANGED <<timers, due, switch, light, lock, is_error, hang, feed_in,
                         last_idle_tick, since, held>>

PowerCycle == due = {} /\ rt_hw_board_init(FALSE)

\* Some thread starts or ends to keep all those below it from running.
Hang ==
    /\ due = {}
    /\ hang' \in {"none", "idle", "feeder"} \ {hang}
    /\ UNCHANGED <<timers, due, switch, light, lock, is_error, watchdog, since, held>>

System ==
    \/ SysTick \/ blink_timer_entry \/ check_timer_entry
    \/ \E pressed \in BOOLEAN : button_timer_entry(pressed)
    \/ wdt_thread_entry \/ wdt_idle_hook \/ WatchdogZero

Next == System \/ main \/ PowerCycle \/ Hang

Spec == Init /\ [][Next]_vars

\* Time passes, and what is due in a tick is done before the next.
FairSpec == Spec /\ SF_vars(SysTick) /\ WF_vars(System)

-----------------------------------------------------------------------------
\* The variables keep their types, and the light never runs off its pattern.
TypeOK ==
    /\ tick \in 0 .. TickWrap - 1 /\ due \subseteq {"button", "blink", "check"}
    /\ button_in \in 1 .. ButtonPeriod /\ check_in \in 1 .. CheckPeriod
    /\ state \in {"INIT", "DISARMED", "ARMED"}
    /\ button_state \in {"RELEASED", "PRESSED", "WAIT_RELEASE"}
    /\ {cur_button_timeout, cur_blink_timeout, last_idle_tick} \subseteq 0 .. TickWrap - 1
    /\ cur_blink_head \in {NoBlink, blink_init, blink_disarmed, blink_armed}
    /\ cur_blink_head = NoBlink \/ cur_blink \in DOMAIN cur_blink_head
    /\ {led, is_locked, is_error} \subseteq BOOLEAN
    /\ pins \in {"low", "pwm"} /\ hang \in {"none", "idle", "feeder"}
    /\ wdt \in [count : 0 .. WdtLoad, int : BOOLEAN]
    /\ feed_in \in {Gone} \cup 0 .. FeedPeriod
    /\ since \in 0 .. CheckPeriod /\ held \in {Up, Spent} \cup 0 .. PressTimeout

\* One period of check_timer_entry after the switch last changed, the pins are
\* driven if and only if it is off and there is no error: is_locked, which is
\* false at boot although the pins are locked, never leaves them the other way.
PinsFollowSwitch ==
    since = CheckPeriod /\ due = {} =>
        (pins = "pwm" <=> state = "ARMED" /\ ~is_error)

\* After a reset by the watchdog the vehicle stays as it booted, whatever the
\* button does: main() starts nothing, the switch does not become ready and no
\* pin is driven.
ErrorStaysLocked == is_error => state = "INIT" /\ pins = "low"

\* The switch changes sides only in a press that was seen for PressTimeout ticks
\* and has not changed it before.  The exception is a press in the last
\* PressTimeout ticks before rt_tick wraps, whose timeout is a small number.
ToggleNeedsLongPress ==
    [][state' # state /\ {state, state'} = {"ARMED", "DISARMED"}
         => held = PressTimeout \/ (held >= 0 /\ cur_button_timeout < PressTimeout)]_vars

\* A vehicle that is not armed does not show a steady light for good.
SteadyLightMeansArmed == []<>(~led \/ state = "ARMED")

\* A thread that keeps others from running for good does not leave the outputs
\* driven: the watchdog resets the board, and the outputs boot locked.
HangLocks == hang # "none" ~> (hang = "none" \/ pins = "low")
=============================================================================
