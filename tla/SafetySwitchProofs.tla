-------------------------- MODULE SafetySwitchProofs --------------------------
(***************************************************************************)
(* Proofs about SafetySwitch, for all periods and timeouts, all patterns   *)
(* of the light and every order of the handlers that are due in a tick.    *)
(***************************************************************************)
EXTENDS SafetySwitch, TLAPS

\* A leaf that names no prover is Zenon's.
USE ZenonT(30)

\* rt_tick and the timeouts computed from it wrap at most once.
LEMMA WrapOnce ==
    ASSUME NEW x \in Nat, x < 2 * TickWrap
    PROVE  x % TickWrap = IF x < TickWrap THEN x ELSE x - TickWrap
BY SafetySwitchAssumption, SMTT(60)

\* The timeout of a press that begins at tick t is PressTimeout later, unless it
\* wraps, and then it is less than PressTimeout.
LEMMA PressDeadline ==
    ASSUME NEW t \in 0 .. TickWrap - 1
    PROVE  /\ (t + PressTimeout) % TickWrap \in 0 .. TickWrap - 1
           /\ \/ (t + PressTimeout) % TickWrap = t + PressTimeout
              \/ (t + PressTimeout) % TickWrap < PressTimeout /\ t > PressTimeout
<1>1. t + PressTimeout \in Nat /\ t + PressTimeout < 2 * TickWrap
  BY SafetySwitchAssumption, SMTT(60)
<1>2. (t + PressTimeout) % TickWrap
        = IF t + PressTimeout < TickWrap THEN t + PressTimeout
          ELSE (t + PressTimeout) - TickWrap
  BY <1>1, WrapOnce
<1>3. QED
  BY <1>1, <1>2, SafetySwitchAssumption, SMTT(60)

\* Every pattern of the light has a first item, and its items are items.
LEMMA Patterns ==
    ASSUME NEW h \in {blink_init, blink_disarmed, blink_armed}
    PROVE  /\ Len(h) \in Nat /\ DOMAIN h = 1 .. Len(h) /\ 1 \in DOMAIN h
           /\ \A b \in DOMAIN h : h[b].light \in BOOLEAN /\ h[b].delay \in Nat
<1> DEFINE Item == [light : BOOLEAN, delay : Nat]
<1>1. h # <<>> /\ h \in Seq(Item)
  BY BlinkAssumption
<1> HIDE DEF Item
<1>2. Len(h) \in Nat /\ DOMAIN h = 1 .. Len(h) /\ Len(h) # 0
  BY <1>1, SMTT(60)
<1>3. \A b \in 1 .. Len(h) : h[b] \in Item
  BY <1>1, SMTT(60)
<1>4. 1 \in DOMAIN h
  BY <1>2, SMTT(60)
<1>5. ASSUME NEW b \in DOMAIN h PROVE h[b].light \in BOOLEAN /\ h[b].delay \in Nat
  BY <1>2, <1>3 DEF Item
<1>6. QED
  BY <1>2, <1>4, <1>5

-----------------------------------------------------------------------------
(* The inductive invariant *)

\* What is_locked says of the pins.  It can be wrong only before the first check
\* after boot, and then the switch is not armed: a press cannot have lasted for
\* PressTimeout ticks, and the check is no later than that.
LockInv ==
    /\ is_locked => pins = "low"
    /\ pins = "low" /\ ~is_locked =>
         /\ state # "ARMED" /\ button_state # "WAIT_RELEASE"
         /\ button_state = "PRESSED" => cur_button_timeout > CheckPeriod
         /\ due # {} => tick > 0
         /\ \/ tick + check_in =< CheckPeriod
            \/ "check" \in due /\ tick =< CheckPeriod

\* The pins are as they should be, or a check comes within CheckPeriod ticks of
\* the last change of the switch.
CheckInv ==
    \/ pins = "low" <=> check_lock
    \/ "check" \in due
    \/ since + check_in =< CheckPeriod

\* A press whose timeout did not wrap has been seen for as many ticks as its
\* timeout is nearer than PressTimeout.
PressInv ==
    /\ button_state = "RELEASED" => held = Up
    /\ button_state = "PRESSED" =>
         /\ held \in 0 .. PressTimeout
         /\ \/ cur_button_timeout < PressTimeout
            \/ held = PressTimeout
            \/ tick =< cur_button_timeout - PressTimeout + held

IInv == TypeOK /\ ErrorStaysLocked /\ LockInv /\ CheckInv /\ PressInv

-----------------------------------------------------------------------------
\* A board that boots satisfies the invariant, after an error or without one.
LEMMA BootIInv ==
    ASSUME NEW error \in BOOLEAN, rt_hw_board_init(error)
    PROVE  IInv'
<1> USE SafetySwitchAssumption DEF rt_hw_board_init
<1>1. TypeOK'
  <2>1. (wdt \in [count : 0 .. WdtLoad, int : BOOLEAN])'
    BY SMTT(60)
  <2>2. (feed_in \in {Gone} \cup 0 .. FeedPeriod)'
    BY SMTT(60) DEF Gone
  <2>3. ({cur_button_timeout, cur_blink_timeout, last_idle_tick} \subseteq 0 .. TickWrap - 1)'
    BY SMTT(60)
  <2>4. ({led, is_locked, is_error} \subseteq BOOLEAN)'
    OBVIOUS
  <2>5. QED
    BY <2>1, <2>2, <2>3, <2>4, SMTT(60) DEF TypeOK
<1>2. ErrorStaysLocked'
  BY DEF ErrorStaysLocked
<1>3. LockInv'
  BY SMTT(60) DEF LockInv
<1>4. CheckInv'
  BY SMTT(60) DEF CheckInv
<1>5. PressInv'
  BY DEF PressInv
<1>6. QED
  BY <1>1, <1>2, <1>3, <1>4, <1>5 DEF IInv

LEMMA InitIInv == Init => IInv
<1> SUFFICES ASSUME Init PROVE IInv
  OBVIOUS
<1> USE SafetySwitchAssumption DEF Init
<1>1. TypeOK
  <2>1. (wdt \in [count : 0 .. WdtLoad, int : BOOLEAN])
    BY SMTT(60)
  <2>2. (feed_in \in {Gone} \cup 0 .. FeedPeriod)
    BY SMTT(60) DEF Gone
  <2>3. ({cur_button_timeout, cur_blink_timeout, last_idle_tick} \subseteq 0 .. TickWrap - 1)
    BY SMTT(60)
  <2>4. ({led, is_locked, is_error} \subseteq BOOLEAN)
    OBVIOUS
  <2>5. QED
    BY <2>1, <2>2, <2>3, <2>4, SMTT(60) DEF TypeOK
<1>2. ErrorStaysLocked
  BY DEF ErrorStaysLocked
<1>3. LockInv
  BY SMTT(60) DEF LockInv
<1>4. CheckInv
  BY SMTT(60) DEF CheckInv
<1>5. PressInv
  BY DEF PressInv
<1>6. QED
  BY <1>1, <1>2, <1>3, <1>4, <1>5 DEF IInv

\* SysTick: time passes.  The three parts of the invariant that speak of time
\* are those that need the wrap of rt_tick.
LEMMA SysTickIInv == IInv /\ SysTick => IInv'
<1> SUFFICES ASSUME IInv, SysTick PROVE IInv'
  OBVIOUS
<1> USE SafetySwitchAssumption DEF IInv
<1>1. /\ tick \in Nat /\ tick + 1 < 2 * TickWrap /\ TickWrap \in Nat \ {0}
      /\ tick < TickWrap
  BY SMTT(60) DEF TypeOK
<1>2. tick' = IF tick + 1 < TickWrap THEN tick + 1 ELSE tick + 1 - TickWrap
  BY <1>1, WrapOnce, SMTT(60) DEF SysTick
<1>3. since' \in 0 .. CheckPeriod /\ since' =< since + 1
  BY SMTT(60) DEF SysTick, TypeOK, AtMost
<1>4. /\ held \in {Up, Spent} => held' = held
      /\ held \in 0 .. PressTimeout =>
           held' \in 0 .. PressTimeout /\ (held' = held + 1 \/ held' = PressTimeout)
  BY SMTT(60) DEF SysTick, TypeOK, AtMost, Up, Spent
<1>5. TypeOK'
  <2>1. wdt' \in [count : 0 .. WdtLoad, int : BOOLEAN]
    BY SMTT(60) DEF SysTick, TypeOK
  <2>2. feed_in' \in {Gone} \cup 0 .. FeedPeriod
    BY SMTT(60) DEF SysTick, TypeOK, Gone
  <2>3. held' \in {Up, Spent} \cup 0 .. PressTimeout
    BY <1>4 DEF TypeOK
  <2>4. QED
    BY <1>1, <1>2, <1>3, <2>1, <2>2, <2>3, SMTT(60)
       DEF SysTick, TypeOK, switch, light, lock
<1>6. ErrorStaysLocked'
  BY DEF SysTick, ErrorStaysLocked, switch, lock
<1>7. LockInv'
  BY <1>1, <1>2, SMTT(60) DEF SysTick, LockInv, TypeOK, switch, lock
<1>8. CheckInv'
  BY <1>3, SMTT(60) DEF SysTick, CheckInv, check_lock, TypeOK, switch, lock
<1>9. PressInv'
  BY <1>1, <1>2, <1>4, SMTT(60) DEF SysTick, PressInv, TypeOK, switch
<1>10. QED
  BY <1>5, <1>6, <1>7, <1>8, <1>9

\* button_timer_entry: a press begins, ends, or changes the switch.
LEMMA ButtonIInv ==
    ASSUME NEW pressed \in BOOLEAN, IInv, button_timer_entry(pressed)
    PROVE  IInv'
<1> USE SafetySwitchAssumption DEF IInv
<1> DEFINE deadline == (tick + PressTimeout) % TickWrap
<1>1. tick \in 0 .. TickWrap - 1
  BY DEF TypeOK
<1>2. /\ deadline \in 0 .. TickWrap - 1
      /\ deadline = tick + PressTimeout \/ (deadline < PressTimeout /\ tick > PressTimeout)
  BY <1>1, PressDeadline
<1> HIDE DEF deadline
<1>3. /\ "button" \in due /\ due' = due \ {"button"}
      /\ UNCHANGED <<timers, light, lock, is_error, hang, watchdog>>
  BY DEF button_timer_entry, ButtonRest
<1>4. CASE UNCHANGED <<switch, since, held>>
  BY <1>3, <1>4, SMTT(60) DEF TypeOK, ErrorStaysLocked, LockInv, CheckInv, check_lock, PressInv,
     timers, light, lock, watchdog, switch
<1>5. CASE /\ state # "INIT" /\ button_state' = "RELEASED" /\ held' = Up
           /\ UNCHANGED <<state, cur_button_timeout, since>>
  <2>1. TypeOK'
    BY <1>3, <1>5 DEF TypeOK, timers, light, lock, watchdog
  <2>2. ErrorStaysLocked' /\ LockInv' /\ CheckInv' /\ PressInv'
    BY <1>3, <1>5 DEF TypeOK, ErrorStaysLocked, LockInv, CheckInv, check_lock, PressInv,
       timers, lock
  <2>3. QED
    BY <2>1, <2>2
<1>6. CASE /\ pressed /\ state # "INIT" /\ button_state = "RELEASED"
           /\ cur_button_timeout' = deadline
           /\ button_state' = "PRESSED" /\ held' = Seen(pressed)
           /\ UNCHANGED <<state, since>>
  <2>1. held' = 0
    BY <1>6 DEF PressInv, Seen
  <2>2. TypeOK'
    <3>1. held' \in {Up, Spent} \cup 0 .. PressTimeout
      BY <2>1, SMTT(60)
    <3>2. cur_button_timeout' \in 0 .. TickWrap - 1
      BY <1>2, <1>6
    <3>3. QED
      BY <1>3, <1>6, <3>1, <3>2 DEF TypeOK, timers, light, lock, watchdog
  <2>3. ErrorStaysLocked' /\ CheckInv'
    BY <1>3, <1>6 DEF ErrorStaysLocked, CheckInv, check_lock, timers, lock
  <2>4. LockInv'
    BY <1>1, <1>2, <1>3, <1>6, SMTT(60) DEF TypeOK, LockInv, timers, lock
  <2>5. PressInv'
    <3>1. cur_button_timeout' = deadline /\ button_state' = "PRESSED" /\ tick' = tick
      BY <1>3, <1>6 DEF timers
    <3>2. \/ cur_button_timeout' < PressTimeout
          \/ tick' =< cur_button_timeout' - PressTimeout + held'
      BY <1>1, <1>2, <2>1, <3>1, SMTT(60)
    <3>3. QED
      BY <2>1, <3>1, <3>2, SMTT(60) DEF PressInv
  <2>6. QED
    BY <2>2, <2>3, <2>4, <2>5
<1>7. CASE /\ state # "INIT" /\ button_state = "PRESSED" /\ tick >= cur_button_timeout
           /\ Toggle /\ button_state' = "WAIT_RELEASE" /\ UNCHANGED cur_button_timeout
  <2>1. TypeOK'
    BY <1>3, <1>7, SMTT(60) DEF TypeOK, Toggle, timers, light, lock, watchdog
  <2>2. ErrorStaysLocked' /\ PressInv'
    BY <1>3, <1>7 DEF ErrorStaysLocked, PressInv, lock
  <2>3. CheckInv'
    BY <1>3, <1>7, SMTT(60) DEF TypeOK, CheckInv, Toggle, timers
  <2>4. ~(pins = "low" /\ ~is_locked)
    BY <1>3, <1>7, SMTT(60) DEF TypeOK, LockInv
  <2>5. LockInv'
    BY <1>3, <2>4 DEF LockInv, lock
  <2>6. QED
    BY <2>1, <2>2, <2>3, <2>5
<1>8. QED
  BY <1>4, <1>5, <1>6, <1>7 DEF button_timer_entry, deadline

\* blink_timer_entry changes the light only, and stays within its pattern.
LEMMA BlinkIInv == IInv /\ blink_timer_entry => IInv'
<1> SUFFICES ASSUME IInv, blink_timer_entry PROVE IInv'
  BY SMTT(60)
<1> USE SafetySwitchAssumption DEF IInv
<1>1. /\ due' = due \ {"blink"}
      /\ UNCHANGED <<timers, switch, lock, is_error, hang, watchdog, since, held>>
  BY DEF blink_timer_entry
<1> DEFINE Heads == {blink_init, blink_disarmed, blink_armed}
<1>2. next_blink_head \in Heads
  BY DEF next_blink_head
<1>3. ASSUME NEW h \in Heads, NEW b \in DOMAIN h, Show(h, b)
      PROVE  /\ cur_blink_head' \in Heads /\ cur_blink' \in DOMAIN cur_blink_head'
             /\ cur_blink_timeout' \in 0 .. TickWrap - 1 /\ led' \in BOOLEAN
  <2>1. h[b].light \in BOOLEAN /\ h[b].delay \in Nat
    BY Patterns
  <2>2. (tick + h[b].delay) \in Nat /\ TickWrap \in Nat \ {0}
    BY <2>1, SMTT(60) DEF TypeOK
  <2>3. QED
    BY <1>3, <2>1, <2>2, SMTT(60) DEF Show
<1>4. /\ cur_blink_head' \in Heads /\ cur_blink' \in DOMAIN cur_blink_head'
      /\ cur_blink_timeout' \in 0 .. TickWrap - 1 /\ led' \in BOOLEAN
  <2>1. CASE cur_blink_head # next_blink_head
    <3>1. Show(next_blink_head, 1)
      BY <2>1 DEF blink_timer_entry
    <3>2. 1 \in DOMAIN next_blink_head
      BY <1>2, Patterns
    <3>3. QED
      BY <1>2, <1>3, <3>1, <3>2
  <2>2. CASE cur_blink_head = next_blink_head
    <3>1. cur_blink_head \in Heads
      BY <1>2, <2>2
    <3>2. /\ Len(cur_blink_head) \in Nat /\ DOMAIN cur_blink_head = 1 .. Len(cur_blink_head)
          /\ 1 \in DOMAIN cur_blink_head
      BY <3>1, Patterns
    <3>3. cur_blink \in DOMAIN cur_blink_head
      BY <3>1, BlinkAssumption DEF TypeOK, NoBlink
    <3>4. (IF cur_blink < Len(cur_blink_head) THEN cur_blink + 1 ELSE 1) \in DOMAIN cur_blink_head
      BY <3>2, <3>3, SMTT(60)
    <3>5. \/ UNCHANGED light
          \/ Show(cur_blink_head, cur_blink)
          \/ Show(cur_blink_head, IF cur_blink < Len(cur_blink_head) THEN cur_blink + 1 ELSE 1)
      BY <2>2 DEF blink_timer_entry
    <3>6. CASE UNCHANGED light
      BY <3>1, <3>3, <3>6 DEF light, TypeOK
    <3>7. QED
      BY <1>3, <3>1, <3>3, <3>4, <3>5, <3>6
  <2>3. QED
    BY <2>1, <2>2
<1>5. TypeOK'
  BY <1>1, <1>4, SMTT(60) DEF TypeOK, timers, switch, lock, watchdog
<1>6. ErrorStaysLocked' /\ LockInv' /\ CheckInv' /\ PressInv'
  BY <1>1 DEF ErrorStaysLocked, LockInv, CheckInv, check_lock, PressInv, timers, switch, lock
<1>7. QED
  BY <1>5, <1>6

\* check_timer_entry: afterwards the pins are as they should be.
LEMMA CheckIInv == IInv /\ check_timer_entry => IInv'
<1> SUFFICES ASSUME IInv, check_timer_entry PROVE IInv'
  BY SMTT(60)
<1> USE DEF IInv
<1>1. /\ due' = due \ {"check"}
      /\ UNCHANGED <<timers, switch, light, is_error, hang, watchdog, since, held>>
  BY DEF check_timer_entry, CheckRest
<1>2. /\ is_locked' \in BOOLEAN /\ pins' \in {"low", "pwm"}
      /\ pins' = "low" <=> check_lock
      /\ is_locked' => pins' = "low"
      /\ pins' = "low" => is_locked'
  <2>1. CASE check_lock = is_locked
    <3>1. UNCHANGED <<is_locked, pins>>
      BY <2>1 DEF check_timer_entry, lock
    <3>2. is_locked \in BOOLEAN /\ pins \in {"low", "pwm"}
      BY DEF TypeOK
    <3>3. is_locked => pins = "low"
      BY DEF LockInv
    <3>4. pins = "low" /\ ~is_locked => state # "ARMED"
      BY DEF LockInv
    <3>5. QED
      BY <2>1, <3>1, <3>2, <3>3, <3>4 DEF check_lock
  <2>2. CASE check_lock # is_locked
    <3>1. is_locked' = check_lock /\ pins' = (IF check_lock THEN "low" ELSE "pwm")
      BY <2>2 DEF check_timer_entry
    <3>2. check_lock \in BOOLEAN
      BY DEF check_lock, TypeOK
    <3>3. QED
      BY <3>1, <3>2
  <2>3. QED
    BY <2>1, <2>2
<1>3. TypeOK'
  BY <1>1, <1>2, SMTT(60) DEF TypeOK, timers, switch, light, watchdog
<1>4. ErrorStaysLocked'
  BY <1>1, <1>2 DEF ErrorStaysLocked, check_lock, switch
<1>5. LockInv'
  BY <1>2 DEF LockInv
<1>6. CheckInv'
  BY <1>1, <1>2 DEF CheckInv, check_lock, switch
<1>7. PressInv'
  BY <1>1 DEF PressInv, timers, switch
<1>8. QED
  BY <1>3, <1>4, <1>5, <1>6, <1>7

\* Threads and the watchdog: only main() touches the switch, and it does not
\* run after an error.
LEMMA ThreadsIInv ==
    ASSUME IInv, main \/ wdt_thread_entry \/ wdt_idle_hook \/ Hang \/ UNCHANGED vars
    PROVE  IInv'
<1> USE SafetySwitchAssumption DEF IInv, timers, switch, light, lock, watchdog
<1>1. CASE main
  <2>1. TypeOK'
    BY <1>1, SMTT(60) DEF TypeOK, main
  <2>2. ErrorStaysLocked' /\ LockInv' /\ CheckInv' /\ PressInv'
    BY <1>1, SMTT(60) DEF TypeOK, main, ErrorStaysLocked, LockInv, CheckInv, PressInv
  <2>3. QED
    BY <2>1, <2>2
<1>2. CASE wdt_thread_entry
  <2>1. TypeOK'
    BY <1>2, SMTT(60) DEF TypeOK, wdt_thread_entry, Gone
  <2>2. ErrorStaysLocked' /\ LockInv' /\ CheckInv' /\ PressInv'
    BY <1>2 DEF wdt_thread_entry, ErrorStaysLocked, LockInv, CheckInv, check_lock, PressInv
  <2>3. QED
    BY <2>1, <2>2, SMTT(60)
<1>3. CASE wdt_idle_hook
  BY <1>3, SMTT(60) DEF TypeOK, wdt_idle_hook, ErrorStaysLocked, LockInv, CheckInv, check_lock, PressInv
<1>4. CASE Hang
  BY <1>4, SMTT(60) DEF TypeOK, Hang, ErrorStaysLocked, LockInv, CheckInv, check_lock, PressInv
<1>5. CASE UNCHANGED vars
  BY <1>5, SMTT(60) DEF TypeOK, vars, ErrorStaysLocked, LockInv, CheckInv, check_lock, PressInv
<1>6. QED
  BY <1>1, <1>2, <1>3, <1>4, <1>5

\* The watchdog at zero: it resets, or only raises its interrupt.
LEMMA WatchdogIInv == IInv /\ WatchdogZero => IInv'
<1> SUFFICES ASSUME IInv, WatchdogZero PROVE IInv'
  BY SMTT(60)
<1>1. CASE rt_hw_board_init(TRUE)
  BY <1>1, BootIInv
<1>2. CASE /\ wdt' = [count |-> WdtLoad, int |-> TRUE]
           /\ UNCHANGED <<timers, due, switch, light, lock, is_error, hang, feed_in,
                          last_idle_tick, since, held>>
  BY <1>2, SafetySwitchAssumption, SMTT(60) DEF IInv, TypeOK, ErrorStaysLocked, LockInv, CheckInv,
     check_lock, PressInv, timers, switch, light, lock
<1>3. QED
  BY <1>1, <1>2 DEF WatchdogZero

LEMMA NextIInv == IInv /\ [Next]_vars => IInv'
<1> SUFFICES ASSUME IInv, [Next]_vars PROVE IInv'
  OBVIOUS
<1>1. CASE PowerCycle
  BY <1>1, BootIInv DEF PowerCycle
<1>2. QED
  BY <1>1, SysTickIInv, ButtonIInv, BlinkIInv, CheckIInv, ThreadsIInv, WatchdogIInv
     DEF Next, System

-----------------------------------------------------------------------------
\* The invariant holds in every reachable state.
THEOREM Invariance == Spec => []IInv
BY InitIInv, NextIInv, PTL DEF Spec

\* The variables keep their types, and blink_timer_entry stays in its tables.
THEOREM TypeCorrect == Spec => []TypeOK
<1>1. IInv => TypeOK
  BY DEF IInv
<1>2. QED
  BY <1>1, Invariance, PTL

\* check_timer_entry brings the pins to what the switch and the error flag say
\* within one period, whatever their phase and the order of the handlers.
THEOREM LockFollowsSwitch == Spec => []PinsFollowSwitch
<1>1. IInv => PinsFollowSwitch
  BY SafetySwitchAssumption, SMTT(60)
     DEF IInv, TypeOK, CheckInv, LockInv, PinsFollowSwitch, check_lock
<1>2. QED
  BY <1>1, Invariance, PTL

\* After a reset by the watchdog, main() starts nothing and no pin is driven.
THEOREM ErrorLocks == Spec => []ErrorStaysLocked
<1>1. IInv => ErrorStaysLocked
  BY DEF IInv
<1>2. QED
  BY <1>1, Invariance, PTL

\* button_timer_entry changes sides only after a long press, once per press.
THEOREM LongPress == Spec => ToggleNeedsLongPress
<1>1. IInv /\ [Next]_vars =>
        [state' # state /\ {state, state'} = {"ARMED", "DISARMED"}
           => held = PressTimeout \/ (held >= 0 /\ cur_button_timeout < PressTimeout)]_vars
  <2> SUFFICES ASSUME IInv, Next, state' # state, {state, state'} = {"ARMED", "DISARMED"}
               PROVE  held = PressTimeout \/ (held >= 0 /\ cur_button_timeout < PressTimeout)
    OBVIOUS
  <2>1. PICK pressed \in BOOLEAN : button_timer_entry(pressed)
    <3>1. state' # "INIT" /\ state # "INIT"
      OBVIOUS
    <3>2. QED
      BY <3>1 DEF Next, System, SysTick, blink_timer_entry, check_timer_entry, CheckRest,
         wdt_thread_entry, wdt_idle_hook, WatchdogZero, rt_hw_board_init, main, PowerCycle,
         Hang, switch
  <2>2. button_state = "PRESSED" /\ tick >= cur_button_timeout
    BY <2>1 DEF button_timer_entry, switch
  <2>3. QED
    BY <2>2, SafetySwitchAssumption, SMTT(60) DEF IInv, TypeOK, PressInv
<1>2. QED
  BY <1>1, Invariance, PTL DEF Spec, ToggleNeedsLongPress
=============================================================================
