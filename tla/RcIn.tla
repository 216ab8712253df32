--------------------------------- MODULE RcIn ---------------------------------
(***************************************************************************)
(* Radio control input: the decoder of the pulse train in the pin's        *)
(* interrupt handler (dev_rc_in.c), the timer thread that copies its data  *)
(* into PX4RCInput once a millisecond, and the main thread that asks for   *)
(* new input (RCInput.cpp).                                                *)
(*                                                                         *)
(* A transmitter sends frames: per channel a low and a high pulse, whose   *)
(* sum is the value, then a low pulse and a high one of more than EndPulse.*)
(* The handler of an edge may come late, because interrupts are masked or  *)
(* another handler runs: it then stamps the edge with a later time, or     *)
(* finds the next edge as well.  The transmitter may fall silent anywhere. *)
(***************************************************************************)
EXTENDS Integers, FiniteSetsExt

CONSTANTS ChNum,        \* RC_IN_CH_NUM
          Sent,         \* channels the transmitter sends
          EndPulse,     \* END_PULSE
          LostDelay,    \* RC_LOST_DELAY
          TickMax,      \* the timer thread runs at least this often
          TimeWrap,     \* 2^64 in the code: more than any time reached
          Gap,          \* length of the pulse that ends a frame
          MaxHold,      \* the longest an edge waits for its handler
          MaxLate,      \* bound: how long edges wait altogether
          MaxBreaks,    \* times the transmitter falls silent
          MaxTime

ASSUME RcInAssumption ==
    /\ ChNum \in Nat \ {0} /\ Sent \in Nat \ {0} /\ EndPulse \in Nat \ {0}
    /\ LostDelay \in Nat \ {0} /\ TickMax \in Nat \ {0}
    /\ MaxTime \in Nat /\ TimeWrap >= MaxTime + LostDelay
    /\ MaxLate \in Nat /\ MaxBreaks \in Nat

Low == 1
HighMax == 2

\* An edge waits for less than a channel lasts, and for less than what a
\* channel's pulse and the pulse that ends a frame are away from END_PULSE.
ASSUME HoldAssumption ==
    /\ MaxHold \in Nat /\ Gap \in Nat
    /\ MaxHold <= Low /\ HighMax + MaxHold < EndPulse /\ EndPulse + MaxHold <= Gap

VARIABLES
    now,
    tx,                 \* the transmitter: [on, frame, slot, high, left]
    status,             \* the pin's interrupt: "none", or raised by an "edge",
                        \* by the "end" of a frame, or by "both" of two edges
    held,               \* how long it has waited
    lates, breaks,      \* how long edges have waited, how many silences
    cur_state, pulse_index, pulse_array_temp, last_tick, last_negative_pulse,
    rc_in_data,         \* [timestamp, count, failsafe, values]
    initialized,
    timer,              \* the timer thread: [pc, cur_time, raced]
    _rcin, _last_read, _override_valid,
    broken,             \* history: the frame being decoded was disturbed
    clean,              \* history: the frame being sent was not disturbed
    unseen              \* history: undisturbed frames since the last published

vars == <<now, tx, status, held, lates, breaks, cur_state, pulse_index, pulse_array_temp,
          last_tick, last_negative_pulse, rc_in_data, initialized, timer, _rcin,
          _last_read, _override_valid, broken, clean, unseen>>

line == <<tx, status, held, lates, breaks>>
history == <<broken, clean, unseen>>
decoder == <<cur_state, pulse_index, pulse_array_temp, last_tick, last_negative_pulse>>
client == <<initialized, timer, _rcin, _last_read, _override_valid>>

Channels == 1 .. ChNum
NoData == [timestamp |-> 0, count |-> 0, failsafe |-> FALSE,
           values |-> [c \in Channels |-> 0]]

-----------------------------------------------------------------------------
(* What is sent *)

High(frame, c) == HighMax - ((frame + c) % 2)
Other(frame) == 3 - frame
FrameValues(frame) ==
    [c \in Channels |-> IF c <= Sent THEN Low + High(frame, c) ELSE 0]

\* Slot Sent + 1 is the long pulse that ends the frame.
Duration(t) ==
    CASE ~t.high -> Low
      [] t.high /\ t.slot <= Sent -> High(t.frame, t.slot)
      [] OTHER -> Gap

Started(t) == [t EXCEPT !.left = Duration(t)]

\* The line after an edge: a high pulse ends its slot, the last slot the frame.
AfterEdge ==
    LET next == CASE ~tx.high -> [tx EXCEPT !.high = TRUE]
                  [] tx.slot <= Sent -> [tx EXCEPT !.high = FALSE, !.slot = @ + 1]
                  [] OTHER -> [tx EXCEPT !.high = FALSE, !.slot = 1, !.frame = Other(@)]
    IN Started(next)

FrameEnds == tx.high /\ tx.slot = Sent + 1

-----------------------------------------------------------------------------
(* pin_int_handler *)

Pulse == now - last_tick

reset ==
    /\ cur_state' = "MATCH_END_POSITIVE"
    /\ last_tick' = 0 /\ last_negative_pulse' = 0

match_end_positive(is_positive) ==
    /\ cur_state = "MATCH_END_POSITIVE"
    /\ cur_state' = IF is_positive THEN "MATCH_END_NEGATIVE" ELSE cur_state
    /\ last_tick' = now
    /\ UNCHANGED <<pulse_index, pulse_array_temp, last_negative_pulse, rc_in_data>>

\* Mutant: an end pulse of exactly END_PULSE is not one.
Mut_match_end_negative(is_positive) ==
    /\ cur_state = "MATCH_END_NEGATIVE"
    /\ IF is_positive \/ Pulse <= EndPulse
       THEN reset /\ UNCHANGED pulse_index
       ELSE /\ pulse_index' = 0
            /\ cur_state' = "MATCH_POSITIVE"
            /\ last_tick' = now
            /\ UNCHANGED last_negative_pulse
    /\ UNCHANGED <<pulse_array_temp, rc_in_data>>

match_end_negative(is_positive) ==
    /\ cur_state = "MATCH_END_NEGATIVE"
    /\ IF is_positive \/ Pulse < EndPulse
       THEN reset /\ UNCHANGED pulse_index
       ELSE /\ pulse_index' = 0
            /\ cur_state' = "MATCH_POSITIVE"
            /\ last_tick' = now
            /\ UNCHANGED last_negative_pulse
    /\ UNCHANGED <<pulse_array_temp, rc_in_data>>

\* Mutant: the low pulse is measured and then counted again.
Mut_match_positive(is_positive) ==
    /\ cur_state = "MATCH_POSITIVE"
    /\ IF is_positive
       THEN /\ cur_state' = "MATCH_NEGATIVE"
            /\ last_negative_pulse' = Pulse
            /\ UNCHANGED last_tick
       ELSE reset
    /\ UNCHANGED <<pulse_index, pulse_array_temp, rc_in_data>>

match_positive(is_positive) ==
    /\ cur_state = "MATCH_POSITIVE"
    /\ IF is_positive
       THEN /\ cur_state' = "MATCH_NEGATIVE"
            /\ last_negative_pulse' = Pulse
            /\ last_tick' = now
       ELSE reset
    /\ UNCHANGED <<pulse_index, pulse_array_temp, rc_in_data>>

\* Mutant: a new frame does not end the loss of the signal.
Mut_copy_data(array, index) ==
    IF index < ChNum
    THEN LET padded == [c \in Channels |-> IF c > index THEN 0 ELSE array[c]]
         IN /\ pulse_array_temp' = padded
            /\ rc_in_data' = [timestamp |-> now, count |-> index,
                              failsafe |-> rc_in_data.failsafe, values |-> padded]
    ELSE pulse_array_temp' = array /\ UNCHANGED rc_in_data

\* copy_data: a frame that fills the array is not published.
copy_data(array, index) ==
    IF index < ChNum
    THEN LET padded == [c \in Channels |-> IF c > index THEN 0 ELSE array[c]]
         IN /\ pulse_array_temp' = padded
            /\ rc_in_data' = [timestamp |-> now, count |-> index,
                              failsafe |-> FALSE, values |-> padded]
    ELSE pulse_array_temp' = array /\ UNCHANGED rc_in_data

match_negative(is_positive) ==
    /\ cur_state = "MATCH_NEGATIVE"
    /\ CASE is_positive ->
              reset /\ UNCHANGED <<pulse_index, pulse_array_temp, rc_in_data>>
         [] ~is_positive /\ Pulse >= EndPulse ->
              reset /\ copy_data(pulse_array_temp, pulse_index) /\ UNCHANGED pulse_index
         [] OTHER ->
              LET value == (Pulse + last_negative_pulse) % 65536
                  array == [pulse_array_temp EXCEPT ![pulse_index + 1] = value]
              IN /\ pulse_index' = pulse_index + 1
                 /\ IF pulse_index + 1 >= ChNum
                    THEN reset /\ copy_data(array, pulse_index + 1)
                    ELSE /\ pulse_array_temp' = array
                         /\ cur_state' = "MATCH_POSITIVE"
                         /\ last_tick' = now
                         /\ UNCHANGED <<last_negative_pulse, rc_in_data>>

pin_int_handler(is_positive) ==
    \/ match_end_positive(is_positive)
    \/ match_end_negative(is_positive)
    \/ match_positive(is_positive)
    \/ match_negative(is_positive)

-----------------------------------------------------------------------------
(* RC_IN_INT_HANDLER, the line and time *)

\* What the handler makes of the edges it serves, as the properties see it.
Served(edges) ==
    /\ broken' = (broken /\ cur_state' # "MATCH_END_POSITIVE")
    /\ unseen' = CASE rc_in_data' # rc_in_data \/ edges = "both" \/ (edges = "end" /\ ~clean) -> 0
                   [] rc_in_data' = rc_in_data /\ edges = "end" /\ clean -> unseen + 1
                   [] OTHER -> unseen
    /\ clean' = (edges # "both" /\ (clean \/ edges = "end"))

\* The handler clears the interrupt and reads the pin and the clock.
RC_IN_INT_HANDLER ==
    /\ status # "none"
    /\ pin_int_handler(tx.high)
    /\ status' = "none" /\ held' = 0
    /\ Served(status)
    /\ UNCHANGED <<now, tx, lates, breaks, client>>

\* An edge, which raises the interrupt if it is not raised yet.
Edge ==
    /\ tx.on /\ tx.left = 0
    /\ tx' = AfterEdge
    /\ status' = CASE status # "none" -> "both"
                   [] FrameEnds -> "end"
                   [] OTHER -> "edge"
    /\ UNCHANGED <<now, held, lates, breaks, decoder, rc_in_data, client, history>>

\* An edge after the handler has cleared the interrupt and before it reads the
\* pin: the handler sees its level, and is called for it once more.
EdgeInHandler ==
    /\ status # "none"
    /\ tx.on /\ tx.left = 0
    /\ pin_int_handler(AfterEdge.high)
    /\ tx' = AfterEdge
    /\ status' = "both" /\ held' = 0
    /\ Served("both")
    /\ UNCHANGED <<now, lates, breaks, client>>

\* The transmitter falls silent, and later starts a new frame.
Break ==
    /\ tx.on /\ breaks < MaxBreaks
    /\ tx' = [tx EXCEPT !.on = FALSE]
    /\ breaks' = breaks + 1
    /\ broken' = TRUE /\ clean' = FALSE
    /\ UNCHANGED <<now, status, held, lates, decoder, rc_in_data, client, unseen>>

Resume ==
    /\ ~tx.on
    /\ tx' = Started([tx EXCEPT !.on = TRUE, !.slot = 1, !.frame = Other(@)])
    /\ UNCHANGED <<now, status, held, lates, breaks, decoder, rc_in_data, client, history>>

\* Time passes; the timer thread is not late, and an edge waits MaxHold at most.
Tick ==
    /\ now < MaxTime
    /\ now - timer.cur_time < TickMax
    /\ tx.on => tx.left > 0
    /\ now' = now + 1
    /\ tx' = IF tx.on THEN [tx EXCEPT !.left = @ - 1] ELSE tx
    /\ \/ status = "none" /\ UNCHANGED <<held, lates>>
       \/ /\ status # "none" /\ held < MaxHold /\ lates < MaxLate
          /\ held' = held + 1 /\ lates' = lates + 1
    /\ UNCHANGED <<status, breaks, decoder, rc_in_data, client, history>>

-----------------------------------------------------------------------------
(* The timer thread: PX4RCInput::_timer_tick, holding rcin_mutex *)

\* The tick begins; check_lost reads the time with interrupts enabled.
timer_tick ==
    /\ timer.pc = "sleep" /\ timer.cur_time < now
    /\ timer' = [pc |-> IF initialized THEN "check" ELSE "sleep",
                 cur_time |-> now, raced |-> timer.raced]
    /\ UNCHANGED <<now, line, history, decoder, rc_in_data, initialized, _rcin, _last_read, _override_valid>>

\* Mutant: the signal is lost only after RC_LOST_DELAY.
Mut_check_lost ==
    /\ timer.pc = "check"
    /\ timer' = [timer EXCEPT !.pc = "copy",
                  !.raced = IF rc_in_data.failsafe THEN @
                            ELSE timer.cur_time < rc_in_data.timestamp]
    /\ rc_in_data' =
         IF /\ rc_in_data.count # 0 /\ ~rc_in_data.failsafe
            /\ (timer.cur_time - rc_in_data.timestamp) % TimeWrap > LostDelay
         THEN [rc_in_data EXCEPT !.failsafe = TRUE]
         ELSE rc_in_data
    /\ UNCHANGED <<now, line, history, decoder, initialized, _rcin, _last_read, _override_valid>>

\* The difference is of unsigned 64 bit numbers.  raced records that the data
\* now checked, if not lost before, are younger than the time they are held to.
check_lost ==
    /\ timer.pc = "check"
    /\ timer' = [timer EXCEPT !.pc = "copy",
                  !.raced = IF rc_in_data.failsafe THEN @
                            ELSE timer.cur_time < rc_in_data.timestamp]
    /\ rc_in_data' =
         IF /\ rc_in_data.count # 0 /\ ~rc_in_data.failsafe
            /\ (timer.cur_time - rc_in_data.timestamp) % TimeWrap >= LostDelay
         THEN [rc_in_data EXCEPT !.failsafe = TRUE]
         ELSE rc_in_data
    /\ UNCHANGED <<now, line, history, decoder, initialized, _rcin, _last_read, _override_valid>>

\* dev_rc_in_read copies with interrupts disabled; the mutex is released.
dev_rc_in_read ==
    /\ timer.pc = "copy"
    /\ timer' = [timer EXCEPT !.pc = "sleep"]
    /\ _rcin' = rc_in_data
    /\ UNCHANGED <<now, line, history, decoder, rc_in_data, initialized, _last_read, _override_valid>>

-----------------------------------------------------------------------------
(* The main thread: PX4RCInput *)

Unlocked == timer.pc = "sleep"

init ==
    /\ ~initialized
    /\ initialized' = TRUE
    /\ UNCHANGED <<now, line, history, decoder, rc_in_data, timer, _rcin, _last_read, _override_valid>>

valid == (_rcin.timestamp # _last_read /\ ~_rcin.failsafe) \/ _override_valid

new_input ==
    /\ initialized /\ Unlocked
    /\ _last_read' = _rcin.timestamp
    /\ _override_valid' = FALSE
    /\ UNCHANGED <<now, line, history, decoder, rc_in_data, initialized, timer, _rcin>>

\* set_override with a value above zero (others leave _override_valid alone).
set_override ==
    /\ initialized
    /\ _override_valid' = TRUE
    /\ UNCHANGED <<now, line, history, decoder, rc_in_data, initialized, timer, _rcin, _last_read>>

-----------------------------------------------------------------------------
Init ==
    /\ now = 1
    /\ \E high \in BOOLEAN, slot \in 1 .. Sent + 1 :
          tx = Started([on |-> TRUE, frame |-> 1, slot |-> slot, high |-> high, left |-> 0])
    /\ status = "none" /\ held = 0 /\ lates = 0 /\ breaks = 0
    /\ cur_state = "MATCH_END_POSITIVE" /\ pulse_index = 0
    /\ pulse_array_temp = [c \in Channels |-> 0]
    /\ last_tick = 0 /\ last_negative_pulse = 0
    /\ rc_in_data = NoData
    /\ initialized = FALSE
    /\ timer = [pc |-> "sleep", cur_time |-> 0, raced |-> FALSE]
    /\ _rcin = NoData /\ _last_read = 0
    /\ _override_valid = FALSE
    /\ broken = FALSE /\ clean = FALSE /\ unseen = 0

Next ==
    \/ RC_IN_INT_HANDLER \/ Edge \/ EdgeInHandler \/ Break \/ Resume \/ Tick
    \/ timer_tick \/ check_lost \/ dev_rc_in_read
    \/ init \/ new_input \/ set_override

Spec == Init /\ [][Next]_vars

-----------------------------------------------------------------------------
DataType == [timestamp : 0 .. MaxTime, count : 0 .. ChNum, failsafe : BOOLEAN,
             values : [Channels -> 0 .. 65535]]

\* The decoder stays inside its array and the data keep their types.
TypeOK ==
    /\ cur_state \in {"MATCH_END_POSITIVE", "MATCH_END_NEGATIVE", "MATCH_POSITIVE",
                      "MATCH_NEGATIVE"}
    /\ pulse_index \in 0 .. ChNum
    /\ pulse_array_temp \in [Channels -> 0 .. 65535]
    /\ last_tick \in 0 .. MaxTime /\ last_negative_pulse \in 0 .. MaxTime
    /\ rc_in_data \in DataType /\ _rcin \in DataType
    /\ timer.pc \in {"sleep", "check", "copy"}
    /\ _override_valid \in BOOLEAN

\* The first c values together: the time from the edge that ends the frame
\* before to the one that ends channel c.
UpTo(values, c) == FoldSet(LAMBDA i, sum : values[i] + sum, 0, 1 .. c)

\* pin_int_handler publishes every channel of a frame, in order, unless the
\* transmitter stopped inside it.  The handler stamps an edge when it runs, so
\* a late one moves time from one channel to the next; but the errors do not
\* add up, and each channel ends within MaxHold of where it was sent.  Two
\* edges found by one call make the decoder give the frame up.
PublishesSentFrame ==
    [][(rc_in_data' # rc_in_data /\ ~rc_in_data'.failsafe /\ ~broken) =>
         /\ rc_in_data'.count = Sent
         /\ LET values == rc_in_data'.values
                frame == FrameValues(Other(tx.frame))
            IN \A c \in 1 .. Sent :
                  UpTo(values, c) - UpTo(frame, c) \in -MaxHold .. MaxHold]_vars

\* The end pulse that publishes one frame is not taken as the start of the
\* next, so pin_int_handler leaves out every second frame, but never two in a
\* row whose edges it served one by one, however late within MaxHold.
EverySecondFrame == unseen <= 1

\* new_input() never reports a frame as new when the signal has been lost for
\* RC_LOST_DELAY and a tick of the timer thread, whatever frames came before.
\* A frame of no channels (two end pulses in a row) is the exception: it is
\* published, and check_lost leaves data without channels alone.
NewInputIsFresh ==
    Unlocked /\ valid /\ ~_override_valid /\ _rcin.count # 0 =>
        now - _rcin.timestamp < LostDelay + TickMax

\* "Return true if there has been new input since the last call to
\* new_input()" (AP_HAL/RCInput.h): a frame copied since then and younger than
\* RC_LOST_DELAY counts.  One exception: check_lost reads the clock before it
\* disables interrupts, and takes a frame published in between for one lost
\* long ago, because the unsigned difference wraps.
NewInputSeen ==
    Unlocked /\ _rcin.timestamp # _last_read /\ now - _rcin.timestamp < LostDelay =>
        valid \/ timer.raced
=============================================================================
