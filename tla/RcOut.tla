-------------------------------- MODULE RcOut --------------------------------
(***************************************************************************)
(* Servo and motor output: PX4RCOutput (RCOutput.cpp), written by the main *)
(* thread and sent by the timer thread, on top of the PWM registers        *)
(* (dev_rc_out.c), which both threads touch.                               *)
(*                                                                         *)
(* The timer thread is above the main thread, except while the main thread *)
(* is boosted (module MainPriority): so the steps of cork, write and push  *)
(* mix with those of a tick in both directions, but set_freq, which is     *)
(* called from setup() and ESC calibration, never interrupts a tick.       *)
(***************************************************************************)
EXTENDS Integers, FiniteSetsExt

CONSTANTS NumOut,           \* RC_OUT_CH_NUM outputs, and as many channels
          Generator,        \* the PWM generator of each output
          DefaultPeriod, DefaultPulse,
          Periods,          \* periods set_freq asks for
          LoadMax,          \* the largest count of a generator, 0xffff
          MaxWrites,        \* each write has a new pulse length
          MaxFreqs, MaxDisables,
          MaxWraps          \* how often micros() wraps

Outs == 1 .. NumOut
Gens == {Generator[o] : o \in Outs}
Ignore == 65535             \* PWM_IGNORE_THIS_CHANNEL

\* A period in counts of the PWM clock: 120 MHz / 64, 1.875 counts per us.
Load(p) == (p * 15) \div 8

ASSUME RcOutAssumption ==
    /\ NumOut \in Nat \ {0} /\ DOMAIN Generator = Outs
    /\ \A p \in Periods \cup {DefaultPeriod} : p \in Nat /\ p > DefaultPulse + MaxWrites
    /\ DefaultPulse \in Nat \ {0}
    /\ LoadMax \in Nat /\ LoadMax <= Ignore /\ Load(DefaultPeriod) <= LoadMax
    /\ MaxWrites \in Nat /\ MaxFreqs \in Nat /\ MaxDisables \in Nat /\ MaxWraps \in Nat

VARIABLES
    _period, _enabled_channels, _max_channel, _need_update, _corking,
    early,          \* micros() is within 50 ms of boot or of its wrap
    period, pulse,  \* pwm_out_t of each output
    load, width,    \* registers: of each generator, of each output
    main, timer,    \* what each thread is doing: [pc, o, n, v, w]
    writes, freqs, disables, wraps,
    corked          \* history: channels changed since cork(), no tick under way

vars == <<_period, _enabled_channels, _max_channel, _need_update, _corking, early,
          period, pulse, load, width, main, timer, writes, freqs, disables, wraps, corked>>

soft == <<_period, _enabled_channels, _max_channel, _need_update, _corking>>
hard == <<period, pulse, load, width>>
counts == <<early, wraps, writes, freqs, disables, corked>>

-----------------------------------------------------------------------------
(* dev_rc_out.c *)

\* pwm_set_pulse: the register's value for pulse v of output o.
Width(v, o) == LET w == (v * load[Generator[o]]) \div period[o]
               IN IF w > 0 THEN w ELSE 1

-----------------------------------------------------------------------------
(* The main thread *)

\* o: the output at hand; n: the new period, or how many channels to send;
\* v and w: a pulse and its register value, computed and not yet written.
Idle == [pc |-> "idle", o |-> 0, n |-> 0, v |-> 0, w |-> 0]

\* write: the number of channels, then the value, then the flag.
write(c) ==
    /\ main = Idle /\ writes < MaxWrites
    /\ c \in _enabled_channels
    /\ writes' = writes + 1
    /\ _max_channel' = Max({_max_channel, c})
    /\ main' = [main EXCEPT !.pc = "value", !.o = c]
    /\ UNCHANGED <<_period, _enabled_channels, _need_update, _corking, hard, timer,
                   early, wraps, freqs, disables, corked>>

set_value ==
    /\ main.pc = "value"
    /\ _period' = [_period EXCEPT ![main.o] = DefaultPulse + writes]
    /\ corked' = IF _corking /\ timer = Idle THEN corked \cup {main.o} ELSE corked
    /\ main' = [Idle EXCEPT !.pc = "mark"]
    /\ UNCHANGED <<_enabled_channels, _max_channel, _need_update, _corking, hard, timer,
                   early, wraps, writes, freqs, disables>>

mark ==
    /\ main.pc = "mark"
    /\ _need_update' = TRUE
    /\ main' = Idle
    /\ UNCHANGED <<_period, _enabled_channels, _max_channel, _corking, hard, timer, counts>>

cork ==
    /\ main = Idle /\ ~_corking /\ writes < MaxWrites
    /\ _corking' = TRUE
    /\ corked' = {}
    /\ UNCHANGED <<_period, _enabled_channels, _max_channel, _need_update, hard, main, timer,
                   early, wraps, writes, freqs, disables>>

push ==
    /\ main = Idle /\ _corking
    /\ _corking' = FALSE
    /\ corked' = {}
    /\ UNCHANGED <<_period, _enabled_channels, _max_channel, _need_update, hard, main, timer,
                   early, wraps, writes, freqs, disables>>

\* Channels are enabled and disabled outside corked groups.
enable_ch(c) ==
    /\ main = Idle /\ ~_corking /\ c \notin _enabled_channels
    /\ _enabled_channels' = _enabled_channels \cup {c}
    /\ _period' = [_period EXCEPT ![c] = IF @ = Ignore THEN 0 ELSE @]
    /\ UNCHANGED <<_max_channel, _need_update, _corking, hard, main, timer, counts>>

disable_ch(c) ==
    /\ main = Idle /\ ~_corking /\ c \in _enabled_channels /\ disables < MaxDisables
    /\ disables' = disables + 1
    /\ _enabled_channels' = _enabled_channels \ {c}
    /\ _period' = [_period EXCEPT ![c] = Ignore]
    /\ UNCHANGED <<_max_channel, _need_update, _corking, hard, main, timer,
                   early, wraps, writes, freqs, corked>>

\* set_freq: dev_rc_out_set_period goes through the outputs.
set_freq(p) ==
    /\ main = Idle /\ timer = Idle /\ ~_corking /\ freqs < MaxFreqs
    /\ freqs' = freqs + 1
    /\ main' = [main EXCEPT !.pc = "period", !.o = 1, !.n = p]
    /\ UNCHANGED <<soft, hard, timer, early, wraps, writes, disables, corked>>

NextOutput ==
    main' = IF main.o < NumOut
            THEN [Idle EXCEPT !.pc = "period", !.o = main.o + 1, !.n = main.n]
            ELSE Idle

\* pwm_set_period: a period too long for the counter is refused; otherwise the
\* field is set, then the generator's register.
set_period ==
    /\ main.pc = "period" /\ timer = Idle
    /\ IF Load(main.n) > LoadMax
       THEN NextOutput /\ UNCHANGED period
       ELSE /\ period' = [period EXCEPT ![main.o] = main.n]
            /\ main' = [main EXCEPT !.pc = "load"]
    /\ UNCHANGED <<soft, pulse, load, width, timer, counts>>

set_load ==
    /\ main.pc = "load" /\ timer = Idle
    /\ load' = [load EXCEPT ![Generator[main.o]] = Load(main.n)]
    /\ main' = [main EXCEPT !.pc = "pulse"]
    /\ UNCHANGED <<soft, period, pulse, width, timer, counts>>

\* Mutant: the pulse is not set again for the new period.
Mut_reread_pulse ==
    /\ main.pc = "pulse" /\ timer = Idle
    /\ NextOutput
    /\ UNCHANGED <<soft, hard, timer, counts>>

\* pwm_set_pulse(pwm_out, pwm_out->pulse): the pulse is read and scaled, then
\* the register is written, then the field.  A tick may come before each.
reread_pulse ==
    /\ main.pc = "pulse" /\ timer = Idle
    /\ IF pulse[main.o] >= period[main.o]
       THEN NextOutput
       ELSE main' = [main EXCEPT !.pc = "width", !.v = pulse[main.o],
                                 !.w = Width(pulse[main.o], main.o)]
    /\ UNCHANGED <<soft, hard, timer, counts>>

reset_width ==
    /\ main.pc = "width" /\ timer = Idle
    /\ width' = [width EXCEPT ![main.o] = main.w]
    /\ main' = [main EXCEPT !.pc = "field"]
    /\ UNCHANGED <<soft, period, pulse, load, timer, counts>>

reset_pulse ==
    /\ main.pc = "field" /\ timer = Idle
    /\ pulse' = [pulse EXCEPT ![main.o] = main.v]
    /\ NextOutput
    /\ UNCHANGED <<soft, period, load, width, timer, counts>>

-----------------------------------------------------------------------------
(* The timer thread *)

\* Mutant: the corking is not looked at.
Mut_timer_tick ==
    /\ timer = Idle
    /\ timer' = [timer EXCEPT !.pc = "send"]
    /\ UNCHANGED <<soft, hard, main, counts>>

\* timer_tick: nothing is sent while corked, nor with no channel enabled.
timer_tick ==
    /\ timer = Idle
    /\ ~_corking
    /\ timer' = [timer EXCEPT !.pc = "send"]
    /\ UNCHANGED <<soft, hard, main, counts>>

\* Mutant: the outputs are sent only when something was written.
Mut_send_outputs ==
    /\ timer.pc = "send"
    /\ IF _enabled_channels \cap 1 .. _max_channel # {} /\ _need_update
       THEN _need_update' = FALSE /\ timer' = [timer EXCEPT !.pc = "scan"]
       ELSE timer' = Idle /\ UNCHANGED _need_update
    /\ UNCHANGED <<_period, _enabled_channels, _max_channel, _corking, hard, main, counts>>

\* _send_outputs: the flag is cleared first.  _last_output is never set, so
\* the refresh at 20 Hz is due in every tick that is not early.
send_outputs ==
    /\ timer.pc = "send"
    /\ IF _enabled_channels \cap 1 .. _max_channel # {} /\ (_need_update \/ ~early)
       THEN _need_update' = FALSE /\ timer' = [timer EXCEPT !.pc = "scan"]
       ELSE timer' = Idle /\ UNCHANGED _need_update
    /\ UNCHANGED <<_period, _enabled_channels, _max_channel, _corking, hard, main, counts>>

\* Channels to send: up to the last that is not to be ignored.
to_send == Max({c \in 1 .. _max_channel : _period[c] # Ignore} \cup {0})

scan ==
    /\ timer.pc = "scan"
    /\ timer' = IF to_send = 0 THEN Idle
                ELSE [timer EXCEPT !.pc = "scale", !.n = to_send, !.o = 1]
    /\ UNCHANGED <<soft, hard, main, counts>>

NextChannel(t) == IF t.o < t.n THEN [Idle EXCEPT !.pc = "scale", !.n = t.n, !.o = t.o + 1]
                  ELSE Idle

\* dev_rc_out_write: pwm_set_pulse refuses a pulse as long as the period.
scale ==
    /\ timer.pc = "scale"
    /\ LET v == _period[timer.o] IN
         timer' = IF v >= period[timer.o] THEN NextChannel(timer)
                  ELSE [timer EXCEPT !.pc = "set", !.v = v, !.w = Width(v, timer.o)]
    /\ UNCHANGED <<soft, hard, main, counts>>

set_pulse ==
    /\ timer.pc = "set"
    /\ width' = [width EXCEPT ![timer.o] = timer.w]
    /\ pulse' = [pulse EXCEPT ![timer.o] = timer.v]
    /\ timer' = NextChannel(timer)
    /\ UNCHANGED <<soft, period, load, main, counts>>

\* 50 ms have passed since boot, or since micros() wrapped ...
ClockRuns ==
    /\ early
    /\ early' = FALSE
    /\ UNCHANGED <<soft, hard, main, timer, wraps, writes, freqs, disables, corked>>

\* ... which it does after 71 minutes.
ClockWraps ==
    /\ ~early /\ wraps < MaxWraps
    /\ early' = TRUE /\ wraps' = wraps + 1
    /\ UNCHANGED <<soft, hard, main, timer, writes, freqs, disables, corked>>

-----------------------------------------------------------------------------
Init ==
    /\ _period = [c \in Outs |-> Ignore]
    /\ _enabled_channels = {} /\ _max_channel = 0
    /\ _need_update = FALSE /\ _corking = FALSE
    /\ early = TRUE
    /\ period = [o \in Outs |-> DefaultPeriod]
    /\ pulse = [o \in Outs |-> DefaultPulse]
    /\ load = [g \in Gens |-> Load(DefaultPeriod)]
    /\ width = [o \in Outs |-> (DefaultPulse * Load(DefaultPeriod)) \div DefaultPeriod]
    /\ main = Idle /\ timer = Idle
    /\ writes = 0 /\ freqs = 0 /\ disables = 0 /\ wraps = 0 /\ corked = {}

MainStep == set_value \/ mark \/ push \/ set_period \/ set_load \/ reread_pulse
            \/ reset_width \/ reset_pulse

TimerStep == timer_tick \/ send_outputs \/ scan \/ scale \/ set_pulse

Next ==
    \/ MainStep \/ TimerStep \/ ClockRuns \/ ClockWraps \/ cork
    \/ \E c \in Outs : write(c) \/ enable_ch(c) \/ disable_ch(c)
    \/ \E p \in Periods : set_freq(p)

Spec == Init /\ [][Next]_vars

\* The timer thread wakes every millisecond, and the main thread is corked for
\* less than that at a time, so ticks do find it uncorked.  The main thread
\* finishes what it has begun, between the ticks.
FairSpec ==
    Spec /\ SF_vars(MainStep) /\ SF_vars(TimerStep) /\ WF_vars(ClockRuns)

-----------------------------------------------------------------------------
\* The variables keep their types.  pwm_set_pulse refuses a pulse as long as the
\* period, PWM_IGNORE_THIS_CHANNEL included, so that no output is always high.
TypeOK ==
    /\ _period \in [Outs -> 0 .. DefaultPulse + MaxWrites \cup {Ignore}]
    /\ _enabled_channels \subseteq Outs /\ _max_channel \in 0 .. NumOut
    /\ _need_update \in BOOLEAN /\ _corking \in BOOLEAN /\ early \in BOOLEAN
    /\ \A o \in Outs : pulse[o] \in 0 .. period[o] - 1 /\ width[o] \in Nat \ {0}
    /\ \A g \in Gens : load[g] \in Nat
    /\ main.o \in 0 .. NumOut /\ timer.o \in 0 .. NumOut

\* The pulses anybody has asked for so far.
Asked == {0, DefaultPulse} \cup {DefaultPulse + k : k \in 1 .. writes}

\* Whenever both threads are at rest, every generator runs at the period of each
\* of its outputs, and every output's width is one that was asked for, scaled to
\* that period: although dev_rc_out_set_period and dev_rc_out_write change
\* period, generator and width in separate steps, and a tick that comes between
\* the two outputs of a generator scales with the wrong one's.
WidthsAreAsked ==
    main = Idle /\ timer = Idle =>
        \A o \in Outs : /\ load[Generator[o]] = Load(period[o])
                         /\ \E v \in Asked : width[o] = Width(v, o)

\* Every pulse written to a channel that stays enabled is on its output in the
\* end, register and field.  set_freq can put an old pulse back over a newer
\* one; the refresh in _send_outputs repairs that.
EventuallySent ==
    <>[](\A o \in Outs : _period[o] \notin {0, Ignore} =>
            pulse[o] = _period[o] /\ width[o] = Width(_period[o], o))

\* "All changes between a call to cork() and push() are pushed together in a
\* single transaction" (AP_HAL/RCOutput.h): none of them is on an output before
\* push(), whichever steps of ticks come in between.  One exception: _corking is
\* tested once per tick, so a tick that is under way when the boosted main
\* thread corks and writes sends part of the group.
NothingSentWhileCorked == _corking => \A c \in corked : pulse[c] # _period[c]
=============================================================================
