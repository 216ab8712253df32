----------------------------- MODULE RcOutProofs -----------------------------
(***************************************************************************)
(* Proofs about RcOut: whatever the order of the main thread's and the     *)
(* timer thread's steps, corked writes stay off the outputs and the widths *)
(* and periods agree again whenever both threads are at rest, for any      *)
(* number of outputs, any wiring to generators and any periods.            *)
(***************************************************************************)
EXTENDS RcOut, WellFoundedInduction, TLAPS

\* A leaf that names no prover is Zenon's.
USE ZenonT(30)

MainPcs == {"idle", "value", "mark", "period", "load", "pulse", "width", "field"}
TimerPcs == {"idle", "send", "scan", "scale", "set"}

\* The states of the main thread inside set_freq().
Setting == {"period", "load", "pulse", "width", "field"}

Thread(pcs) == [pc : pcs, o : 0 .. NumOut, n : Nat, v : Nat, w : Nat]

\* Complete types; every output's period is one that fits the counter.
Types ==
    /\ _period \in [Outs -> Nat] /\ _enabled_channels \subseteq Outs
    /\ _max_channel \in 0 .. NumOut
    /\ _need_update \in BOOLEAN /\ _corking \in BOOLEAN /\ early \in BOOLEAN
    /\ period \in [Outs -> Periods \cup {DefaultPeriod}]
    /\ \A o \in Outs : Load(period[o]) <= LoadMax
    /\ pulse \in [Outs -> Nat] /\ load \in [Gens -> Nat] /\ width \in [Outs -> Nat \ {0}]
    /\ main \in Thread(MainPcs) /\ timer \in Thread(TimerPcs)
    /\ writes \in 0 .. MaxWrites /\ corked \subseteq Outs

\* Every pulse anywhere is one that was asked for; the one that write() is about
\* to store is nowhere yet.
PulseInv ==
    /\ \A o \in Outs : pulse[o] \in Asked /\ _period[o] \in Asked \cup {Ignore}
    /\ main.v \in Asked /\ timer.v \in Asked
    /\ main.pc = "value" =>
          /\ main.o \in Outs /\ writes > 0
          /\ \A o \in Outs : DefaultPulse + writes \notin {pulse[o], _period[o]}
          /\ timer.v # DefaultPulse + writes

\* A group of corked writes keeps the timer thread out, once it has finished
\* the tick it was in; and set_freq() is not called inside a group.
CorkInv ==
    /\ _corking /\ corked # {} => timer = Idle
    /\ _corking => main.pc \notin Setting

\* A register value that was computed and not yet written is still right.
TimerInv ==
    /\ timer.pc \in {"scale", "set"} => timer.o \in Outs /\ timer.n \in Outs
    /\ timer.pc = "set" => timer.w = Width(timer.v, timer.o)

Scaled(o) == \E v \in Asked : width[o] = Width(v, o)
Settled(o) == load[Generator[o]] = Load(period[o]) /\ Scaled(o)

\* What set_freq() has done so far.  The outputs before the one at hand are
\* settled at the new period; nothing is known of those behind it, which share
\* generators with them, but each is put right in its turn.
SetInv ==
    /\ main.pc \notin Setting => \A o \in Outs : Settled(o)
    /\ main.pc \in Setting => main.o \in Outs /\ main.n \in Periods
    /\ main.pc \in Setting /\ Load(main.n) > LoadMax =>
          main.pc = "period" /\ \A o \in Outs : Settled(o)
    /\ main.pc \in Setting /\ Load(main.n) <= LoadMax =>
          /\ \A o \in Outs : o < main.o => period[o] = main.n /\ Settled(o)
          /\ main.pc # "period" => period[main.o] = main.n
          /\ main.pc \in {"pulse", "width", "field"} =>
                load[Generator[main.o]] = Load(main.n)
          /\ main.pc \in {"width", "field"} => main.w = Width(main.v, main.o)
          /\ main.pc = "field" => Scaled(main.o)

IInv == /\ Types /\ PulseInv /\ CorkInv /\ TimerInv /\ SetInv
        /\ NothingSentWhileCorked

-----------------------------------------------------------------------------
(* Arithmetic *)

LEMMA Constants ==
    /\ NumOut \in Nat /\ NumOut > 0 /\ DefaultPulse \in Nat /\ DefaultPulse > 0
    /\ LoadMax \in Nat /\ LoadMax <= Ignore /\ MaxWrites \in Nat
    /\ Load(DefaultPeriod) <= LoadMax
    /\ \A p \in Periods \cup {DefaultPeriod} : p \in Nat /\ p > DefaultPulse + MaxWrites
BY RcOutAssumption, SMTT(60)

\* A bounded, nonempty set of numbers has a largest element.
LEMMA MaxIn ==
    ASSUME NEW b \in Nat, NEW T \in SUBSET (0 .. b), T # {}
    PROVE  Max(T) \in T
<1> DEFINE R == {k \in Nat : b - k \in T}
<1>1. R # {}
  <2>1. PICK t \in T : TRUE
    OBVIOUS
  <2>2. b - t \in Nat /\ b - (b - t) = t
    BY <2>1, SMTT(60)
  <2>3. QED
    BY <2>1, <2>2
<1>2. IsWellFoundedOn(OpToRel(<, Nat), Nat)
  BY NatLessThanWellFounded
<1>3. PICK x \in R : \A y \in R : ~(<<y, x>> \in OpToRel(<, Nat))
  <2>1. R \in SUBSET Nat
    OBVIOUS
  <2> HIDE DEF R
  <2>2. QED
    BY <1>1, <1>2, <2>1, WFMin
<1>4. x \in Nat /\ b - x \in T
  BY <1>3
<1>5. ASSUME NEW t \in T PROVE b - x >= t
  <2>1. b - t \in Nat /\ b - (b - t) = t /\ t \in Nat
    BY SMTT(60)
  <2>2. b - t \in R
    BY <2>1
  <2>3. b - t < x => <<b - t, x>> \in OpToRel(<, Nat)
    BY <2>1, <1>4 DEF OpToRel
  <2>4. ~(b - t < x)
    BY <1>3, <2>2, <2>3
  <2>5. QED
    BY <2>1, <2>4, <1>4, SMTT(60)
<1>6. \E m \in T : \A y \in T : m >= y
  BY <1>4, <1>5
<1>7. QED
  BY <1>6 DEF Max

LEMMA MaxPair ==
    ASSUME NEW a \in 0 .. NumOut, NEW c \in 0 .. NumOut
    PROVE  Max({a, c}) \in 0 .. NumOut
<1>1. {a, c} \in SUBSET (0 .. NumOut) /\ {a, c} # {} /\ NumOut \in Nat
  BY Constants
<1>2. Max({a, c}) \in {a, c}
  BY <1>1, MaxIn
<1>3. QED
  BY <1>1, <1>2

\* What is asked for, without the set of it.
AskedAfter(n, v) == v \in Nat /\ (v = 0 \/ (DefaultPulse <= v /\ v <= DefaultPulse + n))

LEMMA AskedIs ==
    ASSUME NEW n \in Nat, NEW v
    PROVE  v \in {0, DefaultPulse} \cup {DefaultPulse + k : k \in 1 .. n}
              <=> AskedAfter(n, v)
<1>1. DefaultPulse \in Nat /\ DefaultPulse > 0
  BY Constants
<1>2. ASSUME v \in Nat, DefaultPulse < v, v <= DefaultPulse + n
      PROVE  \E k \in 1 .. n : v = DefaultPulse + k
  <2>1. v - DefaultPulse \in 1 .. n /\ v = DefaultPulse + (v - DefaultPulse)
    BY <1>1, <1>2, SMTT(60)
  <2>2. QED
    BY <2>1
<1>3. v \in {0, DefaultPulse} \cup {DefaultPulse + k : k \in 1 .. n} => AskedAfter(n, v)
  BY <1>1, SMTT(60) DEF AskedAfter
<1>4. AskedAfter(n, v) => v \in {0, DefaultPulse} \cup {DefaultPulse + k : k \in 1 .. n}
  BY <1>1, <1>2, SMTT(60) DEF AskedAfter
<1>5. QED
  BY <1>3, <1>4

LEMMA AskedNow == ASSUME writes \in Nat PROVE \A v : v \in Asked <=> AskedAfter(writes, v)
BY AskedIs DEF Asked

LEMMA AskedNext ==
    ASSUME writes' \in Nat PROVE \A v : v \in Asked' <=> AskedAfter(writes', v)
BY AskedIs DEF Asked

\* PWM_IGNORE_THIS_CHANNEL is longer than every period that fits the counter.
LEMMA IgnoreTooLong ==
    ASSUME NEW p \in Periods \cup {DefaultPeriod}, Load(p) <= LoadMax
    PROVE  p \in Nat /\ p > DefaultPulse + MaxWrites /\ p < Ignore /\ Load(p) \in Nat
<1>1. p \in Nat /\ p > DefaultPulse + MaxWrites /\ DefaultPulse \in Nat
      /\ DefaultPulse > 0 /\ MaxWrites \in Nat /\ LoadMax \in Nat /\ LoadMax <= Ignore
  BY Constants, SMTT(60)
<1>2. Ignore \in Nat
  BY SMTT(60) DEF Ignore
<1>3. (p * 15) \div 8 \in Nat /\ (p * 15) \div 8 > p
  BY <1>1, SMTT(60)
<1>4. QED
  BY <1>1, <1>2, <1>3, SMTT(60) DEF Load

LEMMA QuotientNat ==
    ASSUME NEW v \in Nat, NEW l \in Nat, NEW p \in Nat \ {0}
    PROVE  (v * l) \div p \in Nat
<1>1. v * l \in Nat
  BY SMTT(60)
<1>2. \A x \in Nat : x \div p \in Nat
  BY SMTT(60)
<1>3. QED
  BY <1>1, <1>2

LEMMA WidthNat ==
    ASSUME Types, NEW v \in Nat, NEW o \in Outs
    PROVE  Width(v, o) \in Nat \ {0}
<1>1. load[Generator[o]] \in Nat
  BY DEF Types, Gens
<1>2. period[o] \in Nat \ {0}
  <2>1. period[o] \in Periods \cup {DefaultPeriod}
    BY DEF Types
  <2>2. QED
    BY <2>1, Constants, SMTT(60)
<1> DEFINE q == (v * load[Generator[o]]) \div period[o]
<1>3. q \in Nat
  BY <1>1, <1>2, QuotientNat
<1> HIDE DEF q
<1>4. Width(v, o) = IF q > 0 THEN q ELSE 1
  BY DEF Width, q
<1>5. QED
  BY <1>3, <1>4, SMTT(60)

-----------------------------------------------------------------------------
(* What a step leaves alone *)

\* An output whose registers stay is scaled as before.
LEMMA ScaledKept ==
    ASSUME NEW o \in Outs, writes \in Nat, writes' \in Nat, writes <= writes',
           load'[Generator[o]] = load[Generator[o]], period'[o] = period[o],
           width'[o] = width[o], Scaled(o)
    PROVE  Scaled(o)'
<1>1. PICK v \in Asked : width[o] = Width(v, o)
  BY DEF Scaled
<1>2. v \in Asked'
  BY <1>1, AskedNow, AskedNext, Constants, SMTT(60) DEF AskedAfter
<1>3. Width(v, o)' = Width(v, o)
  BY DEF Width
<1>4. QED
  BY <1>1, <1>2, <1>3 DEF Scaled

LEMMA SettledKept ==
    ASSUME NEW o \in Outs, writes \in Nat, writes' \in Nat, writes <= writes',
           load'[Generator[o]] = load[Generator[o]], period'[o] = period[o],
           width'[o] = width[o], Settled(o)
    PROVE  Settled(o)'
BY ScaledKept DEF Settled

\* Steps that leave the outputs alone, and set_freq() where it was.
Elsewhere ==
    /\ UNCHANGED <<period, load, width>>
    /\ writes' \in Nat /\ writes <= writes'
    /\ main'.pc \notin Setting
    /\ main.pc \notin Setting

LEMMA SetInvElsewhere == ASSUME IInv, Elsewhere PROVE SetInv'
<1>1. writes \in Nat
  BY SMTT(60) DEF IInv, Types
<1>2. \A o \in Outs : Settled(o)
  BY DEF IInv, SetInv, Elsewhere
<1>3. \A o \in Outs : Settled(o)'
  BY <1>1, <1>2, SettledKept DEF Elsewhere
<1>4. QED
  BY <1>3 DEF SetInv, Elsewhere

LEMMA SetInvSame ==
    ASSUME IInv, UNCHANGED <<period, load, width, main, writes>> PROVE SetInv'
<1>1. writes \in Nat /\ writes' \in Nat /\ writes <= writes'
  BY SMTT(60) DEF IInv, Types
<1>2. \A o \in Outs : Settled(o) => Settled(o)'
  BY <1>1, SettledKept
<1>3. \A o \in Outs : Scaled(o) => Scaled(o)'
  BY <1>1, ScaledKept, SMTT(60)
<1>4. \A v, o : Width(v, o)' = Width(v, o)
  BY DEF Width
<1>5. SetInv
  BY DEF IInv
<1>6. QED
  BY <1>2, <1>3, <1>4, <1>5 DEF SetInv

LEMMA TimerInvSame ==
    ASSUME TimerInv, UNCHANGED <<period, load, timer>> PROVE TimerInv'
BY DEF TimerInv, Width

-----------------------------------------------------------------------------
(* The initial state *)

LEMMA InitInv == Init => IInv
<1> SUFFICES ASSUME Init PROVE IInv
  OBVIOUS
<1>1. Idle \in Thread(MainPcs) /\ Idle \in Thread(TimerPcs)
  BY Constants, SMTT(60) DEF Idle, Thread, MainPcs, TimerPcs
<1>2. DefaultPeriod \in Nat /\ DefaultPeriod > 0 /\ Load(DefaultPeriod) \in Nat
      /\ Load(DefaultPeriod) >= DefaultPeriod
  <2>1. DefaultPeriod \in Nat /\ DefaultPeriod > 0
    BY Constants, SMTT(60)
  <2>2. QED
    BY <2>1, SMTT(60) DEF Load
<1>3. (DefaultPulse * Load(DefaultPeriod)) \div DefaultPeriod \in Nat \ {0}
  <2> DEFINE l == Load(DefaultPeriod)
             q == DefaultPulse * l
  <2>1. q \in Nat /\ q >= l
    <3>1. DefaultPulse \in Nat /\ DefaultPulse >= 1 /\ l \in Nat
      BY <1>2, Constants, SMTT(60)
    <3> HIDE DEF l
    <3>2. QED
      BY <3>1, SMTT(60)
  <2>2. l \in Nat /\ l >= DefaultPeriod
    BY <1>2
  <2> HIDE DEF l, q
  <2>3. q \in Nat /\ q >= DefaultPeriod
    BY <2>1, <2>2, <1>2, SMTT(60)
  <2>4. q \div DefaultPeriod \in Nat \ {0}
    BY <2>3, <1>2, SMTT(60)
  <2>5. QED
    BY <2>4 DEF q, l
<1>4. Types
  <2> DEFINE w0 == (DefaultPulse * Load(DefaultPeriod)) \div DefaultPeriod
  <2>1. width = [o \in Outs |-> w0] /\ w0 \in Nat \ {0}
    BY <1>3 DEF Init
  <2> HIDE DEF w0
  <2>2. width \in [Outs -> Nat \ {0}]
    BY <2>1
  <2>3. Ignore \in Nat
    BY SMTT(60) DEF Ignore
  <2>4. _period \in [Outs -> Nat] /\ pulse \in [Outs -> Nat] /\ load \in [Gens -> Nat]
        /\ period \in [Outs -> Periods \cup {DefaultPeriod}]
        /\ \A o \in Outs : period[o] = DefaultPeriod
    BY <1>2, <2>3, Constants DEF Init
  <2>5. _enabled_channels = {} /\ _max_channel = 0 /\ writes = 0 /\ corked = {}
        /\ main = Idle /\ timer = Idle
    BY DEF Init
  <2>6. _need_update \in BOOLEAN /\ _corking \in BOOLEAN /\ early \in BOOLEAN
    BY DEF Init
  <2>7. QED
    BY <1>1, <2>2, <2>4, <2>5, <2>6, Constants, SMTT(60) DEF Types
<1>5. PulseInv
  BY Constants, <1>4, AskedNow, SMTT(60) DEF Init, PulseInv, Idle, AskedAfter
<1>6. CorkInv /\ TimerInv /\ NothingSentWhileCorked
  BY DEF Init, CorkInv, TimerInv, NothingSentWhileCorked, Idle
<1>7. ASSUME NEW o \in Outs PROVE Settled(o)
  <2>1. load[Generator[o]] = Load(period[o])
    BY DEF Init, Gens
  <2>2. width[o] = Width(DefaultPulse, o)
    BY <1>3, <2>1, SMTT(60) DEF Init, Width
  <2>3. DefaultPulse \in Asked
    BY DEF Asked
  <2>4. QED
    BY <2>1, <2>2, <2>3 DEF Settled, Scaled
<1>8. SetInv
  BY <1>7 DEF Init, SetInv, Setting, Idle
<1>9. QED
  BY <1>4, <1>5, <1>6, <1>8 DEF IInv

-----------------------------------------------------------------------------
(* The main thread: write, cork, push, enabling and disabling *)

LEMMA StepWrite == ASSUME IInv, NEW c \in Outs, write(c) PROVE IInv'
<1> USE DEF write, hard
<1>1. Types'
  <2>1. Max({_max_channel, c}) \in 0 .. NumOut
    BY MaxPair, Constants, SMTT(60) DEF IInv, Types, Outs
  <2>2. main' \in Thread(MainPcs)
    <3>1. main' = [pc |-> "value", o |-> c, n |-> 0, v |-> 0, w |-> 0]
      BY DEF Idle
    <3>2. c \in 0 .. NumOut
      BY Constants, SMTT(60) DEF Outs
    <3>3. QED
      BY <3>1, <3>2, SMTT(60) DEF Thread, MainPcs
  <2>3. writes' \in 0 .. MaxWrites
    BY Constants, SMTT(60) DEF IInv, Types
  <2>4. QED
    BY <2>1, <2>2, <2>3 DEF IInv, Types
<1>2. main'.pc = "value" /\ main'.o = c /\ main'.v = main.v /\ main.pc = "idle"
  BY DEF IInv, Types, Thread, Idle
<1>3. PulseInv'
  <2>1. DefaultPulse + writes' < Ignore
    <3>1. DefaultPeriod \in Nat /\ DefaultPeriod > DefaultPulse + MaxWrites
          /\ DefaultPeriod < Ignore
      BY Constants, IgnoreTooLong, SMTT(60)
    <3>2. writes' \in Nat /\ writes' <= MaxWrites /\ Ignore \in Nat
      BY <1>1, Constants, SMTT(60) DEF Types, Ignore
    <3>3. QED
      BY <3>1, <3>2, Constants, SMTT(60)
  <2>2. QED
    BY <1>1, <1>2, <2>1, AskedNow, AskedNext, Constants, SMTT(60)
    DEF IInv, PulseInv, Types, AskedAfter
<1>4. CorkInv'
  BY <1>2 DEF IInv, CorkInv, Setting
<1>5. TimerInv'
  BY TimerInvSame DEF IInv
<1>6. SetInv'
  <2>1. Elsewhere
    BY <1>1, <1>2, SMTT(60) DEF Elsewhere, Setting, IInv, Types
  <2>2. QED
    BY <2>1, SetInvElsewhere
<1>7. NothingSentWhileCorked'
  BY DEF IInv, NothingSentWhileCorked
<1>8. QED
  BY <1>1, <1>3, <1>4, <1>5, <1>6, <1>7 DEF IInv

LEMMA StepSetValue == ASSUME IInv, set_value PROVE IInv'
<1> USE DEF set_value, hard
<1>1. Types'
  <2>1. main' \in Thread(MainPcs)
    BY Constants, SMTT(60) DEF Thread, MainPcs, Idle
  <2>2. main.o \in Outs
    BY DEF IInv, PulseInv
  <2>3. QED
    BY <2>1, <2>2, Constants, SMTT(60) DEF IInv, Types
<1>2. main' = [pc |-> "mark", o |-> 0, n |-> 0, v |-> 0, w |-> 0]
  BY DEF Idle
<1>3. PulseInv'
  <2>1. DefaultPulse + writes \in Asked
    BY AskedNow, Constants, SMTT(60) DEF IInv, Types, AskedAfter
  <2>2. Asked' = Asked /\ 0 \in Asked
    BY DEF Asked
  <2>3. \A o \in Outs : _period'[o] \in Asked \cup {Ignore}
    BY <2>1 DEF IInv, PulseInv, Types
  <2>4. QED
    BY <1>2, <2>2, <2>3, SMTT(60) DEF IInv, PulseInv
<1>4. CorkInv'
  BY <1>2 DEF IInv, CorkInv, Setting
<1>5. TimerInv'
  BY TimerInvSame DEF IInv
<1>6. SetInv'
  <2>1. Elsewhere
    BY <1>1, <1>2, SMTT(60) DEF Elsewhere, Setting, IInv, Types
  <2>2. QED
    BY <2>1, SetInvElsewhere
<1>7. NothingSentWhileCorked'
  <2>1. ASSUME _corking', NEW c \in corked' PROVE pulse'[c] # _period'[c]
    <3>1. CASE c = main.o
      BY <3>1 DEF IInv, PulseInv, Types
    <3>2. CASE c # main.o
      BY <2>1, <3>2 DEF IInv, NothingSentWhileCorked, Types
    <3>3. QED
      BY <3>1, <3>2
  <2>2. QED
    BY <2>1 DEF NothingSentWhileCorked
<1>8. QED
  BY <1>1, <1>3, <1>4, <1>5, <1>6, <1>7 DEF IInv

LEMMA StepMark == ASSUME IInv, mark PROVE IInv'
<1> USE DEF mark, hard, counts
<1>1. main' = [pc |-> "idle", o |-> 0, n |-> 0, v |-> 0, w |-> 0]
  BY DEF Idle
<1>2. Types'
  <2>1. main' \in Thread(MainPcs)
    BY <1>1, Constants, SMTT(60) DEF Thread, MainPcs
  <2>2. QED
    BY <2>1 DEF IInv, Types
<1>3. PulseInv'
  BY <1>1, SMTT(60) DEF IInv, PulseInv, Asked
<1>4. CorkInv'
  BY <1>1, SMTT(60) DEF IInv, CorkInv, Setting
<1>5. TimerInv'
  BY TimerInvSame DEF IInv
<1>6. SetInv'
  <2>1. Elsewhere
    BY <1>1, <1>2, SMTT(60) DEF Elsewhere, Setting, IInv, Types
  <2>2. QED
    BY <2>1, SetInvElsewhere
<1>7. NothingSentWhileCorked'
  BY DEF IInv, NothingSentWhileCorked
<1>8. QED
  BY <1>2, <1>3, <1>4, <1>5, <1>6, <1>7 DEF IInv

LEMMA StepCork == ASSUME IInv, cork PROVE IInv'
<1> USE DEF cork, hard
<1>1. Types'
  BY DEF IInv, Types
<1>2. PulseInv'
  BY DEF IInv, PulseInv, Asked
<1>3. CorkInv'
  BY DEF IInv, CorkInv, Setting, Idle
<1>4. TimerInv'
  BY TimerInvSame DEF IInv
<1>5. SetInv'
  BY SetInvSame
<1>6. NothingSentWhileCorked'
  BY DEF NothingSentWhileCorked
<1>7. QED
  BY <1>1, <1>2, <1>3, <1>4, <1>5, <1>6 DEF IInv

LEMMA StepPush == ASSUME IInv, push PROVE IInv'
<1> USE DEF push, hard
<1>1. Types'
  BY DEF IInv, Types
<1>2. PulseInv'
  BY DEF IInv, PulseInv, Asked
<1>3. CorkInv'
  BY DEF CorkInv
<1>4. TimerInv'
  BY TimerInvSame DEF IInv
<1>5. SetInv'
  BY SetInvSame
<1>6. NothingSentWhileCorked'
  BY DEF NothingSentWhileCorked
<1>7. QED
  BY <1>1, <1>2, <1>3, <1>4, <1>5, <1>6 DEF IInv

LEMMA StepEnable == ASSUME IInv, NEW c \in Outs, enable_ch(c) PROVE IInv'
<1> USE DEF enable_ch, hard, counts
<1>1. Types'
  BY DEF IInv, Types
<1>2. PulseInv'
  <2>1. main'.pc = "idle"
    BY DEF Idle
  <2>2. QED
    BY <2>1 DEF IInv, PulseInv, Types, Asked
<1>3. CorkInv'
  BY DEF IInv, CorkInv
<1>4. TimerInv'
  BY TimerInvSame DEF IInv
<1>5. SetInv'
  BY SetInvSame
<1>6. NothingSentWhileCorked'
  BY DEF NothingSentWhileCorked
<1>7. QED
  BY <1>1, <1>2, <1>3, <1>4, <1>5, <1>6 DEF IInv

LEMMA StepDisable == ASSUME IInv, NEW c \in Outs, disable_ch(c) PROVE IInv'
<1> USE DEF disable_ch, hard
<1>1. Types'
  <2>1. Ignore \in Nat
    BY SMTT(60) DEF Ignore
  <2>2. QED
    BY <2>1, SMTT(60) DEF IInv, Types
<1>2. PulseInv'
  <2>1. main'.pc = "idle"
    BY DEF Idle
  <2>2. QED
    BY <2>1 DEF IInv, PulseInv, Types, Asked
<1>3. CorkInv'
  BY DEF IInv, CorkInv
<1>4. TimerInv'
  BY TimerInvSame DEF IInv
<1>5. SetInv'
  BY SetInvSame
<1>6. NothingSentWhileCorked'
  BY DEF NothingSentWhileCorked
<1>7. QED
  BY <1>1, <1>2, <1>3, <1>4, <1>5, <1>6 DEF IInv

-----------------------------------------------------------------------------
(* The main thread: set_freq.  No tick is under way in its steps *)

LEMMA QuietTimer ==
    ASSUME IInv, ~_corking, timer = Idle, UNCHANGED <<_corking, timer>>
    PROVE  CorkInv' /\ TimerInv' /\ NothingSentWhileCorked'
<1>1. timer'.pc = "idle" /\ ~_corking'
  BY DEF Idle
<1>2. QED
  BY <1>1 DEF CorkInv, TimerInv, NothingSentWhileCorked

LEMMA NotCorked == ASSUME IInv, main.pc \in Setting PROVE ~_corking
BY DEF IInv, CorkInv

\* The pulses, for steps that make none.
LEMMA NoNewPulse ==
    ASSUME IInv, main'.pc # "value", main'.v \in Asked, timer'.v \in Asked,
           UNCHANGED <<pulse, _period, writes>>
    PROVE  PulseInv'
BY DEF IInv, PulseInv, Asked

\* The types, for steps of either thread that leave the outputs alone.
LEMMA ThreadTypes ==
    ASSUME IInv, main' \in Thread(MainPcs), timer' \in Thread(TimerPcs),
           UNCHANGED <<soft, hard, early, writes, corked>>
    PROVE  Types'
BY DEF IInv, Types, soft, hard

LEMMA StepSetFreq == ASSUME IInv, NEW p \in Periods, set_freq(p) PROVE IInv'
<1> USE DEF set_freq
<1>1. main' = [pc |-> "period", o |-> 1, n |-> p, v |-> 0, w |-> 0] /\ main.pc = "idle"
  BY DEF Idle
<1>2. Types'
  <2>1. main' \in Thread(MainPcs)
    BY <1>1, Constants, SMTT(60) DEF Thread, MainPcs
  <2>2. QED
    BY <2>1, ThreadTypes DEF IInv, Types
<1>3. PulseInv'
  <2>1. 0 \in Asked
    BY DEF Asked
  <2>2. QED
    BY <1>1, <2>1, NoNewPulse DEF IInv, PulseInv, soft, hard
<1>4. CorkInv' /\ TimerInv' /\ NothingSentWhileCorked'
  BY QuietTimer DEF soft
<1>5. SetInv'
  <2>1. \A o \in Outs : Settled(o)'
    BY <1>1, SettledKept, SMTT(60) DEF IInv, Types, SetInv, Setting, hard
  <2>2. 1 \in Outs /\ \A o \in Outs : ~(o < 1)
    BY Constants, SMTT(60) DEF Outs
  <2>3. QED
    BY <1>1, <2>1, <2>2 DEF SetInv, Setting
<1>6. QED
  BY <1>2, <1>3, <1>4, <1>5 DEF IInv

LEMMA NextOutputIs ==
    ASSUME IInv, main.pc \in Setting, NextOutput
    PROVE  /\ main' \in Thread(MainPcs) /\ main'.v = 0
           /\ \/ /\ main'.pc = "period" /\ main'.n = main.n /\ main'.o = main.o + 1
                 /\ main.o < NumOut
              \/ main'.pc = "idle" /\ main.o = NumOut
<1>1. main.o \in Outs /\ main.n \in Nat /\ NumOut \in Nat
  BY Constants DEF IInv, SetInv, Types, Thread
<1>2. CASE main.o < NumOut
  <2>1. main' = [pc |-> "period", o |-> main.o + 1, n |-> main.n, v |-> 0, w |-> 0]
    BY <1>2 DEF NextOutput, Idle
  <2>2. main.o + 1 \in 0 .. NumOut
    BY <1>1, <1>2, SMTT(60) DEF Outs
  <2>3. main' \in Thread(MainPcs)
    BY <1>1, <2>1, <2>2 DEF Thread, MainPcs
  <2>4. QED
    BY <2>1, <2>3, <1>2
<1>3. CASE ~(main.o < NumOut)
  <2>1. main' = [pc |-> "idle", o |-> 0, n |-> 0, v |-> 0, w |-> 0]
    BY <1>3 DEF NextOutput, Idle
  <2>2. main' \in Thread(MainPcs)
    BY <1>1, <2>1, SMTT(60) DEF Thread, MainPcs
  <2>3. main.o = NumOut
    BY <1>1, <1>3, SMTT(60) DEF Outs
  <2>4. QED
    BY <2>1, <2>2, <2>3
<1>4. QED
  BY <1>2, <1>3

\* On to the next output, with this one done.
LEMMA NextSet ==
    ASSUME IInv, main.pc \in Setting, Load(main.n) <= LoadMax, NextOutput,
           \A o \in Outs : o <= main.o => period'[o] = main.n /\ Settled(o)'
    PROVE  SetInv'
<1>1. main.o \in Outs /\ main.n \in Periods
  BY DEF IInv, SetInv
<1>2. CASE main'.pc = "period" /\ main'.n = main.n /\ main'.o = main.o + 1 /\ main.o < NumOut
  <2>1. main.o + 1 \in Outs /\ \A o \in Outs : o < main.o + 1 => o <= main.o
    BY <1>1, <1>2, Constants, SMTT(60) DEF Outs
  <2>2. ~(Load(main.n) > LoadMax)
    BY <1>1, Constants, IgnoreTooLong, SMTT(60)
  <2>3. QED
    BY <1>1, <1>2, <2>1, <2>2 DEF SetInv, Setting
<1>3. CASE main'.pc = "idle" /\ main.o = NumOut
  <2>1. \A o \in Outs : o <= main.o
    BY <1>3, Constants, SMTT(60) DEF Outs
  <2>2. QED
    BY <1>3, <2>1 DEF SetInv, Setting
<1>4. QED
  BY <1>2, <1>3, NextOutputIs

LEMMA StepSetPeriod == ASSUME IInv, set_period PROVE IInv'
<1> USE DEF set_period
<1>1. main.pc \in Setting /\ main.o \in Outs /\ main.n \in Periods /\ main \in Thread(MainPcs)
  BY DEF IInv, SetInv, Setting, Types
<1>2. CorkInv' /\ TimerInv' /\ NothingSentWhileCorked'
  BY <1>1, NotCorked, QuietTimer DEF soft
<1>3. writes \in Nat /\ writes' \in Nat /\ writes <= writes'
  BY SMTT(60) DEF IInv, Types, counts
<1>4. Load(main.n) \in Nat /\ LoadMax \in Nat
  <2>1. main.n \in Nat
    BY <1>1, Constants
  <2>2. QED
    BY <2>1, Constants, SMTT(60) DEF Load
<1>5. CASE Load(main.n) > LoadMax
  <2>1. NextOutput /\ UNCHANGED <<soft, hard, timer, counts>>
    BY <1>5 DEF hard
  <2>2. Types'
    BY <1>1, <2>1, NextOutputIs, ThreadTypes DEF IInv, Types, counts
  <2>3. PulseInv'
    <3>1. 0 \in Asked /\ timer.v \in Asked
      BY DEF Asked, IInv, PulseInv
    <3>2. QED
      BY <1>1, <2>1, <3>1, NextOutputIs, NoNewPulse DEF soft, hard, counts
  <2>4. SetInv'
    <3>1. \A o \in Outs : Settled(o)
      BY <1>1, <1>5 DEF IInv, SetInv
    <3>2. \A o \in Outs : Settled(o)'
      BY <1>3, <2>1, <3>1, SettledKept DEF hard
    <3>3. ~(Load(main.n) <= LoadMax)
      BY <1>4, <1>5, SMTT(60)
    <3>4. main.o < NumOut => main.o + 1 \in Outs
      BY <1>1, Constants, SMTT(60) DEF Outs
    <3>5. QED
      BY <1>1, <1>5, <2>1, <3>2, <3>3, <3>4, NextOutputIs DEF SetInv, Setting
  <2>5. QED
    BY <1>2, <2>2, <2>3, <2>4 DEF IInv
<1>6. CASE ~(Load(main.n) > LoadMax)
  <2>1. /\ period' = [period EXCEPT ![main.o] = main.n]
        /\ main' = [main EXCEPT !.pc = "load"]
    BY <1>6
  <2>2. main'.pc = "load" /\ main'.o = main.o /\ main'.n = main.n /\ main'.v = main.v
        /\ main' \in Thread(MainPcs)
    BY <1>1, <2>1 DEF Thread, MainPcs
  <2>3. Load(main.n) <= LoadMax
    BY <1>4, <1>6, SMTT(60)
  <2>4. Types'
    BY <1>1, <2>1, <2>2, <2>3 DEF IInv, Types, soft, counts
  <2>5. PulseInv'
    BY <2>2, NoNewPulse DEF IInv, PulseInv, soft, counts
  <2>6. SetInv'
    <3>1. ASSUME NEW o \in Outs, o < main.o
          PROVE  period'[o] = main.n /\ Settled(o)'
      <4>1. o # main.o
        BY <1>1, <3>1, SMTT(60) DEF Outs
      <4>2. period'[o] = period[o] /\ period[o] = main.n /\ Settled(o)
        BY <1>1, <2>1, <2>3, <3>1, <4>1 DEF IInv, SetInv, Types
      <4>3. QED
        BY <1>3, <4>2, SettledKept
    <3>2. period'[main.o] = main.n
      BY <1>1, <2>1 DEF IInv, Types
    <3>3. QED
      BY <1>1, <1>6, <2>2, <3>1, <3>2 DEF SetInv, Setting
  <2>7. QED
    BY <1>2, <2>4, <2>5, <2>6, SMTT(60) DEF IInv
<1>7. QED
  BY <1>5, <1>6

\* Past pwm_set_period's test, set_freq() works at a period that fits.
LEMMA PeriodFits ==
    ASSUME IInv, main.pc \in Setting, main.pc # "period"
    PROVE  /\ main.o \in Outs /\ main.n \in Periods /\ main \in Thread(MainPcs)
           /\ Load(main.n) \in Nat /\ Load(main.n) <= LoadMax /\ ~(Load(main.n) > LoadMax)
           /\ period[main.o] = main.n
           /\ \A o \in Outs : o < main.o => period[o] = main.n /\ Settled(o)
           /\ writes \in Nat
<1>1. main.n \in Periods /\ main.n \in Nat /\ LoadMax \in Nat
  BY Constants DEF IInv, SetInv
<1>2. Load(main.n) \in Nat
  BY <1>1, SMTT(60) DEF Load
<1>3. ~(Load(main.n) > LoadMax) /\ Load(main.n) <= LoadMax
  BY <1>1, <1>2, SMTT(60) DEF IInv, SetInv
<1>4. QED
  BY <1>1, <1>2, <1>3, SMTT(60) DEF IInv, SetInv, Types

LEMMA StepSetLoad == ASSUME IInv, set_load PROVE IInv'
<1> USE DEF set_load
<1>1. main.pc \in Setting /\ main.pc # "period"
  BY DEF Setting
<1>2. CorkInv' /\ TimerInv' /\ NothingSentWhileCorked'
  BY <1>1, NotCorked, QuietTimer DEF soft
<1>3. main'.pc = "pulse" /\ main'.o = main.o /\ main'.n = main.n /\ main'.v = main.v
      /\ main' \in Thread(MainPcs)
  BY <1>1, PeriodFits DEF Thread, MainPcs
<1>4. load' \in [Gens -> Nat]
  BY <1>1, PeriodFits DEF IInv, Types
<1>5. Types'
  BY <1>3, <1>4 DEF IInv, Types, soft, counts
<1>6. PulseInv'
  BY <1>3, NoNewPulse DEF IInv, PulseInv, soft, counts
<1>7. SetInv'
  <2>1. Generator[main.o] \in Gens /\ load'[Generator[main.o]] = Load(main.n)
    BY <1>1, PeriodFits DEF IInv, Types, Gens
  <2>2. ASSUME NEW o \in Outs, o < main.o PROVE period'[o] = main.n /\ Settled(o)'
    <3>1. period[o] = main.n /\ Settled(o)
      BY <1>1, <2>2, PeriodFits
    <3>2. load'[Generator[o]] = load[Generator[o]]
      BY <1>1, <2>1, <3>1, PeriodFits DEF IInv, Types, Gens, Settled
    <3>3. QED
      BY <1>1, <3>1, <3>2, PeriodFits, SettledKept, SMTT(60) DEF counts
  <2>3. QED
    BY <1>1, <1>3, <2>1, <2>2, PeriodFits DEF SetInv, Setting
<1>8. QED
  BY <1>2, <1>5, <1>6, <1>7 DEF IInv

LEMMA StepRereadPulse == ASSUME IInv, reread_pulse PROVE IInv'
<1> USE DEF reread_pulse
<1>1. main.pc \in Setting /\ main.pc # "period"
  BY DEF Setting
<1>2. CorkInv' /\ TimerInv' /\ NothingSentWhileCorked'
  BY <1>1, NotCorked, QuietTimer DEF soft
\* The pulse in force is shorter than every period, so it is set again.
<1>3. pulse[main.o] \in Asked /\ pulse[main.o] \in Nat /\ ~(pulse[main.o] >= period[main.o])
  <2>1. pulse[main.o] \in Asked /\ writes \in 0 .. MaxWrites
    BY <1>1, PeriodFits DEF IInv, PulseInv, Types
  <2>2. AskedAfter(writes, pulse[main.o]) /\ writes \in Nat /\ writes <= MaxWrites
    BY <2>1, AskedNow, Constants, SMTT(60)
  <2>3. period[main.o] \in Nat /\ period[main.o] > DefaultPulse + MaxWrites
    BY <1>1, PeriodFits, Constants
  <2>4. QED
    BY <2>1, <2>2, <2>3, Constants, SMTT(60) DEF AskedAfter
<1> DEFINE w == Width(pulse[main.o], main.o)
<1>4. main' = [main EXCEPT !.pc = "width", !.v = pulse[main.o], !.w = w]
  BY <1>3
<1>5. w \in Nat
  BY <1>1, <1>3, PeriodFits, WidthNat DEF IInv
<1>6. \A v, o : Width(v, o)' = Width(v, o)
  BY DEF Width, hard
<1>7. w = Width(pulse[main.o], main.o)
  OBVIOUS
<1> HIDE DEF w
<1>8. main'.pc = "width" /\ main'.o = main.o /\ main'.n = main.n /\ main'.v = pulse[main.o]
      /\ main'.w = w /\ main' \in Thread(MainPcs)
  BY <1>1, <1>3, <1>4, <1>5, PeriodFits DEF Thread, MainPcs
<1>9. Types'
  BY <1>8, ThreadTypes DEF IInv, Types, counts
<1>10. PulseInv'
  BY <1>3, <1>8, NoNewPulse DEF IInv, PulseInv, soft, hard, counts
<1>11. SetInv'
  <2>1. ASSUME NEW o \in Outs, o < main.o PROVE period'[o] = main.n /\ Settled(o)'
    BY <1>1, <2>1, PeriodFits, SettledKept, SMTT(60) DEF hard, counts
  <2>2. load'[Generator[main.o]] = Load(main.n)
    BY <1>1, PeriodFits DEF IInv, SetInv, hard
  <2>3. (main.w = Width(main.v, main.o))'
    BY <1>6, <1>7, <1>8
  <2>4. QED
    BY <1>1, <1>8, <2>1, <2>2, <2>3, PeriodFits DEF SetInv, Setting, hard
<1>12. QED
  BY <1>2, <1>9, <1>10, <1>11 DEF IInv

LEMMA StepResetWidth == ASSUME IInv, reset_width PROVE IInv'
<1> USE DEF reset_width
<1>1. main.pc \in Setting /\ main.pc # "period"
  BY DEF Setting
<1>2. CorkInv' /\ TimerInv' /\ NothingSentWhileCorked'
  BY <1>1, NotCorked, QuietTimer DEF soft
<1>3. main'.pc = "field" /\ main'.o = main.o /\ main'.n = main.n /\ main'.v = main.v
      /\ main'.w = main.w /\ main' \in Thread(MainPcs)
  BY <1>1, PeriodFits DEF Thread, MainPcs
<1>4. main.w = Width(main.v, main.o) /\ main.v \in Asked
      /\ load[Generator[main.o]] = Load(main.n)
  BY <1>1, PeriodFits DEF IInv, SetInv, PulseInv
<1>5. main.w \in Nat \ {0}
  BY <1>1, <1>4, PeriodFits, WidthNat DEF IInv, Thread
<1>6. width' \in [Outs -> Nat \ {0}] /\ width'[main.o] = main.w
      /\ \A o \in Outs : o # main.o => width'[o] = width[o]
  BY <1>1, <1>5, PeriodFits DEF IInv, Types
<1>7. Types'
  BY <1>3, <1>6 DEF IInv, Types, soft, counts
<1>8. PulseInv'
  BY <1>3, <1>4, NoNewPulse DEF IInv, PulseInv, soft, counts
<1>9. \A v, o : Width(v, o)' = Width(v, o)
  BY DEF Width
<1>10. SetInv'
  <2>1. ASSUME NEW o \in Outs, o < main.o PROVE period'[o] = main.n /\ Settled(o)'
    <3>1. o # main.o
      BY <1>1, <2>1, PeriodFits, SMTT(60) DEF Outs
    <3>2. QED
      BY <1>1, <1>6, <2>1, <3>1, PeriodFits, SettledKept, SMTT(60) DEF counts
  <2>2. Scaled(main.o)'
    <3>1. Asked' = Asked
      BY DEF Asked, counts
    <3>2. QED
      BY <1>3, <1>4, <1>6, <1>9, <3>1, SMTT(60) DEF Scaled
  <2>3. QED
    BY <1>1, <1>3, <1>4, <1>9, <2>1, <2>2, PeriodFits DEF SetInv, Setting
<1>11. QED
  BY <1>2, <1>7, <1>8, <1>10 DEF IInv

LEMMA StepResetPulse == ASSUME IInv, reset_pulse PROVE IInv'
<1> USE DEF reset_pulse
<1>1. main.pc \in Setting /\ main.pc # "period"
  BY DEF Setting
<1>2. CorkInv' /\ TimerInv' /\ NothingSentWhileCorked'
  BY <1>1, NotCorked, QuietTimer DEF soft
<1>3. main' \in Thread(MainPcs) /\ main'.v = 0 /\ main'.pc # "value"
  BY <1>1, NextOutputIs
<1>4. main.v \in Asked /\ main.v \in Nat
  BY <1>1, PeriodFits DEF IInv, PulseInv, Thread
<1>5. Types'
  BY <1>1, <1>3, <1>4, PeriodFits DEF IInv, Types, soft, counts
<1>6. PulseInv'
  <2>1. Asked' = Asked /\ 0 \in Asked
    BY DEF Asked, counts
  <2>2. \A o \in Outs : pulse'[o] \in Asked
    BY <1>1, <1>4, PeriodFits DEF IInv, PulseInv, Types
  <2>3. QED
    BY <1>3, <2>1, <2>2 DEF IInv, PulseInv, soft
<1>7. SetInv'
  <2>1. ASSUME NEW o \in Outs, o <= main.o PROVE period'[o] = main.n /\ Settled(o)'
    <3>1. period[o] = main.n /\ Settled(o)
      <4>1. CASE o = main.o
        BY <1>1, <4>1, PeriodFits DEF IInv, SetInv, Settled
      <4>2. CASE o # main.o
        <5>1. o < main.o
          BY <1>1, <2>1, <4>2, PeriodFits, SMTT(60) DEF Outs
        <5>2. QED
          BY <1>1, <5>1, PeriodFits
      <4>3. QED
        BY <4>1, <4>2
    <3>2. QED
      BY <1>1, <3>1, PeriodFits, SettledKept, SMTT(60) DEF counts
  <2>2. QED
    BY <1>1, <2>1, PeriodFits, NextSet
<1>8. QED
  BY <1>2, <1>5, <1>6, <1>7 DEF IInv

-----------------------------------------------------------------------------
(* The timer thread *)

\* Steps of a tick that only move the timer thread on.
TickOnly == UNCHANGED <<soft, hard, main, counts>>

LEMMA TickKeeps ==
    ASSUME IInv, TickOnly, timer' \in Thread(TimerPcs), timer'.v \in Asked,
           main.pc = "value" => timer'.v # DefaultPulse + writes,
           timer # Idle \/ ~_corking
    PROVE  Types' /\ PulseInv' /\ CorkInv' /\ SetInv' /\ NothingSentWhileCorked'
<1> USE DEF TickOnly
<1>1. Types'
  BY ThreadTypes DEF IInv, Types, counts
<1>2. PulseInv'
  BY DEF IInv, PulseInv, Asked, soft, hard, counts
<1>3. CorkInv'
  BY DEF IInv, CorkInv, soft, counts
<1>4. SetInv'
  BY SetInvSame DEF hard, counts
<1>5. NothingSentWhileCorked'
  BY DEF IInv, NothingSentWhileCorked, soft, hard, counts
<1>6. QED
  BY <1>1, <1>2, <1>3, <1>4, <1>5

\* A value that was never asked for is not zero.
LEMMA ZeroIsOld == ASSUME IInv PROVE 0 \in Asked /\ 0 # DefaultPulse + writes
BY Constants, SMTT(60) DEF IInv, Types, Asked

LEMMA IdleThread ==
    Idle \in Thread(TimerPcs) /\ Idle.v = 0 /\ Idle.pc = "idle"
BY Constants, SMTT(60) DEF Idle, Thread, TimerPcs

LEMMA StepTick == ASSUME IInv, timer_tick PROVE IInv'
<1>1. timer' = [pc |-> "send", o |-> 0, n |-> 0, v |-> 0, w |-> 0]
  BY DEF timer_tick, Idle
<1>2. timer' \in Thread(TimerPcs) /\ timer'.v = 0
  BY <1>1, Constants, SMTT(60) DEF Thread, TimerPcs
<1>3. TimerInv'
  BY <1>1 DEF TimerInv
<1>4. QED
  BY <1>2, <1>3, ZeroIsOld, TickKeeps DEF timer_tick, IInv, TickOnly

LEMMA StepSend == ASSUME IInv, send_outputs PROVE IInv'
<1> USE DEF send_outputs
<1>1. timer # Idle /\ timer \in Thread(TimerPcs) /\ timer.v \in Asked
  BY SMTT(60) DEF Idle, IInv, Types, PulseInv
<1>2. \/ timer' = Idle
      \/ timer' = [timer EXCEPT !.pc = "scan"]
  OBVIOUS
<1>3. timer' \in Thread(TimerPcs) /\ timer'.v \in {0, timer.v} /\ timer'.pc \in {"idle", "scan"}
  BY <1>1, <1>2, IdleThread DEF Thread, TimerPcs
<1>4. Types'
  <2>1. _need_update' \in BOOLEAN
    BY DEF IInv, Types
  <2>2. QED
    BY <1>3, <2>1 DEF IInv, Types, hard, counts
<1>5. PulseInv'
  BY <1>1, <1>3, ZeroIsOld DEF IInv, PulseInv, Asked, hard, counts
<1>6. CorkInv'
  BY <1>1 DEF IInv, CorkInv, counts
<1>7. TimerInv'
  BY <1>3 DEF TimerInv
<1>8. SetInv'
  BY SetInvSame DEF hard, counts
<1>9. NothingSentWhileCorked'
  BY DEF IInv, NothingSentWhileCorked, hard, counts
<1>10. QED
  BY <1>4, <1>5, <1>6, <1>7, <1>8, <1>9 DEF IInv

LEMMA StepScan == ASSUME IInv, scan PROVE IInv'
<1> USE DEF scan
<1>1. timer # Idle /\ timer \in Thread(TimerPcs) /\ timer.v \in Asked
      /\ (main.pc = "value" => timer.v # DefaultPulse + writes)
  BY SMTT(60) DEF Idle, IInv, Types, PulseInv
<1>2. to_send \in 0 .. NumOut
  <2> DEFINE T == {c \in 1 .. _max_channel : _period[c] # Ignore} \cup {0}
  <2>1. NumOut \in Nat /\ _max_channel \in 0 .. NumOut
    BY Constants DEF IInv, Types
  <2>2. T \in SUBSET (0 .. NumOut) /\ T # {}
    BY <2>1, SMTT(60)
  <2>3. to_send = Max(T)
    BY DEF to_send
  <2> HIDE DEF T
  <2>4. Max(T) \in T
    BY <2>1, <2>2, MaxIn
  <2>5. QED
    BY <2>2, <2>3, <2>4
<1> HIDE DEF scan
<1>3. CASE to_send = 0
  <2>1. timer' = Idle /\ TickOnly
    BY <1>3 DEF scan, TickOnly
  <2>2. TimerInv'
    BY <2>1, IdleThread DEF TimerInv
  <2>3. QED
    BY <1>1, <2>1, <2>2, IdleThread, ZeroIsOld, TickKeeps DEF IInv
<1>4. CASE to_send # 0
  <2>1. timer' = [timer EXCEPT !.pc = "scale", !.n = to_send, !.o = 1] /\ TickOnly
    BY <1>4 DEF scan, TickOnly
  <2>2. to_send \in Outs /\ 1 \in Outs /\ to_send \in Nat /\ 1 \in 0 .. NumOut
    BY <1>2, <1>4, Constants, SMTT(60) DEF Outs
  <2>3. timer' \in Thread(TimerPcs) /\ timer'.v = timer.v /\ timer'.pc = "scale"
        /\ timer'.o \in Outs /\ timer'.n \in Outs
    BY <1>1, <2>1, <2>2 DEF Thread, TimerPcs
  <2>4. TimerInv'
    BY <2>3 DEF TimerInv
  <2>5. QED
    BY <1>1, <2>1, <2>3, <2>4, TickKeeps DEF IInv
<1>5. QED
  BY <1>3, <1>4

\* On to the next channel: nothing computed is left.
LEMMA NextChannelIs ==
    ASSUME IInv, timer.pc \in {"scale", "set"}, timer' = NextChannel(timer)
    PROVE  timer' \in Thread(TimerPcs) /\ timer'.v = 0 /\ TimerInv'
<1>1. timer.o \in Outs /\ timer.n \in Outs /\ NumOut \in Nat
  BY Constants DEF IInv, TimerInv
<1>2. CASE timer.o < timer.n
  <2>1. timer' = [pc |-> "scale", n |-> timer.n, o |-> timer.o + 1, v |-> 0, w |-> 0]
    BY <1>2 DEF NextChannel, Idle
  <2>2. timer.o + 1 \in Outs /\ timer.o + 1 \in 0 .. NumOut /\ timer.n \in Nat
    BY <1>1, <1>2, SMTT(60) DEF Outs
  <2>3. timer' \in Thread(TimerPcs)
    BY <2>1, <2>2, SMTT(60) DEF Thread, TimerPcs
  <2>4. TimerInv'
    BY <1>1, <2>1, <2>2, SMTT(60) DEF TimerInv
  <2>5. QED
    BY <2>1, <2>3, <2>4, SMTT(60)
<1>3. CASE ~(timer.o < timer.n)
  <2>1. timer' = Idle
    BY <1>3 DEF NextChannel
  <2>2. QED
    BY <2>1, IdleThread DEF TimerInv
<1>4. QED
  BY <1>2, <1>3

LEMMA StepScale == ASSUME IInv, scale PROVE IInv'
<1>1. timer # Idle /\ timer \in Thread(TimerPcs) /\ timer.pc = "scale" /\ timer.o \in Outs
      /\ timer.n \in Outs /\ TickOnly
  BY SMTT(60) DEF scale, Idle, IInv, Types, TimerInv, TickOnly
<1> DEFINE v == _period[timer.o]
           w == Width(v, timer.o)
<1>2. CASE v >= period[timer.o]
  <2>1. timer' = NextChannel(timer)
    BY <1>2 DEF scale
  <2>2. QED
    BY <1>1, <2>1, NextChannelIs, ZeroIsOld, TickKeeps DEF IInv
<1>3. CASE ~(v >= period[timer.o])
  <2>1. timer' = [timer EXCEPT !.pc = "set", !.v = v, !.w = w]
    BY <1>3 DEF scale
  <2>2. v \in Nat /\ v \in Asked \cup {Ignore} /\ (main.pc = "value" => v # DefaultPulse + writes)
    BY <1>1 DEF IInv, Types, PulseInv
  <2>3. v # Ignore
    <3>1. period[timer.o] \in Nat /\ period[timer.o] < Ignore /\ Ignore \in Nat
      BY <1>1, IgnoreTooLong, SMTT(60) DEF IInv, Types, Ignore
    <3>2. QED
      BY <1>3, <3>1, <2>2, SMTT(60)
  <2>4. w \in Nat
    BY <1>1, <2>2, WidthNat DEF IInv
  <2>5. w = Width(v, timer.o)
    OBVIOUS
  <2> HIDE DEF v, w
  <2>6. timer' \in Thread(TimerPcs) /\ timer'.v = v /\ timer'.w = w /\ timer'.pc = "set"
        /\ timer'.o = timer.o /\ timer'.n = timer.n
    BY <1>1, <2>1, <2>2, <2>4 DEF Thread, TimerPcs
  <2>7. \A x, o : Width(x, o)' = Width(x, o)
    BY <1>1 DEF Width, TickOnly, hard
  <2>8. TimerInv'
    BY <1>1, <2>5, <2>6, <2>7 DEF TimerInv
  <2>9. QED
    BY <1>1, <2>2, <2>3, <2>6, <2>8, TickKeeps DEF IInv
<1>4. QED
  BY <1>2, <1>3

LEMMA StepSetPulse == ASSUME IInv, set_pulse PROVE IInv'
<1> USE DEF set_pulse
<1>1. timer # Idle /\ timer.pc = "set" /\ timer.o \in Outs /\ timer.v \in Asked
      /\ timer.v \in Nat /\ (main.pc = "value" => timer.v # DefaultPulse + writes)
      /\ timer.w = Width(timer.v, timer.o)
  BY SMTT(60) DEF Idle, IInv, Types, Thread, TimerInv, PulseInv
<1>2. timer' \in Thread(TimerPcs) /\ timer'.v = 0 /\ TimerInv'
  BY <1>1, NextChannelIs
<1>3. timer.w \in Nat \ {0}
  BY <1>1, WidthNat DEF IInv
<1>4. Types'
  BY <1>1, <1>2, <1>3 DEF IInv, Types, soft, counts
<1>5. Asked' = Asked
  BY DEF Asked, counts
<1>6. PulseInv'
  BY <1>1, <1>2, <1>5, ZeroIsOld DEF IInv, PulseInv, Types, soft, counts
<1>7. CorkInv'
  BY <1>1 DEF IInv, CorkInv, soft, counts
<1>8. SetInv'
  <2>1. \A v, o : Width(v, o)' = Width(v, o)
    BY DEF Width
  <2>2. writes \in Nat /\ writes' = writes
    BY SMTT(60) DEF IInv, Types, counts
  <2>3. ASSUME NEW o \in Outs PROVE Scaled(o) => Scaled(o)'
    <3>1. CASE o = timer.o
      <4>1. width'[o] = timer.w
        BY <3>1 DEF IInv, Types
      <4>2. QED
        BY <1>1, <1>5, <2>1, <3>1, <4>1 DEF Scaled
    <3>2. CASE o # timer.o
      <4>1. width'[o] = width[o]
        BY <3>2 DEF IInv, Types
      <4>2. QED
        BY <2>2, <4>1, ScaledKept, SMTT(60)
    <3>3. QED
      BY <3>1, <3>2
  <2>4. \A o \in Outs : Settled(o) => Settled(o)'
    BY <2>3 DEF Settled
  <2>5. SetInv
    BY DEF IInv
  <2>6. QED
    BY <2>1, <2>3, <2>4, <2>5 DEF SetInv
<1>9. NothingSentWhileCorked'
  BY <1>1 DEF IInv, CorkInv, NothingSentWhileCorked, soft, counts
<1>10. QED
  BY <1>2, <1>4, <1>6, <1>7, <1>8, <1>9 DEF IInv

-----------------------------------------------------------------------------
(* The clock, and the theorems *)

LEMMA StepClock == ASSUME IInv, ClockRuns \/ ClockWraps PROVE IInv'
<1>1. UNCHANGED <<soft, hard, main, timer, writes, corked>> /\ early' \in BOOLEAN
  BY DEF ClockRuns, ClockWraps
<1>2. Types'
  BY <1>1 DEF IInv, Types, soft, hard
<1>3. PulseInv'
  BY <1>1 DEF IInv, PulseInv, Asked, soft, hard
<1>4. CorkInv'
  BY <1>1 DEF IInv, CorkInv, soft
<1>5. TimerInv'
  BY <1>1, TimerInvSame DEF IInv, hard
<1>6. SetInv'
  BY <1>1, SetInvSame DEF hard
<1>7. NothingSentWhileCorked'
  BY <1>1 DEF IInv, NothingSentWhileCorked, soft, hard
<1>8. QED
  BY <1>2, <1>3, <1>4, <1>5, <1>6, <1>7 DEF IInv

LEMMA Stutter == ASSUME IInv, UNCHANGED vars PROVE IInv'
<1>1. UNCHANGED <<soft, hard, main, timer, writes, corked, early>>
  BY DEF vars, soft, hard
<1>2. Types'
  BY <1>1 DEF IInv, Types, soft, hard
<1>3. PulseInv' /\ CorkInv' /\ NothingSentWhileCorked'
  BY <1>1 DEF IInv, PulseInv, CorkInv, NothingSentWhileCorked, Asked, soft, hard
<1>4. TimerInv' /\ SetInv'
  BY <1>1, TimerInvSame, SetInvSame DEF IInv, hard
<1>5. QED
  BY <1>2, <1>3, <1>4 DEF IInv

\* RCOutput.cpp and dev_rc_out.c: the inductive invariant, for any number of
\* outputs and generators and any steps of the two threads.
THEOREM Invariance == Spec => []IInv
<1>1. Init => IInv
  BY InitInv
<1>2. IInv /\ [Next]_vars => IInv'
  <2> SUFFICES ASSUME IInv, [Next]_vars PROVE IInv'
    OBVIOUS
  <2>1. CASE MainStep
    BY <2>1, StepSetValue, StepMark, StepPush, StepSetPeriod, StepSetLoad, StepRereadPulse,
       StepResetWidth, StepResetPulse DEF MainStep
  <2>2. CASE TimerStep
    BY <2>2, StepTick, StepSend, StepScan, StepScale, StepSetPulse DEF TimerStep
  <2>3. CASE ClockRuns \/ ClockWraps
    BY <2>3, StepClock
  <2>4. CASE cork
    BY <2>4, StepCork
  <2>5. CASE \E c \in Outs : write(c) \/ enable_ch(c) \/ disable_ch(c)
    BY <2>5, StepWrite, StepEnable, StepDisable
  <2>6. CASE \E p \in Periods : set_freq(p)
    BY <2>6, StepSetFreq
  <2>7. CASE UNCHANGED vars
    BY <2>7, Stutter
  <2>8. QED
    BY <2>1, <2>2, <2>3, <2>4, <2>5, <2>6, <2>7 DEF Next
<1>3. QED
  BY <1>1, <1>2, PTL DEF Spec

\* The variables keep their types, and no pulse is as long as its period:
\* pwm_set_pulse never leaves an output high throughout.
THEOREM TypeCorrect == Spec => []TypeOK
<1>1. IInv => TypeOK
  <2> SUFFICES ASSUME IInv PROVE TypeOK
    OBVIOUS
  <2>1. writes \in Nat /\ writes <= MaxWrites /\ DefaultPulse \in Nat /\ MaxWrites \in Nat
    BY Constants, SMTT(60) DEF IInv, Types
  <2>2. \A v \in Asked : v \in 0 .. DefaultPulse + MaxWrites
    BY <2>1, AskedNow, SMTT(60) DEF AskedAfter
  <2>3. ASSUME NEW o \in Outs PROVE pulse[o] \in 0 .. period[o] - 1 /\ width[o] \in Nat \ {0}
    <3>1. period[o] \in Nat /\ period[o] > DefaultPulse + MaxWrites
      BY IgnoreTooLong DEF IInv, Types
    <3>2. pulse[o] \in 0 .. DefaultPulse + MaxWrites
      BY <2>2 DEF IInv, PulseInv
    <3>3. QED
      BY <2>1, <3>1, <3>2, SMTT(60) DEF IInv, Types
  <2>4. _period \in [Outs -> 0 .. DefaultPulse + MaxWrites \cup {Ignore}]
    BY <2>2 DEF IInv, Types, PulseInv
  <2>5. main.o \in 0 .. NumOut /\ timer.o \in 0 .. NumOut
    BY DEF IInv, Types, Thread
  <2>6. QED
    BY <2>3, <2>4, <2>5 DEF IInv, Types, TypeOK
<1>2. QED
  BY Invariance, <1>1, PTL

\* cork() and push(): no write of a corked group reaches an output before
\* push(), whichever steps of ticks come in between.
THEOREM CorkedGroupWaits == Spec => []NothingSentWhileCorked
<1>1. IInv => NothingSentWhileCorked
  BY DEF IInv
<1>2. QED
  BY Invariance, <1>1, PTL

\* dev_rc_out_set_period and dev_rc_out_write: with both threads at rest, every
\* generator runs at the period of each of its outputs and every width is an
\* asked-for pulse at that period, however their steps were mixed.
THEOREM RegistersAgree == Spec => []WidthsAreAsked
<1>1. IInv => WidthsAreAsked
  <2> SUFFICES ASSUME IInv, main = Idle PROVE \A o \in Outs : Settled(o)
    BY DEF WidthsAreAsked, Settled, Scaled
  <2>1. main.pc \notin Setting
    BY DEF Idle, Setting
  <2>2. QED
    BY <2>1 DEF IInv, SetInv
<1>2. QED
  BY Invariance, <1>1, PTL
=============================================================================
