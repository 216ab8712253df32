------------------------- MODULE MainPriorityProofs -------------------------
(***************************************************************************)
(* Proofs about MainPriority, for every overrun, boost and delay time and  *)
(* every order of the main thread, the timer interrupts and the kernel.    *)
(***************************************************************************)
EXTENDS MainPriority, TLAPS

\* A leaf that names no prover is Zenon's.
USE ZenonT(30)

-----------------------------------------------------------------------------
(* The inductive invariant *)

Levels == {SpiPrio, Boost, Main, OvertimePrio}

\* _sem is free, or the main thread's, taken at one of the four priorities,
\* with the SPI bus thread waiting or not.
SemInv ==
    \/ sem = rt_mutex_init
    \/ /\ sem.value = 0 /\ sem.owner = "main" /\ sem.hold = 1
       /\ sem.original_priority \in Levels
       /\ sem = [value |-> 0, owner |-> "main", hold |-> 1,
                 original_priority |-> sem.original_priority,
                 suspend_thread |-> sem.suspend_thread]

\* The two records are armed for the main thread just while it waits for them:
\* nothing else wakes it, so neither can be left behind by the other.
WaitInv ==
    /\ delay_call # Off <=> wait = "sem"
    /\ wait_call.fn = "sem_post_boost" <=> wait = "boost"

IInv == TypeOK /\ SemInv /\ WaitInv

-----------------------------------------------------------------------------
(* Facts the steps share *)

LEMMA Levels4 ==
    /\ SpiPrio = 14 /\ Boost = 15 /\ Main = 76 /\ OvertimePrio = 246 /\ StartupPrio = 246
    /\ Levels = {14, 15, 76, 246} /\ Off = -1
BY SMTT(60) DEF SpiPrio, Boost, Main, OvertimePrio, StartupPrio, PriorityMax, Levels, Off

\* rt_schedule chooses one of the three.
LEMMA ScheduleType ==
    ASSUME NEW w, NEW p, NEW n
    PROVE  Schedule(w, p, n) \in {"main", "driver", "idle"}
BY DEF Schedule

LEMMA FreeSem ==
    /\ rt_mutex_init.owner = NoThread /\ rt_mutex_init.value = 1 /\ rt_mutex_init.hold = 0
    /\ rt_mutex_init.suspend_thread = <<>> /\ NoThread # "main"
BY MainPriorityAssumption DEF rt_mutex_init

\* The main thread takes _sem at the priority it has, ...
LEMMA TakeSem ==
    ASSUME NEW p
    PROVE  rt_mutex_take(rt_mutex_init, "main", p)
             = [value |-> 0, owner |-> "main", hold |-> 1, original_priority |-> p["main"],
                suspend_thread |-> <<>>]
<1> DEFINE x == rt_mutex_init
<1>1. /\ x.value = 1 /\ x.hold = 0 /\ x.suspend_thread = <<>>
      /\ x = [value |-> 1, owner |-> NoThread, hold |-> 0, original_priority |-> NoPriority,
              suspend_thread |-> <<>>]
  BY DEF rt_mutex_init
<1> HIDE DEF x
<1>2. rt_mutex_take(x, "main", p) = [x EXCEPT !.value = 0, !.owner = "main", !.hold = 1,
                                             !.original_priority = p["main"]]
  BY <1>1, SMTT(60) DEF rt_mutex_take
<1>3. QED
  BY <1>1, <1>2 DEF x

\* ... and has that priority again when it gives it.
LEMMA GivePrio ==
    ASSUME Held
    PROVE  release_prio(sem, Prios)["main"]
             = IF sem.hold = 1 THEN sem.original_priority ELSE prio
BY DEF release_prio, Prios, Held

\* The SPI bus thread lends its priority or leaves the main thread's.
LEMMA SpiPrios ==
    ASSUME Held
    PROVE  take_prio(sem, "spi", Prios)["main"] \in {SpiPrio, prio}
BY DEF take_prio, Prios, Held

LEMMA SpiSem ==
    ASSUME SemInv, Held, NEW p
    PROVE  /\ rt_mutex_take(sem, "spi", p).value = 0 /\ rt_mutex_take(sem, "spi", p).owner = "main"
           /\ rt_mutex_take(sem, "spi", p).hold = 1
           /\ rt_mutex_take(sem, "spi", p).original_priority = sem.original_priority
           /\ sem.original_priority \in Levels
           /\ \E q : rt_mutex_take(sem, "spi", p)
                = [value |-> 0, owner |-> "main", hold |-> 1,
                   original_priority |-> sem.original_priority, suspend_thread |-> q]
<1>1. /\ sem.value = 0 /\ sem.original_priority \in Levels
      /\ sem = [value |-> 0, owner |-> "main", hold |-> 1,
                original_priority |-> sem.original_priority,
                suspend_thread |-> sem.suspend_thread]
  BY FreeSem DEF SemInv, Held
<1> DEFINE q == Append(sem.suspend_thread, "spi")
           o == sem.original_priority
           h == sem.suspend_thread
<1>2. rt_mutex_take(sem, "spi", p) = [sem EXCEPT !.suspend_thread = q]
  BY <1>1, SMTT(60) DEF rt_mutex_take
<1>3. sem = [value |-> 0, owner |-> "main", hold |-> 1, original_priority |-> o,
             suspend_thread |-> h]
  BY <1>1
<1> HIDE DEF q, o, h
<1>4. rt_mutex_take(sem, "spi", p)
        = [value |-> 0, owner |-> "main", hold |-> 1, original_priority |-> o,
           suspend_thread |-> q]
  BY <1>2, <1>3
<1>5. QED
  BY <1>1, <1>4, SMTT(60) DEF o

-----------------------------------------------------------------------------
(* The steps *)

\* A step of main_loop, or of the kernel, that leaves the records and _sem
\* alone.
LEMMA QuietIInv ==
    ASSUME IInv, UNCHANGED <<wait, wait_call, delay_call, sem>>,
           pc' \in {"start", "setup", "arm", "loop", "restore", "clear", "gap"},
           prio' \in Levels, cpu' \in {"main", "driver", "idle"},
           px4_ran_overtime' \in BOOLEAN, overtime_call' \in Off .. Overtime, need' \in BOOLEAN
    PROVE  IInv'
<1>1. TypeOK'
  BY DEF IInv, TypeOK, Levels
<1>2. SemInv' /\ WaitInv'
  BY DEF IInv, SemInv, WaitInv
<1>3. QED
  BY <1>1, <1>2 DEF IInv

LEMMA MoveIInv ==
    ASSUME IInv,
           start \/ end_setup \/ arm \/ end_loop \/ restore \/ clear \/ spin
    PROVE  IInv'
<1>1. /\ UNCHANGED <<wait, wait_call, delay_call, sem, cpu>>
      /\ pc' \in {"start", "setup", "arm", "loop", "restore", "clear", "gap"}
      /\ prio' \in {prio, StartupPrio, Main} /\ px4_ran_overtime' \in {px4_ran_overtime, FALSE}
      /\ overtime_call' \in {overtime_call, Overtime} /\ need' \in {need, TRUE}
  <2>1. CASE start
    BY <2>1 DEF start
  <2>2. CASE end_setup
    BY <2>2 DEF end_setup
  <2>3. CASE arm
    BY <2>3 DEF arm
  <2>4. CASE end_loop
    BY <2>4 DEF end_loop
  <2>5. CASE restore
    BY <2>5 DEF restore
  <2>6. CASE clear
    BY <2>6 DEF clear
  <2>7. CASE spin
    BY <2>7 DEF spin, IInv, TypeOK
  <2>8. QED
    BY <2>1, <2>2, <2>3, <2>4, <2>5, <2>6, <2>7
<1>2. /\ prio \in Levels /\ px4_ran_overtime \in BOOLEAN /\ overtime_call \in Off .. Overtime
      /\ need \in BOOLEAN /\ cpu \in {"main", "driver", "idle"}
  BY DEF IInv, TypeOK, Levels
<1>3. prio' \in Levels
  BY <1>1, <1>2, Levels4, SMTT(60)
<1>4. overtime_call' \in Off .. Overtime
  BY <1>1, <1>2, Levels4, MainPriorityAssumption, SMTT(60)
<1>5. need' \in BOOLEAN /\ px4_ran_overtime' \in BOOLEAN
  BY <1>1, <1>2
<1>6. QED
  BY <1>1, <1>2, <1>3, <1>4, <1>5, QuietIInv

\* delay_microseconds arms its record as the thread blocks.
LEMMA BlockIInv ==
    ASSUME IInv, Running, NEW d \in Nat \ {0}, Block(d),
           pc' \in {"start", "setup", "arm", "loop", "restore", "clear", "gap"}
    PROVE  IInv'
<1>1. /\ wait = "none" /\ wait' = "sem" /\ delay_call' = d
      /\ cpu' \in {"main", "driver", "idle"}
      /\ UNCHANGED <<prio, px4_ran_overtime, overtime_call, wait_call, need, sem>>
  BY ScheduleType DEF Running, Block
<1>2. d \in Int /\ d >= Off /\ d # Off
  BY Levels4, SMTT(60)
<1>3. TypeOK'
  BY <1>1, <1>2 DEF IInv, TypeOK
<1>4. WaitInv'
  BY <1>1, <1>2 DEF IInv, WaitInv
<1>5. SemInv'
  BY <1>1 DEF IInv, SemInv
<1>6. QED
  BY <1>3, <1>4, <1>5 DEF IInv

\* So does delay_microseconds_boost, whatever its record was armed for.
LEMMA BoostIInv ==
    ASSUME IInv, NEW d \in Nat \ {0}, delay_microseconds_boost(d)
    PROVE  IInv'
<1>1. /\ wait = "none" /\ wait' = "boost" /\ wait_call' = [fn |-> "sem_post_boost", left |-> d]
      /\ cpu' \in {"main", "driver", "idle"}
      /\ UNCHANGED <<pc, prio, px4_ran_overtime, overtime_call, delay_call, need, sem>>
  BY ScheduleType DEF Running, delay_microseconds_boost
<1>2. d \in Int /\ d >= Off
  BY Levels4, SMTT(60)
<1>3. /\ wait_call' \in [fn : {"none", "sem_post_boost", "set_normal_priority"}, left : Int]
      /\ wait_call'.left = d /\ wait_call'.fn = "sem_post_boost"
  BY <1>1, <1>2
<1>4. TypeOK'
  BY <1>1, <1>2, <1>3 DEF IInv, TypeOK
<1>5. WaitInv'
  BY <1>1, <1>3 DEF IInv, WaitInv
<1>6. SemInv'
  BY <1>1 DEF IInv, SemInv
<1>7. QED
  BY <1>4, <1>5, <1>6 DEF IInv

LEMMA ReturnIInv == IInv /\ boost_return => IInv'
<1> SUFFICES ASSUME IInv, boost_return PROVE IInv'
  OBVIOUS
<1>1. /\ wait = "woken" /\ wait' = "none"
      /\ wait_call' = [fn |-> "set_normal_priority", left |-> BoostTime]
      /\ UNCHANGED <<pc, prio, cpu, px4_ran_overtime, overtime_call, delay_call, need, sem>>
  BY DEF boost_return
<1>2. BoostTime \in Int /\ BoostTime >= Off
  BY Levels4, MainPriorityAssumption, SMTT(60)
<1>3. /\ wait_call' \in [fn : {"none", "sem_post_boost", "set_normal_priority"}, left : Int]
      /\ wait_call'.left = BoostTime /\ wait_call'.fn = "set_normal_priority"
  BY <1>1, <1>2
<1>4. TypeOK'
  BY <1>1, <1>2, <1>3 DEF IInv, TypeOK
<1>5. WaitInv'
  BY <1>1, <1>3 DEF IInv, WaitInv
<1>6. SemInv'
  BY <1>1 DEF IInv, SemInv
<1>7. QED
  BY <1>4, <1>5, <1>6 DEF IInv

LEMMA TakeIInv == IInv /\ take => IInv'
<1> SUFFICES ASSUME IInv, take PROVE IInv'
  BY SMTT(60)
<1>1. /\ sem' = rt_mutex_take(sem, "main", Prios) /\ ~Held
      /\ UNCHANGED <<pc, wait, px4_ran_overtime, overtime_call, wait_call, delay_call, need, prio, cpu>>
  BY DEF take, Running, Rest
<1>2. sem = rt_mutex_init
  BY <1>1 DEF IInv, SemInv, Held
<1>3. prio \in Levels /\ Prios["main"] = prio
  BY DEF IInv, TypeOK, Levels, Prios
<1>4. sem' = [value |-> 0, owner |-> "main", hold |-> 1, original_priority |-> prio,
              suspend_thread |-> <<>>]
  BY <1>1, <1>2, <1>3, TakeSem
<1>5. SemInv'
  BY <1>3, <1>4 DEF SemInv
<1>6. TypeOK' /\ WaitInv'
  BY <1>1, SMTT(60) DEF IInv, TypeOK, WaitInv
<1>7. QED
  BY <1>5, <1>6 DEF IInv

LEMMA GiveIInv == IInv /\ give => IInv'
<1> SUFFICES ASSUME IInv, give PROVE IInv'
  BY SMTT(60)
<1>1. /\ Held /\ sem' = rt_mutex_init /\ prio' = release_prio(sem, Prios)["main"]
      /\ cpu' = IF sem.suspend_thread = <<>> THEN cpu ELSE Schedule(wait, prio', need)
      /\ UNCHANGED <<pc, wait, px4_ran_overtime, overtime_call, wait_call, delay_call, need>>
  BY DEF give, Rest
<1>2. sem.hold = 1 /\ sem.original_priority \in Levels
  BY <1>1, FreeSem DEF IInv, SemInv, Held
<1>3. prio' \in Levels
  BY <1>1, <1>2, GivePrio
<1>4. cpu' \in {"main", "driver", "idle"}
  BY <1>1, ScheduleType DEF IInv, TypeOK
<1>5. TypeOK'
  BY <1>1, <1>3, <1>4 DEF IInv, TypeOK, Levels
<1>6. SemInv' /\ WaitInv'
  BY <1>1 DEF IInv, SemInv, WaitInv
<1>7. QED
  BY <1>5, <1>6 DEF IInv

LEMMA SpiWaitIInv == IInv /\ spi_wait => IInv'
<1> SUFFICES ASSUME IInv, spi_wait PROVE IInv'
  BY SMTT(60)
<1>1. /\ Held /\ sem' = rt_mutex_take(sem, "spi", Prios)
      /\ prio' = take_prio(sem, "spi", Prios)["main"]
      /\ cpu' = Schedule(wait, prio', need) /\ SemInv
      /\ UNCHANGED <<pc, wait, px4_ran_overtime, overtime_call, wait_call, delay_call, need>>
  BY DEF spi_wait, Rest, IInv
<1>2. prio' \in Levels
  BY <1>1, SpiPrios, Levels4, SMTT(60) DEF IInv, TypeOK
<1>3. cpu' \in {"main", "driver", "idle"}
  BY <1>1, ScheduleType
<1>4. TypeOK'
  BY <1>1, <1>2, <1>3 DEF IInv, TypeOK, Levels
<1>5. SemInv'
  <2>1. /\ sem'.value = 0 /\ sem'.owner = "main" /\ sem'.hold = 1
        /\ sem'.original_priority = sem.original_priority /\ sem.original_priority \in Levels
        /\ \E q : sem' = [value |-> 0, owner |-> "main", hold |-> 1,
                         original_priority |-> sem.original_priority, suspend_thread |-> q]
    BY <1>1, SpiSem
  <2>2. QED
    BY <2>1 DEF SemInv
<1>6. WaitInv'
  BY <1>1 DEF IInv, WaitInv
<1>7. QED
  BY <1>4, <1>5, <1>6 DEF IInv

\* sem_post_boost and delay_post wake a thread that waits for them.
LEMMA InterruptIInv == IInv /\ Interrupt => IInv'
<1> SUFFICES ASSUME IInv, Interrupt PROVE IInv'
  BY SMTT(60)
<1>1. CASE loop_overtime
  <2>1. /\ prio' = OvertimePrio /\ overtime_call' = Off /\ px4_ran_overtime' = TRUE
        /\ UNCHANGED <<pc, wait, cpu, wait_call, delay_call, need, sem>>
    BY <1>1 DEF loop_overtime
  <2>2. OvertimePrio \in Levels /\ Off \in Off .. Overtime
    BY Levels4, MainPriorityAssumption, SMTT(60)
  <2>3. /\ pc \in {"start", "setup", "arm", "loop", "restore", "clear", "gap"}
        /\ cpu \in {"main", "driver", "idle"} /\ need \in BOOLEAN
    BY DEF IInv, TypeOK
  <2>4. QED
    BY <2>1, <2>2, <2>3, QuietIInv
<1>2. ASSUME wait_call' = NoCall, wait_call.fn # "none",
             UNCHANGED <<pc, px4_ran_overtime, overtime_call, delay_call, need, sem>>,
             \/ wait_call.fn = "sem_post_boost" /\ wait' = "woken" /\ prio' = Boost
             \/ wait_call.fn = "set_normal_priority" /\ wait' = wait /\ prio' = Main,
             cpu' \in {"main", "driver", "idle"}
      PROVE  IInv'
  <2>1. /\ wait_call' \in [fn : {"none", "sem_post_boost", "set_normal_priority"}, left : Int]
        /\ wait_call'.left = Off /\ wait_call'.fn = "none"
    BY <1>2, Levels4, SMTT(60) DEF NoCall
  <2>2. Off >= Off
    BY Levels4, SMTT(60)
  <2>3. prio' \in Levels
    BY <1>2, Levels4
  <2>4. TypeOK'
    BY <1>2, <2>1, <2>2, <2>3 DEF IInv, TypeOK, Levels
  <2>5. WaitInv'
    BY <1>2, <2>1 DEF IInv, WaitInv, TypeOK
  <2>6. SemInv'
    BY <1>2 DEF IInv, SemInv
  <2>7. QED
    BY <2>4, <2>5, <2>6, SMTT(60) DEF IInv
<1>3. CASE sem_post_boost
  <2>1. wait_call.fn = "sem_post_boost"
    BY <1>3 DEF sem_post_boost
  <2>2. QED
    BY <1>2, <1>3, <2>1, ScheduleType DEF sem_post_boost
<1>4. CASE set_normal_priority
  <2>1. wait_call.fn = "set_normal_priority" /\ cpu' \in {"main", "driver", "idle"}
    BY <1>4 DEF set_normal_priority, IInv, TypeOK
  <2>2. QED
    BY <1>2, <1>4, <2>1 DEF set_normal_priority
<1>5. CASE delay_post
  <2>1. /\ delay_call = 0 /\ delay_call' = Off /\ wait' = "none"
        /\ cpu' \in {"main", "driver", "idle"}
        /\ UNCHANGED <<pc, prio, px4_ran_overtime, overtime_call, wait_call, need, sem>>
    BY <1>5, ScheduleType DEF delay_post
  <2>2. Off \in Int /\ Off >= Off /\ delay_call # Off
    BY <2>1, Levels4, SMTT(60)
  <2>3. TypeOK'
    BY <2>1, <2>2 DEF IInv, TypeOK
  <2>4. WaitInv'
    BY <2>1, <2>2 DEF IInv, WaitInv
  <2>5. SemInv'
    BY <2>1 DEF IInv, SemInv
  <2>6. QED
    BY <2>3, <2>4, <2>5, SMTT(60) DEF IInv
<1>6. QED
  BY <1>1, <1>3, <1>4, <1>5 DEF Interrupt

LEMMA TickIInv == IInv /\ Tick => IInv'
<1> SUFFICES ASSUME IInv, Tick PROVE IInv'
  BY SMTT(60)
<1>1. /\ overtime_call # 0 /\ wait_call.left # 0 /\ delay_call # 0
      /\ overtime_call' = Down(overtime_call)
      /\ wait_call' = [wait_call EXCEPT !.left = Down(wait_call.left)]
      /\ delay_call' = Down(delay_call)
      /\ UNCHANGED <<pc, wait, prio, cpu, px4_ran_overtime, need, sem>>
  BY DEF Tick
<1>2. /\ overtime_call \in Off .. Overtime /\ delay_call \in Int /\ delay_call >= Off
      /\ wait_call \in [fn : {"none", "sem_post_boost", "set_normal_priority"}, left : Int]
      /\ wait_call.left >= Off /\ wait_call.left \in Int /\ Overtime \in Nat
  BY MainPriorityAssumption DEF IInv, TypeOK
<1>3. ASSUME NEW n \in Int, n >= Off, n # 0
      PROVE  Down(n) \in Int /\ Down(n) >= Off /\ Down(n) <= n /\ (Down(n) = Off <=> n = Off)
  BY <1>3, Levels4, SMTT(60) DEF Down
<1>4. overtime_call' \in Off .. Overtime
  BY <1>1, <1>2, <1>3, Levels4, SMTT(60)
<1>5. /\ delay_call' \in Int /\ delay_call' >= Off
      /\ delay_call' = Off <=> delay_call = Off
  BY <1>1, <1>2, <1>3
<1>6. Down(wait_call.left) \in Int /\ Down(wait_call.left) >= Off
  BY <1>1, <1>2, <1>3
<1>7. /\ wait_call' \in [fn : {"none", "sem_post_boost", "set_normal_priority"}, left : Int]
      /\ wait_call'.left = Down(wait_call.left) /\ wait_call'.fn = wait_call.fn
  BY <1>1, <1>2, <1>6
<1>8. TypeOK'
  BY <1>1, <1>4, <1>5, <1>6, <1>7, SMTT(60) DEF IInv, TypeOK
<1>9. WaitInv'
  BY <1>1, <1>5, <1>7 DEF IInv, WaitInv
<1>10. SemInv'
  BY <1>1 DEF IInv, SemInv
<1>11. QED
  BY <1>8, <1>9, <1>10, SMTT(60) DEF IInv

LEMMA InitIInv == Init => IInv
<1> SUFFICES ASSUME Init PROVE IInv
  OBVIOUS
<1>1. TypeOK
  <2>1. /\ wait_call \in [fn : {"none", "sem_post_boost", "set_normal_priority"}, left : Int]
        /\ wait_call.left >= Off /\ delay_call \in Int /\ delay_call >= Off
        /\ overtime_call \in Off .. Overtime
    BY Levels4, MainPriorityAssumption, SMTT(60) DEF Init, NoCall
  <2>2. QED
    BY <2>1 DEF Init, TypeOK
<1>2. SemInv /\ WaitInv
  BY DEF Init, SemInv, WaitInv, NoCall
<1>3. QED
  BY <1>1, <1>2 DEF IInv

LEMMA NextIInv == IInv /\ [Next]_vars => IInv'
<1> SUFFICES ASSUME IInv, [Next]_vars PROVE IInv'
  OBVIOUS
<1>1. /\ pc \in {"start", "setup", "arm", "loop", "restore", "clear", "gap"}
      /\ prio \in Levels /\ cpu \in {"main", "driver", "idle"} /\ px4_ran_overtime \in BOOLEAN
      /\ overtime_call \in Off .. Overtime /\ need \in BOOLEAN
  BY DEF IInv, TypeOK, Levels
<1>2. CASE start \/ end_setup \/ arm \/ end_loop \/ restore \/ clear \/ spin
  BY <1>2, MoveIInv
<1>3. CASE gap
  BY <1>3, BlockIInv, MainPriorityAssumption DEF gap
<1>4. ASSUME NEW d \in Delays, delay_microseconds(d) PROVE IInv'
  <2>1. d \in Nat \ {0} /\ pc' = pc /\ Running /\ Block(d)
    BY <1>4, MainPriorityAssumption DEF delay_microseconds
  <2>2. QED
    BY <1>1, <2>1, BlockIInv
<1>5. ASSUME NEW d \in Delays, delay_microseconds_boost(d) PROVE IInv'
  BY <1>5, BoostIInv, MainPriorityAssumption
<1>6. CASE boost_return \/ take \/ give \/ spi_wait
  BY <1>6, ReturnIInv, TakeIInv, GiveIInv, SpiWaitIInv
<1>7. CASE driver
  <2>1. /\ UNCHANGED <<pc, wait, prio, px4_ran_overtime, overtime_call, wait_call, delay_call, sem>>
        /\ need' = FALSE /\ cpu' \in {"main", "driver", "idle"}
    BY <1>7, ScheduleType DEF driver
  <2>2. QED
    BY <1>1, <2>1, QuietIInv
<1>8. CASE rt_schedule
  <2>1. /\ UNCHANGED <<pc, wait, prio, px4_ran_overtime, overtime_call, wait_call, delay_call, need, sem>>
        /\ cpu' \in {"main", "driver", "idle"}
    BY <1>8, ScheduleType DEF rt_schedule
  <2>2. QED
    BY <1>1, <2>1, QuietIInv
<1>9. CASE Interrupt \/ Tick
  BY <1>9, InterruptIInv, TickIInv
<1>10. CASE UNCHANGED vars
  BY <1>1, <1>10, QuietIInv DEF vars
<1>11. QED
  BY <1>2, <1>3, <1>4, <1>5, <1>6, <1>7, <1>8, <1>9, <1>10 DEF Next, MainStep

-----------------------------------------------------------------------------
(* The theorems *)

\* The records of the two delays and the driver's _sem stay as the main thread's
\* program counter says, whatever the interrupts do in between.
THEOREM Invariance == Spec => []IInv
<1>1. QED
  BY InitIInv, NextIInv, PTL DEF Spec

\* The priority of the main thread is one of four at all times, although a
\* mutex gives back whatever it was taken with.
THEOREM TypeCorrect == Spec => []TypeOK
<1>1. IInv => TypeOK
  BY DEF IInv
<1>2. QED
  BY <1>1, Invariance, PTL

\* A main thread blocked in delay_microseconds or delay_microseconds_boost has
\* the call armed that wakes it, for all delays.
THEOREM WakerStaysArmed == Spec => []WakerArmed
<1>1. IInv => WakerArmed
  BY DEF IInv, WaitInv, WakerArmed
<1>2. QED
  BY <1>1, Invariance, PTL

LEMMA BoostStep ==
    ASSUME IInv, Next, Overboosted'
    PROVE  Overboosted \/ (give /\ sem.original_priority = Boost)
<1>1. prio' = Boost /\ wait_call'.fn = "none" /\ wait' # "woken"
  BY DEF Overboosted
<1>2. ASSUME UNCHANGED <<prio, wait, wait_call>> PROVE Overboosted
  BY <1>1, <1>2 DEF Overboosted
<1>3. CASE start \/ end_setup \/ restore
  BY <1>1, <1>3, Levels4, SMTT(60) DEF start, end_setup, restore
<1>4. CASE arm \/ end_loop \/ clear \/ spin
  BY <1>2, <1>4 DEF arm, end_loop, clear, spin
<1>5. ASSUME NEW d, Running, Block(d) PROVE Overboosted
  BY <1>1, <1>5 DEF Block, Running, Overboosted
<1>6. CASE boost_return
  <2>1. wait_call' = [fn |-> "set_normal_priority", left |-> BoostTime]
    BY <1>6 DEF boost_return
  <2>2. QED
    BY <1>1, <2>1
<1>7. ASSUME NEW d, delay_microseconds_boost(d) PROVE FALSE
  <2>1. wait_call' = [fn |-> "sem_post_boost", left |-> d]
    BY <1>7 DEF delay_microseconds_boost
  <2>2. QED
    BY <1>1, <2>1
<1>8. CASE take \/ driver \/ rt_schedule
  BY <1>2, <1>8 DEF take, driver, rt_schedule, Rest
<1>9. CASE give
  <2>1. Held /\ prio' = release_prio(sem, Prios)["main"] /\ UNCHANGED <<wait, wait_call>>
    BY <1>9 DEF give, Rest
  <2>2. sem.hold = 1
    BY <2>1, FreeSem DEF IInv, SemInv, Held
  <2>3. QED
    BY <1>1, <1>9, <2>1, <2>2, GivePrio
<1>10. CASE spi_wait
  <2>1. Held /\ prio' = take_prio(sem, "spi", Prios)["main"] /\ UNCHANGED <<wait, wait_call>>
    BY <1>10 DEF spi_wait, Rest
  <2>2. prio' \in {SpiPrio, prio}
    BY <2>1, SpiPrios
  <2>3. prio' = prio
    BY <1>1, <2>2, Levels4, SMTT(60)
  <2>4. QED
    BY <1>2, <2>1, <2>3
<1>11. CASE loop_overtime \/ set_normal_priority \/ sem_post_boost
  BY <1>1, <1>11, Levels4, SMTT(60) DEF loop_overtime, set_normal_priority, sem_post_boost
<1>12. CASE delay_post
  <2>1. wait = "sem" /\ UNCHANGED <<prio, wait_call>>
    BY <1>12, Levels4, SMTT(60) DEF delay_post, IInv, WaitInv
  <2>2. QED
    BY <1>1, <2>1 DEF Overboosted
<1>13. CASE Tick
  <2>1. /\ UNCHANGED <<prio, wait>> /\ wait_call' = [wait_call EXCEPT !.left = Down(wait_call.left)]
    BY <1>13 DEF Tick
  <2>2. wait_call \in [fn : {"none", "sem_post_boost", "set_normal_priority"}, left : Int]
    BY DEF IInv, TypeOK
  <2>3. wait_call'.fn = wait_call.fn
    BY <2>1, <2>2
  <2>4. QED
    BY <1>1, <2>1, <2>3 DEF Overboosted
<1>14. QED
  BY <1>3, <1>4, <1>5, <1>6, <1>7, <1>8, <1>9, <1>10, <1>11, <1>12, <1>13
     DEF Next, MainStep, Interrupt, gap, delay_microseconds

\* The boost of delay_microseconds_boost outlives its set_normal_priority only
\* where a mutex taken during the boost is given after it.
THEOREM BoostEndsUnlessGiven == Spec => BoostEnds
<1>1. IInv /\ [Next]_vars
        => [Overboosted' => Overboosted \/ (give /\ sem.original_priority = Boost)]_vars
  BY BoostStep
<1>2. QED
  BY <1>1, Invariance, PTL DEF Spec, BoostEnds
=============================================================================
