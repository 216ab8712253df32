-------------------------- MODULE PX4SchedulerProofs --------------------------
(***************************************************************************)
(* Proofs about PX4Scheduler, for every set of timer processes, every      *)
(* width of the counters and every interleaving of the two threads.        *)
(***************************************************************************)
EXTENDS PX4Scheduler, TLAPS

\* A leaf that names no prover is Zenon's.
USE ZenonT(30)

-----------------------------------------------------------------------------
(* The inductive invariant *)

\* Between the two stores of register_timer_process the slot is filled, and with
\* a process that has no other.
SlotInv ==
    main = "count" =>
        /\ _num_timer_procs < MaxProcs
        /\ _timer_proc[_num_timer_procs + 1] \in Procs
        /\ \A i \in 1 .. _num_timer_procs :
               _timer_proc[i] # _timer_proc[_num_timer_procs + 1]

\* What is between setting _in_timer_proc and failsafe_check.
BeforeCheck == {"suspended", "procs", "miss", "failsafe", "check"}

\* _in_timer_proc is set only by a thread that is in _run_timers.
FlagInv == _in_timer_proc => \E t \in Threads : run[t].pc \in BeforeCheck \cup {"leave"}

\* Rounds of loop() that failsafe_check will not have seen at the end of this
\* unit of time, if it does not run in it any more.
Unseen == loops + IF looped THEN 0 ELSE 1

\* A check in every unit of time, so that mainLoop_count does not come round to
\* failsafe_last_mainLoop_count: where the timer thread turned back at
\* _in_timer_proc, the main thread that had set it checks.
CountInv ==
    /\ Unseen =< 2
    /\ Unseen = 2 =>
         /\ \A t \in Threads : run[t].pc # "leave"
         /\ ticked => run["main"].pc \in BeforeCheck

\* The failsafe's time is not more than the time the loop has stalled, once
\* failsafe_enable is through.
StallInv ==
    failsafe_enabled /\ loops = 0 /\ main # "stamp" => stall > Trouble \/ elapsed =< stall

IInv ==
    /\ TypeOK /\ SlotInv /\ FlagInv /\ CountInv /\ StallInv
    /\ SuspendHolds

-----------------------------------------------------------------------------
LEMMA InitIInv == Init => IInv
<1> SUFFICES ASSUME Init PROVE IInv
  OBVIOUS
<1> USE SchedulerAssumption DEF Init
<1>1. TypeOK
  <2>1. Outside \in RunType /\ Outside.pc = "out"
    BY SMTT(60) DEF Outside, RunType
  <2>2. run \in [Threads -> RunType] /\ run["main"] = Outside
    BY <2>1 DEF Threads
  <2>3. /\ _num_timer_procs \in 0 .. MaxProcs
        /\ _timer_proc \in [1 .. MaxProcs -> Procs \cup {NoProc}]
        /\ 1 .. _num_timer_procs = {}
    BY SMTT(60)
  <2>4. {_timer_suspended, _timer_event_missed, _in_timer_proc, failsafe_enabled,
         in_failsafe, armed, ticked, looped, locked, inProcs} \subseteq BOOLEAN
    OBVIOUS
  <2>5. QED
    BY <2>2, <2>3, <2>4, SMTT(60) DEF TypeOK
<1>2. SlotInv /\ FlagInv /\ StallInv /\ SuspendHolds
  BY DEF SlotInv, FlagInv, StallInv, SuspendHolds
<1>3. CountInv
  BY SMTT(60) DEF CountInv, Unseen
<1>4. QED
  BY <1>1, <1>2, <1>3 DEF IInv

\* A thread that is in _run_timers; the main thread is so in resume_timer_procs.
LEMMA InRunTimers ==
    ASSUME TypeOK, NEW t \in Threads, run[t].pc # "out"
    PROVE  t = "main" => main = "missed"
BY SMTT(60) DEF TypeOK, Outside

\* A step of _run_timers changes its own record and, of the rest, what the step
\* says: the parts of the invariant that are about the other variables stay.
LEMMA RunTypes ==
    ASSUME IInv, NEW t \in Threads, run[t].pc # "out", NEW r \in RunType,
           run' = [run EXCEPT ![t] = r],
           UNCHANGED <<_timer_proc, _num_timer_procs, _timer_suspended, main,
                       failsafe_enabled, world, susp>>,
           _timer_event_missed' \in BOOLEAN, _in_timer_proc' \in BOOLEAN,
           in_failsafe' \in BOOLEAN, armed' \in BOOLEAN, ticked' \in BOOLEAN,
           elapsed' \in 0 .. TimeWrap - 1, loops' \in 0 .. CountWrap - 1
    PROVE  TypeOK' /\ SlotInv'
<1>1. TypeOK
  BY DEF IInv
<1>2. run' \in [Threads -> RunType]
  BY <1>1 DEF TypeOK
<1>3. (run["main"] # Outside => main = "missed")'
  BY <1>1, InRunTimers DEF TypeOK, Threads
<1>4. TypeOK'
  BY <1>1, <1>2, <1>3 DEF TypeOK, world, susp
<1>5. SlotInv'
  BY DEF IInv, SlotInv
<1>6. QED
  BY <1>4, <1>5

LEMMA RunStepIInv ==
    ASSUME IInv, NEW t \in Threads, RunStep(t)
    PROVE  IInv'
<1> USE SchedulerAssumption DEF IInv, sched, fs, world, vs_last, susp
<1>0. /\ run \in [Threads -> RunType] /\ run[t] \in RunType
      /\ Outside \in RunType /\ Outside.pc = "out" /\ "main" \in Threads
  <2>1. run \in [Threads -> RunType]
    BY DEF TypeOK
  <2>2. Outside \in RunType /\ Outside.pc = "out"
    BY SMTT(60) DEF RunType, Outside
  <2>3. QED
    BY <2>1, <2>2 DEF Threads
<1>a. /\ run[t].pc \in {"out", "test", "enter", "suspended", "procs", "miss", "failsafe",
                         "check", "leave"}
      /\ run[t].i \in 0 .. MaxProcs + 1 /\ run[t].late \in BOOLEAN
  BY <1>0 DEF RunType
<1>b. /\ _timer_suspended \in BOOLEAN /\ _timer_event_missed \in BOOLEAN
      /\ _in_timer_proc \in BOOLEAN /\ failsafe_enabled \in BOOLEAN /\ in_failsafe \in BOOLEAN
      /\ armed \in BOOLEAN /\ ticked \in BOOLEAN /\ looped \in BOOLEAN
      /\ elapsed \in 0 .. TimeWrap - 1 /\ loops \in 0 .. CountWrap - 1
      /\ stall \in 0 .. Trouble + 1
  BY DEF TypeOK
<1>1. CASE run_test(t) /\ _in_timer_proc
  <2>1. /\ run[t].pc = "test" /\ run' = [run EXCEPT ![t] = Outside]
        /\ ticked' = (ticked \/ t = "timer")
        /\ UNCHANGED <<sched, _in_timer_proc, main, fs, vs_last, world, susp>>
    BY <1>1 DEF run_test, Return
  <2>2. TypeOK' /\ SlotInv'
    BY <1>0, <1>b, <2>1, RunTypes
  <2>3. PICK u \in Threads : run[u].pc \in BeforeCheck \cup {"leave"}
    BY <1>1 DEF FlagInv
  <2>4. u # t /\ run'[u] = run[u]
    BY <1>0, <2>1, <2>3 DEF BeforeCheck
  <2>5. FlagInv'
    BY <2>3, <2>4 DEF FlagInv
  <2>6. CountInv'
    <3>1. \A w \in Threads : run'[w].pc # "leave" \/ run'[w] = run[w]
      BY <1>0, <2>1
    <3>2. Unseen = 2 /\ t = "timer" => u = "main" /\ run[u].pc \in BeforeCheck
      BY <2>3, <2>4 DEF CountInv, Threads
    <3>3. t = "main" => run["main"].pc \notin BeforeCheck
      BY <2>1 DEF BeforeCheck
    <3>4. QED
      BY <1>0, <1>b, <2>1, <2>4, <3>1, <3>2, <3>3 DEF CountInv, Unseen, Threads
  <2>7. StallInv' /\ SuspendHolds'
    BY <1>0, <2>1 DEF StallInv, SuspendHolds, Threads
  <2>8. QED
    BY <2>2, <2>5, <2>6, <2>7
<1>2. CASE run_test(t) /\ ~_in_timer_proc
  <2> DEFINE r == [run[t] EXCEPT !.pc = "enter"]
  <2>1. /\ run[t].pc = "test" /\ run' = [run EXCEPT ![t] = r]
        /\ UNCHANGED <<sched, _in_timer_proc, main, fs, vs_last, world, ticked, susp>>
    BY <1>0, <1>2 DEF run_test, Goto
  <2>2. r \in RunType /\ r.pc = "enter"
    BY <1>0 DEF RunType
  <2>3. TypeOK' /\ SlotInv'
    BY <1>b, <2>1, <2>2, RunTypes
  <2> HIDE DEF r
  <2>4. FlagInv' /\ StallInv' /\ SuspendHolds'
    BY <1>0, <1>2, <2>1, <2>2 DEF FlagInv, StallInv, SuspendHolds, Threads
  <2>5. CountInv'
    BY <1>0, <2>1, <2>2 DEF CountInv, Unseen, BeforeCheck, Threads
  <2>6. QED
    BY <2>3, <2>4, <2>5
<1>3. CASE run_enter(t)
  <2> DEFINE r == [run[t] EXCEPT !.pc = "suspended"]
  <2>1. /\ run[t].pc = "enter" /\ run' = [run EXCEPT ![t] = r] /\ _in_timer_proc' = TRUE
        /\ UNCHANGED <<sched, main, fs, vs_last, world, ticked, susp>>
    BY <1>0, <1>3 DEF run_enter, Goto
  <2>2. r \in RunType /\ r.pc = "suspended"
    BY <1>0 DEF RunType
  <2>3. TypeOK' /\ SlotInv'
    BY <1>b, <2>1, <2>2, RunTypes
  <2> HIDE DEF r
  <2>4. FlagInv' /\ StallInv' /\ SuspendHolds'
    BY <1>0, <2>1, <2>2 DEF FlagInv, StallInv, SuspendHolds, Threads, BeforeCheck
  <2>5. CountInv'
    BY <1>0, <2>1, <2>2 DEF CountInv, Unseen, BeforeCheck, Threads
  <2>6. QED
    BY <2>3, <2>4, <2>5, SMTT(60)
<1>4. CASE run_suspended(t)
  <2> DEFINE p == IF ~_timer_suspended THEN "procs" ELSE IF t = "timer" THEN "miss" ELSE "failsafe"
             r == [run[t] EXCEPT !.pc = p, !.i = 1]
  <2>1. /\ run[t].pc = "suspended" /\ run' = [run EXCEPT ![t] = r]
        /\ UNCHANGED <<sched, _in_timer_proc, main, fs, vs_last, world, ticked, susp>>
    BY <1>0, <1>4 DEF run_suspended
  <2>p. p \in {"procs", "miss", "failsafe"} /\ (p = "procs" => ~_timer_suspended)
    BY <1>b
  <2> HIDE DEF p
  <2>2. r \in RunType /\ r.pc \in BeforeCheck /\ (r.pc = "procs" => ~_timer_suspended)
    <3>1. 1 \in 0 .. MaxProcs + 1
      BY SMTT(60)
    <3>2. r \in RunType /\ r.pc = p
      BY <1>0, <2>p, <3>1 DEF RunType
    <3>3. QED
      BY <2>p, <3>2 DEF BeforeCheck
  <2>3. TypeOK' /\ SlotInv'
    BY <1>b, <2>1, <2>2, RunTypes
  <2> HIDE DEF r
  <2>4. FlagInv' /\ StallInv' /\ SuspendHolds'
    BY <1>0, <2>1, <2>2 DEF FlagInv, StallInv, SuspendHolds, Threads
  <2>5. CountInv'
    BY <1>0, <2>1, <2>2 DEF CountInv, Unseen, BeforeCheck, Threads
  <2>6. QED
    BY <2>3, <2>4, <2>5, SMTT(60)
<1>5. CASE run_procs(t)
  <2> DEFINE r == IF run[t].i <= _num_timer_procs THEN [run[t] EXCEPT !.i = run[t].i + 1]
                  ELSE [Outside EXCEPT !.pc = "failsafe"]
  <2>1. /\ run[t].pc = "procs" /\ run' = [run EXCEPT ![t] = r]
        /\ UNCHANGED <<sched, _in_timer_proc, main, fs, vs_last, world, ticked, susp>>
    <3>1. CASE run[t].i <= _num_timer_procs
      BY <1>5, <3>1 DEF run_procs
    <3>2. CASE ~(run[t].i <= _num_timer_procs)
      BY <1>5, <3>2 DEF run_procs
    <3>3. QED
      BY <3>1, <3>2
  <2>2. r \in RunType /\ r.pc \in {"procs", "failsafe"}
    <3>1. CASE run[t].i <= _num_timer_procs
      <4>1. run[t].i + 1 \in 0 .. MaxProcs + 1
        BY <1>a, <3>1, SMTT(60) DEF TypeOK
      <4>2. r = [run[t] EXCEPT !.i = run[t].i + 1]
        BY <3>1
      <4>3. QED
        BY <1>0, <2>1, <4>1, <4>2 DEF RunType
    <3>2. CASE ~(run[t].i <= _num_timer_procs)
      <4>1. r = [Outside EXCEPT !.pc = "failsafe"]
        BY <3>2
      <4>2. QED
        BY <1>0, <4>1 DEF RunType, Outside
    <3>3. QED
      BY <3>1, <3>2
  <2>3. TypeOK' /\ SlotInv'
    BY <1>b, <2>1, <2>2, RunTypes
  <2> HIDE DEF r
  <2>4. FlagInv' /\ StallInv' /\ SuspendHolds'
    BY <1>0, <2>1, <2>2 DEF FlagInv, StallInv, SuspendHolds, Threads, BeforeCheck
  <2>5. CountInv'
    BY <1>0, <2>1, <2>2 DEF CountInv, Unseen, BeforeCheck, Threads
  <2>6. QED
    BY <2>3, <2>4, <2>5, SMTT(60)
<1>6. CASE run_miss(t) \/ failsafe_time(t)
  <2> DEFINE r == IF run[t].pc = "miss" THEN [Outside EXCEPT !.pc = "failsafe"]
                  ELSE [run[t] EXCEPT !.pc = "check"]
  <2>1. /\ run[t].pc \in {"miss", "failsafe"} /\ run' = [run EXCEPT ![t] = r]
        /\ _timer_event_missed' \in BOOLEAN
        /\ UNCHANGED <<_timer_proc, _num_timer_procs, _timer_suspended, _in_timer_proc,
                       main, fs, vs_last, world, ticked, susp>>
    BY <1>0, <1>6, <1>b DEF run_miss, failsafe_time, Goto
  <2>2. r \in RunType /\ r.pc \in {"failsafe", "check"}
    BY <1>0 DEF RunType, Outside
  <2>3. TypeOK' /\ SlotInv'
    BY <1>b, <2>1, <2>2, RunTypes
  <2> HIDE DEF r
  <2>4. FlagInv' /\ StallInv' /\ SuspendHolds'
    BY <1>0, <2>1, <2>2 DEF FlagInv, StallInv, SuspendHolds, Threads, BeforeCheck
  <2>5. CountInv'
    BY <1>0, <2>1, <2>2 DEF CountInv, Unseen, BeforeCheck, Threads
  <2>6. QED
    BY <2>3, <2>4, <2>5, SMTT(60)
<1>7. CASE failsafe_check(t)
  <2> DEFINE r == [run[t] EXCEPT !.pc = "leave"]
  <2>1. /\ run[t].pc = "check" /\ run' = [run EXCEPT ![t] = r]
        /\ UNCHANGED <<sched, _in_timer_proc, main, failsafe_enabled, world, ticked, susp>>
    BY <1>0, <1>7 DEF failsafe_check, Goto
  <2>2. r \in RunType /\ r.pc = "leave"
    BY <1>0 DEF RunType
  <2>3. loops' = 0 /\ (elapsed' = 0 \/ (loops = 0 /\ elapsed' = elapsed))
    BY <1>7 DEF failsafe_check
  <2>4. in_failsafe' \in BOOLEAN /\ armed' \in BOOLEAN
    BY <1>7, <1>b DEF failsafe_check
  <2>5. TypeOK' /\ SlotInv'
    <3>1. elapsed' \in 0 .. TimeWrap - 1 /\ loops' \in 0 .. CountWrap - 1
      BY <1>b, <2>3, SMTT(60)
    <3>2. QED
      BY <1>b, <2>1, <2>2, <2>4, <3>1, RunTypes
  <2> HIDE DEF r
  <2>6. FlagInv' /\ SuspendHolds'
    BY <1>0, <2>1, <2>2 DEF FlagInv, SuspendHolds, Threads
  <2>7. CountInv'
    BY <1>b, <2>1, <2>3, SMTT(60) DEF CountInv, Unseen
  <2>8. StallInv'
    BY <1>b, <2>1, <2>3, SMTT(60) DEF StallInv
  <2>9. QED
    BY <2>5, <2>6, <2>7, <2>8
<1>8. CASE run_leave(t)
  <2>1. /\ run[t].pc = "leave" /\ run' = [run EXCEPT ![t] = Outside]
        /\ _in_timer_proc' = FALSE /\ ticked' = (ticked \/ t = "timer")
        /\ UNCHANGED <<sched, main, fs, vs_last, world, susp>>
    BY <1>8 DEF run_leave, Return
  <2>2. TypeOK' /\ SlotInv'
    BY <1>0, <1>b, <2>1, RunTypes
  <2>3. FlagInv' /\ StallInv' /\ SuspendHolds'
    BY <1>0, <2>1 DEF FlagInv, StallInv, SuspendHolds, Threads
  <2>4. Unseen # 2 /\ Unseen' = Unseen
    BY <2>1 DEF CountInv, Unseen
  <2>5. CountInv'
    BY <2>4 DEF CountInv
  <2>6. QED
    BY <2>2, <2>3, <2>5, SMTT(60)
<1>9. QED
  BY <1>1, <1>2, <1>3, <1>4, <1>5, <1>6, <1>7, <1>8 DEF RunStep

\* The timer thread wakes.
LEMMA WakeIInv == IInv /\ timer_wake => IInv'
<1> SUFFICES ASSUME IInv, timer_wake PROVE IInv'
  OBVIOUS
<1> USE SchedulerAssumption DEF IInv, sched, fs, world, vs_last, susp
<1> DEFINE r == [run["timer"] EXCEPT !.pc = "test"]
<1>1. run \in [Threads -> RunType] /\ "timer" \in Threads /\ "main" \in Threads
  BY DEF TypeOK, Threads
<1>2. /\ run["timer"].pc = "out" /\ run' = [run EXCEPT !["timer"] = r]
      /\ UNCHANGED <<sched, _in_timer_proc, main, fs, vs_last, world, ticked, susp>>
  BY <1>1, SMTT(60) DEF timer_wake, Goto, Outside
<1>3. r \in RunType /\ r.pc = "test"
  BY <1>1 DEF RunType
<1> HIDE DEF r
<1>4. run' \in [Threads -> RunType] /\ run'["main"] = run["main"] /\ run'["timer"] = r
  BY <1>1, <1>2, <1>3
<1>5. TypeOK' /\ SlotInv'
  BY <1>2, <1>4 DEF TypeOK, SlotInv
<1>6. FlagInv'
  BY <1>1, <1>2, <1>3, <1>4 DEF FlagInv, Threads, BeforeCheck
<1>7. CountInv' /\ StallInv' /\ SuspendHolds'
  BY <1>2, <1>3, <1>4 DEF CountInv, Unseen, StallInv, SuspendHolds, Threads
<1>8. QED
  BY <1>5, <1>6, <1>7

\* register_timer_process: the two stores.
LEMMA RegisterIInv ==
    ASSUME IInv, count_proc \/ \E p \in Procs : register_timer_process(p)
    PROVE  IInv'
<1> USE SchedulerAssumption DEF IInv, sched, fs, world, vs_last, susp
<1>1. CASE count_proc
  <2>1. /\ main = "count" /\ main' = "loop" /\ _num_timer_procs' = _num_timer_procs + 1
        /\ UNCHANGED <<_timer_proc, _timer_suspended, _timer_event_missed, _in_timer_proc,
                       run, fs, vs_last, world, ticked, susp>>
    BY <1>1 DEF count_proc
  <2>2. /\ _num_timer_procs \in 0 .. MaxProcs /\ _num_timer_procs < MaxProcs
        /\ run["main"] = Outside
    BY <2>1 DEF TypeOK, SlotInv
  <2>3. \A i \in 1 .. _num_timer_procs' : i \in 1 .. _num_timer_procs \/ i = _num_timer_procs + 1
    BY <2>1, <2>2, SMTT(60)
  <2>4. /\ \A i \in 1 .. _num_timer_procs' : _timer_proc[i] \in Procs
        /\ \A i, j \in 1 .. _num_timer_procs' : _timer_proc[i] = _timer_proc[j] => i = j
    BY <2>1, <2>2, <2>3 DEF TypeOK, SlotInv
  <2>5. TypeOK'
    BY <2>1, <2>2, <2>4, SMTT(60) DEF TypeOK
  <2>6. SlotInv' /\ FlagInv' /\ CountInv' /\ StallInv' /\ SuspendHolds'
    BY <2>1 DEF SlotInv, FlagInv, CountInv, Unseen, StallInv, SuspendHolds
  <2>7. QED
    BY <2>5, <2>6
<1>2. ASSUME NEW p \in Procs, register_timer_process(p) PROVE IInv'
  <2>1. /\ main \in {"loop", "tasks"} /\ main' = "count" /\ _num_timer_procs < MaxProcs
        /\ \A i \in 1 .. _num_timer_procs : _timer_proc[i] # p
        /\ _timer_proc' = [_timer_proc EXCEPT ![_num_timer_procs + 1] = p]
        /\ UNCHANGED <<_num_timer_procs, _timer_suspended, _timer_event_missed,
                       _in_timer_proc, run, fs, vs_last, world, ticked, susp>>
    BY <1>2 DEF register_timer_process, InLoop
  <2>2. /\ _num_timer_procs \in 0 .. MaxProcs /\ _num_timer_procs + 1 \in 1 .. MaxProcs
        /\ _timer_proc \in [1 .. MaxProcs -> Procs \cup {NoProc}] /\ run["main"] = Outside
    BY <2>1, SMTT(60) DEF TypeOK
  <2>3. /\ _timer_proc' \in [1 .. MaxProcs -> Procs \cup {NoProc}]
        /\ _timer_proc'[_num_timer_procs + 1] = p
        /\ \A i \in 1 .. _num_timer_procs : _timer_proc'[i] = _timer_proc[i]
    BY <2>1, <2>2, SMTT(60)
  <2>4. TypeOK'
    BY <2>1, <2>2, <2>3, SMTT(60) DEF TypeOK
  <2>5. SlotInv'
    BY <2>1, <2>3 DEF SlotInv
  <2>6. FlagInv' /\ CountInv' /\ StallInv' /\ SuspendHolds'
    BY <2>1 DEF FlagInv, CountInv, Unseen, StallInv, SuspendHolds
  <2>7. QED
    BY <2>4, <2>5, <2>6
<1>3. QED
  BY <1>1, <1>2

\* suspend_timer_procs and resume_timer_procs.
LEMMA SuspendIInv ==
    ASSUME IInv, suspend_timer_procs \/ resume_timer_procs \/ resume_test \/ resume_clear
    PROVE  IInv'
<1> USE SchedulerAssumption DEF IInv, sched, fs, world, vs_last, susp
<1>0. run \in [Threads -> RunType] /\ "timer" \in Threads /\ "main" \in Threads
  BY DEF TypeOK, Threads
<1>1. CASE suspend_timer_procs
  <2>1. /\ main \in {"loop", "tasks"} /\ main' = "set_pin"
        /\ suspends < MaxSuspends /\ suspends' = suspends + 1
        /\ inProcs' = (run["timer"].pc = "procs") /\ _timer_suspended' = TRUE
        /\ UNCHANGED <<_timer_proc, _num_timer_procs, _timer_event_missed, _in_timer_proc,
                       run, fs, vs_last, world, ticked>>
    BY <1>1 DEF suspend_timer_procs, InLoop
  <2>2. inProcs' \in BOOLEAN /\ suspends' \in 0 .. MaxSuspends /\ run["main"] = Outside
    BY <2>1, SMTT(60) DEF TypeOK
  <2>3. TypeOK'
    BY <2>1, <2>2 DEF TypeOK
  <2>4. SlotInv' /\ FlagInv' /\ CountInv' /\ StallInv'
    BY <2>1 DEF SlotInv, FlagInv, CountInv, Unseen, StallInv
  <2>5. SuspendHolds'
    BY <2>1 DEF SuspendHolds
  <2>6. QED
    BY <2>3, <2>4, <2>5
<1>2. CASE resume_timer_procs
  <2>1. /\ main = "set_pin" /\ main' = "resume" /\ inProcs' = FALSE /\ _timer_suspended' = FALSE
        /\ UNCHANGED <<_timer_proc, _num_timer_procs, _timer_event_missed, _in_timer_proc,
                       run, fs, vs_last, world, ticked, suspends>>
    BY <1>2 DEF resume_timer_procs
  <2>2. TypeOK'
    BY <2>1 DEF TypeOK
  <2>3. SlotInv' /\ FlagInv' /\ CountInv' /\ StallInv' /\ SuspendHolds'
    BY <2>1 DEF SlotInv, FlagInv, CountInv, Unseen, StallInv, SuspendHolds
  <2>4. QED
    BY <2>2, <2>3
<1>3. CASE resume_test /\ _timer_event_missed
  <2> DEFINE r == [run["main"] EXCEPT !.pc = "test"]
  <2>1. /\ main = "resume" /\ main' = "missed" /\ run' = [run EXCEPT !["main"] = r]
        /\ UNCHANGED <<sched, _in_timer_proc, fs, vs_last, world, ticked, susp>>
    BY <1>0, <1>3 DEF resume_test, Goto
  <2>2. r \in RunType /\ r.pc = "test" /\ run["main"].pc = "out"
    <3>1. run["main"] = Outside
      BY <2>1 DEF TypeOK
    <3>2. run["main"].pc = "out"
      BY <3>1, SMTT(60) DEF Outside
    <3>3. QED
      BY <1>0, <3>2 DEF RunType
  <2> HIDE DEF r
  <2>3. run' \in [Threads -> RunType] /\ run'["timer"] = run["timer"] /\ run'["main"] = r
    BY <1>0, <2>1, <2>2
  <2>4. TypeOK'
    BY <2>1, <2>3 DEF TypeOK
  <2>5. FlagInv'
    BY <2>1, <2>2, <2>3 DEF FlagInv, Threads, BeforeCheck
  <2>6. CountInv'
    BY <2>1, <2>2, <2>3 DEF CountInv, Unseen, Threads, BeforeCheck
  <2>7. SlotInv' /\ StallInv' /\ SuspendHolds'
    BY <2>1, <2>3 DEF SlotInv, StallInv, SuspendHolds
  <2>8. QED
    BY <2>4, <2>5, <2>6, <2>7
<1>4. CASE (resume_test /\ ~_timer_event_missed) \/ resume_clear
  <2>1. /\ main \in {"resume", "missed"} /\ main' = "loop" /\ run["main"] = Outside
        /\ _timer_event_missed' \in BOOLEAN
        /\ UNCHANGED <<_timer_proc, _num_timer_procs, _timer_suspended, _in_timer_proc,
                       run, fs, vs_last, world, ticked, susp>>
    BY <1>4 DEF resume_test, resume_clear, TypeOK
  <2>2. TypeOK'
    BY <2>1 DEF TypeOK
  <2>3. SlotInv' /\ FlagInv' /\ CountInv' /\ StallInv' /\ SuspendHolds'
    BY <2>1 DEF SlotInv, FlagInv, CountInv, Unseen, StallInv, SuspendHolds
  <2>4. QED
    BY <2>2, <2>3, SMTT(60)
<1>5. QED
  BY <1>1, <1>2, <1>3, <1>4

\* loop(): the count moves on, and cannot come round to the failsafe's.
LEMMA LoopIInv == IInv /\ loop => IInv'
<1> SUFFICES ASSUME IInv, loop PROVE IInv'
  BY SMTT(60)
<1> USE SchedulerAssumption DEF IInv, sched, fs, world, susp
<1>1. /\ main \in {"loop", "tasks"} /\ main' = "tasks" /\ looped = FALSE /\ looped' = TRUE
      /\ loops' = (loops + 1) % CountWrap /\ stall' = 0
      /\ UNCHANGED <<sched, _in_timer_proc, run, fs, elapsed, ticked, locked, susp>>
  BY DEF loop, InLoop, TypeOK
<1>2. loops \in 0 .. CountWrap - 1 /\ loops =< 1
  BY <1>1, SMTT(60) DEF TypeOK, CountInv, Unseen
<1>3. loops' = loops + 1
  BY <1>1, <1>2, SMTT(60)
<1>4. Unseen' = Unseen
  BY <1>1, <1>2, <1>3, SMTT(60) DEF Unseen
<1>5. TypeOK'
  BY <1>1, <1>2, <1>3, SMTT(60) DEF TypeOK
<1>6. SlotInv' /\ FlagInv' /\ SuspendHolds'
  BY <1>1 DEF SlotInv, FlagInv, SuspendHolds
<1>7. CountInv'
  BY <1>1, <1>4 DEF CountInv
<1>8. StallInv'
  BY <1>2, <1>3, SMTT(60) DEF StallInv
<1>9. QED
  BY <1>5, <1>6, <1>7, <1>8

\* failsafe_disable, and failsafe_enable with its two stores.
LEMMA FailsafeIInv ==
    ASSUME IInv, failsafe_disable \/ failsafe_enable \/ enable_stamp
    PROVE  IInv'
<1> USE SchedulerAssumption DEF IInv, sched, fs, world, vs_last, susp
<1>1. CASE failsafe_disable \/ failsafe_enable
  <2>1. /\ main \in {"tasks", "busy"} /\ main' \in {"busy", "stamp"}
        /\ failsafe_enabled' = (main' = "stamp") /\ armed' \in BOOLEAN
        /\ UNCHANGED <<sched, _in_timer_proc, run, in_failsafe, vs_last, world, ticked, susp>>
    BY <1>1 DEF failsafe_disable, failsafe_enable, TypeOK
  <2>2. failsafe_enabled' \in BOOLEAN
    BY <2>1
  <2>3. TypeOK'
    BY <2>1, <2>2 DEF TypeOK
  <2>4. SlotInv' /\ FlagInv' /\ CountInv' /\ StallInv' /\ SuspendHolds'
    BY <2>1 DEF SlotInv, FlagInv, CountInv, Unseen, StallInv, SuspendHolds
  <2>5. QED
    BY <2>3, <2>4
<1>2. CASE enable_stamp
  <2>1. /\ main = "stamp" /\ main' = "loop" /\ elapsed' = 0 /\ stall' = 0
        /\ run' = [t \in Threads |-> [run[t] EXCEPT !.late = (run[t].pc = "check")]]
        /\ UNCHANGED <<sched, _in_timer_proc, fs, loops, looped, locked, ticked, susp>>
    BY <1>2 DEF enable_stamp
  <2>2. run \in [Threads -> RunType] /\ "timer" \in Threads /\ "main" \in Threads
    BY DEF TypeOK, Threads
  <2>3. \A t \in Threads : run'[t] \in RunType /\ run'[t].pc = run[t].pc
    <3>1. SUFFICES ASSUME NEW t \in Threads
                   PROVE  run'[t] \in RunType /\ run'[t].pc = run[t].pc
      OBVIOUS
    <3>2. PICK b \in BOOLEAN : run'[t] = [run[t] EXCEPT !.late = b]
      <4>1. (run[t].pc = "check") \in BOOLEAN
        OBVIOUS
      <4>2. QED
        BY <2>1, <4>1
    <3>3. QED
      BY <2>2, <3>2, SMTT(60) DEF RunType
  <2>4. run' \in [Threads -> RunType]
    BY <2>1, <2>3
  <2>5. run'["main"] = Outside
    <3>1. run["main"] = Outside
      BY <2>1 DEF TypeOK
    <3>2. run'["main"] = [Outside EXCEPT !.late = (Outside.pc = "check")]
      BY <2>1, <2>2, <3>1
    <3>3. (Outside.pc = "check") = FALSE
      BY DEF Outside
    <3>4. QED
      BY <3>2, <3>3 DEF Outside
  <2>6. TypeOK'
    BY <2>1, <2>4, <2>5, SMTT(60) DEF TypeOK
  <2>7. SlotInv' /\ FlagInv' /\ SuspendHolds'
    BY <2>1, <2>2, <2>3 DEF SlotInv, FlagInv, SuspendHolds
  <2>8. CountInv'
    BY <2>1, <2>2, <2>3 DEF CountInv, Unseen
  <2>9. StallInv'
    BY <2>1, SMTT(60) DEF StallInv
  <2>10. QED
    BY <2>6, <2>7, <2>8, <2>9
<1>3. QED
  BY <1>1, <1>2

\* A second passes, in which failsafe_check has run.
LEMMA TimeIInv == IInv /\ Time => IInv'
<1> SUFFICES ASSUME IInv, Time PROVE IInv'
  BY SMTT(60)
<1> USE SchedulerAssumption DEF IInv, sched, fs, susp
<1>1. /\ ticked /\ ticked' = FALSE /\ looped' = FALSE /\ main \in {"loop", "tasks", "busy"}
      /\ elapsed' = (elapsed + 1) % TimeWrap
      /\ stall' = IF stall <= Trouble THEN stall + 1 ELSE stall
      /\ UNCHANGED <<sched, _in_timer_proc, run, main, fs, loops, locked, susp>>
  BY DEF Time
<1>2. run["main"] = Outside /\ run["timer"] = Outside
  BY <1>1 DEF TypeOK, Time
<1>3. /\ stall \in 0 .. Trouble + 1 /\ elapsed \in 0 .. TimeWrap - 1
      /\ loops \in 0 .. CountWrap - 1 /\ looped \in BOOLEAN
  BY DEF TypeOK
<1>4. stall' \in 0 .. Trouble + 1
  BY <1>1, <1>3, SMTT(60)
<1>5. elapsed' \in 0 .. TimeWrap - 1 /\ elapsed' =< elapsed + 1
  BY <1>1, <1>3, SMTT(60)
<1>6. TypeOK'
  BY <1>1, <1>4, <1>5 DEF TypeOK
<1>7. SlotInv' /\ FlagInv' /\ SuspendHolds'
  BY <1>1 DEF SlotInv, FlagInv, SuspendHolds
<1>8. CountInv'
  <2>1. Unseen # 2
    BY <1>1, <1>2, SMTT(60) DEF CountInv, BeforeCheck, Outside
  <2>2. Unseen' =< 2
    BY <1>1, <1>3, <2>1, SMTT(60) DEF CountInv, Unseen
  <2>3. QED
    BY <1>1, <1>2, <2>2, SMTT(60) DEF CountInv, Threads, Outside
<1>9. StallInv'
  BY <1>1, <1>3, <1>4, <1>5, SMTT(60) DEF StallInv
<1>10. QED
  BY <1>6, <1>7, <1>8, <1>9, SMTT(60)

LEMMA NextIInv == IInv /\ [Next]_vars => IInv'
<1> SUFFICES ASSUME IInv, [Next]_vars PROVE IInv'
  OBVIOUS
<1>1. CASE disarm \/ Lockup \/ UNCHANGED vars
  <2>1. /\ armed' \in BOOLEAN /\ locked' \in BOOLEAN
        /\ UNCHANGED <<sched, _in_timer_proc, run, main, failsafe_enabled, in_failsafe,
                       vs_last, looped, stall, ticked, susp>>
    BY <1>1 DEF IInv, TypeOK, disarm, Lockup, vars, fs, world
  <2>2. TypeOK'
    BY <2>1 DEF IInv, TypeOK, sched, vs_last, susp
  <2>3. SlotInv' /\ FlagInv' /\ CountInv' /\ StallInv' /\ SuspendHolds'
    BY <2>1 DEF IInv, SlotInv, FlagInv, CountInv, Unseen, StallInv, SuspendHolds, sched,
       vs_last, susp
  <2>4. QED
    BY <2>2, <2>3 DEF IInv
<1>2. QED
  BY <1>1, RunStepIInv, WakeIInv, RegisterIInv, SuspendIInv, LoopIInv, FailsafeIInv, TimeIInv
     DEF Next, MainStep

-----------------------------------------------------------------------------
\* The invariant holds in every reachable state.
THEOREM Invariance == Spec => []IInv
BY InitIInv, NextIInv, PTL DEF Spec

\* The variables keep their types; a process that is counted is in its slot, and
\* in one only, between the two stores of register_timer_process too.
THEOREM TypeCorrect == Spec => []TypeOK
<1>1. IInv => TypeOK
  BY DEF IInv
<1>2. QED
  BY <1>1, Invariance, PTL

\* No tick that begins after suspend_timer_procs has returned calls a process.
THEOREM SuspendWorks == Spec => []SuspendHolds
<1>1. IInv => SuspendHolds
  BY DEF IInv
<1>2. QED
  BY <1>1, Invariance, PTL

\* failsafe_check disarms the motors only of a main loop that has stalled, or in
\* one of the two races of failsafe_enable.
THEOREM FailsafeSound == Spec => DisarmsOnlyStalled
<1> DEFINE Sound(t) ==
      armed /\ ~armed' /\ run[t].pc = "check" /\ run'[t].pc = "leave" =>
          \/ stall > IF in_failsafe THEN Again ELSE Trouble
          \/ main = "stamp" \/ run[t].late
<1>1. ASSUME IInv, Next, NEW t \in Threads PROVE Sound(t)
  <2> SUFFICES ASSUME armed, ~armed', run[t].pc = "check", run'[t].pc = "leave",
                      main # "stamp", ~run[t].late
               PROVE  stall > IF in_failsafe THEN Again ELSE Trouble
    OBVIOUS
  <2>1. failsafe_check(t)
    <3>1. run \in [Threads -> RunType]
      BY <1>1 DEF IInv, TypeOK
    <3>2. PICK u \in Threads : RunStep(u)
      <4>1. armed' # armed
        OBVIOUS
      <4>2. ~disarm
        BY DEF disarm
      <4>3. ~failsafe_enable
        BY DEF failsafe_enable
      <4>4. QED
        BY <1>1, <4>1, <4>2, <4>3 DEF Next, MainStep, timer_wake, count_proc, resume_timer_procs,
           resume_test, resume_clear, enable_stamp, Time, Lockup, register_timer_process,
           suspend_timer_procs, loop, failsafe_disable, fs
    <3>3. failsafe_check(u)
      BY <3>2 DEF RunStep, run_test, run_enter, run_suspended, run_procs, run_miss,
         failsafe_time, run_leave, fs
    <3>4. u = t
      BY <3>1, <3>3 DEF failsafe_check, Goto
    <3>5. QED
      BY <3>3, <3>4
  <2>2. /\ loops = 0 /\ failsafe_enabled /\ Elapsed(t) = elapsed /\ elapsed > Again
        /\ in_failsafe \/ elapsed > Trouble
    BY <1>1, <2>1 DEF failsafe_check, Elapsed, IInv, TypeOK
  <2>3. stall > Trouble \/ elapsed =< stall
    BY <1>1, <2>2 DEF IInv, StallInv
  <2>4. stall \in Nat /\ elapsed \in Nat
    BY <1>1, SchedulerAssumption, SMTT(60) DEF IInv, TypeOK
  <2>5. QED
    BY <2>2, <2>3, <2>4, SchedulerAssumption, SMTT(60)
<1>2. IInv /\ [Next]_vars => [\A t \in Threads : Sound(t)]_vars
  BY <1>1
<1>3. QED
  BY <1>2, Invariance, PTL DEF Spec, DisarmsOnlyStalled
=============================================================================
