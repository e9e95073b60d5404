---------------------------- MODULE TaskProofs -----------------------------
(***************************************************************************)
(* Proofs about the threads of the kernel: Scheduler, for every set of     *)
(* threads and every value of the clock constants that satisfies the       *)
(* assumptions; CriticalSection; and Event, whose calls use it, for any    *)
(* number of waiters, signalers and calls.  They share the current thread  *)
(* and the states of Dispatcher, nothing else.                             *)
(***************************************************************************)
EXTENDS Scheduler, Event, TLAPS

(* _PickNextThread returns a thread of the list other than the one it is   *)
(* given, as soon as the list has two elements.                            *)
LEMMA PickNextIsAnother ==
  ASSUME TypeOK, ListOK, current # None, Len(threadsList) > 1
  PROVE  /\ PickNextThread(current) \in Threads
         /\ PickNextThread(current) # current
         /\ Listed(PickNextThread(current))
<1> DEFINE n == Len(threadsList)
           i == CHOOSE j \in 1 .. n : threadsList[j] = current
           k == IF i < n THEN i + 1 ELSE 1
<1>1. n \in Nat /\ \A j \in 1 .. n : threadsList[j] \in Threads
  BY DEF TypeOK
<1>2. i \in 1 .. n /\ threadsList[i] = current
  BY DEF ListOK, Listed
<1>3. k \in 1 .. n /\ k # i
  <2> HIDE DEF i
  <2> QED BY <1>1, <1>2
<1>4. PickNextThread(current) = threadsList[k]
  BY DEF PickNextThread
<1> HIDE DEF i, k, n
<1>5. threadsList[k] # threadsList[i]
  BY <1>2, <1>3 DEF ListOK, n
<1> QED
  BY <1>1, <1>2, <1>3, <1>4, <1>5 DEF Listed, n

(* The state Scheduler::Init leaves satisfies the invariant.               *)
LEMMA InitEstablishes == Init => SchedulerInv
<1> SUFFICES ASSUME Init PROVE SchedulerInv
  OBVIOUS
<1> USE ClockAssumption, NoneIsNoThread DEF Init, DispatchInit
<1>1. TypeOK
  <2>1. DispatchTypeOK
    BY DEF DispatchTypeOK, ThreadState
  <2>2. prio \in [Threads -> Priority]
    BY DEF Priority, THREAD_PRIORITY_NORMAL, THREAD_PRIORITY_MAX
  <2>3. ticsOnResume \in [Threads -> 0 .. U32 - 1]
    OBVIOUS
  <2>4. tics \in 0 .. TICKS_PER_SECOND - 1 /\ slice \in 0 .. SliceCap
    BY DEF SliceCap
  <2>5. threadsList \in Seq(Threads) /\ inWait \subseteq Threads
    OBVIOUS
  <2> QED
    BY <2>1, <2>2, <2>3, <2>4, <2>5 DEF TypeOK
<1>2. ListOK /\ BootOK /\ OnlyCurrentWaits
  BY DEF ListOK, BootOK, OnlyCurrentWaits, Listed
<1>3. RaisedOnlyWhenCurrent /\ HangNeedsRaisedPriority /\ SliceOK
  BY DEF RaisedOnlyWhenCurrent, HangNeedsRaisedPriority, SliceOK,
         THREAD_PRIORITY_NORMAL
<1> QED
  BY <1>1, <1>2, <1>3 DEF SchedulerInv

(* Adding a thread while the kernel boots.                                 *)
LEMMA AddThreadPreserves ==
  ASSUME SchedulerInv, NEW t \in Threads, AddThread(t)
  PROVE  SchedulerInv'
<1> USE ClockAssumption, NoneIsNoThread
<1> USE DEF SchedulerInv, AddThread
<1>1. TypeOK'
  BY DEF TypeOK, DispatchTypeOK
<1>2. /\ Len(threadsList') = Len(threadsList) + 1
      /\ threadsList'[Len(threadsList) + 1] = t
      /\ \A i \in 1 .. Len(threadsList) : threadsList'[i] = threadsList[i]
  BY DEF TypeOK
<1>3. ListOK'
  <2>1. Len(threadsList) \in Nat
    BY DEF TypeOK
  <2>2. ASSUME NEW i \in 1 .. Len(threadsList'), NEW j \in 1 .. Len(threadsList'),
               threadsList'[i] = threadsList'[j]
        PROVE  i = j
    BY <1>2, <2>1, <2>2 DEF ListOK, Listed
  <2>3. current' # None /\ threadsList' # <<>> /\ Listed(current)'
    BY <1>2, <2>1 DEF ListOK, Listed
  <2> QED
    BY <2>2, <2>3 DEF ListOK
<1>4. BootOK'
  BY <1>2 DEF BootOK, ListOK, TypeOK
<1>5. OnlyCurrentWaits' /\ RaisedOnlyWhenCurrent' /\ HangNeedsRaisedPriority' /\ SliceOK'
  BY DEF OnlyCurrentWaits, RaisedOnlyWhenCurrent, HangNeedsRaisedPriority, SliceOK,
         BootOK, TypeOK, Priority, DispatchTypeOK
<1> QED
  BY <1>1, <1>3, <1>4, <1>5

LEMMA StartPreserves ==
  ASSUME SchedulerInv, Start
  PROVE  SchedulerInv'
<1> USE ClockAssumption, NoneIsNoThread
<1> USE DEF SchedulerInv, Start, clockVars
<1>1. TypeOK' /\ ListOK' /\ BootOK'
  BY DEF TypeOK, DispatchTypeOK, ListOK, Listed, BootOK
<1>2. OnlyCurrentWaits' /\ RaisedOnlyWhenCurrent' /\ HangNeedsRaisedPriority'
  BY DEF OnlyCurrentWaits, RaisedOnlyWhenCurrent, HangNeedsRaisedPriority
<1>3. SliceOK'
  BY DEF SliceOK, SliceOfBootThread, BootOK, TypeOK, DispatchTypeOK, ListOK
<1> QED
  BY <1>1, <1>2, <1>3

(* Steps of the running thread that touch neither the clock nor the        *)
(* processor: they change its priority, or state fields.                   *)
LEMMA ThreadStepPreserves ==
  ASSUME SchedulerInv,
         \/ RaisePriorityLevel
         \/ LowerPriorityLevel
         \/ BeginWait
         \/ \E t \in Threads : Signal(t)
  PROVE  SchedulerInv'
<1> USE ClockAssumption, NoneIsNoThread
<1> USE DEF SchedulerInv
<1>0. /\ running /\ ~spinning /\ current \in Threads
      /\ current # threadsList[1] /\ state[current] # "INIT"
      /\ UNCHANGED <<current, threadsList, running, spinning, ticsOnResume, tics, slice>>
  BY DEF RaisePriorityLevel, LowerPriorityLevel, BeginWait, Signal, Wait, Wake,
         UserThreadRuns, clockVars, ListOK, BootOK, TypeOK, DispatchTypeOK
<1>1. TypeOK'
  <2>1. state' \in [Threads -> ThreadState] /\ inWait' \subseteq Threads
    BY <1>0 DEF TypeOK, DispatchTypeOK, RaisePriorityLevel, LowerPriorityLevel, BeginWait,
           Signal, Wait, Wake, ThreadState
  <2>2. prio' \in [Threads -> Priority]
    BY <1>0 DEF TypeOK, RaisePriorityLevel, LowerPriorityLevel, BeginWait, Signal,
           Priority, THREAD_PRIORITY_NORMAL, THREAD_PRIORITY_MAX
  <2> QED
    BY <1>0, <2>1, <2>2 DEF TypeOK, DispatchTypeOK
<1>2. ListOK'
  BY <1>0 DEF ListOK, Listed
<1>3. state'[current] # "INIT"
  BY <1>0 DEF TypeOK, DispatchTypeOK, RaisePriorityLevel, LowerPriorityLevel, BeginWait,
         Signal, Wait, Wake
<1>4. BootOK'
  BY <1>0, <1>3 DEF BootOK
<1>5. OnlyCurrentWaits'
  BY <1>0 DEF OnlyCurrentWaits, TypeOK, DispatchTypeOK, RaisePriorityLevel,
         LowerPriorityLevel, BeginWait, Signal, Wait, Wake
<1>6. RaisedOnlyWhenCurrent'
  BY <1>0 DEF RaisedOnlyWhenCurrent, TypeOK, RaisePriorityLevel, LowerPriorityLevel,
         BeginWait, Signal
<1>7. HangNeedsRaisedPriority'
  BY <1>0 DEF HangNeedsRaisedPriority
<1>8. SliceOK'
  BY <1>0, <1>3 DEF SliceOK, SliceOfResumedThread
<1> QED
  BY <1>1, <1>2, <1>4, <1>5, <1>6, <1>7, <1>8

(* Schedules, called by either interrupt: whatever it decides, the         *)
(* processor goes to another thread of the list, stays where it is, or the *)
(* loop is entered for ever because the current thread has been raised.    *)
LEMMA SchedulesOutcome ==
  ASSUME SchedulerInv, running, ~spinning,
         NEW now \in 0 .. TICKS_PER_SECOND - 1, Schedules(now)
  PROVE  \/ /\ ~MustSwitch(now)
            /\ UNCHANGED <<current, state, ticsOnResume, spinning>>
         \/ /\ Len(threadsList) > 1
            /\ current' \in Threads /\ current' # current /\ Listed(current')
            /\ prio[current'] >= prio[current]
            /\ RunnableThread(current')
            /\ state' = [state EXCEPT ![current] = "PAUSED", ![current'] = "RUNNING"]
            /\ ticsOnResume' = [ticsOnResume EXCEPT ![current'] = now]
            /\ ~spinning'
         \/ /\ prio[current] > THREAD_PRIORITY_NORMAL
            /\ spinning'
            /\ UNCHANGED <<current, state, ticsOnResume>>
<1> USE NoneIsNoThread
<1>1. current # None
  BY DEF SchedulerInv, ListOK
<1>2. CASE ~MustSwitch(now)
  BY <1>2 DEF Schedules
<1>3. CASE MustSwitch(now)
  <2> DEFINE next == PickNextThread(current)
  <2>1. next \in Threads /\ next # current /\ Listed(next) /\ Len(threadsList) > 1
    BY <1>1, <1>3, PickNextIsAnother DEF MustSwitch, SchedulerInv
  <2>2. RunnableThread(next)
    BY <2>1 DEF SchedulerInv, OnlyCurrentWaits, TypeOK, DispatchTypeOK, ThreadState,
                RunnableThread
  <2> HIDE DEF next
  <2>3. CASE Acceptable(next) /\ SwitchToThread(next, now) /\ UNCHANGED spinning
    BY <2>1, <2>3 DEF Acceptable, SwitchToThread, SwitchTo
  <2>4. CASE ~Acceptable(next) /\ spinning' = TRUE /\ UNCHANGED <<current, state, ticsOnResume>>
    <3>1. prio[next] \in Priority /\ prio[current] \in Priority
      BY <1>1, <2>1 DEF SchedulerInv, TypeOK, DispatchTypeOK
    <3>2. prio[next] < prio[current]
      BY <2>2, <2>4, <3>1 DEF Acceptable, Priority, THREAD_PRIORITY_NORMAL,
                              THREAD_PRIORITY_MAX
    <3>3. prio[current] > THREAD_PRIORITY_NORMAL
      BY <3>1, <3>2 DEF Priority, THREAD_PRIORITY_NORMAL, THREAD_PRIORITY_MAX
    <3> QED
      BY <2>4, <3>3
  <2> QED
    BY <1>3, <2>3, <2>4 DEF Schedules, next
<1> QED
  BY <1>2, <1>3

(* What Schedules preserves whatever the clock says.                       *)
LEMMA InterruptPreserves ==
  ASSUME SchedulerInv, running, ~spinning,
         NEW now \in 0 .. TICKS_PER_SECOND - 1, Schedules(now),
         UNCHANGED <<threadsList, prio, running>>
  PROVE  /\ current' \in Threads
         /\ state' \in [Threads -> ThreadState]
         /\ ticsOnResume' \in [Threads -> 0 .. U32 - 1]
         /\ spinning' \in BOOLEAN
         /\ ListOK' /\ BootOK' /\ OnlyCurrentWaits'
         /\ RaisedOnlyWhenCurrent' /\ HangNeedsRaisedPriority'
<1> USE ClockAssumption, NoneIsNoThread
<1>0. /\ current \in Threads /\ current # None
      /\ state \in [Threads -> ThreadState]
      /\ ticsOnResume \in [Threads -> 0 .. U32 - 1]
      /\ prio \in [Threads -> Priority]
      /\ now \in 0 .. U32 - 1
  BY DEF SchedulerInv, TypeOK, DispatchTypeOK, ListOK
<1>1. CASE UNCHANGED <<current, state, ticsOnResume, spinning>>
  <2>1. ListOK' /\ BootOK'
    BY <1>1 DEF SchedulerInv, ListOK, Listed, BootOK
  <2>2. OnlyCurrentWaits' /\ RaisedOnlyWhenCurrent' /\ HangNeedsRaisedPriority'
    BY <1>1 DEF SchedulerInv, OnlyCurrentWaits, RaisedOnlyWhenCurrent,
                HangNeedsRaisedPriority
  <2>3. spinning' \in BOOLEAN
    BY <1>1 DEF SchedulerInv, TypeOK
  <2> QED
    BY <1>0, <1>1, <2>1, <2>2, <2>3
<1>2. CASE /\ current' \in Threads /\ current' # current /\ Listed(current')
           /\ prio[current'] >= prio[current]
           /\ RunnableThread(current')
           /\ state' = [state EXCEPT ![current] = "PAUSED", ![current'] = "RUNNING"]
           /\ ticsOnResume' = [ticsOnResume EXCEPT ![current'] = now]
           /\ ~spinning'
  <2>1. state' \in [Threads -> ThreadState] /\ state'[current'] = "RUNNING"
    BY <1>0, <1>2 DEF ThreadState
  <2>2. ticsOnResume' \in [Threads -> 0 .. U32 - 1]
    BY <1>0, <1>2
  <2>3. ListOK'
    BY <1>2 DEF SchedulerInv, ListOK, Listed
  <2>4. BootOK'
    BY <2>1 DEF BootOK
  <2>5. OnlyCurrentWaits'
    BY <1>0, <1>2 DEF SchedulerInv, OnlyCurrentWaits
  <2>6. RaisedOnlyWhenCurrent'
    BY <1>0, <1>2 DEF SchedulerInv, RaisedOnlyWhenCurrent, Priority,
                      THREAD_PRIORITY_NORMAL, THREAD_PRIORITY_MAX
  <2>7. HangNeedsRaisedPriority' /\ spinning' \in BOOLEAN
    <3>1. spinning' = FALSE
      BY <1>2 DEF Schedules, SchedulerInv, TypeOK
    <3> QED
      BY <3>1 DEF HangNeedsRaisedPriority
  <2> QED
    BY <1>2, <2>1, <2>2, <2>3, <2>4, <2>5, <2>6, <2>7
<1>3. CASE /\ prio[current] > THREAD_PRIORITY_NORMAL
           /\ spinning'
           /\ UNCHANGED <<current, state, ticsOnResume>>
  <2>1. ListOK' /\ OnlyCurrentWaits' /\ RaisedOnlyWhenCurrent'
    BY <1>3 DEF SchedulerInv, ListOK, Listed, OnlyCurrentWaits, RaisedOnlyWhenCurrent
  <2>2. BootOK'
    BY <1>3 DEF SchedulerInv, BootOK
  <2>3. HangNeedsRaisedPriority'
    BY <1>3 DEF HangNeedsRaisedPriority
  <2>4. spinning' \in BOOLEAN
    BY <1>3 DEF Schedules, SchedulerInv, TypeOK
  <2> QED
    BY <1>0, <1>3, <2>1, <2>2, <2>3, <2>4
<1> QED
  BY <1>1, <1>2, <1>3, SchedulesOutcome

(* The clock interrupt keeps the time slice bounded, second boundary       *)
(* included.                                                               *)
LEMMA ClockPreserves ==
  ASSUME SchedulerInv, Clock
  PROVE  SchedulerInv'
<1> USE ClockAssumption, NoneIsNoThread
<1>0. /\ running /\ ~spinning /\ current \in Threads
      /\ tics \in 0 .. TICKS_PER_SECOND - 1
      /\ tics' \in 0 .. TICKS_PER_SECOND - 1
      /\ tics' = IF tics + 1 >= TICKS_PER_SECOND THEN 0 ELSE tics + 1
      /\ slice \in 0 .. SliceCap
      /\ ticsOnResume \in [Threads -> 0 .. U32 - 1]
      /\ Schedules(tics')
      /\ UNCHANGED <<threadsList, prio, running, inWait>>
      /\ slice' = IF current' # current THEN 0
                  ELSE IF slice < SliceCap THEN slice + 1 ELSE slice
  BY DEF Clock, SchedulerInv, TypeOK, DispatchTypeOK, ListOK
<1>1. /\ current' \in Threads
      /\ state' \in [Threads -> ThreadState]
      /\ ticsOnResume' \in [Threads -> 0 .. U32 - 1]
      /\ spinning' \in BOOLEAN
      /\ ListOK' /\ BootOK' /\ OnlyCurrentWaits'
      /\ RaisedOnlyWhenCurrent' /\ HangNeedsRaisedPriority'
  BY <1>0, InterruptPreserves
<1>2. TypeOK'
  <2>1. slice' \in 0 .. SliceCap
    BY <1>0 DEF SliceCap
  <2> QED
    BY <1>0, <1>1, <2>1 DEF SchedulerInv, TypeOK, DispatchTypeOK
<1>3. SliceOK'
  <2> SUFFICES ASSUME ~spinning', Len(threadsList) > 1
               PROVE  IF state'[current'] = "INIT" THEN SliceOfBootThread'
                                                   ELSE SliceOfResumedThread'
    BY <1>0 DEF SliceOK
  <2>1. CASE current' # current
    <3>1. /\ state' = [state EXCEPT ![current] = "PAUSED", ![current'] = "RUNNING"]
          /\ ticsOnResume' = [ticsOnResume EXCEPT ![current'] = tics']
      BY <1>0, <2>1, SchedulesOutcome
    <3>2. state'[current'] # "INIT"
      BY <1>1, <3>1 DEF SchedulerInv, TypeOK, DispatchTypeOK
    <3>3. ticsOnResume'[current'] = tics' /\ slice' = 0
      BY <1>0, <1>1, <2>1, <3>1
    <3> QED
      BY <1>0, <3>2, <3>3 DEF SliceOfResumedThread
  <2>2. CASE current' = current
    <3>1. ~MustSwitch(tics') /\ UNCHANGED <<current, state, ticsOnResume>>
      BY <1>0, <2>2, SchedulesOutcome
    <3> DEFINE g == ticsOnResume[current]
    <3>2. g \in 0 .. U32 - 1 /\ ticsOnResume'[current'] = g
      BY <1>0, <3>1
    <3>3. SubU32(tics', g) <= LIMIT_WORKING_TIME
      BY <1>0, <3>1, <3>2 DEF MustSwitch, Elapsed, SubU32
    <3>4. slice' = IF slice < SliceCap THEN slice + 1 ELSE slice
      BY <1>0, <2>2
    <3> HIDE DEF g
    <3>5. CASE state[current] = "INIT"
      <4>1. /\ slice = tics
            /\ tics > 0 => \/ g <= 1 /\ tics - g <= LIMIT_WORKING_TIME
                           \/ g > 1 /\ U32 + tics - g <= LIMIT_WORKING_TIME
        BY <1>0, <3>5 DEF SchedulerInv, SliceOK, SliceOfBootThread, g
      <4>2. /\ slice' = tics'
            /\ \/ g <= 1 /\ tics' - g <= LIMIT_WORKING_TIME
               \/ g > 1 /\ U32 + tics' - g <= LIMIT_WORKING_TIME
        BY <1>0, <3>2, <3>3, <3>4, <4>1 DEF SubU32, SliceCap
      <4> QED
        BY <3>1, <3>2, <3>5, <4>2 DEF SliceOfBootThread
    <3>6. CASE state[current] # "INIT"
      <4>1. g <= tics /\ slice = tics - g /\ slice <= LIMIT_WORKING_TIME
        BY <1>0, <3>6 DEF SchedulerInv, SliceOK, SliceOfResumedThread, g
      <4>2. g <= tics' /\ slice' = tics' - g /\ slice' <= LIMIT_WORKING_TIME
        BY <1>0, <3>2, <3>3, <3>4, <4>1 DEF SubU32, SliceCap
      <4> QED
        BY <3>1, <3>2, <3>6, <4>2 DEF SliceOfResumedThread
    <3> QED
      BY <3>5, <3>6
  <2> QED
    BY <2>1, <2>2
<1> QED
  BY <1>1, <1>2, <1>3 DEF SchedulerInv

(* The context switch interrupt a waiting thread raises.                   *)
LEMMA ContextSwitchPreserves ==
  ASSUME SchedulerInv, ContextSwitchInterrupt
  PROVE  SchedulerInv'
<1> USE ClockAssumption, NoneIsNoThread
<1>0. /\ running /\ ~spinning /\ current \in Threads
      /\ tics \in 0 .. TICKS_PER_SECOND - 1
      /\ slice \in 0 .. SliceCap
      /\ Schedules(tics)
      /\ UNCHANGED <<threadsList, prio, running, tics>>
      /\ inWait' \subseteq Threads
      /\ slice' = IF current' # current THEN 0 ELSE slice
  BY DEF ContextSwitchInterrupt, SchedulerInv, TypeOK, DispatchTypeOK, ListOK
<1>1. /\ current' \in Threads
      /\ state' \in [Threads -> ThreadState]
      /\ ticsOnResume' \in [Threads -> 0 .. U32 - 1]
      /\ spinning' \in BOOLEAN
      /\ ListOK' /\ BootOK' /\ OnlyCurrentWaits'
      /\ RaisedOnlyWhenCurrent' /\ HangNeedsRaisedPriority'
  BY <1>0, InterruptPreserves
<1>2. TypeOK'
  <2>1. slice' \in 0 .. SliceCap
    BY <1>0 DEF SliceCap
  <2> QED
    BY <1>0, <1>1, <2>1 DEF SchedulerInv, TypeOK, DispatchTypeOK
<1>3. SliceOK'
  <2> SUFFICES ASSUME ~spinning', Len(threadsList) > 1
               PROVE  IF state'[current'] = "INIT" THEN SliceOfBootThread'
                                                   ELSE SliceOfResumedThread'
    BY <1>0 DEF SliceOK
  <2>1. CASE current' # current
    <3>1. /\ state' = [state EXCEPT ![current] = "PAUSED", ![current'] = "RUNNING"]
          /\ ticsOnResume' = [ticsOnResume EXCEPT ![current'] = tics]
      BY <1>0, <2>1, SchedulesOutcome
    <3>2. state'[current'] # "INIT" /\ ticsOnResume'[current'] = tics /\ slice' = 0
      BY <1>0, <1>1, <2>1, <3>1 DEF SchedulerInv, TypeOK, DispatchTypeOK
    <3> QED
      BY <1>0, <3>2 DEF SliceOfResumedThread
  <2>2. CASE current' = current
    <3>1. UNCHANGED <<current, state, ticsOnResume, slice>>
      BY <1>0, <2>2, SchedulesOutcome
    <3> QED
      BY <1>0, <3>1 DEF SchedulerInv, SliceOK, SliceOfBootThread, SliceOfResumedThread
  <2> QED
    BY <2>1, <2>2
<1> QED
  BY <1>1, <1>2, <1>3 DEF SchedulerInv

(* Every step of the scheduler preserves the invariant.                    *)
LEMMA NextPreserves == SchedulerInv /\ [Next]_vars => SchedulerInv'
<1> SUFFICES ASSUME SchedulerInv, [Next]_vars PROVE SchedulerInv'
  OBVIOUS
<1>1. CASE UNCHANGED vars
  BY <1>1 DEF vars, SchedulerInv, TypeOK, DispatchTypeOK, ListOK, Listed, BootOK,
              OnlyCurrentWaits, RaisedOnlyWhenCurrent, HangNeedsRaisedPriority,
              SliceOK, SliceOfBootThread, SliceOfResumedThread
<1> QED
  BY <1>1, AddThreadPreserves, StartPreserves, ThreadStepPreserves, ClockPreserves,
     ContextSwitchPreserves DEF Next

(* The inductive invariant holds in every behaviour of the scheduler.      *)
THEOREM SchedulerInvariant == Spec => []SchedulerInv
BY InitEstablishes, NextPreserves, PTL DEF Spec

(* The variables of the scheduler keep their types: in particular the list *)
(* holds threads only and the tick counter stays below TICKS_PER_SECOND.   *)
THEOREM SchedulerTypes == Spec => []TypeOK
BY SchedulerInvariant, PTL DEF SchedulerInv

(* No thread is ever left waiting once the processor is taken from it      *)
(* (_SwitchToThread overwrites WAITING with PAUSED).                       *)
THEOREM SchedulerOnlyCurrentWaits == Spec => []OnlyCurrentWaits
BY SchedulerInvariant, PTL DEF SchedulerInv

(* A raised thread never loses the processor, so HasHigherThreadPriority   *)
(* never returns true.                                                     *)
THEOREM SchedulerRaisedOnlyWhenCurrent == Spec => []RaisedOnlyWhenCurrent
BY SchedulerInvariant, PTL DEF SchedulerInv

(* The loop of Schedules can only run for ever for a raised thread.        *)
THEOREM SchedulerHangNeedsRaisedPriority == Spec => []HangNeedsRaisedPriority
BY SchedulerInvariant, PTL DEF SchedulerInv

(* A time slice never exceeds the limit, across the reset of tics too.     *)
THEOREM SchedulerSliceBound == Spec => []SliceBound
<1>1. SchedulerInv => SliceBound
  BY ClockAssumption DEF SchedulerInv, SliceOK, SliceBound, SliceOfBootThread,
     SliceOfResumedThread, TypeOK, DispatchTypeOK, ListOK
<1> QED
  BY <1>1, SchedulerInvariant, PTL

(* The scheduler implements the dispatcher the other components rely on.   *)
THEOREM SchedulerImplementsDispatcher == Spec => ImplementsDispatcher
<1>1. Init => DispatchInit
  BY DEF Init
<1>2. SchedulerInv /\ [Next]_vars => [DispatchNext]_dispatchVars
  <2> SUFFICES ASSUME SchedulerInv, Next, ~ UNCHANGED dispatchVars
               PROVE  DispatchNext
    BY DEF vars, dispatchVars
  <2> USE NoneIsNoThread
  <2>1. ASSUME NEW t \in Threads, AddThread(t) PROVE DispatchNext
    BY <2>1 DEF AddThread, DispatchNext, Boot, dispatchVars
  <2>2. ASSUME NEW t \in Threads, Signal(t) PROVE DispatchNext
    BY <2>2 DEF Signal, DispatchNext
  <2>3. CASE BeginWait
    BY <2>3 DEF BeginWait, DispatchNext
  <2>4. CASE Clock \/ ContextSwitchInterrupt
    <3>1. /\ running /\ ~spinning /\ current \in Threads
          /\ \E now \in 0 .. TICKS_PER_SECOND - 1 : Schedules(now)
      BY <2>4, ClockAssumption DEF Clock, ContextSwitchInterrupt, SchedulerInv, TypeOK,
         DispatchTypeOK, ListOK
    <3>2. Switch(current') /\ current' \in Threads
      BY <3>1, SchedulesOutcome DEF Switch, SwitchTo, dispatchVars
    <3> QED
      BY <3>2 DEF DispatchNext
  <2> QED
    BY <2>1, <2>2, <2>3, <2>4 DEF Next, Start, RaisePriorityLevel, LowerPriorityLevel,
       dispatchVars
<1> QED
  BY <1>1, <1>2, SchedulerInvariant, PTL DEF Spec, ImplementsDispatcher, DispatchSpec

-----------------------------------------------------------------------------
(* CriticalSection and Event                                               *)

USE NoneIsNoThread

(* Resuming a thread: what is left of its registers, and the history.      *)
LEMMA ResumeEffect ==
  ASSUME CSTypeOK, NEW t \in Threads, Preempt(t)
  PROVE  /\ current' = t /\ t # current /\ current \in Threads
         /\ UNCHANGED <<word, lockPc>>
         /\ eax' = [eax EXCEPT ![t] = AxAfterResume]
         /\ state' \in [Threads -> ThreadState]
         /\ midway' \in BOOLEAN
         /\ ~midway' => ~midway /\ lockPc[t] \notin {"try", "test"}
<1>1. /\ current' = t /\ t # current /\ current \in Threads
      /\ UNCHANGED <<word, lockPc>>
      /\ eax' = [eax EXCEPT ![t] = AxAfterResume]
  BY DEF Preempt, Switch, SwitchTo, Resume
<1>2. state' \in [Threads -> ThreadState]
  BY <1>1 DEF Preempt, Switch, SwitchTo, CSTypeOK, DispatchTypeOK, ThreadState
<1>3. midway' \in BOOLEAN /\ (~midway' => ~midway /\ lockPc[t] \notin {"try", "test"})
  BY Zenon DEF Preempt, Resume
<1> QED
  BY <1>1, <1>2, <1>3

(* A switch preserves the invariant of the lock.                           *)
LEMMA PreemptPreserves ==
  ASSUME CSInv, NEW t \in Threads, Preempt(t)
  PROVE  CSInv'
<1>0. CSTypeOK
  BY DEF CSInv
<1> USE <1>0, ResumeEffect
<1>1. CSTypeOK'
  BY DEF CSTypeOK, DispatchTypeOK, EaxValue
<1>2. \A u \in Threads : Inside(u)' => \/ Inside(u)
                                       \/ u = t /\ lockPc[t] = "test"
  BY DEF Inside, CSTypeOK
<1>3. \A u \in Threads : Inside(u) => Inside(u)'
  BY DEF Inside, CSTypeOK, AxAfterResume
<1>4. HeldWordHasOwner'
  BY <1>3 DEF CSInv, HeldWordHasOwner
<1>5. ExclusionUntilMidway'
  BY <1>2 DEF CSInv, ExclusionUntilMidway
<1>6. RunningEax'
  BY DEF RunningEax
<1> QED
  BY <1>1, <1>4, <1>5, <1>6 DEF CSInv

(* An instruction of the running thread preserves the invariant.           *)
LEMMA LockStepPreserves ==
  ASSUME CSInv, NEW t \in Threads, ThreadStep(t)
  PROVE  CSInv'
<1>0. t = current /\ UNCHANGED <<current, state, midway>>
  BY DEF ThreadStep, dispatchVars, Enter, CmpXchg, Test, Leave
<1>1. CASE Enter(t)
  BY <1>0, <1>1 DEF Enter, CSInv, CSTypeOK, DispatchTypeOK, LockPc, EaxValue,
     HeldWordHasOwner, ExclusionUntilMidway, RunningEax, Inside
<1>2. CASE CmpXchg(t)
  <2> USE <1>0, <1>2
  <2>1. CSTypeOK'
    BY DEF CmpXchg, CSInv, CSTypeOK, DispatchTypeOK, LockPc, EaxValue
  <2>2. HeldWordHasOwner'
    BY DEF CmpXchg, CSInv, CSTypeOK, HeldWordHasOwner, Inside
  <2>3. ExclusionUntilMidway'
    BY DEF CmpXchg, CSInv, CSTypeOK, ExclusionUntilMidway, RunningEax, Inside,
           DispatchTypeOK
  <2>4. RunningEax'
    BY DEF CmpXchg, CSInv, CSTypeOK, RunningEax
  <2> QED
    BY <2>1, <2>2, <2>3, <2>4 DEF CSInv
<1>3. CASE Test(t)
  <2> USE <1>0, <1>3
  <2>1. CSTypeOK'
    BY DEF Test, CSInv, CSTypeOK, DispatchTypeOK, LockPc, EaxValue
  <2>2. \A u \in Threads : Inside(u)' <=> Inside(u)
    BY DEF Test, CSInv, CSTypeOK, Inside
  <2>3. HeldWordHasOwner' /\ ExclusionUntilMidway'
    BY <2>2 DEF Test, CSInv, HeldWordHasOwner, ExclusionUntilMidway
  <2>4. RunningEax'
    BY DEF Test, CSInv, CSTypeOK, RunningEax
  <2> QED
    BY <2>1, <2>3, <2>4 DEF CSInv
<1>4. CASE lockPc[t] = "in" /\ Leave(t)
  <2> USE <1>0, <1>4
  <2>1. CSTypeOK' /\ HeldWordHasOwner'
    BY DEF Leave, CSInv, CSTypeOK, DispatchTypeOK, LockPc, HeldWordHasOwner
  <2>2. ExclusionUntilMidway' /\ RunningEax'
    BY DEF Leave, CSInv, CSTypeOK, ExclusionUntilMidway, RunningEax, Inside
  <2> QED
    BY <2>1, <2>2 DEF CSInv
<1> QED
  BY <1>1, <1>2, <1>3, <1>4 DEF ThreadStep

(* The inductive invariant holds in every behaviour.                       *)
THEOREM LockInvariant == CSSpec => []CSInv
<1>1. CSInit => CSInv
  <2> SUFFICES ASSUME CSInit PROVE CSInv
    OBVIOUS
  <2> USE DEF CSInit, DispatchInit, LockInit
  <2>1. CSTypeOK
    BY DEF CSTypeOK, DispatchTypeOK, ThreadState, LockPc, EaxValue
  <2>2. HeldWordHasOwner /\ ExclusionUntilMidway /\ RunningEax
    BY DEF HeldWordHasOwner, ExclusionUntilMidway, RunningEax, Inside
  <2> QED
    BY <2>1, <2>2 DEF CSInv
<1>2. CSInv /\ [CSNext]_csVars => CSInv'
  <2> SUFFICES ASSUME CSInv, [CSNext]_csVars PROVE CSInv'
    OBVIOUS
  <2>1. CASE UNCHANGED csVars
    BY <2>1 DEF csVars, CSInv, CSTypeOK, DispatchTypeOK, HeldWordHasOwner,
                ExclusionUntilMidway, RunningEax, Inside
  <2>2. ASSUME NEW t \in Threads, Boot(t), UNCHANGED lockVars PROVE CSInv'
    BY <2>2 DEF Boot, lockVars, CSInv, CSTypeOK, DispatchTypeOK, HeldWordHasOwner,
                ExclusionUntilMidway, RunningEax, Inside
  <2> QED
    BY <2>1, <2>2, PreemptPreserves, LockStepPreserves DEF CSNext
<1> QED
  BY <1>1, <1>2, PTL DEF CSSpec

(* Types of the lock word, of eax and of the places in _acquire_lock, for  *)
(* threads that are resumed at any instruction.                            *)
THEOREM LockTypes == CSSpec => []CSTypeOK
BY LockInvariant, PTL DEF CSInv

(* The lock word is never left taken by nobody (_release_lock).            *)
THEOREM LockHeldWordHasOwner == CSSpec => []HeldWordHasOwner
BY LockInvariant, PTL DEF CSInv

(* _acquire_lock excludes until a thread is resumed inside it.             *)
THEOREM LockExclusionUntilMidway == CSSpec => []ExclusionUntilMidway
BY LockInvariant, PTL DEF CSInv

-----------------------------------------------------------------------------
(* Only waiters are in EventWait; one that has recorded itself finds a     *)
(* waiter recorded.                                                        *)
CallsInv ==
  /\ \A t \in Threads : op[t] \in WaitOps => t \in Waiters
  /\ \A t \in Threads : op[t] \in {"wMark", "wLeave"} => thread # None
EventInv == SignalNotLost /\ HeldWordHasOwner /\ CallsInv

(* The instructions of Enter and Leave keep the types of the lock, and a   *)
(* word that is taken has an owner, whoever releases it how often.         *)
LEMMA LockSteps ==
  ASSUME CSTypeOK, HeldWordHasOwner, NEW t \in Threads,
         Enter(t) \/ CmpXchg(t) \/ Test(t) \/ Leave(t) \/ Resume(t) \/ UNCHANGED lockVars
  PROVE  /\ word' \in {0, 1} /\ lockPc' \in [Threads -> LockPc]
         /\ eax' \in [Threads -> EaxValue] /\ midway' \in BOOLEAN
         /\ HeldWordHasOwner'
<1> USE DEF CSTypeOK, HeldWordHasOwner, LockPc, EaxValue
<1>1. CASE Enter(t)
  BY <1>1 DEF Enter, Inside
<1>2. CASE CmpXchg(t)
  BY <1>2 DEF CmpXchg, Inside
<1>3. CASE Test(t)
  BY <1>3 DEF Test, Inside
<1>4. CASE Leave(t)
  BY <1>4 DEF Leave
<1>5. CASE Resume(t)
  <2>1. UNCHANGED <<word, lockPc>> /\ eax' = [eax EXCEPT ![t] = AxAfterResume]
    BY <1>5 DEF Resume
  <2>2. midway' \in BOOLEAN
    BY <1>5, Zenon DEF Resume
  <2> QED
    BY <2>1, <2>2 DEF Inside, AxAfterResume
<1>6. CASE UNCHANGED lockVars
  BY <1>6 DEF lockVars, Inside
<1> QED
  BY <1>1, <1>2, <1>3, <1>4, <1>5, <1>6

(* A step of a thread in a call: its next statement, and the flag.         *)
LEMMA EventStepKeeps ==
  ASSUME EventInv, NEW t \in Threads, t = current, EventStep(t)
  PROVE  EventInv'
<1> USE DEF EventInv, SignalNotLost
<1>0. EventTypeOK /\ CSTypeOK
  BY DEF EventTypeOK
<1> DEFINE Calls == /\ op' \in [Threads -> WaitOps \cup SignalOps \cup {"idle"}]
                    /\ thread' \in Waiters \cup {None} /\ calls' \in 0 .. MaxCalls
                    /\ signaled' \in BOOLEAN /\ fresh' \in BOOLEAN
                    /\ state' \in [Threads -> ThreadState] /\ current' \in Threads
                    /\ fresh' => signaled' \/ \E u \in Threads : op'[u] = "wReturn"
                    /\ CallsInv'
           Locks == \E u \in Threads : \/ Enter(u) \/ CmpXchg(u) \/ Test(u) \/ Leave(u)
                                       \/ Resume(u) \/ UNCHANGED lockVars
<1> USE DEF WaitOps, SignalOps, ThreadState, EventTypeOK, CSTypeOK, DispatchTypeOK
<1>1. ASSUME Calls, Locks PROVE EventInv'
  BY <1>0, <1>1, LockSteps
<1>2. CASE Acquire(t)
  <2>1. Locks
    BY <1>2 DEF Acquire
  <2>2. Calls
    BY <1>2 DEF Acquire, eventVars, CallsInv
  <2> QED
    BY <1>1, <2>1, <2>2
<1>3. CASE WaitCheck(t)
  <2>1. Calls
    BY <1>3 DEF WaitCheck, Goto, CallsInv
  <2> QED
    BY <1>1, <1>3, <2>1 DEF WaitCheck
<1>4. CASE WaitRecord(t)
  <2>1. Calls
    BY <1>4, EventAssumption DEF WaitRecord, Goto, CallsInv
  <2> QED
    BY <1>1, <1>4, <2>1 DEF WaitRecord
<1>5. CASE WaitMark(t)
  <2>1. Calls
    BY <1>5 DEF WaitMark, Goto, CallsInv
  <2> QED
    BY <1>1, <1>5, <2>1 DEF WaitMark
<1>6. CASE WaitLeave(t)
  <2>1. Calls
    BY <1>6 DEF WaitLeave, Goto, CallsInv
  <2> QED
    BY <1>1, <1>6, <2>1 DEF WaitLeave
<1>7. CASE WaitSwitch(t)
  <2>1. /\ op[t] = "wSwitch" /\ op' = [op EXCEPT ![t] = "wReset"]
        /\ UNCHANGED <<signaled, thread, calls, fresh>>
    BY <1>7 DEF WaitSwitch, Goto
  <2>2. CASE UNCHANGED <<current, state, lockVars>>
    <3>1. Calls
      BY <2>1, <2>2 DEF CallsInv
    <3> QED
      BY <1>1, <2>2, <3>1
  <2>3. CASE \E u \in Threads : Switch(u) /\ Resume(u)
    <3>1. Locks
      BY <2>3
    <3>2. current' \in Threads /\ state' \in [Threads -> ThreadState]
      BY <2>3 DEF Switch, SwitchTo
    <3>3. Calls
      BY <2>1, <3>2 DEF CallsInv
    <3> QED
      BY <1>1, <3>1, <3>3
  <2> QED
    BY <1>7, <2>2, <2>3 DEF WaitSwitch
<1>8. CASE WaitReset(t)
  <2>1. Calls
    BY <1>8 DEF WaitReset, Goto, CallsInv
  <2> QED
    BY <1>1, <1>8, <2>1 DEF WaitReset
<1>9. CASE WaitReturn(t)
  <2>1. Calls
    BY <1>9 DEF WaitReturn, Goto, CallsInv
  <2> QED
    BY <1>1, <1>9, <2>1 DEF WaitReturn
<1>10. CASE SignalSet(t)
  <2>1. Calls
    BY <1>10 DEF SignalSet, Goto, CallsInv
  <2> QED
    BY <1>1, <1>10, <2>1 DEF SignalSet
<1>11. CASE SignalWake(t)
  <2>1. Calls
    BY <1>11 DEF SignalWake, Goto, CallsInv
  <2> QED
    BY <1>1, <1>11, <2>1 DEF SignalWake
<1>12. CASE SignalReturn(t)
  <2>1. Calls
    BY <1>12 DEF SignalReturn, Goto, CallsInv
  <2> QED
    BY <1>1, <1>12, <2>1 DEF SignalReturn
<1> QED
  BY <1>2, <1>3, <1>4, <1>5, <1>6, <1>7, <1>8, <1>9, <1>10, <1>11, <1>12 DEF EventStep

(* Starting, being preempted and calling keep it too.                      *)
LEMMA EventInvStep == EventInv /\ [EventNext]_allVars => EventInv'
<1> SUFFICES ASSUME EventInv, [EventNext]_allVars PROVE EventInv'
  OBVIOUS
<1>0. EventTypeOK /\ CSTypeOK /\ HeldWordHasOwner
  BY DEF EventInv, SignalNotLost, EventTypeOK
<1>1. ASSUME NEW t \in Threads, BootKernel(t) PROVE EventInv'
  BY <1>1 DEF BootKernel, Boot, lockVars, eventVars, EventInv, SignalNotLost, EventTypeOK,
     CSTypeOK, DispatchTypeOK, HeldWordHasOwner, Inside, CallsInv
<1>2. ASSUME NEW t \in Threads, Preempt(t), UNCHANGED eventVars PROVE EventInv'
  <2>1. /\ word' \in {0, 1} /\ lockPc' \in [Threads -> LockPc]
        /\ eax' \in [Threads -> EaxValue] /\ midway' \in BOOLEAN /\ HeldWordHasOwner'
    BY <1>0, <1>2, LockSteps DEF Preempt
  <2>2. current' \in Threads /\ state' \in [Threads -> ThreadState]
    BY <1>0, <1>2, ResumeEffect
  <2> QED
    BY <1>2, <2>1, <2>2 DEF eventVars, EventInv, SignalNotLost, EventTypeOK, CSTypeOK,
       DispatchTypeOK, CallsInv
<1>3. ASSUME NEW t \in Threads,
             \/ t \in Waiters /\ Call(t, "wCheck")
             \/ t \in Signalers /\ Call(t, "sSet")
      PROVE EventInv'
  <2>1. PICK first \in {"wCheck", "sSet"} :
          (first = "wCheck" => t \in Waiters) /\ Call(t, first)
    BY <1>3
  <2>2. /\ word' \in {0, 1} /\ lockPc' \in [Threads -> LockPc]
        /\ eax' \in [Threads -> EaxValue] /\ midway' \in BOOLEAN /\ HeldWordHasOwner'
    BY <1>0, <2>1, LockSteps DEF Call
  <2>3. /\ op[t] = "idle" /\ op' = [op EXCEPT ![t] = first]
        /\ calls' \in 0 .. MaxCalls
        /\ UNCHANGED <<current, state, signaled, thread, fresh>>
    BY <1>0, <2>1, EventAssumption DEF Call, Goto, EventTypeOK
  <2>4. CallsInv' /\ op' \in [Threads -> WaitOps \cup SignalOps \cup {"idle"}]
    <3>1. op \in [Threads -> WaitOps \cup SignalOps \cup {"idle"}]
      BY <1>0 DEF EventTypeOK
    <3>2. op' \in [Threads -> WaitOps \cup SignalOps \cup {"idle"}]
      BY <2>3, <3>1 DEF WaitOps, SignalOps
    <3>3. op'[t] = first /\ \A u \in Threads \ {t} : op'[u] = op[u]
      BY <2>3, <3>1
    <3>4. first \notin {"wMark", "wLeave"} /\ (first \in WaitOps => t \in Waiters)
      BY <2>1 DEF WaitOps
    <3> QED
      BY <2>3, <3>2, <3>3, <3>4 DEF CallsInv, EventInv
  <2>5. ASSUME fresh', ~signaled' PROVE \E u \in Threads : op'[u] = "wReturn"
    <3>1. PICK u \in Threads : op[u] = "wReturn"
      BY <2>3, <2>5 DEF EventInv, SignalNotLost
    <3>2. u # t
      BY <2>3, <3>1
    <3> QED
      BY <1>0, <2>3, <3>1, <3>2 DEF EventTypeOK
  <2> QED
    BY <1>0, <2>2, <2>3, <2>4, <2>5 DEF EventInv, SignalNotLost, EventTypeOK, CSTypeOK,
       DispatchTypeOK
<1>4. CASE UNCHANGED allVars
  BY <1>4 DEF allVars, EventInv, SignalNotLost, EventTypeOK,
     CSTypeOK, DispatchTypeOK, HeldWordHasOwner, Inside, CallsInv
<1> QED
  BY <1>1, <1>2, <1>3, <1>4, EventStepKeeps DEF EventNext

(* The inductive invariant of the event.                                   *)
THEOREM EventInvariant == EventSpec => []EventInv
<1>1. EventInit => EventInv
  <2> SUFFICES ASSUME EventInit PROVE EventInv
    OBVIOUS
  <2> USE DEF EventInit, CSInit, DispatchInit, LockInit
  <2>1. CSTypeOK
    BY DEF CSTypeOK, DispatchTypeOK, ThreadState, LockPc, EaxValue
  <2>2. HeldWordHasOwner
    BY DEF HeldWordHasOwner
  <2>3. op \in [Threads -> WaitOps \cup SignalOps \cup {"idle"}] /\ calls \in 0 .. MaxCalls
    BY EventAssumption DEF EventInit
  <2>4. EventTypeOK
    BY <2>1, <2>3 DEF EventTypeOK
  <2>5. CallsInv
    BY DEF CallsInv, WaitOps
  <2> QED
    BY <2>2, <2>4, <2>5 DEF EventInv, SignalNotLost
<1> QED
  BY <1>1, EventInvStep, PTL DEF EventSpec

(* A signal stays visible until a waiter that cleared it returns           *)
(* (EventWait, EventSignal), with any number of waiters.                   *)
THEOREM EventSignalNotLost == EventSpec => []SignalNotLost
BY EventInvariant, PTL DEF EventInv

(* The critical section of an event never stays taken by nobody, although  *)
(* EventWait leaves it twice.                                              *)
THEOREM EventHeldWordHasOwner == EventSpec => []HeldWordHasOwner
BY EventInvariant, PTL DEF EventInv

-----------------------------------------------------------------------------
(* With one waiter, the thread that the event holds is the one that is in  *)
(* EventWait.                                                              *)
OneWaiter == \A t, u \in Waiters : t = u
MarkInv ==
  /\ OnlyCurrentWaits
  /\ \A t \in Threads : op[t] = "wMark" => thread = t

(* The thread that marks itself runs; whoever loses the processor is       *)
(* paused.                                                                 *)
LEMMA MarkStep ==
  ASSUME OneWaiter, EventInv, MarkInv, EventInv', [EventNext]_allVars
  PROVE  MarkInv'
<1>0. EventTypeOK /\ CSTypeOK
  BY DEF EventInv, SignalNotLost, EventTypeOK
<1>1. \A t \in Threads : op'[t] = "wMark" => thread' = t
  BY EventAssumption DEF OneWaiter, EventInv, CallsInv, SignalNotLost, EventTypeOK, WaitOps
<1> USE DEF MarkInv, OnlyCurrentWaits, EventTypeOK, CSTypeOK, DispatchTypeOK
<1>2. ASSUME NEW t \in Threads, BootKernel(t) PROVE OnlyCurrentWaits'
  BY <1>2, NoneIsNoThread DEF BootKernel, Boot
<1>3. ASSUME NEW t \in Threads, Switch(t) PROVE OnlyCurrentWaits'
  BY <1>0, <1>3 DEF Switch, SwitchTo
<1>4. ASSUME UNCHANGED <<current, state>> PROVE OnlyCurrentWaits'
  BY <1>4
<1>5. ASSUME NEW t \in Threads, t = current, WaitMark(t) PROVE OnlyCurrentWaits'
  BY <1>0, <1>5 DEF WaitMark
<1>6. ASSUME NEW t \in Threads, SignalWake(t) PROVE OnlyCurrentWaits'
  BY <1>0, <1>6 DEF SignalWake
<1>7. ASSUME NEW t \in Threads, WaitSwitch(t) PROVE OnlyCurrentWaits'
  BY <1>3, <1>4, <1>7 DEF WaitSwitch
<1>8. ASSUME NEW t \in Threads,
             \/ Call(t, "wCheck") \/ Call(t, "sSet") \/ Acquire(t)
             \/ WaitCheck(t) \/ WaitRecord(t) \/ WaitLeave(t) \/ WaitReset(t) \/ WaitReturn(t)
             \/ SignalSet(t) \/ SignalReturn(t)
      PROVE UNCHANGED <<current, state>>
  BY <1>8 DEF Call, Acquire, WaitCheck, WaitRecord, WaitLeave, WaitReset, WaitReturn,
     SignalSet, SignalReturn
<1>9. UNCHANGED allVars => UNCHANGED <<current, state>>
  BY DEF allVars
<1> HIDE DEF OnlyCurrentWaits
<1>10. OnlyCurrentWaits'
  BY <1>2, <1>3, <1>4, <1>5, <1>6, <1>7, <1>8, <1>9 DEF EventNext, EventStep, Preempt
<1> QED
  BY <1>1, <1>10

(* As long as an event has one waiter, as IpcServer::Receive gives it,     *)
(* only the thread that runs is WAITING: EventWait never blocks a thread.  *)
THEOREM EventOnlyCurrentWaits == OneWaiter /\ EventSpec => []OnlyCurrentWaits
<1>1. EventInit => MarkInv
  BY DEF EventInit, CSInit, DispatchInit, MarkInv, OnlyCurrentWaits
<1>2. OneWaiter /\ EventInv /\ EventInv' /\ MarkInv /\ [EventNext]_allVars => MarkInv'
  BY MarkStep
<1>3. MarkInv => OnlyCurrentWaits
  BY DEF MarkInv
<1>4. CASE OneWaiter
  BY <1>1, <1>2, <1>3, <1>4, EventInvariant, PTL DEF EventSpec
<1> QED
  BY <1>4

=============================================================================
