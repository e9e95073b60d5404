------------------------------ MODULE Scheduler ------------------------------
(***************************************************************************)
(* The preemptive priority scheduler (kernel/task/Scheduler.cpp), the      *)
(* clock interrupt that drives it (kernel/drivers/Clock.cpp), the priority *)
(* levels of a thread (kernel/arch/x86/Thread.cpp) and the part of         *)
(* Kernel::Start that fills the thread list.                               *)
(*                                                                         *)
(* Both interrupts that call Schedules enter through an interrupt gate, so *)
(* Schedules is never interrupted: each interrupt is one action.  Threads  *)
(* act between interrupts, and only the thread that owns the processor.    *)
(***************************************************************************)
EXTENDS Dispatcher, Integers, Sequences

CONSTANTS
  Raisers,              (* threads whose program raises its own priority *)
  TICKS_PER_SECOND,     (* 1000 in Clock.cpp                             *)
  LIMIT_WORKING_TIME,   (* DEFAULT_THREAD_LIMIT_WORKING_TIME, 100        *)
  U32                   (* number of values of a u32, 2^32               *)

(* What the values in the code satisfy: 100 < 999 and 1100 <= 2^32.        *)
ASSUME ClockAssumption ==
  /\ TICKS_PER_SECOND \in Nat
  /\ LIMIT_WORKING_TIME \in Nat
  /\ U32 \in Nat
  /\ LIMIT_WORKING_TIME < TICKS_PER_SECOND - 1
  /\ TICKS_PER_SECOND + LIMIT_WORKING_TIME <= U32

ASSUME RaisersAssumption == Raisers \subseteq Threads

VARIABLES
  threadsList,   (* Scheduler::_threadsList; _nbThreads is its length    *)
  prio,          (* Thread::threadPriority                               *)
  ticsOnResume,  (* Thread::ticsOnResume                                 *)
  tics,          (* ClockDriver::tics                                    *)
  running,       (* Scheduler::_running; IRQs are enabled right after    *)
  inWait,        (* threads between state = WAITING and the end of the   *)
                 (* context switch interrupt they then raise             *)
  spinning,      (* the do-while loop of Schedules will never end        *)
  slice          (* history: clock interrupts taken by the current       *)
                 (* thread since it was resumed                          *)

clockVars == <<ticsOnResume, tics, slice>>
vars == <<current, state, threadsList, prio, ticsOnResume, tics, running,
          inWait, spinning, slice>>

(* enum ThreadPriorityLevel.                                               *)
THREAD_PRIORITY_NORMAL == 0
THREAD_PRIORITY_MAX == 2
Priority == THREAD_PRIORITY_NORMAL .. THREAD_PRIORITY_MAX

Listed(t) == \E i \in 1 .. Len(threadsList) : threadsList[i] = t

(* Mutant of SubU32: the subtraction done on signed integers.              *)
SubU32Signed(a, b) == a - b

(* Subtraction of two u32 values.                                          *)
SubU32(a, b) == IF a >= b THEN a - b ELSE a + U32 - b

-----------------------------------------------------------------------------
(* Scheduler::Init and ClockDriver::ClockDriver.                           *)
Init ==
  /\ DispatchInit
  /\ threadsList = <<>>
  /\ prio = [t \in Threads |-> THREAD_PRIORITY_NORMAL]
  /\ ticsOnResume = [t \in Threads |-> 0]
  /\ tics = 0
  /\ running = FALSE
  /\ inWait = {}
  /\ spinning = FALSE
  /\ slice = 0

(* Thread::CreateThread followed by Scheduler::AddThread.  ticsOnResume is *)
(* not initialised: any u32.  Threads are only created while the kernel    *)
(* boots, before the interrupts are enabled.                               *)
AddThread(t) ==
  /\ ~running
  /\ ~Listed(t)
  /\ threadsList' = Append(threadsList, t)
  /\ current' = IF current = None THEN t ELSE current
  /\ \E garbage \in 0 .. U32 - 1 :
       ticsOnResume' = [ticsOnResume EXCEPT ![t] = garbage]
  /\ UNCHANGED <<state, prio, tics, running, inWait, spinning, slice>>

(* The end of Kernel::Start: Scheduler::Start, then ENABLE_IRQ.            *)
Start ==
  /\ ~running
  /\ threadsList # <<>>
  /\ running' = TRUE
  /\ UNCHANGED <<current, state, threadsList, prio, inWait, spinning>>
  /\ UNCHANGED clockVars

-----------------------------------------------------------------------------
(* _PickNextThread: the element after the given thread, the top of the     *)
(* list when there is none.                                                *)
PickNextThread(t) ==
  LET n == Len(threadsList)
      i == CHOOSE j \in 1 .. n : threadsList[j] = t
  IN IF i < n THEN threadsList[i + 1] ELSE threadsList[1]

HasHigherThreadPriority(t) ==
  \E i \in 1 .. Len(threadsList) :
    /\ prio[threadsList[i]] > prio[t]
    /\ RunnableThread(threadsList[i])

(* The time the current thread has had, in u32 arithmetic.                 *)
Elapsed(now) == SubU32(now, ticsOnResume[current])

(* The condition under which Schedules looks for another thread.           *)
MustSwitch(now) ==
  /\ running
  /\ Len(threadsList) > 1
  /\ \/ Elapsed(now) > LIMIT_WORKING_TIME
     \/ HasHigherThreadPriority(current)
     \/ ~RunnableThread(current)

(* Mutant of Acceptable: only a strictly higher priority is accepted.      *)
AcceptableStrict(next) == prio[next] > prio[current] /\ RunnableThread(next)

(* The condition that ends the do-while loop.                              *)
Acceptable(next) ==
  /\ prio[next] >= prio[current]
  /\ RunnableThread(next)

(* Mutant of SwitchToThread: the old thread is not marked PAUSED.          *)
SwitchToThreadNoPause(next, now) ==
  /\ current' = next
  /\ state' = [state EXCEPT ![next] = "RUNNING"]
  /\ ticsOnResume' = [ticsOnResume EXCEPT ![next] = now]

(* _SwitchToThread with Thread::SaveState and Thread::StartOrResume.       *)
SwitchToThread(next, now) ==
  /\ SwitchTo(next)
  /\ ticsOnResume' = [ticsOnResume EXCEPT ![next] = now]

(* Scheduler::Schedules.  The candidate is computed from _currentThread,   *)
(* which the loop does not change: a candidate refused once is refused for *)
(* ever, with the interrupts disabled.                                     *)
Schedules(now) ==
  LET next == PickNextThread(current) IN
  \/ /\ ~MustSwitch(now)
     /\ UNCHANGED <<current, state, ticsOnResume, spinning>>
  \/ /\ MustSwitch(now)
     /\ Acceptable(next)
     /\ SwitchToThread(next, now)
     /\ UNCHANGED spinning
  \/ /\ MustSwitch(now)
     /\ ~Acceptable(next)
     /\ spinning' = TRUE
     /\ UNCHANGED <<current, state, ticsOnResume>>

-----------------------------------------------------------------------------
SliceCap == LIMIT_WORKING_TIME + 2

(* clock_isr: the tick counter restarts at zero every second.              *)
Clock ==
  /\ running
  /\ ~spinning
  /\ tics' = IF tics + 1 >= TICKS_PER_SECOND THEN 0 ELSE tics + 1
  /\ Schedules(tics')
  /\ slice' = IF current' # current THEN 0
              ELSE IF slice < SliceCap THEN slice + 1 ELSE slice
  /\ UNCHANGED <<threadsList, prio, running, inWait>>

(* The boot thread runs the final while (1) of Kernel::Start: only the     *)
(* other threads make system calls.                                        *)
UserThreadRuns ==
  /\ running
  /\ ~spinning
  /\ current # threadsList[1]
  /\ current \notin inWait

(* SysRaiseThreadPriority and Thread::RaisePriorityLevel.                  *)
RaisePriorityLevel ==
  /\ UserThreadRuns
  /\ current \in Raisers
  /\ prio[current] < THREAD_PRIORITY_MAX
  /\ prio' = [prio EXCEPT ![current] = @ + 1]
  /\ UNCHANGED <<current, state, threadsList, running, inWait, spinning>>
  /\ UNCHANGED clockVars

(* SysLowerThreadPriority and Thread::LowerPriorityLevel.                  *)
LowerPriorityLevel ==
  /\ UserThreadRuns
  /\ prio[current] > THREAD_PRIORITY_NORMAL
  /\ prio' = [prio EXCEPT ![current] = @ - 1]
  /\ UNCHANGED <<current, state, threadsList, running, inWait, spinning>>
  /\ UNCHANGED clockVars

(* EventWait marks the running thread as waiting ...                       *)
BeginWait ==
  /\ UserThreadRuns
  /\ Wait
  /\ inWait' = inWait \cup {current}
  /\ UNCHANGED <<threadsList, prio, running, spinning>>
  /\ UNCHANGED clockVars

(* ... and then raises the context switch interrupt; the clock may have    *)
(* preempted it, and resumed it as RUNNING, in between.                    *)
ContextSwitchInterrupt ==
  /\ running
  /\ ~spinning
  /\ current \in inWait
  /\ Schedules(tics)
  /\ inWait' = inWait \ {current}
  /\ slice' = IF current' # current THEN 0 ELSE slice
  /\ UNCHANGED <<threadsList, prio, tics, running>>

(* EventSignal marks the thread recorded in the event as RUNNING.          *)
Signal(t) ==
  /\ UserThreadRuns
  /\ Wake(t)
  /\ UNCHANGED <<threadsList, prio, running, inWait, spinning>>
  /\ UNCHANGED clockVars

Next ==
  \/ \E t \in Threads : AddThread(t) \/ Signal(t)
  \/ Start
  \/ Clock
  \/ RaisePriorityLevel
  \/ LowerPriorityLevel
  \/ BeginWait
  \/ ContextSwitchInterrupt

Spec == Init /\ [][Next]_vars

(* The hardware timer keeps interrupting: the interrupts are only masked   *)
(* inside an interrupt gate.                                               *)
FairSpec == Spec /\ WF_vars(Clock)

-----------------------------------------------------------------------------
TypeOK ==
  /\ DispatchTypeOK
  /\ threadsList \in Seq(Threads)
  /\ prio \in [Threads -> Priority]
  /\ ticsOnResume \in [Threads -> 0 .. U32 - 1]
  /\ tics \in 0 .. TICKS_PER_SECOND - 1
  /\ running \in BOOLEAN
  /\ inWait \subseteq Threads
  /\ spinning \in BOOLEAN
  /\ slice \in 0 .. SliceCap

(* Schedules only ever loops for ever on behalf of a thread that raised    *)
(* its priority: with every thread at NORMAL the successor in the list is  *)
(* always an acceptable candidate (Scheduler.cpp, lines 91-108).           *)
HangNeedsRaisedPriority ==
  spinning => prio[current] > THREAD_PRIORITY_NORMAL

(* A thread above NORMAL owns the processor and keeps it until it is back  *)
(* at NORMAL: HasHigherThreadPriority never finds anything, and there is   *)
(* never a second raised thread to hand the processor to.                  *)
RaisedOnlyWhenCurrent ==
  \A t \in Threads : prio[t] > THREAD_PRIORITY_NORMAL => t = current

(* With another thread to run, no thread takes more clock interrupts in a  *)
(* row than the limit, although tics restarts at zero every second: the    *)
(* u32 difference is then huge.  The boot thread, whose ticsOnResume was   *)
(* never written, may take one more.                                       *)
SliceBound ==
  (running /\ ~spinning /\ Len(threadsList) > 1)
    => slice <= LIMIT_WORKING_TIME + (IF state[current] = "INIT" THEN 1 ELSE 0)

(***************************************************************************)
(* The inductive invariant behind SliceBound and HangNeedsRaisedPriority.  *)
(***************************************************************************)

(* The list holds no thread twice, and the current thread is in it.        *)
ListOK ==
  /\ \A i, j \in 1 .. Len(threadsList) :
       threadsList[i] = threadsList[j] => i = j
  /\ current = None <=> threadsList = <<>>
  /\ current # None => Listed(current)
  /\ running => current # None

(* Until Start nothing has run; after it only the boot thread can own the  *)
(* processor without ever having been resumed.                             *)
BootOK ==
  /\ ~running => /\ tics = 0 /\ slice = 0 /\ ~spinning
                 /\ \A t \in Threads : state[t] = "INIT"
  /\ (current # None /\ state[current] = "INIT") => current = threadsList[1]

(* How many interrupts the current thread has taken, from the clock.       *)
SliceOfBootThread ==
  LET g == ticsOnResume[current] IN
  /\ slice = tics
  /\ tics > 0 => \/ g <= 1 /\ tics - g <= LIMIT_WORKING_TIME
                 \/ g > 1 /\ U32 + tics - g <= LIMIT_WORKING_TIME

SliceOfResumedThread ==
  /\ ticsOnResume[current] <= tics
  /\ slice = tics - ticsOnResume[current]
  /\ slice <= LIMIT_WORKING_TIME

SliceOK ==
  (running /\ ~spinning /\ Len(threadsList) > 1)
    => IF state[current] = "INIT" THEN SliceOfBootThread
                                  ELSE SliceOfResumedThread

SchedulerInv ==
  /\ TypeOK
  /\ ListOK
  /\ BootOK
  /\ OnlyCurrentWaits
  /\ RaisedOnlyWhenCurrent
  /\ HangNeedsRaisedPriority
  /\ SliceOK

(* Once the threads that raised their priority are back at NORMAL for good *)
(* every thread of the list runs again and again, waiting ones included.   *)
EveryThreadRuns ==
  <>[](\A t \in Threads : prio[t] = THREAD_PRIORITY_NORMAL)
    => \A t \in Threads : (running /\ Listed(t)) ~> (current = t)

(* The scheduler does to current and state only what the other components  *)
(* are told to expect.                                                     *)
ImplementsDispatcher == DispatchSpec

=============================================================================
