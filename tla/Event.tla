-------------------------------- MODULE Event --------------------------------
(***************************************************************************)
(* EventWait and EventSignal (kernel/task/Event.cpp) on one event, one     *)
(* action per statement, over the instructions of the critical section of  *)
(* the event and a dispatcher that may take the processor anywhere.        *)
(***************************************************************************)
EXTENDS CriticalSection

CONSTANTS
  Waiters,      (* threads that call EventWait   (IpcHandler::Receive)    *)
  Signalers,    (* threads that call EventSignal (IpcBuffer::AddBytes)    *)
  MaxCalls      (* bound: calls made to the event in one behaviour        *)

ASSUME EventAssumption ==
  /\ Waiters \subseteq Threads
  /\ Signalers \subseteq Threads
  /\ MaxCalls \in Nat

VARIABLES
  signaled,   (* Event::signaled                                          *)
  thread,     (* Event::thread, the last thread that had to wait          *)
  op,         (* the next statement of each thread's call                 *)
  calls,      (* calls made so far                                        *)
  fresh       (* history: signaled since an EventWait last returned       *)

eventVars == <<signaled, thread, op, calls, fresh>>
allVars == <<current, state, word, lockPc, eax, midway,
             signaled, thread, op, calls, fresh>>

WaitOps == {"wCheck", "wRecord", "wMark", "wLeave", "wSwitch", "wReset", "wReturn"}
SignalOps == {"sSet", "sWake", "sReturn"}

EventInit ==
  /\ CSInit
  /\ signaled = FALSE
  /\ thread = None
  /\ op = [t \in Threads |-> "idle"]
  /\ calls = 0
  /\ fresh = FALSE

Goto(t, next) == op' = [op EXCEPT ![t] = next]

(* Both calls begin with criticalSection.Enter().                          *)
Call(t, first) ==
  /\ op[t] = "idle"
  /\ calls < MaxCalls
  /\ calls' = calls + 1
  /\ Goto(t, first)
  /\ Enter(t)
  /\ UNCHANGED <<current, state, signaled, thread, fresh>>

(* The instructions of Enter.                                              *)
Acquire(t) ==
  /\ CmpXchg(t) \/ Test(t)
  /\ UNCHANGED <<current, state>>
  /\ UNCHANGED eventVars

-----------------------------------------------------------------------------
(* if (evt->signaled == false)                                             *)
WaitCheck(t) ==
  /\ op[t] = "wCheck"
  /\ lockPc[t] = "in"
  /\ Goto(t, IF signaled THEN "wReset" ELSE "wRecord")
  /\ UNCHANGED <<current, state, signaled, thread, calls, fresh>>
  /\ UNCHANGED lockVars

(* evt->thread = gThreadManager.GetCurrentThread()                         *)
WaitRecord(t) ==
  /\ op[t] = "wRecord"
  /\ thread' = t
  /\ Goto(t, "wMark")
  /\ UNCHANGED <<current, state, signaled, calls, fresh>>
  /\ UNCHANGED lockVars

(* evt->thread->state = THREAD_STATE_WAITING; evt->thread is read again,   *)
(* another waiter may have replaced it.                                    *)
WaitMark(t) ==
  /\ op[t] = "wMark"
  /\ state' = [state EXCEPT ![thread] = "WAITING"]
  /\ Goto(t, "wLeave")
  /\ UNCHANGED <<current, signaled, thread, calls, fresh>>
  /\ UNCHANGED lockVars

(* evt->criticalSection.Leave()                                            *)
WaitLeave(t) ==
  /\ op[t] = "wLeave"
  /\ Leave(t)
  /\ Goto(t, "wSwitch")
  /\ UNCHANGED <<current, state, signaled, thread, calls, fresh>>

(* gScheduler.ContextSwitchInterrupt(): Schedules leaves the processor to  *)
(* the thread unless it is not runnable, or at the end of its slice.       *)
WaitSwitch(t) ==
  /\ op[t] = "wSwitch"
  /\ Goto(t, "wReset")
  /\ \/ /\ RunnableThread(t)
        /\ UNCHANGED <<current, state>>
        /\ UNCHANGED lockVars
     \/ \E u \in Threads : Switch(u) /\ Resume(u)
  /\ UNCHANGED <<signaled, thread, calls, fresh>>

(* evt->signaled = false, outside the critical section when the thread     *)
(* came through the context switch.                                        *)
WaitReset(t) ==
  /\ op[t] = "wReset"
  /\ signaled' = FALSE
  /\ Goto(t, "wReturn")
  /\ UNCHANGED <<current, state, thread, calls, fresh>>
  /\ UNCHANGED lockVars

(* The final Leave(), a second one when the thread has waited.             *)
WaitReturn(t) ==
  /\ op[t] = "wReturn"
  /\ Leave(t)
  /\ fresh' = FALSE
  /\ Goto(t, "idle")
  /\ UNCHANGED <<current, state, signaled, thread, calls>>

-----------------------------------------------------------------------------
(* Mutant of SignalSet: a signal is only recorded when nobody waits.       *)
SignalSetUnlessWaiter(t) ==
  /\ op[t] = "sSet"
  /\ lockPc[t] = "in"
  /\ signaled' = (signaled \/ thread = None)
  /\ fresh' = TRUE
  /\ Goto(t, "sWake")
  /\ UNCHANGED <<current, state, thread, calls>>
  /\ UNCHANGED lockVars

(* evt->signaled = true                                                    *)
SignalSet(t) ==
  /\ op[t] = "sSet"
  /\ lockPc[t] = "in"
  /\ signaled' = TRUE
  /\ fresh' = TRUE
  /\ Goto(t, "sWake")
  /\ UNCHANGED <<current, state, thread, calls>>
  /\ UNCHANGED lockVars

(* Mutant of SignalWake: the thread is left waiting.                       *)
SignalWakeWaiting(t) ==
  /\ op[t] = "sWake"
  /\ state' = [u \in Threads |-> IF u = thread THEN "WAITING" ELSE state[u]]
  /\ Goto(t, "sReturn")
  /\ UNCHANGED <<current, signaled, thread, calls, fresh>>
  /\ UNCHANGED lockVars

(* if (evt->thread != nullptr) evt->thread->state = THREAD_STATE_RUNNING;  *)
(* evt->thread is never reset to nullptr.                                  *)
SignalWake(t) ==
  /\ op[t] = "sWake"
  /\ state' = [u \in Threads |-> IF u = thread THEN "RUNNING" ELSE state[u]]
  /\ Goto(t, "sReturn")
  /\ UNCHANGED <<current, signaled, thread, calls, fresh>>
  /\ UNCHANGED lockVars

(* Mutant of SignalReturn: the critical section is not left.               *)
SignalReturnNoLeave(t) ==
  /\ op[t] = "sReturn"
  /\ lockPc' = [lockPc EXCEPT ![t] = "out"]
  /\ Goto(t, "idle")
  /\ UNCHANGED <<current, state, word, eax, midway, signaled, thread, calls, fresh>>

SignalReturn(t) ==
  /\ op[t] = "sReturn"
  /\ Leave(t)
  /\ Goto(t, "idle")
  /\ UNCHANGED <<current, state, signaled, thread, calls, fresh>>

-----------------------------------------------------------------------------
(* The boot thread ends in while (1): it makes no system call.             *)
BootKernel(t) ==
  /\ t \notin Waiters \cup Signalers
  /\ Boot(t)
  /\ UNCHANGED lockVars
  /\ UNCHANGED eventVars

EventStep(t) ==
  \/ Acquire(t)
  \/ WaitCheck(t) \/ WaitRecord(t) \/ WaitMark(t) \/ WaitLeave(t)
  \/ WaitSwitch(t) \/ WaitReset(t) \/ WaitReturn(t)
  \/ SignalSet(t) \/ SignalWake(t) \/ SignalReturn(t)

EventNext ==
  \E t \in Threads :
    \/ BootKernel(t)
    \/ Preempt(t) /\ UNCHANGED eventVars
    \/ t = current /\ t \in Waiters /\ Call(t, "wCheck")
    \/ t = current /\ t \in Signalers /\ Call(t, "sSet")
    \/ t = current /\ EventStep(t)

EventSpec == EventInit /\ [][EventNext]_allVars

(* As in CriticalSection: the scheduler runs every thread again and again, *)
(* and a thread inside a call goes on with it.                             *)
EventFairSpec ==
  /\ EventSpec
  /\ WF_allVars(\E t \in Threads : BootKernel(t))
  /\ \A t \in Threads : SF_allVars(Preempt(t) /\ UNCHANGED eventVars)
  /\ \A t \in Threads : SF_allVars(t = current /\ EventStep(t))

-----------------------------------------------------------------------------
EventTypeOK ==
  /\ CSTypeOK
  /\ signaled \in BOOLEAN
  /\ thread \in Waiters \cup {None}
  /\ op \in [Threads -> WaitOps \cup SignalOps \cup {"idle"}]
  /\ calls \in 0 .. MaxCalls
  /\ fresh \in BOOLEAN

(* A signal stays visible until a waiter that cleared it is returning,     *)
(* although the flag is cleared outside the critical section (Event.cpp,   *)
(* line 39).                                                               *)
SignalNotLost ==
  /\ EventTypeOK
  /\ fresh => signaled \/ \E t \in Threads : op[t] = "wReturn"

(* Every call returns: a thread that waits is resumed even if nobody ever  *)
(* signals, and the critical section of the event never stays taken.       *)
EveryCallReturns ==
  \A t \in Threads : (op[t] # "idle") ~> (op[t] = "idle")

=============================================================================
