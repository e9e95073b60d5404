----------------------------- MODULE Dispatcher -----------------------------
(***************************************************************************)
(* What the rest of the kernel can rely on from the scheduler: which       *)
(* thread owns the single processor, and what happens to the state field   *)
(* of a thread when the processor changes hands.                           *)
(*                                                                         *)
(* The clock, time slices, priorities and the order of the thread list are *)
(* abstracted away: a switch may happen between any two instructions and   *)
(* may go to any other thread.  Scheduler.tla is the detailed              *)
(* specification and is shown to implement this one; CriticalSection,      *)
(* Event and the IPC modules run their threads on top of it.               *)
(***************************************************************************)
CONSTANTS
  Threads,   (* every thread of the system                               *)
  None       (* nullptr                                                  *)

ASSUME NoneIsNoThread == None \notin Threads

VARIABLES
  current,   (* Scheduler::_currentThread                                *)
  state      (* Thread::state                                            *)

dispatchVars == <<current, state>>

(* enum ThreadState; THREAD_STATE_DEAD is never assigned by the kernel.    *)
ThreadState == {"INIT", "RUNNING", "PAUSED", "WAITING"}

(* The RunnableThread(state) macro.                                        *)
RunnableThread(t) == state[t] \in {"RUNNING", "INIT", "PAUSED"}

(* Switching the processor to thread next: the thread that loses the       *)
(* processor becomes PAUSED whatever its state was, WAITING included.      *)
SwitchTo(next) ==
  /\ current' = next
  /\ state' = [state EXCEPT ![current] = "PAUSED", ![next] = "RUNNING"]

(***************************************************************************)
(* The abstract specification.                                             *)
(***************************************************************************)
DispatchInit ==
  /\ current = None
  /\ state = [t \in Threads |-> "INIT"]

(* The first thread given to the scheduler is the boot thread.             *)
Boot(t) ==
  /\ current = None
  /\ current' = t
  /\ UNCHANGED state

(* The clock, or the context switch interrupt, hands the processor over.   *)
Switch(t) ==
  /\ current \in Threads
  /\ t # current
  /\ RunnableThread(t)
  /\ SwitchTo(t)

(* The running thread declares itself waiting (EventWait).                 *)
Wait ==
  /\ current \in Threads
  /\ state' = [state EXCEPT ![current] = "WAITING"]
  /\ UNCHANGED current

(* The running thread marks a thread that waited as RUNNING (EventSignal). *)
Wake(t) ==
  /\ current \in Threads
  /\ state[t] # "INIT"
  /\ state' = [state EXCEPT ![t] = "RUNNING"]
  /\ UNCHANGED current

DispatchNext ==
  \/ \E t \in Threads : Boot(t) \/ Switch(t) \/ Wake(t)
  \/ Wait

DispatchSpec == DispatchInit /\ [][DispatchNext]_dispatchVars

-----------------------------------------------------------------------------
DispatchTypeOK ==
  /\ current \in Threads \cup {None}
  /\ state \in [Threads -> ThreadState]

(* A thread whose state is WAITING still owns the processor: as soon as    *)
(* the processor is taken from it, _SwitchToThread makes it PAUSED, and a  *)
(* paused thread is runnable.  Nothing in this kernel ever blocks.         *)
OnlyCurrentWaits == \A t \in Threads : state[t] = "WAITING" => t = current

=============================================================================
