--------------------------- MODULE CriticalSection ---------------------------
(***************************************************************************)
(* CriticalSection::Enter and Leave (kernel/lib/CriticalSection.cpp) down  *)
(* to the instructions of _acquire_lock and _release_lock                  *)
(* (kernel/lib/asm_helper.asm).  System calls run with the interrupts      *)
(* enabled, so the clock may take the processor between any two            *)
(* instructions; the thread is resumed by _startOrResumeThread             *)
(* (kernel/arch/x86/thread_utils.asm).                                     *)
(***************************************************************************)
EXTENDS Dispatcher, Integers

VARIABLES
  word,       (* CriticalSection::_value                                  *)
  lockPc,     (* where each thread is in Enter ... Leave                  *)
  eax,        (* each thread's eax, only meaningful inside _acquire_lock  *)
  midway      (* history: a thread was resumed inside _acquire_lock       *)

lockVars == <<word, lockPc, eax, midway>>
csVars == <<current, state, word, lockPc, eax, midway>>

(* "out": not in the critical section; "try": about to execute cmpxchg;    *)
(* "test": about to compare eax with 1; "in": Enter has returned.          *)
LockPc == {"out", "try", "test", "in"}

(* _startOrResumeThread pops the saved eax and then overwrites ax, first   *)
(* with 0x23, then its low byte with 0x20 to acknowledge the interrupt:    *)
(* the values 0 and 1 both come back as 0x20.                              *)
AxAfterResume == 32

EaxValue == {0, 1, AxAfterResume}

LockInit ==
  /\ word = 0
  /\ lockPc = [t \in Threads |-> "out"]
  /\ eax = [t \in Threads |-> 0]
  /\ midway = FALSE

(* What resuming a thread does to its registers.                           *)
Resume(t) ==
  /\ eax' = [eax EXCEPT ![t] = AxAfterResume]
  /\ midway' = (midway \/ lockPc[t] \in {"try", "test"})
  /\ UNCHANGED <<word, lockPc>>

(* The start of _acquire_lock: mov eax, 0.                                 *)
Enter(t) ==
  /\ lockPc[t] = "out"
  /\ lockPc' = [lockPc EXCEPT ![t] = "try"]
  /\ eax' = [eax EXCEPT ![t] = 0]
  /\ UNCHANGED <<word, midway>>

(* Mutant of CmpXchg: eax does not receive the word when the comparison    *)
(* fails.                                                                  *)
CmpXchgKeepsEax(t) ==
  /\ lockPc[t] = "try"
  /\ lockPc' = [lockPc EXCEPT ![t] = "test"]
  /\ word' = IF word = eax[t] THEN 1 ELSE word
  /\ UNCHANGED <<eax, midway>>

(* lock cmpxchg [word], 1: on a match the word becomes 1, otherwise eax    *)
(* receives the word.  eax is not reset to 0 before the next attempt.      *)
CmpXchg(t) ==
  /\ lockPc[t] = "try"
  /\ lockPc' = [lockPc EXCEPT ![t] = "test"]
  /\ IF word = eax[t]
       THEN word' = 1 /\ UNCHANGED eax
       ELSE eax' = [eax EXCEPT ![t] = word] /\ UNCHANGED word
  /\ UNCHANGED midway

(* cmp eax, 1; je .spin_wait                                               *)
Test(t) ==
  /\ lockPc[t] = "test"
  /\ lockPc' = [lockPc EXCEPT ![t] = IF eax[t] = 1 THEN "try" ELSE "in"]
  /\ UNCHANGED <<word, eax, midway>>

(* Mutant of Leave: the word is not released.                              *)
LeaveKeepsWord(t) ==
  /\ lockPc' = [lockPc EXCEPT ![t] = "out"]
  /\ UNCHANGED <<word, eax, midway>>

(* _release_lock: the word becomes 0 whoever holds it.                     *)
Leave(t) ==
  /\ word' = 0
  /\ lockPc' = [lockPc EXCEPT ![t] = "out"]
  /\ UNCHANGED <<eax, midway>>

-----------------------------------------------------------------------------
(* Threads that enter and leave one critical section, again and again.     *)
CSInit == DispatchInit /\ LockInit

(* The clock takes the processor from the current thread.                  *)
Preempt(t) == Switch(t) /\ Resume(t)

ThreadStep(t) ==
  /\ t = current
  /\ \/ Enter(t)
     \/ CmpXchg(t)
     \/ Test(t)
     \/ lockPc[t] = "in" /\ Leave(t)
  /\ UNCHANGED dispatchVars

CSNext ==
  \E t \in Threads :
    \/ Boot(t) /\ UNCHANGED lockVars
    \/ Preempt(t)
    \/ ThreadStep(t)

CSSpec == CSInit /\ [][CSNext]_csVars

(* Every thread gets the processor again and again (EveryThreadRuns of     *)
(* Scheduler) for a time slice of many instructions, and does not stop     *)
(* inside the acquisition or the critical section.                         *)
CSFairSpec ==
  /\ CSSpec
  /\ WF_csVars(\E t \in Threads : Boot(t) /\ UNCHANGED lockVars)
  /\ \A t \in Threads : SF_csVars(Preempt(t))
  /\ \A t \in Threads : SF_csVars(ThreadStep(t) /\ lockPc[t] # "out")

-----------------------------------------------------------------------------
(* Enter has returned for t, or nothing can stop it from returning.        *)
Inside(t) == \/ lockPc[t] = "in"
             \/ lockPc[t] = "test" /\ eax[t] # 1

CSTypeOK ==
  /\ DispatchTypeOK
  /\ word \in {0, 1}
  /\ lockPc \in [Threads -> LockPc]
  /\ eax \in [Threads -> EaxValue]
  /\ midway \in BOOLEAN

(* The word is never left taken by nobody: whoever set it is still inside, *)
(* even after several threads got in together.                             *)
HeldWordHasOwner == word = 1 => \E t \in Threads : Inside(t)

(* The lock excludes as long as it does not have to wait: until a thread   *)
(* is resumed inside _acquire_lock, one thread at most is inside, and the  *)
(* word says so.  On one processor every successful wait goes through such *)
(* a resumption.                                                           *)
ExclusionUntilMidway ==
  ~midway =>
    /\ \A t, u \in Threads : Inside(t) /\ Inside(u) => t = u
    /\ (\E t \in Threads : Inside(t)) => word = 1

(* The inductive invariant: before any resumption inside the acquisition,  *)
(* the running thread's eax is the one its last instruction left.          *)
RunningEax ==
  /\ (~midway /\ current # None) =>
       /\ lockPc[current] = "try" => eax[current] \in {0, 1}
       /\ (lockPc[current] \in {"try", "test"} /\ eax[current] = 1) => word = 1
  /\ current = None => \A t \in Threads : lockPc[t] = "out"

CSInv == CSTypeOK /\ HeldWordHasOwner /\ ExclusionUntilMidway /\ RunningEax

(* Somebody who wants in means that somebody gets in (asm_helper.asm,      *)
(* .spin_wait).                                                            *)
SomeoneEnters ==
  (\E t \in Threads : lockPc[t] \in {"try", "test"})
    ~> (\E t \in Threads : lockPc[t] = "in")

(* What a critical section is for.                                         *)
MutualExclusion ==
  \A t, u \in Threads : lockPc[t] = "in" /\ lockPc[u] = "in" => t = u

=============================================================================
