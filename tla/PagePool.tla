------------------------------ MODULE PagePool ------------------------------
(***************************************************************************)
(* The pool of kernel pages (kernel/mem/PagePool.cpp): Allocate moves the  *)
(* head of the available list to the used list, Free looks a page up in    *)
(* the used list and moves it back.  Nothing protects the two lists, and   *)
(* the callers run with the interrupts enabled: a call is cut where        *)
(* another thread can see it half done.                                    *)
(*                                                                         *)
(* The fields prev and available of a PageBlock are written and never      *)
(* read by the code, so they are left out; so is the physical frame, which *)
(* gPmm gives and takes back.                                              *)
(***************************************************************************)
EXTENDS Integers, FiniteSets

CONSTANTS
  NbPages,    (* pages of the pool                                        *)
  Callers     (* threads that allocate and release pages                  *)

ASSUME PoolAssumption == NbPages \in Nat \ {0}

Blocks == 1 .. NbPages
Null == 0

VARIABLES
  availPageList, usedPageList,   (* the heads of the two lists            *)
  next,                          (* PageBlock::next                       *)
  pc,                            (* where each caller is                  *)
  block,                         (* newPage, or usedPage, of each caller  *)
  handed,                        (* the pages each caller was given       *)
  free,                          (* history: pages put on the available   *)
                                 (* list and not taken from it since      *)
  overlap,                       (* history: two calls overlapped         *)
  inner                          (* history: a page that is not the head  *)
                                 (* of the used list was released         *)

poolVars == <<availPageList, usedPageList, next, pc, block, handed, free,
              overlap, inner>>

(* _InitPagesList: the blocks are chained in the order of their addresses. *)
PoolInit ==
  /\ availPageList = 1
  /\ usedPageList = Null
  /\ next = [b \in Blocks |-> IF b = NbPages THEN Null ELSE b + 1]
  /\ pc = [c \in Callers |-> "idle"]
  /\ block = [c \in Callers |-> Null]
  /\ handed = [c \in Callers |-> {}]
  /\ free = Blocks
  /\ overlap = FALSE
  /\ inner = FALSE

(* A caller goes to another statement; the history notes whether another   *)
(* call is in progress.                                                    *)
Step(c, from, to) ==
  /\ pc[c] = from
  /\ pc' = [pc EXCEPT ![c] = to]
  /\ overlap' = (overlap \/ \E d \in Callers \ {c} : pc[d] # "idle")

-----------------------------------------------------------------------------
(* newPage = _availPageList; an empty pool is reported by an address 0.    *)
AllocateLoad(c) ==
  /\ Step(c, "idle", IF availPageList = Null THEN "idle" ELSE "pop")
  /\ block' = [block EXCEPT ![c] = availPageList]
  /\ UNCHANGED <<availPageList, usedPageList, next, handed, free, inner>>

(* Mutant of AllocatePop: the head stays on the available list.            *)
AllocatePopKeepsHead(c) ==
  /\ Step(c, "pop", "push")
  /\ free' = free \ {block[c]}
  /\ UNCHANGED <<availPageList, usedPageList, next, block, handed, inner>>

(* _availPageList = newPage->next                                          *)
AllocatePop(c) ==
  /\ Step(c, "pop", "push")
  /\ availPageList' = next[block[c]]
  /\ free' = free \ {block[c]}
  /\ UNCHANGED <<usedPageList, next, block, handed, inner>>

(* Mutant of AllocatePush: the page is not put on the used list.           *)
AllocatePushUnlisted(c) ==
  /\ Step(c, "push", "idle")
  /\ handed' = [handed EXCEPT ![c] = @ \cup {block[c]}]
  /\ block' = [block EXCEPT ![c] = Null]
  /\ UNCHANGED <<availPageList, usedPageList, next, free, inner>>

(* The page becomes the head of the used list and is returned.             *)
AllocatePush(c) ==
  /\ Step(c, "push", "idle")
  /\ usedPageList' = block[c]
  /\ next' = [next EXCEPT ![block[c]] = usedPageList]
  /\ handed' = [handed EXCEPT ![c] = @ \cup {block[c]}]
  /\ block' = [block EXCEPT ![c] = Null]
  /\ UNCHANGED <<availPageList, free, inner>>

-----------------------------------------------------------------------------
(* The used list as Free walks it: NbPages + 1 elements are enough to meet *)
(* every block of the list, or to know that it has no end.                 *)
UsedWalk[i \in 0 .. NbPages] ==
  IF i = 0 THEN usedPageList
  ELSE IF UsedWalk[i - 1] = Null THEN Null ELSE next[UsedWalk[i - 1]]

OnUsedList(b) == \E i \in 0 .. NbPages : UsedWalk[i] = b

(* Where the walk for page b leads: to the release of its block, to the    *)
(* end of the list and the end of the call, or round and round.            *)
WalkOutcome(b) ==
  IF OnUsedList(b) THEN "release"
  ELSE IF UsedWalk[NbPages] = Null THEN "idle" ELSE "loop"

(* Free(page): the walk, and the removal of the block from the used list.  *)
(* The head is removed; for any other block usedPage->prev is overwritten, *)
(* and the block that precedes it keeps pointing to it.                    *)
FreeWalk(c, b) ==
  /\ b \in handed[c]
  /\ Step(c, "idle", WalkOutcome(b))
  /\ handed' = [handed EXCEPT ![c] = @ \ {b}]
  /\ block' = [block EXCEPT ![c] = IF OnUsedList(b) THEN b ELSE Null]
  /\ usedPageList' = IF b = usedPageList THEN next[b] ELSE usedPageList
  /\ inner' = (inner \/ b # usedPageList)
  /\ UNCHANGED <<availPageList, next, free>>

(* The block becomes the head of the available list.  When that list is    *)
(* empty, _availPageList->prev is written in page 0, which the kernel maps *)
(* (Vmm::SetIdentityMapping): the lists are not affected.                  *)
FreePush(c) ==
  /\ Step(c, "release", "idle")
  /\ availPageList' = block[c]
  /\ next' = [next EXCEPT ![block[c]] = availPageList]
  /\ free' = free \cup {block[c]}
  /\ block' = [block EXCEPT ![c] = Null]
  /\ UNCHANGED <<usedPageList, handed, inner>>

PoolNext ==
  \E c \in Callers :
    \/ AllocateLoad(c) \/ AllocatePop(c) \/ AllocatePush(c)
    \/ FreePush(c)
    \/ \E b \in Blocks : FreeWalk(c, b)

PoolSpec == PoolInit /\ [][PoolNext]_poolVars

-----------------------------------------------------------------------------
PoolTypeOK ==
  /\ availPageList \in Blocks \cup {Null}
  /\ usedPageList \in Blocks \cup {Null}
  /\ next \in [Blocks -> Blocks \cup {Null}]
  /\ pc \in [Callers -> {"idle", "pop", "push", "release", "loop"}]
  /\ block \in [Callers -> Blocks \cup {Null}]
  /\ handed \in [Callers -> SUBSET Blocks]
  /\ free \subseteq Blocks
  /\ overlap \in BOOLEAN
  /\ inner \in BOOLEAN

Quiet == \A c \in Callers : pc[c] = "idle"

(* As long as the calls do not overlap, a page is given to one caller, who *)
(* is alone to use it until it is released: neither another caller nor the *)
(* available list has it, whatever Free did to the used list.              *)
NoPageTwice ==
  ~overlap =>
    /\ \A c \in Callers : handed[c] \cap free = {}
    /\ \A c, d \in Callers : c # d => handed[c] \cap handed[d] = {}

(* As long as, besides, every page released is the last one allocated, no  *)
(* page is lost: the used list has exactly the pages in use, the available *)
(* list exactly the others.                                                *)
ConservedUntilInner ==
  /\ PoolTypeOK
  /\ (~overlap /\ ~inner /\ Quiet) =>
       \A b \in Blocks :
         /\ OnUsedList(b) <=> \E c \in Callers : b \in handed[c]
         /\ b \in free <=> ~OnUsedList(b)

(* The blocks of the available list, as Allocate goes through them.        *)
AvailLinked ==
  ~overlap =>
    /\ availPageList \in free \cup {Null}
    /\ \A b \in free : next[b] \in free \cup {Null}
    /\ \A b \in free : next[b] # Null => next[b] # availPageList
    /\ \A b, d \in free : next[b] = next[d] /\ next[b] # Null => b = d

(* What a call in progress, alone, knows of the block it moves.            *)
CallAlone ==
  ~overlap =>
    /\ \A c, d \in Callers : pc[c] # "idle" /\ pc[d] # "idle" => c = d
    /\ \A c \in Callers : pc[c] = "pop" => block[c] = availPageList /\ block[c] # Null
    /\ \A c \in Callers : pc[c] \in {"push", "release"} =>
         /\ block[c] \in Blocks \ free
         /\ \A d \in Callers : block[c] \notin handed[d]

(* The inductive invariant: a block being moved is on a list or in a       *)
(* caller's hands, never both.                                             *)
PoolInv ==
  /\ PoolTypeOK
  /\ \A c \in Callers : pc[c] \in {"pop", "push", "release"} => block[c] # Null
  /\ NoPageTwice
  /\ AvailLinked
  /\ CallAlone

=============================================================================
