-------------------------------- MODULE Heap --------------------------------
(***************************************************************************)
(* The two heaps of the system: the kernel's (kernel/mem/Heap.cpp) and the *)
(* one of every process (StdLib/src/malloc.cpp).  They are the same        *)
(* first-fit allocator over blocks that follow each other in memory, each  *)
(* behind a header of its size and state; they differ in where the search  *)
(* stops, in how a request is rounded, in where pages come from and in     *)
(* what a release does with the blocks behind it.                          *)
(*                                                                         *)
(* Nothing protects the blocks.  The kernel heap is used by preemptible    *)
(* system calls: a call is cut where another thread can see it half done.  *)
(* A process has one thread.                                               *)
(***************************************************************************)
EXTENDS Integers, FiniteSets

CONSTANTS
  Callers,      (* threads that use the kernel heap                        *)
  UserThread,   (* the thread of the process                               *)
  PageSize, HeaderSize, MinBlock, Align,
  Limit,        (* where the space reserved for the heap ends              *)
  SizeMod,      (* sizes are kept modulo SizeMod: the 31 bits of a header  *)
  Sizes         (* sizes that are asked for                                *)

ASSUME HeapAssumption ==
  /\ UserThread \in Callers
  /\ HeaderSize = 1 /\ MinBlock \in Nat \ {0} /\ Align \in Nat \ {0}
  /\ PageSize \in Nat /\ PageSize > HeaderSize + MinBlock
  /\ Limit \in Nat /\ Limit >= PageSize /\ SizeMod \in Nat /\ SizeMod > Limit
  /\ Sizes \subseteq Nat \ {0}

VARIABLES
  kind,         (* which of the two heaps this is                          *)
  mem,          (* what each cell holds                                    *)
  last,         (* lastBlock: the end of the kernel heap, the last block   *)
                (* a process got from _Sbrk                                *)
  brk,          (* how far pages were given to the heap                    *)
  pc, req, blk, (* each call: where it is, the size with header, the block *)
  held,         (* the ranges in use, by whatever thread                   *)
  halted,       (* Panic, or a write through the null pointer              *)
  overlap,      (* history: two calls overlapped                           *)
  merged        (* history: two blocks were merged                         *)

heapVars == <<kind, mem, last, brk, pc, req, blk, held, halted, overlap, merged>>

Kinds == {"kernel", "user"}
Null == -1
Addresses == 0 .. Limit

(* A cell holds a header, zero, which reads as the header of a free block  *)
(* of size 0, or what a caller wrote, which is no header.                  *)
Hdr(s, u) == [size |-> s, used |-> u]
Zero == Hdr(0, FALSE)
Data == Hdr(-1, FALSE)

Fill(m, lo, hi, w) == [a \in Addresses |-> IF lo <= a /\ a < hi THEN w ELSE m[a]]

(* static unsigned int _local_mod(a, b), for a > 0: is there a remainder?  *)
LocalMod(a, b) == IF a % b = 0 THEN 0 ELSE 1

(* ClosestPow: the next multiple of y.                                     *)
ClosestPow(x, y) == y * ((x \div y) + LocalMod(x, y))

(* Heap::Allocate computes ClosestPow and does not use it.                 *)
BlockSize(n) ==
  IF kind = "kernel" THEN n + HeaderSize ELSE ClosestPow(n + HeaderSize, Align)

(* The pages that are asked for when no block is large enough.             *)
NbPages(r) ==
  LET ub == PageSize - HeaderSize
  IN IF r > ub THEN (r \div ub) + LocalMod(r, ub) ELSE 1

(* The memory after a new block of n pages was put at address a.           *)
NewBlock(m, a, n) ==
  [Fill(m, a + HeaderSize, a + n * PageSize, Zero) EXCEPT ![a] = Hdr(n * PageSize, FALSE)]

(* Heap::Init gives the heap its first page; InitMalloc leaves it to the   *)
(* first HeapAlloc.  Behind the pages given to the kernel heap the page    *)
(* tables lead to frame 0, which begins with the null descriptor of the    *)
(* GDT: zero.                                                              *)
HeapInit ==
  /\ kind \in Kinds
  /\ LET empty == [a \in Addresses |-> Zero]
     IN mem = IF kind = "kernel" THEN NewBlock(empty, 0, 1) ELSE empty
  /\ last = IF kind = "kernel" THEN PageSize ELSE Null
  /\ brk = IF kind = "kernel" THEN PageSize ELSE 0
  /\ pc = [c \in Callers |-> "idle"]
  /\ req = [c \in Callers |-> 0]
  /\ blk = [c \in Callers |-> Null]
  /\ held = {}
  /\ halted = FALSE /\ overlap = FALSE /\ merged = FALSE

(* A call goes on; the history notes whether another one is in progress.   *)
Step(c, from, to) ==
  /\ ~halted
  /\ pc[c] = from
  /\ pc' = [pc EXCEPT ![c] = to]
  /\ overlap' = (overlap \/ \E d \in Callers \ {c} : pc[d] # "idle")

(* The call returns: its locals are gone.                                  *)
Forget(c) == req' = [req EXCEPT ![c] = 0] /\ blk' = [blk EXCEPT ![c] = Null]

(* Bound: once calls overlapped nothing is promised any more, and no       *)
(* further call begins.                                                    *)
Begin(c) == ~halted /\ ~overlap /\ pc[c] = "idle"

(* The same, for a step that uses the header of its block.  After calls    *)
(* that overlapped a caller may have written over it: what the call does   *)
(* then is left open, and the call with it.                                *)
StepOnBlock(c, from, to) ==
  Step(c, from, IF mem[blk[c]] = Data THEN "lost" ELSE to)

-----------------------------------------------------------------------------
(* Heap::Sbrk and _Sbrk(n): n pages become a free block.  The kernel heap  *)
(* panics at its limit; Process::IncreaseHeap refuses, and _Sbrk writes    *)
(* the header at the null pointer it got.                                  *)
Sbrk(n) ==
  IF brk + n * PageSize > Limit
  THEN halted' = TRUE /\ UNCHANGED <<mem, last, brk>>
  ELSE /\ mem' = NewBlock(mem, brk, n)
       /\ brk' = brk + n * PageSize
       /\ last' = IF kind = "kernel" THEN brk + n * PageSize ELSE brk
       /\ UNCHANGED halted

(* Mutant of SearchEnds: the last block is looked at once too often.       *)
SearchEndsLate(a) == a > last

(* Where the walk over the blocks stops.                                   *)
SearchEnds(a) == IF kind = "kernel" THEN a >= last ELSE a > last

(* The walk of _Allocate from block a: the first free block of at least r, *)
(* Null at the end; "loop" on a block of size 0; "lost" on what is not a   *)
(* header, after overlapping calls.                                        *)
FirstFit(start, r) ==
  LET fit[a \in Nat] ==
        IF SearchEnds(a) THEN [res |-> "end", blk |-> Null]
        ELSE IF a \notin Addresses \/ mem[a] = Data THEN [res |-> "lost", blk |-> Null]
        ELSE IF ~mem[a].used /\ r <= mem[a].size THEN [res |-> "found", blk |-> a]
        ELSE IF mem[a].size = 0 THEN [res |-> "loop", blk |-> Null]
        ELSE fit[a + mem[a].size]
  IN fit[start]

(* HeapAlloc of a process: the first one asks for the first page.          *)
HeapAllocFirst(c) ==
  /\ kind = "user" /\ c = UserThread /\ last = Null
  /\ Step(c, "idle", "idle")
  /\ Sbrk(1)
  /\ UNCHANGED <<kind, req, blk, held, merged>>

(* Allocate(size), and the walk of _Allocate from the first block.         *)
AllocateSearch(c, n) ==
  /\ Begin(c)
  /\ kind = "user" => c = UserThread /\ last # Null
  /\ LET r == BlockSize(n)
         fit == FirstFit(0, r)
         to == [found |-> "split", end |-> "grow", loop |-> "loop", lost |-> "lost"]
     IN /\ Step(c, "idle", to[fit.res])
        /\ req' = [req EXCEPT ![c] = n]
        /\ blk' = [blk EXCEPT ![c] = fit.blk]
  /\ UNCHANGED <<kind, mem, last, brk, held, halted, merged>>

(* No block is large enough: pages are asked for, and the block they make  *)
(* is the one the second _Allocate begins, and ends, with.                 *)
AllocateGrow(c) ==
  /\ Step(c, "grow", "split")
  /\ Sbrk(NbPages(BlockSize(req[c])))
  /\ blk' = [blk EXCEPT ![c] = brk]
  /\ UNCHANGED <<kind, req, held, merged>>

(* _SplitBlock                                                             *)
SplitBlock(m, b, r) ==
  LET cut == [m EXCEPT ![b + r] = Hdr((m[b].size - r) % SizeMod, FALSE)]
  IN [cut EXCEPT ![b] = Hdr(r, @.used)]

(* A block much larger than the request is split.  The comparison is       *)
(* between unsigned numbers: a block that became too small, after          *)
(* overlapping calls, is split as well.                                    *)
AllocateSplit(c) ==
  /\ StepOnBlock(c, "split", "mark")
  /\ LET r == BlockSize(req[c])
         rest == mem[blk[c]].size - r
     IN mem' = IF \/ rest \in 0 .. HeaderSize + MinBlock - 1
                  \/ blk[c] + r \notin Addresses \/ mem[blk[c]] = Data
               THEN mem ELSE SplitBlock(mem, blk[c], r)
  /\ UNCHANGED <<kind, last, brk, req, blk, held, halted, merged>>

(* The range a call returns: what was asked for, behind the header.  The   *)
(* caller then writes to all of it.                                        *)
Given(c) ==
  LET lo == blk[c] + HeaderSize
      hi == lo + req[c]
  IN [lo |-> lo, hi |-> hi, copy |-> Cardinality({r \in held : r.lo = lo /\ r.hi = hi})]
Use(m, r) == Fill(m, r.lo, r.hi, Data)

(* Mutant of AllocateMark: the block stays free.                           *)
AllocateMarkNot(c) ==
  /\ StepOnBlock(c, "mark", "idle")
  /\ mem' = Use(mem, Given(c))
  /\ held' = held \cup {Given(c)}
  /\ Forget(c)
  /\ UNCHANGED <<kind, last, brk, halted, merged>>

(* block->state = BLOCK_USED, and the address behind the header is         *)
(* returned.                                                               *)
AllocateMark(c) ==
  /\ StepOnBlock(c, "mark", "idle")
  /\ IF mem[blk[c]] = Data THEN UNCHANGED <<mem, held>>
     ELSE /\ mem' = Use([mem EXCEPT ![blk[c]] = Hdr(@.size, TRUE)], Given(c))
          /\ held' = held \cup {Given(c)}
  /\ Forget(c)
  /\ UNCHANGED <<kind, last, brk, halted, merged>>

-----------------------------------------------------------------------------
(* Free, HeapFree: the block becomes free, unless it is already.           *)
FreeMark(c, r) ==
  /\ Begin(c) /\ r \in held
  /\ LET b == r.lo - HeaderSize
         dead == mem[b] = Data
     IN /\ Step(c, "idle", IF dead THEN "lost" ELSE IF mem[b].used THEN "clear" ELSE "idle")
        /\ mem' = IF dead THEN mem ELSE [mem EXCEPT ![b] = Hdr(@.size, FALSE)]
        /\ blk' = [blk EXCEPT ![c] = IF mem[b].used THEN b ELSE Null]
  /\ held' = held \ {r}
  /\ UNCHANGED <<kind, last, brk, req, halted, merged>>

(* Mutant of FreeClear: the header is taken for a part of the content.     *)
FreeClearShort(c) ==
  /\ StepOnBlock(c, "clear", IF kind = "kernel" THEN "merge" ELSE "idle")
  /\ LET b == blk[c]
     IN mem' = Fill(mem, b + HeaderSize, b + mem[b].size - HeaderSize, Zero)
  /\ UNCHANGED <<kind, last, brk, req, held, halted, merged>>
  /\ blk' = [blk EXCEPT ![c] = IF kind = "kernel" THEN @ ELSE Null]

(* MemSet(&(block->data), 0, block->size - BLOCK_HEADER_SIZE)              *)
FreeClear(c) ==
  /\ StepOnBlock(c, "clear", IF kind = "kernel" THEN "merge" ELSE "idle")
  /\ LET b == blk[c]
     IN mem' = Fill(mem, b + HeaderSize, b + mem[b].size, Zero)
  /\ UNCHANGED <<kind, last, brk, req, held, halted, merged>>
  /\ blk' = [blk EXCEPT ![c] = IF kind = "kernel" THEN @ ELSE Null]

(* How far the free blocks that follow address a go.  At lastBlock the     *)
(* zero behind the heap ends the walk; the loop of the code ends there too.*)
FreeUntil(start) ==
  LET until[a \in Nat] ==
        IF a \notin Addresses \/ mem[a].size <= 0 \/ mem[a].used THEN a
        ELSE until[a + mem[a].size]
  IN until[start]

(* Mutant of MergeBlocksFrom: a used block is merged as well.              *)
MergeBlocksFromOne(b) ==
  LET next == b + mem[b].size
  IN IF next \in Addresses /\ mem[next].size > 0 THEN next + mem[next].size ELSE next

(* _MergeBlocksFrom: where the block that begins at b ends afterwards.     *)
MergeBlocksFrom(b) == FreeUntil(b + mem[b].size)

(* The free blocks behind the released one are merged with it.  The call   *)
(* that should clear their headers has its last two arguments exchanged    *)
(* and clears nothing.                                                     *)
FreeMerge(c) ==
  /\ StepOnBlock(c, "merge", "idle")
  /\ LET b == blk[c]
         to == MergeBlocksFrom(b)
     IN /\ mem' = IF mem[b] = Data THEN mem ELSE [mem EXCEPT ![b] = Hdr((to - b) % SizeMod, @.used)]
        /\ merged' = (merged \/ to # b + mem[b].size)
  /\ UNCHANGED <<kind, last, brk, held, halted>>
  /\ Forget(c)

HeapStep(c) ==
  \/ AllocateGrow(c) \/ AllocateSplit(c) \/ AllocateMark(c)
  \/ FreeClear(c) \/ FreeMerge(c)

HeapNext ==
  \E c \in Callers :
    \/ HeapAllocFirst(c) \/ HeapStep(c)
    \/ \E n \in Sizes : AllocateSearch(c, n)
    \/ \E r \in held : FreeMark(c, r)

(* A call that began goes on: the scheduler gives every thread the         *)
(* processor again and again.                                              *)
HeapSpec ==
  /\ HeapInit /\ [][HeapNext]_heapVars
  /\ \A c \in Callers : WF_heapVars(HeapStep(c))

-----------------------------------------------------------------------------
HeapTypeOK ==
  /\ kind \in Kinds
  /\ mem \in [Addresses -> [size : -1 .. SizeMod - 1, used : BOOLEAN]]
  /\ last \in Addresses \cup {Null}
  /\ brk \in Addresses
  /\ pc \in [Callers -> {"idle", "grow", "split", "mark", "clear", "merge", "loop", "lost"}]
  /\ blk \in [Callers -> Addresses \cup {Null}]
  /\ ~overlap => \A r \in held : r.lo \in Addresses /\ r.hi \in Addresses
  /\ halted \in BOOLEAN /\ overlap \in BOOLEAN /\ merged \in BOOLEAN

(* The addresses of the blocks, from the first to the end of the pages.    *)
Blocks ==
  LET from[a \in Nat] ==
        IF a >= brk \/ mem[a].size <= 0 THEN {a} ELSE {a} \cup from[a + mem[a].size]
  IN from[0]

(* Between calls that did not overlap, the blocks follow each other from   *)
(* the first to exactly the end of the pages, so that every search ends;   *)
(* every range in use lies in a used block of its own, and every used      *)
(* block is in use: _SplitBlock and _MergeBlocksFrom lose no byte, and no  *)
(* block is forgotten.                                                     *)
BlocksTile ==
  /\ HeapTypeOK
  /\ (~overlap /\ \A c \in Callers : pc[c] = "idle") =>
       /\ brk \in Blocks
       /\ \A a \in Blocks \ {brk} :
            IF mem[a].used
            THEN \E r \in held : r.lo = a + HeaderSize /\ r.hi <= a + mem[a].size
            ELSE \A r \in held : r.lo # a + HeaderSize
       /\ \A r \in held : r.lo - HeaderSize \in Blocks \ {brk}

(* The memory a caller is given is zero, as long as no two blocks were     *)
(* merged: Sbrk and Free clear it, a split leaves no header in the first   *)
(* block.  (The kernel relies on it: the words of the locks of an IPC      *)
(* object are what HeapAlloc left there.)                                  *)
ZeroUntilMerged ==
  [][(~merged /\ ~overlap') =>
       \A r \in held' \ held :
         \A a \in r.lo .. r.hi - 1 : mem[a] = Zero]_heapVars

(* A call that no other overlaps ends, or stops the system at the limit.   *)
HeapCallsEnd ==
  \A c \in Callers : pc[c] # "idle" ~> (pc[c] = "idle" \/ overlap \/ halted)

(* Both heaps keep the promise of Allocator.                               *)
A == INSTANCE Allocator WITH MaxAddress <- Limit, live <- held, raced <- overlap
ImplementsAllocator == A!AllocatorSpec

=============================================================================
