------------------------------ MODULE HeapProofs ------------------------------
(***************************************************************************)
(* Proofs about Heap, for any number of callers, any sizes and any heap:   *)
(* the blocks tile the heap, memory is zero until blocks are merged, and   *)
(* both heaps implement Allocator.                                         *)
(***************************************************************************)
EXTENDS Heap, TLAPS, FiniteSetTheorems, WellFoundedInduction

(* Types of what HeapTypeOK leaves out: a cell that is no header of a      *)
(* block is Data, a call that has a block has one in the heap.             *)
Pcs == {"idle", "grow", "split", "mark", "clear", "merge", "loop", "lost"}
OnBlock == {"split", "mark", "clear", "merge"}

HeapType ==
  /\ kind \in Kinds
  /\ mem \in [Addresses -> [size : -1 .. SizeMod - 1, used : BOOLEAN]]
  /\ \A a \in Addresses : mem[a].size = -1 => mem[a] = Data
  /\ last \in Addresses \cup {Null} /\ brk \in Addresses
  /\ pc \in [Callers -> Pcs] /\ req \in [Callers -> Nat]
  /\ blk \in [Callers -> Addresses \cup {Null}]
  /\ \A c \in Callers : pc[c] \in OnBlock => blk[c] \in Addresses
  /\ halted \in BOOLEAN /\ overlap \in BOOLEAN /\ merged \in BOOLEAN

(* The blocks begin at B, which ends with the end of the pages: each goes  *)
(* as far as the next.  Behind them everything is zero.                    *)
Tiles(B) ==
  /\ B \subseteq 0 .. brk /\ 0 \in B /\ brk \in B
  /\ \A a \in B : a # brk => /\ mem[a].size > 0 /\ a + mem[a].size \in B
                             /\ \A b \in B : b <= a \/ b >= a + mem[a].size
  /\ \A a \in Addresses : a >= brk => mem[a] = Zero
  /\ IF kind = "kernel" THEN last = brk ELSE last < brk

(* The ranges in use are in used blocks, one in each.                      *)
Owned(B) ==
  /\ held \subseteq [lo : Nat, hi : Nat, copy : {0}]
  /\ \A r \in held : \E a \in B :
       /\ a # brk /\ mem[a].used
       /\ r.lo = a + HeaderSize /\ r.lo < r.hi /\ r.hi <= a + mem[a].size
  /\ \A r, s \in held : r.lo = s.lo => r = s
  /\ \A a \in B : (a # brk /\ mem[a].used) => \E r \in held : r.lo = a + HeaderSize

(* The block of a call is free until the call returns it.                  *)
Working(B) ==
  ~halted => \A c \in Callers :
    /\ pc[c] \notin {"loop", "lost"}
    /\ pc[c] \in OnBlock => blk[c] \in B /\ blk[c] # brk /\ ~mem[blk[c]].used
    /\ pc[c] \in {"grow", "split", "mark"} => req[c] > 0
    /\ pc[c] \in {"split", "mark"} => BlockSize(req[c]) <= mem[blk[c]].size

(* A free block is zero, but for the one that is about to be cleared.      *)
Cleared(B) ==
  ~merged => \A a \in B :
    (a # brk /\ ~mem[a].used /\ \A c \in Callers : pc[c] = "clear" => blk[c] # a) =>
      \A x \in a + HeaderSize .. a + mem[a].size - 1 : mem[x] = Zero

Calm(B) == Tiles(B) /\ Owned(B) /\ Working(B) /\ Cleared(B)

HeapInv == HeapType /\ (~overlap => \E B \in SUBSET Addresses : Calm(B))

-----------------------------------------------------------------------------
(* Walks                                                                   *)
(* _Allocate, _MergeBlocksFrom and Blocks walk from block to block: next   *)
(* is where a step leads, stop where the walk ends.                        *)

Closed(S, stop, next) == \A x \in S : x \in stop \/ next[x] \in S

Reach(a, stop, next) ==
  {x \in Nat : \A S \in SUBSET Nat : (a \in S /\ Closed(S, stop, next)) => x \in S}

(* The equations of a walk that returns something of its last block, and   *)
(* of one that collects its blocks.                                        *)
Walks(f, stop, next, val) == f = [a \in Nat |-> IF a \in stop THEN val[a] ELSE f[next[a]]]
Collects(f, stop, next) == f = [a \in Nat |-> IF a \in stop THEN {a} ELSE {a} \cup f[next[a]]]

(* A set of numbers has a least element.                                   *)
LEMMA LeastExists ==
  ASSUME NEW T, T \subseteq Nat, T # {}
  PROVE  \E k \in T : \A l \in T : k <= l
<1> DEFINE R == OpToRel(<, Nat)
<1>1. IsWellFoundedOn(R, Nat)
  BY NatLessThanWellFounded, Zenon
<1>2. \A l, k \in Nat : l < k => <<l, k>> \in R
  BY DEF OpToRel
<1> HIDE DEF R
<1>3. PICK k \in T : \A l \in T : ~(<<l, k>> \in R)
  BY <1>1, WFMin
<1>4. \A l \in T : ~(l < k)
  BY <1>2, <1>3
<1>5. k \in Nat /\ \A l \in T : l \in Nat /\ k <= l
  BY <1>4
<1> QED
  BY <1>5

(* A set of numbers up to n has a greatest element.                        *)
LEMMA GreatestExists ==
  ASSUME NEW n \in Nat, NEW T, T \subseteq 0 .. n, T # {}
  PROVE  \E k \in T : \A l \in T : l <= k
<1> DEFINE U == {n - l : l \in T}
<1>1. U \subseteq Nat /\ U # {}
  <2>1. \A l \in T : n - l \in Nat
    OBVIOUS
  <2>2. PICK l \in T : TRUE
    OBVIOUS
  <2>3. n - l \in U
    OBVIOUS
  <2> QED
    BY <2>1, <2>3
<1>2. PICK u \in U : \A v \in U : u <= v
  <2> HIDE DEF U
  <2> QED
    BY <1>1, LeastExists
<1>3. PICK k \in T : u = n - k
  BY <1>2
<1>4. \A l \in T : n - k <= n - l
  BY <1>2, <1>3
<1>5. \A l \in T : l \in Int
  OBVIOUS
<1>6. \A l \in T : l <= k
  BY <1>3, <1>4, <1>5
<1> QED
  BY <1>6

(* A walk that is at its end goes no further; ...                          *)
LEMMA ReachStop ==
  ASSUME NEW stop, NEW next, NEW a \in Nat, a \in stop
  PROVE  Reach(a, stop, next) = {a}
<1>1. {a} \in SUBSET Nat /\ Closed({a}, stop, next)
  BY DEF Closed
<1>2. \A x \in Reach(a, stop, next) : x = a
  BY <1>1 DEF Reach
<1>3. a \in Reach(a, stop, next)
  BY DEF Reach
<1> QED
  BY <1>2, <1>3

(* ... one that is not goes on from the next block.                        *)
LEMMA ReachStep ==
  ASSUME NEW stop, NEW next, NEW a \in Nat, a \notin stop, next[a] \in Nat
  PROVE  Reach(a, stop, next) = {a} \cup Reach(next[a], stop, next)
<1>1. ASSUME NEW x \in Reach(a, stop, next), x # a PROVE x \in Reach(next[a], stop, next)
  <2> SUFFICES ASSUME NEW S \in SUBSET Nat, next[a] \in S, Closed(S, stop, next)
               PROVE  x \in S
    BY DEF Reach
  <2>1. S \cup {a} \in SUBSET Nat /\ a \in S \cup {a}
    OBVIOUS
  <2>2. Closed(S \cup {a}, stop, next)
    BY DEF Closed
  <2>3. x \in S \cup {a}
    BY <2>1, <2>2 DEF Reach
  <2> QED
    BY <1>1, <2>3
<1>2. ASSUME NEW x \in Reach(next[a], stop, next) PROVE x \in Reach(a, stop, next)
  <2> SUFFICES ASSUME NEW S \in SUBSET Nat, a \in S, Closed(S, stop, next)
               PROVE  x \in S
    BY DEF Reach
  <2>1. next[a] \in S
    BY DEF Closed
  <2> QED
    BY <2>1 DEF Reach
<1>3. a \in Reach(a, stop, next)
  BY DEF Reach
<1> QED
  BY <1>1, <1>2, <1>3

(* The equation of a walk that returns something of its last block has a   *)
(* solution: the recursive definition of the walk means something.         *)
LEMMA WalkExists ==
  ASSUME NEW stop, NEW next, \A a \in Nat : a \notin stop => next[a] \in Nat, NEW val
  PROVE  \E f : Walks(f, stop, next, val)
<1> DEFINE End(a) == CHOOSE x : x \in Reach(a, stop, next) \cap stop
           F == [a \in Nat |-> val[End(a)]]
<1>1. ASSUME NEW a \in Nat, a \in stop PROVE End(a) = a
  <2>1. Reach(a, stop, next) \cap stop = {a}
    BY <1>1, ReachStop
  <2> QED
    BY <2>1
<1>2. ASSUME NEW a \in Nat, a \notin stop PROVE End(a) = End(next[a])
  <2>1. Reach(a, stop, next) \cap stop = Reach(next[a], stop, next) \cap stop
    BY <1>2, ReachStep
  <2> QED
    BY <2>1, Zenon
<1> HIDE DEF End
<1>3. \A a \in Nat : F[a] = IF a \in stop THEN val[a] ELSE F[next[a]]
  BY <1>1, <1>2
<1>4. F = [a \in Nat |-> F[a]]
  OBVIOUS
<1> HIDE DEF F
<1>5. F = [a \in Nat |-> IF a \in stop THEN val[a] ELSE F[next[a]]]
  BY <1>3, <1>4
<1> QED
  BY <1>5 DEF Walks

(* So has the equation of a walk that collects its blocks.                 *)
LEMMA CollectExists ==
  ASSUME NEW stop, NEW next, \A a \in Nat : a \notin stop => next[a] \in Nat
  PROVE  \E f : Collects(f, stop, next)
<1> DEFINE F == [a \in Nat |-> Reach(a, stop, next)]
<1>1. \A a \in Nat : F[a] = IF a \in stop THEN {a} ELSE {a} \cup F[next[a]]
  BY ReachStop, ReachStep
<1>2. F = [a \in Nat |-> F[a]]
  OBVIOUS
<1> HIDE DEF F
<1>3. F = [a \in Nat |-> IF a \in stop THEN {a} ELSE {a} \cup F[next[a]]]
  BY <1>1, <1>2
<1> QED
  BY <1>3 DEF Collects

-----------------------------------------------------------------------------
(* The constants as numbers.                                               *)
LEMMA HeapNumbers ==
  /\ HeaderSize = 1 /\ MinBlock \in Nat /\ MinBlock > 0 /\ Align \in Nat /\ Align > 0
  /\ PageSize \in Nat /\ PageSize > 2 /\ Limit \in Nat /\ Limit >= PageSize
  /\ SizeMod \in Nat /\ SizeMod > Limit
  /\ Addresses = 0 .. Limit /\ Null = -1
  /\ \A n \in Sizes : n \in Nat /\ n > 0
BY HeapAssumption DEF Addresses, Null

(* A size that fits in the heap fits in a header.                          *)
LEMMA PlainSize ==
  ASSUME NEW x \in 0 .. Limit
  PROVE  x % SizeMod = x
BY HeapNumbers

(* A block has room for its header and what was asked for.                 *)
LEMMA BlockSizeFits ==
  ASSUME kind \in Kinds, NEW n \in Nat
  PROVE  BlockSize(n) \in Nat /\ BlockSize(n) >= n + 1
<1>1. HeaderSize = 1 /\ Align \in Nat /\ Align > 0
  BY HeapNumbers
<1>2. PICK x \in Nat : x = n + 1
  OBVIOUS
<1>3. ClosestPow(x, Align) \in Nat /\ ClosestPow(x, Align) >= x
  <2>1. PICK q \in Nat : q = x \div Align
    BY <1>1
  <2>2. PICK m \in 0 .. Align - 1 : m = x % Align
    BY <1>1
  <2>3. x = Align * q + m
    BY <1>1, <2>1, <2>2
  <2>4. Align * (q + 1) = Align * q + Align /\ Align * (q + 0) = Align * q /\ Align * q \in Nat
    BY <1>1
  <2>5. ClosestPow(x, Align) = IF m = 0 THEN Align * (q + 0) ELSE Align * (q + 1)
    BY <2>1, <2>2 DEF ClosestPow, LocalMod
  <2> QED
    BY <1>1, <2>3, <2>4, <2>5
<1>4. BlockSize(n) = IF kind = "kernel" THEN x ELSE ClosestPow(x, Align)
  BY <1>1, <1>2 DEF BlockSize
<1> QED
  BY <1>2, <1>3, <1>4

(* The pages that are asked for have room for the block.                   *)
LEMMA PagesFit ==
  ASSUME NEW r \in Nat
  PROVE  /\ NbPages(r) \in Nat
         /\ NbPages(r) * PageSize \in Nat /\ NbPages(r) * PageSize >= r
         /\ NbPages(r) * PageSize > 0
<1>1. HeaderSize = 1 /\ PageSize \in Nat /\ PageSize > 2
  BY HeapNumbers
<1>2. PICK u \in Nat : u = PageSize - 1
  BY <1>1
<1>3. CASE r > u
  <2>1. PICK q \in Nat : q = r \div u
    BY <1>1, <1>2
  <2>2. PICK m \in 0 .. u - 1 : m = r % u
    BY <1>1, <1>2
  <2>3. r = u * q + m
    BY <1>1, <1>2, <2>1, <2>2
  <2>4. PICK n \in Nat : n = q + (IF m = 0 THEN 0 ELSE 1)
    OBVIOUS
  <2>5. NbPages(r) = n
    BY <1>1, <1>2, <1>3, <2>1, <2>2, <2>4 DEF NbPages, LocalMod
  <2>6. u * n >= r
    <3>1. u * (q + 1) = u * q + u /\ u * q \in Nat
      OBVIOUS
    <3>2. CASE m = 0
      <4>1. n = q
        BY <2>4, <3>2
      <4> QED
        BY <2>3, <3>1, <3>2, <4>1
    <3>3. CASE m # 0
      <4>1. n = q + 1
        BY <2>4, <3>3
      <4> QED
        BY <2>2, <2>3, <3>1, <3>3, <4>1
    <3> QED
      BY <3>2, <3>3
  <2>7. n * PageSize = u * n + n /\ n * PageSize \in Nat /\ u * n \in Nat
    BY <1>1, <1>2
  <2> QED
    BY <1>3, <2>5, <2>6, <2>7
<1>4. CASE r <= u
  <2>1. NbPages(r) = 1
    BY <1>1, <1>2, <1>4 DEF NbPages
  <2> QED
    BY <1>1, <1>2, <1>4, <2>1
<1> QED
  BY <1>2, <1>3, <1>4

(* The cells of the memory.                                                *)
LEMMA Cells ==
  ASSUME HeapType
  PROVE  /\ brk \in Nat /\ brk <= Limit /\ last \in Int
         /\ \A a \in Addresses : /\ a \in Nat /\ mem[a].size \in Int /\ mem[a].size >= -1
                                 /\ mem[a].used \in BOOLEAN
                                 /\ mem[a] # Data => mem[a].size >= 0
                                 /\ mem[a].size > 0 => mem[a] # Data
                                 /\ mem[a] = [size |-> mem[a].size, used |-> mem[a].used]
<1>1. brk \in Nat /\ brk <= Limit /\ last \in Int
  BY HeapNumbers DEF HeapType
<1> SUFFICES ASSUME NEW a \in Addresses
             PROVE  /\ a \in Nat /\ mem[a].size \in Int /\ mem[a].size >= -1
                    /\ mem[a].used \in BOOLEAN
                    /\ mem[a] # Data => mem[a].size >= 0
                    /\ mem[a].size > 0 => mem[a] # Data
                    /\ mem[a] = [size |-> mem[a].size, used |-> mem[a].used]
  BY <1>1
<1>2. mem[a] \in [size : -1 .. SizeMod - 1, used : BOOLEAN] /\ (mem[a].size = -1 => mem[a] = Data)
  BY DEF HeapType
<1>3. Data.size = -1
  BY DEF Data, Hdr
<1> QED
  BY <1>2, <1>3, HeapNumbers

(* What the walks of a tiled heap need.                                    *)
LEMMA TileFacts ==
  ASSUME HeapType, NEW B, Tiles(B)
  PROVE  /\ \A a \in B : a \in Nat /\ a <= brk /\ a \in Addresses
         /\ \A a \in B : a # brk => /\ mem[a].size \in Nat /\ mem[a].size > 0 /\ a < brk
                                    /\ a + mem[a].size \in B /\ a + mem[a].size <= brk
                                    /\ mem[a] # Data
<1>1. brk \in Nat /\ brk <= Limit /\ Addresses = 0 .. Limit /\ Limit \in Nat
  BY Cells, HeapNumbers
<1>2. \A a \in B : a \in Nat /\ a <= brk /\ a \in Addresses
  BY <1>1 DEF Tiles
<1>3. \A a \in B : a # brk => mem[a].size > 0 /\ a + mem[a].size \in B
  BY DEF Tiles
<1> SUFFICES ASSUME NEW a \in B, a # brk
             PROVE  /\ mem[a].size \in Nat /\ mem[a].size > 0 /\ a < brk
                    /\ a + mem[a].size \in B /\ a + mem[a].size <= brk
                    /\ mem[a] # Data
  BY <1>2
<1>4. mem[a].size \in Int /\ mem[a].size > 0 /\ mem[a] # Data
  BY <1>2, <1>3, Cells
<1>5. a \in Nat /\ a <= brk /\ a + mem[a].size \in B
  BY <1>2, <1>3
<1>6. a + mem[a].size <= brk
  BY <1>2, <1>5
<1> QED
  BY <1>1, <1>4, <1>5, <1>6

(* The blocks a walk over a tiled heap finds are those of the tiling.      *)
LEMMA BlocksAre ==
  ASSUME HeapType, NEW B, Tiles(B)
  PROVE  Blocks = B
<1> DEFINE stop == {a \in Nat : a >= brk \/ mem[a].size <= 0}
           next == [a \in Nat |-> a + mem[a].size]
           Solves(f) == f = [a \in Nat |-> IF a >= brk \/ mem[a].size <= 0 THEN {a}
                                           ELSE {a} \cup f[a + mem[a].size]]
           walk == CHOOSE f : Solves(f)
<1>1. Blocks = walk[0]
  BY DEF Blocks
<1>2. \A a \in Nat : a \notin stop => next[a] \in Nat
  <2> SUFFICES ASSUME NEW a \in Nat, a < brk, ~(mem[a].size <= 0) PROVE a + mem[a].size \in Nat
    BY Cells
  <2>1. a \in Addresses
    BY Cells, HeapNumbers
  <2>2. mem[a].size \in Int
    BY <2>1, Cells
  <2> QED
    BY <2>2
<1>3. \E f : Solves(f)
  <2>1. PICK f : Collects(f, stop, next)
    <3> HIDE DEF stop, next
    <3> QED
      BY <1>2, CollectExists
  <2>2. \A a \in Nat : (a \in stop <=> a >= brk \/ mem[a].size <= 0) /\ next[a] = a + mem[a].size
    OBVIOUS
  <2> HIDE DEF stop, next
  <2>3. f = [a \in Nat |-> IF a >= brk \/ mem[a].size <= 0 THEN {a} ELSE {a} \cup f[a + mem[a].size]]
    BY <2>1, <2>2 DEF Collects
  <2> QED
    BY <2>3
<1>4. Solves(walk)
  <2> HIDE DEF Solves
  <2> QED
    BY <1>3
<1> HIDE DEF walk, stop, next
<1>5. \A a \in Nat : walk[a] = IF a >= brk \/ mem[a].size <= 0 THEN {a}
                               ELSE {a} \cup walk[a + mem[a].size]
  BY <1>4
<1>6. brk \in B /\ 0 \in B /\ brk \in Nat /\ \A a \in B : a \in Nat /\ a <= brk
  BY TileFacts, Cells DEF Tiles
<1>7. \A a \in B : a # brk => /\ mem[a].size \in Nat /\ mem[a].size > 0 /\ a < brk
                              /\ a + mem[a].size \in B
                              /\ \A b \in B : b <= a \/ b >= a + mem[a].size
  BY TileFacts DEF Tiles
<1>8. \A a \in B : walk[a] = {b \in B : b >= a}
  <2> DEFINE Bad == {a \in B : walk[a] # {b \in B : b >= a}}
  <2> SUFFICES ASSUME Bad # {} PROVE FALSE
    OBVIOUS
  <2>1. PICK k \in Bad : \A l \in Bad : l <= k
    <3>1. Bad \subseteq B
      OBVIOUS
    <3>2. B \subseteq 0 .. brk
      BY DEF Tiles
    <3> HIDE DEF Bad
    <3> QED
      BY <1>6, <3>1, <3>2, GreatestExists
  <2>2. k \in B /\ k \in Nat /\ k <= brk /\ walk[k] # {b \in B : b >= k}
    BY <1>6, <2>1
  <2>3. CASE k = brk
    <3>1. walk[k] = {k}
      BY <1>5, <1>6, <2>2, <2>3
    <3>2. \A b \in B : b >= k <=> b = k
      BY <1>6, <2>2, <2>3
    <3>3. {b \in B : b >= k} = {k}
      BY <2>2, <3>2
    <3> QED
      BY <2>2, <3>1, <3>3
  <2>4. CASE k # brk
    <3>1. PICK s \in Nat : s = mem[k].size /\ s > 0
      BY <1>7, <2>2, <2>4
    <3>2. k < brk /\ k + s \in B /\ \A b \in B : b <= k \/ b >= k + s
      BY <1>7, <2>2, <2>4, <3>1
    <3>3. ~(k >= brk) /\ ~(s <= 0)
      BY <1>6, <2>2, <3>1, <3>2
    <3>4. walk[k] = {k} \cup walk[k + s]
      BY <1>5, <2>2, <3>1, <3>3
    <3>5. k + s \notin Bad
      BY <2>1, <2>2, <3>1
    <3>6. walk[k + s] = {b \in B : b >= k + s}
      BY <3>2, <3>5
    <3>7. \A b \in B : (b >= k) <=> (b = k \/ b >= k + s)
      BY <1>6, <2>2, <3>1, <3>2
    <3>8. {k} \cup {b \in B : b >= k + s} = {b \in B : b >= k}
      BY <2>2, <3>7
    <3> QED
      BY <2>2, <3>4, <3>6, <3>8
  <2> QED
    BY <2>3, <2>4
<1>9. {b \in B : b >= 0} = B
  <2>1. \A b \in B : b >= 0
    BY <1>6
  <2> QED
    BY <2>1
<1> QED
  BY <1>1, <1>6, <1>8, <1>9


-----------------------------------------------------------------------------
(* In a tiled heap the search for a block ends: at the end of the blocks,  *)
(* or with a free block that is large enough.                              *)
LEMMA FirstFitEnds ==
  ASSUME HeapType, NEW B, Tiles(B), NEW r \in Nat, kind = "user" => last # Null
  PROVE  \/ FirstFit(0, r) = [res |-> "end", blk |-> Null]
         \/ \E a \in B : /\ FirstFit(0, r) = [res |-> "found", blk |-> a]
                         /\ a # brk /\ ~mem[a].used /\ r <= mem[a].size
<1> DEFINE fits(a) == ~mem[a].used /\ r <= mem[a].size
           out(a) == a \notin Addresses \/ mem[a] = Data
           stop == {a \in Nat : SearchEnds(a) \/ out(a) \/ fits(a) \/ mem[a].size = 0}
           next == [a \in Nat |-> a + mem[a].size]
           val == [a \in Nat |-> IF SearchEnds(a) THEN [res |-> "end", blk |-> Null]
                                 ELSE IF out(a) THEN [res |-> "lost", blk |-> Null]
                                 ELSE IF fits(a) THEN [res |-> "found", blk |-> a]
                                 ELSE [res |-> "loop", blk |-> Null]]
           Body(f, a) ==
             IF SearchEnds(a) THEN [res |-> "end", blk |-> Null]
             ELSE IF a \notin Addresses \/ mem[a] = Data THEN [res |-> "lost", blk |-> Null]
             ELSE IF ~mem[a].used /\ r <= mem[a].size THEN [res |-> "found", blk |-> a]
             ELSE IF mem[a].size = 0 THEN [res |-> "loop", blk |-> Null]
             ELSE f[a + mem[a].size]
           Solves(f) == f = [a \in Nat |-> Body(f, a)]
           walk == CHOOSE f : Solves(f)
<1>1. FirstFit(0, r) = walk[0]
  BY DEF FirstFit
<1>2. \A a \in Nat : a \notin stop => next[a] \in Nat
  <2> SUFFICES ASSUME NEW a \in Nat, a \in Addresses, mem[a] # Data PROVE a + mem[a].size \in Nat
    OBVIOUS
  <2>1. mem[a].size \in Int /\ mem[a].size >= 0
    BY Cells
  <2> QED
    BY <2>1
<1>3. ASSUME NEW f, NEW a \in Nat
      PROVE  Body(f, a) = IF a \in stop THEN val[a] ELSE f[next[a]]
  OBVIOUS
<1>4. \E f : Solves(f)
  <2>1. PICK f : Walks(f, stop, next, val)
    <3> HIDE DEF stop, next, val
    <3> QED
      BY <1>2, WalkExists
  <2>2. \A a \in Nat : Body(f, a) = IF a \in stop THEN val[a] ELSE f[next[a]]
    BY <1>3
  <2> HIDE DEF stop, next, val, Body
  <2>3. f = [a \in Nat |-> Body(f, a)]
    BY <2>1, <2>2 DEF Walks
  <2> QED
    BY <2>3
<1>5. Solves(walk)
  <2> HIDE DEF Solves
  <2> QED
    BY <1>4
<1>6. \A a \in Nat : walk[a] = Body(walk, a)
  <2> HIDE DEF walk, Body
  <2> QED
    BY <1>5
<1> HIDE DEF walk
<1>7. brk \in B /\ 0 \in B /\ brk \in Nat /\ \A a \in B : a \in Nat /\ a <= brk /\ a \in Addresses
  BY TileFacts, Cells DEF Tiles
<1>8. \A a \in B : a # brk => /\ mem[a].size \in Nat /\ mem[a].size > 0 /\ a < brk
                              /\ a + mem[a].size \in B /\ mem[a] # Data
  BY TileFacts
<1>9. SearchEnds(brk)
  BY <1>7, Cells DEF SearchEnds, Tiles
<1> DEFINE Good(a) == \/ walk[a] = [res |-> "end", blk |-> Null]
                      \/ \E b \in B : /\ walk[a] = [res |-> "found", blk |-> b]
                                      /\ b # brk /\ ~mem[b].used /\ r <= mem[b].size
<1>10. ASSUME NEW a \in B, a # brk => Good(a + mem[a].size) PROVE Good(a)
  <2>1. CASE SearchEnds(a)
    BY <1>6, <1>7, <2>1
  <2>2. CASE ~SearchEnds(a)
    <3>1. a # brk
      BY <1>9, <2>2
    <3>2. a \in Addresses /\ mem[a] # Data /\ mem[a].size >= 0 /\ mem[a].size # 0 /\ a \in Nat
      BY <1>7, <1>8, <3>1
    <3>3. walk[a] = IF fits(a) THEN [res |-> "found", blk |-> a] ELSE walk[a + mem[a].size]
      BY <1>6, <2>2, <3>2
    <3>4. CASE fits(a)
      BY <3>1, <3>3, <3>4
    <3>5. CASE ~fits(a)
      <4>1. walk[a] = walk[a + mem[a].size]
        BY <3>3, <3>5
      <4> QED
        BY <1>10, <3>1, <4>1
    <3> QED
      BY <3>4, <3>5
  <2> QED
    BY <2>1, <2>2
<1> HIDE DEF Good
<1>11. \A a \in B : Good(a)
  <2> DEFINE Bad == {a \in B : ~Good(a)}
  <2> SUFFICES ASSUME Bad # {} PROVE FALSE
    OBVIOUS
  <2>1. PICK k \in Bad : \A l \in Bad : l <= k
    <3>1. Bad \subseteq B
      OBVIOUS
    <3>2. B \subseteq 0 .. brk
      BY DEF Tiles
    <3> HIDE DEF Bad
    <3> QED
      BY <1>7, <3>1, <3>2, GreatestExists
  <2>2. k \in B /\ k \in Nat /\ ~Good(k)
    BY <1>7, <2>1
  <2>3. k # brk /\ ~Good(k + mem[k].size)
    BY <1>10, <2>2
  <2>4. mem[k].size \in Nat /\ mem[k].size > 0 /\ k + mem[k].size \in B
    BY <1>8, <2>2, <2>3
  <2>5. k + mem[k].size \in Bad
    BY <2>3, <2>4
  <2> QED
    BY <2>1, <2>2, <2>4, <2>5
<1> QED
  BY <1>1, <1>7, <1>11 DEF Good

(* The merge stops at an address, also after calls that overlapped; ...    *)
LEMMA UntilSolves ==
  ASSUME HeapType
  PROVE  \E f : /\ \A a \in Nat : FreeUntil(a) = f[a]
                /\ \A a \in Nat : f[a] = IF a \notin Addresses \/ mem[a].size <= 0 \/ mem[a].used THEN a
                                         ELSE f[a + mem[a].size]
<1> DEFINE stop == {a \in Nat : a \notin Addresses \/ mem[a].size <= 0 \/ mem[a].used}
           next == [a \in Nat |-> a + mem[a].size]
           val == [a \in Nat |-> a]
           Solves(f) == f = [a \in Nat |-> IF a \notin Addresses \/ mem[a].size <= 0 \/ mem[a].used THEN a
                                           ELSE f[a + mem[a].size]]
           walk == CHOOSE f : Solves(f)
<1>1. \A a : FreeUntil(a) = walk[a]
  BY DEF FreeUntil
<1>2. \A a \in Nat : a \notin stop => next[a] \in Nat
  <2> SUFFICES ASSUME NEW a \in Nat, a \in Addresses, ~(mem[a].size <= 0) PROVE a + mem[a].size \in Nat
    OBVIOUS
  <2>1. mem[a].size \in Int
    BY Cells
  <2> QED
    BY <2>1
<1>3. \E f : Solves(f)
  <2>1. PICK f : Walks(f, stop, next, val)
    <3> HIDE DEF stop, next, val
    <3> QED
      BY <1>2, WalkExists
  <2>2. \A a \in Nat : /\ a \in stop <=> (a \notin Addresses \/ mem[a].size <= 0 \/ mem[a].used)
                       /\ next[a] = a + mem[a].size /\ val[a] = a
    OBVIOUS
  <2> HIDE DEF stop, next, val
  <2>3. f = [a \in Nat |-> IF a \notin Addresses \/ mem[a].size <= 0 \/ mem[a].used THEN a
                           ELSE f[a + mem[a].size]]
    BY <2>1, <2>2 DEF Walks
  <2> QED
    BY <2>3
<1>4. Solves(walk)
  <2> HIDE DEF Solves
  <2> QED
    BY <1>3
<1> HIDE DEF walk
<1>5. \A a \in Nat : walk[a] = IF a \notin Addresses \/ mem[a].size <= 0 \/ mem[a].used THEN a
                               ELSE walk[a + mem[a].size]
  BY <1>4
<1> QED
  BY <1>1, <1>5

(* ... it only goes upwards.                                               *)
LEMMA UntilType ==
  ASSUME HeapType, NEW a \in Nat
  PROVE  FreeUntil(a) \in Nat
<1>1. PICK f : /\ \A x \in Nat : FreeUntil(x) = f[x]
               /\ \A x \in Nat : f[x] = IF x \notin Addresses \/ mem[x].size <= 0 \/ mem[x].used THEN x
                                        ELSE f[x + mem[x].size]
  BY UntilSolves
<1>2. Addresses = 0 .. Limit /\ Limit \in Nat
  BY HeapNumbers
<1> DEFINE Bad == {x \in Addresses : f[x] \notin Nat}
<1>3. Bad = {}
  <2> SUFFICES ASSUME Bad # {} PROVE FALSE
    OBVIOUS
  <2>1. PICK k \in Bad : \A l \in Bad : l <= k
    <3>1. Bad \subseteq 0 .. Limit
      BY <1>2
    <3> HIDE DEF Bad
    <3> QED
      BY <1>2, <3>1, GreatestExists
  <2>2. k \in Nat /\ k \in Addresses /\ f[k] \notin Nat
    BY <1>2, <2>1
  <2>3. PICK s \in Int : s = mem[k].size
    BY <2>2, Cells
  <2>4. s > 0 /\ f[k] = f[k + s]
    BY <1>1, <2>2, <2>3
  <2>5. k + s \in Nat /\ f[k + s] \notin Nat
    BY <2>2, <2>3, <2>4
  <2>6. k + s \notin Addresses
    BY <2>1, <2>2, <2>4, <2>5
  <2> QED
    BY <1>1, <2>5, <2>6
<1>4. CASE a \in Addresses
  BY <1>1, <1>3, <1>4
<1>5. CASE a \notin Addresses
  BY <1>1, <1>5
<1> QED
  BY <1>4, <1>5

(* In a tiled heap it stops at the beginning of a block, or at the end of  *)
(* the pages, and passes free blocks only.                                 *)
LEMMA UntilTiles ==
  ASSUME HeapType, NEW B, Tiles(B), NEW a \in B
  PROVE  /\ FreeUntil(a) \in B /\ a <= FreeUntil(a)
         /\ \A x \in B : (a <= x /\ x < FreeUntil(a)) => ~mem[x].used
<1>1. PICK f : /\ \A x \in Nat : FreeUntil(x) = f[x]
               /\ \A x \in Nat : f[x] = IF x \notin Addresses \/ mem[x].size <= 0 \/ mem[x].used THEN x
                                        ELSE f[x + mem[x].size]
  BY UntilSolves
<1>2. brk \in B /\ brk \in Nat /\ \A x \in B : x \in Nat /\ x <= brk /\ x \in Addresses
  BY TileFacts, Cells DEF Tiles
<1>3. \A x \in B : x # brk => /\ mem[x].size \in Nat /\ mem[x].size > 0 /\ x < brk
                              /\ x + mem[x].size \in B
                              /\ \A b \in B : b <= x \/ b >= x + mem[x].size
  BY TileFacts DEF Tiles
<1>4. mem[brk].size = 0
  <2>1. mem[brk] = Zero
    BY <1>2 DEF Tiles
  <2> QED
    BY <2>1 DEF Zero, Hdr
<1> DEFINE Good(x) == f[x] \in B /\ x <= f[x] /\ \A y \in B : (x <= y /\ y < f[x]) => ~mem[y].used
           Bad == {x \in B : ~Good(x)}
<1>5. Bad = {}
  <2> SUFFICES ASSUME Bad # {} PROVE FALSE
    OBVIOUS
  <2>1. PICK k \in Bad : \A l \in Bad : l <= k
    <3>1. Bad \subseteq B
      OBVIOUS
    <3>2. B \subseteq 0 .. brk
      BY DEF Tiles
    <3> HIDE DEF Bad
    <3> QED
      BY <1>2, <3>1, <3>2, GreatestExists
  <2>2. k \in B /\ k \in Nat /\ k \in Addresses /\ ~Good(k)
    BY <1>2, <2>1
  <2>3. f[k] # k
    <3> SUFFICES ASSUME f[k] = k PROVE Good(k)
      BY <2>2
    <3>1. \A y \in B : ~(k <= y /\ y < k)
      BY <1>2, <2>2
    <3> QED
      BY <2>2, <3>1
  <2>4. k # brk
    BY <1>1, <1>2, <1>4, <2>2, <2>3
  <2>5. PICK s \in Nat : s = mem[k].size /\ s > 0 /\ k + s \in B /\ \A b \in B : b <= k \/ b >= k + s
    BY <1>3, <2>2, <2>4
  <2>6. ~mem[k].used /\ f[k] = f[k + s]
    BY <1>1, <2>2, <2>3, <2>5
  <2>7. k + s \notin Bad
    BY <2>1, <2>2, <2>5
  <2>8. Good(k + s)
    BY <2>5, <2>7
  <2>9. f[k] \in B /\ k + s <= f[k] /\ \A y \in B : (k + s <= y /\ y < f[k]) => ~mem[y].used
    BY <2>6, <2>8
  <2>10. k <= f[k]
    <3>1. PICK g \in Nat : g = f[k]
      BY <1>2, <2>9
    <3>2. k + s <= g
      BY <2>9, <3>1
    <3>3. k <= g
      BY <2>2, <3>2
    <3> QED
      BY <3>1, <3>3
  <2>11. ASSUME NEW y \in B, k <= y, y < f[k] PROVE ~mem[y].used
    <3>1. y = k \/ k + s <= y
      BY <1>2, <2>2, <2>5, <2>11
    <3> QED
      BY <2>6, <2>9, <2>11, <3>1
  <2> QED
    BY <2>2, <2>9, <2>10, <2>11
<1>6. Good(a)
  BY <1>5
<1> QED
  BY <1>1, <1>2, <1>6

-----------------------------------------------------------------------------
(* Types                                                                   *)
Memories ==
  {m \in [Addresses -> [size : -1 .. SizeMod - 1, used : BOOLEAN]] :
     \A a \in Addresses : m[a].size = -1 => m[a] = Data}

(* Filling cells with zero or with data leaves cells.                      *)
LEMMA FillCells ==
  ASSUME NEW m \in Memories, NEW lo, NEW hi, NEW w \in {Zero, Data}
  PROVE  /\ Fill(m, lo, hi, w) \in Memories
         /\ \A a \in Addresses : Fill(m, lo, hi, w)[a] = IF lo <= a /\ a < hi THEN w ELSE m[a]
<1>1. w \in [size : -1 .. SizeMod - 1, used : BOOLEAN] /\ (w.size = -1 => w = Data)
  <2>1. 0 \in -1 .. SizeMod - 1 /\ -1 \in -1 .. SizeMod - 1
    BY HeapNumbers
  <2>2. CASE w = Zero
    BY <2>1, <2>2 DEF Zero, Hdr
  <2>3. CASE w = Data
    BY <2>1, <2>3 DEF Data, Hdr
  <2> QED
    BY <2>2, <2>3
<1>2. \A a \in Addresses : Fill(m, lo, hi, w)[a] = IF lo <= a /\ a < hi THEN w ELSE m[a]
  BY DEF Fill
<1>3. Fill(m, lo, hi, w) \in [Addresses -> [size : -1 .. SizeMod - 1, used : BOOLEAN]]
  <2>1. \A a \in Addresses : m[a] \in [size : -1 .. SizeMod - 1, used : BOOLEAN]
    BY DEF Memories
  <2>2. \A a \in Addresses : (IF lo <= a /\ a < hi THEN w ELSE m[a]) \in [size : -1 .. SizeMod - 1, used : BOOLEAN]
    BY <1>1, <2>1
  <2> QED
    BY <2>2 DEF Fill
<1>4. \A a \in Addresses : Fill(m, lo, hi, w)[a].size = -1 => Fill(m, lo, hi, w)[a] = Data
  BY <1>1, <1>2 DEF Memories
<1> QED
  BY <1>2, <1>3, <1>4 DEF Memories

(* The memory with a header at b.                                          *)
Put(m, b, s, u) == [m EXCEPT ![b] = Hdr(s, u)]

(* So does writing a header.                                               *)
LEMMA PutCells ==
  ASSUME NEW m \in Memories, NEW b \in Addresses, NEW s \in 0 .. SizeMod - 1, NEW u \in BOOLEAN
  PROVE  /\ Put(m, b, s, u) \in Memories
         /\ Put(m, b, s, u)[b] = Hdr(s, u)
         /\ \A a \in Addresses : a # b => Put(m, b, s, u)[a] = m[a]
         /\ Hdr(s, u).size = s /\ Hdr(s, u).used = u
<1>1. Hdr(s, u) \in [size : -1 .. SizeMod - 1, used : BOOLEAN] /\ Hdr(s, u).size # -1
  BY HeapNumbers DEF Hdr
<1>2. \A a \in Addresses : Put(m, b, s, u)[a] = IF a = b THEN Hdr(s, u) ELSE m[a]
  BY DEF Memories, Put
<1>3. Put(m, b, s, u) \in [Addresses -> [size : -1 .. SizeMod - 1, used : BOOLEAN]]
  BY <1>1 DEF Memories, Put
<1>4. Hdr(s, u).size = s /\ Hdr(s, u).used = u
  BY DEF Hdr
<1>5. ASSUME NEW a \in Addresses, Put(m, b, s, u)[a].size = -1
      PROVE  Put(m, b, s, u)[a] = Data
  <2>1. a # b
    BY <1>1, <1>2, <1>5
  <2> QED
    BY <1>2, <1>5, <2>1 DEF Memories
<1> QED
  BY <1>2, <1>3, <1>4, <1>5 DEF Memories

(* The memory of a heap.                                                   *)
LEMMA MemoryIs ==
  ASSUME HeapType
  PROVE  mem \in Memories
BY DEF HeapType, Memories

(* A new block: its header, and zero.                                      *)
WithBlock(f, m, b, p) ==
  /\ f \in Memories /\ f[b] = Hdr(p, FALSE)
  /\ \A a \in Addresses : (b < a /\ a < b + p) => f[a] = Zero
  /\ \A a \in Addresses : a # b /\ (a < b \/ a >= b + p) => f[a] = m[a]

(* NewBlock makes one.                                                     *)
LEMMA NewBlockCells ==
  ASSUME NEW m \in Memories, NEW b \in Addresses, NEW n \in Nat,
         NEW p \in Nat, p = n * PageSize, b + p <= Limit
  PROVE  WithBlock(NewBlock(m, b, n), m, b, p)
<1> DEFINE f == Fill(m, b + HeaderSize, b + p, Zero)
<1>1. f \in Memories /\ \A a \in Addresses : f[a] = IF b + HeaderSize <= a /\ a < b + p THEN Zero ELSE m[a]
  BY FillCells
<1>2. NewBlock(m, b, n) = [f EXCEPT ![b] = Hdr(p, FALSE)]
  BY DEF NewBlock
<1>3. p \in 0 .. SizeMod - 1
  BY HeapNumbers
<1> HIDE DEF f
<1>4. /\ Put(f, b, p, FALSE) \in Memories
      /\ \A a \in Addresses : Put(f, b, p, FALSE)[a] = IF a = b THEN Hdr(p, FALSE) ELSE f[a]
  <2>1. f \in Memories /\ b \in Addresses /\ p \in 0 .. SizeMod - 1 /\ FALSE \in BOOLEAN
    BY <1>1, <1>3
  <2>2. Put(f, b, p, FALSE) \in Memories
    BY <2>1, PutCells, Zenon
  <2>3. Put(f, b, p, FALSE)[b] = Hdr(p, FALSE)
    BY <2>1, PutCells, ZenonT(40)
  <2>4. \A a \in Addresses : a # b => Put(f, b, p, FALSE)[a] = f[a]
    BY <2>1 DEF Put, Memories
  <2> QED
    BY <2>2, <2>3, <2>4
<1>5. b \in Nat /\ HeaderSize = 1 /\ \A a \in Addresses : a \in Nat
  BY HeapNumbers
<1>6. \A a \in Addresses : (b < a /\ a < b + p) => NewBlock(m, b, n)[a] = Zero
  <2> SUFFICES ASSUME NEW a \in Addresses, b < a, a < b + p PROVE NewBlock(m, b, n)[a] = Zero
    OBVIOUS
  <2>1. a # b /\ b + HeaderSize <= a
    BY <1>5
  <2> QED
    BY <1>1, <1>2, <1>4, <2>1 DEF Put
<1>7. \A a \in Addresses : a # b /\ (a < b \/ a >= b + p) => NewBlock(m, b, n)[a] = m[a]
  <2> SUFFICES ASSUME NEW a \in Addresses, a # b, a < b \/ a >= b + p PROVE NewBlock(m, b, n)[a] = m[a]
    OBVIOUS
  <2>1. ~(b + HeaderSize <= a /\ a < b + p)
    BY <1>5
  <2> QED
    BY <1>1, <1>2, <1>4, <2>1 DEF Put
<1> QED
  BY <1>2, <1>4, <1>6, <1>7 DEF Put, WithBlock

(* A call that no other overlaps is alone.                                 *)
LEMMA StepAlone ==
  ASSUME HeapType, NEW c \in Callers, NEW from, NEW to, Step(c, from, to)
  PROVE  /\ ~halted /\ pc[c] = from /\ pc'[c] = to
         /\ \A d \in Callers : d # c => pc'[d] = pc[d]
         /\ overlap' \in BOOLEAN
         /\ ~overlap' => ~overlap /\ \A d \in Callers : d # c => pc[d] = "idle" /\ pc'[d] = "idle"
         /\ to \in Pcs => pc' \in [Callers -> Pcs]
<1>1. pc \in [Callers -> Pcs] /\ overlap \in BOOLEAN
  BY DEF HeapType
<1>2. ~halted /\ pc[c] = from /\ pc' = [pc EXCEPT ![c] = to]
  BY DEF Step
<1>3. overlap' = (overlap \/ \E d \in Callers \ {c} : pc[d] # "idle")
  BY DEF Step
<1>4. overlap' \in BOOLEAN
  BY <1>1, <1>3, Zenon
<1>5. pc'[c] = to /\ \A d \in Callers : d # c => pc'[d] = pc[d]
  BY <1>1, <1>2
<1>6. ASSUME ~overlap' PROVE ~overlap /\ \A d \in Callers : d # c => pc[d] = "idle"
  BY <1>3, <1>6, Zenon
<1>7. to \in Pcs => pc' \in [Callers -> Pcs]
  BY <1>1, <1>2
<1> QED
  BY <1>2, <1>4, <1>5, <1>6, <1>7

(* Two blocks are apart, and no block begins inside another.               *)
LEMMA BlocksApart ==
  ASSUME HeapType, NEW B, Tiles(B), NEW a \in B, NEW b \in B, a # b, a # brk, b # brk
  PROVE  a + mem[a].size <= b \/ b + mem[b].size <= a
<1>1. a \in Nat /\ b \in Nat /\ mem[a].size \in Nat /\ mem[b].size \in Nat
  BY TileFacts
<1>2. (b <= a \/ b >= a + mem[a].size) /\ (a <= b \/ a >= b + mem[b].size)
  BY DEF Tiles
<1> QED
  BY <1>1, <1>2

(* What a step of one call has to show for the types.                      *)
LEMMA TypeAfter ==
  ASSUME HeapType, NEW c \in Callers, NEW from, NEW to \in Pcs, Step(c, from, to),
         kind' = kind, mem' \in Memories, last' \in Addresses \cup {Null}, brk' \in Addresses,
         NEW n \in Nat, req' = [req EXCEPT ![c] = n],
         NEW b \in Addresses \cup {Null}, blk' = [blk EXCEPT ![c] = b],
         to \in OnBlock => b \in Addresses,
         halted' \in BOOLEAN, merged' \in BOOLEAN
  PROVE  HeapType'
<1>1. pc' \in [Callers -> Pcs] /\ overlap' \in BOOLEAN /\ pc'[c] = to
      /\ \A d \in Callers : d # c => pc'[d] = pc[d]
  BY StepAlone
<1>2. req' \in [Callers -> Nat] /\ blk' \in [Callers -> Addresses \cup {Null}]
  BY DEF HeapType
<1>3. blk'[c] = b /\ \A d \in Callers : d # c => blk'[d] = blk[d]
  BY DEF HeapType
<1>4. \A d \in Callers : pc'[d] \in OnBlock => blk'[d] \in Addresses
  <2> TAKE d \in Callers
  <2>1. CASE d = c
    BY <1>1, <1>3, <2>1
  <2>2. CASE d # c
    BY <1>1, <1>3, <2>2 DEF HeapType
  <2> QED
    BY <2>1, <2>2
<1>5. /\ mem' \in [Addresses -> [size : -1 .. SizeMod - 1, used : BOOLEAN]]
      /\ \A a \in Addresses : mem'[a].size = -1 => mem'[a] = Data
  BY DEF Memories
<1>6. Addresses' = Addresses /\ Null' = Null /\ Data' = Data
  BY DEF Addresses, Null, Data, Hdr
<1>7. kind' \in Kinds
  BY DEF HeapType
<1> QED
  BY <1>1, <1>2, <1>4, <1>5, <1>6, <1>7 DEF HeapType

(* Locals that a step leaves alone.                                        *)
LEMMA SameLocals ==
  ASSUME HeapType, NEW c \in Callers
  PROVE  /\ req = [req EXCEPT ![c] = req[c]] /\ req[c] \in Nat
         /\ blk = [blk EXCEPT ![c] = blk[c]] /\ blk[c] \in Addresses \cup {Null}
         /\ kind \in Kinds /\ last \in Addresses \cup {Null} /\ brk \in Addresses
         /\ halted \in BOOLEAN /\ merged \in BOOLEAN /\ overlap \in BOOLEAN
BY DEF HeapType

(* When the block of a call that is alone is cleared, every other free one *)
(* is zero.                                                                *)
LEMMA ClearedFacts ==
  ASSUME HeapType, NEW B, Tiles(B), Cleared(B), ~merged, NEW a \in B, a # brk, ~mem[a].used,
         NEW c \in Callers, pc[c] = "clear" => blk[c] # a,
         \A d \in Callers : d # c => pc[d] = "idle"
  PROVE  \A x \in Int : (a + 1 <= x /\ x < a + mem[a].size) => mem[x] = Zero
<1>1. \A d \in Callers : pc[d] = "clear" => blk[d] # a
  <2> TAKE d \in Callers
  <2>1. CASE d = c
    BY <2>1
  <2>2. CASE d # c
    BY <2>2
  <2> QED
    BY <2>1, <2>2
<1>2. \A x \in a + HeaderSize .. a + mem[a].size - 1 : mem[x] = Zero
  BY <1>1 DEF Cleared
<1> SUFFICES ASSUME NEW x \in Int, a + 1 <= x, x < a + mem[a].size PROVE mem[x] = Zero
  OBVIOUS
<1>3. x \in a + HeaderSize .. a + mem[a].size - 1
  <2>1. a \in Nat /\ mem[a].size \in Nat /\ HeaderSize = 1
    BY TileFacts, HeapNumbers
  <2> QED
    BY <2>1
<1> QED
  BY <1>2, <1>3

-----------------------------------------------------------------------------
(* The steps, one by one                                                   *)

(* The call that marks its block gives it away.                            *)
LEMMA MarkMemory ==
  ASSUME HeapType, NEW c \in Callers, AllocateMark(c), mem[blk[c]] # Data, blk[c] \in Addresses
  PROVE  /\ mem' \in Memories
         /\ mem'[blk[c]] = Hdr(mem[blk[c]].size, TRUE)
         /\ \A a \in Addresses : a < blk[c] \/ a >= blk[c] + 1 + req[c] => mem'[a] = mem[a]
<1>1. PICK b \in Addresses : b = blk[c]
  OBVIOUS
<1>2. PICK n \in Nat : n = req[c]
  BY DEF HeapType
<1>3. PICK s \in 0 .. SizeMod - 1 : s = mem[b].size
  BY <1>1, Cells DEF HeapType
<1>4. b \in Nat /\ HeaderSize = 1
  BY HeapNumbers
<1>5. PICK m \in Memories : m = Put(mem, b, s, TRUE)
  <2>1. mem \in Memories /\ TRUE \in BOOLEAN
    BY MemoryIs
  <2>2. Put(mem, b, s, TRUE) \in Memories
    BY <2>1, PutCells, Zenon
  <2> QED
    BY <2>2
<1>6. m[b] = Hdr(s, TRUE) /\ \A a \in Addresses : a # b => m[a] = mem[a]
  BY <1>5, MemoryIs DEF Put, Memories
<1>7. mem' = Fill(m, b + 1, b + 1 + n, Data)
  <2>1. Given(c).lo = b + 1 /\ Given(c).hi = b + 1 + n
    BY <1>1, <1>2, <1>4 DEF Given
  <2>2. mem' = Use(m, Given(c))
    BY <1>1, <1>3, <1>5 DEF AllocateMark, Put
  <2> QED
    BY <2>1, <2>2 DEF Use
<1>8. /\ mem' \in Memories
      /\ \A a \in Addresses : mem'[a] = IF b + 1 <= a /\ a < b + 1 + n THEN Data ELSE m[a]
  <2>1. Fill(m, b + 1, b + 1 + n, Data) \in Memories
    BY FillCells
  <2>2. \A a \in Addresses : Fill(m, b + 1, b + 1 + n, Data)[a] = IF b + 1 <= a /\ a < b + 1 + n THEN Data ELSE m[a]
    BY FillCells
  <2> QED
    BY <1>7, <2>1, <2>2
<1>9. mem'[b] = Hdr(s, TRUE)
  <2>1. ~(b + 1 <= b)
    BY <1>4
  <2>2. mem'[b] = m[b]
    BY <1>8, <2>1
  <2> QED
    BY <1>6, <2>2
<1>10. ASSUME NEW a \in Addresses, a < b \/ a >= b + 1 + n PROVE mem'[a] = mem[a]
  <2>1. a \in Nat
    BY HeapNumbers
  <2>2. a # b /\ ~(b + 1 <= a /\ a < b + 1 + n)
    BY <1>4, <1>10, <2>1
  <2> QED
    BY <1>6, <1>8, <2>2
<1> QED
  BY <1>1, <1>2, <1>3, <1>8, <1>9, <1>10

(* AllocateMark keeps the invariant: the range is in a block that was free.*)
LEMMA MarkStep ==
  ASSUME HeapInv, NEW c \in Callers, AllocateMark(c)
  PROVE  HeapInv'
<1>1. HeapType
  BY DEF HeapInv
<1> DEFINE to == IF mem[blk[c]] = Data THEN "lost" ELSE "idle"
<1>2. Step(c, "mark", to)
  BY DEF AllocateMark, StepOnBlock
<1>3. /\ ~halted /\ pc[c] = "mark" /\ pc'[c] = to
      /\ ~overlap' => ~overlap /\ \A d \in Callers : d # c => pc[d] = "idle" /\ pc'[d] = "idle"
  BY <1>1, <1>2, StepAlone
<1>4. blk[c] \in Addresses
  BY <1>1, <1>3 DEF HeapType, OnBlock
<1>5. HeapType'
  <2>1. to \in Pcs /\ ~(to \in OnBlock)
    BY DEF Pcs, OnBlock
  <2>2. mem' \in Memories
    <3>1. CASE mem[blk[c]] = Data
      BY <1>1, <3>1, MemoryIs DEF AllocateMark
    <3>2. CASE mem[blk[c]] # Data
      BY <1>1, <1>4, <3>2, MarkMemory
    <3> QED
      BY <3>1, <3>2
  <2>3. /\ kind' = kind /\ last' = last /\ brk' = brk /\ halted' = halted /\ merged' = merged
        /\ req' = [req EXCEPT ![c] = 0] /\ blk' = [blk EXCEPT ![c] = Null]
    BY DEF AllocateMark, Forget
  <2>4. /\ kind' = kind /\ last' \in Addresses \cup {Null} /\ brk' \in Addresses
        /\ halted' \in BOOLEAN /\ merged' \in BOOLEAN /\ 0 \in Nat /\ Null \in Addresses \cup {Null}
    BY <1>1, <2>3, SameLocals
  <2> HIDE DEF to
  <2> QED
    BY <1>1, <1>2, <2>1, <2>2, <2>3, <2>4, TypeAfter
<1>6. ASSUME ~overlap' PROVE \E B \in SUBSET Addresses : Calm(B)'
  <2>1. PICK B \in SUBSET Addresses : Calm(B)
    BY <1>3, <1>6 DEF HeapInv
  <2>2. Tiles(B) /\ Owned(B) /\ Working(B) /\ Cleared(B)
    BY <2>1 DEF Calm
  <2>3. PICK b \in B : b = blk[c]
    BY <1>3, <2>2 DEF Working, OnBlock
  <2>4. b # brk /\ ~mem[b].used /\ req[c] > 0 /\ BlockSize(req[c]) <= mem[b].size
    BY <1>3, <2>2, <2>3 DEF Working, OnBlock
  <2>5. b \in Nat /\ b \in Addresses /\ mem[b] # Data
    BY <1>1, <2>2, <2>4, TileFacts
  <2>6. PICK s \in Nat : s = mem[b].size /\ s > 0 /\ b + s <= brk
    BY <1>1, <2>2, <2>4, TileFacts
  <2>7. PICK n \in Nat : n = req[c] /\ n > 0
    BY <1>1, <2>4 DEF HeapType
  <2>8. n + 1 <= s
    <3>1. BlockSize(n) \in Nat /\ BlockSize(n) >= n + 1
      BY <1>1, BlockSizeFits DEF HeapType
    <3> QED
      BY <2>4, <2>6, <2>7, <3>1
  <2>9. /\ mem'[b] = Hdr(s, TRUE)
        /\ \A a \in Addresses : a < b \/ a >= b + 1 + n => mem'[a] = mem[a]
    BY <1>1, <2>3, <2>5, <2>6, <2>7, MarkMemory
  <2>10. mem'[b].size = s /\ mem'[b].used
    BY <2>9 DEF Hdr
  <2>11. \A a \in B : a \in Nat /\ a \in Addresses /\ a <= brk
    BY <1>1, <2>2, TileFacts
  <2>12. \A a \in B : a # brk => mem[a].size \in Nat /\ mem[a].size > 0 /\ a < brk
    BY <1>1, <2>2, TileFacts
  <2>13. \A a \in B : a <= b \/ a >= b + s
    BY <2>2, <2>4, <2>6 DEF Tiles
  <2>14. \A a \in B : a # b => mem'[a] = mem[a]
    <3> SUFFICES ASSUME NEW a \in B, a # b PROVE a < b \/ a >= b + 1 + n
      BY <2>9, <2>11
    <3> QED
      BY <2>5, <2>8, <2>11, <2>13
  <2>15. \A a \in B : mem'[a].size = mem[a].size
    BY <2>6, <2>10, <2>14
  <2>16. kind' = kind /\ last' = last /\ brk' = brk /\ halted' = halted /\ merged' = merged
    BY DEF AllocateMark
  <2>17. brk \in Nat
    BY <1>1, Cells
  <2>18. Tiles(B)'
    <3>1. \A a \in Addresses : a >= brk => mem'[a] = Zero
      <4> SUFFICES ASSUME NEW a \in Addresses, a >= brk PROVE mem'[a] = Zero
        OBVIOUS
      <4>1. a \in Nat
        BY HeapNumbers
      <4>2. a >= b + 1 + n
        BY <2>5, <2>6, <2>8, <2>17, <4>1
      <4>3. mem'[a] = mem[a] /\ mem[a] = Zero
        BY <2>2, <2>9, <4>2 DEF Tiles
      <4> QED
        BY <4>3
    <3>2. /\ B \subseteq 0 .. brk /\ 0 \in B /\ brk \in B
          /\ IF kind = "kernel" THEN last = brk ELSE last < brk
      BY <2>2 DEF Tiles
    <3>3. \A a \in B : a # brk => /\ mem'[a].size > 0 /\ a + mem'[a].size \in B
                                  /\ \A x \in B : x <= a \/ x >= a + mem'[a].size
      BY <2>2, <2>15 DEF Tiles
    <3> QED
      BY <2>16, <3>1, <3>2, <3>3 DEF Tiles, Addresses, Zero, Hdr
  <2>19. PICK lo, hi \in Nat : lo = b + 1 /\ hi = b + 1 + n
    BY <2>5
  <2>20. \A r \in held : r.lo # lo
    <3> SUFFICES ASSUME NEW r \in held, r.lo = lo PROVE FALSE
      OBVIOUS
    <3>1. PICK a \in B : a # brk /\ mem[a].used /\ r.lo = a + HeaderSize
      BY <2>2 DEF Owned
    <3>2. a = b
      BY <2>5, <2>11, <2>19, <3>1, HeapNumbers
    <3> QED
      BY <2>4, <3>1, <3>2
  <2>21. PICK g : g = [lo |-> lo, hi |-> hi, copy |-> 0] /\ held' = held \cup {g}
    <3>1. {r \in held : r.lo = lo /\ r.hi = hi} = {}
      BY <2>20
    <3>2. Cardinality({r \in held : r.lo = lo /\ r.hi = hi}) = 0
      BY <3>1, FS_EmptySet
    <3>3. Given(c) = [lo |-> lo, hi |-> hi, copy |-> Cardinality({r \in held : r.lo = lo /\ r.hi = hi})]
      BY <2>3, <2>7, <2>19, HeapNumbers DEF Given
    <3>4. held' = held \cup {Given(c)}
      BY <2>3, <2>5 DEF AllocateMark
    <3> QED
      BY <3>2, <3>3, <3>4
  <2>22. Owned(B)'
    <3>1. held' \subseteq [lo : Nat, hi : Nat, copy : {0}]
      BY <2>2, <2>21 DEF Owned
    <3>2. g.lo = b + HeaderSize /\ g.lo < g.hi /\ g.hi <= b + s
      BY <2>5, <2>7, <2>8, <2>19, <2>21, HeapNumbers
    <3>3. ASSUME NEW r \in held'
          PROVE  \E a \in B : /\ a # brk /\ mem'[a].used
                              /\ r.lo = a + HeaderSize /\ r.lo < r.hi /\ r.hi <= a + mem'[a].size
      <4>1. CASE r = g
        BY <2>4, <2>6, <2>10, <2>15, <3>2, <4>1
      <4>2. CASE r \in held
        <5>1. PICK a \in B : /\ a # brk /\ mem[a].used
                             /\ r.lo = a + HeaderSize /\ r.lo < r.hi /\ r.hi <= a + mem[a].size
          BY <2>2, <4>2 DEF Owned
        <5>2. a # b
          BY <2>4, <5>1
        <5> QED
          BY <2>14, <5>1, <5>2
      <4> QED
        BY <2>21, <3>3, <4>1, <4>2
    <3>4. \A r, q \in held' : r.lo = q.lo => r = q
      <4>1. \A r, q \in held : r.lo = q.lo => r = q
        BY <2>2 DEF Owned
      <4>2. g.lo = lo
        BY <2>21
      <4> QED
        BY <2>20, <2>21, <4>1, <4>2
    <3>5. ASSUME NEW a \in B, a # brk, mem'[a].used PROVE \E r \in held' : r.lo = a + HeaderSize
      <4>1. CASE a = b
        BY <2>21, <3>2, <4>1
      <4>2. CASE a # b
        BY <2>2, <2>14, <2>21, <3>5, <4>2 DEF Owned
      <4> QED
        BY <4>1, <4>2
    <3> QED
      BY <2>16, <3>1, <3>3, <3>4, <3>5 DEF Owned
  <2>23. \A d \in Callers : pc'[d] = "idle"
    BY <1>3, <1>6, <2>3, <2>5
  <2>24. Working(B)'
    BY <2>23 DEF Working, OnBlock
  <2>25. Cleared(B)'
    <3> SUFFICES ASSUME ~merged, NEW a \in B, a # brk, ~mem'[a].used,
                        NEW x \in a + HeaderSize .. a + mem'[a].size - 1
                 PROVE  mem'[x] = Zero
      BY <2>16 DEF Cleared, Zero, Hdr
    <3>1. a # b /\ mem'[a] = mem[a] /\ ~mem[a].used
      BY <2>10, <2>14
    <3>2. PICK z \in Nat : z = mem[a].size /\ a \in Nat /\ a + z <= brk
      BY <1>1, <2>2, TileFacts
    <3>3. x \in Int /\ a + 1 <= x /\ x < a + z
      BY <3>1, <3>2, HeapNumbers
    <3>4. mem[x] = Zero
      BY <1>1, <1>3, <1>6, <2>2, <3>1, <3>2, <3>3, ClearedFacts
    <3>5. a + z <= b \/ b + s <= a
      BY <1>1, <2>2, <2>4, <2>6, <3>1, <3>2, BlocksApart
    <3>6. x \in Addresses
      BY <3>2, <3>3, <1>1, Cells, HeapNumbers
    <3>7. x < b \/ x >= b + 1 + n
      BY <2>5, <2>8, <3>2, <3>3, <3>5
    <3> QED
      BY <2>9, <3>4, <3>6, <3>7
  <2> QED
    BY <2>18, <2>22, <2>24, <2>25 DEF Calm
<1> QED
  BY <1>5, <1>6 DEF HeapInv, Addresses

(* FreeMark keeps the invariant: the range was in a used block of its own. *)
LEMMA FreeMarkStep ==
  ASSUME HeapInv, NEW c \in Callers, NEW r \in held, FreeMark(c, r)
  PROVE  HeapInv'
<1>1. HeapType
  BY DEF HeapInv
<1>2. ~overlap
  BY DEF FreeMark, Begin
<1>3. PICK B \in SUBSET Addresses : Calm(B)
  BY <1>2 DEF HeapInv
<1>4. Tiles(B) /\ Owned(B) /\ Working(B) /\ Cleared(B)
  BY <1>3 DEF Calm
<1>5. PICK b \in B : b # brk /\ mem[b].used /\ r.lo = b + HeaderSize
  BY <1>4 DEF Owned
<1>6. b \in Nat /\ b \in Addresses /\ mem[b] # Data
  BY <1>1, <1>4, <1>5, TileFacts
<1>7. PICK s \in Nat : s = mem[b].size /\ s > 0 /\ b + s <= brk /\ s \in 0 .. SizeMod - 1
  <2>1. mem[b].size \in Nat /\ mem[b].size > 0 /\ b + mem[b].size <= brk
    BY <1>1, <1>4, <1>5, TileFacts
  <2>2. mem[b].size \in -1 .. SizeMod - 1
    BY <1>1, <1>6 DEF HeapType
  <2>3. mem[b].size \in 0 .. SizeMod - 1
    BY <2>1, <2>2, HeapNumbers
  <2> QED
    BY <2>1, <2>3
<1>8. r.lo - HeaderSize = b
  BY <1>5, <1>6, HeapNumbers
<1>9. /\ Step(c, "idle", "clear") /\ mem' = Put(mem, b, s, FALSE)
      /\ blk' = [blk EXCEPT ![c] = b] /\ held' = held \ {r}
      /\ UNCHANGED <<kind, last, brk, req, halted, merged>>
  BY <1>5, <1>6, <1>7, <1>8 DEF FreeMark, Put
<1>10. mem' \in Memories /\ mem'[b] = Hdr(s, FALSE) /\ \A a \in Addresses : a # b => mem'[a] = mem[a]
  <2>1. mem \in Memories /\ FALSE \in BOOLEAN
    BY <1>1, MemoryIs
  <2>2. Put(mem, b, s, FALSE) \in Memories
    BY <1>6, <1>7, <2>1, PutCells, Zenon
  <2>3. /\ Put(mem, b, s, FALSE)[b] = Hdr(s, FALSE)
        /\ \A a \in Addresses : a # b => Put(mem, b, s, FALSE)[a] = mem[a]
    BY <1>6, <2>1 DEF Put, Memories
  <2> QED
    BY <1>9, <2>2, <2>3
<1>11. mem'[b].size = s /\ ~mem'[b].used
  BY <1>10 DEF Hdr
<1>12. /\ ~halted /\ pc[c] = "idle" /\ pc'[c] = "clear"
       /\ ~overlap' => \A d \in Callers : d # c => pc[d] = "idle" /\ pc'[d] = "idle"
  BY <1>1, <1>9, StepAlone
<1>13. HeapType'
  <2>1. "clear" \in Pcs /\ b \in Addresses \cup {Null}
    BY <1>6 DEF Pcs
  <2>2. /\ kind' = kind /\ last' \in Addresses \cup {Null} /\ brk' \in Addresses
        /\ halted' \in BOOLEAN /\ merged' \in BOOLEAN /\ req[c] \in Nat /\ req' = [req EXCEPT ![c] = req[c]]
    BY <1>1, <1>9, SameLocals
  <2>3. PICK to \in Pcs : to = "clear" /\ Step(c, "idle", to)
    BY <1>9, <2>1
  <2>4. PICK n \in Nat : req' = [req EXCEPT ![c] = n]
    BY <2>2
  <2> QED
    BY <1>1, <1>6, <1>9, <1>10, <2>1, <2>2, <2>3, <2>4, TypeAfter
<1>14. ASSUME ~overlap' PROVE Calm(B)'
  <2>1. \A a \in B : a \in Nat /\ a \in Addresses /\ a <= brk
    BY <1>1, <1>4, TileFacts
  <2>2. \A a \in B : a # b => mem'[a] = mem[a]
    BY <1>10, <2>1
  <2>3. \A a \in B : mem'[a].size = mem[a].size
    BY <1>7, <1>11, <2>2
  <2>4. kind' = kind /\ last' = last /\ brk' = brk /\ halted' = halted /\ merged' = merged
    BY <1>9
  <2>5. brk \in Nat
    BY <1>1, Cells
  <2>6. Tiles(B)'
    <3>1. \A a \in Addresses : a >= brk => mem'[a] = Zero
      <4> SUFFICES ASSUME NEW a \in Addresses, a >= brk PROVE mem'[a] = Zero
        OBVIOUS
      <4>1. a # b
        BY <1>6, <1>7, <2>5, HeapNumbers
      <4> QED
        BY <1>4, <1>10, <4>1 DEF Tiles
    <3>2. /\ B \subseteq 0 .. brk /\ 0 \in B /\ brk \in B
          /\ IF kind = "kernel" THEN last = brk ELSE last < brk
      BY <1>4 DEF Tiles
    <3>3. \A a \in B : a # brk => /\ mem'[a].size > 0 /\ a + mem'[a].size \in B
                                  /\ \A x \in B : x <= a \/ x >= a + mem'[a].size
      BY <1>4, <2>3 DEF Tiles
    <3> QED
      BY <2>4, <3>1, <3>2, <3>3 DEF Tiles, Addresses, Zero, Hdr
  <2>7. Owned(B)'
    <3>1. held' \subseteq [lo : Nat, hi : Nat, copy : {0}]
      BY <1>4, <1>9 DEF Owned
    <3>2. \A q, p \in held' : q.lo = p.lo => q = p
      BY <1>4, <1>9 DEF Owned
    <3>3. ASSUME NEW q \in held'
          PROVE  \E a \in B : /\ a # brk /\ mem'[a].used
                              /\ q.lo = a + HeaderSize /\ q.lo < q.hi /\ q.hi <= a + mem'[a].size
      <4>1. q \in held /\ q # r
        BY <1>9, <3>3
      <4>2. PICK a \in B : /\ a # brk /\ mem[a].used
                           /\ q.lo = a + HeaderSize /\ q.lo < q.hi /\ q.hi <= a + mem[a].size
        BY <1>4, <4>1 DEF Owned
      <4>3. q.lo # r.lo
        BY <1>4, <4>1 DEF Owned
      <4>4. a # b
        BY <1>5, <4>2, <4>3
      <4> QED
        BY <2>2, <4>2, <4>4
    <3>4. ASSUME NEW a \in B, a # brk, mem'[a].used PROVE \E q \in held' : q.lo = a + HeaderSize
      <4>1. a # b /\ mem[a].used
        BY <1>11, <2>2, <3>4
      <4>2. PICK q \in held : q.lo = a + HeaderSize
        BY <1>4, <3>4, <4>1 DEF Owned
      <4>3. q # r
        BY <1>5, <1>6, <2>1, <4>1, <4>2, HeapNumbers
      <4> QED
        BY <1>9, <4>2, <4>3
    <3> QED
      BY <2>4, <3>1, <3>2, <3>3, <3>4 DEF Owned
  <2>8. blk'[c] = b
    BY <1>1, <1>9 DEF HeapType
  <2>9. Working(B)'
    <3> SUFFICES ASSUME NEW d \in Callers
                 PROVE  /\ pc'[d] \notin {"loop", "lost"}
                        /\ pc'[d] \in OnBlock => blk'[d] \in B /\ blk'[d] # brk' /\ ~mem'[blk'[d]].used
                        /\ pc'[d] \notin {"grow", "split", "mark"}
      BY DEF Working, OnBlock
    <3>1. CASE d = c
      BY <1>5, <1>11, <1>12, <2>4, <2>8, <3>1 DEF OnBlock
    <3>2. CASE d # c
      BY <1>12, <1>14, <3>2 DEF OnBlock
    <3> QED
      BY <3>1, <3>2
  <2>10. Cleared(B)'
    <3> SUFFICES ASSUME ~merged, NEW a \in B, a # brk, ~mem'[a].used,
                        \A d \in Callers : pc'[d] = "clear" => blk'[d] # a,
                        NEW x \in a + HeaderSize .. a + mem'[a].size - 1
                 PROVE  mem'[x] = Zero
      BY <2>4 DEF Cleared, Zero, Hdr
    <3>1. a # b
      BY <1>12, <2>8
    <3>2. mem'[a] = mem[a] /\ ~mem[a].used
      BY <2>2, <3>1
    <3>3. PICK z \in Nat : z = mem[a].size /\ a \in Nat /\ a + z <= brk
      BY <1>1, <1>4, TileFacts
    <3>4. x \in Int /\ a + 1 <= x /\ x < a + z
      BY <3>2, <3>3, HeapNumbers
    <3>5. mem[x] = Zero
      BY <1>1, <1>4, <1>12, <1>14, <3>2, <3>3, <3>4, ClearedFacts
    <3>6. a + z <= b \/ b + s <= a
      BY <1>1, <1>4, <1>5, <1>7, <3>1, <3>3, BlocksApart
    <3>7. x \in Addresses
      BY <3>3, <3>4, <1>1, Cells, HeapNumbers
    <3>8. x # b
      BY <1>6, <1>7, <3>3, <3>4, <3>6
    <3> QED
      BY <1>10, <3>5, <3>7, <3>8
  <2> QED
    BY <2>6, <2>7, <2>9, <2>10 DEF Calm
<1> QED
  BY <1>13, <1>14 DEF HeapInv, Addresses

(* FreeClear keeps the invariant: it writes inside its block only.         *)
LEMMA FreeClearStep ==
  ASSUME HeapInv, NEW c \in Callers, FreeClear(c)
  PROVE  HeapInv'
<1>1. HeapType
  BY DEF HeapInv
<1>2. PICK next : next = IF kind = "kernel" THEN "merge" ELSE "idle"
  OBVIOUS
<1>3. PICK to : to = IF mem[blk[c]] = Data THEN "lost" ELSE next
  OBVIOUS
<1>4. Step(c, "clear", to)
  BY <1>2, <1>3 DEF FreeClear, StepOnBlock
<1>5. /\ ~halted /\ pc[c] = "clear" /\ pc'[c] = to
      /\ ~overlap' => ~overlap /\ \A d \in Callers : d # c => pc[d] = "idle" /\ pc'[d] = "idle"
  BY <1>1, <1>4, StepAlone
<1>6. PICK b \in Addresses : b = blk[c]
  BY <1>1, <1>5 DEF HeapType, OnBlock
<1>7. PICK keep : keep = IF kind = "kernel" THEN b ELSE Null
  OBVIOUS
<1>8. /\ mem' = Fill(mem, b + HeaderSize, b + mem[b].size, Zero)
      /\ blk' = [blk EXCEPT ![c] = keep]
      /\ UNCHANGED <<kind, last, brk, req, held, halted, merged>>
  BY <1>6, <1>7 DEF FreeClear
<1>9. /\ mem' \in Memories
      /\ \A a \in Addresses : mem'[a] = IF b + HeaderSize <= a /\ a < b + mem[b].size THEN Zero ELSE mem[a]
  <2>1. PICK m \in Memories : m = mem
    BY <1>1, MemoryIs
  <2>2. Fill(m, b + HeaderSize, b + m[b].size, Zero) \in Memories
    BY FillCells
  <2>3. \A a \in Addresses : Fill(m, b + HeaderSize, b + m[b].size, Zero)[a] =
                               IF b + HeaderSize <= a /\ a < b + m[b].size THEN Zero ELSE m[a]
    BY FillCells
  <2> QED
    BY <1>8, <2>1, <2>2, <2>3
<1>10. HeapType'
  <2>1. to \in Pcs /\ keep \in Addresses \cup {Null} /\ (to \in OnBlock => keep \in Addresses)
    BY <1>2, <1>3, <1>7 DEF Pcs, OnBlock
  <2>2. /\ kind' = kind /\ last' \in Addresses \cup {Null} /\ brk' \in Addresses
        /\ halted' \in BOOLEAN /\ merged' \in BOOLEAN /\ req[c] \in Nat /\ req' = [req EXCEPT ![c] = req[c]]
    BY <1>1, <1>8, SameLocals
  <2>3. PICK n \in Nat : req' = [req EXCEPT ![c] = n]
    BY <2>2
  <2> QED
    BY <1>1, <1>4, <1>8, <1>9, <2>1, <2>2, <2>3, TypeAfter
<1>11. ASSUME ~overlap' PROVE \E B \in SUBSET Addresses : Calm(B)'
  <2>1. PICK B \in SUBSET Addresses : Calm(B)
    BY <1>5, <1>11 DEF HeapInv
  <2>2. Tiles(B) /\ Owned(B) /\ Working(B) /\ Cleared(B)
    BY <2>1 DEF Calm
  <2>3. b \in B /\ b # brk /\ ~mem[b].used
    BY <1>5, <1>6, <2>2 DEF Working, OnBlock
  <2>4. b \in Nat /\ mem[b] # Data
    BY <1>1, <2>2, <2>3, TileFacts
  <2>5. PICK s \in Nat : s = mem[b].size /\ s > 0 /\ b + s <= brk
    BY <1>1, <2>2, <2>3, TileFacts
  <2>6. \A a \in Addresses : mem'[a] = IF b + 1 <= a /\ a < b + s THEN Zero ELSE mem[a]
    BY <1>9, <2>5, HeapNumbers
  <2>7. \A a \in B : a \in Nat /\ a \in Addresses /\ a <= brk
    BY <1>1, <2>2, TileFacts
  <2>8. \A a \in B : a <= b \/ a >= b + s
    BY <2>2, <2>3, <2>5 DEF Tiles
  <2>9. \A a \in B : mem'[a] = mem[a]
    <3> SUFFICES ASSUME NEW a \in B PROVE ~(b + 1 <= a /\ a < b + s)
      BY <2>6, <2>7
    <3> QED
      BY <2>4, <2>7, <2>8
  <2>10. kind' = kind /\ last' = last /\ brk' = brk /\ halted' = halted /\ merged' = merged /\ held' = held
    BY <1>8
  <2>11. Tiles(B)'
    <3>1. \A a \in Addresses : a >= brk => mem'[a] = Zero
      BY <2>2, <2>6 DEF Tiles
    <3>2. /\ B \subseteq 0 .. brk /\ 0 \in B /\ brk \in B
          /\ IF kind = "kernel" THEN last = brk ELSE last < brk
      BY <2>2 DEF Tiles
    <3>3. \A a \in B : a # brk => /\ mem'[a].size > 0 /\ a + mem'[a].size \in B
                                  /\ \A x \in B : x <= a \/ x >= a + mem'[a].size
      BY <2>2, <2>9 DEF Tiles
    <3> QED
      BY <2>10, <3>1, <3>2, <3>3 DEF Tiles, Addresses, Zero, Hdr
  <2>12. Owned(B)'
    <3>1. \A r \in held : \E a \in B :
            /\ a # brk /\ mem'[a].used
            /\ r.lo = a + HeaderSize /\ r.lo < r.hi /\ r.hi <= a + mem'[a].size
      BY <2>2, <2>9 DEF Owned
    <3>2. \A a \in B : (a # brk /\ mem'[a].used) => \E r \in held : r.lo = a + HeaderSize
      BY <2>2, <2>9 DEF Owned
    <3>3. held \subseteq [lo : Nat, hi : Nat, copy : {0}] /\ \A r, q \in held : r.lo = q.lo => r = q
      BY <2>2 DEF Owned
    <3> QED
      BY <2>10, <3>1, <3>2, <3>3 DEF Owned
  <2>13. pc'[c] = next /\ pc'[c] \in {"merge", "idle"} /\ blk'[c] = keep
    BY <1>1, <1>2, <1>3, <1>5, <1>6, <1>8, <2>4 DEF HeapType
  <2>14. Working(B)'
    <3> SUFFICES ASSUME NEW d \in Callers
                 PROVE  /\ pc'[d] \notin {"loop", "lost"}
                        /\ pc'[d] \in OnBlock => blk'[d] \in B /\ blk'[d] # brk' /\ ~mem'[blk'[d]].used
                        /\ pc'[d] \notin {"grow", "split", "mark"}
      BY DEF Working, OnBlock
    <3>1. CASE d = c
      <4>1. CASE kind = "kernel"
        BY <1>7, <2>3, <2>9, <2>10, <2>13, <3>1, <4>1
      <4>2. CASE kind # "kernel"
        BY <1>2, <2>13, <3>1, <4>2 DEF OnBlock
      <4> QED
        BY <4>1, <4>2
    <3>2. CASE d # c
      BY <1>5, <1>11, <3>2 DEF OnBlock
    <3> QED
      BY <3>1, <3>2
  <2>15. Cleared(B)'
    <3> SUFFICES ASSUME ~merged, NEW a \in B, a # brk, ~mem'[a].used,
                        NEW x \in a + HeaderSize .. a + mem'[a].size - 1
                 PROVE  mem'[x] = Zero
      BY <2>10 DEF Cleared, Zero, Hdr
    <3>1. mem'[a] = mem[a] /\ ~mem[a].used
      BY <2>9
    <3>2. PICK z \in Nat : z = mem[a].size /\ a \in Nat /\ a + z <= brk
      BY <1>1, <2>2, TileFacts
    <3>3. x \in Int /\ a + 1 <= x /\ x < a + z
      BY <3>1, <3>2, HeapNumbers
    <3>4. x \in Addresses
      BY <3>2, <3>3, <1>1, Cells, HeapNumbers
    <3>5. CASE a = b
      BY <2>5, <2>6, <3>2, <3>3, <3>4, <3>5
    <3>6. CASE a # b
      <4>1. mem[x] = Zero
        BY <1>1, <1>5, <1>6, <1>11, <2>2, <3>1, <3>2, <3>3, <3>6, ClearedFacts
      <4> QED
        BY <2>6, <3>4, <4>1
    <3> QED
      BY <3>5, <3>6
  <2> QED
    BY <2>11, <2>12, <2>14, <2>15 DEF Calm
<1> QED
  BY <1>10, <1>11 DEF HeapInv, Addresses

(* FreeMerge keeps the invariant: the blocks it takes in are free, and the *)
(* released one then goes as far as the last of them did.                  *)
LEMMA FreeMergeStep ==
  ASSUME HeapInv, NEW c \in Callers, FreeMerge(c)
  PROVE  HeapInv'
<1>1. HeapType
  BY DEF HeapInv
<1>2. PICK to : to = IF mem[blk[c]] = Data THEN "lost" ELSE "idle"
  OBVIOUS
<1>3. Step(c, "merge", to)
  BY <1>2 DEF FreeMerge, StepOnBlock
<1>4. /\ ~halted /\ pc[c] = "merge" /\ pc'[c] = to
      /\ ~overlap' => ~overlap /\ \A d \in Callers : d # c => pc[d] = "idle" /\ pc'[d] = "idle"
  BY <1>1, <1>3, StepAlone
<1>5. PICK b \in Addresses : b = blk[c]
  BY <1>1, <1>4 DEF HeapType, OnBlock
<1>6. /\ req' = [req EXCEPT ![c] = 0] /\ blk' = [blk EXCEPT ![c] = Null]
      /\ UNCHANGED <<kind, last, brk, held, halted>>
  BY DEF FreeMerge, Forget
<1>7. PICK end : end = FreeUntil(b + mem[b].size)
  OBVIOUS
<1>8. /\ mem' = IF mem[b] = Data THEN mem ELSE Put(mem, b, (end - b) % SizeMod, mem[b].used)
      /\ merged' = (merged \/ end # b + mem[b].size)
  BY <1>5, <1>7 DEF FreeMerge, MergeBlocksFrom, Put
<1>9. mem[b] # Data => /\ end \in Nat /\ (end - b) % SizeMod \in 0 .. SizeMod - 1
  <2> SUFFICES ASSUME mem[b] # Data PROVE end \in Nat /\ (end - b) % SizeMod \in 0 .. SizeMod - 1
    OBVIOUS
  <2>1. PICK a \in Nat : a = b + mem[b].size
    <3>1. b \in Nat /\ mem[b].size \in Int /\ mem[b].size >= 0
      BY <1>1, Cells
    <3> QED
      BY <3>1
  <2>2. end \in Nat
    BY <1>1, <1>7, <2>1, UntilType
  <2>3. b \in Nat
    BY HeapNumbers
  <2>4. PICK i \in Int : i = end - b
    BY <2>2, <2>3
  <2>5. i % SizeMod \in 0 .. SizeMod - 1
    BY HeapNumbers
  <2> QED
    BY <2>2, <2>4, <2>5
<1>10. /\ mem' \in Memories
       /\ mem[b] # Data => mem'[b] = Hdr((end - b) % SizeMod, mem[b].used)
       /\ \A a \in Addresses : a # b => mem'[a] = mem[a]
  <2>1. mem \in Memories
    BY <1>1, MemoryIs
  <2>2. CASE mem[b] = Data
    BY <1>8, <2>1, <2>2
  <2>3. CASE mem[b] # Data
    <3>1. PICK v \in 0 .. SizeMod - 1 : v = (end - b) % SizeMod
      BY <1>9, <2>3
    <3>2. PICK u \in BOOLEAN : u = mem[b].used
      BY <1>1, Cells
    <3>3. PICK m \in Memories : m = mem
      BY <2>1
    <3>4. Put(m, b, v, u) \in Memories
      BY PutCells
    <3>5. Put(m, b, v, u)[b] = Hdr(v, u) /\ \A a \in Addresses : a # b => Put(m, b, v, u)[a] = m[a]
      BY PutCells
    <3>6. mem' = Put(m, b, v, u)
      BY <1>8, <2>3, <3>1, <3>2, <3>3
    <3> QED
      BY <3>1, <3>2, <3>3, <3>4, <3>5, <3>6
  <2> QED
    BY <2>2, <2>3
<1>11. HeapType'
  <2>1. to \in Pcs /\ ~(to \in OnBlock) /\ 0 \in Nat /\ Null \in Addresses \cup {Null}
    BY <1>2 DEF Pcs, OnBlock
  <2>2. merged' \in BOOLEAN
    <3>1. merged \in BOOLEAN
      BY <1>1 DEF HeapType
    <3> QED
      BY <1>8, <3>1, Zenon
  <2>3. /\ kind' = kind /\ last' \in Addresses \cup {Null} /\ brk' \in Addresses /\ halted' \in BOOLEAN
    BY <1>1, <1>6, SameLocals
  <2> QED
    BY <1>1, <1>3, <1>6, <1>10, <2>1, <2>2, <2>3, TypeAfter
<1>12. ASSUME ~overlap' PROVE \E B \in SUBSET Addresses : Calm(B)'
  <2>1. PICK B \in SUBSET Addresses : Calm(B)
    BY <1>4, <1>12 DEF HeapInv
  <2>2. Tiles(B) /\ Owned(B) /\ Working(B) /\ Cleared(B)
    BY <2>1 DEF Calm
  <2>3. b \in B /\ b # brk /\ ~mem[b].used
    BY <1>4, <1>5, <2>2 DEF Working, OnBlock
  <2>4. b \in Nat /\ mem[b] # Data /\ b < brk
    BY <1>1, <2>2, <2>3, TileFacts
  <2>5. PICK s \in Nat : s = mem[b].size /\ s > 0 /\ b + s <= brk /\ b + s \in B
    BY <1>1, <2>2, <2>3, TileFacts
  <2>6. \A a \in B : a \in Nat /\ a \in Addresses /\ a <= brk
    BY <1>1, <2>2, TileFacts
  <2>7. \A a \in B : a # brk => mem[a].size \in Nat /\ mem[a].size > 0 /\ a < brk /\ a + mem[a].size \in B
    BY <1>1, <2>2, TileFacts
  <2>8. end \in B /\ b + s <= end /\ \A x \in B : (b + s <= x /\ x < end) => ~mem[x].used
    <3>1. PICK a \in B : a = b + s
      BY <2>5
    <3>2. FreeUntil(a) \in B /\ a <= FreeUntil(a) /\ \A x \in B : (a <= x /\ x < FreeUntil(a)) => ~mem[x].used
      BY <1>1, <2>2, UntilTiles
    <3> QED
      BY <1>7, <2>5, <3>1, <3>2
  <2>9. PICK e \in Nat : e = end /\ e <= brk /\ b + s <= e
    BY <2>6, <2>8
  <2>10. brk \in Nat /\ brk <= Limit
    BY <1>1, Cells
  <2>11. PICK w \in Nat : w = e - b /\ w > 0
    BY <2>4, <2>5, <2>9
  <2>12. mem'[b].size = w /\ ~mem'[b].used
    <3>1. w \in 0 .. Limit
      BY <2>4, <2>9, <2>10, <2>11, HeapNumbers
    <3>2. w % SizeMod = w
      BY <3>1, PlainSize
    <3>3. mem'[b] = Hdr(w, mem[b].used)
      BY <1>10, <2>4, <2>9, <2>11, <3>2
    <3> QED
      BY <2>3, <3>3 DEF Hdr
  <2>13. PICK C \in SUBSET Addresses : C = {x \in B : x <= b \/ x >= e}
    OBVIOUS
  <2>14. C \subseteq B /\ b \in C /\ e \in C /\ \A x \in B : x \in C <=> (x <= b \/ x >= e)
    BY <2>3, <2>4, <2>8, <2>9, <2>13
  <2>15. \A a \in B : a # b => mem'[a] = mem[a]
    BY <1>10, <2>6
  <2>16. kind' = kind /\ last' = last /\ brk' = brk /\ halted' = halted /\ held' = held
    BY <1>6
  <2>17. \A a, x \in B : a # brk => (x <= a \/ x >= a + mem[a].size)
    BY <2>2 DEF Tiles
  <2>18. Tiles(C)'
    <3>1. \A a \in Addresses : a >= brk => mem'[a] = Zero
      <4> SUFFICES ASSUME NEW a \in Addresses, a >= brk PROVE mem'[a] = Zero
        OBVIOUS
      <4>1. a # b
        BY <2>4, <2>10, HeapNumbers
      <4> QED
        BY <1>10, <2>2, <4>1 DEF Tiles
    <3>2. C \subseteq 0 .. brk
      BY <2>2, <2>14 DEF Tiles
    <3>3. 0 \in C /\ brk \in C
      <4>1. 0 \in B /\ brk \in B
        BY <2>2 DEF Tiles
      <4> QED
        BY <2>4, <2>9, <2>14, <4>1
    <3>4. ASSUME NEW a \in C, a # brk
          PROVE  /\ mem'[a].size > 0 /\ a + mem'[a].size \in C
                 /\ \A x \in C : x <= a \/ x >= a + mem'[a].size
      <4>1. CASE a = b
        <5>1. b + w = e
          BY <2>4, <2>9, <2>11
        <5> QED
          BY <2>11, <2>12, <2>14, <4>1, <5>1
      <4>2. CASE a # b
        <5>1. a \in B /\ a \in Nat /\ (a <= b \/ a >= e) /\ mem'[a] = mem[a]
          BY <2>6, <2>14, <2>15, <4>2
        <5>2. PICK z \in Nat : z = mem[a].size /\ z > 0 /\ a + z \in B
          BY <2>7, <3>4, <5>1
        <5>3. a < b => a + z <= b
          BY <2>3, <2>17, <2>4, <3>4, <5>1, <5>2
        <5>4. a + z <= b \/ a + z >= e
          BY <2>4, <2>9, <4>2, <5>1, <5>2, <5>3
        <5>5. a + z \in C
          BY <2>14, <5>2, <5>4
        <5>6. \A x \in C : x <= a \/ x >= a + z
          BY <2>14, <2>17, <3>4, <5>1, <5>2
        <5> QED
          BY <5>1, <5>2, <5>5, <5>6
      <4> QED
        BY <4>1, <4>2
    <3>5. IF kind = "kernel" THEN last = brk ELSE last < brk
      BY <2>2 DEF Tiles
    <3> QED
      BY <2>16, <3>1, <3>2, <3>3, <3>4, <3>5 DEF Tiles, Addresses, Zero, Hdr
  <2>19. \A a \in B : (a # brk /\ mem[a].used) => a \in C /\ a # b
    <3> SUFFICES ASSUME NEW a \in B, a # brk, mem[a].used PROVE a \in C /\ a # b
      OBVIOUS
    <3>1. a # b
      BY <2>3
    <3>2. a <= b \/ a >= b + s
      BY <2>3, <2>5, <2>17
    <3>3. ~(b + s <= a /\ a < e)
      BY <2>8, <2>9
    <3> QED
      BY <2>4, <2>6, <2>9, <2>14, <3>1, <3>2, <3>3
  <2>20. Owned(C)'
    <3>1. ASSUME NEW r \in held
          PROVE  \E a \in C : /\ a # brk /\ mem'[a].used
                              /\ r.lo = a + HeaderSize /\ r.lo < r.hi /\ r.hi <= a + mem'[a].size
      <4>1. PICK a \in B : /\ a # brk /\ mem[a].used
                           /\ r.lo = a + HeaderSize /\ r.lo < r.hi /\ r.hi <= a + mem[a].size
        BY <2>2 DEF Owned
      <4> QED
        BY <2>15, <2>19, <4>1
    <3>2. \A a \in C : (a # brk /\ mem'[a].used) => \E r \in held : r.lo = a + HeaderSize
      <4> SUFFICES ASSUME NEW a \in C, a # brk, mem'[a].used PROVE \E r \in held : r.lo = a + HeaderSize
        OBVIOUS
      <4>1. a # b /\ a \in B /\ mem[a].used
        BY <2>12, <2>14, <2>15
      <4> QED
        BY <2>2, <4>1 DEF Owned
    <3>3. held \subseteq [lo : Nat, hi : Nat, copy : {0}] /\ \A r, q \in held : r.lo = q.lo => r = q
      BY <2>2 DEF Owned
    <3> QED
      BY <2>16, <3>1, <3>2, <3>3 DEF Owned
  <2>21. \A d \in Callers : pc'[d] = "idle"
    BY <1>2, <1>4, <1>5, <1>12, <2>4
  <2>22. Working(C)'
    BY <2>21 DEF Working, OnBlock
  <2>23. Cleared(C)'
    <3> SUFFICES ASSUME ~merged', NEW a \in C, a # brk, ~mem'[a].used,
                        NEW x \in a + HeaderSize .. a + mem'[a].size - 1
                 PROVE  mem'[x] = Zero
      BY <2>16 DEF Cleared, Zero, Hdr
    <3>1. ~merged /\ e = b + s
      BY <1>8, <2>5, <2>9
    <3>2. a \in B /\ mem'[a].size = mem[a].size /\ ~mem[a].used
      <4>1. CASE a = b
        BY <2>3, <2>4, <2>5, <2>11, <2>12, <3>1, <4>1
      <4>2. CASE a # b
        BY <2>14, <2>15, <4>2
      <4> QED
        BY <4>1, <4>2
    <3>3. PICK z \in Nat : z = mem[a].size /\ a \in Nat /\ a + z <= brk
      BY <1>1, <2>2, <3>2, TileFacts
    <3>4. x \in Int /\ a + 1 <= x /\ x < a + z
      BY <3>2, <3>3, HeapNumbers
    <3>5. mem[x] = Zero
      BY <1>1, <1>4, <1>12, <2>2, <3>1, <3>2, <3>3, <3>4, ClearedFacts
    <3>6. x \in Addresses
      BY <2>10, <3>3, <3>4, HeapNumbers
    <3>7. x # b
      BY <2>3, <2>4, <2>17, <3>2, <3>3, <3>4
    <3> QED
      BY <1>10, <3>5, <3>6, <3>7
  <2> QED
    BY <2>18, <2>20, <2>22, <2>23 DEF Calm
<1> QED
  BY <1>11, <1>12 DEF HeapInv, Addresses

(* AllocateSplit keeps the invariant: the two parts are the block.         *)
LEMMA SplitStep ==
  ASSUME HeapInv, NEW c \in Callers, AllocateSplit(c)
  PROVE  HeapInv'
<1>1. HeapType
  BY DEF HeapInv
<1>2. PICK to : to = IF mem[blk[c]] = Data THEN "lost" ELSE "mark"
  OBVIOUS
<1>3. Step(c, "split", to)
  BY <1>2 DEF AllocateSplit, StepOnBlock
<1>4. /\ ~halted /\ pc[c] = "split" /\ pc'[c] = to
      /\ ~overlap' => ~overlap /\ \A d \in Callers : d # c => pc[d] = "idle" /\ pc'[d] = "idle"
  BY <1>1, <1>3, StepAlone
<1>5. PICK b \in Addresses : b = blk[c]
  BY <1>1, <1>4 DEF HeapType, OnBlock
<1>6. UNCHANGED <<kind, last, brk, req, blk, held, halted, merged>>
  BY DEF AllocateSplit
<1>7. PICK n \in Nat : n = req[c]
  BY <1>1 DEF HeapType
<1>8. PICK r \in Nat : r = BlockSize(n) /\ r >= n + 1
  BY <1>1, BlockSizeFits DEF HeapType
<1>9. b \in Nat /\ HeaderSize = 1 /\ MinBlock \in Nat /\ MinBlock > 0
  BY HeapNumbers
<1> DEFINE whole == mem[b].size - r \in 0 .. HeaderSize + MinBlock - 1 \/ b + r \notin Addresses \/ mem[b] = Data
<1>10. mem' = IF whole THEN mem ELSE SplitBlock(mem, b, r)
  BY <1>5, <1>7, <1>8 DEF AllocateSplit
<1>11. PICK u \in BOOLEAN : u = mem[b].used
  BY <1>1, Cells
<1>12. ASSUME ~whole
       PROVE  /\ b + r \in Addresses /\ mem' \in Memories
              /\ mem'[b] = Hdr(r, u)
              /\ mem'[b + r] = Hdr((mem[b].size - r) % SizeMod, FALSE)
              /\ \A a \in Addresses : a # b /\ a # b + r => mem'[a] = mem[a]
  <2>1. PICK t \in Addresses : t = b + r
    BY <1>12
  <2>2. t # b /\ r \in 0 .. SizeMod - 1
    BY <1>8, <1>9, <2>1, HeapNumbers
  <2>3. PICK v \in 0 .. SizeMod - 1 : v = (mem[b].size - r) % SizeMod
    <3>1. PICK i \in Int : i = mem[b].size - r
      <4>1. mem[b].size \in Int
        BY <1>1, Cells
      <4> QED
        BY <4>1
    <3>2. i % SizeMod \in 0 .. SizeMod - 1
      BY HeapNumbers
    <3> QED
      BY <3>1, <3>2
  <2>4. PICK m \in Memories : m = mem
    BY <1>1, MemoryIs
  <2>5. PICK m1 \in Memories : /\ m1 = Put(m, t, v, FALSE) /\ m1[t] = Hdr(v, FALSE)
                               /\ \A a \in Addresses : a # t => m1[a] = m[a]
    <3>1. FALSE \in BOOLEAN
      OBVIOUS
    <3>2. Put(m, t, v, FALSE) \in Memories
      BY <3>1, PutCells, Zenon
    <3>3. Put(m, t, v, FALSE)[t] = Hdr(v, FALSE) /\ \A a \in Addresses : a # t => Put(m, t, v, FALSE)[a] = m[a]
      BY DEF Put, Memories
    <3> QED
      BY <3>2, <3>3
  <2>6. /\ Put(m1, b, r, u) \in Memories /\ Put(m1, b, r, u)[b] = Hdr(r, u)
        /\ \A a \in Addresses : a # b => Put(m1, b, r, u)[a] = m1[a]
    BY <2>2, PutCells
  <2>7. m1[b] = m[b]
    BY <2>2, <2>5
  <2>8. SplitBlock(mem, b, r) = Put(m1, b, r, u)
    <3>1. SplitBlock(mem, b, r) = [m1 EXCEPT ![b] = Hdr(r, @.used)]
      <4>1. SplitBlock(m, b, r) =
              [[m EXCEPT ![b + r] = Hdr((m[b].size - r) % SizeMod, FALSE)] EXCEPT ![b] = Hdr(r, @.used)]
        BY DEF SplitBlock
      <4>2. m1 = [m EXCEPT ![b + r] = Hdr((m[b].size - r) % SizeMod, FALSE)]
        BY <2>1, <2>3, <2>4, <2>5 DEF Put
      <4> QED
        BY <2>4, <4>1, <4>2
    <3> QED
      BY <1>11, <2>4, <2>7, <3>1 DEF Put
  <2>9. mem' = Put(m1, b, r, u)
    BY <1>10, <1>12, <2>8
  <2> QED
    BY <2>1, <2>2, <2>3, <2>4, <2>5, <2>6, <2>9
<1>13. mem' \in Memories
  <2>1. CASE whole
    BY <1>1, <1>10, <2>1, MemoryIs
  <2>2. CASE ~whole
    BY <1>12, <2>2
  <2> QED
    BY <2>1, <2>2
<1>14. HeapType'
  <2>1. to \in Pcs /\ blk[c] \in Addresses /\ b \in Addresses \cup {Null}
    BY <1>2, <1>5 DEF Pcs
  <2>2. /\ kind' = kind /\ last' \in Addresses \cup {Null} /\ brk' \in Addresses
        /\ halted' \in BOOLEAN /\ merged' \in BOOLEAN
        /\ req' = [req EXCEPT ![c] = n] /\ blk' = [blk EXCEPT ![c] = b]
    BY <1>1, <1>5, <1>6, <1>7, SameLocals
  <2> QED
    BY <1>1, <1>3, <1>13, <2>1, <2>2, TypeAfter
<1>15. ASSUME ~overlap' PROVE \E B \in SUBSET Addresses : Calm(B)'
  <2>1. PICK B \in SUBSET Addresses : Calm(B)
    BY <1>4, <1>15 DEF HeapInv
  <2>2. Tiles(B) /\ Owned(B) /\ Working(B) /\ Cleared(B)
    BY <2>1 DEF Calm
  <2>3. b \in B /\ b # brk /\ ~mem[b].used /\ n > 0 /\ r <= mem[b].size
    BY <1>4, <1>5, <1>7, <1>8, <2>2 DEF Working, OnBlock
  <2>4. b < brk /\ mem[b] # Data
    BY <1>1, <2>2, <2>3, TileFacts
  <2>5. PICK s \in Nat : s = mem[b].size /\ s > 0 /\ b + s <= brk /\ b + s \in B
    BY <1>1, <2>2, <2>3, TileFacts
  <2>6. \A a \in B : a \in Nat /\ a \in Addresses /\ a <= brk
    BY <1>1, <2>2, TileFacts
  <2>7. \A a \in B : a # brk => mem[a].size \in Nat /\ mem[a].size > 0 /\ a < brk /\ a + mem[a].size \in B
    BY <1>1, <2>2, TileFacts
  <2>8. \A a, x \in B : a # brk => (x <= a \/ x >= a + mem[a].size)
    BY <2>2 DEF Tiles
  <2>9. kind' = kind /\ last' = last /\ brk' = brk /\ halted' = halted /\ held' = held /\ merged' = merged
        /\ req' = req /\ blk' = blk
    BY <1>6
  <2>10. brk \in Nat /\ brk <= Limit /\ r <= s /\ r > 0
    BY <1>1, <1>8, <2>3, <2>5, Cells
  <2>11. pc'[c] = "mark"
    BY <1>2, <1>4, <1>5, <2>4
  <2>12. \A k : BlockSize(k)' = IF kind = "kernel" THEN k' + HeaderSize ELSE ClosestPow(k' + HeaderSize, Align)
    BY <2>9 DEF BlockSize, ClosestPow, LocalMod
  <2>13. BlockSize(req[c])' = r
    BY <1>7, <1>8, <2>9, <2>12 DEF BlockSize
  <2>14. ASSUME NEW C \in SUBSET Addresses, b \in C, ~mem'[b].used, r <= mem'[b].size PROVE Working(C)'
    <3> SUFFICES ASSUME NEW d \in Callers
                 PROVE  /\ pc'[d] \notin {"loop", "lost"}
                        /\ pc'[d] \in OnBlock => blk'[d] \in C /\ blk'[d] # brk' /\ ~mem'[blk'[d]].used
                        /\ pc'[d] \in {"grow", "split", "mark"} => req'[d] > 0
                        /\ pc'[d] \in {"split", "mark"} => BlockSize(req[d])' <= mem'[blk'[d]].size
      BY DEF Working
    <3>1. CASE d = c
      BY <1>5, <1>7, <2>3, <2>9, <2>11, <2>13, <2>14, <3>1 DEF OnBlock
    <3>2. CASE d # c
      BY <1>4, <1>15, <3>2 DEF OnBlock
    <3> QED
      BY <3>1, <3>2
  <2>15. CASE whole
    <3>1. mem' = mem
      BY <1>10, <2>15
    <3>2. Tiles(B)' /\ Owned(B)'
      BY <2>2, <2>9, <3>1 DEF Tiles, Owned, Addresses, Zero, Hdr
    <3>3. Working(B)'
      BY <2>3, <2>14, <3>1
    <3>4. Cleared(B)'
      <4> SUFFICES ASSUME ~merged, NEW a \in B, a # brk, ~mem[a].used,
                          NEW x \in a + HeaderSize .. a + mem[a].size - 1
                   PROVE  mem[x] = Zero
        BY <2>9, <3>1 DEF Cleared, Zero, Hdr
      <4>1. PICK z \in Nat : z = mem[a].size /\ a \in Nat
        BY <2>6, <2>7
      <4>2. x \in Int /\ a + 1 <= x /\ x < a + z
        BY <1>9, <4>1
      <4> QED
        BY <1>1, <1>4, <1>15, <2>2, <4>1, <4>2, ClearedFacts
    <3> QED
      BY <3>2, <3>3, <3>4 DEF Calm
  <2>16. CASE ~whole
    <3>1. PICK t \in Nat : t = b + r
      BY <1>9
    <3>2. t \in Addresses /\ mem'[b] = Hdr(r, u) /\ \A a \in Addresses : a # b /\ a # t => mem'[a] = mem[a]
      BY <1>12, <2>16, <3>1
    <3>3. PICK q \in Nat : q = s - r /\ q > 0
      BY <1>9, <2>5, <2>10, <2>16
    <3>4. mem'[t] = Hdr(q, FALSE)
      <4>1. q \in 0 .. Limit
        BY <1>9, <2>5, <2>10, <3>3, HeapNumbers
      <4>2. q % SizeMod = q
        BY <4>1, PlainSize
      <4> QED
        BY <1>12, <2>5, <2>16, <3>1, <3>3, <4>2
    <3>5. mem'[b].size = r /\ ~mem'[b].used /\ mem'[t].size = q /\ ~mem'[t].used
      BY <1>11, <2>3, <3>2, <3>4 DEF Hdr
    <3>6. t > b /\ t < b + s /\ t + q = b + s /\ b + r = t /\ t < brk
      BY <1>9, <2>5, <2>10, <3>1, <3>3
    <3>7. t \notin B
      BY <1>9, <2>3, <2>5, <2>8, <3>6
    <3>8. PICK C \in SUBSET Addresses : C = B \cup {t}
      BY <3>2
    <3>9. \A a \in B : a # b => mem'[a] = mem[a]
      BY <2>6, <3>2, <3>7
    <3>10. Tiles(C)'
      <4>1. \A a \in Addresses : a >= brk => mem'[a] = Zero
        <5> SUFFICES ASSUME NEW a \in Addresses, a >= brk PROVE mem'[a] = Zero
          OBVIOUS
        <5>1. a # b /\ a # t
          BY <1>9, <2>4, <2>10, <3>6, HeapNumbers
        <5> QED
          BY <2>2, <3>2, <5>1 DEF Tiles
      <4>2. C \subseteq 0 .. brk /\ 0 \in C /\ brk \in C
        <5>1. B \subseteq 0 .. brk /\ 0 \in B /\ brk \in B
          BY <2>2 DEF Tiles
        <5>2. t \in 0 .. brk
          BY <2>10, <3>6
        <5> QED
          BY <3>8, <5>1, <5>2
      <4>3. ASSUME NEW a \in C, a # brk
            PROVE  /\ mem'[a].size > 0 /\ a + mem'[a].size \in C
                   /\ \A x \in C : x <= a \/ x >= a + mem'[a].size
        <5>1. \A x \in B : x <= b \/ x >= b + s
          BY <2>3, <2>5, <2>8
        <5>2. CASE a = b
          <6>1. \A x \in C : x <= b \/ x >= t
            BY <1>9, <2>6, <3>6, <3>8, <5>1
          <6> QED
            BY <2>10, <3>5, <3>6, <3>8, <5>2, <6>1
        <5>3. CASE a = t
          <6>1. \A x \in C : x <= t \/ x >= b + s
            BY <1>9, <2>5, <2>6, <3>6, <3>8, <5>1
          <6> QED
            BY <2>5, <3>3, <3>5, <3>6, <3>8, <5>3, <6>1
        <5>4. CASE a # b /\ a # t
          <6>1. a \in B /\ a \in Nat /\ mem'[a] = mem[a]
            BY <2>6, <3>8, <3>9, <5>4
          <6>2. PICK z \in Nat : z = mem[a].size /\ z > 0 /\ a + z \in B
            BY <2>7, <4>3, <6>1
          <6>3. \A x \in B : x <= a \/ x >= a + z
            BY <2>8, <4>3, <6>1, <6>2
          <6>4. a + z <= b \/ b + s <= a
            BY <1>1, <2>2, <2>3, <2>5, <4>3, <5>4, <6>1, <6>2, BlocksApart
          <6>5. t <= a \/ t >= a + z
            BY <1>9, <2>5, <3>6, <6>1, <6>2, <6>4
          <6> QED
            BY <3>8, <6>1, <6>2, <6>3, <6>5
        <5> QED
          BY <5>2, <5>3, <5>4
      <4>4. IF kind = "kernel" THEN last = brk ELSE last < brk
        BY <2>2 DEF Tiles
      <4> QED
        BY <2>9, <4>1, <4>2, <4>3, <4>4 DEF Tiles, Addresses, Zero, Hdr
    <3>11. Owned(C)'
      <4>1. ASSUME NEW p \in held
            PROVE  \E a \in C : /\ a # brk /\ mem'[a].used
                                /\ p.lo = a + HeaderSize /\ p.lo < p.hi /\ p.hi <= a + mem'[a].size
        <5>1. PICK a \in B : /\ a # brk /\ mem[a].used
                             /\ p.lo = a + HeaderSize /\ p.lo < p.hi /\ p.hi <= a + mem[a].size
          BY <2>2 DEF Owned
        <5>2. a # b /\ a \in C
          BY <2>3, <3>8, <5>1
        <5> QED
          BY <3>9, <5>1, <5>2
      <4>2. ASSUME NEW a \in C, a # brk, mem'[a].used PROVE \E p \in held : p.lo = a + HeaderSize
        <5>1. a # b /\ a \in B /\ mem[a].used
          BY <3>5, <3>8, <3>9, <4>2
        <5> QED
          BY <2>2, <4>2, <5>1 DEF Owned
      <4>3. held \subseteq [lo : Nat, hi : Nat, copy : {0}] /\ \A p, q1 \in held : p.lo = q1.lo => p = q1
        BY <2>2 DEF Owned
      <4> QED
        BY <2>9, <4>1, <4>2, <4>3 DEF Owned
    <3>12. Working(C)'
      <4>1. b \in C /\ r <= mem'[b].size
        BY <2>3, <3>5, <3>8
      <4> QED
        BY <2>14, <3>5, <4>1
    <3>13. Cleared(C)'
      <4> SUFFICES ASSUME ~merged, NEW a \in C, a # brk, ~mem'[a].used,
                          NEW x \in a + HeaderSize .. a + mem'[a].size - 1
                   PROVE  mem'[x] = Zero
        BY <2>9 DEF Cleared, Zero, Hdr
      <4>1. \A a1 \in B : (a1 # brk /\ ~mem[a1].used) =>
               \A x1 \in Int : (a1 + 1 <= x1 /\ x1 < a1 + mem[a1].size) => mem[x1] = Zero
        BY <1>1, <1>4, <1>15, <2>2, ClearedFacts
      <4>2. CASE a = b \/ a = t
        <5>1. x \in Int /\ b + 1 <= x /\ x < b + s /\ x # t
          <6>1. CASE a = b
            BY <1>9, <2>10, <3>5, <3>6, <6>1
          <6>2. CASE a = t
            BY <1>9, <2>10, <3>5, <3>6, <6>2
          <6> QED
            BY <4>2, <6>1, <6>2
        <5>2. mem[x] = Zero
          BY <2>3, <2>5, <4>1, <5>1
        <5>3. x \in Addresses /\ x # b
          BY <1>9, <2>5, <2>10, <5>1, HeapNumbers
        <5> QED
          BY <3>2, <5>1, <5>2, <5>3
      <4>3. CASE a # b /\ a # t
        <5>1. a \in B /\ a \in Nat /\ mem'[a] = mem[a] /\ ~mem[a].used
          BY <2>6, <3>8, <3>9, <4>3
        <5>2. PICK z \in Nat : z = mem[a].size /\ a + z <= brk
          BY <1>1, <2>2, <5>1, TileFacts
        <5>3. x \in Int /\ a + 1 <= x /\ x < a + z
          BY <1>9, <5>1, <5>2
        <5>4. mem[x] = Zero
          BY <4>1, <5>1, <5>2, <5>3
        <5>5. a + z <= b \/ b + s <= a
          BY <1>1, <2>2, <2>3, <2>5, <4>3, <5>1, <5>2, BlocksApart
        <5>6. x # b /\ x # t /\ x \in Addresses
          <6>1. x \in Addresses
            BY <2>10, <5>1, <5>2, <5>3, HeapNumbers
          <6>2. CASE a + z <= b
            BY <1>9, <3>6, <5>1, <5>3, <6>1, <6>2
          <6>3. CASE b + s <= a
            BY <1>9, <2>5, <3>6, <5>1, <5>3, <6>1, <6>3
          <6> QED
            BY <5>5, <6>2, <6>3
        <5> QED
          BY <3>2, <5>4, <5>6
      <4> QED
        BY <4>2, <4>3
    <3> QED
      BY <3>8, <3>10, <3>11, <3>12, <3>13 DEF Calm
  <2> QED
    BY <2>15, <2>16
<1> QED
  BY <1>14, <1>15 DEF HeapInv, Addresses

(* Pages that become a block: it begins where the pages ended.             *)
LEMMA SbrkCells ==
  ASSUME HeapType, NEW n \in Nat, NEW p \in Nat, p = n * PageSize, p > 0, Sbrk(n), kind' = kind
  PROVE  /\ mem' \in Memories /\ last' \in Addresses \cup {Null} /\ brk' \in Addresses /\ halted' \in BOOLEAN
         /\ \/ halted' /\ UNCHANGED <<mem, last, brk>>
            \/ /\ brk' = brk + p /\ brk + p <= Limit /\ halted' = halted
               /\ mem'[brk] = Hdr(p, FALSE)
               /\ \A a \in Addresses : (brk < a /\ a < brk + p) => mem'[a] = Zero
               /\ \A a \in Addresses : (a < brk \/ a >= brk + p) => mem'[a] = mem[a]
               /\ last' = IF kind = "kernel" THEN brk + p ELSE brk
<1>1. brk \in Nat /\ brk \in Addresses /\ mem \in Memories /\ halted \in BOOLEAN /\ last \in Addresses \cup {Null}
  BY Cells, MemoryIs DEF HeapType
<1>2. CASE brk + p > Limit
  BY <1>1, <1>2 DEF Sbrk
<1>3. CASE ~(brk + p > Limit)
  <2>1. /\ mem' = NewBlock(mem, brk, n) /\ brk' = brk + p /\ halted' = halted
        /\ last' = IF kind = "kernel" THEN brk + p ELSE brk
    BY <1>3 DEF Sbrk
  <2>2. brk + p <= Limit /\ brk + p \in Addresses
    BY <1>1, <1>3, HeapNumbers
  <2>3. PICK m \in Memories : m = mem
    BY <1>1
  <2>4. PICK b \in Addresses : b = brk
    BY <1>1
  <2>5. b + p <= Limit /\ p = n * PageSize
    BY <2>2, <2>4
  <2>6. WithBlock(NewBlock(m, b, n), m, b, p)
    BY <2>5, NewBlockCells, Zenon
  <2>7. WithBlock(mem', m, b, p)
    BY <2>1, <2>3, <2>4, <2>6
  <2>8. /\ mem' \in Memories /\ mem'[b] = Hdr(p, FALSE)
        /\ \A a \in Addresses : (b < a /\ a < b + p) => mem'[a] = Zero
        /\ \A a \in Addresses : a # b /\ (a < b \/ a >= b + p) => mem'[a] = m[a]
    BY <2>7 DEF WithBlock
  <2>9. \A a \in Addresses : (a < brk \/ a >= brk + p) => mem'[a] = mem[a]
    <3> SUFFICES ASSUME NEW a \in Addresses, a < brk \/ a >= brk + p PROVE mem'[a] = mem[a]
      OBVIOUS
    <3>1. a # b
      BY <1>1, <2>4
    <3> QED
      BY <2>3, <2>4, <2>8, <3>1
  <2> QED
    BY <1>1, <2>1, <2>2, <2>4, <2>8, <2>9
<1> QED
  BY <1>2, <1>3

(* The blocks before are what they were, and the new one is zero.          *)
LEMMA SbrkCalm ==
  ASSUME HeapType, NEW B \in SUBSET Addresses, Tiles(B), Owned(B), Cleared(B),
         \A d \in Callers : pc[d] # "clear",
         NEW p \in Nat, p > 0,
         brk' = brk + p, brk + p <= Limit, mem'[brk] = Hdr(p, FALSE),
         \A a \in Addresses : (brk < a /\ a < brk + p) => mem'[a] = Zero,
         \A a \in Addresses : (a < brk \/ a >= brk + p) => mem'[a] = mem[a],
         last' = IF kind = "kernel" THEN brk + p ELSE brk,
         kind' = kind, held' = held, merged' = merged
  PROVE  \E C \in SUBSET Addresses :
           Tiles(C)' /\ Owned(C)' /\ Cleared(C)' /\ brk \in C /\ brk # brk'
<1>1. brk \in Nat /\ brk \in Addresses /\ brk \in B /\ 0 \in B
  BY Cells DEF HeapType, Tiles
<1>2. PICK b \in B : b = brk
  BY <1>1
<1>3. PICK t \in Addresses : t = b + p
  BY <1>1, <1>2, HeapNumbers
<1>4. t \in Nat /\ b \in Nat /\ t > b /\ t = brk' /\ t >= brk + p
  BY <1>1, <1>2, <1>3
<1>5. PICK C \in SUBSET Addresses : C = B \cup {t}
  OBVIOUS
<1>6. \A a \in B : a \in Nat /\ a \in Addresses /\ a <= b
  BY <1>2, TileFacts
<1>7. \A a \in B : a # b => /\ mem[a].size \in Nat /\ mem[a].size > 0 /\ a < b
                            /\ a + mem[a].size \in B /\ a + mem[a].size <= b
  BY <1>2, TileFacts
<1>8. \A a \in B : a # b => mem'[a] = mem[a]
  BY <1>2, <1>6, <1>7
<1>9. mem'[b].size = p /\ ~mem'[b].used
  BY <1>2 DEF Hdr
<1>10. \A a \in B : a # b => \A x \in B : x <= a \/ x >= a + mem[a].size
  BY <1>2 DEF Tiles
<1>11. Tiles(C)'
  <2>1. \A a \in Addresses : a >= brk' => mem'[a] = Zero
    <3> SUFFICES ASSUME NEW a \in Addresses, a >= brk + p PROVE mem'[a] = Zero
      OBVIOUS
    <3>1. a >= brk
      BY <1>1, HeapNumbers
    <3>2. mem[a] = Zero
      BY <3>1 DEF Tiles
    <3> QED
      BY <3>2
  <2>2. C \subseteq 0 .. brk' /\ 0 \in C /\ brk' \in C
    <3>1. \A a \in C : a \in 0 .. t
      BY <1>4, <1>5, <1>6
    <3> QED
      BY <1>1, <1>4, <1>5, <3>1
  <2>3. ASSUME NEW a \in C, a # brk'
        PROVE  /\ mem'[a].size > 0 /\ a + mem'[a].size \in C
               /\ \A x \in C : x <= a \/ x >= a + mem'[a].size
    <3>1. a \in B
      BY <1>4, <1>5, <2>3
    <3>2. CASE a = b
      <4>1. \A x \in C : x <= b \/ x >= t
        BY <1>4, <1>5, <1>6
      <4> QED
        BY <1>3, <1>5, <1>9, <3>2, <4>1
    <3>3. CASE a # b
      <4>1. PICK z \in Nat : z = mem[a].size /\ z > 0 /\ a + z \in B /\ a + z <= b
        BY <1>7, <3>1, <3>3
      <4>2. mem'[a].size = z
        BY <1>8, <3>1, <3>3, <4>1
      <4>3. t >= a + z
        BY <1>4, <1>6, <3>1, <4>1
      <4>4. \A x \in B : x <= a \/ x >= a + z
        BY <1>10, <3>1, <3>3, <4>1
      <4> QED
        BY <1>5, <4>1, <4>2, <4>3, <4>4
    <3> QED
      BY <3>2, <3>3
  <2>4. IF kind' = "kernel" THEN last' = brk' ELSE last' < brk'
    BY <1>1
  <2> QED
    BY <2>1, <2>2, <2>3, <2>4 DEF Tiles, Addresses, Zero, Hdr
<1>12. Owned(C)'
  <2>1. ASSUME NEW r \in held
        PROVE  \E a \in C : /\ a # brk' /\ mem'[a].used
                            /\ r.lo = a + HeaderSize /\ r.lo < r.hi /\ r.hi <= a + mem'[a].size
    <3>1. PICK a \in B : /\ a # brk /\ mem[a].used
                         /\ r.lo = a + HeaderSize /\ r.lo < r.hi /\ r.hi <= a + mem[a].size
      BY DEF Owned
    <3>2. a # brk' /\ a \in C /\ mem'[a] = mem[a]
      BY <1>2, <1>4, <1>5, <1>6, <1>8, <3>1
    <3> QED
      BY <3>1, <3>2
  <2>2. ASSUME NEW a \in C, a # brk', mem'[a].used PROVE \E r \in held : r.lo = a + HeaderSize
    <3>1. a \in B /\ a # b /\ mem[a].used
      BY <1>4, <1>5, <1>8, <1>9, <2>2
    <3> QED
      BY <1>2, <3>1 DEF Owned
  <2>3. held \subseteq [lo : Nat, hi : Nat, copy : {0}] /\ \A r, q \in held : r.lo = q.lo => r = q
    BY DEF Owned
  <2> QED
    BY <2>1, <2>2, <2>3 DEF Owned
<1>13. Cleared(C)'
  <2> SUFFICES ASSUME ~merged, NEW a \in C, a # brk', ~mem'[a].used,
                      NEW x \in a + HeaderSize .. a + mem'[a].size - 1
               PROVE  mem'[x] = Zero
    BY DEF Cleared, Zero, Hdr
  <2>1. a \in B /\ HeaderSize = 1
    BY <1>4, <1>5, HeapNumbers
  <2>2. CASE a = b
    <3>1. x \in Int /\ b < x /\ x < b + p
      BY <1>4, <1>9, <2>1, <2>2
    <3>2. x \in Addresses
      BY <1>2, <1>4, <3>1, HeapNumbers
    <3> QED
      BY <1>2, <3>1, <3>2
  <2>3. CASE a # b
    <3>1. PICK z \in Nat : z = mem[a].size /\ z > 0 /\ a + z <= b
      BY <1>7, <2>1, <2>3
    <3>2. mem'[a] = mem[a] /\ a \in Nat
      BY <1>6, <1>8, <2>1, <2>3
    <3>3. x \in Int /\ a + 1 <= x /\ x < a + z
      BY <2>1, <3>1, <3>2
    <3>4. x \in Addresses /\ x < brk
      BY <1>1, <1>2, <3>1, <3>2, <3>3, HeapNumbers, Cells
    <3>5. x \in a + HeaderSize .. a + mem[a].size - 1
      BY <2>1, <3>1, <3>2, <3>3
    <3>6. mem[x] = Zero
      BY <1>2, <2>1, <2>3, <3>2, <3>5 DEF Cleared
    <3> QED
      BY <3>4, <3>6
  <2> QED
    BY <2>2, <2>3
<1>14. brk \in C /\ brk # brk'
  BY <1>1, <1>4, <1>5
<1> QED
  BY <1>11, <1>12, <1>13, <1>14

(* A step that leaves the blocks alone leaves them as they are.            *)
LEMMA SameBlocks ==
  ASSUME NEW B, Tiles(B), Owned(B), UNCHANGED <<kind, mem, last, brk, held>>
  PROVE  Tiles(B)' /\ Owned(B)'
BY DEF Tiles, Owned, Addresses, Zero, Hdr

(* AllocateGrow keeps the invariant: the block is large enough, or the     *)
(* system stops.                                                           *)
LEMMA GrowStep ==
  ASSUME HeapInv, NEW c \in Callers, AllocateGrow(c)
  PROVE  HeapInv'
<1>1. HeapType
  BY DEF HeapInv
<1>2. Step(c, "grow", "split") /\ blk' = [blk EXCEPT ![c] = brk] /\ UNCHANGED <<kind, req, held, merged>>
  BY DEF AllocateGrow
<1>3. /\ ~halted /\ pc[c] = "grow" /\ pc'[c] = "split"
      /\ ~overlap' => ~overlap /\ \A d \in Callers : d # c => pc[d] = "idle" /\ pc'[d] = "idle"
  BY <1>1, <1>2, StepAlone
<1>4. PICK k \in Nat : k = req[c]
  BY <1>1 DEF HeapType
<1>5. PICK r \in Nat : r = BlockSize(k) /\ r >= k + 1
  BY <1>1, BlockSizeFits DEF HeapType
<1>6. PICK n \in Nat : n = NbPages(r)
  BY PagesFit
<1>7. PICK p \in Nat : p = n * PageSize /\ p >= r /\ p > 0
  BY <1>6, PagesFit
<1>8. Sbrk(n)
  BY <1>4, <1>5, <1>6 DEF AllocateGrow
<1>9. /\ mem' \in Memories /\ last' \in Addresses \cup {Null} /\ brk' \in Addresses /\ halted' \in BOOLEAN
      /\ \/ halted' /\ UNCHANGED <<mem, last, brk>>
         \/ /\ brk' = brk + p /\ brk + p <= Limit /\ halted' = halted
            /\ mem'[brk] = Hdr(p, FALSE)
            /\ \A a \in Addresses : (brk < a /\ a < brk + p) => mem'[a] = Zero
            /\ \A a \in Addresses : (a < brk \/ a >= brk + p) => mem'[a] = mem[a]
            /\ last' = IF kind = "kernel" THEN brk + p ELSE brk
  BY <1>1, <1>2, <1>7, <1>8, SbrkCells
<1>10. brk \in Addresses /\ blk'[c] = brk
  BY <1>1, <1>2 DEF HeapType
<1>11. HeapType'
  <2>1. "split" \in Pcs /\ brk \in Addresses \cup {Null}
    BY <1>10 DEF Pcs
  <2>2. /\ kind' = kind /\ merged' \in BOOLEAN /\ req' = [req EXCEPT ![c] = k]
    BY <1>1, <1>2, <1>4, SameLocals
  <2>3. PICK to \in Pcs : to = "split" /\ Step(c, "grow", to)
    BY <1>2, <2>1
  <2>4. PICK b \in Addresses \cup {Null} : b = brk /\ blk' = [blk EXCEPT ![c] = b]
    BY <1>2, <2>1
  <2> QED
    BY <1>1, <1>9, <1>10, <2>2, <2>3, <2>4, TypeAfter
<1>12. ASSUME ~overlap' PROVE \E B \in SUBSET Addresses : Calm(B)'
  <2>1. PICK B \in SUBSET Addresses : Calm(B)
    BY <1>3, <1>12 DEF HeapInv
  <2>2. Tiles(B) /\ Owned(B) /\ Working(B) /\ Cleared(B)
    BY <2>1 DEF Calm
  <2>3. \A d \in Callers : pc[d] # "clear" /\ pc'[d] # "clear"
    BY <1>3, <1>12
  <2>4. CASE halted' /\ UNCHANGED <<mem, last, brk>>
    <3>1. Tiles(B)' /\ Owned(B)'
      BY <1>2, <2>2, <2>4, SameBlocks
    <3>2. Working(B)'
      BY <2>4 DEF Working
    <3>3. Cleared(B)'
      BY <1>2, <2>2, <2>3, <2>4 DEF Cleared, Zero, Hdr
    <3> QED
      BY <3>1, <3>2, <3>3 DEF Calm
  <2>5. CASE ~(halted' /\ UNCHANGED <<mem, last, brk>>)
    <3>1. /\ brk' = brk + p /\ brk + p <= Limit /\ halted' = halted
          /\ mem'[brk] = Hdr(p, FALSE)
          /\ \A a \in Addresses : (brk < a /\ a < brk + p) => mem'[a] = Zero
          /\ \A a \in Addresses : (a < brk \/ a >= brk + p) => mem'[a] = mem[a]
          /\ last' = IF kind = "kernel" THEN brk + p ELSE brk
      BY <1>9, <2>5
    <3>2. PICK C \in SUBSET Addresses : Tiles(C)' /\ Owned(C)' /\ Cleared(C)' /\ brk \in C /\ brk # brk'
      BY <1>1, <1>2, <1>7, <2>2, <2>3, <3>1, SbrkCalm
    <3>3. mem'[brk].size = p /\ ~mem'[brk].used
      BY <3>1 DEF Hdr
    <3>4. k > 0
      BY <1>3, <1>4, <2>2 DEF Working
    <3>5. BlockSize(req[c])' = r
      BY <1>2, <1>4, <1>5 DEF BlockSize, ClosestPow, LocalMod
    <3>6. Working(C)'
      <4> SUFFICES ASSUME NEW d \in Callers
                   PROVE  /\ pc'[d] \notin {"loop", "lost"}
                          /\ pc'[d] \in OnBlock => blk'[d] \in C /\ blk'[d] # brk' /\ ~mem'[blk'[d]].used
                          /\ pc'[d] \in {"grow", "split", "mark"} => req'[d] > 0
                          /\ pc'[d] \in {"split", "mark"} => BlockSize(req[d])' <= mem'[blk'[d]].size
        BY DEF Working
      <4>1. CASE d = c
        BY <1>2, <1>3, <1>4, <1>7, <1>10, <3>2, <3>3, <3>4, <3>5, <4>1 DEF OnBlock
      <4>2. CASE d # c
        BY <1>3, <1>12, <4>2 DEF OnBlock
      <4> QED
        BY <4>1, <4>2
    <3> QED
      BY <3>2, <3>6 DEF Calm
  <2> QED
    BY <2>4, <2>5
<1> QED
  BY <1>11, <1>12 DEF HeapInv, Addresses

(* The first page of a process.                                            *)
LEMMA FirstStep ==
  ASSUME HeapInv, NEW c \in Callers, HeapAllocFirst(c)
  PROVE  HeapInv'
<1>1. HeapType
  BY DEF HeapInv
<1>2. Step(c, "idle", "idle") /\ UNCHANGED <<kind, req, blk, held, merged>> /\ Sbrk(1)
  BY DEF HeapAllocFirst
<1>3. /\ ~halted /\ pc[c] = "idle" /\ pc'[c] = "idle"
      /\ ~overlap' => ~overlap /\ \A d \in Callers : d # c => pc[d] = "idle" /\ pc'[d] = "idle"
  BY <1>1, <1>2, StepAlone
<1>4. PICK p \in Nat : p = 1 * PageSize /\ p > 0
  BY HeapNumbers
<1>5. PICK n \in Nat : n = 1 /\ p = n * PageSize /\ Sbrk(n)
  BY <1>2, <1>4
<1>6. /\ mem' \in Memories /\ last' \in Addresses \cup {Null} /\ brk' \in Addresses /\ halted' \in BOOLEAN
      /\ \/ halted' /\ UNCHANGED <<mem, last, brk>>
         \/ /\ brk' = brk + p /\ brk + p <= Limit /\ halted' = halted
            /\ mem'[brk] = Hdr(p, FALSE)
            /\ \A a \in Addresses : (brk < a /\ a < brk + p) => mem'[a] = Zero
            /\ \A a \in Addresses : (a < brk \/ a >= brk + p) => mem'[a] = mem[a]
            /\ last' = IF kind = "kernel" THEN brk + p ELSE brk
  BY <1>1, <1>2, <1>4, <1>5, SbrkCells
<1>7. HeapType'
  <2>1. "idle" \in Pcs /\ ~("idle" \in OnBlock)
    BY DEF Pcs, OnBlock
  <2>2. PICK to \in Pcs : ~(to \in OnBlock) /\ Step(c, "idle", to)
    BY <1>2, <2>1
  <2>3. PICK k \in Nat : req' = [req EXCEPT ![c] = k]
    BY <1>1, <1>2, SameLocals
  <2>4. PICK b \in Addresses \cup {Null} : blk' = [blk EXCEPT ![c] = b]
    BY <1>1, <1>2, SameLocals
  <2>5. kind' = kind /\ merged' \in BOOLEAN
    BY <1>1, <1>2, SameLocals
  <2> QED
    BY <1>1, <1>6, <2>2, <2>3, <2>4, <2>5, TypeAfter
<1>8. ASSUME ~overlap' PROVE \E B \in SUBSET Addresses : Calm(B)'
  <2>1. PICK B \in SUBSET Addresses : Calm(B)
    BY <1>3, <1>8 DEF HeapInv
  <2>2. Tiles(B) /\ Owned(B) /\ Working(B) /\ Cleared(B)
    BY <2>1 DEF Calm
  <2>3. \A d \in Callers : pc[d] = "idle" /\ pc'[d] = "idle"
    BY <1>3, <1>8
  <2>4. \A C : Working(C)'
    BY <2>3 DEF Working, OnBlock
  <2>5. CASE halted' /\ UNCHANGED <<mem, last, brk>>
    <3>1. Tiles(B)' /\ Owned(B)'
      BY <1>2, <2>2, <2>5, SameBlocks
    <3>2. Cleared(B)'
      BY <1>2, <2>2, <2>3, <2>5 DEF Cleared, Zero, Hdr
    <3> QED
      BY <2>4, <3>1, <3>2 DEF Calm
  <2>6. CASE ~(halted' /\ UNCHANGED <<mem, last, brk>>)
    <3>1. /\ brk' = brk + p /\ brk + p <= Limit /\ halted' = halted
          /\ mem'[brk] = Hdr(p, FALSE)
          /\ \A a \in Addresses : (brk < a /\ a < brk + p) => mem'[a] = Zero
          /\ \A a \in Addresses : (a < brk \/ a >= brk + p) => mem'[a] = mem[a]
          /\ last' = IF kind = "kernel" THEN brk + p ELSE brk
      BY <1>6, <2>6
    <3>2. PICK C \in SUBSET Addresses : Tiles(C)' /\ Owned(C)' /\ Cleared(C)' /\ brk \in C /\ brk # brk'
      BY <1>1, <1>2, <1>4, <2>2, <2>3, <3>1, SbrkCalm
    <3> QED
      BY <2>4, <3>2 DEF Calm
  <2> QED
    BY <2>5, <2>6
<1> QED
  BY <1>7, <1>8 DEF HeapInv, Addresses

(* AllocateSearch keeps the invariant: the search finds a free block of    *)
(* the heap, or its end.                                                   *)
LEMMA SearchStep ==
  ASSUME HeapInv, NEW c \in Callers, NEW n \in Sizes, AllocateSearch(c, n)
  PROVE  HeapInv'
<1>1. HeapType
  BY DEF HeapInv
<1>2. ~overlap /\ (kind = "user" => last # Null)
  BY DEF AllocateSearch, Begin
<1>3. PICK B \in SUBSET Addresses : Calm(B)
  BY <1>2 DEF HeapInv
<1>4. Tiles(B) /\ Owned(B) /\ Working(B) /\ Cleared(B)
  BY <1>3 DEF Calm
<1>5. n \in Nat /\ n > 0
  BY HeapNumbers
<1>6. PICK r \in Nat : r = BlockSize(n) /\ r >= n + 1
  BY <1>1, <1>5, BlockSizeFits DEF HeapType
<1>7. PICK fit : fit = FirstFit(0, r)
  OBVIOUS
<1>8. \/ fit = [res |-> "end", blk |-> Null]
      \/ \E a \in B : /\ fit = [res |-> "found", blk |-> a]
                      /\ a # brk /\ ~mem[a].used /\ r <= mem[a].size
  BY <1>1, <1>2, <1>4, <1>7, FirstFitEnds
<1>9. /\ Step(c, "idle", [found |-> "split", end |-> "grow", loop |-> "loop", lost |-> "lost"][fit.res])
      /\ req' = [req EXCEPT ![c] = n] /\ blk' = [blk EXCEPT ![c] = fit.blk]
      /\ UNCHANGED <<kind, mem, last, brk, held, halted, merged>>
  BY <1>6, <1>7 DEF AllocateSearch
<1>10. PICK to \in {"grow", "split"}, b \in Addresses \cup {Null} :
         /\ Step(c, "idle", to) /\ blk' = [blk EXCEPT ![c] = b]
         /\ to = "split" => b \in B /\ b # brk /\ ~mem[b].used /\ r <= mem[b].size
  <2>1. CASE fit = [res |-> "end", blk |-> Null]
    <3>1. Step(c, "idle", "grow") /\ blk' = [blk EXCEPT ![c] = Null]
      BY <1>9, <2>1
    <3> QED
      BY <3>1
  <2>2. CASE fit # [res |-> "end", blk |-> Null]
    <3>1. PICK a \in B : /\ fit = [res |-> "found", blk |-> a]
                         /\ a # brk /\ ~mem[a].used /\ r <= mem[a].size
      BY <1>8, <2>2
    <3>2. Step(c, "idle", "split") /\ blk' = [blk EXCEPT ![c] = a]
      BY <1>9, <3>1
    <3>3. a \in Addresses
      BY <1>3
    <3> QED
      BY <3>1, <3>2, <3>3
  <2> QED
    BY <2>1, <2>2
<1>11. /\ pc'[c] = to /\ pc[c] = "idle"
       /\ ~overlap' => \A d \in Callers : d # c => pc[d] = "idle" /\ pc'[d] = "idle"
  BY <1>1, <1>10, StepAlone
<1>12. HeapType'
  <2>1. to \in Pcs /\ (to \in OnBlock => b \in Addresses)
    BY <1>3, <1>10 DEF Pcs, OnBlock
  <2>2. mem' \in Memories
    BY <1>1, <1>9, MemoryIs
  <2>3. /\ kind' = kind /\ last' \in Addresses \cup {Null} /\ brk' \in Addresses
        /\ halted' \in BOOLEAN /\ merged' \in BOOLEAN
    BY <1>1, <1>9, SameLocals
  <2> QED
    BY <1>1, <1>5, <1>9, <1>10, <2>1, <2>2, <2>3, TypeAfter
<1>13. ASSUME ~overlap' PROVE Calm(B)'
  <2>1. Tiles(B)' /\ Owned(B)'
    BY <1>4, <1>9, SameBlocks
  <2>2. req'[c] = n /\ blk'[c] = b
    BY <1>1, <1>9, <1>10 DEF HeapType
  <2>3. BlockSize(req[c])' = r
    BY <1>6, <1>9, <2>2 DEF BlockSize, ClosestPow, LocalMod
  <2>4. Working(B)'
    <3> SUFFICES ASSUME NEW d \in Callers
                 PROVE  /\ pc'[d] \notin {"loop", "lost"}
                        /\ pc'[d] \in OnBlock => blk'[d] \in B /\ blk'[d] # brk' /\ ~mem'[blk'[d]].used
                        /\ pc'[d] \in {"grow", "split", "mark"} => req'[d] > 0
                        /\ pc'[d] \in {"split", "mark"} => BlockSize(req[d])' <= mem'[blk'[d]].size
      BY DEF Working
    <3>1. CASE d = c
      BY <1>5, <1>9, <1>10, <1>11, <2>2, <2>3, <3>1 DEF OnBlock
    <3>2. CASE d # c
      BY <1>11, <1>13, <3>2 DEF OnBlock
    <3> QED
      BY <3>1, <3>2
  <2>5. Cleared(B)'
    <3>1. \A d \in Callers : pc[d] # "clear"
      BY <1>11, <1>13
    <3> QED
      BY <1>4, <1>9, <3>1 DEF Cleared, Zero, Hdr
  <2> QED
    BY <2>1, <2>4, <2>5 DEF Calm
<1> QED
  BY <1>12, <1>13 DEF HeapInv, Addresses

(* Heap::Init and InitMalloc establish it.                                 *)
LEMMA HeapInitInv ==
  ASSUME HeapInit
  PROVE  HeapInv
<1> DEFINE zeros == [a \in Addresses |-> Zero]
<1>1. 0 \in Addresses /\ PageSize \in Addresses /\ PageSize \in Nat /\ PageSize > 2
  BY HeapNumbers
<1>2. zeros \in Memories /\ \A a \in Addresses : zeros[a] = Zero
  <2>1. Zero \in [size : -1 .. SizeMod - 1, used : BOOLEAN] /\ Zero.size # -1
    <3>1. 0 \in -1 .. SizeMod - 1
      BY HeapNumbers
    <3> QED
      BY <3>1 DEF Zero, Hdr
  <2> QED
    BY <2>1 DEF Memories
<1>3. /\ kind \in Kinds /\ pc = [c \in Callers |-> "idle"] /\ req = [c \in Callers |-> 0]
      /\ blk = [c \in Callers |-> Null] /\ held = {}
      /\ halted = FALSE /\ overlap = FALSE /\ merged = FALSE
  BY DEF HeapInit
<1> HIDE DEF zeros
<1>4. CASE kind = "kernel"
  <2>1. mem = NewBlock(zeros, 0, 1) /\ last = PageSize /\ brk = PageSize
    BY <1>4 DEF HeapInit, zeros
  <2>2. WithBlock(mem, zeros, 0, PageSize)
    <3>1. PageSize = 1 * PageSize /\ 0 + PageSize <= Limit /\ 1 \in Nat
      BY HeapNumbers
    <3>2. WithBlock(NewBlock(zeros, 0, 1), zeros, 0, PageSize)
      BY <1>1, <1>2, <3>1, NewBlockCells, Zenon
    <3> QED
      BY <2>1, <3>2
  <2>3. /\ mem \in Memories /\ mem[0] = Hdr(PageSize, FALSE)
        /\ \A a \in Addresses : a # 0 => mem[a] = Zero
    <3>1. \A a \in Addresses : a # 0 => (0 < a /\ a < 0 + PageSize) \/ (a < 0 \/ a >= 0 + PageSize)
      BY <1>1, HeapNumbers
    <3> QED
      BY <1>2, <2>2, <3>1 DEF WithBlock
  <2>4. HeapType
    BY <1>1, <1>3, <2>1, <2>3 DEF HeapType, Memories, Pcs, OnBlock
  <2>5. PICK B \in SUBSET Addresses : B = {0, PageSize}
    BY <1>1
  <2>6. mem[0].size = PageSize /\ ~mem[0].used
    BY <2>3 DEF Hdr
  <2>7. Tiles(B)
    <3>1. \A a \in Addresses : a >= brk => mem[a] = Zero
      BY <1>1, <2>1, <2>3
    <3>2. \A a \in B : a # brk => /\ mem[a].size > 0 /\ a + mem[a].size \in B
                                  /\ \A x \in B : x <= a \/ x >= a + mem[a].size
      BY <1>1, <2>1, <2>5, <2>6
    <3>3. B \subseteq 0 .. brk
      BY <1>1, <2>1, <2>5
    <3> QED
      BY <1>4, <2>1, <2>5, <3>1, <3>2, <3>3 DEF Tiles
  <2>8. Owned(B)
    BY <1>3, <2>1, <2>5, <2>6 DEF Owned
  <2>9. Working(B)
    BY <1>3 DEF Working, OnBlock
  <2>10. Cleared(B)
    <3> SUFFICES ASSUME NEW a \in B, a # brk, NEW x \in a + HeaderSize .. a + mem[a].size - 1
                 PROVE  mem[x] = Zero
      BY DEF Cleared
    <3>1. a = 0
      BY <2>1, <2>5
    <3>2. x \in 1 .. PageSize - 1
      BY <1>1, <2>6, <3>1, HeapNumbers
    <3>3. x \in Addresses /\ x # 0
      BY <3>2, HeapNumbers
    <3> QED
      BY <2>3, <3>3
  <2> QED
    BY <2>4, <2>7, <2>8, <2>9, <2>10 DEF HeapInv, Calm
<1>5. CASE kind # "kernel"
  <2>1. mem = zeros /\ last = Null /\ brk = 0
    BY <1>5 DEF HeapInit, zeros
  <2>2. HeapType
    BY <1>1, <1>2, <1>3, <2>1 DEF HeapType, Memories, Pcs, OnBlock
  <2>3. PICK B \in SUBSET Addresses : B = {0}
    BY <1>1
  <2>4. Tiles(B)
    BY <1>2, <1>5, <2>1, <2>3, HeapNumbers DEF Tiles
  <2>5. Owned(B) /\ Working(B) /\ Cleared(B)
    BY <1>3, <2>1, <2>3 DEF Owned, Working, Cleared, OnBlock
  <2> QED
    BY <2>2, <2>4, <2>5 DEF HeapInv, Calm
<1> QED
  BY <1>4, <1>5

(* Every step keeps the invariant.                                         *)
LEMMA HeapStepInv ==
  ASSUME HeapInv, [HeapNext]_heapVars
  PROVE  HeapInv'
<1>1. CASE HeapNext
  <2>1. PICK c \in Callers :
          \/ HeapAllocFirst(c) \/ HeapStep(c)
          \/ \E n \in Sizes : AllocateSearch(c, n)
          \/ \E r \in held : FreeMark(c, r)
    BY <1>1 DEF HeapNext
  <2>2. CASE HeapAllocFirst(c)
    BY <2>2, FirstStep
  <2>3. CASE HeapStep(c)
    BY <2>3, GrowStep, SplitStep, MarkStep, FreeClearStep, FreeMergeStep DEF HeapStep
  <2>4. ASSUME NEW n \in Sizes, AllocateSearch(c, n) PROVE HeapInv'
    BY <2>4, SearchStep
  <2>5. ASSUME NEW r \in held, FreeMark(c, r) PROVE HeapInv'
    BY <2>5, FreeMarkStep
  <2> QED
    BY <2>1, <2>2, <2>3, <2>4, <2>5
<1>2. CASE UNCHANGED heapVars
  <2>1. HeapType'
    BY <1>2 DEF heapVars, HeapInv, HeapType, Addresses, Data, Hdr, Null
  <2>2. ASSUME NEW B, Calm(B) PROVE Calm(B)'
    <3>1. Tiles(B)' /\ Owned(B)'
      BY <1>2, <2>2, SameBlocks DEF Calm, heapVars
    <3>2. Working(B)'
      BY <1>2, <2>2 DEF Calm, Working, heapVars, BlockSize, ClosestPow, LocalMod
    <3>3. Cleared(B)'
      BY <1>2, <2>2 DEF Calm, Cleared, heapVars, Zero, Hdr
    <3> QED
      BY <3>1, <3>2, <3>3 DEF Calm
  <2>3. overlap' = overlap /\ Addresses' = Addresses
    BY <1>2 DEF heapVars, Addresses
  <2> QED
    BY <2>1, <2>2, <2>3 DEF HeapInv
<1> QED
  BY <1>1, <1>2

(* Types, and a tiling of the heap by blocks while no two calls overlapped,*)
(* hold throughout: for both heaps, any callers, sizes, pages and limit.   *)
THEOREM HeapInvariant == HeapSpec => []HeapInv
<1>1. HeapInit => HeapInv
  BY HeapInitInv
<1>2. HeapInv /\ [HeapNext]_heapVars => HeapInv'
  BY HeapStepInv
<1> QED
  BY <1>1, <1>2, PTL DEF HeapSpec

(* Between calls that did not overlap the walk over the blocks ends at the *)
(* end of the pages, and the used blocks are the ranges in use.            *)
THEOREM HeapBlocksTile == HeapSpec => []BlocksTile
<1>1. HeapInv => BlocksTile
  <2> SUFFICES ASSUME HeapInv PROVE BlocksTile
    OBVIOUS
  <2>1. HeapType
    BY DEF HeapInv
  <2>2. ASSUME ~overlap
        PROVE  \E B \in SUBSET Addresses : Tiles(B) /\ Owned(B) /\ Blocks = B
    <3>1. PICK B \in SUBSET Addresses : Tiles(B) /\ Owned(B)
      BY <2>2 DEF HeapInv, Calm
    <3>2. Blocks = B
      BY <2>1, <3>1, BlocksAre
    <3> QED
      BY <3>1, <3>2
  <2>3. ASSUME ~overlap, NEW r \in held PROVE r.lo \in Addresses /\ r.hi \in Addresses
    <3>1. PICK B \in SUBSET Addresses : Tiles(B) /\ Owned(B)
      BY <2>2, <2>3
    <3>2. PICK a \in B : /\ a # brk /\ r.lo = a + HeaderSize /\ r.lo < r.hi /\ r.hi <= a + mem[a].size
      BY <3>1 DEF Owned
    <3>3. a \in Nat /\ mem[a].size \in Nat /\ a + mem[a].size <= brk /\ brk <= Limit /\ brk \in Nat
      BY <2>1, <3>1, <3>2, TileFacts, Cells
    <3>4. r.lo \in Nat /\ r.hi \in Nat
      BY <3>1 DEF Owned
    <3> QED
      BY <3>2, <3>3, <3>4, HeapNumbers
  <2>4. HeapTypeOK
    BY <2>1, <2>3 DEF HeapType, HeapTypeOK, Pcs
  <2>5. ASSUME ~overlap
        PROVE  /\ brk \in Blocks
               /\ \A a \in Blocks \ {brk} :
                    IF mem[a].used
                    THEN \E r \in held : r.lo = a + HeaderSize /\ r.hi <= a + mem[a].size
                    ELSE \A r \in held : r.lo # a + HeaderSize
               /\ \A r \in held : r.lo - HeaderSize \in Blocks \ {brk}
    <3>1. PICK B \in SUBSET Addresses : Tiles(B) /\ Owned(B) /\ Blocks = B
      BY <2>2, <2>5
    <3>2. \A a \in B : a \in Nat
      BY <2>1, <3>1, TileFacts
    <3>3. HeaderSize = 1
      BY HeapNumbers
    <3>4. ASSUME NEW r \in held, NEW a \in B, r.lo = a + HeaderSize
          PROVE  a # brk /\ mem[a].used /\ r.hi <= a + mem[a].size
      <4>1. PICK b \in B : /\ b # brk /\ mem[b].used
                           /\ r.lo = b + HeaderSize /\ r.hi <= b + mem[b].size
        BY <3>1 DEF Owned
      <4>2. a = b
        BY <3>2, <3>3, <3>4, <4>1
      <4> QED
        BY <4>1, <4>2
    <3>5. ASSUME NEW a \in B, a # brk, mem[a].used
          PROVE  \E r \in held : r.lo = a + HeaderSize /\ r.hi <= a + mem[a].size
      <4>1. PICK r \in held : r.lo = a + HeaderSize
        BY <3>1, <3>5 DEF Owned
      <4> QED
        BY <3>4, <4>1
    <3>6. ASSUME NEW r \in held PROVE r.lo - HeaderSize \in B \ {brk}
      <4>1. PICK a \in B : a # brk /\ r.lo = a + HeaderSize
        BY <3>1 DEF Owned
      <4> QED
        BY <3>2, <3>3, <4>1
    <3>7. brk \in B
      BY <3>1 DEF Tiles
    <3> QED
      BY <3>1, <3>4, <3>5, <3>6, <3>7
  <2> QED
    BY <2>4, <2>5 DEF BlocksTile
<1> QED
  BY <1>1, HeapInvariant, PTL

(* Ranges a step adds were zero, as long as no two blocks were merged:     *)
(* FreeClear, Sbrk and the split leave nothing behind.                     *)
THEOREM HeapZeroUntilMerged == HeapSpec => ZeroUntilMerged
<1> DEFINE Fresh == (~merged /\ ~overlap') =>
                      \A r \in held' \ held : \A a \in r.lo .. r.hi - 1 : mem[a] = Zero
<1>1. HeapInv /\ [HeapNext]_heapVars => [Fresh]_heapVars
  <2> SUFFICES ASSUME HeapInv, HeapNext, ~merged, ~overlap', NEW r \in held', r \notin held,
                      NEW x \in r.lo .. r.hi - 1
               PROVE  mem[x] = Zero
    OBVIOUS
  <2>1. PICK c \in Callers :
          \/ HeapAllocFirst(c) \/ HeapStep(c)
          \/ \E n \in Sizes : AllocateSearch(c, n)
          \/ \E q \in held : FreeMark(c, q)
    BY DEF HeapNext
  <2>2. AllocateMark(c) /\ mem[blk[c]] # Data
    BY <2>1 DEF HeapStep, HeapAllocFirst, AllocateSearch, AllocateGrow, AllocateSplit, AllocateMark,
                FreeMark, FreeClear, FreeMerge
  <2>3. HeapType
    BY DEF HeapInv
  <2>4. PICK to : Step(c, "mark", to)
    BY <2>2 DEF AllocateMark, StepOnBlock
  <2>5. /\ ~halted /\ pc[c] = "mark" /\ ~overlap /\ \A d \in Callers : d # c => pc[d] = "idle"
    BY <2>3, <2>4, StepAlone
  <2>6. PICK B \in SUBSET Addresses : Tiles(B) /\ Owned(B) /\ Working(B) /\ Cleared(B)
    BY <2>5 DEF HeapInv, Calm
  <2>7. PICK b \in B : b = blk[c] /\ b # brk /\ ~mem[b].used /\ BlockSize(req[c]) <= mem[b].size
    BY <2>5, <2>6 DEF Working, OnBlock
  <2>8. PICK n \in Nat : n = req[c]
    BY <2>3 DEF HeapType
  <2>9. BlockSize(n) \in Nat /\ BlockSize(n) >= n + 1
    BY <2>3, BlockSizeFits DEF HeapType
  <2>10. r = Given(c)
    BY <2>2 DEF AllocateMark
  <2>11. r.lo = b + 1 /\ r.hi = b + 1 + n
    BY <2>7, <2>8, <2>10, HeapNumbers DEF Given
  <2>12. b \in Nat /\ mem[b].size \in Nat
    BY <2>3, <2>6, <2>7, TileFacts
  <2>13. x \in Int /\ b + 1 <= x /\ x < b + mem[b].size
    BY <2>7, <2>8, <2>9, <2>11, <2>12
  <2> QED
    BY <2>3, <2>5, <2>6, <2>7, <2>13, ClearedFacts
<1> QED
  BY <1>1, HeapInvariant, PTL DEF HeapSpec, ZeroUntilMerged

(* Both heaps implement Allocator: what a call returns is apart from every *)
(* range in use, and only its own range leaves with a release.             *)
THEOREM HeapImplementsAllocator == HeapSpec => ImplementsAllocator
<1>1. HeapInit => A!AllocatorInit
  BY DEF HeapInit, A!AllocatorInit
<1>2. HeapInv /\ [HeapNext]_heapVars => [A!AllocatorNext]_(A!allocatorVars)
  <2> SUFFICES ASSUME HeapInv, HeapNext PROVE A!AllocatorNext
    BY DEF heapVars, A!allocatorVars
  <2>1. PICK c \in Callers :
          \/ HeapAllocFirst(c) \/ HeapStep(c)
          \/ \E n \in Sizes : AllocateSearch(c, n)
          \/ \E q \in held : FreeMark(c, q)
    BY DEF HeapNext
  <2>2. PICK from, to : Step(c, from, to)
    BY <2>1 DEF HeapStep, HeapAllocFirst, AllocateSearch, AllocateGrow, AllocateSplit, AllocateMark,
                FreeMark, FreeClear, FreeMerge, StepOnBlock
  <2>3. HeapType
    BY DEF HeapInv
  <2>4. overlap => overlap'
    BY <2>2 DEF Step
  <2>5. CASE overlap'
    BY <2>4, <2>5 DEF A!AllocatorNext
  <2>6. CASE ~overlap' /\ held' = held
    BY <2>4, <2>6 DEF A!AllocatorNext
  <2>7. CASE \E q \in held : FreeMark(c, q)
    <3>1. A!Release
      BY <2>7 DEF FreeMark, A!Release
    <3> QED
      BY <2>4, <3>1 DEF A!AllocatorNext
  <2>8. CASE ~overlap' /\ held' # held /\ ~(\E q \in held : FreeMark(c, q))
    <3>1. AllocateMark(c) /\ mem[blk[c]] # Data
      BY <2>1, <2>8 DEF HeapStep, HeapAllocFirst, AllocateSearch, AllocateGrow, AllocateSplit,
                        AllocateMark, FreeClear, FreeMerge
    <3>2. PICK to1 : Step(c, "mark", to1)
      BY <3>1 DEF AllocateMark, StepOnBlock
    <3>3. /\ ~halted /\ pc[c] = "mark" /\ ~overlap
      BY <2>3, <2>8, <3>2, StepAlone
    <3>4. PICK B \in SUBSET Addresses : Tiles(B) /\ Owned(B) /\ Working(B)
      BY <3>3 DEF HeapInv, Calm
    <3>5. PICK b \in B : b = blk[c] /\ b # brk /\ ~mem[b].used /\ req[c] > 0
                         /\ BlockSize(req[c]) <= mem[b].size
      BY <3>3, <3>4 DEF Working, OnBlock
    <3>6. PICK n \in Nat : n = req[c] /\ n > 0
      BY <2>3, <3>5 DEF HeapType
    <3>7. BlockSize(n) \in Nat /\ BlockSize(n) >= n + 1
      BY <2>3, BlockSizeFits DEF HeapType
    <3>8. PICK s \in Nat : s = mem[b].size /\ b \in Nat /\ b + s <= brk /\ brk \in Nat /\ brk <= Limit
      BY <2>3, <3>4, <3>5, TileFacts, Cells
    <3>9. n + 1 <= s
      BY <3>5, <3>6, <3>7, <3>8
    <3>10. PICK lo, hi \in Nat : lo = b + 1 /\ hi = b + 1 + n
      BY <3>8
    <3>11. ASSUME NEW q \in held PROVE q.hi <= lo \/ hi <= q.lo
      <4>1. PICK a \in B : /\ a # brk /\ mem[a].used
                           /\ q.lo = a + HeaderSize /\ q.lo < q.hi /\ q.hi <= a + mem[a].size
        BY <3>4 DEF Owned
      <4>2. PICK z \in Nat : z = mem[a].size /\ a \in Nat
        BY <2>3, <3>4, <4>1, TileFacts
      <4>3. a + z <= b \/ b + s <= a
        BY <2>3, <3>4, <3>5, <3>8, <4>1, <4>2, BlocksApart
      <4>4. q.lo \in Nat /\ q.hi \in Nat
        BY <3>4 DEF Owned
      <4> QED
        <5>1. PICK ql, qh \in Nat : ql = q.lo /\ qh = q.hi
          BY <4>4
        <5>2. ql = a + 1 /\ qh <= a + z
          BY <4>1, <4>2, <5>1, HeapNumbers
        <5>3. qh <= lo \/ hi <= ql
          BY <3>8, <3>9, <3>10, <4>2, <4>3, <5>2
        <5> QED
          BY <5>1, <5>3
    <3>12. \A q \in held : q.lo # lo
      <4> SUFFICES ASSUME NEW q \in held, q.lo = lo PROVE FALSE
        OBVIOUS
      <4>1. q.lo < q.hi /\ q.lo \in Nat /\ q.hi \in Nat
        BY <3>4 DEF Owned
      <4> QED
        BY <3>6, <3>8, <3>10, <3>11, <4>1
    <3>13. PICK g : g = [lo |-> lo, hi |-> hi, copy |-> 0] /\ held' = held \cup {g}
      <4>1. {r \in held : r.lo = lo /\ r.hi = hi} = {}
        BY <3>12
      <4>2. Cardinality({r \in held : r.lo = lo /\ r.hi = hi}) = 0
        BY <4>1, FS_EmptySet
      <4>3. Given(c) = [lo |-> lo, hi |-> hi, copy |-> Cardinality({r \in held : r.lo = lo /\ r.hi = hi})]
        BY <3>5, <3>6, <3>10, HeapNumbers DEF Given
      <4>4. held' = held \cup {Given(c)}
        BY <3>1 DEF AllocateMark
      <4> QED
        BY <4>2, <4>3, <4>4
    <3>14. lo \in 0 .. Limit /\ hi \in 0 .. Limit /\ lo < hi
      <4>1. lo < hi /\ hi <= brk
        BY <3>6, <3>8, <3>9, <3>10
      <4>2. Limit \in Nat
        BY HeapNumbers
      <4> QED
        BY <3>8, <4>1, <4>2
    <3>15. g \in A!Ranges /\ g.lo < g.hi /\ \A q \in held : A!Apart(g, q)
      <4>1. g \in A!Ranges
        BY <3>13, <3>14 DEF A!Ranges
      <4>2. g.lo = lo /\ g.hi = hi
        BY <3>13
      <4> QED
        BY <3>11, <3>14, <4>1, <4>2 DEF A!Apart
    <3>16. A!Grant
      BY <3>13, <3>15 DEF A!Grant
    <3> QED
      BY <2>4, <3>16 DEF A!AllocatorNext
  <2> QED
    BY <2>5, <2>6, <2>7, <2>8
<1> QED
  BY <1>1, <1>2, HeapInvariant, PTL DEF HeapSpec, ImplementsAllocator, A!AllocatorSpec
=============================================================================
