--------------------------- MODULE PagePoolProofs ---------------------------
(***************************************************************************)
(* The page pool never gives a page twice as long as its calls do not      *)
(* overlap, and loses none as long as the last page allocated is the one   *)
(* that is released, for every number of pages and every set of callers.   *)
(***************************************************************************)
EXTENDS PagePool, TLAPS, FiniteSetTheorems, WellFoundedInduction

(* The block a call is moving, apart from the lists and from every caller. *)
MovedBlock ==
  \A c \in Callers : pc[c] \in {"pop", "push", "release"} => block[c] # Null

(* The initial list is well linked (_InitPagesList).                       *)
LEMMA PoolInitInv == PoolInit => PoolInv
<1> SUFFICES ASSUME PoolInit PROVE PoolInv
  OBVIOUS
<1> USE PoolAssumption DEF PoolInit, Blocks, Null
<1>1. PoolTypeOK
  <2>1. next \in [Blocks -> Blocks \cup {Null}]
    OBVIOUS
  <2>2. pc \in [Callers -> {"idle", "pop", "push", "release", "loop"}]
    OBVIOUS
  <2>3. /\ block \in [Callers -> Blocks \cup {Null}]
        /\ handed \in [Callers -> SUBSET Blocks]
    OBVIOUS
  <2>4. /\ availPageList \in Blocks \cup {Null}
        /\ usedPageList \in Blocks \cup {Null}
        /\ free \subseteq Blocks
    OBVIOUS
  <2> QED
    BY <2>1, <2>2, <2>3, <2>4 DEF PoolTypeOK
<1>2. NoPageTwice
  BY DEF NoPageTwice
<1>3. AvailLinked
  BY DEF AvailLinked
<1>4. CallAlone
  BY DEF CallAlone
<1> QED
  BY <1>1, <1>2, <1>3, <1>4 DEF PoolInv

(* The walk of Free ends in one of three ways.                             *)
LEMMA WalkOutcomes ==
  ASSUME NEW b
  PROVE  /\ WalkOutcome(b) \in {"release", "idle", "loop"}
         /\ WalkOutcome(b) = "release" => OnUsedList(b)
  BY DEF WalkOutcome

(* Every step of a call keeps the types.                                   *)
LEMMA PoolTypeStep == PoolInv /\ [PoolNext]_poolVars => PoolTypeOK'
<1> SUFFICES ASSUME PoolInv, [PoolNext]_poolVars PROVE PoolTypeOK'
  OBVIOUS
<1> USE DEF PoolInv, PoolTypeOK, Step
<1>1. ASSUME NEW c \in Callers, AllocateLoad(c) PROVE PoolTypeOK'
  BY <1>1 DEF AllocateLoad
<1>2. ASSUME NEW c \in Callers, AllocatePop(c) PROVE PoolTypeOK'
  BY <1>2 DEF AllocatePop
<1>3. ASSUME NEW c \in Callers, AllocatePush(c) PROVE PoolTypeOK'
  BY <1>3 DEF AllocatePush
<1>4. ASSUME NEW c \in Callers, FreePush(c) PROVE PoolTypeOK'
  BY <1>4 DEF FreePush
<1>5. ASSUME NEW c \in Callers, NEW b \in Blocks, FreeWalk(c, b) PROVE PoolTypeOK'
  BY <1>5, WalkOutcomes DEF FreeWalk
<1>6. CASE UNCHANGED poolVars
  BY <1>6 DEF poolVars
<1> QED
  BY <1>1, <1>2, <1>3, <1>4, <1>5, <1>6 DEF PoolNext

(* While no two calls overlap, the caller that takes a step is the only    *)
(* one in a call.                                                          *)
LEMMA Alone ==
  ASSUME PoolInv, NEW c \in Callers, NEW from, NEW to, Step(c, from, to), ~overlap'
  PROVE  ~overlap /\ \A d \in Callers \ {c} : pc[d] = "idle" /\ pc'[d] = "idle"
<1>1. ~overlap /\ \A d \in Callers \ {c} : pc[d] = "idle"
  BY DEF Step
<1> QED
  BY <1>1 DEF Step, PoolInv, PoolTypeOK

(* The rest of the inductive invariant, when the calls have not overlapped.*)
LEMMA PoolAloneStep ==
  ASSUME PoolInv, [PoolNext]_poolVars
  PROVE  MovedBlock' /\ NoPageTwice' /\ AvailLinked' /\ CallAlone'
<1> USE DEF PoolInv, PoolTypeOK, Null
<1> DEFINE Good == MovedBlock' /\ NoPageTwice' /\ AvailLinked' /\ CallAlone'
<1>1. ASSUME NEW c \in Callers, AllocateLoad(c) PROVE Good
  <2>1. MovedBlock'
    BY <1>1 DEF AllocateLoad, Step, MovedBlock
  <2>2. NoPageTwice'
    BY <1>1 DEF AllocateLoad, Step, NoPageTwice
  <2>3. AvailLinked'
    BY <1>1 DEF AllocateLoad, Step, AvailLinked
  <2>4. CallAlone'
    <3> SUFFICES ASSUME ~overlap' PROVE CallAlone'
      BY DEF CallAlone
    <3>1. ~overlap /\ \A d \in Callers \ {c} : pc[d] = "idle" /\ pc'[d] = "idle"
      BY <1>1, Alone DEF AllocateLoad
    <3> QED
      BY <1>1, <3>1 DEF AllocateLoad, Step, CallAlone
  <2> QED
    BY <2>1, <2>2, <2>3, <2>4
<1>2. ASSUME NEW c \in Callers, AllocatePop(c) PROVE Good
  <2>1. MovedBlock'
    BY <1>2 DEF AllocatePop, Step, MovedBlock
  <2> SUFFICES ASSUME ~overlap' PROVE NoPageTwice' /\ AvailLinked' /\ CallAlone'
    BY <2>1 DEF NoPageTwice, AvailLinked, CallAlone
  <2>2. ~overlap /\ \A d \in Callers \ {c} : pc[d] = "idle" /\ pc'[d] = "idle"
    BY <1>2, Alone DEF AllocatePop
  <2>3. block[c] = availPageList /\ block[c] \in free
    BY <1>2, <2>2 DEF AllocatePop, Step, CallAlone, AvailLinked
  <2>4. NoPageTwice'
    BY <1>2, <2>2 DEF AllocatePop, NoPageTwice
  <2>5. AvailLinked'
    BY <1>2, <2>2, <2>3 DEF AllocatePop, AvailLinked
  <2>6. CallAlone'
    BY <1>2, <2>2, <2>3 DEF AllocatePop, Step, CallAlone, NoPageTwice
  <2> QED
    BY <2>4, <2>5, <2>6
<1>3. ASSUME NEW c \in Callers, AllocatePush(c) PROVE Good
  <2>1. MovedBlock'
    BY <1>3 DEF AllocatePush, Step, MovedBlock
  <2> SUFFICES ASSUME ~overlap' PROVE NoPageTwice' /\ AvailLinked' /\ CallAlone'
    BY <2>1 DEF NoPageTwice, AvailLinked, CallAlone
  <2>2. ~overlap /\ \A d \in Callers \ {c} : pc[d] = "idle" /\ pc'[d] = "idle"
    BY <1>3, Alone DEF AllocatePush
  <2>3. block[c] \in Blocks \ free /\ \A d \in Callers : block[c] \notin handed[d]
    BY <1>3, <2>2 DEF AllocatePush, Step, CallAlone
  <2>4. NoPageTwice'
    BY <1>3, <2>2, <2>3 DEF AllocatePush, NoPageTwice
  <2>5. AvailLinked'
    BY <1>3, <2>2, <2>3 DEF AllocatePush, AvailLinked
  <2>6. CallAlone'
    BY <1>3, <2>2 DEF AllocatePush, Step, CallAlone
  <2> QED
    BY <2>4, <2>5, <2>6
<1>4. ASSUME NEW c \in Callers, FreePush(c) PROVE Good
  <2>1. MovedBlock'
    BY <1>4 DEF FreePush, Step, MovedBlock
  <2> SUFFICES ASSUME ~overlap' PROVE NoPageTwice' /\ AvailLinked' /\ CallAlone'
    BY <2>1 DEF NoPageTwice, AvailLinked, CallAlone
  <2>2. ~overlap /\ \A d \in Callers \ {c} : pc[d] = "idle" /\ pc'[d] = "idle"
    BY <1>4, Alone DEF FreePush
  <2>3. block[c] \in Blocks \ free /\ \A d \in Callers : block[c] \notin handed[d]
    BY <1>4, <2>2 DEF FreePush, Step, CallAlone
  <2>4. NoPageTwice'
    BY <1>4, <2>2, <2>3 DEF FreePush, NoPageTwice
  <2>5. AvailLinked'
    BY <1>4, <2>2, <2>3 DEF FreePush, AvailLinked
  <2>6. CallAlone'
    BY <1>4, <2>2 DEF FreePush, Step, CallAlone
  <2> QED
    BY <2>4, <2>5, <2>6
<1>5. ASSUME NEW c \in Callers, NEW b \in Blocks, FreeWalk(c, b) PROVE Good
  <2>0. b # Null
    BY PoolAssumption DEF Blocks
  <2>1. MovedBlock'
    BY <1>5, <2>0, WalkOutcomes DEF FreeWalk, Step, MovedBlock
  <2> SUFFICES ASSUME ~overlap' PROVE NoPageTwice' /\ AvailLinked' /\ CallAlone'
    BY <2>1 DEF NoPageTwice, AvailLinked, CallAlone
  <2>2. ~overlap /\ \A d \in Callers \ {c} : pc[d] = "idle" /\ pc'[d] = "idle"
    BY <1>5, Alone DEF FreeWalk
  <2>3. NoPageTwice'
    BY <1>5, <2>2 DEF FreeWalk, NoPageTwice
  <2>4. AvailLinked'
    BY <1>5, <2>2 DEF FreeWalk, AvailLinked
  <2>5. \A d \in Callers : b \notin handed'[d]
    BY <1>5, <2>2 DEF FreeWalk, NoPageTwice
  <2>6. b \notin free
    BY <1>5, <2>2 DEF FreeWalk, NoPageTwice
  <2>7. CallAlone'
    BY <1>5, <2>2, <2>5, <2>6, WalkOutcomes DEF FreeWalk, Step, CallAlone
  <2> QED
    BY <2>3, <2>4, <2>7
<1>6. ASSUME UNCHANGED poolVars PROVE Good
  BY <1>6 DEF poolVars, MovedBlock, NoPageTwice, AvailLinked, CallAlone
<1> QED
  BY <1>1, <1>2, <1>3, <1>4, <1>5, <1>6 DEF PoolNext

(* The inductive invariant of the pool holds in every reachable state.     *)
THEOREM PoolInvariant == PoolSpec => []PoolInv
<1>1. PoolInv /\ [PoolNext]_poolVars => PoolInv'
  BY PoolTypeStep, PoolAloneStep DEF PoolInv, MovedBlock
<1> QED
  BY <1>1, PoolInitInv, PTL DEF PoolSpec

(* Type correctness of the pool, overlapping calls included.               *)
THEOREM PoolTypes == PoolSpec => []PoolTypeOK
<1>1. PoolInv => PoolTypeOK
  BY DEF PoolInv
<1> QED
  BY <1>1, PoolInvariant, PTL

(* PagePool::Allocate gives no page that somebody else has, as long as no  *)
(* two calls overlap, although Free damages the used list.                 *)
THEOREM PoolNoPageTwice == PoolSpec => []NoPageTwice
<1>1. PoolInv => NoPageTwice
  BY DEF PoolInv
<1> QED
  BY <1>1, PoolInvariant, PTL

-----------------------------------------------------------------------------
(* The used list is the chain f of n blocks.                               *)
IsChain(n, f) ==
  /\ usedPageList = IF n = 0 THEN Null ELSE f[1]
  /\ \A i \in 1 .. n : next[f[i]] = IF i = n THEN Null ELSE f[i + 1]
  /\ \A i, j \in 1 .. n : f[i] = f[j] => i = j

InUse(b) == \E c \in Callers : b \in handed[c]
Moving(b) == \E c \in Callers : pc[c] \in {"push", "release"} /\ block[c] = b

(* The used list is a chain of the pages in use, and every other page is   *)
(* available or on its way between the lists.                              *)
UsedInv ==
  ~overlap /\ ~inner =>
    /\ \E n \in Nat : \E f \in [1 .. n -> Blocks] :
         /\ IsChain(n, f)
         /\ \A b \in Blocks : (\E i \in 1 .. n : f[i] = b) <=> InUse(b)
    /\ \A b \in Blocks : b \in free \/ InUse(b) \/ Moving(b)

(* A set of numbers that is not empty has a smallest one.                  *)
LEMMA FirstExists ==
  ASSUME NEW T, T \subseteq Nat, T # {}
  PROVE  \E k \in T : \A l \in T : k <= l
<1> DEFINE R == OpToRel(<, Nat)
<1>1. IsWellFoundedOn(R, Nat)
  BY NatLessThanWellFounded, Zenon
<1>2. \A l, k \in Nat : l < k => <<l, k>> \in R
  BY DEF OpToRel
<1> HIDE DEF R
<1>3. PICK k \in T : \A l \in T : ~(<<l, k>> \in R)
  BY <1>1, WFMin
<1>4. \A l \in T : ~(l < k)
  BY <1>2, <1>3
<1>5. k \in Nat /\ \A l \in T : l \in Nat /\ k <= l
  BY <1>4
<1> QED
  BY <1>5

(* A chain has no more blocks than the pool.                               *)
LEMMA ChainFits ==
  ASSUME NEW n \in Nat, NEW f \in [1 .. n -> Blocks], IsChain(n, f)
  PROVE  n <= NbPages
<1>1. f \in Injection(1 .. n, Blocks)
  BY DEF IsChain, Injection, IsInjective
<1>2. IsFiniteSet(Blocks) /\ Cardinality(Blocks) = NbPages
  BY PoolAssumption, FS_Interval DEF Blocks
<1>3. Cardinality(1 .. n) = n
  BY FS_Interval
<1> QED
  BY <1>1, <1>2, <1>3, FS_Injection

(* The walk of Free goes through the chain, block by block, and stops      *)
(* behind it: the recursion of UsedWalk has a solution, and one only.      *)
LEMMA WalkFollowsChain ==
  ASSUME NEW n \in Nat, NEW f \in [1 .. n -> Blocks], IsChain(n, f)
  PROVE  \A i \in 0 .. NbPages : UsedWalk[i] = IF i < n THEN f[i + 1] ELSE Null
<1> DEFINE
     Turn(w, i) == IF i = 0 THEN usedPageList
                   ELSE IF w[i - 1] = Null THEN Null ELSE next[w[i - 1]]
     W == [i \in 0 .. NbPages |-> IF i < n THEN f[i + 1] ELSE Null]
<1>1. \A i \in 1 .. n : f[i] \in Blocks /\ f[i] # Null
  BY PoolAssumption DEF Blocks, Null
<1>2. \A i \in 0 .. NbPages : W[i] = Turn(W, i)
  <2> SUFFICES ASSUME NEW i \in 0 .. NbPages PROVE W[i] = Turn(W, i)
    OBVIOUS
  <2>1. CASE i = 0
    BY <2>1 DEF IsChain
  <2>2. CASE i > 0 /\ i - 1 < n
    <3>1. W[i - 1] = f[i] /\ f[i] # Null /\ i \in 1 .. n
      BY <1>1, <2>2, PoolAssumption
    <3>2. next[f[i]] = IF i = n THEN Null ELSE f[i + 1]
      BY <3>1 DEF IsChain
    <3> QED
      BY <2>2, <3>1, <3>2
  <2>3. CASE i > 0 /\ ~(i - 1 < n)
    BY <2>3, PoolAssumption
  <2> QED
    BY <2>1, <2>2, <2>3
<1>3. W = [i \in 0 .. NbPages |-> Turn(W, i)]
  <2> HIDE DEF Turn
  <2>1. W = [i \in 0 .. NbPages |-> W[i]]
    OBVIOUS
  <2> HIDE DEF W
  <2> QED
    BY <1>2, <2>1
<1>4. UsedWalk = [i \in 0 .. NbPages |-> Turn(UsedWalk, i)]
  <2> DEFINE Solves(w) == w = [i \in 0 .. NbPages |-> Turn(w, i)]
  <2>1. UsedWalk = CHOOSE w : Solves(w)
    BY DEF UsedWalk
  <2>2. Solves(W)
    BY <1>3
  <2> HIDE DEF Solves
  <2>3. Solves(UsedWalk)
    BY <2>1, <2>2
  <2> QED
    BY <2>3 DEF Solves
<1>5. \A i \in 0 .. NbPages : UsedWalk[i] = W[i]
  <2> DEFINE Bad == {i \in 0 .. NbPages : UsedWalk[i] # W[i]}
  <2> SUFFICES ASSUME Bad # {} PROVE FALSE
    OBVIOUS
  <2>1. PICK k \in Bad : \A l \in Bad : k <= l
    <3>1. Bad \subseteq Nat
      BY PoolAssumption
    <3> HIDE DEF Bad
    <3> QED
      BY <3>1, FirstExists
  <2> HIDE DEF W
  <2>2. k = 0 \/ UsedWalk[k - 1] = W[k - 1]
    BY <2>1, PoolAssumption
  <2>3. UsedWalk[k] = Turn(UsedWalk, k) /\ W[k] = Turn(W, k)
    BY <1>2, <1>4, PoolAssumption
  <2> QED
    BY <2>1, <2>2, <2>3
<1> QED
  BY <1>5

(* The blocks that Free finds are those of the chain.                      *)
LEMMA OnListIffInChain ==
  ASSUME NEW n \in Nat, NEW f \in [1 .. n -> Blocks], IsChain(n, f), NEW b \in Blocks
  PROVE  OnUsedList(b) <=> \E i \in 1 .. n : f[i] = b
<1>1. b # Null
  BY PoolAssumption DEF Blocks, Null
<1>2. ASSUME NEW i \in 0 .. NbPages, UsedWalk[i] = b PROVE \E j \in 1 .. n : f[j] = b
  <2>1. i < n /\ f[i + 1] = b
    BY <1>1, <1>2, WalkFollowsChain
  <2> QED
    BY <2>1, PoolAssumption
<1>3. ASSUME NEW j \in 1 .. n, f[j] = b PROVE \E i \in 0 .. NbPages : UsedWalk[i] = b
  <2>1. j - 1 \in 0 .. NbPages /\ j - 1 < n
    BY ChainFits, PoolAssumption
  <2>2. UsedWalk[j - 1] = b
    BY <1>3, <2>1, WalkFollowsChain
  <2> QED
    BY <2>1, <2>2
<1> QED
  BY <1>2, <1>3 DEF OnUsedList

(* A chain that keeps its links is still the chain.                        *)
LEMMA ChainKept ==
  ASSUME NEW n \in Nat, NEW f \in [1 .. n -> Blocks], IsChain(n, f),
         usedPageList' = usedPageList,
         \A i \in 1 .. n : next'[f[i]] = next[f[i]]
  PROVE  IsChain(n, f)'
BY DEF IsChain

(* AllocatePush and the walk of Free work at the head of the chain; the    *)
(* other steps leave it alone.                                             *)
LEMMA UsedStep ==
  ASSUME PoolInv, UsedInv, [PoolNext]_poolVars
  PROVE  UsedInv'
<1> SUFFICES ASSUME ~overlap', ~inner' PROVE UsedInv'
  BY DEF UsedInv
<1> USE DEF PoolInv, PoolTypeOK
<1> DEFINE
     Links(n, f) ==
       /\ IsChain(n, f)
       /\ \A b \in Blocks : (\E i \in 1 .. n : f[i] = b) <=> InUse(b)
     Kept == \A b \in Blocks : b \in free \/ InUse(b) \/ Moving(b)
<1>0. ASSUME ~overlap, ~inner PROVE Kept /\ \E n \in Nat : \E f \in [1 .. n -> Blocks] : Links(n, f)
  BY <1>0 DEF UsedInv
<1>1. ASSUME NEW c \in Callers, AllocateLoad(c) PROVE UsedInv'
  <2>1. ~overlap /\ ~inner /\ \A d \in Callers \ {c} : pc[d] = "idle" /\ pc'[d] = "idle"
    BY <1>1, Alone DEF AllocateLoad
  <2>2. PICK n \in Nat : \E f \in [1 .. n -> Blocks] : Links(n, f)
    BY <1>0, <2>1
  <2>3. PICK f \in [1 .. n -> Blocks] : Links(n, f)
    BY <2>2
  <2>4. \A b : InUse(b)' <=> InUse(b)
    BY <1>1 DEF AllocateLoad, InUse
  <2>5. IsChain(n, f)'
    BY <1>1, <2>3, ChainKept DEF AllocateLoad
  <2>6. \A b \in Blocks : ~Moving(b)
    BY <1>1, <2>1 DEF AllocateLoad, Step, Moving
  <2>7. \A b \in Blocks : b \in free' \/ InUse(b)'
    BY <1>0, <1>1, <2>1, <2>4, <2>6 DEF AllocateLoad
  <2> QED
    BY <2>3, <2>4, <2>5, <2>7 DEF UsedInv
<1>2. ASSUME NEW c \in Callers, AllocatePop(c) PROVE UsedInv'
  <2>1. ~overlap /\ ~inner /\ \A d \in Callers \ {c} : pc[d] = "idle" /\ pc'[d] = "idle"
    BY <1>2, Alone DEF AllocatePop
  <2>2. PICK n \in Nat : \E f \in [1 .. n -> Blocks] : Links(n, f)
    BY <1>0, <2>1
  <2>3. PICK f \in [1 .. n -> Blocks] : Links(n, f)
    BY <2>2
  <2>4. \A b : InUse(b)' <=> InUse(b)
    BY <1>2 DEF AllocatePop, InUse
  <2>5. IsChain(n, f)'
    BY <1>2, <2>3, ChainKept DEF AllocatePop
  <2>6. \A b \in Blocks : ~Moving(b)
    BY <1>2, <2>1 DEF AllocatePop, Step, Moving
  <2>7. Moving(block[c])'
    BY <1>2 DEF AllocatePop, Step, Moving
  <2>8. \A b \in Blocks : b \in free' \/ InUse(b)' \/ Moving(b)'
    BY <1>0, <1>2, <2>1, <2>4, <2>6, <2>7 DEF AllocatePop
  <2> QED
    BY <2>3, <2>4, <2>5, <2>8 DEF UsedInv
<1>3. ASSUME NEW c \in Callers, AllocatePush(c) PROVE UsedInv'
  <2>1. ~overlap /\ ~inner /\ \A d \in Callers \ {c} : pc[d] = "idle" /\ pc'[d] = "idle"
    BY <1>3, Alone DEF AllocatePush
  <2>2. PICK n \in Nat : \E f \in [1 .. n -> Blocks] : Links(n, f)
    BY <1>0, <2>1
  <2>3. PICK f \in [1 .. n -> Blocks] : Links(n, f)
    BY <2>2
  <2>4. PICK e \in Blocks : e = block[c] /\ ~InUse(e)
    BY <1>3, <2>1 DEF AllocatePush, Step, CallAlone, InUse
  <2> DEFINE g == [i \in 1 .. n + 1 |-> IF i = 1 THEN e ELSE f[i - 1]]
  <2>5. \A i \in 1 .. n : f[i] # e
    BY <2>3, <2>4
  <2>6. g \in [1 .. n + 1 -> Blocks] /\ n + 1 \in Nat
    BY <2>4
  <2>7. \A i \in 1 .. n : g[i + 1] = f[i]
    OBVIOUS
  <2>8. \A i \in 1 .. n + 1 : i = 1 \/ (i - 1 \in 1 .. n /\ g[i] = f[i - 1])
    OBVIOUS
  <2>9. g[1] = e
    OBVIOUS
  <2> HIDE DEF g
  <2>10. IsChain(n + 1, g)'
    <3>1. usedPageList' = g[1]
      BY <1>3, <2>4, <2>9 DEF AllocatePush
    <3>2. next'[g[1]] = IF 1 = n + 1 THEN Null ELSE g[2]
      <4>1. next'[g[1]] = usedPageList
        BY <1>3, <2>4, <2>9 DEF AllocatePush
      <4>2. usedPageList = IF n = 0 THEN Null ELSE f[1]
        BY <2>3 DEF IsChain
      <4>3. n # 0 => 1 \in 1 .. n
        OBVIOUS
      <4> QED
        BY <2>7, <4>1, <4>2, <4>3
    <3>3. \A i \in 1 .. n : next'[f[i]] = IF i = n THEN Null ELSE f[i + 1]
      BY <1>3, <2>3, <2>4, <2>5 DEF AllocatePush, IsChain
    <3>4. \A i \in 1 .. n + 1 : next'[g[i]] = IF i = n + 1 THEN Null ELSE g[i + 1]
      <4> SUFFICES ASSUME NEW i \in 1 .. n + 1, i # 1
                   PROVE next'[g[i]] = IF i = n + 1 THEN Null ELSE g[i + 1]
        BY <3>2
      <4>1. i - 1 \in 1 .. n /\ g[i] = f[i - 1]
        BY <2>8
      <4>2. next'[f[i - 1]] = IF i - 1 = n THEN Null ELSE f[i]
        BY <3>3, <4>1
      <4>3. i # n + 1 => g[i + 1] = f[i]
        BY <2>7, <4>1
      <4> QED
        BY <4>1, <4>2, <4>3
    <3>5. \A i, j \in 1 .. n + 1 : g[i] = g[j] => i = j
      BY <2>3, <2>5, <2>8, <2>9 DEF IsChain
    <3> QED
      BY <3>1, <3>4, <3>5 DEF IsChain
  <2>11. \A b : InUse(b)' <=> InUse(b) \/ b = e
    BY <1>3, <2>4 DEF AllocatePush, InUse
  <2>12. \A b \in Blocks : (\E i \in 1 .. n + 1 : g[i] = b) <=> InUse(b)'
    <3>1. \A b \in Blocks : (\E i \in 1 .. n + 1 : g[i] = b) =>
            b = e \/ \E i \in 1 .. n : f[i] = b
      BY <2>8, <2>9
    <3>2. \A b \in Blocks : b = e \/ (\E i \in 1 .. n : f[i] = b) =>
            \E i \in 1 .. n + 1 : g[i] = b
      BY <2>7, <2>9
    <3> QED
      BY <2>3, <2>11, <3>1, <3>2
  <2>13. \A b \in Blocks : Moving(b) => b = e
    BY <1>3, <2>1, <2>4 DEF AllocatePush, Step, Moving
  <2>14. \A b \in Blocks : b \in free' \/ InUse(b)'
    BY <1>0, <1>3, <2>1, <2>11, <2>13 DEF AllocatePush
  <2> QED
    BY <2>6, <2>10, <2>12, <2>14 DEF UsedInv
<1>4. ASSUME NEW c \in Callers, FreePush(c) PROVE UsedInv'
  <2>1. ~overlap /\ ~inner /\ \A d \in Callers \ {c} : pc[d] = "idle" /\ pc'[d] = "idle"
    BY <1>4, Alone DEF FreePush
  <2>2. PICK n \in Nat : \E f \in [1 .. n -> Blocks] : Links(n, f)
    BY <1>0, <2>1
  <2>3. PICK f \in [1 .. n -> Blocks] : Links(n, f)
    BY <2>2
  <2>4. block[c] \in Blocks /\ ~InUse(block[c])
    BY <1>4, <2>1 DEF FreePush, Step, CallAlone, InUse
  <2>5. \A b : InUse(b)' <=> InUse(b)
    BY <1>4 DEF FreePush, InUse
  <2>6. \A i \in 1 .. n : next'[f[i]] = next[f[i]]
    BY <1>4, <2>3, <2>4 DEF FreePush
  <2>7. IsChain(n, f)'
    BY <1>4, <2>3, <2>6, ChainKept DEF FreePush
  <2>8. \A b \in Blocks : Moving(b) => b = block[c]
    BY <1>4, <2>1 DEF FreePush, Step, Moving
  <2>9. \A b \in Blocks : b \in free' \/ InUse(b)'
    BY <1>0, <1>4, <2>1, <2>5, <2>8 DEF FreePush
  <2> QED
    BY <2>3, <2>5, <2>7, <2>9 DEF UsedInv
<1>5. ASSUME NEW c \in Callers, NEW b \in Blocks, FreeWalk(c, b) PROVE UsedInv'
  <2>1. ~overlap /\ ~inner /\ \A d \in Callers \ {c} : pc[d] = "idle" /\ pc'[d] = "idle"
    BY <1>5, Alone DEF FreeWalk
  <2>2. PICK n \in Nat : \E f \in [1 .. n -> Blocks] : Links(n, f)
    BY <1>0, <2>1
  <2>3. PICK f \in [1 .. n -> Blocks] : Links(n, f)
    BY <2>2
  <2>4. b = usedPageList /\ b # Null
    <3>1. inner' = (inner \/ b # usedPageList)
      BY <1>5 DEF FreeWalk
    <3>2. b # Null
      BY PoolAssumption DEF Blocks, Null
    <3> QED
      BY <3>1, <3>2, Zenon
  <2>5. n > 0 /\ f[1] = b /\ 1 \in 1 .. n
    BY <2>3, <2>4 DEF IsChain
  <2>6. OnUsedList(b)
    BY <2>3, <2>5, OnListIffInChain
  <2> DEFINE g == [i \in 1 .. n - 1 |-> f[i + 1]]
  <2>7. g \in [1 .. n - 1 -> Blocks] /\ n - 1 \in Nat
    BY <2>5
  <2>8. \A i \in 1 .. n - 1 : g[i] = f[i + 1] /\ i + 1 \in 1 .. n
    OBVIOUS
  <2>9. \A i \in 1 .. n : i = 1 \/ (i - 1 \in 1 .. n - 1 /\ g[i - 1] = f[i])
    OBVIOUS
  <2> HIDE DEF g
  <2>10. IsChain(n - 1, g)'
    <3>1. usedPageList' = next[f[1]] /\ next' = next
      BY <1>5, <2>4, <2>5 DEF FreeWalk
    <3>2. \A i \in 1 .. n : next[f[i]] = IF i = n THEN Null ELSE f[i + 1]
      BY <2>3 DEF IsChain
    <3>3. usedPageList' = IF n - 1 = 0 THEN Null ELSE g[1]
      <4>1. usedPageList' = IF 1 = n THEN Null ELSE f[2]
        BY <2>5, <3>1, <3>2
      <4>2. n # 1 => g[1] = f[2]
        BY <2>5, <2>8
      <4> QED
        BY <4>1, <4>2
    <3>4. \A i \in 1 .. n - 1 : next'[g[i]] = IF i = n - 1 THEN Null ELSE g[i + 1]
      <4> SUFFICES ASSUME NEW i \in 1 .. n - 1
                   PROVE next'[g[i]] = IF i = n - 1 THEN Null ELSE g[i + 1]
        OBVIOUS
      <4>1. g[i] = f[i + 1] /\ i + 1 \in 1 .. n
        BY <2>8
      <4>2. next'[g[i]] = IF i + 1 = n THEN Null ELSE f[i + 2]
        BY <3>1, <3>2, <4>1
      <4>3. i # n - 1 => g[i + 1] = f[i + 2]
        BY <2>8
      <4> QED
        BY <4>2, <4>3
    <3>5. \A i, j \in 1 .. n - 1 : g[i] = g[j] => i = j
      BY <2>3, <2>8 DEF IsChain
    <3> QED
      BY <3>3, <3>4, <3>5 DEF IsChain
  <2>11. \A d \in Callers : b \notin handed'[d]
    BY <1>5, <2>1 DEF FreeWalk, NoPageTwice
  <2>12. \A e : InUse(e)' <=> InUse(e) /\ e # b
    BY <1>5, <2>11 DEF FreeWalk, InUse
  <2>13. \A e \in Blocks : (\E i \in 1 .. n - 1 : g[i] = e) <=> InUse(e)'
    <3>1. \A e \in Blocks : (\E i \in 1 .. n - 1 : g[i] = e) =>
            e # b /\ \E i \in 1 .. n : f[i] = e
      BY <2>3, <2>5, <2>8 DEF IsChain
    <3>2. \A e \in Blocks : e # b /\ (\E i \in 1 .. n : f[i] = e) =>
            \E i \in 1 .. n - 1 : g[i] = e
      BY <2>5, <2>9
    <3> QED
      BY <2>3, <2>12, <3>1, <3>2
  <2>14. Moving(b)'
    BY <1>5, <2>6 DEF FreeWalk, Step, WalkOutcome, Moving
  <2>15. \A e \in Blocks : ~Moving(e)
    BY <1>5, <2>1 DEF FreeWalk, Step, Moving
  <2>16. \A e \in Blocks : e \in free' \/ InUse(e)' \/ Moving(e)'
    BY <1>0, <1>5, <2>1, <2>12, <2>14, <2>15 DEF FreeWalk
  <2> QED
    BY <2>7, <2>10, <2>13, <2>16 DEF UsedInv
<1>6. CASE UNCHANGED poolVars
  BY <1>6 DEF poolVars, UsedInv, IsChain, InUse, Moving
<1> QED
  BY <1>1, <1>2, <1>3, <1>4, <1>5, <1>6 DEF PoolNext

(* PagePool loses no page as long as calls do not overlap and every page   *)
(* released is the last one allocated: the used list is exactly what is in *)
(* use, the available list exactly the rest.                               *)
THEOREM PoolConservedUntilInner == PoolSpec => []ConservedUntilInner
<1>1. PoolInit => UsedInv
  <2> SUFFICES ASSUME PoolInit PROVE UsedInv
    OBVIOUS
  <2> DEFINE f == [i \in 1 .. 0 |-> 1]
  <2>1. f \in [1 .. 0 -> Blocks] /\ 0 \in Nat /\ \A i : i \notin 1 .. 0
    OBVIOUS
  <2>2. IsChain(0, f)
    BY <2>1 DEF IsChain, PoolInit
  <2>3. \A b \in Blocks : ~InUse(b) /\ b \in free
    BY DEF PoolInit, InUse
  <2> QED
    BY <2>1, <2>2, <2>3 DEF UsedInv
<1>2. PoolInv /\ UsedInv => ConservedUntilInner
  <2> SUFFICES ASSUME PoolInv, UsedInv, ~overlap, ~inner, Quiet, NEW b \in Blocks
               PROVE  /\ OnUsedList(b) <=> InUse(b)
                      /\ b \in free <=> ~OnUsedList(b)
    BY DEF ConservedUntilInner, PoolInv, InUse
  <2>1. PICK n \in Nat : \E f \in [1 .. n -> Blocks] :
          IsChain(n, f) /\ \A e \in Blocks : (\E i \in 1 .. n : f[i] = e) <=> InUse(e)
    BY DEF UsedInv
  <2>2. OnUsedList(b) <=> InUse(b)
    BY <2>1, OnListIffInChain
  <2>3. b \in free \/ InUse(b)
    BY DEF UsedInv, Quiet, Moving
  <2>4. ~(b \in free /\ InUse(b))
    BY DEF PoolInv, NoPageTwice, InUse
  <2> QED
    BY <2>2, <2>3, <2>4
<1>3. PoolInv /\ UsedInv /\ [PoolNext]_poolVars => UsedInv'
  BY UsedStep
<1> QED
  BY <1>1, <1>2, <1>3, PoolInvariant, PTL DEF PoolSpec

=============================================================================
