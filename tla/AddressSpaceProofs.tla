------------------------- MODULE AddressSpaceProofs -------------------------
(***************************************************************************)
(* Proofs about AddressSpace, for any number of modules, any images, frames*)
(* and operations.  As long as no frame was chosen while a system call was *)
(* about to mark it, a frame has one owner (FrameInv).  The list of the    *)
(* regions ends, and every region in use is one of it (LoadInv); what      *)
(* system calls have is no frame of the pool (PoolInv).  The regions of a  *)
(* well placed process tile its space and what was copied into it stays    *)
(* (PlaceInv): a page fault at an address it may use is resolved.          *)
(***************************************************************************)
EXTENDS AddressSpace, TLAPS, WellFoundedInduction, SequenceTheorems

Entries == Frames \cup {Empty, NoFrame}
Rams == [used : SUBSET Frames, pool : SUBSET Frames, calls : SUBSET Frames]

(* Nobody has frame f: neither a page of P, nor the pool, nor a call.      *)
Unowned(P, r, f) ==
  /\ f \notin r.pool /\ f \notin r.calls
  /\ \A p \in Procs : \A g \in Pages : P[p][g] # f

(* Each frame that is used by the pages of P, the pool or the calls has    *)
(* its bit set and one owner.                                              *)
Exclusive(P, r) ==
  /\ \A p, q \in Procs : \A g, h \in Pages :
       (P[p][g] \in Frames /\ P[p][g] = P[q][h]) => (p = q /\ g = h)
  /\ \A p \in Procs : \A g \in Pages : P[p][g] \in Frames =>
       P[p][g] \in r.used /\ P[p][g] \notin r.pool /\ P[p][g] \notin r.calls
  /\ r.pool \subseteq r.used /\ r.calls \subseteq r.used /\ r.calls \cap r.pool = {}

FrameInv ==
  /\ pte \in [Procs -> [Pages -> Entries]]
  /\ ram \in Rams
  /\ pick \in Frames \cup {Null, NoFrame}
  /\ ~raced => Exclusive(pte, ram)

-----------------------------------------------------------------------------
(* The special values are no frames.                                       *)
LEMMA NoFrameIsNone == NoFrame \notin Frames /\ Empty \notin Frames /\ Null \notin Frames
BY SpaceAssumption DEF NoFrame, Empty, Null, Frames

(* A set of numbers has a least element.                                   *)
LEMMA LeastFrame ==
  ASSUME NEW T, T \subseteq Nat, T # {}
  PROVE  \E k \in T : \A l \in T : k <= l
<1> DEFINE R == OpToRel(<, Nat)
<1>1. IsWellFoundedOn(R, Nat)
  BY NatLessThanWellFounded, Zenon
<1>2. \A l, k \in Nat : l < k => <<l, k>> \in R
  BY DEF OpToRel
<1> HIDE DEF R
<1>3. PICK k \in T : \A l \in T : ~(<<l, k>> \in R)
  BY <1>1, WFMin
<1>4. \A l \in T : ~(l < k)
  BY <1>2, <1>3
<1>5. k \in Nat /\ \A l \in T : l \in Nat /\ k <= l
  BY <1>4
<1> QED
  BY <1>5

(* GetFreePage returns a frame whose bit is clear, or nothing.             *)
LEMMA FreePageIs ==
  ASSUME NEW used
  PROVE  GetFreePage(used) = NoFrame \/ GetFreePage(used) \in Frames \ used
<1>1. CASE Frames \subseteq used
  BY <1>1 DEF GetFreePage
<1>2. CASE ~(Frames \subseteq used)
  <2>1. PICK T : T = Frames \ used
    OBVIOUS
  <2>2. T # {} /\ T \subseteq Nat
    BY <1>2, <2>1, SpaceAssumption DEF Frames
  <2>3. \E f \in T : \A g \in T : f <= g
    BY <2>2, LeastFrame
  <2>4. (CHOOSE f \in T : \A g \in T : f <= g) \in T
    BY <2>3
  <2> QED
    BY <1>2, <2>1, <2>4 DEF GetFreePage
<1> QED
  BY <1>1, <1>2

(* What the functions on physical memory work on.                          *)
IsMem(m) ==
  /\ m = [pte |-> m.pte, tables |-> m.tables, ram |-> m.ram, got |-> m.got]
  /\ m.pte \in [Pages -> Entries] /\ m.ram \in Rams

(* TakeFrame sets the bit of a frame that nobody has.                      *)
LEMMA TakeFrameIs ==
  ASSUME NEW m, IsMem(m)
  PROVE  /\ IsMem(TakeFrame(m)) /\ TakeFrame(m).pte = m.pte
         /\ TakeFrame(m).got = NoFrame \/ TakeFrame(m).got \in Frames \ m.ram.used
         /\ TakeFrame(m).ram.pool = m.ram.pool /\ TakeFrame(m).ram.calls = m.ram.calls
         /\ TakeFrame(m).ram.used = m.ram.used \cup ({TakeFrame(m).got} \ {NoFrame})
<1>1. PICK f : f = GetFreePage(m.ram.used)
  OBVIOUS
<1>2. f = NoFrame \/ f \in Frames \ m.ram.used
  BY <1>1, FreePageIs
<1>3. PICK r : r = [used |-> m.ram.used \cup ({f} \ {NoFrame}), pool |-> m.ram.pool, calls |-> m.ram.calls]
  OBVIOUS
<1>4. MarkUsed(m.ram, f) = r
  BY <1>3 DEF MarkUsed, IsMem, Rams
<1>5. TakeFrame(m) = [pte |-> m.pte, tables |-> m.tables, ram |-> r, got |-> f]
  <2>1. PICK a, b, c, d : m = [pte |-> a, tables |-> b, ram |-> c, got |-> d]
    BY DEF IsMem
  <2>2. TakeFrame(m) = [m EXCEPT !.ram = MarkUsed(c, f), !.got = f]
    BY <1>1, <2>1 DEF TakeFrame
  <2>3. MarkUsed(c, f) = r
    BY <1>4, <2>1
  <2>4. TakeFrame(m) = [pte |-> a, tables |-> b, ram |-> r, got |-> f]
    BY <2>1, <2>2, <2>3
  <2> QED
    BY <2>1, <2>4
<1>6. r \in Rams
  BY <1>2, <1>3 DEF Rams, IsMem
<1> QED
  BY <1>2, <1>3, <1>5, <1>6 DEF IsMem

(* PageAlloc gives it to the pool.                                         *)
LEMMA PageAllocIs ==
  ASSUME NEW m, IsMem(m)
  PROVE  /\ IsMem(PageAlloc(m)) /\ PageAlloc(m).pte = m.pte
         /\ \E F \in SUBSET (Frames \ m.ram.used) :
              /\ PageAlloc(m).ram.used = m.ram.used \cup F
              /\ PageAlloc(m).ram.pool = m.ram.pool \cup F
              /\ PageAlloc(m).ram.calls = m.ram.calls
<1>1. PICK t : t = TakeFrame(m)
  OBVIOUS
<1>2. /\ IsMem(t) /\ t.pte = m.pte /\ (t.got = NoFrame \/ t.got \in Frames \ m.ram.used)
      /\ t.ram.pool = m.ram.pool /\ t.ram.calls = m.ram.calls
      /\ t.ram.used = m.ram.used \cup ({t.got} \ {NoFrame})
  BY <1>1, TakeFrameIs
<1>3. PICK F : F = {t.got} \ {NoFrame}
  OBVIOUS
<1>4. F \in SUBSET (Frames \ m.ram.used)
  BY <1>2, <1>3
<1>5. PICK r : r = [used |-> t.ram.used, pool |-> t.ram.pool \cup F, calls |-> t.ram.calls]
  OBVIOUS
<1>6. PageAlloc(m) = [pte |-> t.pte, tables |-> t.tables, ram |-> r, got |-> t.got]
  <2>1. r = [t.ram EXCEPT !.pool = @ \cup F]
    <3>1. PICK u : u = t.ram
      OBVIOUS
    <3>2. u \in Rams
      BY <1>2, <3>1 DEF IsMem
    <3>3. r = [used |-> u.used, pool |-> u.pool \cup F, calls |-> u.calls]
      BY <1>5, <3>1
    <3>4. PICK x, y, z : x = u.used /\ y = u.pool /\ z = u.calls
      OBVIOUS
    <3>5. u = [used |-> x, pool |-> y, calls |-> z]
      BY <3>2, <3>4 DEF Rams
    <3>6. [u EXCEPT !.pool = @ \cup F] = [used |-> x, pool |-> y \cup F, calls |-> z]
      BY <3>5
    <3> QED
      BY <3>1, <3>3, <3>4, <3>6
  <2>2. PageAlloc(m) = [t EXCEPT !.ram.pool = @ \cup F]
    BY <1>1, <1>3 DEF PageAlloc
  <2>3. PageAlloc(m) = [t EXCEPT !.ram = r]
    BY <2>1, <2>2
  <2> QED
    BY <1>2, <2>3 DEF IsMem
<1>7. r \in Rams
  BY <1>2, <1>4, <1>5 DEF IsMem, Rams
<1> QED
  BY <1>2, <1>3, <1>4, <1>5, <1>6, <1>7 DEF IsMem

(* Memory n is m with one entry set, and perhaps one more frame.           *)
WithEntry(n, m, page, entry) ==
  /\ IsMem(n) /\ n.pte = [m.pte EXCEPT ![page] = entry]
  /\ \E F \in SUBSET (Frames \ m.ram.used) :
       /\ n.ram.used = m.ram.used \cup F
       /\ n.ram.pool = m.ram.pool \cup F
       /\ n.ram.calls = m.ram.calls

(* AddPageToPageDirectory sets one entry, and may take one frame.          *)
LEMMA AddPageIs ==
  ASSUME NEW m, IsMem(m), NEW page, NEW entry \in Entries
  PROVE  WithEntry(AddPageToPageDirectory(m, page, entry), m, page, entry)
<1>1. PICK t : t = page \div PagesPerTable
  OBVIOUS
<1>2. PICK with : with = IF t \in m.tables THEN m ELSE [PageAlloc(m) EXCEPT !.tables = @ \cup {t}]
  OBVIOUS
<1>3. /\ IsMem(with) /\ with.pte = m.pte
      /\ \E F \in SUBSET (Frames \ m.ram.used) :
           /\ with.ram.used = m.ram.used \cup F
           /\ with.ram.pool = m.ram.pool \cup F
           /\ with.ram.calls = m.ram.calls
  <2>1. CASE t \in m.tables
    <3>1. with = m
      BY <1>2, <2>1
    <3>2. {} \in SUBSET (Frames \ m.ram.used)
      OBVIOUS
    <3>3. m.ram.used = m.ram.used \cup {} /\ m.ram.pool = m.ram.pool \cup {}
      OBVIOUS
    <3> QED
      BY <3>1, <3>2, <3>3
  <2>2. CASE t \notin m.tables
    <3>1. PICK a : a = PageAlloc(m)
      OBVIOUS
    <3>2. /\ IsMem(a) /\ a.pte = m.pte
          /\ \E F \in SUBSET (Frames \ m.ram.used) :
               /\ a.ram.used = m.ram.used \cup F
               /\ a.ram.pool = m.ram.pool \cup F
               /\ a.ram.calls = m.ram.calls
      BY <3>1, PageAllocIs
    <3>3. with = [a EXCEPT !.tables = a.tables \cup {t}]
      BY <1>2, <2>2, <3>1
    <3>4. with = [pte |-> a.pte, tables |-> a.tables \cup {t}, ram |-> a.ram, got |-> a.got]
      BY <3>2, <3>3 DEF IsMem
    <3>5. IsMem(with) /\ with.pte = a.pte /\ with.ram = a.ram
      BY <3>2, <3>4 DEF IsMem
    <3> QED
      BY <3>2, <3>5
  <2> QED
    BY <2>1, <2>2
<1>4. PICK n : n = AddPageToPageDirectory(m, page, entry)
  OBVIOUS
<1>5. n = [with EXCEPT !.pte[page] = entry]
  BY <1>1, <1>2, <1>4 DEF AddPageToPageDirectory
<1>6. n = [pte |-> [with.pte EXCEPT ![page] = entry], tables |-> with.tables, ram |-> with.ram, got |-> with.got]
  BY <1>3, <1>5 DEF IsMem
<1>7. [with.pte EXCEPT ![page] = entry] \in [Pages -> Entries]
  BY <1>3 DEF IsMem
<1>8. IsMem(n) /\ n.pte = [m.pte EXCEPT ![page] = entry] /\ n.ram = with.ram
  BY <1>3, <1>6, <1>7 DEF IsMem
<1> QED
  BY <1>3, <1>4, <1>8 DEF WithEntry

-----------------------------------------------------------------------------
(* Frames that nobody had go to the pool.                                  *)
LEMMA ExclusivePool ==
  ASSUME NEW P, NEW r, NEW s, Exclusive(P, r), NEW F \in SUBSET (Frames \ r.used),
         s.used = r.used \cup F, s.pool = r.pool \cup F, s.calls = r.calls
  PROVE  /\ Exclusive(P, s)
         /\ \A f \in r.used : Unowned(P, r, f) => Unowned(P, s, f)
<1>1. \A p \in Procs : \A g \in Pages : P[p][g] \in Frames =>
        P[p][g] \in s.used /\ P[p][g] \notin s.pool /\ P[p][g] \notin s.calls
  BY DEF Exclusive
<1>2. s.pool \subseteq s.used /\ s.calls \subseteq s.used /\ s.calls \cap s.pool = {}
  BY DEF Exclusive
<1>3. \A f \in r.used : Unowned(P, r, f) => Unowned(P, s, f)
  BY DEF Unowned
<1> QED
  BY <1>1, <1>2, <1>3 DEF Exclusive

(* A frame whose bit was clear is marked: nobody has it yet.               *)
LEMMA ExclusiveTaken ==
  ASSUME NEW P, NEW r, NEW s, Exclusive(P, r), NEW f, f = NoFrame \/ f \in Frames \ r.used,
         s.used = r.used \cup ({f} \ {NoFrame}), s.pool = r.pool, s.calls = r.calls
  PROVE  /\ Exclusive(P, s)
         /\ f \in Frames => f \in s.used /\ Unowned(P, s, f)
<1>1. Exclusive(P, s)
  BY DEF Exclusive
<1>2. ASSUME f \in Frames PROVE f \in s.used /\ Unowned(P, s, f)
  <2>1. f # NoFrame /\ f \notin r.used
    BY <1>2, NoFrameIsNone
  <2>2. \A p \in Procs : \A g \in Pages : P[p][g] # f
    BY <1>2, <2>1 DEF Exclusive
  <2>3. f \notin r.pool /\ f \notin r.calls
    BY <2>1 DEF Exclusive
  <2> QED
    BY <2>1, <2>2, <2>3 DEF Unowned
<1> QED
  BY <1>1, <1>2

(* An entry is set to a frame nobody has, or to no frame.                  *)
LEMMA ExclusiveEntry ==
  ASSUME NEW P \in [Procs -> [Pages -> Entries]], NEW r, Exclusive(P, r),
         NEW p \in Procs, NEW page, NEW e \in Entries,
         e \in Frames => e \in r.used /\ Unowned(P, r, e)
  PROVE  Exclusive([P EXCEPT ![p] = [P[p] EXCEPT ![page] = e]], r)
<1>1. PICK Q : Q = [P EXCEPT ![p] = [P[p] EXCEPT ![page] = e]]
  OBVIOUS
<1>2. \A q \in Procs : \A g \in Pages : (q # p \/ g # page) => Q[q][g] = P[q][g]
  BY <1>1
<1>3. page \in Pages => Q[p][page] = e
  BY <1>1
<1>4. ASSUME NEW q \in Procs, NEW g \in Pages, Q[q][g] \in Frames
      PROVE  Q[q][g] \in r.used /\ Q[q][g] \notin r.pool /\ Q[q][g] \notin r.calls
  <2>1. CASE q = p /\ g = page
    BY <1>3, <1>4, <2>1 DEF Unowned
  <2>2. CASE q # p \/ g # page
    BY <1>2, <1>4, <2>2 DEF Exclusive
  <2> QED
    BY <2>1, <2>2
<1>5. ASSUME NEW q1 \in Procs, NEW q2 \in Procs, NEW g1 \in Pages, NEW g2 \in Pages,
             Q[q1][g1] \in Frames, Q[q1][g1] = Q[q2][g2]
      PROVE  q1 = q2 /\ g1 = g2
  <2>1. CASE q1 = p /\ g1 = page
    <3>1. Q[q1][g1] = e /\ e \in Frames
      BY <1>3, <1>5, <2>1
    <3>2. P[q2][g2] # e
      BY <3>1 DEF Unowned
    <3> QED
      BY <1>2, <1>5, <2>1, <3>1, <3>2
  <2>2. CASE q2 = p /\ g2 = page
    <3>1. Q[q2][g2] = e /\ e \in Frames
      BY <1>3, <1>5, <2>2
    <3>2. P[q1][g1] # e
      BY <3>1 DEF Unowned
    <3> QED
      BY <1>2, <1>5, <2>2, <3>1, <3>2
  <2>3. CASE ~(q1 = p /\ g1 = page) /\ ~(q2 = p /\ g2 = page)
    <3>1. P[q1][g1] = Q[q1][g1] /\ P[q2][g2] = Q[q2][g2]
      BY <1>2, <2>3
    <3> QED
      BY <1>5, <3>1 DEF Exclusive
  <2> QED
    BY <2>1, <2>2, <2>3
<1>6. Exclusive(Q, r)
  BY <1>4, <1>5 DEF Exclusive
<1> QED
  BY <1>1, <1>6

(* The memory of a process, as the functions see it.                       *)
LEMMA MemIs ==
  ASSUME FrameInv, NEW p \in Procs
  PROVE  IsMem(Mem(p)) /\ Mem(p).pte = pte[p] /\ Mem(p).ram = ram
BY DEF FrameInv, Mem, IsMem

(* A page gets a frame: TakeFrame, then AddPageToPageDirectory.            *)
LEMMA MapFrame ==
  ASSUME FrameInv, NEW p \in Procs, NEW page, UNCHANGED <<pick, raced>>,
         LET t == TakeFrame(Mem(p)) IN SetMem(p, AddPageToPageDirectory(t, page, t.got))
  PROVE  FrameInv'
<1>1. PICK t : t = TakeFrame(Mem(p))
  OBVIOUS
<1>2. /\ IsMem(t) /\ t.pte = pte[p]
      /\ t.got = NoFrame \/ t.got \in Frames \ ram.used
      /\ t.ram.pool = ram.pool /\ t.ram.calls = ram.calls
      /\ t.ram.used = ram.used \cup ({t.got} \ {NoFrame})
  BY <1>1, MemIs, TakeFrameIs
<1>3. PICK e \in Entries : e = t.got
  BY <1>2 DEF Entries
<1>4. PICK n : n = AddPageToPageDirectory(t, page, e)
  OBVIOUS
<1>5. WithEntry(n, t, page, e)
  BY <1>2, <1>4, AddPageIs
<1>6. /\ IsMem(n) /\ n.pte = [t.pte EXCEPT ![page] = e]
      /\ \E F \in SUBSET (Frames \ t.ram.used) :
           /\ n.ram.used = t.ram.used \cup F /\ n.ram.pool = t.ram.pool \cup F
           /\ n.ram.calls = t.ram.calls
  BY <1>5 DEF WithEntry
<1>7. pte' = [pte EXCEPT ![p] = n.pte] /\ ram' = n.ram
  BY <1>1, <1>3, <1>4 DEF SetMem
<1>8. pte' \in [Procs -> [Pages -> Entries]] /\ ram' \in Rams
  BY <1>6, <1>7 DEF FrameInv, IsMem
<1>9. ASSUME ~raced PROVE Exclusive(pte', ram')
  <2>1. Exclusive(pte, ram)
    BY <1>9 DEF FrameInv
  <2>2. Exclusive(pte, t.ram) /\ (e \in Frames => e \in t.ram.used /\ Unowned(pte, t.ram, e))
    BY <1>2, <1>3, <2>1, ExclusiveTaken
  <2>3. Exclusive(pte, n.ram) /\ (e \in Frames => e \in n.ram.used /\ Unowned(pte, n.ram, e))
    BY <1>6, <2>2, ExclusivePool
  <2>4. pte \in [Procs -> [Pages -> Entries]]
    BY DEF FrameInv
  <2>5. Exclusive([pte EXCEPT ![p] = [pte[p] EXCEPT ![page] = e]], n.ram)
    BY <2>3, <2>4, ExclusiveEntry
  <2> QED
    BY <1>2, <1>6, <1>7, <2>5
<1>10. pick' \in Frames \cup {Null, NoFrame}
  BY DEF FrameInv
<1> QED
  BY <1>8, <1>9, <1>10 DEF FrameInv, Frames, Pages, Procs, Entries, Rams, Exclusive, Empty, Null, NoFrame

(* A page gets an entry that is not present.                               *)
LEMMA MapEmpty ==
  ASSUME FrameInv, NEW p \in Procs, NEW page, UNCHANGED <<pick, raced>>,
         SetMem(p, AddPageToPageDirectory(Mem(p), page, Empty))
  PROVE  FrameInv'
<1>1. PICK t : t = Mem(p)
  OBVIOUS
<1>2. IsMem(t) /\ t.pte = pte[p] /\ t.ram = ram
  BY <1>1, MemIs
<1>3. PICK e \in Entries : e = Empty
  BY DEF Entries
<1>4. PICK n : n = AddPageToPageDirectory(t, page, e)
  OBVIOUS
<1>5. WithEntry(n, t, page, e)
  BY <1>2, <1>4, AddPageIs
<1>6. /\ IsMem(n) /\ n.pte = [t.pte EXCEPT ![page] = e]
      /\ \E F \in SUBSET (Frames \ t.ram.used) :
           /\ n.ram.used = t.ram.used \cup F /\ n.ram.pool = t.ram.pool \cup F
           /\ n.ram.calls = t.ram.calls
  BY <1>5 DEF WithEntry
<1>7. pte' = [pte EXCEPT ![p] = n.pte] /\ ram' = n.ram
  BY <1>1, <1>3, <1>4 DEF SetMem
<1>8. pte' \in [Procs -> [Pages -> Entries]] /\ ram' \in Rams
  BY <1>6, <1>7 DEF FrameInv, IsMem
<1>9. ASSUME ~raced PROVE Exclusive(pte', ram')
  <2>1. Exclusive(pte, t.ram) /\ e \notin Frames
    BY <1>2, <1>3, <1>9, NoFrameIsNone DEF FrameInv
  <2>2. Exclusive(pte, n.ram)
    BY <1>6, <2>1, ExclusivePool
  <2>3. pte \in [Procs -> [Pages -> Entries]]
    BY DEF FrameInv
  <2>4. Exclusive([pte EXCEPT ![p] = [pte[p] EXCEPT ![page] = e]], n.ram)
    BY <2>1, <2>2, <2>3, ExclusiveEntry
  <2> QED
    BY <1>2, <1>6, <1>7, <2>4
<1>10. pick' \in Frames \cup {Null, NoFrame}
  BY DEF FrameInv
<1> QED
  BY <1>8, <1>9, <1>10 DEF FrameInv, Frames, Pages, Procs, Entries, Rams, Exclusive, Empty, Null, NoFrame

(* A process gets a page directory and a stack in the kernel.              *)
LEMMA CreateFrames ==
  ASSUME FrameInv, NEW p \in Procs, CreateProcess(p)
  PROVE  FrameInv'
<1>1. PICK m : m = Mem(p)
  OBVIOUS
<1>2. IsMem(m) /\ m.pte = pte[p] /\ m.ram = ram
  BY <1>1, MemIs
<1>3. PICK a : a = PageAlloc(m)
  OBVIOUS
<1>4. /\ IsMem(a) /\ a.pte = m.pte
      /\ \E F \in SUBSET (Frames \ m.ram.used) :
           /\ a.ram.used = m.ram.used \cup F /\ a.ram.pool = m.ram.pool \cup F
           /\ a.ram.calls = m.ram.calls
  BY <1>2, <1>3, PageAllocIs
<1>5. PICK b : b = PageAlloc(a)
  OBVIOUS
<1>6. /\ IsMem(b) /\ b.pte = a.pte
      /\ \E F \in SUBSET (Frames \ a.ram.used) :
           /\ b.ram.used = a.ram.used \cup F /\ b.ram.pool = a.ram.pool \cup F
           /\ b.ram.calls = a.ram.calls
  BY <1>4, <1>5, PageAllocIs
<1>7. pte' = [pte EXCEPT ![p] = b.pte] /\ ram' = b.ram /\ pick' = pick /\ raced' = raced
  BY <1>1, <1>3, <1>5 DEF CreateProcess, CreateProcessPageDirectory, InitUserThread, SetMem, poolVars
<1>8. pte' = pte /\ ram' \in Rams
  BY <1>2, <1>4, <1>6, <1>7 DEF FrameInv, IsMem
<1>9. ASSUME ~raced PROVE Exclusive(pte, ram')
  <2>1. Exclusive(pte, m.ram)
    BY <1>2, <1>9 DEF FrameInv
  <2>2. Exclusive(pte, a.ram)
    BY <1>4, <2>1, ExclusivePool
  <2>3. Exclusive(pte, b.ram)
    BY <1>6, <2>2, ExclusivePool
  <2> QED
    BY <1>7, <2>3
<1> QED
  BY <1>7, <1>8, <1>9 DEF FrameInv, Frames, Pages, Procs, Entries, Rams, Exclusive, Empty, Null, NoFrame

(* What leaves frames and entries alone.                                   *)
LEMMA SameFrames ==
  ASSUME FrameInv, UNCHANGED <<pte, ram, pick, raced>>
  PROVE  FrameInv'
BY DEF FrameInv, Frames, Pages, Procs, Entries, Rams, Exclusive, Empty, Null, NoFrame

(* The system calls: a frame that was marked meanwhile is a race.          *)
LEMMA PoolFrames ==
  ASSUME FrameInv, PoolFind \/ PoolMark \/ \E f \in ram.calls : ReleasePage(f)
  PROVE  FrameInv'
<1>1. CASE PoolFind
  <2>1. pick' = NoFrame \/ pick' \in Frames
    BY <1>1, FreePageIs DEF PoolFind
  <2>2. pte' = pte /\ ram' = ram /\ raced' = raced
    BY <1>1 DEF PoolFind
  <2> QED
    BY <2>1, <2>2 DEF FrameInv, Frames, Pages, Procs, Entries, Rams, Exclusive, Empty, Null, NoFrame
<1>2. CASE PoolMark
  <2>1. PICK F : F = {pick} \ {NoFrame}
    OBVIOUS
  <2>2. F \subseteq Frames
    BY <1>2, <2>1 DEF FrameInv, PoolMark
  <2>3. /\ pte' = pte /\ pick' = Null /\ raced' = (raced \/ pick \in ram.used)
        /\ ram' = [used |-> ram.used \cup F, pool |-> ram.pool, calls |-> ram.calls \cup F]
    BY <1>2, <2>1 DEF PoolMark, bootVars, MarkUsed, FrameInv, Rams
  <2>4. ram' \in Rams
    BY <2>2, <2>3 DEF FrameInv, Rams
  <2>5. ASSUME ~raced' PROVE Exclusive(pte, ram')
    <3>1. Exclusive(pte, ram) /\ F \cap ram.used = {}
      BY <2>1, <2>3, <2>5 DEF FrameInv
    <3> QED
      BY <2>3, <3>1 DEF Exclusive
  <2> QED
    BY <2>3, <2>4, <2>5 DEF FrameInv, Frames, Pages, Procs, Entries, Rams, Exclusive, Empty, Null, NoFrame
<1>3. ASSUME NEW f \in ram.calls, ReleasePage(f) PROVE FrameInv'
  <2>1. /\ pte' = pte /\ pick' = pick /\ raced' = raced
        /\ ram' = [used |-> ram.used \ {f}, pool |-> ram.pool, calls |-> ram.calls \ {f}]
    BY <1>3 DEF ReleasePage, bootVars, FrameInv, Rams
  <2>2. ram' \in Rams
    BY <2>1 DEF FrameInv, Rams
  <2>3. ASSUME ~raced PROVE Exclusive(pte, ram')
    BY <2>1, <2>3 DEF FrameInv, Exclusive
  <2> QED
    BY <2>1, <2>2, <2>3 DEF FrameInv, Frames, Pages, Procs, Entries, Rams, Exclusive, Empty, Null, NoFrame
<1> QED
  BY <1>1, <1>2, <1>3

(* The invariant of the frames, for any images, frames and operations.     *)
THEOREM FramesInvariant == SpaceSpec => []FrameInv
<1>1. SpaceInit => FrameInv
  BY NoFrameIsNone DEF SpaceInit, FrameInv, Entries, Rams, Exclusive
<1>2. FrameInv /\ [SpaceNext]_spaceVars => FrameInv'
  <2> SUFFICES ASSUME FrameInv, [SpaceNext]_spaceVars PROVE FrameInv'
    OBVIOUS
  <2>1. ASSUME NEW p \in Procs,
               CreateProcess(p) \/ ReservePages(p) \/ MapSection(p) \/ CopySection(p)
               \/ CreateDefaultHeap(p) \/ CreateDefaultStack(p) \/ EndLoad(p)
        PROVE  FrameInv'
    <3>1. CASE CreateProcess(p)
      BY <3>1, CreateFrames
    <3>2. CASE ReservePages(p)
      <4>1. UNCHANGED <<pick, raced>>
        BY <3>2 DEF ReservePages, poolVars
      <4>2. CASE ~(walk.addr < vads[p][walk.vad].limit)
        BY <3>2, <4>1, <4>2, SameFrames DEF ReservePages
      <4>3. CASE walk.addr < vads[p][walk.vad].limit /\ walk.physical
        <5>1. LET t == TakeFrame(Mem(p)) IN SetMem(p, AddPageToPageDirectory(t, PageOf(walk.addr), t.got))
          BY <3>2, <4>3 DEF ReservePages
        <5> QED
          BY <4>1, <5>1, MapFrame
      <4>4. CASE walk.addr < vads[p][walk.vad].limit /\ ~walk.physical
        <5>1. SetMem(p, AddPageToPageDirectory(Mem(p), PageOf(walk.addr), Empty))
          BY <3>2, <4>4 DEF ReservePages
        <5> QED
          BY <4>1, <5>1, MapEmpty
      <4> QED
        BY <4>2, <4>3, <4>4
    <3>3. CASE MapSection(p) \/ CopySection(p) \/ CreateDefaultHeap(p) \/ CreateDefaultStack(p) \/ EndLoad(p)
      <4>1. UNCHANGED <<pte, ram, pick, raced>>
        BY <3>3 DEF MapSection, CopySection, CreateDefaultHeap, CreateDefaultStack, EndLoad, poolVars
      <4> QED
        BY <4>1, SameFrames
    <3> QED
      BY <2>1, <3>1, <3>2, <3>3
  <2>2. ASSUME NEW p \in Procs, NEW n, IncreaseHeap(p, n) PROVE FrameInv'
    BY <2>2, SameFrames DEF IncreaseHeap
  <2>3. ASSUME NEW p \in Procs, NEW a, ResolvePageFault(p, a) PROVE FrameInv'
    <3>1. UNCHANGED <<pick, raced>>
      BY <2>3 DEF ResolvePageFault
    <3>2. \/ UNCHANGED <<pte, tables, ram>>
          \/ LET t == TakeFrame(Mem(p)) IN SetMem(p, AddPageToPageDirectory(t, PageOf(a), t.got))
      BY <2>3 DEF ResolvePageFault
    <3> QED
      BY <3>1, <3>2, SameFrames, MapFrame
  <2>4. CASE PoolFind \/ PoolMark \/ \E f \in ram.calls : ReleasePage(f)
    BY <2>4, PoolFrames
  <2>5. CASE UNCHANGED spaceVars
    BY <2>5, SameFrames DEF spaceVars
  <2> QED
    BY <2>1, <2>2, <2>3, <2>4, <2>5 DEF SpaceNext, Boot
<1> QED
  BY <1>1, <1>2, PTL DEF SpaceSpec

(* A frame has one owner, a page of one process, the page pool or a system *)
(* call, and its bit is set, until a frame is chosen while a system call   *)
(* is about to mark it: GetFreePage and its callers hand out no frame      *)
(* twice, whatever the images, and also when frames run out.               *)
THEOREM FramesAreExclusive == SpaceSpec => []FramesExclusive
<1>1. FrameInv => FramesExclusive
  BY DEF FrameInv, Exclusive, FramesExclusive
<1> QED
  BY <1>1, FramesInvariant, PTL

-----------------------------------------------------------------------------
(* The invariant of the regions.  For any image:                           *)

Regions == [base : 0 .. Limit, limit : 0 .. Limit, size : 0 .. Limit, free : BOOLEAN, next : Nat]

(* The list ends: along it, a rank descends to the one of null.            *)
Ranks(r, vs) ==
  /\ r[Null] = 0
  /\ \A i \in 1 .. Len(vs) : r[vs[i].next] < r[i]
Ranked(vs) == \E K \in Nat : \E r \in [0 .. Len(vs) -> 0 .. K] : Ranks(r, vs)

RegionsOK(vs) ==
  /\ vs \in Seq(Regions)
  /\ \A i \in 1 .. Len(vs) :
       /\ vs[i].limit = (vs[i].base + vs[i].size) % AddressMod
       /\ vs[i].next \in 0 .. Len(vs)
  /\ Ranked(vs)

Stages == {"none", "map", "copy", "heap", "stack", "ready"}
Walking == {"copy", "heap", "stack"}

(* The modules are loaded one after the other, and each region in use is   *)
(* one of the list.                                                        *)
LoadInv ==
  /\ stage \in [Procs -> Stages]
  /\ \A p \in Procs : stage[p] # "none" => \A q \in 1 .. p - 1 : stage[q] = "ready"
  /\ vads \in [Procs -> Seq(Regions)] /\ \A p \in Procs : RegionsOK(vads[p])
  /\ \A p \in Procs : stage[p] # "none" => Len(vads[p]) >= 1
  /\ heap \in [Procs -> [vad : Nat, limit : 0 .. Limit]]
  /\ \A p \in Procs : heap[p].vad <= Len(vads[p])
  /\ \A p \in Procs : stage[p] = "none" => heap[p].vad = Null
  /\ walk \in [vad : Nat, addr : 0 .. Limit, physical : BOOLEAN, done : BOOLEAN]
  /\ \A p \in Procs : stage[p] \in Walking => walk.vad \in 1 .. Len(vads[p])
  /\ sect \in [Procs -> Nat \ {0}]
  /\ image \in [Procs -> Seq([vaddr : 0 .. Limit, size : 0 .. Limit])]
  /\ stack \in [Procs -> 0 .. Limit]
  /\ content \in [Procs -> SUBSET (Pages \X Entries)]
  /\ halted \in BOOLEAN /\ raced \in BOOLEAN

(* What a system call has, or is about to take, is no frame of the pool;   *)
(* what it is about to take is the first free one, or no longer free.      *)
PoolOK(r, pk) ==
  /\ r.pool \subseteq r.used /\ r.calls \subseteq r.used
  /\ r.calls \cap r.pool = {} /\ pk \notin r.pool
  /\ pk \in Frames \ r.used => \A f \in Frames \ r.used : pk <= f

PoolInv ==
  /\ PoolOK(ram, pick)
  /\ pick # Null => \A p \in Procs : stage[p] = "ready"

-----------------------------------------------------------------------------
(* For a well placed image: the regions stand in the list, and in the      *)
(* address space, in the order of their creation.                          *)
Tiled(vs) ==
  /\ Len(vs) >= 1 /\ vs[1].base = Base /\ vs[Len(vs)].limit = Limit
  /\ \A i \in 1 .. Len(vs) :
       /\ vs[i].limit = vs[i].base + vs[i].size
       /\ vs[i].next = IF i = Len(vs) THEN Null ELSE i + 1
  /\ \A i \in 1 .. Len(vs) - 1 : vs[i].limit = vs[i + 1].base

SecEnd(s, k) == IF k = 0 THEN Base ELSE End(s[k])

(* The sections of which nothing is mapped begin with this one.            *)
NextSect(st, k) == IF st = "copy" THEN k + 1 ELSE k

(* What is allocated next goes behind all the rest, to the last region,    *)
(* which has room for it.                                                  *)
LastOK(s, st, k, vs) ==
  LET n == Len(vs)
  IN /\ vs[n].free
     /\ st \in {"map", "copy"} => /\ NextSect(st, k) \in 1 .. Len(s) + 1
                                  /\ vs[n].base = SecEnd(s, NextSect(st, k) - 1)
     /\ st = "map" /\ k = 1 => n = 1
     /\ st \notin {"map", "copy"} => k = Len(s) + 1
     /\ st = "heap" => vs[n].base + (NbPages(StackSize) + 1) * PageSize <= Limit

(* The gaps before it are too small.                                       *)
GapsSmall(s, st, k, vs, w) ==
  \A j \in 1 .. Len(vs) - 1 :
    vs[j].free =>
      \/ st \in Walking /\ j = w.vad /\ ~w.done
      \/ /\ vs[j].size < HeapSize /\ vs[j].size < StackSize
         /\ j > 1 => \A i \in NextSect(st, k) .. Len(s) : vs[j].size < s[i].size

(* ReservePages walks over the region before the last.                     *)
WalkOK(s, st, k, vs, w) ==
  st \in Walking =>
    /\ Len(vs) > 1 /\ w.vad = Len(vs) - 1
    /\ w.done => ~vs[w.vad].free
    /\ ~w.done => /\ vs[w.vad].base <= w.addr
                  /\ \E m \in Nat : vs[w.vad].limit = w.addr + m * PageSize
    /\ st = "copy" => vs[w.vad].base = s[k].vaddr /\ vs[w.vad].limit = End(s[k])
    /\ st = "stack" => vs[w.vad].limit >= vs[w.vad].base + StackSize

Reserved(vs, from, to) ==
  \E j \in 1 .. Len(vs) - 1 : vs[j].base = from /\ vs[j].limit >= to /\ ~vs[j].free

(* Sections, heap and stack have a region that is reserved.                *)
UsableOK(s, st, k, vs, hp, stk) ==
  /\ \A i \in 1 .. k - 1 : i <= Len(s) => Reserved(vs, s[i].vaddr, End(s[i]))
  /\ st \in {"stack", "ready"} => /\ hp.vad \in 1 .. Len(vs) - 1
                                  /\ ~vs[hp.vad].free /\ hp.limit <= vs[hp.vad].limit
  /\ stk # Null => Reserved(vs, stk, stk + StackSize)

PlacedOK(s, st, k, vs, hp, stk, w) ==
  /\ Tiled(vs) /\ LastOK(s, st, k, vs) /\ GapsSmall(s, st, k, vs, w)
  /\ WalkOK(s, st, k, vs, w) /\ UsableOK(s, st, k, vs, hp, stk)

(* The pages with content are below what is reserved next.                 *)
ContentOK(st, vs, c, P) ==
  /\ \A x \in c : x[2] # Empty /\ P[x[1]] = x[2]
  /\ st = "none" => c = {}
  /\ st = "map" => \A x \in c : x[1] < PageOf(vs[Len(vs)].base)
  /\ st \in Walking => \A x \in c : x[1] < PageOf(vs[Len(vs) - 1].base)

ProcOK(img, st, k, vs, hp, stk, w, c, P) ==
  /\ st # "none" => PlacedOK(Mapped(img), st, k, vs, hp, stk, w)
  /\ st = "none" => k = 1 /\ stk = Null
  /\ ContentOK(st, vs, c, P)

PlaceInv ==
  \A p \in Procs : WellPlaced(image[p]) =>
    ProcOK(image[p], stage[p], sect[p], vads[p], heap[p], stack[p], walk, content[p], pte[p])

-----------------------------------------------------------------------------
(* The list of the regions, followed from one of them to the first of S.   *)
IsFrom(f, N, n, S) == f = [i \in 0 .. n |-> IF i = 0 \/ i \in S THEN i ELSE f[N[i]]]
Descends(r, K, N, n) ==
  /\ n \in Nat /\ K \in Nat /\ N \in [1 .. n -> 0 .. n] /\ r \in [0 .. n -> 0 .. K]
  /\ r[0] = 0 /\ \A i \in 1 .. n : r[N[i]] < r[i]
Nexts(vs) == [i \in 1 .. Len(vs) |-> vs[i].next]

(* Where the list ends, following it is defined.                           *)
LEMMA FromExists ==
  ASSUME NEW n, NEW N, NEW S, NEW K, NEW r, Descends(r, K, N, n)
  PROVE  \E f \in [0 .. n -> 0 .. n] : /\ IsFrom(f, N, n, S)
                                       /\ \A i \in 0 .. n : f[i] \in S \cup {0}
<1> USE DEF Descends
<1> DEFINE Val(f, i) == IF i = 0 \/ i \in S THEN i ELSE f[N[i]]
           Good(f, m) == \A i \in 0 .. n : r[i] < m => f[i] = Val(f, i) /\ f[i] \in S \cup {0}
           T == {m \in Nat : ~\E f \in [0 .. n -> 0 .. n] : Good(f, m)}
<1>1. T = {}
  <2> SUFFICES ASSUME T # {} PROVE FALSE
    OBVIOUS
  <2>0. T \subseteq Nat
    OBVIOUS
  <2>1. PICK m \in T : \A l \in T : m <= l
    <3> HIDE DEF T
    <3> QED
      BY <2>0, LeastFrame
  <2>2. CASE m = 0
    <3>1. [i \in 0 .. n |-> 0] \in [0 .. n -> 0 .. n]
      OBVIOUS
    <3>2. Good([i \in 0 .. n |-> 0], 0)
      OBVIOUS
    <3> QED
      BY <2>1, <2>2, <3>1, <3>2
  <2>3. CASE m # 0
    <3>1. m \in Nat /\ m - 1 \in Nat /\ ~(m <= m - 1)
      BY <2>1, <2>3
    <3>2. PICK f \in [0 .. n -> 0 .. n] : Good(f, m - 1)
      BY <2>1, <3>1
    <3> DEFINE g == [i \in 0 .. n |-> IF r[i] < m - 1 THEN f[i] ELSE IF i = 0 \/ i \in S THEN i ELSE f[N[i]]]
    <3>3. g \in [0 .. n -> 0 .. n]
      OBVIOUS
    <3>4. ASSUME NEW i \in 0 .. n, r[i] < m PROVE g[i] = Val(g, i) /\ g[i] \in S \cup {0}
      <4>1. CASE i = 0 \/ i \in S
        BY <3>2, <4>1
      <4>2. CASE ~(i = 0 \/ i \in S)
        <5>1. i \in 1 .. n /\ N[i] \in 0 .. n
          BY <4>2
        <5>2. r[N[i]] < r[i] /\ r[N[i]] \in Nat /\ r[i] \in Nat
          BY <5>1
        <5>3. r[N[i]] < m - 1
          <6>1. PICK a, b \in Nat : a = r[N[i]] /\ b = r[i]
            BY <5>2
          <6>2. a < b /\ b < m
            BY <3>4, <5>2, <6>1
          <6>3. a < m - 1
            BY <3>1, <6>2
          <6> QED
            BY <6>1, <6>3
        <5>4. g[N[i]] = f[N[i]] /\ f[N[i]] \in S \cup {0}
          BY <3>2, <5>1, <5>3
        <5>5. g[i] = f[N[i]]
          BY <3>2, <4>2
        <5> QED
          BY <4>2, <5>4, <5>5
      <4> QED
        BY <4>1, <4>2
    <3>5. Good(g, m)
      <4> HIDE DEF g, Val
      <4> QED
        BY <3>4
    <3> QED
      BY <2>1, <3>3, <3>5
  <2> QED
    BY <2>2, <2>3
<1>2. K + 1 \in Nat /\ \A i \in 0 .. n : r[i] < K + 1
  OBVIOUS
<1>3. PICK f \in [0 .. n -> 0 .. n] : Good(f, K + 1)
  BY <1>1, <1>2
<1>4. \A i \in 0 .. n : f[i] = Val(f, i) /\ f[i] \in S \cup {0}
  <2> HIDE DEF Val
  <2> QED
    BY <1>2, <1>3
<1>5. IsFrom(f, N, n, S)
  <2>1. f = [i \in 0 .. n |-> f[i]]
    OBVIOUS
  <2> QED
    BY <1>4, <2>1 DEF IsFrom
<1> QED
  BY <1>4, <1>5

(* Following the list from region i: there is one answer.                  *)
From(N, n, S) == CHOOSE f : IsFrom(f, N, n, S)

(* Following the list ends at a region of S, or at null.                   *)
LEMMA FromIs ==
  ASSUME NEW n, NEW N, NEW S, NEW K, NEW r, Descends(r, K, N, n)
  PROVE  /\ From(N, n, S)[0] = 0
         /\ \A i \in 1 .. n : /\ i \in S => From(N, n, S)[i] = i
                              /\ i \notin S => From(N, n, S)[i] = From(N, n, S)[N[i]]
         /\ \A i \in 0 .. n : From(N, n, S)[i] \in (S \cup {0}) \cap (0 .. n)
<1>1. PICK g \in [0 .. n -> 0 .. n] : IsFrom(g, N, n, S) /\ \A i \in 0 .. n : g[i] \in S \cup {0}
  BY FromExists
<1> USE DEF Descends
<1>2. PICK f : f = From(N, n, S)
  OBVIOUS
<1>3. IsFrom(f, N, n, S)
  BY <1>1, <1>2 DEF From
<1>4. f[0] = 0 /\ \A i \in 1 .. n : f[i] = IF i \in S THEN i ELSE f[N[i]]
  <2>1. \A i \in 0 .. n : f[i] = IF i = 0 \/ i \in S THEN i ELSE f[N[i]]
    <3>1. f = [i \in 0 .. n |-> IF i = 0 \/ i \in S THEN i ELSE f[N[i]]]
      BY <1>3 DEF IsFrom
    <3> QED
      BY <3>1, Zenon
  <2>2. 0 \in 0 .. n /\ \A i \in 1 .. n : i \in 0 .. n /\ i # 0
    OBVIOUS
  <2> QED
    BY <2>1, <2>2
<1>5. g[0] = 0 /\ \A i \in 1 .. n : g[i] = IF i \in S THEN i ELSE g[N[i]]
  BY <1>1 DEF IsFrom
<1> DEFINE T == {m \in Nat : \E i \in 0 .. n : r[i] = m /\ f[i] # g[i]}
<1>6. T = {}
  <2> SUFFICES ASSUME T # {} PROVE FALSE
    OBVIOUS
  <2>0. T \subseteq Nat
    OBVIOUS
  <2>1. PICK m \in T : \A l \in T : m <= l
    <3> HIDE DEF T
    <3> QED
      BY <2>0, LeastFrame
  <2>2. PICK i \in 0 .. n : r[i] = m /\ f[i] # g[i]
    BY <2>1
  <2>3. i \in 1 .. n /\ i \notin S
    <3>1. i # 0
      BY <1>4, <1>5, <2>2
    <3>2. i \in 1 .. n
      BY <3>1
    <3> QED
      BY <1>4, <1>5, <2>2, <3>2
  <2>4. r[N[i]] < m /\ r[N[i]] \in Nat /\ N[i] \in 0 .. n /\ m \in Nat
    BY <2>0, <2>1, <2>2, <2>3
  <2>5. f[N[i]] = g[N[i]]
    <3>1. ~(m <= r[N[i]])
      <4>1. PICK a, b \in Nat : a = r[N[i]] /\ b = m
        BY <2>4
      <4>2. a < b
        BY <2>4, <4>1
      <4>3. ~(b <= a)
        BY <4>2
      <4> QED
        BY <4>1, <4>3
    <3>2. r[N[i]] \notin T
      BY <2>1, <3>1
    <3> QED
      BY <2>4, <3>2
  <2> QED
    BY <1>4, <1>5, <2>2, <2>3, <2>5
<1>7. \A i \in 0 .. n : f[i] = g[i]
  <2> TAKE i \in 0 .. n
  <2>1. r[i] \in Nat
    OBVIOUS
  <2> QED
    BY <1>6, <2>1
<1>8. \A i \in 0 .. n : f[i] \in (S \cup {0}) \cap (0 .. n)
  BY <1>1, <1>7
<1> QED
  BY <1>2, <1>4, <1>8

(* First is where it leads from baseVad.                                   *)
LEMMA FirstFrom ==
  ASSUME NEW vs, vs \in Seq(Regions), NEW S
  PROVE  First(vs, S) = From(Nexts(vs), Len(vs), S)[1]
<1>1. \A f : IsFrom(f, Nexts(vs), Len(vs), S) <=>
             f = [i \in 0 .. Len(vs) |-> IF i = 0 \/ i \in S THEN i ELSE f[vs[i].next]]
  <2> TAKE f
  <2>0. Len(vs) \in Nat
    OBVIOUS
  <2>1. \A i \in 0 .. Len(vs) : i # 0 => i \in 1 .. Len(vs) /\ Nexts(vs)[i] = vs[i].next
    BY <2>0 DEF Nexts
  <2>2. [i \in 0 .. Len(vs) |-> IF i = 0 \/ i \in S THEN i ELSE f[vs[i].next]]
        = [i \in 0 .. Len(vs) |-> IF i = 0 \/ i \in S THEN i ELSE f[Nexts(vs)[i]]]
    BY <2>1
  <2> QED
    BY <2>2 DEF IsFrom
<1>2. (CHOOSE f : IsFrom(f, Nexts(vs), Len(vs), S))
      = CHOOSE f : f = [i \in 0 .. Len(vs) |-> IF i = 0 \/ i \in S THEN i ELSE f[vs[i].next]]
  BY <1>1
<1> QED
  BY <1>2 DEF First, From, Null

(* The list of a process ends.                                             *)
LEMMA RankedDescends ==
  ASSUME NEW vs, RegionsOK(vs)
  PROVE  \E K, r : Descends(r, K, Nexts(vs), Len(vs))
<1>1. PICK K \in Nat : \E r \in [0 .. Len(vs) -> 0 .. K] : Ranks(r, vs)
  BY DEF RegionsOK, Ranked
<1>2. PICK r \in [0 .. Len(vs) -> 0 .. K] : Ranks(r, vs)
  BY <1>1
<1>3. Len(vs) \in Nat
  BY DEF RegionsOK
<1>4. PICK n : n = Len(vs)
  OBVIOUS
<1>5. PICK N : N = Nexts(vs)
  OBVIOUS
<1>6. \A i \in 1 .. n : N[i] = vs[i].next /\ vs[i].next \in 0 .. n
  BY <1>4, <1>5 DEF Nexts, RegionsOK
<1>7. N \in [1 .. n -> 0 .. n]
  BY <1>4, <1>5, <1>6 DEF Nexts
<1>8. r[0] = 0 /\ \A i \in 1 .. n : r[N[i]] < r[i]
  BY <1>2, <1>4, <1>6 DEF Ranks, Null
<1>9. Descends(r, K, N, n)
  BY <1>1, <1>2, <1>3, <1>4, <1>7, <1>8 DEF Descends
<1> QED
  BY <1>4, <1>5, <1>9

(* What First finds is a region of S, or null.                             *)
LEMMA FirstIs ==
  ASSUME NEW vs, RegionsOK(vs), Len(vs) >= 1, NEW S
  PROVE  First(vs, S) \in 0 .. Len(vs) /\ (First(vs, S) = Null \/ First(vs, S) \in S)
<1>1. PICK K, r : Descends(r, K, Nexts(vs), Len(vs))
  BY RankedDescends
<1>2. \A i \in 0 .. Len(vs) : From(Nexts(vs), Len(vs), S)[i] \in (S \cup {0}) \cap (0 .. Len(vs))
  BY <1>1, FromIs
<1>3. 1 \in 0 .. Len(vs)
  BY DEF RegionsOK
<1> QED
  BY <1>2, <1>3, FirstFrom DEF Null, RegionsOK

(* In a tiled space it finds one.                                          *)
LEMMA TiledFirst ==
  ASSUME NEW vs, RegionsOK(vs), Tiled(vs), NEW S, S \subseteq 1 .. Len(vs), S # {}
  PROVE  First(vs, S) \in S
<1>1. PICK K, r : Descends(r, K, Nexts(vs), Len(vs))
  BY RankedDescends
<1>2. PICK n : n = Len(vs)
  OBVIOUS
<1>3. PICK f : f = From(Nexts(vs), Len(vs), S)
  OBVIOUS
<1>4. n \in Nat /\ n >= 1
  BY <1>2 DEF RegionsOK, Tiled
<1>5. /\ \A i \in 1 .. n : /\ i \in S => f[i] = i
                           /\ i \notin S => f[i] = f[Nexts(vs)[i]]
      /\ \A i \in 0 .. n : f[i] \in (S \cup {0}) \cap (0 .. n)
  BY <1>1, <1>2, <1>3, FromIs
<1>6. \A i \in 1 .. n - 1 : Nexts(vs)[i] = i + 1
  BY <1>2, <1>4 DEF Nexts, Tiled
<1>7. PICK s \in 1 .. n : s \in S
  BY <1>2
<1> DEFINE T == {d \in 0 .. s - 1 : f[s - d] = 0}
<1>8. T = {}
  <2> SUFFICES ASSUME T # {} PROVE FALSE
    OBVIOUS
  <2>0. T \subseteq Nat
    OBVIOUS
  <2>1. PICK d \in T : \A l \in T : d <= l
    <3> HIDE DEF T
    <3> QED
      BY <2>0, LeastFrame
  <2>2. d \in 0 .. s - 1 /\ f[s - d] = 0 /\ s - d \in 1 .. n
    BY <1>4, <1>7, <2>1
  <2>3. s - d \notin S
    BY <1>5, <2>2
  <2>4. d # 0
    BY <1>7, <2>3
  <2>5. f[s - d] = f[Nexts(vs)[s - d]]
    BY <1>5, <2>2, <2>3
  <2>6. s - d \in 1 .. n - 1 /\ (s - d) + 1 = s - (d - 1) /\ d - 1 \in 0 .. s - 1 /\ ~(d <= d - 1)
    BY <1>4, <1>7, <2>2, <2>4
  <2>7. f[s - (d - 1)] = 0
    BY <1>6, <2>2, <2>5, <2>6
  <2> QED
    BY <2>1, <2>6, <2>7
<1>9. f[1] # 0
  <2>1. s - 1 \in 0 .. s - 1 /\ s - (s - 1) = 1
    BY <1>4, <1>7
  <2> QED
    BY <1>8, <2>1
<1>10. f[1] \in S
  BY <1>4, <1>5, <1>9
<1> QED
  BY <1>3, <1>10, FirstFrom DEF RegionsOK

(* The list of a tiled space has all its regions, in order.                *)
LEMMA ListedIs ==
  ASSUME NEW vs, vs \in Seq(Regions), Tiled(vs)
  PROVE  Listed(vs) = [k \in 1 .. Len(vs) |-> k]
<1>1. PICK n : n = Len(vs)
  OBVIOUS
<1>2. n \in Nat /\ n >= 1
  BY <1>1 DEF Tiled
<1> DEFINE Above(i) == [k \in 1 .. n - i + 1 |-> i + k - 1]
           Eq(f) == f = [i \in 0 .. n |-> IF i = 0 THEN <<>> ELSE <<i>> \o f[vs[i].next]]
<1>3. \A i \in 1 .. n : vs[i].next = IF i = n THEN 0 ELSE i + 1
  BY <1>1 DEF Tiled, Null
<1>4. <<n>> \o <<>> = Above(n)
  <2>1. n - n + 1 = 1
    BY <1>2
  <2>2. Above(n) = [k \in 1 .. 1 |-> n + k - 1]
    BY <2>1
  <2>3. \A k \in 1 .. 1 : n + k - 1 = n
    BY <1>2
  <2>4. Above(n) = <<n>>
    BY <2>2, <2>3
  <2> QED
    BY <2>4, <1>2
<1>5. ASSUME NEW i \in 1 .. n - 1 PROVE <<i>> \o Above(i + 1) = Above(i)
  <2>1. PICK m \in Nat : m = n - i
    BY <1>2
  <2>2. Above(i + 1) = [k \in 1 .. m |-> i + k]
    <3>1. n - (i + 1) + 1 = m /\ \A k \in 1 .. m : (i + 1) + k - 1 = i + k
      BY <1>2, <2>1
    <3> QED
      BY <3>1
  <2>3. PICK u : u = [k \in 1 .. m |-> i + k]
    OBVIOUS
  <2>4. u \in Seq(Int) /\ Len(u) = m
    BY <2>1, <2>3, <1>2
  <2>5. <<i>> \o u = [k \in 1 .. m + 1 |-> IF k = 1 THEN i ELSE u[k - 1]]
    <3>1. PICK t : t = <<i>>
      OBVIOUS
    <3>2. t \in Seq(Int) /\ Len(t) = 1 /\ t[1] = i
      BY <3>1, <1>2
    <3>3. /\ t \o u \in Seq(Int) /\ Len(t \o u) = 1 + m
          /\ \A k \in 1 .. 1 + m : (t \o u)[k] = IF k <= 1 THEN t[k] ELSE u[k - 1]
      <4>1. /\ t \o u \in Seq(Int) /\ Len(t \o u) = Len(t) + Len(u)
            /\ \A k \in 1 .. Len(t) + Len(u) : (t \o u)[k] = IF k <= Len(t) THEN t[k] ELSE u[k - Len(t)]
        BY <2>4, <3>2, ConcatProperties, Zenon
      <4> QED
        BY <2>4, <3>2, <4>1
    <3>4. PICK w : w = t \o u
      OBVIOUS
    <3>5. \A k \in 1 .. m + 1 : w[k] = IF k = 1 THEN i ELSE u[k - 1]
      BY <2>1, <3>2, <3>3, <3>4
    <3>6. w \in Seq(Int) /\ Len(w) = m + 1
      BY <2>1, <3>3, <3>4
    <3>7. w = [k \in 1 .. m + 1 |-> w[k]]
      BY <3>6
    <3> QED
      BY <3>1, <3>4, <3>5, <3>7
  <2>6. \A k \in 1 .. m + 1 : (IF k = 1 THEN i ELSE u[k - 1]) = i + k - 1
    BY <2>1, <2>3, <1>2
  <2>7. <<i>> \o u = [k \in 1 .. m + 1 |-> i + k - 1]
    BY <2>5, <2>6
  <2>8. n - i + 1 = m + 1
    BY <1>2, <2>1
  <2> QED
    BY <2>2, <2>3, <2>7, <2>8
<1>6. \E f : Eq(f)
  <2> DEFINE g == [i \in 0 .. n |-> IF i = 0 THEN <<>> ELSE Above(i)]
  <2>1. ASSUME NEW i \in 0 .. n, i # 0 PROVE g[i] = <<i>> \o g[vs[i].next]
    <3>1. i \in 1 .. n /\ g[i] = Above(i)
      BY <2>1, <1>2
    <3>2. CASE i = n
      <4>1. vs[i].next = 0 /\ g[0] = <<>>
        BY <1>2, <1>3, <3>1, <3>2
      <4> QED
        BY <1>4, <3>1, <3>2, <4>1
    <3>3. CASE i # n
      <4>1. i \in 1 .. n - 1 /\ i + 1 \in 0 .. n /\ i + 1 # 0
        BY <1>2, <3>1, <3>3
      <4>2. vs[i].next = i + 1 /\ g[i + 1] = Above(i + 1)
        BY <1>3, <3>1, <3>3, <4>1
      <4> QED
        BY <1>5, <3>1, <4>1, <4>2
    <3> QED
      BY <3>2, <3>3
  <2>2. g[0] = <<>>
    BY <1>2
  <2>3. g = [i \in 0 .. n |-> g[i]]
    OBVIOUS
  <2> HIDE DEF g
  <2>4. Eq(g)
    BY <2>1, <2>2, <2>3
  <2> QED
    BY <2>4
<1>7. PICK f : f = CHOOSE h : Eq(h)
  OBVIOUS
<1>8. Eq(f)
  BY <1>6, <1>7
<1>9. f[0] = <<>> /\ \A i \in 1 .. n : f[i] = <<i>> \o f[vs[i].next]
  <2>1. \A i \in 0 .. n : f[i] = IF i = 0 THEN <<>> ELSE <<i>> \o f[vs[i].next]
    BY <1>8, Zenon
  <2>2. 0 \in 0 .. n /\ \A i \in 1 .. n : i \in 0 .. n /\ i # 0
    BY <1>2
  <2> QED
    BY <2>1, <2>2
<1> HIDE DEF Above
<1> DEFINE T == {d \in 0 .. n - 1 : f[n - d] # Above(n - d)}
<1>10. T = {}
  <2> SUFFICES ASSUME T # {} PROVE FALSE
    OBVIOUS
  <2>0. T \subseteq Nat
    OBVIOUS
  <2>1. PICK d \in T : \A l \in T : d <= l
    <3> HIDE DEF T
    <3> QED
      BY <2>0, LeastFrame
  <2>2. d \in 0 .. n - 1 /\ f[n - d] # Above(n - d)
    BY <2>1
  <2>3. CASE d = 0
    <3>1. n - d = n /\ n \in 1 .. n
      BY <1>2, <2>3
    <3>2. f[n] = <<n>> \o <<>>
      BY <1>3, <1>9, <3>1
    <3> QED
      BY <1>4, <2>2, <3>1, <3>2
  <2>4. CASE d # 0
    <3>1. /\ n - d \in 1 .. n - 1 /\ n - d \in 1 .. n /\ (n - d) + 1 = n - (d - 1)
          /\ d - 1 \in 0 .. n - 1 /\ ~(d <= d - 1) /\ n - d # n
      BY <1>2, <2>2, <2>4
    <3>2. PICK i \in 1 .. n - 1 : i = n - d
      BY <3>1
    <3>3. f[i + 1] = Above(i + 1)
      BY <2>1, <3>1, <3>2
    <3>4. f[i] = <<i>> \o f[i + 1]
      BY <1>3, <1>9, <3>1, <3>2
    <3> QED
      BY <1>5, <2>2, <3>2, <3>3, <3>4
  <2> QED
    BY <2>3, <2>4
<1>11. f[1] = Above(1)
  <2>1. n - 1 \in 0 .. n - 1 /\ n - (n - 1) = 1
    BY <1>2
  <2> QED
    BY <1>10, <2>1
<1>12. Above(1) = [k \in 1 .. n |-> k]
  <2>1. n - 1 + 1 = n /\ \A k \in 1 .. n : 1 + k - 1 = k
    BY <1>2
  <2> QED
    BY <2>1 DEF Above
<1>13. Listed(vs) = f[1]
  BY <1>1, <1>7 DEF Listed, Null
<1> QED
  BY <1>1, <1>11, <1>12, <1>13

-----------------------------------------------------------------------------
(* Addresses and sizes are numbers modulo AddressMod.                      *)
LEMMA ConstantsAre ==
  /\ AddressMod \in Nat /\ AddressMod > 0 /\ Limit \in Nat /\ Limit = AddressMod - 1
  /\ PageSize \in Nat /\ PageSize > 0 /\ Base \in 0 .. Limit /\ Base > 0
  /\ HeapSize \in Nat /\ HeapSize > 0 /\ StackSize \in Nat /\ StackSize > 0
BY SpaceAssumption DEF Limit

(* The remainder is the only one.                                          *)
LEMMA ModUnique ==
  ASSUME NEW M \in Nat, M > 0, NEW q \in Int, NEW r \in 0 .. M - 1
  PROVE  (q * M + r) % M = r
<1>1. PICK x \in Int : x = q * M + r
  OBVIOUS
<1>2. PICK d \in Int : d = x \div M
  BY <1>1
<1>3. PICK e \in 0 .. M - 1 : e = x % M
  BY <1>1
<1>4. x = d * M + e
  BY <1>1, <1>2, <1>3
<1>5. (q - d) * M = e - r
  BY <1>1, <1>4
<1>6. q - d = 0
  <2>1. CASE q - d >= 1
    <3>1. (q - d) * M >= M
      BY <2>1
    <3> QED
      BY <1>5, <3>1
  <2>2. CASE q - d <= -1
    <3>1. (q - d) * M <= -M
      BY <2>2
    <3> QED
      BY <1>5, <3>1
  <2> QED
    BY <2>1, <2>2
<1>7. e = r
  BY <1>5, <1>6
<1> QED
  BY <1>1, <1>3, <1>7

(* What the remainders of addresses are.                                   *)
LEMMA ModIs ==
  /\ \A x \in Int : x % AddressMod \in 0 .. Limit
  /\ \A x \in 0 .. Limit : x % AddressMod = x
  /\ \A x, y \in Int : ((x % AddressMod) + y) % AddressMod = (x + y) % AddressMod
<1>1. PICK M \in Nat : M = AddressMod /\ M > 0 /\ Limit = M - 1
  BY ConstantsAre
<1>2. \A x \in Int : x % M \in 0 .. Limit
  BY <1>1
<1>3. ASSUME NEW x \in 0 .. Limit PROVE x % M = x
  <2>1. (0 * M + x) % M = x
    BY <1>1, ModUnique
  <2>2. 0 * M + x = x
    BY <1>1
  <2> QED
    BY <2>1, <2>2
<1>4. ASSUME NEW x \in Int, NEW y \in Int PROVE ((x % M) + y) % M = (x + y) % M
  <2>1. PICK q \in Int, r \in 0 .. M - 1 : x = q * M + r /\ r = x % M
    <3>1. PICK q \in Int : q = x \div M
      BY <1>1
    <3>2. PICK r \in 0 .. M - 1 : r = x % M
      BY <1>1
    <3>3. x = q * M + r
      BY <1>1, <3>1, <3>2
    <3> QED
      BY <3>2, <3>3
  <2>2. PICK z \in Int : z = r + y
    OBVIOUS
  <2>3. PICK k \in Int, e \in 0 .. M - 1 : z = k * M + e /\ e = z % M
    <3>1. PICK k \in Int : k = z \div M
      BY <1>1
    <3>2. PICK e \in 0 .. M - 1 : e = z % M
      BY <1>1
    <3>3. z = k * M + e
      BY <1>1, <3>1, <3>2
    <3> QED
      BY <3>2, <3>3
  <2>4. x + y = (q + k) * M + e
    BY <2>1, <2>2, <2>3
  <2>5. ((q + k) * M + e) % M = e
    BY <1>1, ModUnique
  <2> QED
    BY <2>1, <2>2, <2>3, <2>4, <2>5
<1> QED
  BY <1>1, <1>2, <1>3, <1>4

(* A region gets between one byte and one page more than its size.         *)
LEMMA NbPagesIs ==
  ASSUME NEW size \in Nat
  PROVE  /\ NbPages(size) \in Nat /\ NbPages(size) * PageSize \in Nat
         /\ NbPages(size) * PageSize > size /\ NbPages(size) * PageSize <= size + PageSize
<1>1. PICK P \in Nat : P = PageSize /\ P > 0
  BY ConstantsAre
<1>2. PICK q \in Nat : q = size \div P
  BY <1>1
<1>3. PICK e \in 0 .. P - 1 : e = size % P
  BY <1>1
<1>4. size = q * P + e
  BY <1>1, <1>2, <1>3
<1>5. NbPages(size) = q + 1
  BY <1>1, <1>2 DEF NbPages
<1>6. (q + 1) * P = q * P + P /\ q * P \in Nat
  BY <1>1, <1>2
<1> QED
  BY <1>1, <1>3, <1>4, <1>5, <1>6

-----------------------------------------------------------------------------
(* What Vad::Create makes.                                                 *)
LEMMA VadIs ==
  ASSUME NEW b \in Int, NEW sz \in Int
  PROVE  /\ Vad(b, sz) = [base |-> b % AddressMod, limit |-> (b + sz) % AddressMod,
                          size |-> sz % AddressMod, free |-> TRUE, next |-> 0]
         /\ Vad(b, sz) \in Regions
         /\ Vad(b, sz).limit = (Vad(b, sz).base + Vad(b, sz).size) % AddressMod
<1>0. b + sz \in Int
  OBVIOUS
<1>1. PICK x, y, z \in 0 .. Limit : x = b % AddressMod /\ y = sz % AddressMod /\ z = (b + sz) % AddressMod
  BY <1>0, ModIs, Zenon
<1>2. Vad(b, sz) = [base |-> x, limit |-> z, size |-> y, free |-> TRUE, next |-> 0]
  BY <1>1 DEF Vad, Null
<1>3. z = (x + y) % AddressMod
  <2>1. (x + sz) % AddressMod = z
    BY <1>1, ModIs
  <2>2. (y + x) % AddressMod = (sz + x) % AddressMod
    BY <1>1, ModIs
  <2>3. y + x = x + y /\ sz + x = x + sz
    OBVIOUS
  <2> QED
    BY <2>1, <2>2, <2>3
<1> QED
  BY <1>1, <1>2, <1>3 DEF Regions

(* The fields of a region.                                                 *)
LEMMA RegionIs ==
  ASSUME NEW v \in Regions
  PROVE  \E a, b, c \in 0 .. Limit, e \in Nat : \E d :
           /\ v = [base |-> a, limit |-> b, size |-> c, free |-> d, next |-> e]
           /\ v.base = a /\ v.limit = b /\ v.size = c /\ v.free = d /\ v.next = e
<1>1. PICK a, b, c, d, e : a = v.base /\ b = v.limit /\ c = v.size /\ d = v.free /\ e = v.next
  OBVIOUS
<1>2. a \in 0 .. Limit /\ b \in 0 .. Limit /\ c \in 0 .. Limit /\ d \in BOOLEAN /\ e \in Nat
  BY <1>1 DEF Regions
<1>3. v = [base |-> a, limit |-> b, size |-> c, free |-> d, next |-> e]
  BY <1>1 DEF Regions
<1> QED
  BY <1>1, <1>2, <1>3, Zenon

(* A region is put behind the others, and region i is cut.                 *)
Inserted(ws, vs, i, x, l, z) ==
  LET n == Len(vs)
  IN /\ ws \in Seq(Regions) /\ Len(ws) = n + 1
     /\ \A j \in 1 .. n : j # i => ws[j] = vs[j]
     /\ ws[i] = [base |-> vs[i].base, limit |-> l, size |-> z, free |-> vs[i].free, next |-> n + 1]
     /\ ws[n + 1] = x

(* Both splits put a new region behind region i.                           *)
LEMMA InsertIs ==
  ASSUME NEW vs \in Seq(Regions), NEW i \in 1 .. Len(vs), NEW x \in Regions,
         NEW l \in 0 .. Limit, NEW z \in 0 .. Limit
  PROVE  Inserted([Append(vs, x) EXCEPT ![i].limit = l, ![i].size = z, ![i].next = Len(vs) + 1],
                  vs, i, x, l, z)
<1>2. PICK n \in Nat : n = Len(vs)
  OBVIOUS
<1>3. PICK v : v = vs[i]
  OBVIOUS
<1>4. v \in Regions /\ i \in 1 .. n
  BY <1>2, <1>3
<1>5. PICK a, b, c \in 0 .. Limit, e \in Nat : \E d :
        /\ v = [base |-> a, limit |-> b, size |-> c, free |-> d, next |-> e]
        /\ v.base = a /\ v.limit = b /\ v.size = c /\ v.free = d /\ v.next = e
  BY <1>4, RegionIs, Zenon
<1>6. PICK d :
        /\ v = [base |-> a, limit |-> b, size |-> c, free |-> d, next |-> e]
        /\ v.base = a /\ v.limit = b /\ v.size = c /\ v.free = d /\ v.next = e
  BY <1>5
<1>8. PICK s : s = Append(vs, x)
  OBVIOUS
<1>9. /\ s \in Seq(Regions) /\ Len(s) = n + 1 /\ s[n + 1] = x
      /\ \A j \in 1 .. n : s[j] = vs[j]
  BY <1>2, <1>8
<1>10. PICK y : y = [base |-> a, limit |-> l, size |-> z, free |-> d, next |-> n + 1]
  OBVIOUS
<1>11. y \in Regions
  <2>1. n + 1 \in Nat
    BY <1>2
  <2>2. d \in BOOLEAN
    BY <1>4, <1>6 DEF Regions
  <2> QED
    BY <1>10, <2>1, <2>2 DEF Regions
<1>12. [s EXCEPT ![i].limit = l, ![i].size = z, ![i].next = n + 1] = [s EXCEPT ![i] = y]
  <2>3. i \in DOMAIN s /\ s[i] = v
    BY <1>2, <1>3, <1>4, <1>9
  <2>4. [s EXCEPT ![i].limit = l, ![i].size = z, ![i].next = n + 1]
        = [s EXCEPT ![i] = [v EXCEPT !.limit = l, !.size = z, !.next = n + 1]]
    BY <2>3
  <2>5. [v EXCEPT !.limit = l, !.size = z, !.next = n + 1] = y
    <3>1. PICK m : m = n + 1
      OBVIOUS
    <3>2. PICK w : w = [base |-> a, limit |-> b, size |-> c, free |-> d, next |-> e]
      OBVIOUS
    <3>3. [w EXCEPT !.limit = l, !.size = z, !.next = m]
          = [base |-> a, limit |-> l, size |-> z, free |-> d, next |-> m]
      <4>1. PICK w1 : w1 = [base |-> a, limit |-> l, size |-> c, free |-> d, next |-> e]
        OBVIOUS
      <4>2. [w EXCEPT !.limit = l] = w1
        BY ONLY <3>2, <4>1
      <4>3. PICK w2 : w2 = [base |-> a, limit |-> l, size |-> z, free |-> d, next |-> e]
        OBVIOUS
      <4>4. [w1 EXCEPT !.size = z] = w2
        BY ONLY <4>1, <4>3
      <4>5. [w2 EXCEPT !.next = m] = [base |-> a, limit |-> l, size |-> z, free |-> d, next |-> m]
        BY ONLY <4>3
      <4>6. [w EXCEPT !.limit = l, !.size = z, !.next = m]
            = [[[w EXCEPT !.limit = l] EXCEPT !.size = z] EXCEPT !.next = m]
        OBVIOUS
      <4> QED
        BY <4>2, <4>4, <4>5, <4>6
    <3> QED
      BY <1>6, <1>10, <3>1, <3>2, <3>3
  <2> QED
    BY <2>4, <2>5
<1>13. PICK ws : ws = [s EXCEPT ![i] = y]
  OBVIOUS
<1>14. /\ ws \in Seq(Regions) /\ Len(ws) = n + 1 /\ ws[i] = y /\ ws[n + 1] = x
       /\ \A j \in 1 .. n : j # i => ws[j] = vs[j]
  BY <1>2, <1>4, <1>9, <1>11, <1>13
<1>15. Inserted(ws, vs, i, x, l, z)
  BY <1>2, <1>3, <1>6, <1>10, <1>14 DEF Inserted
<1> QED
  BY <1>2, <1>8, <1>12, <1>13, <1>15

(* A region put behind region i keeps the list one that ends.              *)
LEMMA RankInsert ==
  ASSUME NEW vs, RegionsOK(vs), NEW ws \in Seq(Regions), Len(ws) = Len(vs) + 1, NEW i \in 1 .. Len(vs),
         \A j \in 1 .. Len(vs) : j # i => ws[j].next = vs[j].next,
         ws[i].next = Len(vs) + 1, ws[Len(vs) + 1].next \in {0, vs[i].next}
  PROVE  /\ Ranked(ws)
         /\ \A j \in 1 .. Len(ws) : ws[j].next \in 0 .. Len(ws)
<1>1. PICK n \in Nat : n = Len(vs)
  BY DEF RegionsOK
<1>2. PICK K \in Nat : \E r \in [0 .. n -> 0 .. K] : Ranks(r, vs)
  BY <1>1 DEF RegionsOK, Ranked
<1>3. PICK r \in [0 .. n -> 0 .. K] : Ranks(r, vs)
  BY <1>2
<1>4. r[0] = 0 /\ \A j \in 1 .. n : vs[j].next \in 0 .. n /\ r[vs[j].next] < r[j]
  BY <1>1, <1>3 DEF Ranks, Null, RegionsOK
<1>5. PICK t : t = [j \in 0 .. n + 1 |-> IF j = n + 1 THEN 2 * r[i] - 1 ELSE 2 * r[j]]
  OBVIOUS
<1>6. PICK a \in 1 .. K : a = r[i]
  <2>1. r[vs[i].next] \in Nat /\ r[i] \in 0 .. K /\ r[vs[i].next] < r[i]
    BY <1>1, <1>4
  <2> QED
    BY <2>1
<1>7. t \in [0 .. n + 1 -> 0 .. 2 * K]
  <2>1. 2 * a - 1 \in 0 .. 2 * K /\ \A b \in 0 .. K : 2 * b \in 0 .. 2 * K
    BY ONLY <1>2, <1>6, K \in Nat, a \in 1 .. K, SMTT(40)
  <2>2. \A j \in 0 .. n + 1 : j # n + 1 => j \in 0 .. n /\ r[j] \in 0 .. K
    BY ONLY n \in Nat, r \in [0 .. n -> 0 .. K]
  <2> QED
    BY <1>5, <1>6, <2>1, <2>2
<1>8. t[0] = 0 /\ t[n + 1] = 2 * a - 1 /\ \A j \in 0 .. n : t[j] = 2 * r[j]
  BY <1>4, <1>5, <1>6
<1>9. ASSUME NEW j \in 1 .. n + 1 PROVE ws[j].next \in 0 .. n + 1 /\ t[ws[j].next] < t[j]
  <2>1. CASE j = i
    <3>1. ws[j].next = n + 1 /\ t[j] = 2 * a
      BY <1>1, <1>6, <1>8, <2>1
    <3> QED
      BY <1>6, <1>8, <3>1
  <2>2. CASE j = n + 1 /\ ws[j].next = 0
    <3>1. 0 < 2 * a - 1 /\ 0 \in 0 .. n + 1
      BY <1>1, <1>6
    <3> QED
      BY <1>8, <2>2, <3>1
  <2>3. CASE j = n + 1 /\ ws[j].next = vs[i].next
    <3>1. PICK b \in Nat : b = r[vs[i].next]
      BY <1>1, <1>4
    <3>2. b < a /\ t[vs[i].next] = 2 * b /\ vs[i].next \in 0 .. n
      BY <1>1, <1>4, <1>6, <1>8, <3>1
    <3>3. 2 * b < 2 * a - 1
      BY <1>6, <3>1, <3>2
    <3>4. vs[i].next \in 0 .. n + 1
      BY <1>1, <3>2
    <3> QED
      BY <1>8, <2>3, <3>2, <3>3, <3>4
  <2>4. CASE j \in 1 .. n /\ j # i
    <3>1. ws[j].next = vs[j].next /\ vs[j].next \in 0 .. n
      BY <1>1, <1>4, <2>4
    <3>0. j \in 0 .. n /\ vs[j].next \in 0 .. n + 1
      BY <1>1, <2>4, <3>1
    <3>2. PICK b, c \in Nat : b = r[vs[j].next] /\ c = r[j]
      <4>1. r[vs[j].next] \in 0 .. K /\ r[j] \in 0 .. K
        BY <1>3, <3>0, <3>1
      <4> QED
        BY ONLY <4>1, K \in Nat, SMTT(40)
    <3>3. b < c /\ t[vs[j].next] = 2 * b /\ t[j] = 2 * c
      BY <1>4, <1>8, <2>4, <3>0, <3>1, <3>2
    <3>4. 2 * b < 2 * c
      BY ONLY <3>3, b \in Nat, c \in Nat, SMTT(40)
    <3> QED
      BY <3>0, <3>1, <3>3, <3>4
  <2>5. j = n + 1 => ws[j].next = 0 \/ ws[j].next = vs[i].next
    BY <1>1
  <2>6. j = n + 1 \/ j \in 1 .. n
    BY ONLY n \in Nat, j \in 1 .. n + 1
  <2> QED
    BY <2>1, <2>2, <2>3, <2>4, <2>5, <2>6
<1>10. Ranks(t, ws)
  BY <1>1, <1>8, <1>9 DEF Ranks, Null
<1>11. 2 * K \in Nat
  BY <1>2
<1>12. Ranked(ws)
  BY <1>1, <1>7, <1>10, <1>11 DEF Ranked
<1> QED
  BY <1>1, <1>9, <1>12

(* What is inserted keeps the regions what they are.                       *)
LEMMA InsertOK ==
  ASSUME NEW vs, RegionsOK(vs), NEW i \in 1 .. Len(vs), NEW x \in Regions,
         NEW l, NEW z, NEW ws, Inserted(ws, vs, i, x, l, z),
         l = (vs[i].base + z) % AddressMod, x.limit = (x.base + x.size) % AddressMod,
         x.next = 0 \/ x.next = vs[i].next
  PROVE  RegionsOK(ws)
<1>1. PICK n \in Nat : n = Len(vs)
  BY DEF RegionsOK
<1>2. /\ ws \in Seq(Regions) /\ Len(ws) = n + 1 /\ ws[n + 1] = x
      /\ \A j \in 1 .. n : j # i => ws[j] = vs[j]
      /\ ws[i] = [base |-> vs[i].base, limit |-> l, size |-> z, free |-> vs[i].free, next |-> n + 1]
  BY <1>1 DEF Inserted
<1>3. ws[i].next = n + 1 /\ ws[i].base = vs[i].base /\ ws[i].limit = l /\ ws[i].size = z
  BY <1>2
<1>4. /\ \A j \in 1 .. n : j # i => ws[j].next = vs[j].next
      /\ ws[n + 1].next \in {0, vs[i].next}
  BY <1>2
<1>5. Ranked(ws) /\ \A j \in 1 .. Len(ws) : ws[j].next \in 0 .. Len(ws)
  BY <1>1, <1>2, <1>3, <1>4, RankInsert
<1>6. ASSUME NEW j \in 1 .. n + 1 PROVE ws[j].limit = (ws[j].base + ws[j].size) % AddressMod
  <2>1. CASE j = i
    BY <1>3, <2>1
  <2>2. CASE j = n + 1
    BY <1>2, <2>2
  <2>3. CASE j \in 1 .. n /\ j # i
    BY <1>1, <1>2, <2>3 DEF RegionsOK
  <2>4. j = n + 1 \/ j \in 1 .. n
    BY ONLY n \in Nat, j \in 1 .. n + 1
  <2> QED
    BY <2>1, <2>2, <2>3, <2>4
<1> QED
  BY <1>2, <1>5, <1>6 DEF RegionsOK

(* Vad::Split                                                              *)
LEMMA SplitIs ==
  ASSUME NEW vs, RegionsOK(vs), NEW i \in 1 .. Len(vs), NEW size \in Nat,
         NEW N, N = NbPages(size) * PageSize, N <= vs[i].size
  PROVE  /\ Inserted(Split(vs, i, size), vs, i, Vad(vs[i].base + N, vs[i].size - N),
                     (vs[i].base + N) % AddressMod, N)
         /\ RegionsOK(Split(vs, i, size))
<1>1. N \in Nat
  BY NbPagesIs
<1>0. vs \in Seq(Regions) /\ vs[i] \in Regions
  BY DEF RegionsOK
<1>2. PICK a, c \in 0 .. Limit : a = vs[i].base /\ c = vs[i].size
  BY <1>0 DEF Regions
<1>21. N \in 0 .. c
  BY <1>1, <1>2
<1>3. PICK x : x = Vad(a + N, c - N)
  OBVIOUS
<1>4. x \in Regions /\ x.limit = (x.base + x.size) % AddressMod /\ x.next = 0
  <2>1. PICK p, q \in Int : p = a + N /\ q = c - N
    BY <1>1
  <2>2. x = Vad(p, q)
    BY <1>3, <2>1
  <2>3. PICK u, v, w : x = [base |-> u, limit |-> v, size |-> w, free |-> TRUE, next |-> 0]
    BY <2>2, VadIs
  <2>4. x.next = 0
    BY ONLY <2>3
  <2>5. x \in Regions /\ x.limit = (x.base + x.size) % AddressMod
    BY <2>2, VadIs, Zenon
  <2> QED
    BY <2>4, <2>5
<1>5. PICK l : l = (a + N) % AddressMod
  OBVIOUS
<1>6. l \in 0 .. Limit /\ N \in 0 .. Limit
  <2>1. a + N \in Int
    BY <1>1
  <2>2. (a + N) % AddressMod \in 0 .. Limit
    BY <2>1, ModIs, Zenon
  <2> QED
    <3>1. N \in 0 .. Limit
      BY ONLY c \in 0 .. Limit, <1>21, ConstantsAre
    <3> QED
      BY <1>5, <2>2, <3>1
<1>7. PICK ws : ws = [Append(vs, x) EXCEPT ![i].limit = l, ![i].size = N, ![i].next = Len(vs) + 1]
  OBVIOUS
<1>8. Inserted(ws, vs, i, x, l, N)
  <2>1. PICK m, z \in 0 .. Limit : m = l /\ z = N
    BY <1>6
  <2>2. ws = [Append(vs, x) EXCEPT ![i].limit = m, ![i].size = z, ![i].next = Len(vs) + 1]
    BY <1>7, <2>1
  <2>3. Inserted(ws, vs, i, x, m, z)
    BY ONLY <1>0, <1>4, <2>2, InsertIs, i \in 1 .. Len(vs), m \in 0 .. Limit, z \in 0 .. Limit
  <2> QED
    BY <2>1, <2>3
<1>9. Split(vs, i, size) = ws
  BY <1>2, <1>3, <1>5, <1>7 DEF Split
<1>10. RegionsOK(ws)
  BY <1>2, <1>4, <1>5, <1>8, InsertOK
<1> QED
  BY <1>2, <1>3, <1>5, <1>8, <1>9, <1>10

(* The cut at an address in the middle of a region.                        *)
CutAt(vs, i, a) ==
  LET second == (vs[i].limit - a) % AddressMod
  IN [Append(vs, [Vad(a, second) EXCEPT !.next = vs[i].next]) EXCEPT
        ![i].limit = (@ - second) % AddressMod,
        ![i].size = (@ - second) % AddressMod,
        ![i].next = Len(vs) + 1]

(* SplitAtAddress cuts a region at the address.                            *)
LEMMA CutIs ==
  ASSUME NEW vs, RegionsOK(vs), NEW i \in 1 .. Len(vs), NEW a \in 0 .. Limit
  PROVE  \E sec \in 0 .. Limit :
           /\ sec = (vs[i].limit - a) % AddressMod
           /\ Inserted(CutAt(vs, i, a), vs, i,
                [base |-> a, limit |-> (a + sec) % AddressMod, size |-> sec, free |-> TRUE, next |-> vs[i].next],
                (vs[i].limit - sec) % AddressMod, (vs[i].size - sec) % AddressMod)
           /\ RegionsOK(CutAt(vs, i, a))
<1>0. vs \in Seq(Regions) /\ vs[i] \in Regions
  BY DEF RegionsOK
<1>1. PICK b, li, c \in 0 .. Limit, e \in Nat : b = vs[i].base /\ li = vs[i].limit /\ c = vs[i].size /\ e = vs[i].next
  BY <1>0 DEF Regions
<1>2. li = (b + c) % AddressMod
  BY <1>1 DEF RegionsOK
<1>3. li - a \in Int
  OBVIOUS
<1>4. PICK sec \in 0 .. Limit : sec = (li - a) % AddressMod
  BY <1>3, ModIs, Zenon
<1>5. PICK x : x = [base |-> a, limit |-> (a + sec) % AddressMod, size |-> sec, free |-> TRUE, next |-> e]
  OBVIOUS
<1>6. (a + sec) % AddressMod \in 0 .. Limit
  <2>1. a + sec \in Int
    OBVIOUS
  <2> QED
    BY <2>1, ModIs, Zenon
<1>7. x \in Regions /\ x.limit = (x.base + x.size) % AddressMod /\ x.next = e
  BY <1>5, <1>6 DEF Regions
<1>8. [Vad(a, sec) EXCEPT !.next = e] = x
  <2>1. a % AddressMod = a /\ sec % AddressMod = sec
    BY ModIs, Zenon
  <2>2. PICK w : w = [base |-> a, limit |-> (a + sec) % AddressMod, size |-> sec, free |-> TRUE, next |-> Null]
    OBVIOUS
  <2>3. Vad(a, sec) = w
    BY <2>1, <2>2 DEF Vad
  <2>4. [w EXCEPT !.next = e] = x
    <3>1. PICK t, lm : t = TRUE /\ lm = (a + sec) % AddressMod
      OBVIOUS
    <3>2. w = [base |-> a, limit |-> lm, size |-> sec, free |-> t, next |-> Null]
      BY <2>2, <3>1
    <3>3. x = [base |-> a, limit |-> lm, size |-> sec, free |-> t, next |-> e]
      BY <1>5, <3>1
    <3> QED
      BY ONLY <3>2, <3>3
  <2> QED
    BY <2>3, <2>4
<1>9. PICK l \in 0 .. Limit : l = (li - sec) % AddressMod
  <2>1. li - sec \in Int
    OBVIOUS
  <2> QED
    BY <2>1, ModIs, Zenon
<1>10. PICK z \in 0 .. Limit : z = (c - sec) % AddressMod
  <2>1. c - sec \in Int
    OBVIOUS
  <2> QED
    BY <2>1, ModIs, Zenon
<1>11. PICK ws : ws = [Append(vs, x) EXCEPT ![i].limit = l, ![i].size = z, ![i].next = Len(vs) + 1]
  OBVIOUS
<1>12. Inserted(ws, vs, i, x, l, z)
  BY <1>0, <1>7, <1>11, InsertIs
<1>13. CutAt(vs, i, a) = ws
  <2>1. PICK t : t = Append(vs, x)
    OBVIOUS
  <2>2. i \in DOMAIN t /\ t[i] = vs[i]
    BY <2>1, <1>7 DEF RegionsOK
  <2>3. CutAt(vs, i, a) = [t EXCEPT ![i].limit = (@ - sec) % AddressMod,
                                    ![i].size = (@ - sec) % AddressMod, ![i].next = Len(vs) + 1]
    BY <1>1, <1>4, <1>8, <2>1 DEF CutAt
  <2>4. [t EXCEPT ![i].limit = (@ - sec) % AddressMod,
                  ![i].size = (@ - sec) % AddressMod, ![i].next = Len(vs) + 1]
        = [t EXCEPT ![i].limit = (t[i].limit - sec) % AddressMod,
                    ![i].size = (t[i].size - sec) % AddressMod, ![i].next = Len(vs) + 1]
    BY <2>2
  <2> QED
    BY <1>1, <1>9, <1>10, <1>11, <2>1, <2>2, <2>3, <2>4
<1>14. l = (b + z) % AddressMod
  <2>1. l = ((b + c) + (-sec)) % AddressMod
    <3>1. b + c \in Int /\ -sec \in Int
      OBVIOUS
    <3>2. (((b + c) % AddressMod) + (-sec)) % AddressMod = ((b + c) + (-sec)) % AddressMod
      BY <3>1, ModIs, Zenon
    <3>3. li - sec = li + (-sec)
      OBVIOUS
    <3> QED
      BY <1>2, <1>9, <3>2, <3>3
  <2>2. (z + b) % AddressMod = ((c - sec) + b) % AddressMod
    <3>1. c - sec \in Int /\ b \in Int
      OBVIOUS
    <3> QED
      BY <1>10, <3>1, ModIs, Zenon
  <2>3. (c - sec) + b = (b + c) + (-sec) /\ z + b = b + z
    OBVIOUS
  <2> QED
    BY <2>1, <2>2, <2>3
<1>15. RegionsOK(ws)
  BY <1>1, <1>7, <1>12, <1>14, InsertOK
<1>16. sec = (vs[i].limit - a) % AddressMod
  BY <1>1, <1>4
<1>17. Inserted(CutAt(vs, i, a), vs, i,
                [base |-> a, limit |-> (a + sec) % AddressMod, size |-> sec, free |-> TRUE, next |-> vs[i].next],
                (vs[i].limit - sec) % AddressMod, (vs[i].size - sec) % AddressMod)
  BY <1>1, <1>5, <1>9, <1>10, <1>12, <1>13
<1> QED
  BY <1>13, <1>15, <1>16, <1>17

-----------------------------------------------------------------------------
(* A region that contains an address does not wrap.                        *)
LEMMA CoversSize ==
  ASSUME NEW b \in 0 .. Limit, NEW c \in 0 .. Limit, NEW l \in 0 .. Limit,
         l = (b + c) % AddressMod, b < l
  PROVE  l = b + c
<1>1. PICK M \in Nat : M = AddressMod /\ M > 0 /\ Limit = M - 1
  BY ConstantsAre
<1>2. CASE b + c <= Limit
  <2>1. b + c \in 0 .. Limit
    BY <1>2
  <2>2. (b + c) % AddressMod = b + c
    BY <2>1, ModIs, Zenon
  <2> QED
    BY <2>2
<1>3. CASE ~(b + c <= Limit)
  <2>1. PICK r \in 0 .. M - 1 : r = b + c - M
    BY <1>1, <1>3
  <2>2. (1 * M + r) % M = r
    BY <1>1, ModUnique
  <2>3. 1 * M + r = b + c
    BY <1>1, <2>1
  <2>4. l = r
    BY <1>1, <2>2, <2>3
  <2>5. r < b
    BY <1>1, <2>1
  <2> QED
    BY <2>4, <2>5
<1> QED
  BY <1>2, <1>3

(* LookForFreeVadAtAddress finds a region that is large enough.            *)
LEMMA LookAtIs ==
  ASSUME NEW vs, RegionsOK(vs), Len(vs) >= 1, NEW a \in 0 .. Limit, NEW size \in Nat,
         NEW i, i = LookForFreeVadAtAddress(vs, a, size), i # Null
  PROVE  i \in 1 .. Len(vs) /\ size <= vs[i].size
<1> DEFINE fits(j) == vs[j].free /\ vs[j].size >= size
           S == {j \in DOMAIN vs : Covers(vs[j], a) \/ (j # 1 /\ fits(j))}
<1>1. PICK k : k = First(vs, S)
  OBVIOUS
<1>2. i = IF k = Null THEN Null
          ELSE IF k # 1 /\ fits(k) THEN k
          ELSE IF vs[k].free /\ vs[k].limit - a >= size THEN k ELSE Null
  BY <1>1 DEF LookForFreeVadAtAddress
<1>3. k # Null /\ i = k
  BY <1>2
<1>4. k \in 0 .. Len(vs) /\ k \in S
  BY <1>1, <1>3, FirstIs
<1>5. k \in 1 .. Len(vs)
  BY <1>3, <1>4 DEF Null
<1>6. vs[k] \in Regions /\ vs[k].limit = (vs[k].base + vs[k].size) % AddressMod
  BY <1>5 DEF RegionsOK
<1>7. PICK b, l, c \in 0 .. Limit : b = vs[k].base /\ l = vs[k].limit /\ c = vs[k].size
  BY <1>6 DEF Regions
<1>8. CASE k # 1 /\ fits(k)
  BY <1>3, <1>5, <1>7, <1>8
<1>9. CASE ~(k # 1 /\ fits(k))
  <2>1. b <= a /\ a < l /\ l - a >= size
    BY <1>2, <1>3, <1>4, <1>7, <1>9 DEF Covers
  <2>2. l = b + c
    <3>1. b < l
      BY <2>1
    <3> QED
      BY <1>6, <1>7, <3>1, CoversSize
  <2>3. size <= c
    BY <2>1, <2>2
  <2> QED
    BY <1>3, <1>5, <1>7, <2>3
<1> QED
  BY <1>8, <1>9

(* What an allocation returns, for any image.                              *)
FoundOK(R, vs) ==
  /\ RegionsOK(R.vads) /\ Len(R.vads) >= Len(vs) /\ R.at \in 0 .. Len(R.vads)

(* Vad::Create fails, or has made what was asked for.                      *)
LEMMA CreatedOK ==
  ASSUME NEW vs, RegionsOK(vs), NEW ws, RegionsOK(ws), Len(ws) >= Len(vs), NEW at \in 0 .. Len(ws)
  PROVE  FoundOK(Created(vs, ws, at), vs) /\ FoundOK(Fail(vs), vs)
<1>1. Len(vs) \in Nat
  BY DEF RegionsOK
<1> QED
  BY <1>1 DEF Created, Fail, FoundOK, Null

(* The split of a region that is large enough.                             *)
LEMMA LargeOK ==
  ASSUME NEW vs, RegionsOK(vs), NEW i \in 1 .. Len(vs), NEW size \in Nat
  PROVE  RegionsOK(SplitIfLarge(vs, i, size)) /\ Len(SplitIfLarge(vs, i, size)) >= Len(vs)
<1>0. Len(vs) \in Nat
  BY DEF RegionsOK
<1>1. CASE vs[i].size - size > PageSize
  <2>1. vs[i] \in Regions
    BY DEF RegionsOK
  <2>2. PICK c \in 0 .. Limit : c = vs[i].size
    BY <2>1 DEF Regions
  <2>3. PICK N \in Nat : N = NbPages(size) * PageSize /\ N <= size + PageSize
    BY NbPagesIs
  <2>4. N <= c
    BY <1>1, <2>2, <2>3, ConstantsAre
  <2>5. /\ Inserted(Split(vs, i, size), vs, i, Vad(vs[i].base + N, vs[i].size - N),
                    (vs[i].base + N) % AddressMod, N)
        /\ RegionsOK(Split(vs, i, size))
    BY <2>2, <2>3, <2>4, SplitIs
  <2>6. Len(Split(vs, i, size)) = Len(vs) + 1
    BY <2>5 DEF Inserted
  <2> QED
    BY <1>0, <1>1, <2>5, <2>6 DEF SplitIfLarge
<1>2. CASE ~(vs[i].size - size > PageSize)
  BY <1>0, <1>2 DEF SplitIfLarge
<1> QED
  BY <1>1, <1>2

(* Vad::Allocate leaves a list that ends, in any case.                     *)
LEMMA AllocateOK ==
  ASSUME NEW vs, RegionsOK(vs), Len(vs) >= 1, NEW size \in Nat
  PROVE  FoundOK(Allocate(vs, size), vs)
<1> DEFINE S == {j \in DOMAIN vs : vs[j].size >= size /\ vs[j].free}
<1>0. Len(vs) \in Nat
  BY DEF RegionsOK
<1>1. PICK i : i = LookForFreeVadOfMinimumSize(vs, size)
  OBVIOUS
<1>2. i \in 0 .. Len(vs)
  BY <1>1, FirstIs DEF LookForFreeVadOfMinimumSize
<1>3. CASE size = 0 \/ i = Null
  <2>1. Allocate(vs, size) = Fail(vs)
    BY <1>1, <1>3 DEF Allocate
  <2>2. 0 \in 0 .. Len(vs) /\ Len(vs) >= Len(vs)
    BY <1>0
  <2> QED
    BY <2>1, <2>2, CreatedOK
<1>4. CASE ~(size = 0 \/ i = Null)
  <2>1. i \in 1 .. Len(vs)
    BY <1>0, <1>2, <1>4 DEF Null
  <2>2. PICK ws : ws = SplitIfLarge(vs, i, size)
    OBVIOUS
  <2>3. RegionsOK(ws) /\ Len(ws) >= Len(vs)
    BY <2>1, <2>2, LargeOK
  <2>4. i \in 0 .. Len(ws)
    BY <1>0, <2>1, <2>3 DEF RegionsOK
  <2>5. Allocate(vs, size) = Created(vs, ws, i)
    BY <1>1, <1>4, <2>2 DEF Allocate
  <2> QED
    BY <2>3, <2>4, <2>5, CreatedOK
<1> QED
  BY <1>3, <1>4

(* Vad::AllocateAtAddress leaves a list that ends, in any case.            *)
LEMMA AllocateAtOK ==
  ASSUME NEW vs, RegionsOK(vs), Len(vs) >= 1, NEW a \in 0 .. Limit, NEW size \in Nat
  PROVE  FoundOK(AllocateAtAddress(vs, a, size), vs)
<1>0. Len(vs) \in Nat /\ 0 \in 0 .. Len(vs) /\ Len(vs) >= Len(vs)
  BY DEF RegionsOK
<1>1. PICK i : i = LookForFreeVadAtAddress(vs, a, size)
  OBVIOUS
<1>2. PICK split : split = (vs[i].base # a \/ vs[i].size - size > PageSize)
  OBVIOUS
<1>3. AllocateAtAddress(vs, a, size) =
        IF size = 0 \/ i = Null THEN Fail(vs)
        ELSE IF ~(vs[i].base # a \/ vs[i].size - size > PageSize) THEN [vads |-> vs, at |-> i]
        ELSE IF \/ vs[i].size - size < PageSize
                \/ vs[i].base # a /\ (vs[i].limit - a) % AddressMod < size
        THEN Fail(vs)
        ELSE Created(vs, SplitAtAddress(vs, i, a, size), IF vs[i].base = a THEN i ELSE Len(vs) + 1)
  BY <1>1 DEF AllocateAtAddress
<1>4. FoundOK(Fail(vs), vs)
  BY <1>0, CreatedOK
<1>5. CASE size = 0 \/ i = Null
  BY <1>3, <1>4, <1>5
<1>6. CASE ~(size = 0 \/ i = Null)
  <2>1. i \in 1 .. Len(vs) /\ size <= vs[i].size
    BY <1>1, <1>6, LookAtIs
  <2>2. FoundOK([vads |-> vs, at |-> i], vs)
    BY <1>0, <2>1 DEF FoundOK
  <2>3. ASSUME vs[i].base = a, vs[i].size - size > PageSize
        PROVE  FoundOK(Created(vs, SplitAtAddress(vs, i, a, size), i), vs)
    <3>1. SplitAtAddress(vs, i, a, size) = SplitIfLarge(vs, i, size)
      BY <2>3 DEF SplitAtAddress, SplitIfLarge
    <3>2. PICK ws : ws = SplitIfLarge(vs, i, size)
      OBVIOUS
    <3>3. RegionsOK(ws) /\ Len(ws) >= Len(vs)
      BY <2>1, <3>2, LargeOK
    <3>4. i \in 0 .. Len(ws)
      BY <1>0, <2>1, <3>3 DEF RegionsOK
    <3> QED
      BY <3>1, <3>2, <3>3, <3>4, CreatedOK
  <2>4. ASSUME vs[i].base # a
        PROVE  FoundOK(Created(vs, SplitAtAddress(vs, i, a, size), Len(vs) + 1), vs)
    <3>1. SplitAtAddress(vs, i, a, size) = SplitIfLarge(CutAt(vs, i, a), Len(vs) + 1, size)
      BY <2>4 DEF SplitAtAddress, CutAt
    <3>2. PICK us : us = CutAt(vs, i, a)
      OBVIOUS
    <3>3. RegionsOK(us) /\ Len(us) = Len(vs) + 1
      BY <2>1, <3>2, CutIs DEF Inserted
    <3>4. PICK ws : ws = SplitIfLarge(us, Len(vs) + 1, size)
      OBVIOUS
    <3>5. Len(vs) + 1 \in 1 .. Len(us)
      BY <1>0, <3>3
    <3>6. RegionsOK(ws) /\ Len(ws) >= Len(us)
      BY <3>3, <3>4, <3>5, LargeOK
    <3>7. Len(vs) + 1 \in 0 .. Len(ws) /\ Len(ws) >= Len(vs)
      BY <1>0, <3>3, <3>6 DEF RegionsOK
    <3> QED
      BY <3>1, <3>2, <3>4, <3>6, <3>7, CreatedOK
  <2> QED
    BY <1>3, <1>4, <1>6, <2>2, <2>3, <2>4
<1> QED
  BY <1>5, <1>6

-----------------------------------------------------------------------------
(* The region of a new process is the whole space.                         *)
LEMMA FirstRegionsOK ==
  /\ RegionsOK(FirstRegions) /\ Len(FirstRegions) = 1
  /\ FirstRegions[1] = [base |-> Base, limit |-> Limit, size |-> Limit - Base, free |-> TRUE, next |-> 0]
<1>1. PICK z \in 0 .. Limit : z = Limit - Base
  BY ConstantsAre
<1>2. Base % AddressMod = Base /\ z % AddressMod = z /\ (Base + z) % AddressMod = Limit
  <2>1. Base \in 0 .. Limit /\ Base + z \in 0 .. Limit /\ Base + z = Limit
    BY <1>1, ConstantsAre
  <2> QED
    BY <2>1, ModIs
<1>3. PICK x : x = Vad(Base, Limit - Base)
  OBVIOUS
<1>4. x = [base |-> Base, limit |-> Limit, size |-> z, free |-> TRUE, next |-> 0]
  BY <1>1, <1>2, <1>3 DEF Vad, Null
<1>5. /\ x \in Regions /\ x.limit = (x.base + x.size) % AddressMod /\ x.next = 0
  BY <1>1, <1>2, <1>4, ConstantsAre DEF Regions
<1>6. PICK vs : vs = <<x>>
  OBVIOUS
<1>7. vs \in Seq(Regions) /\ Len(vs) = 1 /\ vs[1] = x
  BY <1>5, <1>6
<1>8. Ranked(vs)
  <2>1. PICK r : r = [j \in 0 .. 1 |-> j]
    OBVIOUS
  <2>2. r \in [0 .. 1 -> 0 .. 1] /\ r[0] = 0 /\ r[1] = 1
    BY <2>1
  <2>3. \A i \in 1 .. 1 : i = 1
    OBVIOUS
  <2>4. Ranks(r, vs)
    BY <1>5, <1>7, <2>2, <2>3 DEF Ranks, Null
  <2> QED
    BY <1>7, <2>2, <2>4 DEF Ranked
<1>9. \A i \in 1 .. Len(vs) : i = 1
  BY <1>7
<1>10. RegionsOK(vs)
  BY <1>5, <1>7, <1>8, <1>9 DEF RegionsOK
<1> QED
  BY <1>1, <1>3, <1>4, <1>6, <1>7, <1>10 DEF FirstRegions

(* A region is marked as reserved.                                         *)
IsMarked(ws, vs, i) ==
  /\ ws \in Seq(Regions) /\ Len(ws) = Len(vs)
  /\ \A j \in 1 .. Len(vs) : /\ ws[j].base = vs[j].base /\ ws[j].limit = vs[j].limit
                             /\ ws[j].size = vs[j].size /\ ws[j].next = vs[j].next
                             /\ j # i => ws[j] = vs[j]
  /\ ~ws[i].free

(* Marking a region leaves the others, and the list.                       *)
LEMMA MarkIs ==
  ASSUME NEW vs, RegionsOK(vs), NEW i \in 1 .. Len(vs)
  PROVE  /\ IsMarked([vs EXCEPT ![i].free = FALSE], vs, i)
         /\ RegionsOK([vs EXCEPT ![i].free = FALSE])
<1>0. vs \in Seq(Regions) /\ vs[i] \in Regions /\ i \in DOMAIN vs
  BY DEF RegionsOK
<1>1. PICK v \in Regions : v = vs[i]
  BY <1>0
<1>2. PICK a, b, c \in 0 .. Limit, e \in Nat : \E d :
        /\ v = [base |-> a, limit |-> b, size |-> c, free |-> d, next |-> e]
        /\ v.base = a /\ v.limit = b /\ v.size = c /\ v.free = d /\ v.next = e
  BY RegionIs, Zenon
<1>3. PICK d :
        /\ v = [base |-> a, limit |-> b, size |-> c, free |-> d, next |-> e]
        /\ v.base = a /\ v.limit = b /\ v.size = c /\ v.free = d /\ v.next = e
  BY <1>2
<1>4. PICK y : y = [base |-> a, limit |-> b, size |-> c, free |-> FALSE, next |-> e]
  OBVIOUS
<1>5. [v EXCEPT !.free = FALSE] = y
  <2>1. PICK f : f = FALSE
    OBVIOUS
  <2>2. PICK w : w = [base |-> a, limit |-> b, size |-> c, free |-> d, next |-> e]
    OBVIOUS
  <2>3. [w EXCEPT !.free = f] = [base |-> a, limit |-> b, size |-> c, free |-> f, next |-> e]
    BY ONLY <2>2
  <2> QED
    BY <1>3, <1>4, <2>1, <2>2, <2>3
<1>6. [vs EXCEPT ![i].free = FALSE] = [vs EXCEPT ![i] = y]
  BY <1>0, <1>1, <1>5
<1>7. y \in Regions /\ y.base = a /\ y.limit = b /\ y.size = c /\ y.next = e /\ ~y.free
  BY <1>4 DEF Regions
<1>8. PICK ws : ws = [vs EXCEPT ![i] = y]
  OBVIOUS
<1>9. /\ ws \in Seq(Regions) /\ Len(ws) = Len(vs) /\ ws[i] = y
      /\ \A j \in 1 .. Len(vs) : j # i => ws[j] = vs[j]
  BY <1>0, <1>7, <1>8
<1>10. IsMarked(ws, vs, i)
  BY <1>1, <1>3, <1>7, <1>9 DEF IsMarked
<1>11. RegionsOK(ws)
  <2>1. Ranked(ws)
    <3>1. PICK K \in Nat : \E r \in [0 .. Len(vs) -> 0 .. K] : Ranks(r, vs)
      BY DEF RegionsOK, Ranked
    <3>2. PICK r \in [0 .. Len(vs) -> 0 .. K] : Ranks(r, vs)
      BY <3>1
    <3>3. Ranks(r, ws)
      BY <1>10, <3>2 DEF Ranks, IsMarked
    <3> QED
      BY <1>9, <3>2, <3>3 DEF Ranked
  <2>2. ASSUME NEW j \in 1 .. Len(ws)
        PROVE  /\ ws[j].limit = (ws[j].base + ws[j].size) % AddressMod
               /\ ws[j].next \in 0 .. Len(ws)
    BY <1>10 DEF IsMarked, RegionsOK
  <2> QED
    BY <1>9, <2>1, <2>2 DEF RegionsOK
<1> QED
  BY <1>6, <1>8, <1>10, <1>11

-----------------------------------------------------------------------------
(* While one module is loaded, the ones before are ready and the ones      *)
(* behind are not begun.                                                   *)
LEMMA OthersWait ==
  ASSUME LoadInv, NEW p \in Procs, stage[p] # "ready"
  PROVE  \A q \in Procs : q > p => stage[q] = "none"
<1> SUFFICES ASSUME NEW q \in Procs, q > p, stage[q] # "none" PROVE FALSE
  OBVIOUS
<1>1. \A r \in 1 .. q - 1 : stage[r] = "ready"
  BY DEF LoadInv
<1>2. p \in 1 .. q - 1
  BY SpaceAssumption DEF Procs
<1> QED
  BY <1>1, <1>2

Walks == [vad : Nat, addr : 0 .. Limit, physical : BOOLEAN, done : BOOLEAN]
Heaps == [vad : Nat, limit : 0 .. Limit]

(* A step of the loading of p.                                             *)
LEMMA LoadStep ==
  ASSUME LoadInv, NEW p \in Procs, NEW s, Loading(p, s), s # "ready",
         NEW to \in Stages, to # "none", stage' = [stage EXCEPT ![p] = to],
         NEW ws, RegionsOK(ws), Len(ws) >= 1, vads' = [vads EXCEPT ![p] = ws],
         walk' \in Walks, to \in Walking => walk'.vad \in 1 .. Len(ws),
         NEW hp \in Heaps, hp.vad <= Len(ws), heap' = [heap EXCEPT ![p] = hp],
         sect' \in [Procs -> Nat \ {0}], image' = image, stack' \in [Procs -> 0 .. Limit],
         content' \in [Procs -> SUBSET (Pages \X Entries)],
         halted' \in BOOLEAN, raced' = raced
  PROVE  LoadInv'
<1>1. /\ ~halted /\ stage[p] = s /\ \A q \in 1 .. p - 1 : stage[q] = "ready"
      /\ \A q \in Procs : q > p => stage[q] = "none"
  BY OthersWait DEF Loading
<1>2. stage' \in [Procs -> Stages] /\ stage'[p] = to /\ \A q \in Procs : q # p => stage'[q] = stage[q]
  BY DEF LoadInv
<1>3. ASSUME NEW q \in Procs, stage'[q] # "none", NEW r \in 1 .. q - 1 PROVE stage'[r] = "ready"
  <2>1. ~(q > p)
    BY <1>1, <1>2, <1>3, SpaceAssumption DEF Procs
  <2>2. r \in Procs /\ r # p /\ r \in 1 .. p - 1
    BY <2>1, SpaceAssumption DEF Procs
  <2> QED
    BY <1>1, <1>2, <2>2
<1>4. ws \in Seq(Regions)
  BY DEF RegionsOK
<1>5. /\ vads' \in [Procs -> Seq(Regions)] /\ vads'[p] = ws
      /\ \A q \in Procs : q # p => vads'[q] = vads[q]
  BY <1>4 DEF LoadInv
<1>6. \A q \in Procs : RegionsOK(vads'[q])
  BY <1>5 DEF LoadInv
<1>7. \A q \in Procs : stage'[q] # "none" => Len(vads'[q]) >= 1
  BY <1>2, <1>5 DEF LoadInv
<1>8. heap' \in [Procs -> Heaps] /\ heap'[p] = hp /\ \A q \in Procs : q # p => heap'[q] = heap[q]
  BY DEF LoadInv, Heaps
<1>9. \A q \in Procs : heap'[q].vad <= Len(vads'[q])
  BY <1>5, <1>8 DEF LoadInv
<1>91. \A q \in Procs : stage'[q] = "none" => heap'[q].vad = Null
  BY <1>2, <1>8 DEF LoadInv
<1>10. ASSUME NEW q \in Procs, stage'[q] \in Walking PROVE walk'.vad \in 1 .. Len(vads'[q])
  <2>1. CASE q = p
    BY <1>2, <1>5, <1>10, <2>1
  <2>2. CASE q # p
    <3>1. stage[q] = "ready" \/ stage[q] = "none"
      <4>1. q > p \/ q \in 1 .. p - 1
        BY <2>2, SpaceAssumption DEF Procs
      <4> QED
        BY <1>1, <4>1
    <3> QED
      BY <1>2, <1>10, <2>2, <3>1 DEF Walking
  <2> QED
    BY <2>1, <2>2
<1>11. raced' \in BOOLEAN /\ image' \in [Procs -> Seq([vaddr : 0 .. Limit, size : 0 .. Limit])]
  BY DEF LoadInv
<1> QED
  BY <1>2, <1>3, <1>5, <1>6, <1>7, <1>8, <1>9, <1>91, <1>10, <1>11
     DEF LoadInv, Walks, Heaps, RegionsOK, Ranked, Ranks, Regions, Limit, Procs, Pages, Entries, Frames,
         Empty, NoFrame, Null, Stages, Walking

(* An update that changes nothing.                                         *)
LEMMA SameEntry ==
  ASSUME NEW f, NEW D, NEW T, f \in [D -> T], NEW x \in D
  PROVE  f = [f EXCEPT ![x] = f[x]]
OBVIOUS

(* CreateProcess makes the first region.                                   *)
LEMMA LoadCreate ==
  ASSUME LoadInv, NEW p \in Procs, CreateProcess(p)
  PROVE  LoadInv'
<1>1. PICK ws : ws = FirstRegions
  OBVIOUS
<1>2. RegionsOK(ws) /\ Len(ws) = 1
  BY <1>1, FirstRegionsOK
<1>3. Loading(p, "none") /\ vads' = [vads EXCEPT ![p] = ws] /\ stage' = [stage EXCEPT ![p] = "map"]
  BY <1>1 DEF CreateProcess
<1>4. /\ image' = image /\ sect' = sect /\ content' = content /\ heap' = heap /\ stack' = stack
      /\ walk' = walk /\ halted' = halted /\ raced' = raced
  BY DEF CreateProcess, poolVars
<1>5. PICK hp \in Heaps : hp = heap[p] /\ hp.vad = 0
  BY <1>3 DEF LoadInv, Heaps, Loading, Null
<1>6. heap' = [heap EXCEPT ![p] = hp]
  BY <1>4, <1>5, SameEntry DEF LoadInv
<1>7. walk' \in Walks /\ "map" \in Stages /\ "map" \notin Walking
  BY <1>4 DEF LoadInv, Walks, Stages, Walking
<1>8. Len(ws) >= 1 /\ hp.vad <= Len(ws)
  BY <1>2, <1>5
<1>9. /\ sect' \in [Procs -> Nat \ {0}] /\ stack' \in [Procs -> 0 .. Limit]
      /\ content' \in [Procs -> SUBSET (Pages \X Entries)] /\ halted' \in BOOLEAN
  BY <1>4 DEF LoadInv
<1> QED
  BY <1>2, <1>3, <1>4, <1>6, <1>7, <1>8, <1>9, LoadStep

(* A step that leaves heap and regions alone.                              *)
LEMMA LoadQuiet ==
  ASSUME LoadInv, NEW p \in Procs, NEW s, Loading(p, s), s # "ready", s # "none",
         NEW to \in Stages, to # "none", stage' = [stage EXCEPT ![p] = to],
         NEW ws, RegionsOK(ws), Len(ws) >= Len(vads[p]), vads' = [vads EXCEPT ![p] = ws],
         walk' \in Walks, to \in Walking => walk'.vad \in 1 .. Len(ws),
         heap' = heap, sect' \in [Procs -> Nat \ {0}], image' = image,
         stack' \in [Procs -> 0 .. Limit], content' \in [Procs -> SUBSET (Pages \X Entries)],
         halted' \in BOOLEAN, raced' = raced
  PROVE  LoadInv'
<1>1. PICK hp \in Heaps : hp = heap[p] /\ hp.vad <= Len(vads[p])
  BY DEF LoadInv, Heaps
<1>2. heap' = [heap EXCEPT ![p] = hp]
  BY <1>1, SameEntry DEF LoadInv
<1>3. Len(vads[p]) >= 1 /\ Len(vads[p]) \in Nat /\ Len(ws) \in Nat /\ hp.vad \in Nat
  BY DEF LoadInv, Loading, RegionsOK, Heaps
<1>4. Len(ws) >= 1 /\ hp.vad <= Len(ws)
  BY <1>1, <1>3
<1> QED
  BY <1>2, <1>4, LoadStep

(* A turn of ReservePages, or its end.                                     *)
LEMMA LoadReserve ==
  ASSUME LoadInv, NEW p \in Procs, ReservePages(p)
  PROVE  LoadInv'
<1>1. PICK s \in {"copy", "heap", "stack"} : Loading(p, s)
  BY DEF ReservePages
<1>2. s \in Stages /\ s # "ready" /\ s # "none" /\ s \in Walking /\ stage[p] = s
  BY <1>1 DEF Stages, Walking, Loading
<1>3. /\ image' = image /\ stage' = stage /\ sect' = sect /\ content' = content /\ heap' = heap
      /\ stack' = stack /\ halted' = halted /\ raced' = raced
  BY DEF ReservePages, poolVars
<1>4. stage' = [stage EXCEPT ![p] = s]
  BY <1>2, <1>3, SameEntry DEF LoadInv
<1>5. /\ sect' \in [Procs -> Nat \ {0}] /\ stack' \in [Procs -> 0 .. Limit]
      /\ content' \in [Procs -> SUBSET (Pages \X Entries)] /\ halted' \in BOOLEAN
  BY <1>3 DEF LoadInv
<1>6. PICK v \in Nat, a \in 0 .. Limit, ph, d \in BOOLEAN : walk = [vad |-> v, addr |-> a, physical |-> ph, done |-> d]
  BY DEF LoadInv
<1>7. v \in 1 .. Len(vads[p]) /\ RegionsOK(vads[p]) /\ Len(vads[p]) \in Nat
  BY <1>2, <1>6 DEF LoadInv, RegionsOK
<1>8. CASE walk.addr < vads[p][walk.vad].limit
  <2>1. walk' = [walk EXCEPT !.addr = (@ + PageSize) % AddressMod] /\ vads' = vads
    BY <1>8 DEF ReservePages
  <2>2. (a + PageSize) % AddressMod \in 0 .. Limit
    <3>1. a + PageSize \in Int
      BY ConstantsAre
    <3> QED
      BY <3>1, ModIs, Zenon
  <2>3. walk' = [vad |-> v, addr |-> (a + PageSize) % AddressMod, physical |-> ph, done |-> d]
    BY <1>6, <2>1
  <2>4. walk' \in Walks /\ walk'.vad = v
    BY <2>2, <2>3 DEF Walks
  <2>5. vads' = [vads EXCEPT ![p] = vads[p]]
    BY <2>1, SameEntry DEF LoadInv
  <2>6. Len(vads[p]) >= Len(vads[p])
    BY <1>7
  <2> QED
    BY <1>1, <1>2, <1>3, <1>4, <1>5, <1>7, <2>4, <2>5, <2>6, LoadQuiet
<1>9. CASE ~(walk.addr < vads[p][walk.vad].limit)
  <2>1. walk' = [walk EXCEPT !.done = TRUE] /\ vads' = [vads EXCEPT ![p][walk.vad].free = FALSE]
    BY <1>9 DEF ReservePages
  <2>2. walk' = [vad |-> v, addr |-> a, physical |-> ph, done |-> TRUE]
    BY <1>6, <2>1
  <2>3. walk' \in Walks /\ walk'.vad = v
    BY <2>2 DEF Walks
  <2>4. PICK ws : ws = [vads[p] EXCEPT ![v].free = FALSE]
    OBVIOUS
  <2>5. vads' = [vads EXCEPT ![p] = ws]
    BY <1>6, <2>1, <2>4 DEF LoadInv
  <2>6. RegionsOK(ws) /\ Len(ws) = Len(vads[p])
    BY <1>7, <2>4, MarkIs DEF IsMarked
  <2>7. Len(ws) >= Len(vads[p]) /\ v \in 1 .. Len(ws)
    BY <1>7, <2>6
  <2> QED
    BY <1>1, <1>2, <1>3, <1>4, <1>5, <2>3, <2>5, <2>6, <2>7, LoadQuiet
<1> QED
  BY <1>8, <1>9

(* Reserve and Panic                                                       *)
LEMMA LoadFound ==
  ASSUME LoadInv, NEW p \in Procs, NEW s, Loading(p, s), s \in {"map", "heap"},
         NEW R, FoundOK(R, vads[p]), NEW ph \in BOOLEAN, NEW to \in Walking,
         NEW hp \in Heaps, hp.vad <= Len(vads[p]), heap' = [heap EXCEPT ![p] = hp],
         \/ R.at # Null /\ Reserve(p, R, ph, to)
         \/ s = "map" /\ Panic
         \/ s = "heap" /\ stage' = [stage EXCEPT ![p] = "ready"] /\ UNCHANGED <<vads, walk, halted>>,
         image' = image, sect' = sect, content' = content, stack' = stack, raced' = raced
  PROVE  LoadInv'
<1>1. s \in Stages /\ s # "ready" /\ s # "none" /\ stage[p] = s /\ halted = FALSE
  BY DEF Stages, Loading, LoadInv
<1>2. /\ sect' \in [Procs -> Nat \ {0}] /\ stack' \in [Procs -> 0 .. Limit]
      /\ content' \in [Procs -> SUBSET (Pages \X Entries)]
  BY DEF LoadInv
<1>3. RegionsOK(vads[p]) /\ Len(vads[p]) \in Nat /\ Len(vads[p]) >= 1 /\ hp.vad \in Nat
  BY <1>1 DEF LoadInv, RegionsOK, Heaps
<1>4. CASE R.at # Null /\ Reserve(p, R, ph, to)
  <2>1. PICK ws, at : ws = R.vads /\ at = R.at
    OBVIOUS
  <2>2. RegionsOK(ws) /\ Len(ws) >= Len(vads[p]) /\ at \in 0 .. Len(ws) /\ Len(ws) \in Nat /\ ws \in Seq(Regions)
    BY <2>1 DEF FoundOK, RegionsOK
  <2>3. at \in 1 .. Len(ws) /\ Len(ws) >= 1 /\ hp.vad <= Len(ws)
    BY <1>3, <1>4, <2>1, <2>2 DEF Null
  <2>4. /\ vads' = [vads EXCEPT ![p] = ws] /\ stage' = [stage EXCEPT ![p] = to] /\ halted' = halted
        /\ walk' = [vad |-> at, addr |-> ws[at].base, physical |-> ph, done |-> FALSE]
    BY <1>4, <2>1 DEF Reserve
  <2>5. ws[at].base \in 0 .. Limit /\ at \in Nat
    <3>1. ws[at] \in Regions /\ at \in Nat
      BY <2>2, <2>3
    <3> QED
      BY <3>1 DEF Regions
  <2>6. walk' \in Walks /\ walk'.vad = at
    BY <2>4, <2>5 DEF Walks
  <2>7. halted' \in BOOLEAN /\ to \in Stages /\ to # "none"
    BY <1>1, <2>4 DEF Walking, Stages
  <2> QED
    BY <1>1, <1>2, <2>2, <2>3, <2>4, <2>6, <2>7, LoadStep
<1>5. CASE s = "map" /\ Panic
  <2>1. halted' = TRUE /\ vads' = vads /\ walk' = walk /\ stage' = stage
    BY <1>5 DEF Panic
  <2>2. vads' = [vads EXCEPT ![p] = vads[p]] /\ stage' = [stage EXCEPT ![p] = s]
    BY <1>1, <2>1, SameEntry DEF LoadInv
  <2>3. walk' \in Walks /\ s \notin Walking
    BY <1>5, <2>1 DEF LoadInv, Walks, Walking
  <2> QED
    BY <1>1, <1>2, <1>3, <2>1, <2>2, <2>3, LoadStep
<1>6. CASE s = "heap" /\ stage' = [stage EXCEPT ![p] = "ready"] /\ UNCHANGED <<vads, walk, halted>>
  <2>1. vads' = [vads EXCEPT ![p] = vads[p]]
    BY <1>6, SameEntry DEF LoadInv
  <2>2. walk' \in Walks /\ "ready" \notin Walking /\ "ready" \in Stages /\ halted' \in BOOLEAN
    BY <1>6 DEF LoadInv, Walks, Walking, Stages
  <2> QED
    BY <1>1, <1>2, <1>3, <1>6, <2>1, <2>2, LoadStep
<1> QED
  BY <1>4, <1>5, <1>6

(* MapSection and CreateDefaultHeap: what they find is a region.           *)
LEMMA LoadMap ==
  ASSUME LoadInv, NEW p \in Procs, MapSection(p) \/ CreateDefaultHeap(p)
  PROVE  LoadInv'
<1>1. Loading(p, "map") /\ stage[p] = "map"
  BY DEF MapSection, CreateDefaultHeap, Loading
<1>2. RegionsOK(vads[p]) /\ Len(vads[p]) >= 1
  BY <1>1 DEF LoadInv
<1>3. PICK hp \in Heaps : hp = heap[p] /\ hp.vad <= Len(vads[p])
  BY DEF LoadInv, Heaps
<1>4. heap' = heap /\ image' = image /\ sect' = sect /\ content' = content /\ stack' = stack /\ raced' = raced
  BY DEF MapSection, CreateDefaultHeap, poolVars
<1>5. heap' = [heap EXCEPT ![p] = hp]
  BY <1>3, <1>4, SameEntry DEF LoadInv
<1>6. CASE MapSection(p)
  <2>1. PICK sc : sc = image[p][sect[p]]
    OBVIOUS
  <2>2. sc \in [vaddr : 0 .. Limit, size : 0 .. Limit]
    <3>1. /\ image[p] \in Seq([vaddr : 0 .. Limit, size : 0 .. Limit])
          /\ sect[p] \in Nat \ {0} /\ sect[p] <= Len(image[p])
      BY <1>6 DEF LoadInv, MapSection, MoreSections
    <3>2. sect[p] \in 1 .. Len(image[p])
      BY <3>1
    <3>3. PICK img, k : img = image[p] /\ k = sect[p]
      OBVIOUS
    <3>4. img \in Seq([vaddr : 0 .. Limit, size : 0 .. Limit]) /\ k \in 1 .. Len(img)
      BY <3>1, <3>2, <3>3
    <3>5. PICK S : S = [vaddr : 0 .. Limit, size : 0 .. Limit]
      OBVIOUS
    <3>6. img \in Seq(S) /\ k \in 1 .. Len(img)
      BY <3>4, <3>5
    <3>7. img[k] \in S
      BY <3>6, ElementOfSeq
    <3> QED
      BY <2>1, <3>3, <3>5, <3>7
  <2>3. PICK a \in 0 .. Limit, z \in Nat : a = sc.vaddr /\ z = sc.size
    BY <2>2
  <2>4. PICK R : R = AllocateAtAddress(vads[p], a, z)
    OBVIOUS
  <2>5. FoundOK(R, vads[p])
    BY <1>2, <2>4, AllocateAtOK
  <2>6. IF R.at = Null THEN Panic ELSE Reserve(p, R, TRUE, "copy")
    BY <1>6, <2>1, <2>3, <2>4 DEF MapSection
  <2>7. "copy" \in Walking /\ TRUE \in BOOLEAN
    BY DEF Walking
  <2> QED
    BY <1>1, <1>3, <1>4, <1>5, <2>5, <2>6, <2>7, LoadFound
<1>7. CASE CreateDefaultHeap(p)
  <2>1. PICK R : R = Allocate(vads[p], HeapSize)
    OBVIOUS
  <2>2. FoundOK(R, vads[p])
    BY <1>2, <2>1, AllocateOK, ConstantsAre
  <2>3. IF R.at = Null THEN Panic ELSE Reserve(p, R, FALSE, "heap")
    BY <1>7, <2>1 DEF CreateDefaultHeap
  <2>4. "heap" \in Walking /\ FALSE \in BOOLEAN
    BY DEF Walking
  <2> QED
    BY <1>1, <1>3, <1>4, <1>5, <2>2, <2>3, <2>4, LoadFound
<1> QED
  BY <1>6, <1>7

(* CreateDefaultStack, with or without a stack.                            *)
LEMMA LoadStack ==
  ASSUME LoadInv, NEW p \in Procs, CreateDefaultStack(p)
  PROVE  LoadInv'
<1>1. Loading(p, "heap") /\ stage[p] = "heap" /\ "heap" \in Walking
  BY DEF CreateDefaultStack, Loading, Walking
<1>2. RegionsOK(vads[p]) /\ Len(vads[p]) >= 1 /\ walk.vad \in 1 .. Len(vads[p])
  BY <1>1 DEF LoadInv
<1>3. PICK hp : hp = [vad |-> walk.vad, limit |-> vads[p][walk.vad].base]
  OBVIOUS
<1>4. hp \in Heaps /\ hp.vad <= Len(vads[p])
  <2>1. vads[p][walk.vad] \in Regions /\ walk.vad \in Nat /\ walk.vad <= Len(vads[p])
    BY <1>2 DEF RegionsOK
  <2>2. vads[p][walk.vad].base \in 0 .. Limit
    BY <2>1 DEF Regions
  <2> QED
    BY <1>3, <2>1, <2>2 DEF Heaps
<1>5. /\ heap' = [heap EXCEPT ![p] = hp] /\ image' = image /\ sect' = sect /\ content' = content
      /\ stack' = stack /\ raced' = raced
  BY <1>3 DEF CreateDefaultStack, poolVars
<1>6. PICK R : R = Allocate(vads[p], StackSize)
  OBVIOUS
<1>7. FoundOK(R, vads[p])
  BY <1>2, <1>6, AllocateOK, ConstantsAre
<1>8. IF R.at = Null
      THEN stage' = [stage EXCEPT ![p] = "ready"] /\ UNCHANGED <<vads, walk, halted>>
      ELSE Reserve(p, R, TRUE, "stack")
  BY <1>6 DEF CreateDefaultStack
<1>9. "stack" \in Walking /\ TRUE \in BOOLEAN
  BY DEF Walking
<1> QED
  BY <1>1, <1>4, <1>5, <1>7, <1>8, <1>9, LoadFound

(* CopySection, with or without a fault of the kernel.                     *)
LEMMA LoadCopy ==
  ASSUME LoadInv, FrameInv, NEW p \in Procs, CopySection(p)
  PROVE  LoadInv'
<1>1. Loading(p, "copy") /\ stage' = [stage EXCEPT ![p] = "map"] /\ sect' = [sect EXCEPT ![p] = sect[p] + 1]
  BY DEF CopySection, LoadInv
<1>2. /\ image' = image /\ vads' = vads /\ heap' = heap /\ stack' = stack /\ walk' = walk /\ raced' = raced
  BY DEF CopySection, poolVars
<1>3. vads' = [vads EXCEPT ![p] = vads[p]] /\ RegionsOK(vads[p]) /\ Len(vads[p]) >= Len(vads[p])
  BY <1>2, SameEntry DEF LoadInv, RegionsOK
<1>4. walk' \in Walks /\ "map" \in Stages /\ "map" \notin Walking
  BY <1>2 DEF LoadInv, Walks, Walking, Stages
<1>5. sect' \in [Procs -> Nat \ {0}] /\ stack' \in [Procs -> 0 .. Limit]
  BY <1>1, <1>2 DEF LoadInv
<1>6. halted' \in BOOLEAN /\ content' \in [Procs -> SUBSET (Pages \X Entries)]
  <2>1. PICK to : to = Touched(image[p][sect[p]])
    OBVIOUS
  <2>2. CASE \E g \in to : g \notin Pages \/ pte[p][g] = Empty
    BY <2>1, <2>2 DEF CopySection, LoadInv
  <2>3. CASE ~(\E g \in to : g \notin Pages \/ pte[p][g] = Empty)
    <3>1. /\ content' = [content EXCEPT ![p] = content[p] \cup {<<g, pte[p][g]>> : g \in to}]
          /\ halted' = halted
      BY <2>1, <2>3 DEF CopySection, LoadInv
    <3>2. {<<g, pte[p][g]>> : g \in to} \subseteq Pages \X Entries
      BY <2>3 DEF FrameInv
    <3> QED
      BY <3>1, <3>2 DEF LoadInv
  <2> QED
    BY <2>2, <2>3
<1> QED
  BY <1>1, <1>2, <1>3, <1>4, <1>5, <1>6, LoadQuiet

(* EndLoad sets esp to the base of a region.                               *)
LEMMA LoadEnd ==
  ASSUME LoadInv, NEW p \in Procs, EndLoad(p)
  PROVE  LoadInv'
<1>1. Loading(p, "stack") /\ stage' = [stage EXCEPT ![p] = "ready"] /\ stage[p] = "stack"
  BY DEF EndLoad, Loading
<1>2. /\ image' = image /\ vads' = vads /\ heap' = heap /\ walk' = walk /\ raced' = raced
      /\ sect' = sect /\ content' = content /\ halted' = halted
      /\ stack' = [stack EXCEPT ![p] = vads[p][walk.vad].base]
  BY DEF EndLoad, poolVars
<1>3. vads' = [vads EXCEPT ![p] = vads[p]] /\ RegionsOK(vads[p]) /\ Len(vads[p]) >= Len(vads[p])
  BY <1>2, SameEntry DEF LoadInv, RegionsOK
<1>4. walk' \in Walks /\ "ready" \in Stages /\ "ready" \notin Walking /\ "stack" \in Walking
  BY <1>2 DEF LoadInv, Walks, Walking, Stages
<1>5. stack' \in [Procs -> 0 .. Limit]
  <2>1. walk.vad \in 1 .. Len(vads[p])
    BY <1>1, <1>4 DEF LoadInv
  <2>2. vads[p][walk.vad] \in Regions
    BY <1>3, <2>1 DEF RegionsOK
  <2>3. vads[p][walk.vad].base \in 0 .. Limit
    BY <2>2 DEF Regions
  <2> QED
    BY <1>2, <2>3 DEF LoadInv
<1>6. /\ sect' \in [Procs -> Nat \ {0}] /\ halted' \in BOOLEAN
      /\ content' \in [Procs -> SUBSET (Pages \X Entries)]
  BY <1>2 DEF LoadInv
<1> QED
  BY <1>1, <1>2, <1>3, <1>4, <1>5, <1>6, LoadQuiet

(* Once the modules run, the regions stay.                                 *)
LEMMA LoadRest ==
  ASSUME LoadInv, UNCHANGED <<image, stage, sect, vads, content, stack, walk>>,
         halted' \in BOOLEAN, raced' \in BOOLEAN, heap' \in [Procs -> Heaps],
         \A p \in Procs : heap'[p].vad = heap[p].vad
  PROVE  LoadInv'
BY DEF LoadInv, Heaps, Walks, RegionsOK, Ranked, Ranks, Regions, Limit, Procs, Pages, Entries, Frames,
       Empty, NoFrame, Null, Stages, Walking

(* Every step preserves LoadInv.                                           *)
LEMMA LoadKept ==
  ASSUME LoadInv, FrameInv, [SpaceNext]_spaceVars
  PROVE  LoadInv'
<1>1. ASSUME NEW p \in Procs,
             CreateProcess(p) \/ ReservePages(p) \/ MapSection(p) \/ CopySection(p)
             \/ CreateDefaultHeap(p) \/ CreateDefaultStack(p) \/ EndLoad(p)
      PROVE  LoadInv'
  BY <1>1, LoadCreate, LoadReserve, LoadMap, LoadCopy, LoadStack, LoadEnd
<1>2. ASSUME UNCHANGED <<image, stage, sect, vads, content, stack, walk, heap>>,
             halted' \in BOOLEAN, raced' \in BOOLEAN
      PROVE  LoadInv'
  <2>1. heap' \in [Procs -> Heaps]
    BY <1>2 DEF LoadInv, Heaps
  <2> QED
    BY <1>2, <2>1, LoadRest
<1>3. ASSUME NEW p \in Procs, NEW n \in Nat, IncreaseHeap(p, n) PROVE LoadInv'
  <2>1. PICK to : to = (heap[p].limit + n * PageSize) % AddressMod
    OBVIOUS
  <2>2. to \in 0 .. Limit
    <3>1. heap[p].limit \in Int /\ n * PageSize \in Int
      BY ConstantsAre DEF LoadInv
    <3>2. heap[p].limit + n * PageSize \in Int
      BY <3>1
    <3> QED
      BY <2>1, <3>2, ModIs
  <2>3. heap' = [heap EXCEPT ![p].limit = to]
    BY <1>3, <2>1 DEF IncreaseHeap
  <2>4. heap' \in [Procs -> Heaps] /\ \A q \in Procs : heap'[q].vad = heap[q].vad
    BY <2>2, <2>3 DEF LoadInv, Heaps
  <2>5. UNCHANGED <<image, stage, sect, vads, content, stack, walk>> /\ halted' = halted /\ raced' = raced
    BY <1>3 DEF IncreaseHeap, bootVars
  <2>6. halted' \in BOOLEAN /\ raced' \in BOOLEAN
    BY <2>5 DEF LoadInv
  <2> QED
    BY <2>4, <2>5, <2>6, LoadRest
<1>4. ASSUME NEW p \in Procs, NEW a, ResolvePageFault(p, a) PROVE LoadInv'
  <2>1. UNCHANGED <<image, stage, sect, vads, content, stack, walk, heap, raced>>
    BY <1>4 DEF ResolvePageFault
  <2>2. halted' = TRUE \/ halted' = halted
    BY <1>4 DEF ResolvePageFault
  <2>3. halted' \in BOOLEAN /\ raced' \in BOOLEAN
    BY <2>1, <2>2 DEF LoadInv
  <2> QED
    BY <1>2, <2>1, <2>3
<1>5. CASE PoolFind \/ PoolMark \/ \E f \in ram.calls : ReleasePage(f)
  <2>1. UNCHANGED <<image, stage, sect, vads, content, stack, walk, heap, halted>>
    BY <1>5 DEF PoolFind, PoolMark, ReleasePage, bootVars
  <2>2. raced' = raced \/ raced' = (raced \/ pick \in ram.used)
    BY <1>5 DEF PoolFind, PoolMark, ReleasePage
  <2>3. halted' \in BOOLEAN
    BY <2>1 DEF LoadInv
  <2>4. raced' \in BOOLEAN
    BY <2>2 DEF LoadInv
  <2> QED
    BY <1>2, <2>1, <2>3, <2>4
<1>6. CASE UNCHANGED spaceVars
  <2>1. halted' \in BOOLEAN /\ raced' \in BOOLEAN
    BY <1>6 DEF LoadInv, spaceVars
  <2> QED
    BY <1>2, <1>6, <2>1 DEF spaceVars
<1>7. 1 .. NbPages(HeapSize) \subseteq Nat
  BY NbPagesIs, ConstantsAre
<1> QED
  BY <1>1, <1>3, <1>4, <1>5, <1>6, <1>7 DEF SpaceNext, Boot

(* LoadInv holds before the modules are loaded.                            *)
LEMMA LoadInit ==
  ASSUME SpaceInit
  PROVE  LoadInv
<1>1. RegionsOK(<<>>)
  <2>1. PICK vs \in Seq(Regions) : vs = <<>> /\ Len(vs) = 0
    BY EmptySeq
  <2>2. PICK r : r = [j \in 0 .. 0 |-> 0]
    OBVIOUS
  <2>3. r \in [0 .. Len(vs) -> 0 .. 0] /\ Ranks(r, vs)
    BY <2>1, <2>2 DEF Ranks, Null
  <2>4. Ranked(vs)
    BY <2>3 DEF Ranked
  <2> QED
    BY <2>1, <2>4 DEF RegionsOK
<1>2. stage \in [Procs -> Stages] /\ \A p \in Procs : stage[p] = "none"
  BY DEF SpaceInit, Stages
<1>3. vads \in [Procs -> Seq(Regions)] /\ \A p \in Procs : vads[p] = <<>> /\ Len(vads[p]) = 0
  BY DEF SpaceInit
<1>4. heap \in [Procs -> [vad : Nat, limit : 0 .. Limit]] /\ \A p \in Procs : heap[p].vad = 0
  BY ConstantsAre DEF SpaceInit, Null
<1>5. walk \in [vad : Nat, addr : 0 .. Limit, physical : BOOLEAN, done : BOOLEAN]
  BY ConstantsAre DEF SpaceInit, Null
<1>6. image \in [Procs -> Seq([vaddr : 0 .. Limit, size : 0 .. Limit])]
  <2>1. \A p \in Procs : \A img \in ImagesOf[p] : img \in Seq([vaddr : 0 .. Limit, size : 0 .. Limit])
    BY SpaceAssumption DEF Procs, Limit
  <2>2. PICK U : image \in [Procs -> U] /\ \A p \in Procs : image[p] \in ImagesOf[p]
    BY DEF SpaceInit
  <2> QED
    BY <2>1, <2>2
<1>7. /\ sect \in [Procs -> Nat \ {0}] /\ stack \in [Procs -> 0 .. Limit]
      /\ content \in [Procs -> SUBSET (Pages \X Entries)] /\ halted \in BOOLEAN /\ raced \in BOOLEAN
  <2>1. 0 \in 0 .. Limit
    BY ConstantsAre
  <2>2. stack \in [Procs -> 0 .. Limit]
    BY <2>1 DEF SpaceInit, Null
  <2>3. content \in [Procs -> SUBSET (Pages \X Entries)]
    <3>1. PICK E : E = SUBSET (Pages \X Entries) /\ {} \in E
      OBVIOUS
    <3>2. content = [p \in Procs |-> {}]
      BY DEF SpaceInit
    <3>3. content \in [Procs -> E]
      BY <3>1, <3>2
    <3> QED
      BY <3>1, <3>3
  <2>4. sect \in [Procs -> Nat \ {0}]
    BY DEF SpaceInit
  <2>5. halted \in BOOLEAN /\ raced \in BOOLEAN
    BY Zenon DEF SpaceInit
  <2> QED
    BY <2>2, <2>3, <2>4, <2>5
<1>8. \A p \in Procs : RegionsOK(vads[p])
  BY <1>1, <1>3
<1>9. \A p \in Procs : stage[p] \notin Walking
  BY <1>2 DEF Walking
<1>10. \A p \in Procs : heap[p].vad <= Len(vads[p])
  BY <1>3, <1>4
<1> QED
  BY <1>2, <1>3, <1>4, <1>5, <1>6, <1>7, <1>8, <1>9, <1>10 DEF LoadInv, Null

(* The loading of the modules, for any images.                             *)
THEOREM LoadInvariant == SpaceSpec => []LoadInv
<1>1. LoadInv /\ FrameInv /\ [SpaceNext]_spaceVars => LoadInv'
  BY LoadKept
<1> QED
  BY <1>1, LoadInit, FramesInvariant, PTL DEF SpaceSpec

-----------------------------------------------------------------------------
(* The frame that is found is the first one that is free.                  *)
LEMMA FreePageFirst ==
  ASSUME NEW used, NEW f \in Frames \ used, \A g \in Frames \ used : f <= g
  PROVE  GetFreePage(used) = f
<1>1. PICK T : T = Frames \ used
  OBVIOUS
<1>2. T \subseteq Int /\ f \in T
  BY <1>1 DEF Frames
<1>3. PICK h : h = CHOOSE e \in T : \A g \in T : e <= g
  OBVIOUS
<1>4. h \in T /\ \A g \in T : h <= g
  BY <1>1, <1>2, <1>3
<1>5. h <= f /\ f <= h
  BY <1>1, <1>2, <1>4
<1>6. h = f
  BY <1>2, <1>4, <1>5
<1>7. ~(Frames \subseteq used)
  BY <1>1, <1>2
<1> QED
  BY <1>1, <1>3, <1>6, <1>7 DEF GetFreePage

(* No free frame is before the one that is found.                          *)
LEMMA FreePageLeast ==
  ASSUME NEW used, GetFreePage(used) \in Frames
  PROVE  \A g \in Frames \ used : GetFreePage(used) <= g
<1>1. PICK T : T = Frames \ used
  OBVIOUS
<1>2. ~(Frames \subseteq used)
  BY NoFrameIsNone DEF GetFreePage
<1>3. T # {} /\ T \subseteq Nat
  BY <1>1, <1>2, SpaceAssumption DEF Frames
<1>4. \E f \in T : \A g \in T : f <= g
  BY <1>3, LeastFrame
<1>5. PICK h : h = CHOOSE f \in T : \A g \in T : f <= g
  OBVIOUS
<1>6. \A g \in T : h <= g
  BY <1>4, <1>5
<1> QED
  BY <1>1, <1>2, <1>5, <1>6 DEF GetFreePage

(* Frames are taken for the pool while no system call is about to mark     *)
(* one, or one that is marked.                                             *)
LEMMA PoolGrows ==
  ASSUME NEW r, NEW s, NEW pk, PoolOK(r, pk), NEW F \in SUBSET (Frames \ r.used),
         pk \notin Frames \ r.used, s.used = r.used \cup F, s.pool = r.pool \cup F, s.calls = r.calls
  PROVE  PoolOK(s, pk) /\ pk \notin Frames \ s.used
<1>1. pk \notin F
  OBVIOUS
<1>2. s.pool \subseteq s.used /\ s.calls \subseteq s.used /\ s.calls \cap s.pool = {} /\ pk \notin s.pool
  BY <1>1 DEF PoolOK
<1>3. pk \notin Frames \ s.used
  OBVIOUS
<1> QED
  BY <1>2, <1>3 DEF PoolOK

(* A page gets a frame: the one a system call is about to mark, if it is   *)
(* still free.                                                             *)
LEMMA PoolMapFrame ==
  ASSUME FrameInv, NEW p \in Procs, NEW page, PoolOK(ram, pick),
         LET t == TakeFrame(Mem(p)) IN SetMem(p, AddPageToPageDirectory(t, page, t.got))
  PROVE  PoolOK(ram', pick)
<1>1. PICK t : t = TakeFrame(Mem(p))
  OBVIOUS
<1>2. /\ IsMem(t) /\ t.pte = pte[p]
      /\ t.got = NoFrame \/ t.got \in Frames \ ram.used
      /\ t.ram.pool = ram.pool /\ t.ram.calls = ram.calls
      /\ t.ram.used = ram.used \cup ({t.got} \ {NoFrame})
  BY <1>1, MemIs, TakeFrameIs
<1>3. PICK e \in Entries : e = t.got
  BY <1>2 DEF Entries
<1>4. PICK n : n = AddPageToPageDirectory(t, page, e)
  OBVIOUS
<1>5. WithEntry(n, t, page, e)
  BY <1>2, <1>4, AddPageIs
<1>6. \E F \in SUBSET (Frames \ t.ram.used) :
           /\ n.ram.used = t.ram.used \cup F /\ n.ram.pool = t.ram.pool \cup F
           /\ n.ram.calls = t.ram.calls
  BY <1>5 DEF WithEntry
<1>7. ram' = n.ram
  BY <1>1, <1>3, <1>4 DEF SetMem
<1>8. e = GetFreePage(ram.used)
  <2>1. PICK m : m = Mem(p)
    OBVIOUS
  <2>2. IsMem(m) /\ m.ram = ram
    BY <2>1, MemIs
  <2>3. PICK f : f = GetFreePage(m.ram.used)
    OBVIOUS
  <2>4. PICK a, b, c, d : m = [pte |-> a, tables |-> b, ram |-> c, got |-> d]
    BY <2>2 DEF IsMem
  <2>5. TakeFrame(m) = [m EXCEPT !.ram = MarkUsed(c, f), !.got = f]
    BY <2>3, <2>4 DEF TakeFrame
  <2>6. TakeFrame(m).got = f
    BY <2>4, <2>5
  <2> QED
    BY <1>1, <1>3, <2>1, <2>2, <2>3, <2>6
<1>9. PoolOK(t.ram, pick) /\ pick \notin Frames \ t.ram.used
  <2>1. pick \in Frames \ ram.used => e = pick
    BY <1>8, FreePageFirst DEF PoolOK
  <2>2. pick \notin Frames \ t.ram.used
    BY <1>2, <1>3, <2>1, NoFrameIsNone
  <2>3. t.ram.pool \subseteq t.ram.used /\ t.ram.calls \subseteq t.ram.used
    BY <1>2 DEF PoolOK
  <2> QED
    BY <1>2, <2>2, <2>3 DEF PoolOK
<1> QED
  BY <1>6, <1>7, <1>9, PoolGrows

(* While the modules are loaded, no system call is under way.              *)
LEMMA PoolBoot ==
  ASSUME PoolInv, NEW p \in Procs, NEW s, Loading(p, s), s # "ready"
  PROVE  pick = Null /\ pick \notin Frames
BY NoFrameIsNone DEF PoolInv, Loading

(* A step of the loader that takes frames for the pool only.               *)
LEMMA PoolTaken ==
  ASSUME PoolInv, pick = Null, pick \notin Frames, pick' = pick, ram' \in Rams,
         NEW F \in SUBSET (Frames \ ram.used), ram'.used = ram.used \cup F,
         ram'.pool = ram.pool \cup F, ram'.calls = ram.calls
  PROVE  PoolInv'
<1>1. PICK s : s = ram'
  OBVIOUS
<1>2. PICK pk : pk = pick
  OBVIOUS
<1>3. PoolOK(s, pk)
  <2>1. PoolOK(ram, pk) /\ pk \notin Frames \ ram.used
    BY <1>2 DEF PoolInv
  <2>2. s.used = ram.used \cup F /\ s.pool = ram.pool \cup F /\ s.calls = ram.calls
    BY <1>1
  <2> QED
    BY <2>1, <2>2, PoolGrows
<1>4. PoolOK(ram', pick')
  BY <1>1, <1>2, <1>3
<1> QED
  BY <1>4 DEF PoolInv, PoolOK, Frames, Null, Procs

(* Frames and stages stay, or no system call is under way.                 *)
LEMMA PoolSame ==
  ASSUME PoolInv, ram' = ram, pick' = pick, pick = Null \/ stage' = stage
  PROVE  PoolInv'
BY DEF PoolInv, PoolOK, Frames, Null, Procs

(* CreateProcess takes two frames for the pool.                            *)
LEMMA PoolCreate ==
  ASSUME FrameInv, PoolInv, NEW p \in Procs, CreateProcess(p)
  PROVE  PoolInv'
<1>1. PICK m : m = Mem(p)
  OBVIOUS
<1>2. IsMem(m) /\ m.pte = pte[p] /\ m.ram = ram
  BY <1>1, MemIs
<1>3. PICK a : a = PageAlloc(m)
  OBVIOUS
<1>4. /\ IsMem(a) /\ a.pte = m.pte
      /\ \E F \in SUBSET (Frames \ m.ram.used) :
           /\ a.ram.used = m.ram.used \cup F /\ a.ram.pool = m.ram.pool \cup F
           /\ a.ram.calls = m.ram.calls
  BY <1>2, <1>3, PageAllocIs
<1>5. PICK b : b = PageAlloc(a)
  OBVIOUS
<1>6. /\ IsMem(b) /\ b.pte = a.pte
      /\ \E F \in SUBSET (Frames \ a.ram.used) :
           /\ b.ram.used = a.ram.used \cup F /\ b.ram.pool = a.ram.pool \cup F
           /\ b.ram.calls = a.ram.calls
  BY <1>4, <1>5, PageAllocIs
<1>7. ram' = b.ram /\ pick' = pick /\ Loading(p, "none")
  BY <1>1, <1>3, <1>5 DEF CreateProcess, InitUserThread, CreateProcessPageDirectory, SetMem, poolVars
<1>8. pick = Null /\ pick \notin Frames
  BY <1>7, PoolBoot
<1>9. \E F \in SUBSET (Frames \ ram.used) :
        /\ b.ram.used = ram.used \cup F /\ b.ram.pool = ram.pool \cup F
        /\ b.ram.calls = ram.calls
  <2>1. PICK F \in SUBSET (Frames \ ram.used) :
          /\ a.ram.used = ram.used \cup F /\ a.ram.pool = ram.pool \cup F
          /\ a.ram.calls = ram.calls
    BY <1>2, <1>4
  <2>2. PICK G \in SUBSET (Frames \ a.ram.used) :
          /\ b.ram.used = a.ram.used \cup G /\ b.ram.pool = a.ram.pool \cup G
          /\ b.ram.calls = a.ram.calls
    BY <1>6
  <2>3. PICK H : H = F \cup G
    OBVIOUS
  <2>4. H \in SUBSET (Frames \ ram.used)
    BY <2>1, <2>2, <2>3
  <2>5. /\ b.ram.used = ram.used \cup H /\ b.ram.pool = ram.pool \cup H
        /\ b.ram.calls = ram.calls
    BY <2>1, <2>2, <2>3
  <2> QED
    BY <2>4, <2>5
<1>10. ram' \in Rams
  BY <1>6, <1>7 DEF IsMem
<1> QED
  BY <1>7, <1>8, <1>9, <1>10, PoolTaken

(* Setting an entry that is not present.                                   *)
LEMMA PoolMapEmpty ==
  ASSUME FrameInv, PoolInv, NEW p \in Procs, NEW page, pick = Null, pick \notin Frames, pick' = pick,
         SetMem(p, AddPageToPageDirectory(Mem(p), page, Empty))
  PROVE  PoolInv'
<1>1. PICK t : t = Mem(p)
  OBVIOUS
<1>2. IsMem(t) /\ t.pte = pte[p] /\ t.ram = ram
  BY <1>1, MemIs
<1>3. PICK e \in Entries : e = Empty
  BY DEF Entries
<1>4. PICK n : n = AddPageToPageDirectory(t, page, e)
  OBVIOUS
<1>5. WithEntry(n, t, page, e)
  BY <1>2, <1>4, AddPageIs
<1>6. /\ IsMem(n)
      /\ \E F \in SUBSET (Frames \ ram.used) :
           /\ n.ram.used = ram.used \cup F /\ n.ram.pool = ram.pool \cup F
           /\ n.ram.calls = ram.calls
  BY <1>2, <1>5 DEF WithEntry
<1>7. ram' = n.ram
  BY <1>1, <1>3, <1>4 DEF SetMem
<1>8. ram' \in Rams
  BY <1>6, <1>7 DEF IsMem
<1> QED
  BY <1>6, <1>7, <1>8, PoolTaken

(* Setting an entry to a frame.                                            *)
LEMMA PoolMap ==
  ASSUME FrameInv, PoolInv, NEW p \in Procs, NEW page, pick' = pick, stage' = stage,
         LET t == TakeFrame(Mem(p)) IN SetMem(p, AddPageToPageDirectory(t, page, t.got))
  PROVE  PoolInv'
<1>1. PoolOK(ram', pick)
  BY PoolMapFrame DEF PoolInv
<1> QED
  BY <1>1 DEF PoolInv, PoolOK, Frames, Null, Procs

(* ReservePages takes frames for page tables, and for the pages.           *)
LEMMA PoolReserve ==
  ASSUME FrameInv, PoolInv, NEW p \in Procs, ReservePages(p)
  PROVE  PoolInv'
<1>1. PICK s \in {"copy", "heap", "stack"} : Loading(p, s)
  BY DEF ReservePages
<1>2. pick = Null /\ pick \notin Frames
  BY <1>1, PoolBoot
<1>3. pick' = pick /\ stage' = stage
  BY DEF ReservePages, poolVars
<1>4. CASE walk.addr < vads[p][walk.vad].limit
  <2>1. PICK page : page = PageOf(walk.addr)
    OBVIOUS
  <2>2. CASE walk.physical
    <3>1. LET t == TakeFrame(Mem(p)) IN SetMem(p, AddPageToPageDirectory(t, page, t.got))
      BY <1>4, <2>1, <2>2 DEF ReservePages
    <3> QED
      BY <1>3, <3>1, PoolMap
  <2>3. CASE ~walk.physical
    <3>1. SetMem(p, AddPageToPageDirectory(Mem(p), page, Empty))
      BY <1>4, <2>1, <2>3 DEF ReservePages
    <3> QED
      BY <1>2, <1>3, <3>1, PoolMapEmpty
  <2> QED
    BY <2>2, <2>3
<1>5. CASE ~(walk.addr < vads[p][walk.vad].limit)
  <2>1. ram' = ram
    BY <1>5 DEF ReservePages
  <2> QED
    BY <1>2, <1>3, <2>1, PoolSame
<1> QED
  BY <1>4, <1>5

(* Every step preserves PoolInv.                                           *)
LEMMA PoolKept ==
  ASSUME FrameInv, PoolInv, [SpaceNext]_spaceVars
  PROVE  PoolInv'
<1>1. ASSUME NEW p \in Procs,
             MapSection(p) \/ CopySection(p) \/ CreateDefaultHeap(p) \/ CreateDefaultStack(p) \/ EndLoad(p)
      PROVE  PoolInv'
  <2>1. \E s \in {"map", "copy", "heap", "stack"} : Loading(p, s)
    BY <1>1 DEF MapSection, CopySection, CreateDefaultHeap, CreateDefaultStack, EndLoad
  <2>2. ram' = ram /\ pick' = pick
    BY <1>1 DEF MapSection, CopySection, CreateDefaultHeap, CreateDefaultStack, EndLoad, poolVars
  <2>3. pick = Null
    BY <2>1, PoolBoot
  <2> QED
    BY <2>2, <2>3, PoolSame
<1>2. ASSUME NEW p \in Procs, NEW n, IncreaseHeap(p, n) PROVE PoolInv'
  <2>1. ram' = ram /\ pick' = pick /\ stage' = stage
    BY <1>2 DEF IncreaseHeap, bootVars
  <2> QED
    BY <2>1, PoolSame
<1>3. ASSUME NEW p \in Procs, NEW a, ResolvePageFault(p, a) PROVE PoolInv'
  <2>1. pick' = pick /\ stage' = stage
    BY <1>3 DEF ResolvePageFault
  <2>2. PICK page : page = PageOf(a)
    OBVIOUS
  <2>3. \/ ram' = ram
        \/ LET t == TakeFrame(Mem(p)) IN SetMem(p, AddPageToPageDirectory(t, page, t.got))
    BY <1>3, <2>2 DEF ResolvePageFault
  <2> QED
    BY <2>1, <2>3, PoolSame, PoolMap
<1>4. CASE PoolFind
  <2>1. PICK f : f = GetFreePage(ram.used)
    OBVIOUS
  <2>2. ram' = ram /\ pick' = f /\ stage' = stage /\ \A p \in Procs : stage[p] = "ready"
    BY <1>4, <2>1 DEF PoolFind, bootVars, Operation, Up
  <2>3. f = NoFrame \/ f \in Frames \ ram.used
    BY <2>1, FreePageIs
  <2>4. f \notin ram.pool
    BY <2>3, NoFrameIsNone DEF PoolInv, PoolOK, FrameInv, Rams
  <2>5. f \in Frames \ ram.used => \A g \in Frames \ ram.used : f <= g
    BY <2>1, FreePageLeast
  <2>6. PoolOK(ram, f)
    BY <2>4, <2>5 DEF PoolInv, PoolOK
  <2> QED
    BY <2>2, <2>6 DEF PoolInv, PoolOK, Frames, Null, Procs
<1>5. CASE PoolMark
  <2>1. PICK r \in Rams : r = ram
    BY DEF FrameInv
  <2>2. PICK u, c : u = r.used \cup ({pick} \ {NoFrame}) /\ c = r.calls \cup ({pick} \ {NoFrame})
    OBVIOUS
  <2>3. MarkUsed(r, pick) = [used |-> u, pool |-> r.pool, calls |-> r.calls]
    BY <2>1, <2>2 DEF MarkUsed, Rams
  <2>4. ram' = [used |-> u, pool |-> r.pool, calls |-> c]
    BY <1>5, <2>1, <2>2, <2>3 DEF PoolMark
  <2>5. pick' = Null /\ stage' = stage
    BY <1>5 DEF PoolMark, bootVars
  <2>6. PICK s : s = ram' /\ s.used = u /\ s.pool = r.pool /\ s.calls = c
    BY <2>4
  <2>7. s.pool \subseteq s.used /\ s.calls \subseteq s.used /\ s.calls \cap s.pool = {}
    BY <2>1, <2>2, <2>6 DEF PoolInv, PoolOK
  <2>8. Null \notin s.pool /\ Null \notin Frames
    BY <2>1, <2>6, NoFrameIsNone DEF PoolInv, PoolOK, Rams
  <2>9. PoolOK(s, Null)
    BY <2>7, <2>8 DEF PoolOK
  <2> QED
    BY <2>5, <2>6, <2>9 DEF PoolInv, PoolOK, Frames, Null, Procs
<1>6. ASSUME NEW f \in ram.calls, ReleasePage(f) PROVE PoolInv'
  <2>1. PICK r \in Rams : r = ram
    BY DEF FrameInv
  <2>2. ram' = [used |-> r.used \ {f}, pool |-> r.pool, calls |-> r.calls \ {f}]
    BY <1>6, <2>1 DEF ReleasePage, Rams
  <2>3. pick' = Null /\ stage' = stage
    BY <1>6 DEF ReleasePage, bootVars
  <2>4. PICK s : s = ram' /\ s.used = r.used \ {f} /\ s.pool = r.pool /\ s.calls = r.calls \ {f}
    BY <2>2
  <2>5. s.pool \subseteq s.used /\ s.calls \subseteq s.used /\ s.calls \cap s.pool = {}
    BY <1>6, <2>1, <2>4 DEF PoolInv, PoolOK
  <2>6. Null \notin s.pool /\ Null \notin Frames
    BY <2>1, <2>4, NoFrameIsNone DEF PoolInv, PoolOK, Rams
  <2>7. PoolOK(s, Null)
    BY <2>5, <2>6 DEF PoolOK
  <2> QED
    BY <2>3, <2>4, <2>7 DEF PoolInv, PoolOK, Frames, Null, Procs
<1>7. CASE UNCHANGED spaceVars
  BY <1>7, PoolSame DEF spaceVars
<1> QED
  BY <1>1, <1>2, <1>3, <1>4, <1>5, <1>6, <1>7, PoolCreate, PoolReserve DEF SpaceNext, Boot

(* What the system calls and the page pool have, for any images and        *)
(* whatever is preempted.                                                  *)
THEOREM PoolInvariant == SpaceSpec => []PoolInv
<1>1. ASSUME SpaceInit PROVE PoolInv
  <2>1. ram.used = {} /\ ram.pool = {} /\ ram.calls = {} /\ pick = Null
    BY <1>1 DEF SpaceInit
  <2>2. pick \notin Frames
    BY <2>1, NoFrameIsNone
  <2> QED
    BY <2>1, <2>2 DEF PoolInv, PoolOK
<1>2. FrameInv /\ PoolInv /\ [SpaceNext]_spaceVars => PoolInv'
  BY PoolKept
<1> QED
  BY <1>1, <1>2, FramesInvariant, PTL DEF SpaceSpec

(* The type invariant.                                                     *)
THEOREM SpaceTypes == SpaceSpec => []SpaceTypeOK
<1>1. ASSUME LoadInv, FrameInv, PoolInv PROVE SpaceTypeOK
  <2>1. ASSUME NEW p \in Procs, NEW i \in DOMAIN vads[p]
        PROVE  /\ vads[p][i].base \in 0 .. Limit /\ vads[p][i].limit \in 0 .. Limit
               /\ vads[p][i].size \in 0 .. Limit /\ vads[p][i].next \in 0 .. Len(vads[p])
    <3>1. RegionsOK(vads[p]) /\ i \in 1 .. Len(vads[p])
      BY <1>1, <2>1 DEF LoadInv, RegionsOK
    <3>2. vads[p][i] \in Regions /\ vads[p][i].next \in 0 .. Len(vads[p])
      BY <3>1 DEF RegionsOK
    <3> QED
      BY <3>2 DEF Regions
  <2>2. ASSUME NEW p \in Procs
        PROVE  /\ pte[p] \in [Pages -> Frames \cup {Empty, NoFrame}]
               /\ heap[p].vad \in 0 .. Len(vads[p]) /\ heap[p].limit \in 0 .. Limit
    <3>1. heap[p].vad \in Nat /\ heap[p].vad <= Len(vads[p]) /\ heap[p].limit \in 0 .. Limit
      BY <1>1 DEF LoadInv
    <3>2. Len(vads[p]) \in Nat
      BY <1>1 DEF LoadInv
    <3>3. pte[p] \in [Pages -> Frames \cup {Empty, NoFrame}]
      BY <1>1 DEF FrameInv, Entries
    <3> QED
      BY <3>1, <3>2, <3>3
  <2>3. ram.used \subseteq Frames /\ ram.pool \subseteq ram.used
    BY <1>1 DEF FrameInv, Rams, PoolInv, PoolOK
  <2>4. pick \in Frames \cup {Null, NoFrame} /\ halted \in BOOLEAN /\ raced \in BOOLEAN
    BY <1>1 DEF FrameInv, LoadInv
  <2>5. stage \in [Procs -> {"none", "map", "copy", "heap", "stack", "ready"}]
    BY <1>1 DEF LoadInv, Stages
  <2> QED
    BY <2>1, <2>2, <2>3, <2>4, <2>5 DEF SpaceTypeOK
<1> QED
  BY <1>1, LoadInvariant, FramesInvariant, PoolInvariant, PTL

-----------------------------------------------------------------------------
(* The sections of a well placed program.                                  *)

Sections == [vaddr : 0 .. Limit, size : 0 .. Limit]

(* WellPlaced, of the sections that are mapped.                            *)
Placed(s) ==
  /\ \A i \in 1 .. Len(s) :
       /\ s[i].size > 0
       /\ (s[i].vaddr % PageSize) + (s[i].size % PageSize) <= PageSize
       /\ s[i].vaddr - SecEnd(s, i - 1) >= 0
       /\ s[i].vaddr - SecEnd(s, i - 1) < HeapSize /\ s[i].vaddr - SecEnd(s, i - 1) < StackSize
       /\ i > 1 => \A j \in i + 1 .. Len(s) : s[i].vaddr - SecEnd(s, i - 1) < s[j].size
  /\ SecEnd(s, Len(s)) + (NbPages(HeapSize) + NbPages(StackSize) + 1) * PageSize <= Limit

(* The sections that are mapped are the ones before the first without an   *)
(* address.                                                                *)
LEMMA MappedIs ==
  ASSUME NEW img \in Seq(Sections), NEW s, s = Mapped(img)
  PROVE  /\ s \in Seq(Sections) /\ Len(s) <= Len(img) /\ \A i \in 1 .. Len(s) : s[i] = img[i]
         /\ Len(s) + 1 <= Len(img) => img[Len(s) + 1].vaddr = Null
<1>1. PICK n \in Nat : n = Len(img)
  OBVIOUS
<1>2. PICK I : I = {i \in 1 .. n : img[i].vaddr = Null}
  OBVIOUS
<1>3. SelectInSeq(img, LAMBDA t : t.vaddr = Null) = IF I # {} THEN Min(I) ELSE 0
  BY <1>1, <1>2 DEF SelectInSeq
<1>4. CASE I = {}
  <2>1. s = img
    BY <1>3, <1>4 DEF Mapped
  <2> QED
    BY <1>1, <2>1
<1>5. CASE I # {}
  <2>1. I \subseteq Nat
    BY <1>2
  <2>2. \E k \in I : \A j \in I : k <= j
    BY <1>5, <2>1, LeastFrame
  <2>3. PICK k : k = Min(I)
    OBVIOUS
  <2>4. k \in I
    BY <2>2, <2>3 DEF Min
  <2>5. k \in 1 .. n /\ img[k].vaddr = Null
    BY <1>2, <2>4
  <2>6. k # 0
    BY <2>5
  <2>7. s = SubSeq(img, 1, k - 1)
    BY <1>3, <1>5, <2>3, <2>6 DEF Mapped
  <2>8. s \in Seq(Sections) /\ Len(s) = k - 1 /\ \A i \in 1 .. k - 1 : s[i] = img[i]
    <3>1. k - 1 \in 0 .. n
      BY <2>5
    <3> QED
      BY <1>1, <2>5, <2>7, <3>1
  <2> QED
    BY <1>1, <2>5, <2>8
<1> QED
  BY <1>4, <1>5

(* A well placed program has well placed sections.                         *)
LEMMA PlacedIs ==
  ASSUME NEW img \in Seq(Sections), WellPlaced(img)
  PROVE  Placed(Mapped(img))
<1>1. PICK s : s = Mapped(img)
  OBVIOUS
<1>2. s \in Seq(Sections)
  BY <1>1, MappedIs
<1>3. DOMAIN s = 1 .. Len(s)
  BY <1>2
<1> QED
  BY <1>1, <1>3 DEF WellPlaced, Placed, SecEnd

(* The end of a section.                                                   *)
LEMMA EndIs ==
  ASSUME NEW s \in Seq(Sections), NEW i \in 1 .. Len(s)
  PROVE  \E v, z \in 0 .. Limit, N \in Nat :
           /\ v = s[i].vaddr /\ z = s[i].size /\ N = NbPages(z) * PageSize
           /\ z < N /\ N <= z + PageSize /\ End(s[i]) = v + N
           /\ SecEnd(s, i) = v + N
<1>1. s[i] \in Sections
  OBVIOUS
<1>2. PICK v, z \in 0 .. Limit : v = s[i].vaddr /\ z = s[i].size
  BY <1>1 DEF Sections
<1>3. PICK N \in Nat : N = NbPages(z) * PageSize /\ z < N /\ N <= z + PageSize
  BY NbPagesIs
<1>4. End(s[i]) = v + N /\ i # 0
  BY <1>2, <1>3 DEF End
<1>5. SecEnd(s, i) = v + N
  BY <1>4 DEF SecEnd
<1> QED
  BY <1>2, <1>3, <1>4, <1>5

(* The ends ascend.                                                        *)
LEMMA EndsAscend ==
  ASSUME NEW s \in Seq(Sections), Placed(s)
  PROVE  \A i \in 0 .. Len(s) : SecEnd(s, i) \in Nat /\ SecEnd(s, i) <= SecEnd(s, Len(s))
<1>1. PICK n \in Nat : n = Len(s)
  OBVIOUS
<1>2. ASSUME NEW i \in 0 .. n PROVE SecEnd(s, i) \in Nat
  <2>1. CASE i = 0
    BY <2>1, ConstantsAre DEF SecEnd
  <2>2. CASE i # 0
    <3>1. i \in 1 .. Len(s)
      BY <1>1, <2>2
    <3>2. PICK v \in 0 .. Limit, N \in Nat : SecEnd(s, i) = v + N
      BY <3>1, EndIs
    <3> QED
      BY <3>2
  <2> QED
    BY <2>1, <2>2
<1>3. ASSUME NEW i \in 1 .. n PROVE SecEnd(s, i - 1) <= SecEnd(s, i)
  <2>1. PICK v, z \in 0 .. Limit, N \in Nat : v = s[i].vaddr /\ SecEnd(s, i) = v + N
    BY <1>1, EndIs
  <2>2. v - SecEnd(s, i - 1) >= 0
    BY <1>1, <2>1 DEF Placed
  <2>3. i - 1 \in 0 .. n
    OBVIOUS
  <2>4. PICK e \in Nat : e = SecEnd(s, i - 1)
    BY <1>2, <2>3
  <2> QED
    BY <2>1, <2>2, <2>4
<1>4. PICK f : f = [i \in 0 .. n |-> SecEnd(s, i)]
  OBVIOUS
<1>5. f \in [0 .. n -> Nat] /\ \A i \in 1 .. n : f[i - 1] <= f[i]
  BY <1>2, <1>3, <1>4
<1> DEFINE T == {d \in 0 .. n : ~(f[n - d] <= f[n])}
<1>6. T = {}
  <2> SUFFICES ASSUME T # {} PROVE FALSE
    OBVIOUS
  <2>0. T \subseteq Nat
    OBVIOUS
  <2>1. PICK d \in T : \A l \in T : d <= l
    <3> HIDE DEF T
    <3> QED
      BY <2>0, LeastFrame
  <2>2. d \in 0 .. n /\ ~(f[n - d] <= f[n])
    BY <2>1
  <2>3. d # 0
    BY <1>5, <2>2
  <2>4. PICK e \in 0 .. n : e = d - 1 /\ ~(d <= e)
    BY <2>2, <2>3
  <2>5. f[n - e] <= f[n]
    BY <2>1, <2>4
  <2>6. PICK i \in 1 .. n : i = n - e /\ n - d = i - 1
    BY <2>2, <2>3, <2>4
  <2>7. f[i - 1] <= f[i] /\ f[i - 1] \in Nat /\ f[i] \in Nat /\ f[n] \in Nat
    BY <1>5, <2>6
  <2> QED
    BY <2>2, <2>5, <2>6, <2>7
<1>7. ASSUME NEW i \in 0 .. n PROVE SecEnd(s, i) <= SecEnd(s, n)
  <2>1. PICK d \in 0 .. n : d = n - i /\ n - d = i
    OBVIOUS
  <2>2. f[i] <= f[n]
    BY <1>6, <2>1
  <2> QED
    BY <1>4, <2>2
<1> QED
  BY <1>1, <1>2, <1>7

(* Behind each section there is room for one more page.                    *)
LEMMA SectionFits ==
  ASSUME NEW s \in Seq(Sections), Placed(s), NEW i \in 1 .. Len(s)
  PROVE  \E v, z \in 0 .. Limit, N, e \in Nat :
           /\ v = s[i].vaddr /\ z = s[i].size /\ N = NbPages(z) * PageSize
           /\ z < N /\ N <= z + PageSize /\ End(s[i]) = v + N /\ SecEnd(s, i) = v + N
           /\ z > 0 /\ e = SecEnd(s, i - 1) /\ e <= v /\ v + N + PageSize <= Limit
<1>1. PICK v, z \in 0 .. Limit, N \in Nat :
           /\ v = s[i].vaddr /\ z = s[i].size /\ N = NbPages(z) * PageSize
           /\ z < N /\ N <= z + PageSize /\ End(s[i]) = v + N /\ SecEnd(s, i) = v + N
  BY EndIs
<1>2. i \in 0 .. Len(s) /\ i - 1 \in 0 .. Len(s) /\ Len(s) \in 0 .. Len(s)
  OBVIOUS
<1>3. PICK e, t \in Nat : e = SecEnd(s, i - 1) /\ t = SecEnd(s, Len(s)) /\ v + N <= t
  BY <1>1, <1>2, EndsAscend
<1>4. z > 0 /\ e <= v
  BY <1>1, <1>3 DEF Placed
<1>5. t + (NbPages(HeapSize) + NbPages(StackSize) + 1) * PageSize <= Limit
  BY <1>3 DEF Placed
<1>6. PICK h, k, P \in Nat : h = NbPages(HeapSize) /\ k = NbPages(StackSize) /\ P = PageSize
  BY NbPagesIs, ConstantsAre
<1>7. (h + k + 1) * P >= P
  <2>1. (h + k + 1) * P = h * P + k * P + P /\ h * P \in Nat /\ k * P \in Nat
    BY <1>6
  <2> QED
    BY <2>1
<1>8. v + N + PageSize <= Limit
  <2>1. PICK x \in Nat : x = (h + k + 1) * P
    BY <1>6
  <2>2. t + x <= Limit
    BY <1>5, <1>6, <2>1
  <2>3. x >= P
    BY <1>7, <2>1
  <2>4. v + N + P <= Limit
    BY <1>3, <2>2, <2>3, ConstantsAre
  <2> QED
    BY <1>6, <2>4
<1> QED
  BY <1>1, <1>3, <1>4, <1>8

(* Behind the last section there is room for heap, stack and one page.     *)
LEMMA HeapStackFit ==
  ASSUME NEW s \in Seq(Sections), Placed(s)
  PROVE  \E t, H, K \in Nat :
           /\ t = SecEnd(s, Len(s)) /\ H = NbPages(HeapSize) * PageSize /\ K = NbPages(StackSize) * PageSize
           /\ (NbPages(StackSize) + 1) * PageSize = K + PageSize
           /\ t + H + K + PageSize <= Limit
<1>1. PICK t \in Nat : t = SecEnd(s, Len(s))
  BY EndsAscend
<1>2. PICK h, k, P \in Nat : h = NbPages(HeapSize) /\ k = NbPages(StackSize) /\ P = PageSize
  BY NbPagesIs, ConstantsAre
<1>3. PICK H, K \in Nat : H = h * P /\ K = k * P
  BY <1>2
<1>4. (h + k + 1) * P = h * P + k * P + P
  OBVIOUS
<1>41. (k + 1) * P = k * P + P
  OBVIOUS
<1>5. t + (h + k + 1) * P <= Limit
  BY <1>1, <1>2 DEF Placed
<1>6. t + H + K + P <= Limit
  BY <1>3, <1>4, <1>5, ConstantsAre
<1> QED
  BY <1>1, <1>2, <1>3, <1>41, <1>6

-----------------------------------------------------------------------------
(* Pages                                                                   *)
LEMMA PageIs ==
  ASSUME NEW a \in Nat
  PROVE  \E q \in Nat, r \in 0 .. PageSize - 1 : a = q * PageSize + r /\ q = PageOf(a) /\ r = a % PageSize
<1>1. PICK P \in Nat : P = PageSize /\ P > 0
  BY ConstantsAre
<1>2. PICK q \in Nat : q = a \div P
  BY <1>1
<1>3. PICK r \in 0 .. P - 1 : r = a % P
  BY <1>1
<1>4. a = q * P + r
  BY <1>1, <1>2, <1>3
<1> QED
  BY <1>1, <1>2, <1>3, <1>4 DEF PageOf

(* An address below a page boundary is in a page below it.                 *)
LEMMA PageBelow ==
  ASSUME NEW a \in Nat, NEW q \in Nat
  PROVE  /\ a < q * PageSize => PageOf(a) < q
         /\ a >= q * PageSize => PageOf(a) >= q
<1>1. PICK P \in Nat : P = PageSize /\ P > 0
  BY ConstantsAre
<1>2. PICK d \in Nat, r \in 0 .. P - 1 : a = d * P + r /\ d = PageOf(a)
  BY <1>1, PageIs
<1>3. ASSUME a < q * P, d >= q PROVE FALSE
  <2>1. PICK x \in Nat : d = q + x
    BY <1>3
  <2>2. d * P = q * P + x * P /\ x * P >= 0
    BY <1>1, <2>1
  <2> QED
    BY <1>1, <1>2, <1>3, <2>2
<1>4. ASSUME a >= q * P, d < q PROVE FALSE
  <2>1. PICK x \in Nat : q = d + 1 + x
    <3>1. q - d - 1 \in Nat
      BY <1>4
    <3> QED
      BY <3>1
  <2>2. q * P = d * P + P + x * P /\ x * P >= 0
    BY <1>1, <2>1
  <2> QED
    BY <1>1, <1>2, <1>4, <2>2
<1> QED
  BY <1>1, <1>2, <1>3, <1>4

(* The pages of ascending addresses ascend.                                *)
LEMMA PagesAscend ==
  ASSUME NEW a \in Nat, NEW b \in Nat, a <= b
  PROVE  PageOf(a) \in Nat /\ PageOf(b) \in Nat /\ PageOf(a) <= PageOf(b)
<1>1. PICK q \in Nat, r \in 0 .. PageSize - 1 : a = q * PageSize + r /\ q = PageOf(a)
  BY PageIs
<1>2. PICK d \in Nat : d = PageOf(b)
  BY PageIs
<1>3. PICK x \in Nat : x = q * PageSize
  BY ConstantsAre
<1>4. b >= x
  BY <1>1, <1>3, ConstantsAre
<1>5. d >= q
  BY <1>2, <1>3, <1>4, PageBelow
<1> QED
  BY <1>1, <1>2, <1>5

(* A section does not reach the page that follows its region, if it does   *)
(* not need one page more than it gets.                                    *)
LEMMA SectionPages ==
  ASSUME NEW v \in Nat, NEW z \in Nat, z > 0, (v % PageSize) + (z % PageSize) <= PageSize,
         NEW a \in v .. v + z - 1, NEW N \in Nat, N = NbPages(z) * PageSize
  PROVE  a \in Nat /\ PageOf(v) <= PageOf(a) /\ PageOf(a) < PageOf(v + N)
<1>1. PICK P \in Nat : P = PageSize /\ P > 0
  BY ConstantsAre
<1>2. PICK q \in Nat, r \in 0 .. P - 1 : v = q * P + r /\ q = PageOf(v) /\ r = v % P
  BY <1>1, PageIs
<1>3. PICK m \in Nat, t \in 0 .. P - 1 : z = m * P + t /\ m = PageOf(z) /\ t = z % P
  BY <1>1, PageIs
<1>4. N = (m + 1) * P
  BY <1>1, <1>3 DEF NbPages, PageOf
<1>5. r + t <= P
  BY <1>1, <1>2, <1>3
<1>6. PICK u \in Nat : u = q + m + 1
  OBVIOUS
<1>7. u * P = q * P + m * P + P /\ (m + 1) * P = m * P + P
  BY <1>1, <1>6
<1>8. PICK qp, mp \in Nat : qp = q * P /\ mp = m * P
  BY <1>1
<1>9. a \in Nat /\ v <= a /\ a < u * P
  BY <1>1, <1>2, <1>3, <1>5, <1>7, <1>8
<1>10. v + N \in Nat /\ v + N >= u * P
  BY <1>1, <1>2, <1>4, <1>7, <1>8
<1>11. PageOf(a) < u
  BY <1>1, <1>9, PageBelow
<1>12. PageOf(v + N) >= u
  BY <1>1, <1>10, PageBelow
<1>13. PageOf(a) \in Nat /\ PageOf(v + N) \in Nat /\ PageOf(v) <= PageOf(a)
  BY <1>9, <1>10, PagesAscend
<1> QED
  BY <1>9, <1>11, <1>12, <1>13

-----------------------------------------------------------------------------
(* Regions that tile the space                                             *)

(* A region that is followed by another ends before it.                    *)
LEMMA TiledOrder ==
  ASSUME NEW vs, RegionsOK(vs), Tiled(vs), NEW i \in 1 .. Len(vs), NEW j \in 1 .. Len(vs), i < j
  PROVE  vs[i].limit <= vs[j].base
<1>1. PICK n \in Nat : n = Len(vs) /\ vs \in Seq(Regions)
  BY DEF RegionsOK
<1>2. \A k \in 1 .. n : vs[k] \in Regions
  BY <1>1
<1>3. PICK b, l : b = [k \in 1 .. n |-> vs[k].base] /\ l = [k \in 1 .. n |-> vs[k].limit]
  OBVIOUS
<1>4. b \in [1 .. n -> 0 .. Limit] /\ l \in [1 .. n -> 0 .. Limit]
  BY <1>2, <1>3 DEF Regions
<1>5. /\ \A k \in 1 .. n : b[k] <= l[k]
      /\ \A k \in 1 .. n - 1 : l[k] = b[k + 1]
  <2>1. ASSUME NEW k \in 1 .. n PROVE b[k] <= l[k]
    <3>1. vs[k] \in Regions /\ vs[k].limit = vs[k].base + vs[k].size
      BY <1>1, <1>2 DEF Tiled
    <3>2. PICK c \in 0 .. Limit : c = vs[k].size
      BY <3>1 DEF Regions
    <3>3. l[k] = b[k] + c
      BY <1>3, <3>1, <3>2
    <3> QED
      BY <1>4, <3>3
  <2>2. ASSUME NEW k \in 1 .. n - 1 PROVE l[k] = b[k + 1]
    <3>1. k \in 1 .. n /\ k + 1 \in 1 .. n
      BY <1>1
    <3> QED
      BY <1>1, <1>3, <3>1 DEF Tiled
  <2> QED
    BY <2>1, <2>2
<1> DEFINE T == {k \in 1 .. n : i < k /\ ~(l[i] <= b[k])}
<1>6. T = {}
  <2> SUFFICES ASSUME T # {} PROVE FALSE
    OBVIOUS
  <2>0. T \subseteq Nat
    OBVIOUS
  <2>1. PICK k \in T : \A m \in T : k <= m
    <3> HIDE DEF T
    <3> QED
      BY <2>0, LeastFrame
  <2>2. k \in 1 .. n /\ i < k /\ ~(l[i] <= b[k])
    BY <2>1
  <2>3. PICK m \in 1 .. n - 1 : m = k - 1 /\ m + 1 = k /\ ~(k <= m) /\ i <= m
    BY <1>1, <2>2
  <2>4. l[m] = b[k] /\ b[m] <= l[m]
    BY <1>5, <2>3
  <2>5. m # i
    BY <1>4, <2>2, <2>4
  <2>6. m \in 1 .. n /\ i < m
    BY <1>1, <2>3, <2>5
  <2>7. l[i] <= b[m]
    BY <2>1, <2>3, <2>6
  <2>8. l[i] \in Int /\ b[m] \in Int /\ l[m] \in Int /\ b[k] \in Int
    <3>1. i \in 1 .. n
      BY <1>1
    <3>2. l[i] \in 0 .. Limit /\ b[m] \in 0 .. Limit /\ l[m] \in 0 .. Limit /\ b[k] \in 0 .. Limit
      BY <1>4, <2>2, <2>6, <3>1
    <3> QED
      BY <3>2
  <2> QED
    BY <2>2, <2>4, <2>7, <2>8
<1>7. l[i] <= b[j]
  BY <1>1, <1>6
<1> QED
  BY <1>1, <1>3, <1>7

(* None begins before the space does.                                      *)
LEMMA TiledAbove ==
  ASSUME NEW vs, RegionsOK(vs), Tiled(vs), NEW j \in 1 .. Len(vs)
  PROVE  vs[j].base \in 0 .. Limit /\ vs[j].base >= Base
<1>1. Len(vs) \in Nat /\ 1 \in 1 .. Len(vs)
  BY DEF RegionsOK, Tiled
<1>2. vs[j] \in Regions /\ vs[1] \in Regions
  BY <1>1 DEF RegionsOK
<1>3. PICK b, a, l, c \in 0 .. Limit : b = vs[j].base /\ a = vs[1].base /\ l = vs[1].limit /\ c = vs[1].size
  BY <1>2 DEF Regions
<1>4. a = Base /\ l = a + c
  BY <1>1, <1>3 DEF Tiled
<1>5. CASE j = 1
  <2>1. b = a
    BY <1>3, <1>5
  <2> QED
    BY <1>3, <1>4, <2>1
<1>6. CASE j # 1
  <2>1. 1 < j
    BY <1>1, <1>6
  <2>2. l <= b
    BY <1>1, <1>3, <2>1, TiledOrder
  <2> QED
    BY <1>3, <1>4, <2>2
<1> QED
  BY <1>5, <1>6

(* The last region is divided at an address.                               *)
Divided(ws, vs, c) ==
  LET n == Len(vs)
  IN /\ Len(ws) = n + 1
     /\ \A j \in 1 .. n - 1 : ws[j] = vs[j]
     /\ ws[n].base = vs[n].base /\ ws[n].limit = c /\ ws[n].size = c - vs[n].base
     /\ ws[n].free = vs[n].free /\ ws[n].next = n + 1
     /\ ws[n + 1].base = c /\ ws[n + 1].limit = Limit /\ ws[n + 1].size = Limit - c
     /\ ws[n + 1].free /\ ws[n + 1].next = Null

(* Dividing the last region leaves a tiling.                               *)
LEMMA DividedTiled ==
  ASSUME NEW vs, RegionsOK(vs), Tiled(vs), NEW c \in 0 .. Limit, NEW ws, RegionsOK(ws), Divided(ws, vs, c)
  PROVE  Tiled(ws)
<1>1. PICK n \in Nat : n = Len(vs) /\ n >= 1
  BY DEF RegionsOK, Tiled
<1>2. /\ Len(ws) = n + 1 /\ \A j \in 1 .. n - 1 : ws[j] = vs[j]
      /\ ws[n].base = vs[n].base /\ ws[n].limit = c /\ ws[n].size = c - vs[n].base /\ ws[n].next = n + 1
      /\ ws[n + 1].base = c /\ ws[n + 1].limit = Limit /\ ws[n + 1].size = Limit - c
      /\ ws[n + 1].next = Null
  BY <1>1 DEF Divided
<1>3. PICK b \in 0 .. Limit : b = vs[n].base
  BY <1>1, TiledAbove
<1>4. ws[1].base = Base
  <2>1. vs[1].base = Base
    BY DEF Tiled
  <2>2. CASE n = 1
    BY <1>2, <2>1, <2>2
  <2>3. CASE n # 1
    BY <1>1, <1>2, <2>1, <2>3
  <2> QED
    BY <2>2, <2>3
<1>5. ASSUME NEW j \in 1 .. n + 1
      PROVE  ws[j].limit = ws[j].base + ws[j].size /\ ws[j].next = IF j = n + 1 THEN Null ELSE j + 1
  <2>1. CASE j = n + 1
    BY <1>2, <2>1, ConstantsAre
  <2>2. CASE j = n
    BY <1>2, <1>3, <2>2
  <2>3. CASE j # n /\ j # n + 1
    <3>1. j \in 1 .. n - 1 /\ j \in 1 .. n
      BY <1>1, <2>3
    <3>2. vs[j].limit = vs[j].base + vs[j].size /\ vs[j].next = j + 1
      BY <1>1, <2>3, <3>1 DEF Tiled
    <3> QED
      BY <1>2, <2>3, <3>1, <3>2
  <2> QED
    BY <2>1, <2>2, <2>3
<1>6. ASSUME NEW j \in 1 .. n PROVE ws[j].limit = ws[j + 1].base
  <2>1. CASE j = n
    BY <1>2, <2>1
  <2>2. CASE j # n
    <3>1. j \in 1 .. n - 1
      BY <1>1, <2>2
    <3>2. vs[j].limit = vs[j + 1].base
      BY <1>1, <3>1 DEF Tiled
    <3>3. ws[j] = vs[j]
      BY <1>2, <3>1
    <3>4. ws[j + 1].base = vs[j + 1].base
      <4>1. CASE j + 1 = n
        BY <1>2, <4>1
      <4>2. CASE j + 1 # n
        <5>1. j + 1 \in 1 .. n - 1
          BY <1>1, <3>1, <4>2
        <5> QED
          BY <1>2, <5>1
      <4> QED
        BY <4>1, <4>2
    <3> QED
      BY <3>2, <3>3, <3>4
  <2> QED
    BY <2>1, <2>2
<1>7. n + 1 >= 1 /\ (n + 1) - 1 = n
  BY <1>1
<1> QED
  BY <1>2, <1>4, <1>5, <1>6, <1>7 DEF Tiled

(* The last region.                                                        *)
LEMMA LastIs ==
  ASSUME NEW vs, RegionsOK(vs), Tiled(vs)
  PROVE  \E n \in Nat, b \in 0 .. Limit :
           /\ n = Len(vs) /\ n >= 1 /\ n \in 1 .. Len(vs) /\ vs[n] \in Regions
           /\ b = vs[n].base /\ vs[n].limit = Limit /\ vs[n].size = Limit - b /\ vs[n].next = Null
<1>1. PICK n \in Nat : n = Len(vs) /\ n >= 1 /\ n \in 1 .. Len(vs)
  BY DEF RegionsOK, Tiled
<1>2. vs[n] \in Regions /\ vs[n].limit = Limit /\ vs[n].next = Null
  BY <1>1 DEF RegionsOK, Tiled
<1>3. PICK b, c \in 0 .. Limit : b = vs[n].base /\ c = vs[n].size
  BY <1>2 DEF Regions
<1>4. Limit = b + c
  BY <1>1, <1>2, <1>3 DEF Tiled
<1>5. c = Limit - b
  BY <1>4
<1> QED
  BY <1>1, <1>2, <1>3, <1>5

(* Vad::Split of the last region                                           *)
LEMMA SplitDivides ==
  ASSUME NEW vs, RegionsOK(vs), Tiled(vs), NEW size \in Nat,
         NEW n, n = Len(vs), NEW N \in Nat, N = NbPages(size) * PageSize,
         NEW c \in 0 .. Limit, c = vs[n].base + N
  PROVE  /\ RegionsOK(Split(vs, n, size)) /\ Divided(Split(vs, n, size), vs, c)
         /\ Tiled(Split(vs, n, size))
<1>1. PICK b \in 0 .. Limit :
           /\ n \in Nat /\ n >= 1 /\ n \in 1 .. Len(vs) /\ vs[n] \in Regions
           /\ b = vs[n].base /\ vs[n].limit = Limit /\ vs[n].size = Limit - b /\ vs[n].next = Null
  BY LastIs
<1>2. PICK z \in 0 .. Limit : z = Limit - b /\ N <= z
  BY <1>1, ConstantsAre
<1>3. PICK ws : ws = Split(vs, n, size)
  OBVIOUS
<1>4. Inserted(ws, vs, n, Vad(b + N, z - N), (b + N) % AddressMod, N) /\ RegionsOK(ws)
  BY <1>1, <1>2, <1>3, SplitIs
<1>5. PICK d \in 0 .. Limit : d = z - N /\ c + d = Limit /\ d = Limit - c
  <2>0. c = b + N /\ Limit \in Nat
    BY <1>1, ConstantsAre
  <2>1. z - N \in 0 .. Limit /\ c + (z - N) = Limit /\ z - N = Limit - c
    BY ONLY <1>2, <2>0, b \in 0 .. Limit, z \in 0 .. Limit, N \in Nat
  <2> QED
    BY <2>1
<1>6. b + N = c /\ N = c - b
  BY <1>1
<1>7. c % AddressMod = c /\ Limit % AddressMod = Limit /\ d % AddressMod = d
  <2>1. Limit \in 0 .. Limit
    BY ConstantsAre
  <2> QED
    BY <2>1, ModIs, Zenon
<1>8. Vad(c, d) = [base |-> c, limit |-> Limit, size |-> d, free |-> TRUE, next |-> Null]
  BY <1>5, <1>7 DEF Vad
<1>9. Inserted(ws, vs, n, Vad(c, d), c, N)
  BY <1>4, <1>5, <1>6, <1>7
<1>10. PICK x : x = [base |-> c, limit |-> Limit, size |-> d, free |-> TRUE, next |-> Null]
  OBVIOUS
<1>11. x.base = c /\ x.limit = Limit /\ x.size = d /\ x.free /\ x.next = Null
  BY <1>10
<1>12. /\ Len(ws) = n + 1 /\ ws[n + 1] = x
       /\ \A j \in 1 .. n : j # n => ws[j] = vs[j]
       /\ ws[n] = [base |-> vs[n].base, limit |-> c, size |-> N, free |-> vs[n].free, next |-> n + 1]
  BY <1>8, <1>9, <1>10 DEF Inserted
<1>13. /\ ws[n].base = vs[n].base /\ ws[n].limit = c /\ ws[n].size = N
       /\ ws[n].free = vs[n].free /\ ws[n].next = n + 1
  BY <1>12
<1>14. \A j \in 1 .. n - 1 : ws[j] = vs[j]
  BY <1>1, <1>12
<1>15. Divided(ws, vs, c)
  BY <1>1, <1>5, <1>6, <1>11, <1>12, <1>13, <1>14 DEF Divided
<1> QED
  BY <1>3, <1>4, <1>15, DividedTiled

(* The cut of the last region at an address                                *)
LEMMA CutDivides ==
  ASSUME NEW vs, RegionsOK(vs), Tiled(vs), NEW n, n = Len(vs), NEW a \in 0 .. Limit, vs[n].base <= a
  PROVE  RegionsOK(CutAt(vs, n, a)) /\ Divided(CutAt(vs, n, a), vs, a) /\ Tiled(CutAt(vs, n, a))
<1>1. PICK b \in 0 .. Limit :
           /\ n \in Nat /\ n >= 1 /\ n \in 1 .. Len(vs) /\ vs[n] \in Regions
           /\ b = vs[n].base /\ vs[n].limit = Limit /\ vs[n].size = Limit - b /\ vs[n].next = Null
  BY LastIs
<1>2. PICK d \in 0 .. Limit : d = Limit - a
  BY ConstantsAre
<1>3. PICK ws : ws = CutAt(vs, n, a)
  OBVIOUS
<1>31. PICK sec \in 0 .. Limit :
           /\ sec = (vs[n].limit - a) % AddressMod
           /\ Inserted(ws, vs, n,
                [base |-> a, limit |-> (a + sec) % AddressMod, size |-> sec, free |-> TRUE, next |-> vs[n].next],
                (vs[n].limit - sec) % AddressMod, (vs[n].size - sec) % AddressMod)
           /\ RegionsOK(ws)
  <2>1. n \in 1 .. Len(vs)
    BY <1>1
  <2> QED
    BY <1>3, <2>1, CutIs, Zenon
<1>4. /\ sec = (Limit - a) % AddressMod
      /\ Inserted(ws, vs, n,
                [base |-> a, limit |-> (a + sec) % AddressMod, size |-> sec, free |-> TRUE, next |-> Null],
                (Limit - sec) % AddressMod, ((Limit - b) - sec) % AddressMod)
      /\ RegionsOK(ws)
  BY <1>1, <1>31
<1>5. d % AddressMod = d /\ Limit % AddressMod = Limit /\ a % AddressMod = a
  <2>1. Limit \in 0 .. Limit
    BY ConstantsAre
  <2> QED
    BY <2>1, ModIs, Zenon
<1>60. sec = d
  BY <1>2, <1>4, <1>5
<1>6. sec = d /\ a + sec = Limit /\ Limit - sec = a
  <2>1. a + d = Limit /\ Limit - d = a
    BY <1>2, ConstantsAre
  <2> QED
    BY <1>60, <2>1
<1>7. PICK g \in 0 .. Limit : g = a - b /\ (Limit - b) - sec = g
  BY <1>1, <1>2, <1>6, ConstantsAre
<1>8. g % AddressMod = g
  BY ModIs, Zenon
<1>9. PICK x : x = [base |-> a, limit |-> Limit, size |-> d, free |-> TRUE, next |-> Null]
  OBVIOUS
<1>10. x.base = a /\ x.limit = Limit /\ x.size = d /\ x.free /\ x.next = Null
  BY <1>9
<1>11. Inserted(ws, vs, n, x, a, g)
  BY <1>4, <1>5, <1>6, <1>7, <1>8, <1>9
<1>12. /\ Len(ws) = n + 1 /\ ws[n + 1] = x
       /\ \A j \in 1 .. n : j # n => ws[j] = vs[j]
       /\ ws[n] = [base |-> vs[n].base, limit |-> a, size |-> g, free |-> vs[n].free, next |-> n + 1]
  BY <1>11 DEF Inserted
<1>13. /\ ws[n].base = vs[n].base /\ ws[n].limit = a /\ ws[n].size = g
       /\ ws[n].free = vs[n].free /\ ws[n].next = n + 1
  BY <1>12
<1>14. \A j \in 1 .. n - 1 : ws[j] = vs[j]
  BY <1>1, <1>12
<1>15. Divided(ws, vs, a)
  BY <1>1, <1>2, <1>7, <1>10, <1>12, <1>13, <1>14 DEF Divided
<1> QED
  BY <1>3, <1>4, <1>15, DividedTiled

(* Vad::Create does not refuse.                                            *)
LEMMA TiledCreated ==
  ASSUME NEW vs, NEW ws, RegionsOK(ws), Tiled(ws), NEW at
  PROVE  Created(vs, ws, at).vads = ws /\ Created(vs, ws, at).at = at
<1>1. ASSUME NEW i \in DOMAIN ws PROVE ws[i].base # Null
  <2>1. i \in 1 .. Len(ws)
    BY <1>1 DEF RegionsOK
  <2>2. ws[i].base \in 0 .. Limit /\ ws[i].base >= Base
    BY <2>1, TiledAbove
  <2> QED
    BY <2>2, ConstantsAre DEF Null
<1> QED
  BY <1>1 DEF Created

(* The last of n regions is free, and has room for N bytes at a, which end *)
(* at c, and for one more page.                                            *)
HasRoom(vs, a, size, n, N, c) ==
  /\ RegionsOK(vs) /\ Tiled(vs) /\ size \in Nat /\ size > 0 /\ n = Len(vs) /\ vs[n].free
  /\ N \in Nat /\ N = NbPages(size) * PageSize
  /\ a \in 0 .. Limit /\ vs[n].base <= a
  /\ c \in 0 .. Limit /\ c = a + N /\ c + PageSize <= Limit

(* The free regions from this one to the one before the last are smaller.  *)
SmallGaps(vs, from, size) == \A j \in from .. Len(vs) - 1 : vs[j].free => vs[j].size < size

(* Vad::Allocate, when only the last region has room: it is divided.       *)
LEMMA AllocateDivides ==
  ASSUME NEW vs, NEW size, NEW n, NEW N, NEW c, HasRoom(vs, vs[n].base, size, n, N, c),
         SmallGaps(vs, 1, size), NEW R, R = Allocate(vs, size)
  PROVE  R.at = n /\ RegionsOK(R.vads) /\ Divided(R.vads, vs, c) /\ Tiled(R.vads)
<1>0. /\ RegionsOK(vs) /\ Tiled(vs) /\ size \in Nat /\ size > 0 /\ n = Len(vs) /\ vs[n].free
      /\ \A j \in 1 .. n - 1 : vs[j].free => vs[j].size < size
      /\ N \in Nat /\ N = NbPages(size) * PageSize
      /\ c \in 0 .. Limit /\ c = vs[n].base + N /\ c + PageSize <= Limit
  BY DEF HasRoom, SmallGaps
<1> USE <1>0
<1>1. PICK b \in 0 .. Limit :
           /\ n \in Nat /\ n >= 1 /\ n \in 1 .. Len(vs) /\ vs[n] \in Regions
           /\ b = vs[n].base /\ vs[n].limit = Limit /\ vs[n].size = Limit - b /\ vs[n].next = Null
  BY LastIs
<1>2. size < N
  BY NbPagesIs
<1>3. vs[n].size >= size /\ vs[n].size - size > PageSize
  BY <1>1, <1>2, ConstantsAre, SMTT(40)
<1>4. PICK S : S = {j \in DOMAIN vs : vs[j].size >= size /\ vs[j].free}
  OBVIOUS
<1>5. S \subseteq 1 .. Len(vs) /\ n \in S
  BY <1>1, <1>3, <1>4 DEF RegionsOK
<1>6. \A j \in S : j = n
  <2>1. ASSUME NEW j \in S, j # n PROVE FALSE
    <3>1. j \in 1 .. n - 1 /\ j \in 1 .. Len(vs) /\ vs[j].free /\ vs[j].size >= size
      BY <1>1, <1>4, <1>5, <2>1
    <3>20. vs[j] \in Regions
      BY <3>1 DEF RegionsOK
    <3>2. vs[j].size \in Int
      BY <3>20 DEF Regions
    <3>3. vs[j].size < size
      BY <3>1
    <3> QED
      BY <3>1, <3>2, <3>3
  <2> QED
    BY <2>1
<1>7. First(vs, S) = n
  <2>1. First(vs, S) \in S
    BY <1>5, TiledFirst
  <2> QED
    BY <1>6, <2>1
<1>8. LookForFreeVadOfMinimumSize(vs, size) = n
  BY <1>4, <1>7 DEF LookForFreeVadOfMinimumSize
<1>9. PICK ws : ws = Split(vs, n, size)
  OBVIOUS
<1>10. RegionsOK(ws) /\ Divided(ws, vs, c) /\ Tiled(ws)
  BY <1>9, SplitDivides
<1>11. R = Created(vs, ws, n)
  BY <1>1, <1>3, <1>8, <1>9 DEF Allocate, SplitIfLarge, Null
<1> QED
  BY <1>10, <1>11, TiledCreated

(* Vad::AllocateAtAddress, when no region before the last is chosen: the   *)
(* last one is cut at the address, if it does not begin there, and then    *)
(* divided.                                                                *)
LEMMA AllocateAtDivides ==
  ASSUME NEW vs, NEW a, NEW size, NEW n, NEW N, NEW c, HasRoom(vs, a, size, n, N, c),
         SmallGaps(vs, 2, size), NEW R, R = AllocateAtAddress(vs, a, size)
  PROVE  \E us : /\ us = vs \/ Divided(us, vs, a)
                 /\ RegionsOK(us) /\ Tiled(us) /\ us[Len(us)].base = a /\ us[Len(us)].free
                 /\ R.at = Len(us) /\ RegionsOK(R.vads) /\ Divided(R.vads, us, c) /\ Tiled(R.vads)
<1>0. /\ RegionsOK(vs) /\ Tiled(vs) /\ size \in Nat /\ size > 0 /\ n = Len(vs) /\ vs[n].free
      /\ \A j \in 2 .. n - 1 : vs[j].free => vs[j].size < size
      /\ N \in Nat /\ N = NbPages(size) * PageSize /\ a \in 0 .. Limit /\ vs[n].base <= a
      /\ c \in 0 .. Limit /\ c = a + N /\ c + PageSize <= Limit
  BY DEF HasRoom, SmallGaps
<1> USE <1>0
<1>1. PICK b \in 0 .. Limit :
           /\ n \in Nat /\ n >= 1 /\ n \in 1 .. Len(vs) /\ vs[n] \in Regions
           /\ b = vs[n].base /\ vs[n].limit = Limit /\ vs[n].size = Limit - b /\ vs[n].next = Null
  BY LastIs
<1>2. size < N
  BY NbPagesIs
<1>21. PICK L, P \in Nat : L = Limit /\ P = PageSize /\ P > 0
  BY ConstantsAre
<1>22. /\ L - b >= size /\ (L - b) - size > P /\ ~((L - b) - size < P) /\ b <= a /\ a < L /\ L - a >= size
  <2>1. b <= a /\ c + P <= L /\ c = a + N /\ a \in Nat /\ b \in Nat
    BY <1>1, <1>21
  <2> QED
    BY ONLY <1>2, <1>21, <2>1, L \in Nat, P \in Nat, N \in Nat, size \in Nat
<1>3. /\ vs[n].size >= size /\ vs[n].size - size > PageSize /\ ~(vs[n].size - size < PageSize)
      /\ Covers(vs[n], a) /\ vs[n].limit - a >= size
  BY <1>1, <1>21, <1>22 DEF Covers
<1> DEFINE fits(j) == vs[j].free /\ vs[j].size >= size
           S == {j \in DOMAIN vs : Covers(vs[j], a) \/ (j # 1 /\ fits(j))}
<1>5. S \subseteq 1 .. Len(vs) /\ n \in S
  BY <1>1, <1>3 DEF RegionsOK
<1>6. \A j \in S : j = n
  <2>1. ASSUME NEW j \in S, j # n PROVE FALSE
    <3>1. j \in 1 .. n - 1 /\ j \in 1 .. Len(vs) /\ j < n
      BY <1>1, <1>5, <2>1
    <3>2. vs[j] \in Regions
      BY <3>1 DEF RegionsOK
    <3>3. PICK l, z \in 0 .. Limit : l = vs[j].limit /\ z = vs[j].size
      BY <3>2 DEF Regions
    <3>4. l <= b
      BY <1>1, <3>1, <3>3, TiledOrder
    <3>5. ~Covers(vs[j], a)
      BY <1>1, <3>3, <3>4 DEF Covers
    <3>6. j # 1 /\ vs[j].free /\ vs[j].size >= size
      BY <2>1, <3>5
    <3>7. j \in 2 .. n - 1
      BY <1>1, <3>1, <3>6
    <3>8. vs[j].size < size
      BY <3>6, <3>7
    <3> QED
      BY <3>3, <3>6, <3>8
  <2> QED
    BY <2>1
<1>7. First(vs, S) = n
  <2>1. First(vs, S) \in S
    <3> HIDE DEF S
    <3> QED
      BY <1>5, TiledFirst
  <2> QED
    BY <1>6, <2>1
<1>8. LookForFreeVadAtAddress(vs, a, size) = n
  BY <1>1, <1>3, <1>7 DEF LookForFreeVadAtAddress, Null
<1>9. ~((vs[n].limit - a) % AddressMod < size)
  <2>0. a \in Nat
    OBVIOUS
  <2>01. L - a \in 0 .. L /\ L - a >= size
    BY ONLY <1>22, <2>0, L \in Nat
  <2>1. PICK d \in 0 .. Limit : d = vs[n].limit - a /\ d >= size
    BY <1>1, <1>21, <2>01
  <2>2. d % AddressMod = d
    BY ModIs, Zenon
  <2> QED
    BY <2>1, <2>2
<1>10. PICK at : at = IF vs[n].base = a THEN n ELSE Len(vs) + 1
  OBVIOUS
<1>11. PICK ws : ws = SplitAtAddress(vs, n, a, size)
  OBVIOUS
<1>12. R = Created(vs, ws, at)
  <2>1. AllocateAtAddress(vs, a, size) =
        IF size = 0 \/ n = Null THEN Fail(vs)
        ELSE IF ~(vs[n].base # a \/ vs[n].size - size > PageSize) THEN [vads |-> vs, at |-> n]
        ELSE IF \/ vs[n].size - size < PageSize
                \/ vs[n].base # a /\ (vs[n].limit - a) % AddressMod < size
        THEN Fail(vs)
        ELSE Created(vs, ws, at)
    BY <1>8, <1>10, <1>11 DEF AllocateAtAddress
  <2>2. ~(size = 0 \/ n = Null)
    BY <1>1 DEF Null
  <2> QED
    BY <1>3, <1>9, <2>1, <2>2
<1>13. CASE vs[n].base = a
  <2>1. ws = Split(vs, n, size) /\ at = n
    BY <1>10, <1>11, <1>13 DEF SplitAtAddress
  <2>2. RegionsOK(ws) /\ Divided(ws, vs, c) /\ Tiled(ws)
    BY <1>13, <2>1, SplitDivides
  <2>3. R.vads = ws /\ R.at = n
    BY <1>12, <2>1, <2>2, TiledCreated
  <2> QED
    BY <1>13, <2>2, <2>3
<1>14. CASE vs[n].base # a
  <2>1. PICK us : us = CutAt(vs, n, a)
    OBVIOUS
  <2>2. RegionsOK(us) /\ Divided(us, vs, a) /\ Tiled(us)
    BY <2>1, CutDivides
  <2>3. Len(us) = n + 1 /\ us[n + 1].base = a /\ us[n + 1].size = Limit - a /\ us[n + 1].free
    BY <2>2 DEF Divided
  <2>4. us[n + 1].size - size > PageSize
    BY <1>2, <2>3, ConstantsAre
  <2>5. ws = Split(us, n + 1, size) /\ at = n + 1
    BY <1>10, <1>11, <1>14, <2>1, <2>4 DEF SplitAtAddress, SplitIfLarge, CutAt
  <2>6. RegionsOK(ws) /\ Divided(ws, us, c) /\ Tiled(ws)
    BY <2>2, <2>3, <2>5, SplitDivides
  <2>7. R.vads = ws /\ R.at = n + 1
    BY <1>12, <2>5, <2>6, TiledCreated
  <2> QED
    BY <2>2, <2>3, <2>6, <2>7
<1> QED
  BY <1>13, <1>14

-----------------------------------------------------------------------------
(* What a step of the loader makes of a well placed process.               *)

(* What is reserved before the last region stays.                          *)
LEMMA ReservedKept ==
  ASSUME NEW vs, RegionsOK(vs), NEW ws, NEW c, Divided(ws, vs, c), NEW from, NEW to, Reserved(vs, from, to)
  PROVE  Reserved(ws, from, to)
<1>1. PICK n \in Nat : n = Len(vs)
  BY DEF RegionsOK
<1>2. PICK j \in 1 .. n - 1 : vs[j].base = from /\ vs[j].limit >= to /\ ~vs[j].free
  BY <1>1 DEF Reserved
<1>3. ws[j] = vs[j] /\ j \in 1 .. Len(ws) - 1
  BY <1>1 DEF Divided
<1> QED
  BY <1>2, <1>3 DEF Reserved

(* What a process may use stays, when the last region is divided.          *)
LEMMA UsableKept ==
  ASSUME NEW vs, RegionsOK(vs), NEW ws, NEW c, Divided(ws, vs, c),
         NEW s, NEW st, NEW k, NEW hp, NEW stk, UsableOK(s, st, k, vs, hp, stk)
  PROVE  UsableOK(s, st, k, ws, hp, stk)
<1>1. PICK n \in Nat : n = Len(vs)
  BY DEF RegionsOK
<1>2. \A i \in 1 .. k - 1 : i <= Len(s) => Reserved(ws, s[i].vaddr, End(s[i]))
  BY ReservedKept DEF UsableOK
<1>3. stk # Null => Reserved(ws, stk, stk + StackSize)
  BY ReservedKept DEF UsableOK
<1>4. ASSUME st \in {"stack", "ready"}
      PROVE  hp.vad \in 1 .. Len(ws) - 1 /\ ~ws[hp.vad].free /\ hp.limit <= ws[hp.vad].limit
  <2>1. hp.vad \in 1 .. n - 1 /\ ~vs[hp.vad].free /\ hp.limit <= vs[hp.vad].limit
    BY <1>1, <1>4 DEF UsableOK
  <2>2. ws[hp.vad] = vs[hp.vad] /\ hp.vad \in 1 .. Len(ws) - 1
    BY <1>1, <2>1 DEF Divided
  <2> QED
    BY <2>1, <2>2
<1> QED
  BY <1>2, <1>3, <1>4 DEF UsableOK

(* CreateProcess                                                           *)
LEMMA PlacedCreate ==
  ASSUME NEW s \in Seq(Sections), NEW hp, NEW w
  PROVE  PlacedOK(s, "map", 1, FirstRegions, hp, Null, w)
<1>1. PICK vs : vs = FirstRegions
  OBVIOUS
<1>2. RegionsOK(vs) /\ Len(vs) = 1
  BY <1>1, FirstRegionsOK
<1>3. vs[1].base = Base /\ vs[1].limit = Limit /\ vs[1].size = Limit - Base /\ vs[1].free /\ vs[1].next = 0
  <2>1. PICK x : x = [base |-> Base, limit |-> Limit, size |-> Limit - Base, free |-> TRUE, next |-> 0]
    OBVIOUS
  <2>2. x.base = Base /\ x.limit = Limit /\ x.size = Limit - Base /\ x.free /\ x.next = 0
    BY <2>1
  <2>3. vs[1] = x
    BY <1>1, <2>1, FirstRegionsOK
  <2> QED
    BY <2>2, <2>3
<1>4. Base + (Limit - Base) = Limit
  BY ConstantsAre
<1>5. Tiled(vs)
  <2>1. ASSUME NEW i \in 1 .. 1
        PROVE  vs[i].limit = vs[i].base + vs[i].size /\ vs[i].next = IF i = 1 THEN Null ELSE i + 1
    <3>1. i = 1
      OBVIOUS
    <3> QED
      BY <1>3, <1>4, <3>1 DEF Null
  <2> QED
    BY <1>2, <1>3, <2>1 DEF Tiled
<1>6. LastOK(s, "map", 1, vs)
  <2>1. 1 \in 1 .. Len(s) + 1 /\ 1 - 1 = 0
    OBVIOUS
  <2>2. NextSect("map", 1) = 1
    BY DEF NextSect
  <2>3. SecEnd(s, 0) = Base
    BY DEF SecEnd
  <2> QED
    BY <1>2, <1>3, <2>1, <2>2, <2>3 DEF LastOK
<1>7. GapsSmall(s, "map", 1, vs, w)
  BY <1>2 DEF GapsSmall
<1>8. WalkOK(s, "map", 1, vs, w)
  BY DEF WalkOK, Walking
<1>9. UsableOK(s, "map", 1, vs, hp, Null)
  BY DEF UsableOK
<1> QED
  BY <1>1, <1>5, <1>6, <1>7, <1>8, <1>9 DEF PlacedOK

(* Where ReservePages begins.                                              *)
Starts(x, R) == x.vad = R.at /\ x.addr = R.vads[R.at].base /\ ~x.done

(* MapSection: the region of the section, which may leave a gap before it. *)
LEMMA PlacedMap ==
  ASSUME NEW s \in Seq(Sections), Placed(s), NEW vs, RegionsOK(vs), NEW k \in 1 .. Len(s),
         NEW hp, NEW stk, NEW w, PlacedOK(s, "map", k, vs, hp, stk, w),
         NEW R, R = AllocateAtAddress(vs, s[k].vaddr, s[k].size),
         NEW x, Starts(x, R)
  PROVE  /\ R.at # Null /\ PlacedOK(s, "copy", k, R.vads, hp, stk, x)
         /\ vs[Len(vs)].base <= R.vads[Len(R.vads) - 1].base
<1>0. x.vad = R.at /\ x.addr = R.vads[R.at].base /\ ~x.done
  BY DEF Starts
<1> USE <1>0
<1>1. Tiled(vs) /\ LastOK(s, "map", k, vs) /\ GapsSmall(s, "map", k, vs, w) /\ UsableOK(s, "map", k, vs, hp, stk)
  BY DEF PlacedOK
<1>2. PICK n \in Nat, b \in 0 .. Limit :
           /\ n = Len(vs) /\ n >= 1 /\ n \in 1 .. Len(vs) /\ vs[n] \in Regions
           /\ b = vs[n].base /\ vs[n].limit = Limit /\ vs[n].size = Limit - b /\ vs[n].next = Null
  BY <1>1, LastIs
<1>3. PICK v, z \in 0 .. Limit, N, e \in Nat :
           /\ v = s[k].vaddr /\ z = s[k].size /\ N = NbPages(z) * PageSize
           /\ z < N /\ N <= z + PageSize /\ End(s[k]) = v + N /\ SecEnd(s, k) = v + N
           /\ z > 0 /\ e = SecEnd(s, k - 1) /\ e <= v /\ v + N + PageSize <= Limit
  BY SectionFits
<1>4. b = e /\ vs[n].free /\ (k = 1 => n = 1)
  BY <1>1, <1>2, <1>3 DEF LastOK, NextSect
<1>5. ASSUME NEW j \in 1 .. n - 1, vs[j].free
      PROVE  /\ vs[j].size < HeapSize /\ vs[j].size < StackSize
             /\ j > 1 => \A i \in k .. Len(s) : vs[j].size < s[i].size
  BY <1>1, <1>2, <1>5 DEF GapsSmall, NextSect, Walking
<1>6. \A j \in 2 .. n - 1 : vs[j].free => vs[j].size < z
  <2>1. k \in k .. Len(s)
    OBVIOUS
  <2>2. ASSUME NEW j \in 2 .. n - 1, vs[j].free PROVE vs[j].size < z
    <3>1. j \in 1 .. n - 1 /\ j > 1
      BY <1>2
    <3> QED
      BY <1>3, <1>5, <2>1, <2>2, <3>1
  <2> QED
    BY <2>2
<1>7. PICK c \in 0 .. Limit : c = v + N /\ c + PageSize <= Limit
  BY <1>3, ConstantsAre, SMTT(40)
<1>8. PICK us :
        /\ us = vs \/ Divided(us, vs, v)
        /\ RegionsOK(us) /\ Tiled(us) /\ us[Len(us)].base = v /\ us[Len(us)].free
        /\ R.at = Len(us) /\ RegionsOK(R.vads) /\ Divided(R.vads, us, c) /\ Tiled(R.vads)
  <2>1. R = AllocateAtAddress(vs, v, z) /\ n = Len(vs) /\ vs[n].free /\ vs[n].base <= v
    BY <1>2, <1>3, <1>4
  <2>2. z \in Nat /\ z > 0 /\ N = NbPages(z) * PageSize
    BY <1>3
  <2>3. HasRoom(vs, v, z, n, N, c)
    BY <1>1, <1>7, <2>1, <2>2 DEF HasRoom
  <2>4. SmallGaps(vs, 2, z)
    BY <1>2, <1>6 DEF SmallGaps
  <2> QED
    BY <2>1, <2>3, <2>4, AllocateAtDivides
<1>80. Len(us) \in Nat /\ Len(us) >= 1
  <2>1. RegionsOK(us) /\ Tiled(us)
    BY <1>8
  <2> QED
    BY ONLY <2>1 DEF RegionsOK, Tiled
<1>81. PICK ws : ws = R.vads
  OBVIOUS
<1>82. PICK m \in Nat : m = Len(us) /\ m >= 1 /\ m \in 1 .. m
  BY <1>80
<1>9. ws = R.vads /\ m = Len(us) /\ m >= 1 /\ m \in 1 .. m
  BY <1>81, <1>82
<1>10. /\ Len(ws) = m + 1 /\ Len(ws) - 1 = m /\ \A j \in 1 .. m - 1 : ws[j] = us[j]
       /\ ws[m].base = v /\ ws[m].limit = c /\ ws[m + 1].base = c /\ ws[m + 1].free
  <2>1. Divided(ws, us, c) /\ us[m].base = v
    BY <1>8, <1>9
  <2>2. /\ Len(ws) = m + 1 /\ \A j \in 1 .. m - 1 : ws[j] = us[j]
        /\ ws[m].base = us[m].base /\ ws[m].limit = c /\ ws[m + 1].base = c /\ ws[m + 1].free
    BY <1>9, <2>1 DEF Divided
  <2> QED
    BY <2>1, <2>2
<1>11. LastOK(s, "copy", k, ws)
  <2>1. NextSect("copy", k) = k + 1 /\ k + 1 \in 1 .. Len(s) + 1 /\ (k + 1) - 1 = k
    BY DEF NextSect
  <2> QED
    BY <1>3, <1>7, <1>10, <2>1 DEF LastOK
<1>12. GapsSmall(s, "copy", k, ws, x)
  <2>0. NextSect("copy", k) = k + 1
    BY DEF NextSect
  <2>1. ASSUME NEW j \in 1 .. m, ws[j].free, j # m
        PROVE  /\ ws[j].size < HeapSize /\ ws[j].size < StackSize
               /\ j > 1 => \A i \in k + 1 .. Len(s) : ws[j].size < s[i].size
    <3>1. j \in 1 .. m - 1 /\ ws[j] = us[j]
      BY <1>10, <2>1
    <3>2. \A i \in k + 1 .. Len(s) : i \in k .. Len(s)
      OBVIOUS
    <3>3. CASE j \in 1 .. n - 1 /\ us[j] = vs[j]
      BY <1>5, <2>1, <3>1, <3>2, <3>3
    <3>4. CASE ~(j \in 1 .. n - 1 /\ us[j] = vs[j])
      <4>1. Divided(us, vs, v) /\ m = n + 1
        <5>1. us # vs
          BY <1>2, <1>9, <3>1, <3>4
        <5>2. Divided(us, vs, v)
          BY <1>8, <5>1
        <5> QED
          BY <1>2, <1>9, <5>2 DEF Divided
      <4>2. j = n
        BY <1>2, <3>1, <3>4, <4>1 DEF Divided
      <4>3. us[j].size = v - e
        BY <1>2, <1>4, <4>1, <4>2 DEF Divided
      <4>4. /\ v - e < HeapSize /\ v - e < StackSize
            /\ k > 1 => \A i \in k + 1 .. Len(s) : v - e < s[i].size
        BY <1>3 DEF Placed
      <4>5. j > 1 => k > 1
        BY <1>2, <1>4, <4>2
      <4> QED
        BY <3>1, <4>3, <4>4, <4>5
    <3> QED
      BY <3>3, <3>4
  <2>2. x.vad = m /\ "copy" \in Walking
    BY <1>8, <1>9 DEF Walking
  <2> QED
    BY <1>10, <2>0, <2>1, <2>2 DEF GapsSmall
<1>13. WalkOK(s, "copy", k, ws, x)
  <2>1. x.vad = m /\ x.addr = v
    BY <1>8, <1>9, <1>10
  <2>2. PICK g \in Nat : g = NbPages(z) /\ N = g * PageSize
    BY <1>3, NbPagesIs
  <2>3. ws[m].limit = x.addr + g * PageSize /\ ws[m].base <= x.addr
    BY <1>7, <1>10, <2>1, <2>2
  <2>4. Len(ws) > 1 /\ x.vad = Len(ws) - 1
    BY <1>9, <1>10, <2>1
  <2>5. ws[x.vad].base = s[k].vaddr /\ ws[x.vad].limit = End(s[k])
    BY <1>3, <1>7, <1>10, <2>1
  <2> QED
    BY <2>1, <2>3, <2>4, <2>5 DEF WalkOK
<1>14. UsableOK(s, "copy", k, ws, hp, stk)
  <2>1. UsableOK(s, "map", k, us, hp, stk)
    BY <1>1, <1>8, UsableKept
  <2>2. UsableOK(s, "map", k, ws, hp, stk)
    BY <1>8, <1>9, <2>1, UsableKept
  <2> QED
    BY <2>2 DEF UsableOK
<1>15. Tiled(ws) /\ R.at # Null
  BY <1>8, <1>9 DEF Null
<1>16. vs[Len(vs)].base <= ws[Len(ws) - 1].base
  BY <1>2, <1>3, <1>4, <1>10
<1> QED
  BY <1>9, <1>11, <1>12, <1>13, <1>14, <1>15, <1>16 DEF PlacedOK

(* The last region has room for heap or stack behind address b, and no     *)
(* other has.                                                              *)
LastForAll(s, vs, size, n, N, b, k) ==
  /\ RegionsOK(vs) /\ Tiled(vs) /\ size \in Nat /\ size > 0 /\ size \in {HeapSize, StackSize}
  /\ n \in Nat /\ n = Len(vs) /\ vs[n].free
  /\ \A j \in 1 .. n - 1 : vs[j].free => vs[j].size < HeapSize /\ vs[j].size < StackSize
  /\ N \in Nat /\ N = NbPages(size) * PageSize
  /\ b \in 0 .. Limit /\ b = vs[n].base /\ b + N + PageSize <= Limit
  /\ k = Len(s) + 1 /\ Len(s) \in Nat

(* Allocate, when the last region has room: what heap and stack have in    *)
(* common.                                                                 *)
LEMMA PlacedAllocate ==
  ASSUME NEW s, NEW vs, NEW size, NEW n, NEW N, NEW b, NEW k, LastForAll(s, vs, size, n, N, b, k),
         NEW R, R = Allocate(vs, size), NEW to \in {"heap", "stack"}, NEW x, Starts(x, R)
  PROVE  /\ R.at # Null /\ RegionsOK(R.vads) /\ Tiled(R.vads) /\ Divided(R.vads, vs, b + N)
         /\ GapsSmall(s, to, k, R.vads, x)
         /\ R.vads[Len(R.vads) - 1].base = b
         /\ x.vad = n /\ Len(R.vads) = n + 1
         /\ x.addr = b /\ R.vads[x.vad].base = b
         /\ R.vads[x.vad].limit = b + N /\ b + N >= b + size
<1>0. /\ RegionsOK(vs) /\ Tiled(vs) /\ size \in Nat /\ size > 0 /\ size \in {HeapSize, StackSize}
      /\ n \in Nat /\ n = Len(vs) /\ vs[n].free
      /\ \A j \in 1 .. n - 1 : vs[j].free => vs[j].size < HeapSize /\ vs[j].size < StackSize
      /\ N \in Nat /\ N = NbPages(size) * PageSize
      /\ b \in 0 .. Limit /\ b = vs[n].base /\ b + N + PageSize <= Limit
      /\ k = Len(s) + 1 /\ Len(s) \in Nat
  BY DEF LastForAll
<1>1. x.vad = R.at /\ x.addr = R.vads[R.at].base /\ ~x.done
  BY DEF Starts
<1> USE <1>0, <1>1
<1>2. n >= 1 /\ n \in 1 .. Len(vs)
  BY LastIs
<1>3. size < N
  BY NbPagesIs
<1>4. PICK c \in 0 .. Limit : c = b + N /\ c + PageSize <= Limit /\ c >= b + size
  <2>1. b + N + PageSize <= Limit
    BY <1>2, <1>3
  <2>2. PICK P, L \in Nat : P = PageSize /\ L = Limit
    BY ConstantsAre
  <2>3. b + N \in 0 .. L /\ b + N >= b + size
    BY ONLY <2>1, <2>2, <1>3, b \in 0 .. Limit, N \in Nat, P \in Nat, L \in Nat, size \in Nat
  <2> QED
    BY <2>1, <2>2, <2>3
<1>5. \A j \in 1 .. n - 1 : vs[j].free => vs[j].size < size
  BY <1>2
<1>6. R.at = n /\ RegionsOK(R.vads) /\ Divided(R.vads, vs, c) /\ Tiled(R.vads)
  <2>1. HasRoom(vs, vs[n].base, size, n, N, c)
    BY <1>4 DEF HasRoom
  <2>2. SmallGaps(vs, 1, size)
    BY <1>5 DEF SmallGaps
  <2> QED
    BY <2>1, <2>2, AllocateDivides
<1>7. PICK ws : ws = R.vads
  OBVIOUS
<1>8. /\ Len(ws) = n + 1 /\ Len(ws) - 1 = n /\ \A j \in 1 .. n - 1 : ws[j] = vs[j]
      /\ ws[n].base = b /\ ws[n].limit = c
  BY <1>2, <1>6, <1>7 DEF Divided
<1>9. GapsSmall(s, to, k, ws, x)
  <2>1. NextSect(to, k) = k /\ to \in Walking
    BY DEF NextSect, Walking
  <2>2. k .. Len(s) = {}
    OBVIOUS
  <2>3. ASSUME NEW j \in 1 .. n, ws[j].free, j # n
        PROVE  ws[j].size < HeapSize /\ ws[j].size < StackSize
    <3>1. j \in 1 .. n - 1
      BY <2>3
    <3> QED
      BY <1>2, <1>8, <2>3, <3>1
  <2> QED
    BY <1>6, <1>8, <2>1, <2>2, <2>3 DEF GapsSmall
<1> QED
  BY <1>2, <1>3, <1>4, <1>6, <1>7, <1>8, <1>9 DEF Null

(* CreateDefaultHeap                                                       *)
LEMMA PlacedHeap ==
  ASSUME NEW s \in Seq(Sections), Placed(s), NEW vs, RegionsOK(vs), NEW k, k = Len(s) + 1,
         NEW hp, NEW stk, NEW w, PlacedOK(s, "map", k, vs, hp, stk, w),
         NEW R, R = Allocate(vs, HeapSize),
         NEW x, Starts(x, R)
  PROVE  /\ R.at # Null /\ PlacedOK(s, "heap", k, R.vads, hp, stk, x)
         /\ vs[Len(vs)].base = R.vads[Len(R.vads) - 1].base
<1>0. ~x.done
  BY DEF Starts
<1> USE <1>0
<1>1. Tiled(vs) /\ LastOK(s, "map", k, vs) /\ GapsSmall(s, "map", k, vs, w) /\ UsableOK(s, "map", k, vs, hp, stk)
  BY DEF PlacedOK
<1>2. PICK n \in Nat : n = Len(vs) /\ n >= 1 /\ vs[n].base \in 0 .. Limit
  BY <1>1, LastIs
<1>3. PICK t, H, K \in Nat :
           /\ t = SecEnd(s, Len(s)) /\ H = NbPages(HeapSize) * PageSize /\ K = NbPages(StackSize) * PageSize
           /\ (NbPages(StackSize) + 1) * PageSize = K + PageSize
           /\ t + H + K + PageSize <= Limit
  BY HeapStackFit
<1>4. k - 1 = Len(s) /\ Len(s) \in Nat
  OBVIOUS
<1>5. vs[n].base = t /\ vs[n].free
  BY <1>1, <1>2, <1>3, <1>4 DEF LastOK, NextSect
<1>6. \A j \in 1 .. n - 1 : vs[j].free => vs[j].size < HeapSize /\ vs[j].size < StackSize
  BY <1>1, <1>2 DEF GapsSmall, Walking
<1>7. t + H + PageSize <= Limit /\ HeapSize \in Nat /\ HeapSize > 0
  <2>1. PICK P, L \in Nat : P = PageSize /\ L = Limit
    BY ConstantsAre
  <2>15. t + H + K + P <= L
    BY <1>3, <2>1
  <2>2. t + H + P <= L
    BY ONLY <2>15, t \in Nat, H \in Nat, K \in Nat, P \in Nat, L \in Nat
  <2> QED
    BY <2>1, <2>2, ConstantsAre
<1>8. PICK ws : ws = R.vads
  OBVIOUS
<1>81. t \in 0 .. Limit /\ HeapSize \in {HeapSize, StackSize} /\ H = NbPages(HeapSize) * PageSize
  BY <1>2, <1>3, <1>5
<1>9. /\ R.at # Null /\ RegionsOK(ws) /\ Tiled(ws) /\ Divided(ws, vs, t + H)
      /\ GapsSmall(s, "heap", k, ws, x) /\ ws[Len(ws) - 1].base = t
      /\ x.vad = n /\ Len(ws) = n + 1 /\ x.addr = t /\ ws[x.vad].base = t
      /\ ws[x.vad].limit = t + H
  <2>1. LastForAll(s, vs, HeapSize, n, H, t, k)
    BY <1>1, <1>2, <1>4, <1>5, <1>6, <1>7, <1>81 DEF LastForAll
  <2> QED
    BY <1>8, <2>1, PlacedAllocate
<1>10. LastOK(s, "heap", k, ws)
  <2>1. ws[n + 1].base = t + H /\ ws[n + 1].free
    BY <1>2, <1>9 DEF Divided
  <2>2. t + H + (NbPages(StackSize) + 1) * PageSize <= Limit
    <3>1. PICK P, L \in Nat : P = PageSize /\ L = Limit
      BY ConstantsAre
    <3>2. PICK u \in Nat : u = K + P
      OBVIOUS
    <3>3. t + H + u <= L
      BY ONLY <1>3, <3>1, <3>2, t \in Nat, H \in Nat, K \in Nat, P \in Nat, L \in Nat
    <3> QED
      BY <1>3, <3>1, <3>2, <3>3
  <2> QED
    BY <1>9, <2>1, <2>2 DEF LastOK
<1>11. WalkOK(s, "heap", k, ws, x)
  <2>1. PICK g \in Nat : g = NbPages(HeapSize)
    BY NbPagesIs, ConstantsAre
  <2>2. ws[x.vad].limit = x.addr + g * PageSize /\ ws[x.vad].base <= x.addr
    BY <1>81, <1>9, <2>1
  <2>3. Len(ws) > 1 /\ x.vad = Len(ws) - 1
    BY <1>2, <1>9
  <2> QED
    BY <2>1, <2>2, <2>3 DEF WalkOK
<1>12. UsableOK(s, "heap", k, ws, hp, stk)
  <2>1. UsableOK(s, "map", k, ws, hp, stk)
    BY <1>1, <1>9, UsableKept
  <2> QED
    BY <2>1 DEF UsableOK
<1> QED
  BY <1>2, <1>5, <1>8, <1>9, <1>10, <1>11, <1>12 DEF PlacedOK

(* CreateDefaultStack                                                      *)
LEMMA PlacedStack ==
  ASSUME NEW s \in Seq(Sections), Placed(s), NEW vs, RegionsOK(vs), NEW k,
         NEW hp, NEW stk, NEW w, PlacedOK(s, "heap", k, vs, hp, stk, w), w.done,
         NEW y, y.vad = w.vad, y.limit = vs[w.vad].base, NEW R, R = Allocate(vs, StackSize),
         NEW x, Starts(x, R)
  PROVE  /\ R.at # Null /\ PlacedOK(s, "stack", k, R.vads, y, stk, x)
         /\ vs[Len(vs) - 1].base <= R.vads[Len(R.vads) - 1].base
<1>0. ~x.done
  BY DEF Starts
<1> USE <1>0
<1>1. /\ Tiled(vs) /\ LastOK(s, "heap", k, vs) /\ GapsSmall(s, "heap", k, vs, w)
      /\ UsableOK(s, "heap", k, vs, hp, stk) /\ WalkOK(s, "heap", k, vs, w)
  BY DEF PlacedOK
<1>2. PICK n \in Nat, b \in 0 .. Limit : n = Len(vs) /\ n >= 1 /\ b = vs[n].base
  BY <1>1, LastIs
<1>3. k = Len(s) + 1 /\ Len(s) \in Nat /\ vs[n].free /\ b + (NbPages(StackSize) + 1) * PageSize <= Limit
  BY <1>1, <1>2 DEF LastOK
<1>4. PICK K \in Nat : K = NbPages(StackSize) * PageSize /\ (NbPages(StackSize) + 1) * PageSize = K + PageSize
  BY HeapStackFit
<1>5. b + K + PageSize <= Limit /\ StackSize \in Nat /\ StackSize > 0
  <2>1. PICK P, L \in Nat : P = PageSize /\ L = Limit
    BY ConstantsAre
  <2>2. b + (K + P) <= L
    BY <1>3, <1>4, <2>1
  <2>3. b + K + P <= L
    BY ONLY <2>2, b \in 0 .. Limit, K \in Nat, P \in Nat
  <2> QED
    BY <2>1, <2>3, ConstantsAre
<1>6. n > 1 /\ w.vad = n - 1 /\ w.vad \in 1 .. n - 1 /\ ~vs[w.vad].free
  BY <1>1, <1>2 DEF WalkOK, Walking
<1>7. \A j \in 1 .. n - 1 : vs[j].free => vs[j].size < HeapSize /\ vs[j].size < StackSize
  BY <1>1, <1>2 DEF GapsSmall
<1>8. PICK ws : ws = R.vads
  OBVIOUS
<1>9. /\ R.at # Null /\ RegionsOK(ws) /\ Tiled(ws) /\ Divided(ws, vs, b + K)
      /\ GapsSmall(s, "stack", k, ws, x) /\ ws[Len(ws) - 1].base = b
      /\ x.vad = n /\ Len(ws) = n + 1 /\ x.addr = b /\ ws[x.vad].base = b
      /\ ws[x.vad].limit = b + K /\ b + K >= b + StackSize
  <2>1. StackSize \in {HeapSize, StackSize} /\ K = NbPages(StackSize) * PageSize
    BY <1>4
  <2> QED
    <3>1. LastForAll(s, vs, StackSize, n, K, b, k)
      BY <1>1, <1>2, <1>3, <1>5, <1>7, <2>1 DEF LastForAll
    <3> QED
      BY <1>8, <3>1, PlacedAllocate
<1>10. LastOK(s, "stack", k, ws)
  <2>1. ws[n + 1].free
    BY <1>2, <1>9 DEF Divided
  <2> QED
    BY <1>3, <1>9, <2>1 DEF LastOK
<1>11. WalkOK(s, "stack", k, ws, x)
  <2>1. PICK g \in Nat : g = NbPages(StackSize)
    BY NbPagesIs, ConstantsAre
  <2>2. ws[x.vad].limit = x.addr + g * PageSize /\ ws[x.vad].base <= x.addr
    BY <1>4, <1>9, <2>1
  <2>3. Len(ws) > 1 /\ x.vad = Len(ws) - 1
    BY <1>2, <1>9
  <2> QED
    BY <1>9, <2>1, <2>2, <2>3 DEF WalkOK
<1>12. PICK i \in 1 .. n - 1 : i = w.vad /\ i = n - 1
  BY <1>6
<1>13. PICK d, l, z \in 0 .. Limit : d = vs[i].base /\ l = vs[i].limit /\ z = vs[i].size /\ l = d + z
  <2>1. i \in 1 .. Len(vs)
    BY <1>2
  <2>2. vs[i] \in Regions /\ vs[i].limit = vs[i].base + vs[i].size
    BY <1>1, <2>1 DEF RegionsOK, Tiled
  <2> QED
    BY <2>2 DEF Regions
<1>14. l <= b /\ d <= l
  <2>1. i \in 1 .. Len(vs) /\ n \in 1 .. Len(vs) /\ i < n
    BY <1>2
  <2>2. l <= b
    BY <1>1, <1>2, <1>13, <2>1, TiledOrder
  <2> QED
    BY <1>13, <2>2
<1>15. UsableOK(s, "stack", k, ws, y, stk)
  <2>1. UsableOK(s, "heap", k, ws, hp, stk)
    BY <1>1, <1>9, UsableKept
  <2>2. ws[i] = vs[i]
    BY <1>2, <1>9 DEF Divided
  <2>3. y.vad = i /\ y.limit = d /\ ws[i].limit = l /\ ~ws[i].free
    BY <1>6, <1>12, <1>13, <2>2
  <2>4. i \in 1 .. Len(ws) - 1
    BY <1>9, <1>12
  <2> QED
    BY <1>14, <2>1, <2>3, <2>4 DEF UsableOK
<1>16. vs[Len(vs) - 1].base <= ws[Len(ws) - 1].base
  BY <1>2, <1>9, <1>12, <1>13, <1>14, SMTT(40)
<1> QED
  BY <1>8, <1>9, <1>10, <1>11, <1>15, <1>16 DEF PlacedOK

(* One turn of ReservePages: the address stays in the region.              *)
LEMMA PlacedTurn ==
  ASSUME NEW s, NEW st \in Walking, NEW k, NEW vs, RegionsOK(vs), NEW hp, NEW stk, NEW w,
         PlacedOK(s, st, k, vs, hp, stk, w), ~w.done, w.addr \in 0 .. Limit, w.addr < vs[w.vad].limit,
         NEW y, y.vad = w.vad, y.addr = (w.addr + PageSize) % AddressMod, ~y.done
  PROVE  PlacedOK(s, st, k, vs, hp, stk, y)
<1>1. /\ Tiled(vs) /\ LastOK(s, st, k, vs) /\ GapsSmall(s, st, k, vs, w)
      /\ UsableOK(s, st, k, vs, hp, stk) /\ WalkOK(s, st, k, vs, w)
  BY DEF PlacedOK
<1>2. PICK n, i \in Nat : n = Len(vs) /\ n > 1 /\ i = w.vad /\ i = n - 1 /\ i \in 1 .. n - 1
  <2>1. Len(vs) \in Nat /\ Len(vs) > 1 /\ w.vad = Len(vs) - 1
    BY <1>1 DEF WalkOK, RegionsOK
  <2> QED
    BY <2>1
<1>3. vs[i] \in Regions
  BY <1>2 DEF RegionsOK
<1>4. PICK b, l \in 0 .. Limit : b = vs[i].base /\ l = vs[i].limit
  BY <1>3 DEF Regions
<1>5. PICK a \in 0 .. Limit : a = w.addr /\ b <= a /\ a < l
  BY <1>1, <1>2, <1>4 DEF WalkOK
<1>6. PICK m \in Nat : l = a + m * PageSize
  BY <1>1, <1>2, <1>4, <1>5 DEF WalkOK
<1>7. PICK P, L \in Nat : P = PageSize /\ P > 0 /\ L = Limit
  BY ConstantsAre
<1>8. PICK j \in Nat : m = j + 1
  <2>1. m # 0
    BY <1>5, <1>6, <1>7
  <2>2. m - 1 \in Nat /\ m = (m - 1) + 1
    BY <2>1
  <2> QED
    BY <2>2
<1>9. m * P = j * P + P
  BY <1>8
<1>10. PICK u \in Nat : u = j * P
  BY <1>7
<1>11. l = a + (u + P)
  BY <1>6, <1>7, <1>9, <1>10
<1>12. a + P \in 0 .. L /\ l = (a + P) + u /\ b <= a + P
  <2>1. a \in Nat /\ b \in Nat /\ l \in 0 .. L
    BY <1>7
  <2> QED
    BY ONLY <1>5, <1>11, <2>1, u \in Nat, P \in Nat, L \in Nat
<1>13. y.addr = a + P
  <2>1. PICK c \in 0 .. Limit : c = a + P
    BY <1>7, <1>12
  <2>2. c % AddressMod = c
    BY ModIs, Zenon
  <2> QED
    BY <1>5, <1>7, <2>1, <2>2
<1>14. vs[i].limit = y.addr + j * PageSize /\ vs[i].base <= y.addr
  BY <1>4, <1>7, <1>10, <1>12, <1>13
<1>15. WalkOK(s, st, k, vs, y)
  BY <1>1, <1>2, <1>14 DEF WalkOK
<1>16. GapsSmall(s, st, k, vs, y)
  BY <1>1 DEF GapsSmall
<1> QED
  BY <1>1, <1>15, <1>16 DEF PlacedOK

(* The end of ReservePages: the region is marked.                          *)
LEMMA PlacedDone ==
  ASSUME NEW s, NEW st \in Walking, NEW k, NEW vs, RegionsOK(vs), NEW hp, NEW stk, NEW w,
         PlacedOK(s, st, k, vs, hp, stk, w), NEW ws, IsMarked(ws, vs, w.vad),
         NEW y, y.vad = w.vad, y.done
  PROVE  PlacedOK(s, st, k, ws, hp, stk, y)
<1>1. /\ Tiled(vs) /\ LastOK(s, st, k, vs) /\ GapsSmall(s, st, k, vs, w)
      /\ UsableOK(s, st, k, vs, hp, stk) /\ WalkOK(s, st, k, vs, w)
  BY DEF PlacedOK
<1>2. PICK n, i \in Nat : n = Len(vs) /\ n > 1 /\ i = w.vad /\ i = n - 1 /\ i \in 1 .. n - 1
  <2>1. Len(vs) \in Nat /\ Len(vs) > 1 /\ w.vad = Len(vs) - 1
    BY <1>1 DEF WalkOK, RegionsOK
  <2> QED
    BY <2>1
<1>3. /\ Len(ws) = n /\ ~ws[i].free
      /\ \A j \in 1 .. n : /\ ws[j].base = vs[j].base /\ ws[j].limit = vs[j].limit
                           /\ ws[j].size = vs[j].size /\ ws[j].next = vs[j].next
                           /\ j # i => ws[j] = vs[j]
  BY <1>2 DEF IsMarked
<1>4. n \in 1 .. n /\ 1 \in 1 .. n /\ n # i /\ i \in 1 .. n
  BY <1>2
<1>5. Tiled(ws)
  <2>1. ASSUME NEW j \in 1 .. n - 1 PROVE ws[j].limit = ws[j + 1].base
    <3>1. j \in 1 .. n /\ j + 1 \in 1 .. n
      BY <1>2
    <3> QED
      BY <1>1, <1>2, <1>3, <3>1 DEF Tiled
  <2> QED
    BY <1>1, <1>2, <1>3, <1>4, <2>1 DEF Tiled
<1>6. LastOK(s, st, k, ws)
  BY <1>1, <1>2, <1>3, <1>4 DEF LastOK
<1>7. GapsSmall(s, st, k, ws, y)
  <2>1. ASSUME NEW j \in 1 .. n - 1, ws[j].free
        PROVE  /\ ws[j].size < HeapSize /\ ws[j].size < StackSize
               /\ j > 1 => \A e \in NextSect(st, k) .. Len(s) : ws[j].size < s[e].size
    <3>1. j \in 1 .. n /\ j # i
      BY <1>2, <1>3, <2>1
    <3>2. ws[j] = vs[j]
      BY <1>3, <3>1
    <3> QED
      BY <1>1, <1>2, <2>1, <3>1, <3>2 DEF GapsSmall
  <2> QED
    BY <1>3, <2>1 DEF GapsSmall
<1>8. WalkOK(s, st, k, ws, y)
  BY <1>1, <1>2, <1>3, <1>4 DEF WalkOK
<1>9. ASSUME NEW from, NEW to, Reserved(vs, from, to) PROVE Reserved(ws, from, to)
  <2>1. PICK j \in 1 .. n - 1 : vs[j].base = from /\ vs[j].limit >= to /\ ~vs[j].free
    BY <1>2, <1>9 DEF Reserved
  <2>2. j \in 1 .. n
    BY <1>2
  <2>3. ws[j].base = from /\ ws[j].limit >= to /\ ~ws[j].free
    BY <1>3, <2>1, <2>2
  <2> QED
    BY <1>3, <2>3 DEF Reserved
<1>10. UsableOK(s, st, k, ws, hp, stk)
  <2>1. \A j \in 1 .. k - 1 : j <= Len(s) => Reserved(ws, s[j].vaddr, End(s[j]))
    BY <1>1, <1>9 DEF UsableOK
  <2>2. stk # Null => Reserved(ws, stk, stk + StackSize)
    BY <1>1, <1>9 DEF UsableOK
  <2>3. ASSUME st \in {"stack", "ready"}
        PROVE  hp.vad \in 1 .. n - 1 /\ ~ws[hp.vad].free /\ hp.limit <= ws[hp.vad].limit
    <3>1. hp.vad \in 1 .. n - 1 /\ ~vs[hp.vad].free /\ hp.limit <= vs[hp.vad].limit
      BY <1>1, <1>2, <2>3 DEF UsableOK
    <3>2. hp.vad \in 1 .. n
      BY <1>2, <3>1
    <3> QED
      BY <1>3, <3>1, <3>2
  <2> QED
    BY <1>3, <2>1, <2>2, <2>3 DEF UsableOK
<1> QED
  BY <1>5, <1>6, <1>7, <1>8, <1>10 DEF PlacedOK

(* CopySection: the section is one of those that have a region.            *)
LEMMA PlacedCopy ==
  ASSUME NEW s \in Seq(Sections), NEW k \in Nat, k > 0, NEW vs, RegionsOK(vs), NEW hp, NEW stk, NEW w,
         PlacedOK(s, "copy", k, vs, hp, stk, w), w.done
  PROVE  /\ PlacedOK(s, "map", k + 1, vs, hp, stk, w) /\ k \in 1 .. Len(s)
         /\ vs[Len(vs) - 1].base = s[k].vaddr /\ vs[Len(vs)].base = End(s[k])
<1>1. /\ Tiled(vs) /\ LastOK(s, "copy", k, vs) /\ GapsSmall(s, "copy", k, vs, w)
      /\ UsableOK(s, "copy", k, vs, hp, stk) /\ WalkOK(s, "copy", k, vs, w)
  BY DEF PlacedOK
<1>2. PICK n, i \in Nat : n = Len(vs) /\ n > 1 /\ i = w.vad /\ i = n - 1 /\ i \in 1 .. n - 1
  <2>1. Len(vs) \in Nat /\ Len(vs) > 1 /\ w.vad = Len(vs) - 1
    BY <1>1 DEF WalkOK, RegionsOK, Walking
  <2> QED
    BY <2>1
<1>3. NextSect("copy", k) = k + 1 /\ NextSect("map", k + 1) = k + 1 /\ (k + 1) - 1 = k
  BY DEF NextSect
<1>4. vs[n].free /\ k + 1 \in 1 .. Len(s) + 1 /\ vs[n].base = SecEnd(s, k)
  BY <1>1, <1>2, <1>3 DEF LastOK
<1>5. k \in 1 .. Len(s) /\ k + 1 # 1 /\ k # 0
  BY <1>4
<1>6. vs[i].base = s[k].vaddr /\ vs[i].limit = End(s[k]) /\ ~vs[i].free
  BY <1>1, <1>2 DEF WalkOK, Walking
<1>7. LastOK(s, "map", k + 1, vs)
  BY <1>2, <1>3, <1>4, <1>5 DEF LastOK
<1>8. GapsSmall(s, "map", k + 1, vs, w)
  BY <1>1, <1>3 DEF GapsSmall
<1>9. WalkOK(s, "map", k + 1, vs, w)
  BY DEF WalkOK, Walking
<1>10. UsableOK(s, "map", k + 1, vs, hp, stk)
  <2>1. Reserved(vs, s[k].vaddr, End(s[k]))
    <3>1. PICK v, z \in 0 .. Limit, N \in Nat : End(s[k]) = v + N
      BY <1>5, EndIs
    <3>2. vs[i].limit >= End(s[k])
      BY <1>6, <3>1
    <3> QED
      BY <1>2, <1>6, <3>2 DEF Reserved
  <2>2. ASSUME NEW j \in 1 .. (k + 1) - 1, j <= Len(s) PROVE Reserved(vs, s[j].vaddr, End(s[j]))
    <3>1. j = k \/ j \in 1 .. k - 1
      OBVIOUS
    <3> QED
      BY <1>1, <2>1, <2>2, <3>1 DEF UsableOK
  <2> QED
    BY <1>1, <2>2 DEF UsableOK
<1>11. vs[Len(vs)].base = End(s[k])
  BY <1>2, <1>4, <1>5 DEF SecEnd
<1> QED
  BY <1>1, <1>2, <1>5, <1>6, <1>7, <1>8, <1>9, <1>10, <1>11 DEF PlacedOK

(* EndLoad                                                                 *)
LEMMA PlacedEnd ==
  ASSUME NEW s, NEW k, NEW vs, RegionsOK(vs), NEW hp, NEW stk, NEW w,
         PlacedOK(s, "stack", k, vs, hp, stk, w), w.done
  PROVE  PlacedOK(s, "ready", k, vs, hp, vs[w.vad].base, w)
<1>1. /\ Tiled(vs) /\ LastOK(s, "stack", k, vs) /\ GapsSmall(s, "stack", k, vs, w)
      /\ UsableOK(s, "stack", k, vs, hp, stk) /\ WalkOK(s, "stack", k, vs, w)
  BY DEF PlacedOK
<1>2. PICK n, i \in Nat : n = Len(vs) /\ n > 1 /\ i = w.vad /\ i = n - 1 /\ i \in 1 .. n - 1
  <2>1. Len(vs) \in Nat /\ Len(vs) > 1 /\ w.vad = Len(vs) - 1
    BY <1>1 DEF WalkOK, RegionsOK, Walking
  <2> QED
    BY <2>1
<1>3. ~vs[i].free /\ vs[i].limit >= vs[i].base + StackSize
  BY <1>1, <1>2 DEF WalkOK, Walking
<1>4. PICK a : a = vs[i].base
  OBVIOUS
<1>5. Reserved(vs, a, a + StackSize)
  BY <1>2, <1>3, <1>4 DEF Reserved
<1>6. LastOK(s, "ready", k, vs)
  BY <1>1 DEF LastOK
<1>7. GapsSmall(s, "ready", k, vs, w)
  BY <1>1 DEF GapsSmall, NextSect
<1>8. WalkOK(s, "ready", k, vs, w)
  BY DEF WalkOK, Walking
<1>9. UsableOK(s, "ready", k, vs, hp, a)
  BY <1>1, <1>5 DEF UsableOK
<1> QED
  BY <1>1, <1>2, <1>4, <1>6, <1>7, <1>8, <1>9 DEF PlacedOK

(* ReservePages of another process does not matter.                        *)
LEMMA ProcIdle ==
  ASSUME NEW img, NEW st, st = "none" \/ st = "ready", NEW k, NEW vs, NEW hp, NEW stk, NEW w, NEW y,
         NEW c, NEW P, ProcOK(img, st, k, vs, hp, stk, w, c, P)
  PROVE  ProcOK(img, st, k, vs, hp, stk, y, c, P)
BY DEF ProcOK, PlacedOK, GapsSmall, WalkOK, Walking

-----------------------------------------------------------------------------
(* The content of the pages                                                *)

(* Its pages stay below an address that grows.                             *)
LEMMA ContentUp ==
  ASSUME NEW c, c \subseteq Pages \X Entries, NEW a \in Nat, NEW b \in Nat, a <= b,
         \A x \in c : x[1] < PageOf(a)
  PROVE  \A x \in c : x[1] < PageOf(b)
<1>1. PageOf(a) \in Nat /\ PageOf(b) \in Nat /\ PageOf(a) <= PageOf(b)
  BY PagesAscend
<1>2. ASSUME NEW x \in c PROVE x[1] \in Int
  BY DEF Pages
<1> QED
  BY <1>1, <1>2

(* An entry that is set does not disturb the content of other pages.       *)
LEMMA ContentSet ==
  ASSUME NEW P \in [Pages -> Entries], NEW c, c \subseteq Pages \X Entries,
         \A x \in c : x[2] # Empty /\ P[x[1]] = x[2],
         NEW page, NEW e, \A x \in c : x[1] # page
  PROVE  \A x \in c : x[2] # Empty /\ [P EXCEPT ![page] = e][x[1]] = x[2]
OBVIOUS

(* The steps that set an entry of the page table.                          *)
LEMMA SetFrame ==
  ASSUME FrameInv, NEW p \in Procs, NEW page,
         LET t == TakeFrame(Mem(p)) IN SetMem(p, AddPageToPageDirectory(t, page, t.got))
  PROVE  \E e \in Entries : pte' = [pte EXCEPT ![p] = [pte[p] EXCEPT ![page] = e]]
<1>1. PICK t : t = TakeFrame(Mem(p))
  OBVIOUS
<1>2. IsMem(t) /\ t.pte = pte[p] /\ (t.got = NoFrame \/ t.got \in Frames \ ram.used)
  BY <1>1, MemIs, TakeFrameIs
<1>3. PICK e \in Entries : e = t.got
  BY <1>2 DEF Entries
<1>4. PICK n : n = AddPageToPageDirectory(t, page, e)
  OBVIOUS
<1>5. WithEntry(n, t, page, e)
  BY <1>2, <1>4, AddPageIs
<1>6. n.pte = [pte[p] EXCEPT ![page] = e]
  BY <1>2, <1>5 DEF WithEntry
<1>7. pte' = [pte EXCEPT ![p] = n.pte]
  BY <1>1, <1>3, <1>4 DEF SetMem
<1> QED
  BY <1>6, <1>7

(* ... or clear it.                                                        *)
LEMMA SetEmpty ==
  ASSUME FrameInv, NEW p \in Procs, NEW page, SetMem(p, AddPageToPageDirectory(Mem(p), page, Empty))
  PROVE  \E e \in Entries : pte' = [pte EXCEPT ![p] = [pte[p] EXCEPT ![page] = e]]
<1>1. PICK t : t = Mem(p)
  OBVIOUS
<1>2. IsMem(t) /\ t.pte = pte[p]
  BY <1>1, MemIs
<1>3. PICK e \in Entries : e = Empty
  BY DEF Entries
<1>4. PICK n : n = AddPageToPageDirectory(t, page, e)
  OBVIOUS
<1>5. WithEntry(n, t, page, e)
  BY <1>2, <1>4, AddPageIs
<1>6. n.pte = [pte[p] EXCEPT ![page] = e]
  BY <1>2, <1>5 DEF WithEntry
<1>7. pte' = [pte EXCEPT ![p] = n.pte]
  BY <1>1, <1>3, <1>4 DEF SetMem
<1> QED
  BY <1>6, <1>7

-----------------------------------------------------------------------------
(* The steps                                                               *)

(* What the loading of the modules says of one of them.                    *)
LEMMA ProcTypes ==
  ASSUME LoadInv, NEW p \in Procs
  PROVE  /\ image[p] \in Seq(Sections) /\ RegionsOK(vads[p]) /\ Len(vads[p]) \in Nat
         /\ content[p] \subseteq Pages \X Entries /\ sect[p] \in Nat /\ sect[p] > 0
         /\ heap[p].limit \in 0 .. Limit /\ walk.addr \in 0 .. Limit
         /\ stage[p] # "none" => Len(vads[p]) >= 1
         /\ stage[p] \in Walking => walk.vad \in 1 .. Len(vads[p])
<1>1. image[p] \in Seq(Sections)
  BY DEF LoadInv, Sections
<1>2. RegionsOK(vads[p]) /\ Len(vads[p]) \in Nat
  BY DEF LoadInv, RegionsOK
<1>3. content[p] \subseteq Pages \X Entries /\ sect[p] \in Nat /\ sect[p] > 0
  BY DEF LoadInv
<1>4. heap[p].limit \in 0 .. Limit /\ walk.addr \in 0 .. Limit
  BY DEF LoadInv
<1>5. /\ stage[p] # "none" => Len(vads[p]) >= 1
      /\ stage[p] \in Walking => walk.vad \in 1 .. Len(vads[p])
  BY DEF LoadInv
<1> QED
  BY <1>1, <1>2, <1>3, <1>4, <1>5

(* A step of process p leaves the others alone.                            *)
Others(p) ==
  /\ image' = image
  /\ \A q \in Procs \ {p} :
       /\ stage'[q] = stage[q] /\ sect'[q] = sect[q] /\ vads'[q] = vads[q] /\ heap'[q] = heap[q]
       /\ stack'[q] = stack[q] /\ content'[q] = content[q] /\ pte'[q] = pte[q]

(* A step of the loader: the other processes are loaded, or not created.   *)
LEMMA PlaceStep ==
  ASSUME LoadInv, PlaceInv, NEW p \in Procs, NEW s, Loading(p, s), s # "ready", Others(p),
         WellPlaced(image[p]) =>
           ProcOK(image[p], stage'[p], sect'[p], vads'[p], heap'[p], stack'[p], walk', content'[p], pte'[p])
  PROVE  PlaceInv'
<1>1. stage[p] # "ready" /\ \A q \in 1 .. p - 1 : stage[q] = "ready"
  BY DEF Loading
<1>2. ASSUME NEW q \in Procs, q # p PROVE stage[q] = "none" \/ stage[q] = "ready"
  <2>1. q > p \/ q \in 1 .. p - 1
    BY <1>2, SpaceAssumption DEF Procs
  <2> QED
    BY <1>1, <2>1, OthersWait
<1>3. ASSUME NEW q \in Procs, WellPlaced(image'[q])
      PROVE  ProcOK(image'[q], stage'[q], sect'[q], vads'[q], heap'[q], stack'[q], walk', content'[q], pte'[q])
  <2>1. CASE q = p
    BY <1>3, <2>1 DEF Others
  <2>2. CASE q # p
    <3>1. ProcOK(image[q], stage[q], sect[q], vads[q], heap[q], stack[q], walk, content[q], pte[q])
      BY <1>3 DEF PlaceInv, Others
    <3>2. ProcOK(image[q], stage[q], sect[q], vads[q], heap[q], stack[q], walk', content[q], pte[q])
      BY <1>2, <2>2, <3>1, ProcIdle
    <3> QED
      BY <2>2, <3>2 DEF Others
  <2> QED
    BY <2>1, <2>2
<1> QED
  BY <1>3 DEF PlaceInv, Procs

(* The process at hand.                                                    *)
LEMMA PlaceHere ==
  ASSUME LoadInv, PlaceInv, NEW p \in Procs, WellPlaced(image[p])
  PROVE  /\ ProcOK(image[p], stage[p], sect[p], vads[p], heap[p], stack[p], walk, content[p], pte[p])
         /\ Mapped(image[p]) \in Seq(Sections) /\ Placed(Mapped(image[p]))
BY ProcTypes, MappedIs, PlacedIs DEF PlaceInv

(* CreateProcess                                                           *)
LEMMA PlaceCreate ==
  ASSUME LoadInv, FrameInv, PlaceInv, NEW p \in Procs, CreateProcess(p)
  PROVE  PlaceInv'
<1>1. Loading(p, "none") /\ stage[p] = "none" /\ stage' = [stage EXCEPT ![p] = "map"]
  BY DEF CreateProcess, Loading
<1>2. vads' = [vads EXCEPT ![p] = FirstRegions] /\ \E P : pte' = [pte EXCEPT ![p] = P]
  BY DEF CreateProcess, SetMem
<1>3. /\ image' = image /\ sect' = sect /\ content' = content /\ heap' = heap
      /\ stack' = stack /\ walk' = walk
  BY DEF CreateProcess
<1>4. Others(p)
  BY <1>1, <1>2, <1>3 DEF Others, LoadInv, FrameInv
<1>5. stage'[p] = "map" /\ vads'[p] = FirstRegions
  BY <1>1, <1>2 DEF LoadInv
<1>6. ASSUME WellPlaced(image[p])
      PROVE  ProcOK(image[p], "map", sect[p], FirstRegions, heap[p], stack[p], walk, content[p], pte'[p])
  <2>1. ProcOK(image[p], "none", sect[p], vads[p], heap[p], stack[p], walk, content[p], pte[p])
    BY <1>1, <1>6, PlaceHere
  <2>2. sect[p] = 1 /\ stack[p] = Null /\ content[p] = {}
    BY <2>1 DEF ProcOK, ContentOK
  <2>3. PlacedOK(Mapped(image[p]), "map", 1, FirstRegions, heap[p], Null, walk)
    BY <1>6, PlaceHere, PlacedCreate
  <2>4. ContentOK("map", FirstRegions, {}, pte'[p])
    BY DEF ContentOK, Walking
  <2> QED
    BY <2>2, <2>3, <2>4 DEF ProcOK
<1> QED
  BY <1>1, <1>3, <1>4, <1>5, <1>6, PlaceStep

(* Reserve, of the regions found for a well placed process.                *)
LEMMA PlaceFound ==
  ASSUME LoadInv, FrameInv, PlaceInv, NEW p \in Procs, NEW s \in {"map", "heap"}, Loading(p, s),
         NEW R, NEW ph, NEW to \in Walking, R.at # Null => Reserve(p, R, ph, to),
         image' = image, sect' = sect, content' = content, stack' = stack, pte' = pte,
         NEW hp, heap' = [heap EXCEPT ![p] = hp],
         R.at = Null => \E t \in Stages : stage' = [stage EXCEPT ![p] = t] /\ vads' = vads,
         NEW b,
         WellPlaced(image[p]) =>
           /\ R.at # Null
           /\ \A x : Starts(x, R) =>
                PlacedOK(Mapped(image[p]), to, sect[p], R.vads, hp, stack[p], x)
           /\ R.vads[Len(R.vads) - 1].base \in Nat /\ b \in Nat /\ b <= R.vads[Len(R.vads) - 1].base
           /\ \A x \in content[p] : x[1] < PageOf(b)
  PROVE  PlaceInv'
<1>1. CASE R.at = Null
  <2>1. Others(p)
    BY <1>1 DEF Others, LoadInv
  <2>2. ~WellPlaced(image[p])
    BY <1>1
  <2> QED
    BY <2>1, <2>2, PlaceStep
<1>2. CASE R.at # Null
  <2>1. /\ vads' = [vads EXCEPT ![p] = R.vads] /\ stage' = [stage EXCEPT ![p] = to]
        /\ walk' = [vad |-> R.at, addr |-> R.vads[R.at].base, physical |-> ph, done |-> FALSE]
    BY <1>2 DEF Reserve
  <2>2. Others(p)
    BY <2>1 DEF Others, LoadInv
  <2>3. vads'[p] = R.vads /\ stage'[p] = to /\ heap'[p] = hp /\ Starts(walk', R)
    BY <2>1 DEF LoadInv, Starts
  <2>4. ASSUME WellPlaced(image[p])
        PROVE  ProcOK(image[p], to, sect[p], R.vads, hp, stack[p], walk', content[p], pte[p])
    <3>1. ProcOK(image[p], s, sect[p], vads[p], heap[p], stack[p], walk, content[p], pte[p])
      BY <2>4, PlaceHere DEF Loading
    <3>2. PlacedOK(Mapped(image[p]), to, sect[p], R.vads, hp, stack[p], walk')
      BY <2>3, <2>4
    <3>3. PICK a, d \in Nat : d = b /\ a = R.vads[Len(R.vads) - 1].base /\ d <= a
      BY <2>4
    <3>4. \A x \in content[p] : x[1] < PageOf(a)
      BY <2>4, <3>3, ProcTypes, ContentUp
    <3>5. ContentOK(to, R.vads, content[p], pte[p])
      BY <3>1, <3>3, <3>4 DEF ProcOK, ContentOK, Walking
    <3>6. to # "none"
      BY DEF Walking
    <3> QED
      BY <3>2, <3>5, <3>6 DEF ProcOK
  <2> QED
    BY <2>2, <2>3, <2>4, PlaceStep
<1> QED
  BY <1>1, <1>2

(* ReservePages walks over a region before the last.                       *)
LEMMA WalkBase ==
  ASSUME NEW s, NEW st \in Walking, NEW k, NEW vs, RegionsOK(vs), NEW hp, NEW stk, NEW w,
         PlacedOK(s, st, k, vs, hp, stk, w)
  PROVE  vs[Len(vs) - 1].base \in Nat /\ vs[Len(vs)].base \in Nat
<1>1. PICK n \in Nat : n = Len(vs) /\ n > 1
  BY DEF RegionsOK, PlacedOK, WalkOK
<1>2. n - 1 \in 1 .. Len(vs) /\ n \in 1 .. Len(vs)
  BY <1>1
<1>3. vs[n - 1] \in Regions /\ vs[n] \in Regions
  BY <1>2 DEF RegionsOK
<1> QED
  BY <1>1, <1>3 DEF Regions

(* The next section to map is one of those that are mapped.                *)
LEMMA NextMapped ==
  ASSUME LoadInv, PlaceInv, NEW p \in Procs, WellPlaced(image[p]), stage[p] = "map"
  PROVE  /\ MoreSections(p) => /\ sect[p] \in 1 .. Len(Mapped(image[p]))
                               /\ Mapped(image[p])[sect[p]] = image[p][sect[p]]
         /\ ~MoreSections(p) => sect[p] = Len(Mapped(image[p])) + 1
<1>1. PICK img \in Seq(Sections) : img = image[p]
  BY ProcTypes
<1>2. PICK s \in Seq(Sections) : s = Mapped(img)
  BY <1>1, MappedIs
<1>3. /\ Len(s) <= Len(img) /\ \A i \in 1 .. Len(s) : s[i] = img[i]
      /\ Len(s) + 1 <= Len(img) => img[Len(s) + 1].vaddr = Null
  BY <1>2, MappedIs
<1>4. PICK k \in Nat : k = sect[p] /\ k > 0
  BY ProcTypes
<1>5. k \in 1 .. Len(s) + 1
  <2>1. LastOK(s, "map", k, vads[p])
    BY <1>1, <1>2, <1>4, PlaceHere DEF ProcOK, PlacedOK
  <2> QED
    BY <2>1 DEF LastOK, NextSect
<1>6. ASSUME k <= Len(img), img[k].vaddr # Null PROVE k \in 1 .. Len(s) /\ s[k] = img[k]
  <2>1. k # Len(s) + 1
    BY <1>3, <1>6
  <2> QED
    BY <1>3, <1>5, <2>1
<1>7. ASSUME ~(k <= Len(img) /\ img[k].vaddr # Null) PROVE k = Len(s) + 1
  <2> SUFFICES ASSUME k # Len(s) + 1 PROVE FALSE
    OBVIOUS
  <2>1. k \in 1 .. Len(s)
    BY <1>5
  <2>2. k <= Len(img) /\ s[k] = img[k]
    BY <1>3, <2>1
  <2>3. s[k].vaddr # Null
    <3>1. Placed(s)
      BY <1>1, <1>2, PlaceHere
    <3>2. PICK v \in 0 .. Limit, e \in Nat : v = s[k].vaddr /\ e = SecEnd(s, k - 1) /\ e <= v
      BY <2>1, <3>1, SectionFits
    <3>3. e > 0
      <4>1. CASE k = 1
        BY <3>2, <4>1, ConstantsAre DEF SecEnd
      <4>2. CASE k # 1
        <5>1. k - 1 \in 1 .. Len(s)
          BY <2>1, <4>2
        <5>2. PICK u, z \in 0 .. Limit, N \in Nat : z < N /\ SecEnd(s, k - 1) = u + N
          BY <5>1, EndIs
        <5> QED
          BY <3>2, <5>2
      <4> QED
        BY <4>1, <4>2
    <3> QED
      BY <3>2, <3>3 DEF Null
  <2> QED
    BY <1>7, <2>2, <2>3
<1> QED
  BY <1>1, <1>2, <1>4, <1>6, <1>7 DEF MoreSections

(* MapSection                                                              *)
LEMMA PlaceMap ==
  ASSUME LoadInv, FrameInv, PlaceInv, NEW p \in Procs, MapSection(p)
  PROVE  PlaceInv'
<1>1. Loading(p, "map") /\ stage[p] = "map" /\ MoreSections(p) /\ "copy" \in Walking
  BY DEF MapSection, Loading, Walking
<1>2. PICK R : R = AllocateAtAddress(vads[p], image[p][sect[p]].vaddr, image[p][sect[p]].size)
  OBVIOUS
<1>3. IF R.at = Null THEN Panic ELSE Reserve(p, R, TRUE, "copy")
  BY <1>2 DEF MapSection
<1>4. image' = image /\ sect' = sect /\ content' = content /\ heap' = heap /\ stack' = stack /\ pte' = pte
  BY DEF MapSection
<1>5. heap' = [heap EXCEPT ![p] = heap[p]]
  BY <1>4, SameEntry DEF LoadInv
<1>6. R.at = Null => \E t \in Stages : stage' = [stage EXCEPT ![p] = t] /\ vads' = vads
  <2>1. stage = [stage EXCEPT ![p] = "map"]
    BY <1>1, SameEntry DEF LoadInv
  <2> QED
    BY <1>3, <2>1 DEF Panic, Stages
<1>7. PICK vs : vs = vads[p]
  OBVIOUS
<1>8. ASSUME WellPlaced(image[p])
      PROVE  /\ R.at # Null
             /\ \A x : Starts(x, R) =>
                  PlacedOK(Mapped(image[p]), "copy", sect[p], R.vads, heap[p], stack[p], x)
             /\ R.vads[Len(R.vads) - 1].base \in Nat /\ vs[Len(vs)].base \in Nat
             /\ vs[Len(vs)].base <= R.vads[Len(R.vads) - 1].base
             /\ \A x \in content[p] : x[1] < PageOf(vs[Len(vs)].base)
  <2>1. PICK s \in Seq(Sections) : s = Mapped(image[p]) /\ Placed(s)
    BY <1>8, PlaceHere
  <2>2. PICK k \in 1 .. Len(s) : k = sect[p] /\ s[k] = image[p][sect[p]]
    BY <1>1, <1>8, <2>1, NextMapped
  <2>3. ProcOK(image[p], "map", k, vs, heap[p], stack[p], walk, content[p], pte[p])
    BY <1>1, <1>7, <1>8, <2>2, PlaceHere
  <2>4. PlacedOK(s, "map", k, vs, heap[p], stack[p], walk) /\ RegionsOK(vs) /\ Len(vs) >= 1 /\ Len(vs) \in Nat
    BY <1>1, <1>7, <2>1, <2>3, ProcTypes DEF ProcOK
  <2>5. R = AllocateAtAddress(vs, s[k].vaddr, s[k].size)
    BY <1>2, <1>7, <2>2
  <2>6. \A x : Starts(x, R) =>
          /\ R.at # Null /\ PlacedOK(s, "copy", k, R.vads, heap[p], stack[p], x)
          /\ vs[Len(vs)].base <= R.vads[Len(R.vads) - 1].base
    BY <2>1, <2>4, <2>5, PlacedMap
  <2>7. PICK x : x = [vad |-> R.at, addr |-> R.vads[R.at].base, done |-> FALSE]
    OBVIOUS
  <2>8. Starts(x, R)
    BY <2>7 DEF Starts
  <2>9. RegionsOK(R.vads)
    <3>1. s[k] \in Sections
      OBVIOUS
    <3>2. PICK a \in 0 .. Limit, z \in Nat : a = s[k].vaddr /\ z = s[k].size
      BY <3>1 DEF Sections
    <3>3. FoundOK(R, vs)
      BY <2>4, <2>5, <3>2, AllocateAtOK
    <3> QED
      BY <3>3 DEF FoundOK
  <2>10. R.vads[Len(R.vads) - 1].base \in Nat
    BY <1>1, <2>6, <2>8, <2>9, WalkBase
  <2>11. vs[Len(vs)].base \in Nat
    <3>1. Len(vs) \in 1 .. Len(vs)
      BY <2>4
    <3>2. vs[Len(vs)] \in Regions
      BY <2>4, <3>1 DEF RegionsOK
    <3> QED
      BY <3>2 DEF Regions
  <2>12. \A y \in content[p] : y[1] < PageOf(vs[Len(vs)].base)
    BY <2>3 DEF ProcOK, ContentOK
  <2> QED
    BY <2>1, <2>2, <2>6, <2>8, <2>10, <2>11, <2>12
<1> QED
  BY <1>1, <1>3, <1>4, <1>5, <1>6, <1>8, PlaceFound

(* CreateDefaultHeap                                                       *)
LEMMA PlaceHeap ==
  ASSUME LoadInv, FrameInv, PlaceInv, NEW p \in Procs, CreateDefaultHeap(p)
  PROVE  PlaceInv'
<1>1. Loading(p, "map") /\ stage[p] = "map" /\ ~MoreSections(p) /\ "heap" \in Walking
  BY DEF CreateDefaultHeap, Loading, Walking
<1>2. PICK R : R = Allocate(vads[p], HeapSize)
  OBVIOUS
<1>3. IF R.at = Null THEN Panic ELSE Reserve(p, R, FALSE, "heap")
  BY <1>2 DEF CreateDefaultHeap
<1>4. image' = image /\ sect' = sect /\ content' = content /\ heap' = heap /\ stack' = stack /\ pte' = pte
  BY DEF CreateDefaultHeap
<1>5. heap' = [heap EXCEPT ![p] = heap[p]]
  BY <1>4, SameEntry DEF LoadInv
<1>6. R.at = Null => \E t \in Stages : stage' = [stage EXCEPT ![p] = t] /\ vads' = vads
  <2>1. stage = [stage EXCEPT ![p] = "map"]
    BY <1>1, SameEntry DEF LoadInv
  <2> QED
    BY <1>3, <2>1 DEF Panic, Stages
<1>7. PICK vs : vs = vads[p]
  OBVIOUS
<1>8. ASSUME WellPlaced(image[p])
      PROVE  /\ R.at # Null
             /\ \A x : Starts(x, R) =>
                  PlacedOK(Mapped(image[p]), "heap", sect[p], R.vads, heap[p], stack[p], x)
             /\ R.vads[Len(R.vads) - 1].base \in Nat /\ vs[Len(vs)].base \in Nat
             /\ vs[Len(vs)].base <= R.vads[Len(R.vads) - 1].base
             /\ \A x \in content[p] : x[1] < PageOf(vs[Len(vs)].base)
  <2>1. PICK s \in Seq(Sections) : s = Mapped(image[p]) /\ Placed(s)
    BY <1>8, PlaceHere
  <2>2. PICK k : k = sect[p] /\ k = Len(s) + 1
    BY <1>1, <1>8, <2>1, NextMapped
  <2>3. ProcOK(image[p], "map", k, vs, heap[p], stack[p], walk, content[p], pte[p])
    BY <1>1, <1>7, <1>8, <2>2, PlaceHere
  <2>4. PlacedOK(s, "map", k, vs, heap[p], stack[p], walk) /\ RegionsOK(vs) /\ Len(vs) >= 1 /\ Len(vs) \in Nat
    BY <1>1, <1>7, <2>1, <2>3, ProcTypes DEF ProcOK
  <2>5. R = Allocate(vs, HeapSize)
    BY <1>2, <1>7
  <2>6. \A x : Starts(x, R) =>
          /\ R.at # Null /\ PlacedOK(s, "heap", k, R.vads, heap[p], stack[p], x)
          /\ vs[Len(vs)].base = R.vads[Len(R.vads) - 1].base
    BY <2>1, <2>2, <2>4, <2>5, PlacedHeap
  <2>7. PICK x : x = [vad |-> R.at, addr |-> R.vads[R.at].base, done |-> FALSE]
    OBVIOUS
  <2>8. Starts(x, R)
    BY <2>7 DEF Starts
  <2>9. vs[Len(vs)].base \in Nat
    <3>1. Len(vs) \in 1 .. Len(vs)
      BY <2>4
    <3>2. vs[Len(vs)] \in Regions
      BY <2>4, <3>1 DEF RegionsOK
    <3> QED
      BY <3>2 DEF Regions
  <2>10. \A y \in content[p] : y[1] < PageOf(vs[Len(vs)].base)
    BY <2>3 DEF ProcOK, ContentOK
  <2>11. vs[Len(vs)].base <= R.vads[Len(R.vads) - 1].base /\ R.vads[Len(R.vads) - 1].base \in Nat
    BY <2>6, <2>8, <2>9
  <2> QED
    BY <2>1, <2>2, <2>6, <2>8, <2>9, <2>10, <2>11
<1> QED
  BY <1>1, <1>3, <1>4, <1>5, <1>6, <1>8, PlaceFound

(* CreateDefaultStack                                                      *)
LEMMA PlaceStack ==
  ASSUME LoadInv, FrameInv, PlaceInv, NEW p \in Procs, CreateDefaultStack(p)
  PROVE  PlaceInv'
<1>1. Loading(p, "heap") /\ stage[p] = "heap" /\ "heap" \in Walking /\ "stack" \in Walking /\ walk.done
  BY DEF CreateDefaultStack, Loading, Walking
<1>2. PICK R : R = Allocate(vads[p], StackSize)
  OBVIOUS
<1>3. IF R.at = Null
      THEN stage' = [stage EXCEPT ![p] = "ready"] /\ UNCHANGED <<vads, walk, halted>>
      ELSE Reserve(p, R, TRUE, "stack")
  BY <1>2 DEF CreateDefaultStack
<1>4. image' = image /\ sect' = sect /\ content' = content /\ stack' = stack /\ pte' = pte
  BY DEF CreateDefaultStack
<1>5. PICK y : y = [vad |-> walk.vad, limit |-> vads[p][walk.vad].base]
  OBVIOUS
<1>6. heap' = [heap EXCEPT ![p] = y]
  BY <1>5 DEF CreateDefaultStack
<1>7. PICK vs : vs = vads[p]
  OBVIOUS
<1>71. R.at = Null => \E t \in Stages : stage' = [stage EXCEPT ![p] = t] /\ vads' = vads
  BY <1>3 DEF Stages
<1>8. ASSUME WellPlaced(image[p])
      PROVE  /\ R.at # Null
             /\ \A x : Starts(x, R) =>
                  PlacedOK(Mapped(image[p]), "stack", sect[p], R.vads, y, stack[p], x)
             /\ R.vads[Len(R.vads) - 1].base \in Nat /\ vs[Len(vs) - 1].base \in Nat
             /\ vs[Len(vs) - 1].base <= R.vads[Len(R.vads) - 1].base
             /\ \A x \in content[p] : x[1] < PageOf(vs[Len(vs) - 1].base)
  <2>1. PICK s \in Seq(Sections) : s = Mapped(image[p]) /\ Placed(s)
    BY <1>8, PlaceHere
  <2>2. PICK k : k = sect[p]
    OBVIOUS
  <2>3. ProcOK(image[p], "heap", k, vs, heap[p], stack[p], walk, content[p], pte[p])
    BY <1>1, <1>7, <1>8, <2>2, PlaceHere
  <2>4. PlacedOK(s, "heap", k, vs, heap[p], stack[p], walk) /\ RegionsOK(vs) /\ Len(vs) >= 1 /\ Len(vs) \in Nat
    BY <1>1, <1>7, <2>1, <2>3, ProcTypes DEF ProcOK
  <2>5. R = Allocate(vs, StackSize) /\ y.vad = walk.vad /\ y.limit = vs[walk.vad].base
    BY <1>2, <1>5, <1>7
  <2>6. \A x : Starts(x, R) =>
          /\ R.at # Null /\ PlacedOK(s, "stack", k, R.vads, y, stack[p], x)
          /\ vs[Len(vs) - 1].base <= R.vads[Len(R.vads) - 1].base
    BY <1>1, <2>1, <2>4, <2>5, PlacedStack
  <2>7. PICK x : x = [vad |-> R.at, addr |-> R.vads[R.at].base, done |-> FALSE]
    OBVIOUS
  <2>8. Starts(x, R)
    BY <2>7 DEF Starts
  <2>9. vs[Len(vs) - 1].base \in Nat
    BY <1>1, <2>4, WalkBase
  <2>10. \A z \in content[p] : z[1] < PageOf(vs[Len(vs) - 1].base)
    BY <1>1, <2>3 DEF ProcOK, ContentOK
  <2>11. R.vads[Len(R.vads) - 1].base \in Nat
    <3>1. FoundOK(R, vs)
      BY <2>4, <2>5, AllocateOK, ConstantsAre
    <3>2. RegionsOK(R.vads)
      BY <3>1 DEF FoundOK
    <3> QED
      BY <1>1, <2>6, <2>8, <3>2, WalkBase
  <2> QED
    BY <2>1, <2>2, <2>6, <2>8, <2>9, <2>10, <2>11
<1> QED
  BY <1>1, <1>3, <1>4, <1>6, <1>71, <1>8, PlaceFound

(* ReservePages writes behind the content, and marks one region.           *)
LEMMA PlaceReserve ==
  ASSUME LoadInv, FrameInv, PlaceInv, NEW p \in Procs, ReservePages(p)
  PROVE  PlaceInv'
<1>1. PICK st \in Walking : Loading(p, st) /\ stage[p] = st /\ st # "ready" /\ st # "none"
  BY DEF ReservePages, Walking, Loading
<1>2. /\ image' = image /\ stage' = stage /\ sect' = sect /\ content' = content /\ heap' = heap
      /\ stack' = stack /\ ~walk.done
  BY DEF ReservePages
<1>3. PICK vs : vs = vads[p]
  OBVIOUS
<1>4. PICK n \in Nat, i \in 1 .. Len(vs) :
           RegionsOK(vs) /\ n = Len(vs) /\ i = walk.vad /\ n >= 1
  BY <1>1, <1>3, ProcTypes
<1>5. PICK a \in 0 .. Limit : a = walk.addr
  BY ProcTypes
<1>6. PICK ws : ws = vads'[p]
  OBVIOUS
<1>7. ASSUME WellPlaced(image[p])
      PROVE  /\ ProcOK(image[p], st, sect[p], vs, heap[p], stack[p], walk, content[p], pte[p])
             /\ PlacedOK(Mapped(image[p]), st, sect[p], vs, heap[p], stack[p], walk)
             /\ \A x \in content[p] : x[2] # Empty /\ pte[p][x[1]] = x[2]
             /\ \A x \in content[p] : x[1] < PageOf(vs[n - 1].base)
             /\ i = n - 1 /\ vs[n - 1].base \in Nat /\ vs[n - 1].base <= a
  <2>1. ProcOK(image[p], st, sect[p], vs, heap[p], stack[p], walk, content[p], pte[p])
    BY <1>1, <1>3, <1>7, PlaceHere
  <2>2. PlacedOK(Mapped(image[p]), st, sect[p], vs, heap[p], stack[p], walk)
    BY <1>1, <2>1 DEF ProcOK
  <2>3. /\ \A x \in content[p] : x[2] # Empty /\ pte[p][x[1]] = x[2]
        /\ \A x \in content[p] : x[1] < PageOf(vs[n - 1].base)
    BY <1>1, <1>4, <2>1 DEF ProcOK, ContentOK
  <2>4. i = n - 1 /\ vs[i].base <= a
    BY <1>2, <1>4, <1>5, <2>2 DEF PlacedOK, WalkOK
  <2>5. vs[n - 1].base \in Nat
    BY <1>4, <2>2, WalkBase
  <2> QED
    BY <2>1, <2>2, <2>3, <2>4, <2>5
<1>8. CASE walk.addr < vads[p][walk.vad].limit
  <2>1. PICK page : page = PageOf(a)
    OBVIOUS
  <2>2. walk' = [walk EXCEPT !.addr = (@ + PageSize) % AddressMod] /\ vads' = vads
    BY <1>8 DEF ReservePages
  <2>3. PICK e \in Entries : pte' = [pte EXCEPT ![p] = [pte[p] EXCEPT ![page] = e]]
    <3>1. CASE walk.physical
      <4>1. LET t == TakeFrame(Mem(p)) IN SetMem(p, AddPageToPageDirectory(t, page, t.got))
        BY <1>5, <1>8, <2>1, <3>1 DEF ReservePages
      <4> QED
        BY <4>1, SetFrame
    <3>2. CASE ~walk.physical
      <4>1. SetMem(p, AddPageToPageDirectory(Mem(p), page, Empty))
        BY <1>5, <1>8, <2>1, <3>2 DEF ReservePages
      <4> QED
        BY <4>1, SetEmpty
    <3> QED
      BY <3>1, <3>2
  <2>4. Others(p)
    BY <1>2, <2>2, <2>3 DEF Others, FrameInv
  <2>5. walk'.vad = walk.vad /\ walk'.addr = (walk.addr + PageSize) % AddressMod /\ ~walk'.done
    BY <1>2, <2>2 DEF LoadInv
  <2>6. ASSUME WellPlaced(image[p])
        PROVE  ProcOK(image[p], st, sect[p], vs, heap[p], stack[p], walk', content[p], pte'[p])
    <3>1. walk.addr \in 0 .. Limit /\ walk.addr < vs[walk.vad].limit
      BY <1>3, <1>5, <1>8
    <3>2. PlacedOK(Mapped(image[p]), st, sect[p], vs, heap[p], stack[p], walk')
      BY <1>2, <1>4, <1>7, <2>5, <2>6, <3>1, PlacedTurn
    <3>3. \A x \in content[p] : x[1] # page
      <4>1. PICK b \in Nat : b = vs[n - 1].base /\ b <= a /\ \A x \in content[p] : x[1] < PageOf(b)
        BY <1>7, <2>6
      <4>2. \A x \in content[p] : x[1] < PageOf(a)
        <5>1. PICK c : c = content[p] /\ c \subseteq Pages \X Entries
          BY ProcTypes
        <5>2. PICK d \in Nat : d = a /\ b <= d
          BY <4>1
        <5>3. \A x \in c : x[1] < PageOf(d)
          BY <4>1, <5>1, <5>2, ContentUp
        <5> QED
          BY <5>1, <5>2, <5>3
      <4>3. PageOf(a) \in Nat
        BY PagesAscend
      <4>4. \A x \in content[p] : x[1] \in Int
        BY ProcTypes DEF Pages
      <4> QED
        BY <2>1, <4>2, <4>3, <4>4
    <3>4. pte[p] \in [Pages -> Entries] /\ content[p] \subseteq Pages \X Entries
      BY ProcTypes DEF FrameInv
    <3>5. \A x \in content[p] : x[2] # Empty /\ [pte[p] EXCEPT ![page] = e][x[1]] = x[2]
      BY <1>7, <2>6, <3>3, <3>4, ContentSet
    <3>6. pte'[p] = [pte[p] EXCEPT ![page] = e]
      BY <2>3 DEF FrameInv
    <3>7. ContentOK(st, vs, content[p], pte'[p])
      BY <1>1, <1>4, <1>7, <2>6, <3>5, <3>6 DEF ContentOK, Walking
    <3> QED
      BY <1>1, <3>2, <3>7 DEF ProcOK
  <2> QED
    BY <1>1, <1>2, <1>3, <2>2, <2>4, <2>6, PlaceStep
<1>9. CASE ~(walk.addr < vads[p][walk.vad].limit)
  <2>1. walk' = [walk EXCEPT !.done = TRUE] /\ vads' = [vads EXCEPT ![p][walk.vad].free = FALSE] /\ pte' = pte
    BY <1>9 DEF ReservePages
  <2>2. vads'[p] = [vs EXCEPT ![i].free = FALSE] /\ \A q \in Procs \ {p} : vads'[q] = vads[q]
    BY <1>3, <1>4, <2>1 DEF LoadInv
  <2>3. Others(p)
    BY <1>2, <2>1, <2>2 DEF Others
  <2>4. walk'.vad = walk.vad /\ walk'.done
    BY <2>1 DEF LoadInv
  <2>5. IsMarked(ws, vs, walk.vad)
    <3>1. ws = [vs EXCEPT ![i].free = FALSE]
      BY <1>6, <2>2
    <3>2. IsMarked([vs EXCEPT ![i].free = FALSE], vs, i)
      BY <1>4, MarkIs
    <3> QED
      BY <1>4, <3>1, <3>2
  <2>6. ASSUME WellPlaced(image[p])
        PROVE  ProcOK(image[p], st, sect[p], ws, heap[p], stack[p], walk', content[p], pte[p])
    <3>1. PlacedOK(Mapped(image[p]), st, sect[p], ws, heap[p], stack[p], walk')
      BY <1>4, <1>7, <2>4, <2>5, <2>6, PlacedDone
    <3>2. Len(ws) = n /\ ws[n - 1].base = vs[n - 1].base
      BY <1>4, <1>7, <2>5, <2>6 DEF IsMarked
    <3>3. ContentOK(st, ws, content[p], pte[p])
      BY <1>1, <1>7, <2>6, <3>2 DEF ContentOK, Walking
    <3> QED
      BY <1>1, <3>1, <3>3 DEF ProcOK
  <2> QED
    BY <1>1, <1>2, <1>6, <2>1, <2>3, <2>6, PlaceStep
<1> QED
  BY <1>8, <1>9

(* CopySection: the new content is in the region of the section.           *)
LEMMA PlaceCopy ==
  ASSUME LoadInv, FrameInv, PlaceInv, NEW p \in Procs, CopySection(p)
  PROVE  PlaceInv'
<1>1. Loading(p, "copy") /\ stage[p] = "copy" /\ walk.done /\ "copy" \in Walking
  BY DEF CopySection, Loading, Walking
<1>2. /\ image' = image /\ vads' = vads /\ heap' = heap /\ stack' = stack /\ walk' = walk /\ pte' = pte
      /\ sect' = [sect EXCEPT ![p] = sect[p] + 1] /\ stage' = [stage EXCEPT ![p] = "map"]
  BY DEF CopySection, LoadInv
<1>3. PICK to : to = Touched(image[p][sect[p]])
  OBVIOUS
<1>4. PICK C : C = {<<g, pte[p][g]>> : g \in to}
  OBVIOUS
<1>5. \/ content' = content
      \/ /\ content' = [content EXCEPT ![p] = content[p] \cup C]
         /\ \A g \in to : g \in Pages /\ pte[p][g] # Empty
  BY <1>3, <1>4 DEF CopySection, LoadInv
<1>6. Others(p)
  BY <1>2, <1>5 DEF Others, LoadInv
<1>7. stage'[p] = "map" /\ sect'[p] = sect[p] + 1
  BY <1>2 DEF LoadInv
<1>8. \/ content'[p] = content[p]
      \/ content'[p] = content[p] \cup C /\ \A g \in to : g \in Pages /\ pte[p][g] # Empty
  BY <1>5 DEF LoadInv
<1>9. ASSUME WellPlaced(image[p])
      PROVE  ProcOK(image[p], "map", sect[p] + 1, vads[p], heap[p], stack[p], walk, content'[p], pte[p])
  <2>1. PICK s \in Seq(Sections) : s = Mapped(image[p]) /\ Placed(s)
    BY <1>9, PlaceHere
  <2>2. PICK k \in Nat : k = sect[p] /\ k > 0
    BY ProcTypes
  <2>3. PICK vs : vs = vads[p] /\ RegionsOK(vs)
    BY ProcTypes
  <2>4. ProcOK(image[p], "copy", k, vs, heap[p], stack[p], walk, content[p], pte[p])
    BY <1>1, <1>9, <2>2, <2>3, PlaceHere
  <2>5. PlacedOK(s, "copy", k, vs, heap[p], stack[p], walk)
    BY <2>1, <2>4 DEF ProcOK
  <2>6. /\ PlacedOK(s, "map", k + 1, vs, heap[p], stack[p], walk) /\ k \in 1 .. Len(s)
        /\ vs[Len(vs) - 1].base = s[k].vaddr /\ vs[Len(vs)].base = End(s[k])
    <3>1. PICK hp, stk, w : hp = heap[p] /\ stk = stack[p] /\ w = walk
      OBVIOUS
    <3>2. PlacedOK(s, "copy", k, vs, hp, stk, w) /\ w.done
      BY <1>1, <2>5, <3>1
    <3>3. /\ PlacedOK(s, "map", k + 1, vs, hp, stk, w) /\ k \in 1 .. Len(s)
          /\ vs[Len(vs) - 1].base = s[k].vaddr /\ vs[Len(vs)].base = End(s[k])
      BY <2>2, <2>3, <3>2, PlacedCopy
    <3> QED
      BY <3>1, <3>3
  <2>7. PICK v, z \in 0 .. Limit, N \in Nat :
             v = s[k].vaddr /\ z = s[k].size /\ N = NbPages(z) * PageSize /\ End(s[k]) = v + N /\ z > 0
    <3>1. k \in 1 .. Len(s) /\ Placed(s)
      BY <2>1, <2>6
    <3>2. PICK v, z \in 0 .. Limit, N, e \in Nat :
           /\ v = s[k].vaddr /\ z = s[k].size /\ N = NbPages(z) * PageSize
           /\ z < N /\ N <= z + PageSize /\ End(s[k]) = v + N /\ SecEnd(s, k) = v + N
           /\ z > 0 /\ e = SecEnd(s, k - 1) /\ e <= v /\ v + N + PageSize <= Limit
      BY <3>1, SectionFits
    <3> QED
      BY <3>2, Zenon
  <2>8. s[k] = image[p][k]
    BY <2>1, <2>6, MappedIs, ProcTypes
  <2>9. \A g \in to : g < PageOf(v + N)
    <3>1. (v % PageSize) + (z % PageSize) <= PageSize
      BY <2>1, <2>6, <2>7 DEF Placed
    <3>2. ASSUME NEW g \in to PROVE g < PageOf(v + N)
      <4>1. PICK a \in v .. v + z - 1 : g = PageOf(a)
        BY <1>3, <2>2, <2>7, <2>8, <3>2 DEF Touched
      <4>2. PICK u, y \in Nat : u = v /\ y = z
        OBVIOUS
      <4>3. PageOf(a) < PageOf(u + N)
        BY <2>7, <3>1, <4>1, <4>2, SectionPages
      <4> QED
        BY <4>1, <4>2, <4>3
    <3> QED
      BY <3>2
  <2>10. \A x \in content[p] : x[1] < PageOf(v + N)
    <3>1. \A x \in content[p] : x[1] < PageOf(v)
      BY <1>1, <2>4, <2>6, <2>7 DEF ProcOK, ContentOK
    <3>2. PICK b, c \in Nat : b = v /\ c = v + N /\ b <= c
      BY <2>7
    <3> QED
      BY <3>1, <3>2, ProcTypes, ContentUp
  <2>11. \A x \in content[p] : x[2] # Empty /\ pte[p][x[1]] = x[2]
    BY <2>4 DEF ProcOK, ContentOK
  <2>12. ContentOK("map", vs, content'[p], pte[p])
    <3>1. vs[Len(vs)].base = v + N
      BY <2>6, <2>7
    <3>2. CASE content'[p] = content[p]
      BY <2>10, <2>11, <3>1, <3>2 DEF ContentOK, Walking
    <3>3. CASE content'[p] = content[p] \cup C /\ \A g \in to : g \in Pages /\ pte[p][g] # Empty
      <4>1. \A x \in C : x[2] # Empty /\ pte[p][x[1]] = x[2] /\ x[1] < PageOf(v + N)
        BY <1>4, <2>9, <3>3
      <4> QED
        BY <2>10, <2>11, <3>1, <3>3, <4>1 DEF ContentOK, Walking
    <3> QED
      BY <1>8, <3>2, <3>3
  <2> QED
    BY <2>1, <2>2, <2>3, <2>6, <2>12 DEF ProcOK
<1> QED
  BY <1>1, <1>2, <1>6, <1>7, <1>9, PlaceStep

(* EndLoad                                                                 *)
LEMMA PlaceEnd ==
  ASSUME LoadInv, FrameInv, PlaceInv, NEW p \in Procs, EndLoad(p)
  PROVE  PlaceInv'
<1>1. Loading(p, "stack") /\ stage[p] = "stack" /\ walk.done
  BY DEF EndLoad, Loading
<1>2. /\ image' = image /\ vads' = vads /\ heap' = heap /\ walk' = walk /\ pte' = pte
      /\ sect' = sect /\ content' = content
      /\ stack' = [stack EXCEPT ![p] = vads[p][walk.vad].base] /\ stage' = [stage EXCEPT ![p] = "ready"]
  BY DEF EndLoad
<1>3. Others(p)
  BY <1>2 DEF Others, LoadInv
<1>4. stage'[p] = "ready" /\ stack'[p] = vads[p][walk.vad].base
  BY <1>2 DEF LoadInv
<1>5. ASSUME WellPlaced(image[p])
      PROVE  ProcOK(image[p], "ready", sect[p], vads[p], heap[p], stack'[p], walk, content[p], pte[p])
  <2>1. ProcOK(image[p], "stack", sect[p], vads[p], heap[p], stack[p], walk, content[p], pte[p])
    BY <1>1, <1>5, PlaceHere
  <2>2. PlacedOK(Mapped(image[p]), "ready", sect[p], vads[p], heap[p], stack'[p], walk)
    BY <1>1, <1>4, <2>1, ProcTypes, PlacedEnd DEF ProcOK
  <2>3. ContentOK("ready", vads[p], content[p], pte[p])
    BY <2>1 DEF ProcOK, ContentOK, Walking
  <2> QED
    BY <2>2, <2>3 DEF ProcOK
<1> QED
  BY <1>1, <1>2, <1>3, <1>4, <1>5, PlaceStep

(* Once the modules run: what a step leaves of each of them.               *)
LEMMA PlaceRun ==
  ASSUME PlaceInv, UNCHANGED <<image, stage, sect, vads, stack, content, walk>>,
         \A q \in Procs : WellPlaced(image[q]) =>
           \/ heap'[q] = heap[q] /\ pte'[q] = pte[q]
           \/ ProcOK(image[q], stage[q], sect[q], vads[q], heap'[q], stack[q], walk, content[q], pte'[q])
  PROVE  PlaceInv'
BY DEF PlaceInv, Procs

(* IncreaseHeap stays in the region of the heap.                           *)
LEMMA PlaceGrow ==
  ASSUME LoadInv, PlaceInv, NEW p \in Procs, NEW n, IncreaseHeap(p, n)
  PROVE  PlaceInv'
<1>1. PICK to : to = (heap[p].limit + n * PageSize) % AddressMod
  OBVIOUS
<1>2. /\ stage[p] = "ready" /\ to <= vads[p][heap[p].vad].limit
      /\ heap' = [heap EXCEPT ![p].limit = to] /\ pte' = pte
      /\ UNCHANGED <<image, stage, sect, vads, stack, content, walk>>
  BY <1>1 DEF IncreaseHeap, Operation, Up, bootVars
<1>3. /\ heap'[p].vad = heap[p].vad /\ heap'[p].limit = to
      /\ \A q \in Procs \ {p} : heap'[q] = heap[q]
  BY <1>2 DEF LoadInv
<1>4. ASSUME WellPlaced(image[p])
      PROVE  ProcOK(image[p], "ready", sect[p], vads[p], heap'[p], stack[p], walk, content[p], pte[p])
  <2>1. PICK s, k, vs, hp, stk, y :
             /\ s = Mapped(image[p]) /\ k = sect[p] /\ vs = vads[p] /\ hp = heap[p] /\ stk = stack[p]
             /\ y = heap'[p]
    OBVIOUS
  <2>2. ProcOK(image[p], "ready", k, vs, hp, stk, walk, content[p], pte[p])
    BY <1>2, <1>4, <2>1 DEF PlaceInv
  <2>3. UsableOK(s, "ready", k, vs, hp, stk)
    BY <2>1, <2>2 DEF ProcOK, PlacedOK
  <2>4. y.vad = hp.vad /\ y.limit <= vs[hp.vad].limit
    BY <1>2, <1>3, <2>1
  <2>5. UsableOK(s, "ready", k, vs, y, stk)
    BY <2>3, <2>4 DEF UsableOK
  <2>6. PlacedOK(s, "ready", k, vs, y, stk, walk)
    BY <2>1, <2>2, <2>5 DEF ProcOK, PlacedOK
  <2> QED
    BY <2>1, <2>2, <2>6 DEF ProcOK
<1> QED
  BY <1>2, <1>3, <1>4, PlaceRun

(* ResolvePageFault sets an entry that was not present.                    *)
LEMMA PlaceFault ==
  ASSUME LoadInv, FrameInv, PlaceInv, NEW p \in Procs, NEW a, ResolvePageFault(p, a)
  PROVE  PlaceInv'
<1>1. PICK page : page = PageOf(a)
  OBVIOUS
<1>2. /\ pte[p][page] = Empty /\ heap' = heap
      /\ UNCHANGED <<image, stage, sect, vads, stack, content, walk>>
  BY <1>1 DEF ResolvePageFault
<1>3. \/ pte' = pte
      \/ LET t == TakeFrame(Mem(p)) IN SetMem(p, AddPageToPageDirectory(t, page, t.got))
  BY <1>1 DEF ResolvePageFault
<1>4. CASE pte' = pte
  BY <1>2, <1>4, PlaceRun
<1>5. CASE LET t == TakeFrame(Mem(p)) IN SetMem(p, AddPageToPageDirectory(t, page, t.got))
  <2>1. PICK e \in Entries : pte' = [pte EXCEPT ![p] = [pte[p] EXCEPT ![page] = e]]
    BY <1>5, SetFrame
  <2>2. pte'[p] = [pte[p] EXCEPT ![page] = e] /\ \A q \in Procs \ {p} : pte'[q] = pte[q]
    BY <2>1 DEF FrameInv
  <2>3. ASSUME WellPlaced(image[p])
        PROVE  ProcOK(image[p], stage[p], sect[p], vads[p], heap[p], stack[p], walk, content[p], pte'[p])
    <3>1. ProcOK(image[p], stage[p], sect[p], vads[p], heap[p], stack[p], walk, content[p], pte[p])
      BY <2>3 DEF PlaceInv
    <3>2. PICK c : c = content[p] /\ c \subseteq Pages \X Entries
      BY ProcTypes
    <3>3. PICK P \in [Pages -> Entries] : P = pte[p]
      BY DEF FrameInv
    <3>4. \A x \in c : x[2] # Empty /\ P[x[1]] = x[2]
      BY <3>1, <3>2, <3>3 DEF ProcOK, ContentOK
    <3>5. \A x \in c : x[1] # page
      BY <1>2, <3>3, <3>4
    <3>6. \A x \in c : x[2] # Empty /\ [P EXCEPT ![page] = e][x[1]] = x[2]
      BY <3>2, <3>4, <3>5, ContentSet
    <3>7. ContentOK(stage[p], vads[p], content[p], pte'[p])
      BY <2>2, <3>1, <3>2, <3>3, <3>6 DEF ProcOK, ContentOK
    <3> QED
      BY <3>1, <3>7 DEF ProcOK
  <2> QED
    BY <1>2, <2>2, <2>3, PlaceRun
<1> QED
  BY <1>3, <1>4, <1>5

(* Every step preserves PlaceInv.                                          *)
LEMMA PlaceKept ==
  ASSUME LoadInv, FrameInv, PlaceInv, [SpaceNext]_spaceVars
  PROVE  PlaceInv'
<1>1. ASSUME NEW p \in Procs,
             CreateProcess(p) \/ ReservePages(p) \/ MapSection(p) \/ CopySection(p)
             \/ CreateDefaultHeap(p) \/ CreateDefaultStack(p) \/ EndLoad(p)
      PROVE  PlaceInv'
  BY <1>1, PlaceCreate, PlaceReserve, PlaceMap, PlaceCopy, PlaceHeap, PlaceStack, PlaceEnd
<1>2. CASE PoolFind \/ PoolMark \/ \E f \in ram.calls : ReleasePage(f)
  <2>1. heap' = heap /\ pte' = pte /\ UNCHANGED <<image, stage, sect, vads, stack, content, walk>>
    BY <1>2 DEF PoolFind, PoolMark, ReleasePage, bootVars
  <2> QED
    BY <2>1, PlaceRun
<1>3. CASE UNCHANGED spaceVars
  <2>1. heap' = heap /\ pte' = pte /\ UNCHANGED <<image, stage, sect, vads, stack, content, walk>>
    BY <1>3 DEF spaceVars
  <2> QED
    BY <2>1, PlaceRun
<1> QED
  BY <1>1, <1>2, <1>3, PlaceGrow, PlaceFault DEF SpaceNext, Boot

(* The regions and the content of the well placed processes.               *)
THEOREM PlaceInvariant == SpaceSpec => []PlaceInv
<1>1. ASSUME SpaceInit PROVE PlaceInv
  <2>1. ASSUME NEW p \in Procs
        PROVE  ProcOK(image[p], stage[p], sect[p], vads[p], heap[p], stack[p], walk, content[p], pte[p])
    <3>1. stage[p] = "none" /\ sect[p] = 1 /\ stack[p] = Null /\ content[p] = {}
      BY <1>1 DEF SpaceInit
    <3> QED
      BY <3>1 DEF ProcOK, ContentOK, Walking
  <2> QED
    BY <2>1 DEF PlaceInv
<1>2. LoadInv /\ FrameInv /\ PlaceInv /\ [SpaceNext]_spaceVars => PlaceInv'
  BY PlaceKept
<1> QED
  BY <1>1, <1>2, LoadInvariant, FramesInvariant, PTL DEF SpaceSpec

-----------------------------------------------------------------------------
(* What follows for the processes.                                         *)

(* The regions of a well placed process tile its address space, along the  *)
(* list.                                                                   *)
THEOREM SpaceRegionsTile == SpaceSpec => []RegionsTile
<1> DEFINE Tile(vs, l) ==
             /\ Len(l) = Len(vs)
             /\ vs[l[1]].base = Base /\ vs[l[Len(l)]].limit = Limit
             /\ \A k \in DOMAIN l : vs[l[k]].limit = vs[l[k]].base + vs[l[k]].size
             /\ \A k \in 1 .. Len(l) - 1 : vs[l[k]].limit = vs[l[k + 1]].base
<1>0. RegionsTile <=>
        /\ SpaceTypeOK
        /\ \A p \in Procs : (stage[p] # "none" /\ WellPlaced(image[p])) => Tile(vads[p], Listed(vads[p]))
  BY DEF RegionsTile
<1>1. ASSUME LoadInv, PlaceInv, SpaceTypeOK PROVE RegionsTile
  <2>1. ASSUME NEW p \in Procs, stage[p] # "none", WellPlaced(image[p]),
               NEW vs, vs = vads[p], NEW l, l = Listed(vs)
        PROVE  Tile(vs, l)
    <3>1. Tiled(vs) /\ RegionsOK(vs)
      BY <1>1, <2>1, ProcTypes DEF PlaceInv, ProcOK, PlacedOK
    <3>2. PICK n \in Nat : n = Len(vs) /\ n >= 1 /\ vs \in Seq(Regions)
      BY <3>1 DEF RegionsOK, Tiled
    <3>3. l = [k \in 1 .. n |-> k]
      BY <2>1, <3>1, <3>2, ListedIs
    <3>4. Len(l) = n /\ DOMAIN l = 1 .. n /\ l[1] = 1 /\ l[n] = n
      BY <3>2, <3>3
    <3>5. \A k \in 1 .. n - 1 : l[k] = k /\ l[k + 1] = k + 1
      BY <3>3
    <3>6. \A k \in 1 .. n : l[k] = k
      BY <3>3
    <3> QED
      BY <3>1, <3>2, <3>4, <3>5, <3>6 DEF Tiled
  <2> QED
    <3>1. \A p \in Procs : (stage[p] # "none" /\ WellPlaced(image[p])) => Tile(vads[p], Listed(vads[p]))
      <4> HIDE DEF Tile
      <4> QED
        BY <2>1
    <3> QED
      BY <1>0, <1>1, <3>1
<1> QED
  BY <1>1, LoadInvariant, PlaceInvariant, SpaceTypes, PTL

(* What was copied into a well placed process stays there.                 *)
THEOREM SpaceSectionsStay == SpaceSpec => []SectionsStay
<1>1. PlaceInv => SectionsStay
  BY DEF PlaceInv, ProcOK, ContentOK, SectionsStay
<1> QED
  BY <1>1, PlaceInvariant, PTL

(* The region an address belongs to is the only one that covers it.        *)
LEMMA CoveredBy ==
  ASSUME NEW vs, RegionsOK(vs), Tiled(vs), NEW j \in 1 .. Len(vs), ~vs[j].free,
         NEW a \in Int, vs[j].base <= a, a < vs[j].limit
  PROVE  LookForVadFromAddress(vs, a) # Null /\ ~vs[LookForVadFromAddress(vs, a)].free
<1>1. PICK n \in Nat : n = Len(vs) /\ vs \in Seq(Regions)
  BY DEF RegionsOK
<1>2. PICK S : S = {i \in DOMAIN vs : Covers(vs[i], a)}
  OBVIOUS
<1>3. S \subseteq 1 .. Len(vs) /\ j \in S
  BY <1>1, <1>2 DEF Covers
<1>4. PICK i : i = First(vs, S)
  OBVIOUS
<1>5. i \in S
  BY <1>3, <1>4, TiledFirst
<1>6. i \in 1 .. Len(vs) /\ vs[i].base <= a /\ a < vs[i].limit
  BY <1>2, <1>3, <1>5 DEF Covers
<1>7. i = j
  <2>1. vs[i] \in Regions /\ vs[j] \in Regions
    BY <1>1, <1>6
  <2>2. PICK bi, li, bj, lj \in 0 .. Limit :
             bi = vs[i].base /\ li = vs[i].limit /\ bj = vs[j].base /\ lj = vs[j].limit
    BY <2>1 DEF Regions
  <2>3. i < j => li <= bj
    BY <1>6, <2>2, TiledOrder
  <2>4. j < i => lj <= bi
    BY <1>6, <2>2, TiledOrder
  <2>5. ~(i < j) /\ ~(j < i)
    BY <1>6, <2>2, <2>3, <2>4
  <2> QED
    BY <1>1, <1>6, <2>5
<1>8. LookForVadFromAddress(vs, a) = i
  BY <1>2, <1>4 DEF LookForVadFromAddress
<1> QED
  BY <1>6, <1>7, <1>8 DEF Null

(* What a process may use, it has reserved.                                *)
LEMMA UsableReserved ==
  ASSUME LoadInv, PlaceInv, NEW p \in Procs, stage[p] = "ready", WellPlaced(image[p]),
         NEW a \in Usable(p)
  PROVE  /\ a \in Int
         /\ \E j \in 1 .. Len(vads[p]) :
              ~vads[p][j].free /\ vads[p][j].base <= a /\ a < vads[p][j].limit
<1>1. PICK s \in Seq(Sections) : s = Mapped(image[p]) /\ Placed(s)
  BY PlaceHere
<1>20. PICK vs : vs = vads[p] /\ RegionsOK(vs) /\ Len(vs) \in Nat
  BY ProcTypes
<1>2. PICK n \in Nat : vs = vads[p] /\ RegionsOK(vs) /\ n = Len(vs)
  BY <1>20
<1>21. \A j \in 1 .. n : vs[j].base \in 0 .. Limit /\ vs[j].limit \in 0 .. Limit
  <2>1. \A j \in 1 .. n : vs[j] \in Regions
    BY <1>2 DEF RegionsOK
  <2> QED
    BY <2>1 DEF Regions
<1>3. PICK k, hp, stk : k = sect[p] /\ hp = heap[p] /\ stk = stack[p] /\ hp.limit \in 0 .. Limit /\ stk \in 0 .. Limit
  BY ProcTypes DEF LoadInv
<1>4. UsableOK(s, "ready", k, vs, hp, stk) /\ LastOK(s, "ready", k, vs)
  BY <1>1, <1>2, <1>3 DEF PlaceInv, ProcOK, PlacedOK
<1>5. k = Len(s) + 1 /\ Len(s) \in Nat
  BY <1>4 DEF LastOK
<1>6. CASE a \in UNION {x.vaddr .. x.vaddr + x.size - 1 : x \in Range(s)}
  <2>1. PICK i \in 1 .. Len(s) : a \in s[i].vaddr .. s[i].vaddr + s[i].size - 1
    BY <1>6 DEF Range
  <2>2. PICK v, z \in 0 .. Limit, N \in Nat :
             v = s[i].vaddr /\ z = s[i].size /\ z < N /\ End(s[i]) = v + N
    BY EndIs
  <2>3. a \in v .. v + z - 1
    BY <2>1, <2>2
  <2>4. Reserved(vs, s[i].vaddr, End(s[i]))
    BY <1>4, <1>5 DEF UsableOK
  <2>5. PICK j \in 1 .. n - 1 : vs[j].base = v /\ vs[j].limit >= v + N /\ ~vs[j].free
    BY <1>2, <2>2, <2>4 DEF Reserved
  <2>6. j \in 1 .. Len(vs)
    BY <1>2
  <2>7. PICK l \in 0 .. Limit : l = vs[j].limit /\ l >= v + N
    BY <1>2, <1>21, <2>5, <2>6
  <2>8. a \in Int /\ v <= a /\ a < l
    BY <2>2, <2>3, <2>7
  <2> QED
    BY <1>2, <2>5, <2>6, <2>7, <2>8
<1>7. CASE a \in vs[hp.vad].base .. hp.limit - 1
  <2>1. hp.vad \in 1 .. n - 1 /\ ~vs[hp.vad].free /\ hp.limit <= vs[hp.vad].limit
    BY <1>2, <1>4 DEF UsableOK
  <2>2. hp.vad \in 1 .. Len(vs)
    BY <1>2, <2>1
  <2>3. PICK j \in 1 .. n : j = hp.vad
    BY <1>2, <2>2
  <2>4. PICK b, l, h \in 0 .. Limit : b = vs[j].base /\ l = vs[j].limit /\ h = hp.limit /\ h <= l
    BY <1>3, <1>21, <2>1, <2>3
  <2>5. a \in Int /\ b <= a /\ a < l
    BY <1>7, <2>3, <2>4
  <2> QED
    BY <1>2, <2>1, <2>3, <2>4, <2>5
<1>8. CASE stk # Null /\ a \in stk .. stk + StackSize - 1
  <2>1. Reserved(vs, stk, stk + StackSize)
    BY <1>4, <1>8 DEF UsableOK
  <2>2. PICK j \in 1 .. n - 1 : vs[j].base = stk /\ vs[j].limit >= stk + StackSize /\ ~vs[j].free
    BY <1>2, <2>1 DEF Reserved
  <2>3. j \in 1 .. Len(vs)
    BY <1>2
  <2>4. PICK b, l \in 0 .. Limit : b = stk /\ l = vs[j].limit /\ l >= b + StackSize
    BY <1>2, <1>3, <1>21, <2>2, <2>3
  <2>5. a \in Int /\ b <= a /\ a < l
    BY <1>8, <2>4, ConstantsAre
  <2> QED
    BY <1>2, <2>2, <2>3, <2>4, <2>5
<1>9. \/ a \in UNION {x.vaddr .. x.vaddr + x.size - 1 : x \in Range(s)}
      \/ a \in vs[hp.vad].base .. hp.limit - 1
      \/ a \in IF stk = Null THEN {} ELSE stk .. stk + StackSize - 1
  <2> DEFINE A == UNION {x.vaddr .. x.vaddr + x.size - 1 : x \in Range(Mapped(image[p]))}
             B == vads[p][heap[p].vad].base .. heap[p].limit - 1
             C == IF stack[p] = Null THEN {} ELSE stack[p] .. stack[p] + StackSize - 1
  <2>0. Usable(p) = (A \cup B) \cup C
    BY Zenon DEF Usable
  <2>1. a \in (A \cup B) \cup C
    <3> HIDE DEF A, B, C
    <3> QED
      BY <2>0
  <2>2. A = UNION {x.vaddr .. x.vaddr + x.size - 1 : x \in Range(s)}
    BY <1>1
  <2>3. B = vs[hp.vad].base .. hp.limit - 1
    BY <1>2, <1>3
  <2>4. C = IF stk = Null THEN {} ELSE stk .. stk + StackSize - 1
    BY <1>3
  <2> HIDE DEF A, B, C
  <2> QED
    BY <2>1, <2>2, <2>3, <2>4
<1>10. a \in (IF stk = Null THEN {} ELSE stk .. stk + StackSize - 1) =>
         stk # Null /\ a \in stk .. stk + StackSize - 1
  OBVIOUS
<1> QED
  BY <1>2, <1>6, <1>7, <1>8, <1>9, <1>10

(* A page fault at an address a well placed process may use is resolved.   *)
THEOREM SpaceFaultsResolve == SpaceSpec => []FaultsResolve
<1>1. ASSUME LoadInv, PlaceInv, NEW p \in Procs, stage[p] = "ready", WellPlaced(image[p]), NEW a \in Usable(p)
      PROVE  LookForVadFromAddress(vads[p], a) # Null /\ ~vads[p][LookForVadFromAddress(vads[p], a)].free
  <2>1. Tiled(vads[p]) /\ RegionsOK(vads[p])
    BY <1>1, ProcTypes DEF PlaceInv, ProcOK, PlacedOK
  <2>2. PICK j \in 1 .. Len(vads[p]) :
             a \in Int /\ ~vads[p][j].free /\ vads[p][j].base <= a /\ a < vads[p][j].limit
    BY <1>1, UsableReserved
  <2> QED
    BY <2>1, <2>2, CoveredBy
<1>2. LoadInv /\ PlaceInv => FaultsResolve
  BY <1>1 DEF FaultsResolve
<1> QED
  BY <1>2, LoadInvariant, PlaceInvariant, PTL

=============================================================================
