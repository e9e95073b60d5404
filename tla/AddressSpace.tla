---------------------------- MODULE AddressSpace ----------------------------
(***************************************************************************)
(* The address space of the processes: the regions of a process            *)
(* (kernel/mem/Vad.cpp), its page tables (arch/x86/Vmm.cpp, Process.cpp),  *)
(* the bitmap of the frames (arch/x86/Pmm.cpp), the loading of the modules *)
(* (module/Module.cpp) and the resolution of page faults.                  *)
(*                                                                         *)
(* The modules are loaded one after the other, before interrupts are       *)
(* enabled.  Then processes raise page faults, which are handled with      *)
(* interrupts disabled, and system calls take frames for the page pool,    *)
(* which are not.                                                          *)
(***************************************************************************)
EXTENDS Integers, Sequences, FiniteSets, SequencesExt

CONSTANTS
  NbProcs,          (* modules, which are loaded in this order             *)
  ImagesOf,         (* for each of them, the images it may have            *)
  PageSize,         (* PAGE_SIZE                                           *)
  PagesPerTable,    (* pages a page table maps                             *)
  AddressMod,       (* addresses and sizes are numbers modulo AddressMod   *)
  Base,             (* V_PROCESS_BASE_ADDR                                 *)
  HeapSize,         (* DEFAULT_HEAP_SIZE                                   *)
  StackSize,        (* USER_STACK_DEFAULT_SIZE                             *)
  NbFrames,         (* frames behind the kernel's own                      *)
  MaxOps            (* bound: page faults and system calls                 *)

ASSUME SpaceAssumption ==
  /\ NbProcs \in Nat /\ PageSize \in Nat \ {0} /\ PagesPerTable \in Nat \ {0}
  /\ AddressMod \in Nat /\ AddressMod % PageSize = 0
  /\ Base \in Nat \ {0} /\ Base % PageSize = 0 /\ Base < AddressMod - 1
  /\ HeapSize \in Nat \ {0} /\ StackSize \in Nat \ {0} /\ NbFrames \in Nat
  /\ \A p \in 1 .. NbProcs : \A img \in ImagesOf[p] :
       img \in Seq([vaddr : 0 .. AddressMod - 1, size : 0 .. AddressMod - 1])

Procs == 1 .. NbProcs
Limit == AddressMod - 1                        (* V_PROCESS_LIMIT_ADDR     *)
Pages == 0 .. (AddressMod \div PageSize) - 1
PageOf(a) == a \div PageSize
Null == 0
Empty == 0                                     (* not present              *)
NoFrame == -1                                  (* what GetFreePage returns *)
                                               (* when nothing is left     *)

VARIABLES
  image,        (* each process: the sections <<[vaddr, size], ...>>       *)
  stage,        (* how far the module is loaded                            *)
  sect,         (* the next section to map                                 *)
  vads,         (* the regions, baseVad first, then in order of creation   *)
  pte, tables,  (* the page table entries; the page tables that exist      *)
  content,      (* where sections were copied to: pairs of page and frame  *)
  heap, stack,  (* defaultHeap: region and limitAddress; where esp is      *)
  walk,         (* ReservePages in progress: region, address, kind, end    *)
  ram,          (* memBitmap, and who has a frame; see Frames              *)
  pick,         (* the frame a system call is about to mark                *)
  ops,          (* bound: page faults and system calls so far              *)
  halted,       (* Panic, Pause, or a loop that does not end               *)
  raced         (* history: a frame was marked after it was taken          *)

spaceVars == <<image, stage, sect, vads, pte, tables, content, heap, stack,
               walk, ram, pick, ops, halted, raced>>
poolVars == <<pick, ops, raced>>
bootVars == <<image, stage, sect, vads, tables, content, stack, walk>>

(* ram.used: the bits of memBitmap.  ram.pool: the frames of the page pool *)
(* that are kept for ever (page directories, page tables, kernel stacks).  *)
(* ram.calls: the ones system calls have taken.                            *)
Frames == 1 .. NbFrames

-----------------------------------------------------------------------------
(* Physical memory.  TakeFrame and its callers are functions on what they  *)
(* change, [pte, tables, ram] of one process, and got, the frame found.    *)

(* Mutant of MarkUsed: the bit is not set.                                 *)
MarkUsedNot(r, f) == r

(* PmmBitmap::GetFreePage: the first frame whose bit is clear ...          *)
GetFreePage(used) ==
  IF Frames \subseteq used THEN NoFrame
  ELSE CHOOSE f \in Frames \ used : \A g \in Frames \ used : f <= g

(* ... whose bit is then set.  Callers compare the result with null, which *)
(* it never is: they go on with NoFrame.                                   *)
MarkUsed(r, f) == [r EXCEPT !.used = @ \cup ({f} \ {NoFrame})]

TakeFrame(m) ==
  LET f == GetFreePage(m.ram.used)
  IN [m EXCEPT !.ram = MarkUsed(@, f), !.got = f]

(* PageAlloc, as far as frames are concerned; see module PagePool.         *)
PageAlloc(m) ==
  LET t == TakeFrame(m)
  IN [t EXCEPT !.ram.pool = @ \cup ({t.got} \ {NoFrame})]

(* Vmm::AddPageToPageDirectory: the page table is created if it is not     *)
(* there, then the entry is set.                                           *)
AddPageToPageDirectory(m, page, entry) ==
  LET t == page \div PagesPerTable
      with == IF t \in m.tables THEN m
              ELSE [PageAlloc(m) EXCEPT !.tables = @ \cup {t}]
  IN [with EXCEPT !.pte[page] = entry]

-----------------------------------------------------------------------------
(* Regions                                                                 *)

Vad(base, size) ==
  [base |-> base % AddressMod, limit |-> (base + size) % AddressMod, size |-> size % AddressMod,
   free |-> TRUE, next |-> Null]

(* The regions in the order of the list.                                   *)
Listed(vs) ==
  LET from[i \in 0 .. Len(vs)] == IF i = Null THEN <<>> ELSE <<i>> \o from[vs[i].next]
  IN from[1]

Covers(v, a) == v.base <= a /\ a < v.limit

(* The loops of the LookFor... operations: from baseVad, the first of S.   *)
First(vs, S) ==
  LET from[i \in 0 .. Len(vs)] == IF i = Null \/ i \in S THEN i ELSE from[vs[i].next]
  IN from[1]

LookForVadFromAddress(vs, a) == First(vs, {i \in DOMAIN vs : Covers(vs[i], a)})

LookForFreeVadOfMinimumSize(vs, size) ==
  First(vs, {i \in DOMAIN vs : vs[i].size >= size /\ vs[i].free})

(* Mutant of LookForFreeVadAtAddress: the regions behind the first are not *)
(* looked at.                                                              *)
LookForFreeVadAtAddressFirst(vs, a, size) ==
  IF Covers(vs[1], a) /\ vs[1].free /\ vs[1].limit - a >= size THEN 1 ELSE Null

(* The loop tests the address before, and the size behind, its body: only  *)
(* the first region is known to contain the address when it is chosen.  A  *)
(* later one is chosen because it is free and large enough.                *)
LookForFreeVadAtAddress(vs, a, size) ==
  LET fits(i) == vs[i].free /\ vs[i].size >= size
      i == First(vs, {j \in DOMAIN vs : Covers(vs[j], a) \/ (j # 1 /\ fits(j))})
  IN IF i = Null THEN Null
     ELSE IF i # 1 /\ fits(i) THEN i
     ELSE IF vs[i].free /\ vs[i].limit - a >= size THEN i ELSE Null

(* _local_mod is 1 for every size but 0: a region always gets one page     *)
(* more than size \div PAGE_SIZE.                                          *)
NbPages(size) == (size \div PageSize) + 1

(* Mutant of Split: the region is cut at the size asked for.               *)
SplitUnrounded(vs, i, size) ==
  [Append(vs, Vad(vs[i].base + size, vs[i].size - size)) EXCEPT
     ![i].limit = (vs[i].base + size) % AddressMod, ![i].size = size, ![i].next = Len(vs) + 1]

(* Mutant of Split: the new region is not linked.                          *)
SplitUnlinked(vs, i, size) ==
  LET n == NbPages(size) * PageSize
  IN [Append(vs, Vad(vs[i].base + n, vs[i].size - n)) EXCEPT
        ![i].limit = (vs[i].base + n) % AddressMod, ![i].size = n]

(* Vad::Split: the next of the new region stays null, whatever followed.   *)
Split(vs, i, size) ==
  LET n == NbPages(size) * PageSize
  IN [Append(vs, Vad(vs[i].base + n, vs[i].size - n)) EXCEPT
        ![i].limit = (vs[i].base + n) % AddressMod, ![i].size = n, ![i].next = Len(vs) + 1]

SplitIfLarge(vs, i, size) ==
  IF vs[i].size - size > PageSize THEN Split(vs, i, size) ELSE vs

(* Vad::SplitAtAddress, when it does not fail.                             *)
SplitAtAddress(vs, i, a, size) ==
  IF vs[i].base = a THEN Split(vs, i, size)
  ELSE LET second == (vs[i].limit - a) % AddressMod
           cut == [Append(vs, [Vad(a, second) EXCEPT !.next = vs[i].next]) EXCEPT
                     ![i].limit = (@ - second) % AddressMod,
                     ![i].size = (@ - second) % AddressMod,
                     ![i].next = Len(vs) + 1]
       IN SplitIfLarge(cut, Len(vs) + 1, size)

Fail(vs) == [vads |-> vs, at |-> Null]

(* Vad::Create refuses the address null, which a new region has when       *)
(* address and size wrap: then Split fails, and the allocation with it.    *)
(* What SplitAtAddress has cut by then is of no matter: its caller panics. *)
Created(vs, new, at) ==
  IF \E i \in DOMAIN new : new[i].base = Null THEN Fail(vs) ELSE [vads |-> new, at |-> at]

(* Vad::Allocate, up to ReservePages: the regions, and the one to reserve. *)
Allocate(vs, size) ==
  LET i == LookForFreeVadOfMinimumSize(vs, size)
  IN IF size = 0 \/ i = Null THEN Fail(vs)
     ELSE Created(vs, SplitIfLarge(vs, i, size), i)

(* Vad::AllocateAtAddress, up to ReservePages, and the tests of            *)
(* SplitAtAddress.                                                         *)
AllocateAtAddress(vs, a, size) ==
  LET i == LookForFreeVadAtAddress(vs, a, size)
      v == vs[i]
      split == v.base # a \/ v.size - size > PageSize
  IN IF size = 0 \/ i = Null THEN Fail(vs)
     ELSE IF ~split THEN [vads |-> vs, at |-> i]
     ELSE IF \/ v.size - size < PageSize
             \/ v.base # a /\ (v.limit - a) % AddressMod < size
     THEN Fail(vs)
     ELSE Created(vs, SplitAtAddress(vs, i, a, size), IF v.base = a THEN i ELSE Len(vs) + 1)

-----------------------------------------------------------------------------
(* Kernel::LoadModules                                                     *)

Mem(p) == [pte |-> pte[p], tables |-> tables[p], ram |-> ram, got |-> NoFrame]

SetMem(p, m) ==
  /\ pte' = [pte EXCEPT ![p] = m.pte]
  /\ tables' = [tables EXCEPT ![p] = m.tables]
  /\ ram' = m.ram

SpaceInit ==
  /\ image \in {f \in [Procs -> UNION {ImagesOf[p] : p \in Procs}] :
                  \A p \in Procs : f[p] \in ImagesOf[p]}
  /\ stage = [p \in Procs |-> "none"]
  /\ sect = [p \in Procs |-> 1]
  /\ vads = [p \in Procs |-> <<>>]
  /\ pte = [p \in Procs |-> [g \in Pages |-> Empty]]
  /\ tables = [p \in Procs |-> {}]
  /\ content = [p \in Procs |-> {}]
  /\ heap = [p \in Procs |-> [vad |-> Null, limit |-> Null]]
  /\ stack = [p \in Procs |-> Null]
  /\ walk = [vad |-> Null, addr |-> Null, physical |-> FALSE, done |-> TRUE]
  /\ ram = [used |-> {}, pool |-> {}, calls |-> {}]
  /\ pick = Null /\ ops = 0
  /\ halted = FALSE /\ raced = FALSE

Loading(p, s) ==
  /\ ~halted /\ stage[p] = s
  /\ \A q \in 1 .. p - 1 : stage[q] = "ready"

(* The page directory, which shares the page tables of the kernel.         *)
CreateProcessPageDirectory(m) == PageAlloc(m)

(* Process::Create: one region, which is the whole space.                  *)
FirstRegions == <<Vad(Base, Limit - Base)>>

(* Thread::CreateThread: the main thread has a stack in the kernel.        *)
InitUserThread(m) == PageAlloc(m)

(* ProcessManager::CreateProcess                                           *)
CreateProcess(p) ==
  /\ Loading(p, "none")
  /\ SetMem(p, InitUserThread(CreateProcessPageDirectory(Mem(p))))
  /\ vads' = [vads EXCEPT ![p] = FirstRegions]
  /\ stage' = [stage EXCEPT ![p] = "map"]
  /\ UNCHANGED <<image, sect, content, heap, stack, walk, poolVars, halted>>

(* A region was chosen: its pages are reserved next.                       *)
Reserve(p, found, physical, to) ==
  /\ vads' = [vads EXCEPT ![p] = found.vads]
  /\ walk' = [vad |-> found.at, addr |-> found.vads[found.at].base,
              physical |-> physical, done |-> FALSE]
  /\ stage' = [stage EXCEPT ![p] = to]
  /\ UNCHANGED halted

(* The module cannot be loaded.                                            *)
Panic == halted' = TRUE /\ UNCHANGED <<vads, walk, stage>>

(* One turn of Vad::ReservePages: every page from the base to the limit    *)
(* gets a frame, or an entry that is not present.  At the end of the       *)
(* address space the address wraps to 0, and the walk does not end.        *)
ReservePages(p) ==
  /\ \E s \in {"copy", "heap", "stack"} : Loading(p, s)
  /\ ~walk.done
  /\ LET page == PageOf(walk.addr)
         t == TakeFrame(Mem(p))
     IN IF walk.addr < vads[p][walk.vad].limit
        THEN /\ SetMem(p, IF walk.physical THEN AddPageToPageDirectory(t, page, t.got)
                          ELSE AddPageToPageDirectory(Mem(p), page, Empty))
             /\ walk' = [walk EXCEPT !.addr = (@ + PageSize) % AddressMod]
             /\ UNCHANGED vads
        ELSE /\ vads' = [vads EXCEPT ![p][walk.vad].free = FALSE]
             /\ walk' = [walk EXCEPT !.done = TRUE]
             /\ UNCHANGED <<pte, tables, ram>>
  /\ UNCHANGED <<image, stage, sect, content, heap, stack, poolVars, halted>>

MoreSections(p) == sect[p] <= Len(image[p]) /\ image[p][sect[p]].vaddr # Null

(* _MapElfInProcess: the memory of the next section.                       *)
MapSection(p) ==
  /\ Loading(p, "map") /\ MoreSections(p)
  /\ LET found == AllocateAtAddress(vads[p], image[p][sect[p]].vaddr, image[p][sect[p]].size)
     IN IF found.at = Null THEN Panic ELSE Reserve(p, found, TRUE, "copy")
  /\ UNCHANGED <<image, sect, pte, tables, ram, content, heap, stack, poolVars>>

(* The pages MemorySetAndCopy writes to.                                   *)
Touched(s) == {PageOf(a) : a \in s.vaddr .. s.vaddr + s.size - 1}

(* MemorySetAndCopy.  A page that is missing is a fault of the kernel,     *)
(* which has no region: the system stops.                                  *)
CopySection(p) ==
  /\ Loading(p, "copy") /\ walk.done
  /\ LET to == Touched(image[p][sect[p]])
     IN IF \E g \in to : g \notin Pages \/ pte[p][g] = Empty
        THEN halted' = TRUE /\ UNCHANGED content
        ELSE /\ content' = [content EXCEPT ![p] = @ \cup {<<g, pte[p][g]>> : g \in to}]
             /\ UNCHANGED halted
  /\ sect' = [sect EXCEPT ![p] = @ + 1]
  /\ stage' = [stage EXCEPT ![p] = "map"]
  /\ UNCHANGED <<image, vads, pte, tables, ram, heap, stack, walk, poolVars>>

(* CreateDefaultHeapAndStack: the heap, ...                                *)
CreateDefaultHeap(p) ==
  /\ Loading(p, "map") /\ ~MoreSections(p)
  /\ LET found == Allocate(vads[p], HeapSize)
     IN IF found.at = Null THEN Panic ELSE Reserve(p, found, FALSE, "heap")
  /\ UNCHANGED <<image, sect, pte, tables, ram, content, heap, stack, poolVars>>

(* ... then CreateDefaultStack, whose failure is not looked at: esp stays  *)
(* what it was.                                                            *)
CreateDefaultStack(p) ==
  /\ Loading(p, "heap") /\ walk.done
  /\ heap' = [heap EXCEPT ![p] = [vad |-> walk.vad, limit |-> vads[p][walk.vad].base]]
  /\ LET found == Allocate(vads[p], StackSize)
     IN IF found.at = Null
        THEN stage' = [stage EXCEPT ![p] = "ready"] /\ UNCHANGED <<vads, walk, halted>>
        ELSE Reserve(p, found, TRUE, "stack")
  /\ UNCHANGED <<image, sect, pte, tables, ram, content, stack, poolVars>>

(* The end of Module::Load: esp is set and the thread may run.             *)
EndLoad(p) ==
  /\ Loading(p, "stack") /\ walk.done
  /\ stack' = [stack EXCEPT ![p] = vads[p][walk.vad].base]
  /\ stage' = [stage EXCEPT ![p] = "ready"]
  /\ UNCHANGED <<image, sect, vads, pte, tables, ram, content, heap, walk, poolVars, halted>>

-----------------------------------------------------------------------------
(* The processes run                                                       *)

Up == ~halted /\ \A p \in Procs : stage[p] = "ready"

(* Bound: one more page fault or system call.                              *)
Operation == Up /\ ops < MaxOps /\ ops' = ops + 1

(* Mutant of IncreaseHeap: the limit of the region is not looked at.       *)
IncreaseHeapUnchecked(p, n) ==
  /\ Operation /\ n # 0
  /\ heap' = [heap EXCEPT ![p].limit = (@ + n * PageSize) % AddressMod]
  /\ UNCHANGED <<bootVars, pte, ram, pick, raced, halted>>

(* SysSbrk, Process::IncreaseHeap(n): addresses are given, pages are not.  *)
IncreaseHeap(p, n) ==
  /\ Operation /\ n # 0
  /\ LET to == (heap[p].limit + n * PageSize) % AddressMod
     IN /\ to <= vads[p][heap[p].vad].limit
        /\ heap' = [heap EXCEPT ![p].limit = to]
  /\ UNCHANGED <<bootVars, pte, ram, pick, raced, halted>>

(* PageFaultExceptionHandler, Process::ResolvePageFault                    *)
ResolvePageFault(p, a) ==
  /\ Operation /\ pte[p][PageOf(a)] = Empty
  /\ LET i == LookForVadFromAddress(vads[p], a)
         t == TakeFrame(Mem(p))
     IN IF i = Null \/ vads[p][i].free
        THEN halted' = TRUE /\ UNCHANGED <<pte, tables, ram>>
        ELSE /\ SetMem(p, AddPageToPageDirectory(t, PageOf(a), t.got))
             /\ UNCHANGED halted
  /\ UNCHANGED <<image, stage, sect, vads, content, heap, stack, walk, pick, raced>>

(* PagePool::Allocate in a system call, which may be preempted between the *)
(* test of a bit and its setting; and PagePool::Free, ReleasePage.         *)
PoolFind ==
  /\ Operation /\ pick = Null
  /\ pick' = GetFreePage(ram.used)
  /\ UNCHANGED <<bootVars, pte, heap, ram, halted, raced>>

PoolMark ==
  /\ Up /\ pick # Null
  /\ ram' = [MarkUsed(ram, pick) EXCEPT !.calls = @ \cup ({pick} \ {NoFrame})]
  /\ raced' = (raced \/ pick \in ram.used)
  /\ pick' = Null
  /\ UNCHANGED <<bootVars, pte, heap, ops, halted>>

ReleasePage(f) ==
  /\ Operation /\ pick = Null /\ f \in ram.calls
  /\ ram' = [ram EXCEPT !.used = @ \ {f}, !.calls = @ \ {f}]
  /\ UNCHANGED <<bootVars, pte, heap, pick, halted, raced>>

Boot ==
  \E p \in Procs :
    \/ CreateProcess(p) \/ ReservePages(p) \/ MapSection(p) \/ CopySection(p)
    \/ CreateDefaultHeap(p) \/ CreateDefaultStack(p) \/ EndLoad(p)

SpaceNext ==
  \/ Boot
  \/ \E p \in Procs :
       \/ \E n \in 1 .. NbPages(HeapSize) : IncreaseHeap(p, n)
       \/ \E a \in Base .. Limit - 1 : ResolvePageFault(p, a)
  \/ PoolFind \/ PoolMark
  \/ \E f \in ram.calls : ReleasePage(f)

(* The kernel loads the modules without interruption.                      *)
SpaceSpec == SpaceInit /\ [][SpaceNext]_spaceVars /\ WF_spaceVars(Boot)

-----------------------------------------------------------------------------
SpaceTypeOK ==
  /\ stage \in [Procs -> {"none", "map", "copy", "heap", "stack", "ready"}]
  /\ \A p \in Procs :
       /\ \A i \in DOMAIN vads[p] :
            /\ vads[p][i].base \in 0 .. Limit /\ vads[p][i].limit \in 0 .. Limit
            /\ vads[p][i].size \in 0 .. Limit /\ vads[p][i].next \in 0 .. Len(vads[p])
       /\ pte[p] \in [Pages -> Frames \cup {Empty, NoFrame}]
       /\ heap[p].vad \in 0 .. Len(vads[p]) /\ heap[p].limit \in 0 .. Limit
  /\ ram.used \subseteq Frames /\ ram.pool \subseteq ram.used
  /\ pick \in Frames \cup {Null, NoFrame}
  /\ halted \in BOOLEAN /\ raced \in BOOLEAN

(* What Module::Load takes for granted of a program.  Its sections ascend  *)
(* and each begins behind the pages of the one before; a section that is   *)
(* not aligned does not need the page behind the ones it gets; the gap     *)
(* before a section is too small for what is asked for later, which would  *)
(* be put there; heap and stack have room behind the last one.             *)
Mapped(img) ==
  LET k == SelectInSeq(img, LAMBDA s : s.vaddr = Null)
  IN IF k = 0 THEN img ELSE SubSeq(img, 1, k - 1)
End(s) == s.vaddr + NbPages(s.size) * PageSize
WellPlaced(img) ==
  LET s == Mapped(img)
      end(i) == IF i = 0 THEN Base ELSE End(s[i])
      gap(i) == s[i].vaddr - end(i - 1)
  IN /\ \A i \in DOMAIN s :
          /\ s[i].size > 0
          /\ (s[i].vaddr % PageSize) + (s[i].size % PageSize) <= PageSize
          /\ gap(i) >= 0 /\ gap(i) < HeapSize /\ gap(i) < StackSize
          /\ i > 1 => \A j \in i + 1 .. Len(s) : gap(i) < s[j].size
     /\ end(Len(s)) + (NbPages(HeapSize) + NbPages(StackSize) + 1) * PageSize <= Limit

(* The regions of a well placed process tile its address space, and the    *)
(* list has all of them, in the order of their addresses: a region that    *)
(* falls off it can neither be allocated nor resolve a page fault, and two *)
(* that overlap would share memory.                                        *)
RegionsTile ==
  /\ SpaceTypeOK
  /\ \A p \in Procs : (stage[p] # "none" /\ WellPlaced(image[p])) =>
       LET vs == vads[p]
           l == Listed(vs)
       IN /\ Len(l) = Len(vs)
          /\ vs[l[1]].base = Base /\ vs[l[Len(l)]].limit = Limit
          /\ \A k \in DOMAIN l : vs[l[k]].limit = vs[l[k]].base + vs[l[k]].size
          /\ \A k \in 1 .. Len(l) - 1 : vs[l[k]].limit = vs[l[k + 1]].base

(* The addresses a process may use: its sections, what it got from SysSbrk *)
(* and its stack.                                                          *)
Usable(p) ==
  (UNION {s.vaddr .. s.vaddr + s.size - 1 : s \in Range(Mapped(image[p]))})
    \cup vads[p][heap[p].vad].base .. heap[p].limit - 1
    \cup (IF stack[p] = Null THEN {} ELSE stack[p] .. stack[p] + StackSize - 1)

(* A well placed process never stops the system: at each of these          *)
(* addresses a page is present, or its fault is resolved.                  *)
FaultsResolve ==
  \A p \in Procs : (stage[p] = "ready" /\ WellPlaced(image[p])) =>
    \A a \in Usable(p) :
      \/ pte[p][PageOf(a)] # Empty
      \/ LET i == LookForVadFromAddress(vads[p], a) IN i # Null /\ ~vads[p][i].free

(* What was copied into a well placed process stays there: no later        *)
(* section, heap, stack or page fault gives one of its pages another       *)
(* frame.                                                                  *)
SectionsStay ==
  \A p \in Procs : WellPlaced(image[p]) =>
    \A c \in content[p] : pte[p][c[1]] = c[2]

(* As long as no frame was chosen while a system call was about to mark    *)
(* it, a frame has one owner: a page of one process, the page pool or a    *)
(* system call; and its bit is set.                                        *)
FramesExclusive ==
  ~raced =>
    /\ \A p, q \in Procs : \A g, h \in Pages :
         (pte[p][g] \in Frames /\ pte[p][g] = pte[q][h]) => (p = q /\ g = h)
    /\ \A p \in Procs : \A g \in Pages : pte[p][g] \in Frames =>
         /\ pte[p][g] \in ram.used
         /\ pte[p][g] \notin ram.pool \cup ram.calls
    /\ ram.calls \cap ram.pool = {}

(* The kernel loads well placed modules, and each gets a stack: neither    *)
(* Panic, nor a fault, nor a loop that does not end.                       *)
ModulesLoad ==
  (\A p \in Procs : WellPlaced(image[p])) ~> \A p \in Procs : stage[p] = "ready" /\ stack[p] # Null

=============================================================================
