--------------------------- MODULE IpcBufferProofs ---------------------------
(***************************************************************************)
(* Proofs about IpcBuffer, for any number of senders, pages, bytes and     *)
(* sizes, and for calls that overlap at any statement.                     *)
(***************************************************************************)
EXTENDS IpcBuffer, TLAPS, FiniteSetTheorems

(* The senders between two statements, and the bytes not yet added.        *)
Advancing == {s \in Senders : spc[s] = "advance"}
Limiting == {s \in Senders : spc[s] = "limit"}
Todo == {b \in Senders \X (1 .. MaxBytes) : b[2] <= remainingBytes[b[1]]}
NbAdvancing == Cardinality(Advancing)
NbLimiting == Cardinality(Limiting)
NbTodo == Cardinality(Todo)
Done == asked - NbTodo

Top == (NbPages + 1) * PAGE_SIZE

SenderPcs == {"idle", "page", "store", "advance", "limit"}
ReaderPcs == {"idle", "first", "limit", "copy"}

(* The types, and those of what BufferTypeOK leaves out.                   *)
TypeInv ==
  /\ vAddr \in Seq(Addr) /\ Len(vAddr) <= MaxPages
  /\ \A i \in 1 .. Len(vAddr) : \E p \in 1 .. NbPages : vAddr[i] = p * PAGE_SIZE
  /\ pagesList \in Seq(1 .. Len(vAddr))
  /\ currentPageWrite = Len(vAddr)
  /\ currentPageRead \in 0 .. Len(vAddr)
  /\ mem \in [Addr -> 0 .. MaxBytes]
  /\ freePages \subseteq 1 .. NbPages
  /\ spc \in [Senders -> SenderPcs] /\ rpc \in ReaderPcs
  /\ remainingBytes \in [Senders -> 0 .. MaxBytes]
  /\ localSize \in 0 .. MaxRead /\ requested \in 0 .. MaxRead
  /\ asked \in 0 .. MaxBytes /\ stored \in Nat
  /\ delivered \in Seq(0 .. MaxBytes)
  /\ {currentPageWritePtr, currentWriteLimit, currentPageReadPtr, currentReadLimit} \subseteq Nat
  /\ currentWriteLimit <= Top
  /\ \A s \in Senders : /\ spc[s] = "idle" => remainingBytes[s] = 0
                        /\ spc[s] = "advance" => remainingBytes[s] > 0

(* How far the pointers can go: a sender that is about to advance tested   *)
(* the limit before others advanced, and every byte moves the limit of the *)
(* reader once more.                                                       *)
CountInv ==
  /\ currentPageWritePtr + NbAdvancing <= currentWriteLimit + Cardinality(Senders) - 1
  /\ currentPageWritePtr <= Top + Done
  /\ stored <= Done + NbAdvancing
  /\ NbLimiting <= Done
  /\ currentReadLimit + NbLimiting <= Top + PAGE_SIZE + 2 * Done
  /\ currentPageReadPtr <= Top + PAGE_SIZE + 2 * Done
  /\ rpc = "limit" => currentPageReadPtr <= Top

(* Until the reader removes a page, the list has every page, and none of   *)
(* them is shared.                                                         *)
PagesInv ==
  ~crossed =>
    /\ Len(pagesList) = Len(vAddr)
    /\ \A i \in 1 .. Len(pagesList) : pagesList[i] = i
    /\ \A i, j \in 1 .. Len(vAddr) : vAddr[i] = vAddr[j] => i = j
    /\ \A i \in 1 .. Len(vAddr) : \A p \in freePages : vAddr[i] # p * PAGE_SIZE

-----------------------------------------------------------------------------
(* Pages do not overlap, and are below Top.                                *)
LEMMA PageAddress ==
  ASSUME NEW p \in 1 .. NbPages
  PROVE  /\ p * PAGE_SIZE \in Nat /\ p * PAGE_SIZE >= PAGE_SIZE
         /\ (p + 1) * PAGE_SIZE = p * PAGE_SIZE + PAGE_SIZE
         /\ p * PAGE_SIZE + PAGE_SIZE <= Top
         /\ p * PAGE_SIZE \in Addr
         /\ (p * PAGE_SIZE) \div PAGE_SIZE = p
         /\ \A q \in 1 .. NbPages : p < q => p * PAGE_SIZE + PAGE_SIZE <= q * PAGE_SIZE
<1>1. PAGE_SIZE \in Nat /\ PAGE_SIZE > 0 /\ NbPages \in Nat /\ MaxBytes \in Nat /\ p \in Nat
  BY BufferAssumption
<1>2. p * PAGE_SIZE \in Nat /\ p * PAGE_SIZE >= PAGE_SIZE
  BY <1>1
<1>3. \A m, n \in Nat : m <= n => m * PAGE_SIZE <= n * PAGE_SIZE
  BY <1>1
<1>4. (p + 1) * PAGE_SIZE = p * PAGE_SIZE + PAGE_SIZE
  BY <1>1
<1>5. p + 1 \in Nat /\ p + 1 <= NbPages + 1 /\ NbPages + 1 \in Nat
  BY <1>1
<1>6. p * PAGE_SIZE + PAGE_SIZE <= Top
  BY <1>3, <1>4, <1>5 DEF Top
<1>7. Top \in Nat /\ (NbPages + 2) * PAGE_SIZE = Top + PAGE_SIZE
  BY <1>1 DEF Top
<1>8. p * PAGE_SIZE \in Addr
  BY <1>1, <1>2, <1>6, <1>7 DEF Addr
<1>9. (p * PAGE_SIZE) \div PAGE_SIZE = p
  BY <1>1
<1>10. \A q \in 1 .. NbPages : p < q => p * PAGE_SIZE + PAGE_SIZE <= q * PAGE_SIZE
  <2> SUFFICES ASSUME NEW q \in 1 .. NbPages, p < q
               PROVE  (p + 1) * PAGE_SIZE <= q * PAGE_SIZE
    BY <1>4
  <2>1. p + 1 \in Nat /\ q \in Nat /\ p + 1 <= q
    BY <1>1
  <2> QED
    BY <1>3, <2>1
<1> QED
  BY <1>2, <1>4, <1>6, <1>8, <1>9, <1>10

(* The constants as numbers.                                               *)
LEMMA Numbers ==
  /\ PAGE_SIZE \in Nat /\ PAGE_SIZE > 0 /\ NbPages \in Nat /\ NbPages > 0
  /\ MaxBytes \in Nat /\ MaxPages \in Nat /\ MaxRead \in Nat
  /\ Top \in Nat /\ Top > PAGE_SIZE
  /\ Addr = 0 .. Top + PAGE_SIZE + 2 * MaxBytes
  /\ WildAddr = Top
  /\ IsFiniteSet(Senders) /\ Cardinality(Senders) \in Nat /\ Cardinality(Senders) > 0
<1>1. /\ PAGE_SIZE \in Nat /\ PAGE_SIZE > 0 /\ NbPages \in Nat /\ NbPages > 0
      /\ MaxBytes \in Nat /\ MaxPages \in Nat /\ MaxRead \in Nat
  BY BufferAssumption
<1>2. (NbPages + 2) * PAGE_SIZE = Top + PAGE_SIZE /\ Top = NbPages * PAGE_SIZE + PAGE_SIZE
  BY <1>1 DEF Top
<1>3. NbPages * PAGE_SIZE \in Nat /\ NbPages * PAGE_SIZE > 0
  BY <1>1
<1>4. Addr = 0 .. Top + PAGE_SIZE + 2 * MaxBytes /\ WildAddr = Top
  BY <1>2 DEF Addr, WildAddr, Top
<1>5. IsFiniteSet(Senders) /\ Cardinality(Senders) \in Nat /\ Cardinality(Senders) > 0
  BY BufferAssumption, FS_CardinalityType, FS_EmptySet
<1> QED
  BY <1>1, <1>2, <1>3, <1>4, <1>5

(* The sets that are counted are finite, and every sender that is about to *)
(* advance has a byte left.                                                *)
LEMMA Counts ==
  ASSUME TypeInv
  PROVE  /\ IsFiniteSet(Advancing) /\ Cardinality(Advancing) \in Nat
         /\ IsFiniteSet(Limiting) /\ Cardinality(Limiting) \in Nat
         /\ IsFiniteSet(Todo) /\ Cardinality(Todo) \in Nat
         /\ Cardinality(Advancing) <= Cardinality(Senders)
         /\ Cardinality(Advancing) <= Cardinality(Todo)
<1>1. /\ IsFiniteSet(Advancing) /\ Cardinality(Advancing) \in Nat
      /\ Cardinality(Advancing) <= Cardinality(Senders)
  BY Numbers, FS_Subset, FS_CardinalityType DEF Advancing
<1>2. IsFiniteSet(Limiting) /\ Cardinality(Limiting) \in Nat
  BY Numbers, FS_Subset, FS_CardinalityType DEF Limiting
<1>3. IsFiniteSet(Senders \X (1 .. MaxBytes))
  <2>1. IsFiniteSet(1 .. MaxBytes)
    BY Numbers, FS_Interval
  <2> QED
    BY <2>1, Numbers, FS_Product, Zenon
<1>4. IsFiniteSet(Todo) /\ Cardinality(Todo) \in Nat
  <2>1. Todo \in SUBSET (Senders \X (1 .. MaxBytes))
    BY Zenon DEF Todo
  <2> QED
    BY <1>3, <2>1, FS_Subset, FS_CardinalityType
<1>5. Cardinality(Advancing) <= Cardinality(Todo)
  <2> DEFINE f == [s \in Advancing |-> <<s, 1>>]
  <2>1. \A s \in Advancing : <<s, 1>> \in Todo
    <3> SUFFICES ASSUME NEW s \in Advancing PROVE <<s, 1>> \in Todo
      OBVIOUS
    <3>1. s \in Senders /\ remainingBytes[s] \in 0 .. MaxBytes /\ remainingBytes[s] > 0
      BY DEF Advancing, TypeInv
    <3>2. 1 \in 1 .. MaxBytes /\ 1 <= remainingBytes[s]
      BY <3>1, Numbers
    <3> QED
      BY <3>1, <3>2 DEF Todo
  <2>2. f \in Injection(Advancing, Todo)
    BY <2>1 DEF Injection, IsInjective
  <2> QED
    BY <1>4, <2>2, FS_Injection
<1> QED
  BY <1>1, <1>2, <1>4, <1>5

(* A step of a sender to another statement, as far as the counts are       *)
(* concerned.                                                              *)
LEMMA GotoCounts ==
  ASSUME TypeInv, NEW s \in Senders, NEW to, spc' = [spc EXCEPT ![s] = to]
  PROVE  /\ to # "advance" /\ spc[s] # "advance" => NbAdvancing' = NbAdvancing
         /\ to = "advance" /\ spc[s] # "advance" => NbAdvancing' = NbAdvancing + 1
         /\ to # "advance" /\ spc[s] = "advance" => NbAdvancing' = NbAdvancing - 1
         /\ to # "limit" /\ spc[s] # "limit" => NbLimiting' = NbLimiting
         /\ to = "limit" /\ spc[s] # "limit" => NbLimiting' = NbLimiting + 1
         /\ to # "limit" /\ spc[s] = "limit" => NbLimiting' = NbLimiting - 1
<1>0. \A t \in Senders : spc'[t] = IF t = s THEN to ELSE spc[t]
  BY DEF TypeInv
<1>1. Advancing' = IF to = "advance" THEN Advancing \cup {s} ELSE Advancing \ {s}
  BY <1>0 DEF Advancing
<1>2. Limiting' = IF to = "limit" THEN Limiting \cup {s} ELSE Limiting \ {s}
  BY <1>0 DEF Limiting
<1>3. (s \in Advancing <=> spc[s] = "advance") /\ (s \in Limiting <=> spc[s] = "limit")
  BY DEF Advancing, Limiting
<1>4. /\ IsFiniteSet(Advancing) /\ Cardinality(Advancing) \in Nat
      /\ IsFiniteSet(Limiting) /\ Cardinality(Limiting) \in Nat
  BY Counts
<1>5. /\ Cardinality(Advancing \cup {s}) =
           IF s \in Advancing THEN Cardinality(Advancing) ELSE Cardinality(Advancing) + 1
      /\ Cardinality(Advancing \ {s}) =
           IF s \in Advancing THEN Cardinality(Advancing) - 1 ELSE Cardinality(Advancing)
  BY <1>4, FS_AddElement, FS_RemoveElement
<1>6. /\ Cardinality(Limiting \cup {s}) =
           IF s \in Limiting THEN Cardinality(Limiting) ELSE Cardinality(Limiting) + 1
      /\ Cardinality(Limiting \ {s}) =
           IF s \in Limiting THEN Cardinality(Limiting) - 1 ELSE Cardinality(Limiting)
  BY <1>4, FS_AddElement, FS_RemoveElement
<1>7. /\ to # "advance" => Advancing' = Advancing \ {s}
      /\ to = "advance" => Advancing' = Advancing \cup {s}
      /\ to # "limit" => Limiting' = Limiting \ {s}
      /\ to = "limit" => Limiting' = Limiting \cup {s}
  BY <1>1, <1>2
<1> QED
  BY <1>3, <1>5, <1>6, <1>7 DEF NbAdvancing, NbLimiting

(* AddCall: the bytes of the message are to be added.                      *)
LEMMA TodoCall ==
  ASSUME TypeInv, NEW s \in Senders, spc[s] = "idle", NEW size \in 1 .. MaxBytes,
         remainingBytes' = [remainingBytes EXCEPT ![s] = size]
  PROVE  Cardinality(Todo') = Cardinality(Todo) + size
<1> DEFINE New == {s} \X (1 .. size)
<1>0. remainingBytes[s] = 0 /\ MaxBytes \in Nat
  BY Numbers DEF TypeInv
<1>1. \A t \in Senders : remainingBytes'[t] = IF t = s THEN size ELSE remainingBytes[t]
  BY DEF TypeInv
<1>2. Todo' = Todo \cup New
  <2>1. ASSUME NEW t \in Senders, NEW i \in 1 .. MaxBytes
        PROVE  <<t, i>> \in Todo' <=> <<t, i>> \in Todo \cup New
    <3>1. <<t, i>> \in Todo' <=> i <= remainingBytes'[t]
      BY DEF Todo
    <3>2. <<t, i>> \in Todo <=> i <= remainingBytes[t]
      BY DEF Todo
    <3>3. <<t, i>> \in New <=> t = s /\ i <= size
      BY <1>0
    <3> QED
      BY <1>0, <1>1, <3>1, <3>2, <3>3
  <2>2. Todo' \subseteq Senders \X (1 .. MaxBytes) /\ Todo \subseteq Senders \X (1 .. MaxBytes)
    BY Zenon DEF Todo
  <2>3. New \subseteq Senders \X (1 .. MaxBytes)
    BY <1>0
  <2> HIDE DEF New
  <2> QED
    BY <2>1, <2>2, <2>3
<1>3. Todo \cap New = {}
  <2> SUFFICES ASSUME NEW i \in 1 .. size, <<s, i>> \in Todo PROVE FALSE
    OBVIOUS
  <2> QED
    BY <1>0 DEF Todo
<1>4. IsFiniteSet(1 .. size) /\ Cardinality(1 .. size) = size
  BY <1>0, FS_Interval
<1>5. IsFiniteSet({s}) /\ Cardinality({s}) = 1
  BY FS_Singleton
<1>6. IsFiniteSet(New) /\ Cardinality(New) = 1 * size
  <2>1. IsFiniteSet(New) /\ Cardinality(New) = Cardinality({s}) * Cardinality(1 .. size)
    BY <1>4, <1>5, FS_Product, Zenon
  <2> QED
    BY <1>4, <1>5, <2>1
<1>7. IsFiniteSet(Todo) /\ Cardinality(Todo) \in Nat
  BY Counts
<1> HIDE DEF New
<1>8. Cardinality(Todo \cup New) = Cardinality(Todo) + Cardinality(New) - Cardinality(Todo \cap New)
  BY <1>6, <1>7, FS_Union
<1>9. Cardinality(Todo \cap New) = 0
  BY <1>3, FS_EmptySet
<1>10. Cardinality(Todo') = Cardinality(Todo \cup New)
  BY <1>2, Zenon
<1> QED
  BY <1>0, <1>6, <1>7, <1>8, <1>9, <1>10

(* Advance: one byte less.                                                 *)
LEMMA TodoAdvance ==
  ASSUME TypeInv, NEW s \in Senders, spc[s] = "advance",
         remainingBytes' = [remainingBytes EXCEPT ![s] = @ - 1]
  PROVE  Cardinality(Todo') = Cardinality(Todo) - 1
<1> DEFINE b == <<s, remainingBytes[s]>>
<1>0. remainingBytes[s] \in 1 .. MaxBytes /\ MaxBytes \in Nat
  BY Numbers, SMTT(40) DEF TypeInv
<1>1. \A t \in Senders : remainingBytes'[t] = IF t = s THEN remainingBytes[s] - 1 ELSE remainingBytes[t]
  BY DEF TypeInv
<1>2. b \in Todo
  BY <1>0 DEF Todo
<1>3. Todo' = Todo \ {b}
  <2>1. ASSUME NEW t \in Senders, NEW i \in 1 .. MaxBytes
        PROVE  <<t, i>> \in Todo' <=> <<t, i>> \in Todo \ {b}
    <3>1. <<t, i>> \in Todo' <=> i <= remainingBytes'[t]
      BY DEF Todo
    <3>2. <<t, i>> \in Todo <=> i <= remainingBytes[t]
      BY DEF Todo
    <3>3. <<t, i>> = b <=> t = s /\ i = remainingBytes[s]
      OBVIOUS
    <3> HIDE DEF b
    <3> QED
      BY <1>0, <1>1, <3>1, <3>2, <3>3
  <2>2. Todo' \subseteq Senders \X (1 .. MaxBytes) /\ Todo \subseteq Senders \X (1 .. MaxBytes)
    BY Zenon DEF Todo
  <2> HIDE DEF b
  <2> QED
    BY <2>1, <2>2
<1>4. IsFiniteSet(Todo) /\ Cardinality(Todo) \in Nat
  BY Counts
<1> HIDE DEF b
<1> QED
  BY <1>2, <1>3, <1>4, FS_RemoveElement

(* AllocateWritePageFails: the rest of the message is given up.            *)
LEMMA TodoFails ==
  ASSUME TypeInv, NEW s \in Senders, remainingBytes' = [remainingBytes EXCEPT ![s] = 0]
  PROVE  Cardinality(Todo') \in Nat /\ Cardinality(Todo') <= Cardinality(Todo)
<1>1. \A t \in Senders : remainingBytes'[t] = IF t = s THEN 0 ELSE remainingBytes[t]
  BY DEF TypeInv
<1>2. \A t \in Senders : remainingBytes'[t] <= remainingBytes[t] /\ remainingBytes[t] \in Nat
                        /\ remainingBytes'[t] \in Nat
  BY <1>1, Numbers, SMTT(40) DEF TypeInv
<1>3. ASSUME NEW b \in Todo' PROVE b \in Todo
  <2>1. b \in Senders \X (1 .. MaxBytes) /\ b[2] <= remainingBytes'[b[1]]
    BY Zenon DEF Todo
  <2>2. b[1] \in Senders /\ b[2] \in Nat
    BY <2>1, Numbers
  <2>3. b[2] <= remainingBytes[b[1]]
    BY <1>2, <2>1, <2>2
  <2> QED
    BY <2>1, <2>3, Zenon DEF Todo
<1>4. IsFiniteSet(Todo) /\ Cardinality(Todo) \in Nat
  BY Counts
<1>5. Todo' \in SUBSET Todo
  BY <1>3
<1> QED
  BY <1>4, <1>5, FS_Subset, FS_CardinalityType

(* A byte that is being stored has not been advanced over yet.             *)
LEMMA TodoStore ==
  ASSUME TypeInv, NEW s \in Senders, spc[s] = "store", remainingBytes[s] > 0
  PROVE  Cardinality(Advancing) + 1 <= Cardinality(Todo)
<1> DEFINE Storing == Advancing \cup {s}
           f == [t \in Storing |-> <<t, 1>>]
<1>1. \A t \in Storing : <<t, 1>> \in Todo
  <2> SUFFICES ASSUME NEW t \in Storing PROVE <<t, 1>> \in Todo
    OBVIOUS
  <2>1. t \in Senders /\ remainingBytes[t] \in 0 .. MaxBytes /\ remainingBytes[t] > 0
    BY DEF Advancing, TypeInv
  <2>2. 1 \in 1 .. MaxBytes /\ 1 <= remainingBytes[t]
    BY <2>1, Numbers
  <2> QED
    BY <2>1, <2>2 DEF Todo
<1>2. s \notin Advancing
  BY DEF Advancing
<1>3. IsFiniteSet(Todo) /\ IsFiniteSet(Advancing)
  BY Counts
<1>4. Cardinality(Storing) = Cardinality(Advancing) + 1
  BY <1>2, <1>3, FS_AddElement
<1> HIDE DEF Storing
<1>5. f \in Injection(Storing, Todo)
  BY <1>1 DEF Injection, IsInjective
<1> HIDE DEF f
<1>6. Cardinality(Storing) <= Cardinality(Todo)
  BY <1>3, <1>5, FS_Injection
<1> QED
  BY <1>4, <1>6

-----------------------------------------------------------------------------
(* What the types say of the pages and of the counts, in numbers.          *)
LEMMA TypeFacts ==
  ASSUME TypeInv, CountInv
  PROVE  /\ Done \in Nat /\ Done <= asked /\ asked <= MaxBytes
         /\ Done + NbTodo = asked
         /\ \A i \in 1 .. Len(vAddr) : vAddr[i] \in Nat /\ vAddr[i] + PAGE_SIZE <= Top
<1>1. Done \in Int /\ NbLimiting \in Nat /\ NbTodo \in Nat
  BY Counts, SMTT(40) DEF TypeInv, Done, NbLimiting, NbTodo
<1>2. Done >= 0
  BY <1>1 DEF CountInv
<1>3. \A i \in 1 .. Len(vAddr) : vAddr[i] \in Nat /\ vAddr[i] + PAGE_SIZE <= Top
  BY PageAddress DEF TypeInv
<1> QED
  BY <1>1, <1>2, <1>3 DEF Done, TypeInv

(* The counts as numbers.                                                  *)
LEMMA CountFacts ==
  ASSUME TypeInv, CountInv
  PROVE  /\ NbAdvancing \in Nat /\ NbLimiting \in Nat
         /\ NbAdvancing <= Cardinality(Senders)
         /\ Cardinality(Senders) \in Nat /\ NbTodo \in Nat /\ asked \in Nat
         /\ currentPageWritePtr \in Nat /\ currentWriteLimit \in Nat /\ currentWriteLimit <= Top
         /\ currentPageReadPtr \in Nat /\ currentReadLimit \in Nat
         /\ stored \in Nat /\ Done \in Nat
         /\ PAGE_SIZE \in Nat /\ PAGE_SIZE > 0 /\ Top \in Nat
<1>1. /\ currentPageWritePtr \in Nat /\ currentWriteLimit \in Nat /\ currentWriteLimit <= Top
      /\ currentPageReadPtr \in Nat /\ currentReadLimit \in Nat
      /\ stored \in Nat /\ asked \in Nat
  BY DEF TypeInv
<1> QED
  BY <1>1, Counts, TypeFacts, Numbers DEF NbAdvancing, NbLimiting, NbTodo

(* AddBytes keeps the types.                                               *)
LEMMA TypeAdd ==
  ASSUME TypeInv, CountInv, NEW s \in Senders, AddCall(s) \/ AddStep(s)
  PROVE  TypeInv'
<1> USE DEF SenderPcs, ReaderPcs
<1>1. CASE AddCall(s)
  <2>1. PICK size \in MessageSizes :
          /\ asked + size <= MaxBytes
          /\ asked' = asked + size
          /\ remainingBytes' = [remainingBytes EXCEPT ![s] = size]
    BY <1>1 DEF AddCall
  <2>2. size \in Nat /\ size > 0
    BY BufferAssumption
  <2>3. asked' \in 0 .. MaxBytes /\ size \in 0 .. MaxBytes
    BY <2>1, <2>2, Numbers DEF TypeInv
  <2>4. spc' = [spc EXCEPT ![s] = IF currentPageWritePtr = Null THEN "page" ELSE "store"]
    BY <1>1 DEF AddCall, SenderGoto
  <2>5. /\ spc' \in [Senders -> SenderPcs] /\ remainingBytes' \in [Senders -> 0 .. MaxBytes]
        /\ \A t \in Senders : /\ spc'[t] = "idle" => remainingBytes'[t] = 0
                              /\ spc'[t] = "advance" => remainingBytes'[t] > 0
    BY <2>1, <2>3, <2>4 DEF TypeInv
  <2>6. UNCHANGED <<stored, writeVars, readVars, currentReadLimit, pageVars, mem, readerVars>>
    BY <1>1 DEF AddCall
  <2> QED
    BY <2>3, <2>5, <2>6 DEF TypeInv, writeVars, readVars, pageVars, readerVars
<1>2. CASE AllocateWritePage(s)
  <2>1. PICK p \in freePages :
          /\ freePages' = freePages \ {p}
          /\ vAddr' = Append(vAddr, p * PAGE_SIZE)
          /\ currentPageWritePtr' = p * PAGE_SIZE
          /\ currentWriteLimit' = (p + 1) * PAGE_SIZE
    BY <1>2 DEF AllocateWritePage
  <2>2. p \in 1 .. NbPages
    BY DEF TypeInv
  <2>3. /\ p * PAGE_SIZE \in Addr /\ p * PAGE_SIZE \in Nat
        /\ (p + 1) * PAGE_SIZE \in Nat /\ (p + 1) * PAGE_SIZE <= Top
    BY <2>2, PageAddress, Numbers
  <2>4. vAddr \in Seq(Addr) /\ Len(vAddr) \in Nat /\ Len(vAddr) < MaxPages
    BY <1>2 DEF TypeInv, AllocateWritePage
  <2>5. /\ vAddr' \in Seq(Addr) /\ Len(vAddr') = Len(vAddr) + 1 /\ Len(vAddr') <= MaxPages
        /\ vAddr'[Len(vAddr) + 1] = p * PAGE_SIZE
        /\ \A i \in 1 .. Len(vAddr) : vAddr'[i] = vAddr[i]
    BY <2>1, <2>3, <2>4, Numbers
  <2>6. \A i \in 1 .. Len(vAddr') : \E q \in 1 .. NbPages : vAddr'[i] = q * PAGE_SIZE
    <3>1. \A i \in 1 .. Len(vAddr) : \E q \in 1 .. NbPages : vAddr[i] = q * PAGE_SIZE
      BY DEF TypeInv
    <3> QED
      BY <2>2, <2>4, <2>5, <3>1
  <2>7. currentPageWrite' = Len(vAddr') /\ pagesList' = Append(pagesList, currentPageWrite')
    BY <1>2 DEF AllocateWritePage
  <2>8. pagesList' \in Seq(1 .. Len(vAddr'))
    <3>1. pagesList \in Seq(1 .. Len(vAddr'))
      BY <2>4, <2>5, SMTT(40) DEF TypeInv
    <3> QED
      BY <2>4, <2>5, <2>7, <3>1
  <2>9. currentPageRead' \in 0 .. Len(vAddr')
    BY <1>2, <2>4, <2>5 DEF AllocateWritePage, TypeInv, readVars
  <2>10. spc' = [spc EXCEPT ![s] = "store"] /\ remainingBytes' = remainingBytes
    BY <1>2 DEF AllocateWritePage, SenderGoto
  <2>11. /\ spc' \in [Senders -> SenderPcs]
         /\ \A t \in Senders : /\ spc'[t] = "idle" => remainingBytes'[t] = 0
                               /\ spc'[t] = "advance" => remainingBytes'[t] > 0
    BY <2>10 DEF TypeInv
  <2>12. freePages' \subseteq 1 .. NbPages
    BY <2>1 DEF TypeInv
  <2>13. UNCHANGED <<remainingBytes, stored, asked, readVars, currentReadLimit, mem, readerVars>>
    BY <1>2 DEF AllocateWritePage
  <2> QED
    BY <2>1, <2>3, <2>5, <2>6, <2>7, <2>8, <2>9, <2>11, <2>12, <2>13
    DEF TypeInv, readVars, readerVars
<1>3. CASE AllocateWritePageFails(s)
  <2>1. spc' = [spc EXCEPT ![s] = "idle"] /\ remainingBytes' = [remainingBytes EXCEPT ![s] = 0]
    BY <1>3 DEF AllocateWritePageFails, SenderGoto
  <2>2. /\ spc' \in [Senders -> SenderPcs] /\ remainingBytes' \in [Senders -> 0 .. MaxBytes]
        /\ \A t \in Senders : /\ spc'[t] = "idle" => remainingBytes'[t] = 0
                              /\ spc'[t] = "advance" => remainingBytes'[t] > 0
    BY <2>1, Numbers, SMTT(40) DEF TypeInv
  <2>3. UNCHANGED <<stored, asked, writeVars, readVars, currentReadLimit, pageVars, mem, readerVars>>
    BY <1>3 DEF AllocateWritePageFails
  <2> QED
    BY <2>2, <2>3 DEF TypeInv, writeVars, readVars, pageVars, readerVars
<1>4. CASE StoreByte(s)
  <2>1. /\ spc[s] = "store" /\ remainingBytes[s] > 0 /\ spc' = [spc EXCEPT ![s] = "advance"]
        /\ stored' = stored + 1 /\ mem' = [mem EXCEPT ![currentPageWritePtr] = stored']
    BY <1>4 DEF StoreByte, SenderGoto
  <2>2. stored' \in 0 .. MaxBytes
    <3>1. stored \in Nat /\ NbAdvancing \in Nat
      BY Counts DEF TypeInv, NbAdvancing
    <3>2. stored <= Done + NbAdvancing /\ NbAdvancing + 1 <= NbTodo
      BY <2>1, TodoStore DEF CountInv, NbAdvancing, NbTodo
    <3> QED
      BY <2>1, <3>1, <3>2, CountFacts, TypeFacts, Numbers, SMTT(40)
  <2>3. mem' \in [Addr -> 0 .. MaxBytes]
    BY <2>1, <2>2 DEF TypeInv
  <2>4. UNCHANGED <<remainingBytes, asked, writeVars, readVars, currentReadLimit, pageVars, readerVars>>
    BY <1>4 DEF StoreByte
  <2>5. /\ spc' \in [Senders -> SenderPcs]
        /\ \A t \in Senders : /\ spc'[t] = "idle" => remainingBytes'[t] = 0
                              /\ spc'[t] = "advance" => remainingBytes'[t] > 0
    BY <2>1, <2>4 DEF TypeInv
  <2>6. stored' \in Nat
    BY <2>2, Numbers
  <2> QED
    BY <2>3, <2>4, <2>5, <2>6 DEF TypeInv, writeVars, readVars, pageVars, readerVars
<1>5. CASE Advance(s)
  <2>1. /\ spc[s] = "advance" /\ spc' = [spc EXCEPT ![s] = "limit"]
        /\ remainingBytes' = [remainingBytes EXCEPT ![s] = @ - 1]
        /\ currentPageWritePtr' = currentPageWritePtr + 1
    BY <1>5 DEF Advance, SenderGoto
  <2>2. remainingBytes[s] - 1 \in 0 .. MaxBytes
    <3>1. remainingBytes[s] \in 0 .. MaxBytes /\ remainingBytes[s] > 0
      BY <2>1 DEF TypeInv
    <3> QED
      BY <3>1, Numbers
  <2>3. /\ spc' \in [Senders -> SenderPcs] /\ remainingBytes' \in [Senders -> 0 .. MaxBytes]
        /\ \A t \in Senders : /\ spc'[t] = "idle" => remainingBytes'[t] = 0
                              /\ spc'[t] = "advance" => remainingBytes'[t] > 0
    BY <2>1, <2>2 DEF TypeInv
  <2>4. currentPageWritePtr' \in Nat
    BY <2>1, SMTT(40) DEF TypeInv
  <2>5. UNCHANGED <<currentPageWrite, currentWriteLimit, stored, asked,
                    readVars, currentReadLimit, pageVars, mem, readerVars>>
    BY <1>5 DEF Advance
  <2> QED
    BY <2>3, <2>4, <2>5 DEF TypeInv, readVars, pageVars, readerVars
<1>6. CASE MoveReadLimit(s)
  <2>1. spc[s] = "limit" /\ spc' = [spc EXCEPT ![s] = "store"]
    BY <1>6 DEF MoveReadLimit, SenderGoto
  <2>4. currentReadLimit' \in Nat
    <3>1. currentReadLimit \in Nat
      BY DEF TypeInv
    <3> QED
      BY <1>6, <3>1 DEF MoveReadLimit
  <2>2. UNCHANGED <<remainingBytes, stored, asked, writeVars, readVars, pageVars, mem, readerVars>>
    BY <1>6 DEF MoveReadLimit
  <2>3. /\ spc' \in [Senders -> SenderPcs]
        /\ \A t \in Senders : /\ spc'[t] = "idle" => remainingBytes'[t] = 0
                              /\ spc'[t] = "advance" => remainingBytes'[t] > 0
    BY <2>1, <2>2 DEF TypeInv
  <2> QED
    BY <2>2, <2>3, <2>4 DEF TypeInv, writeVars, readVars, pageVars, readerVars
<1>7. CASE AddReturn(s)
  <2>1. spc[s] = "store" /\ remainingBytes[s] = 0 /\ spc' = [spc EXCEPT ![s] = "idle"]
    BY <1>7 DEF AddReturn, SenderGoto
  <2>2. UNCHANGED <<remainingBytes, stored, asked, writeVars, readVars, currentReadLimit,
                    pageVars, mem, readerVars>>
    BY <1>7 DEF AddReturn
  <2>3. /\ spc' \in [Senders -> SenderPcs]
        /\ \A t \in Senders : /\ spc'[t] = "idle" => remainingBytes'[t] = 0
                              /\ spc'[t] = "advance" => remainingBytes'[t] > 0
    BY <2>1, <2>2 DEF TypeInv
  <2> QED
    BY <2>2, <2>3 DEF TypeInv, writeVars, readVars, pageVars, readerVars
<1> QED
  BY <1>1, <1>2, <1>3, <1>4, <1>5, <1>6, <1>7 DEF AddStep

(* The address of a page, or what the page at the null pointer gives.      *)
LEMMA AddressBelowTop ==
  ASSUME TypeInv, CountInv, NEW page \in 0 .. Len(vAddr), NEW a \in AddressOf(page)
  PROVE  a \in Nat /\ a <= Top
<1>1. CASE page = Null
  BY <1>1, Numbers DEF AddressOf, Null
<1>2. CASE page # Null
  <2>1. page \in 1 .. Len(vAddr) /\ a = vAddr[page]
    BY <1>2 DEF AddressOf, Null, TypeInv
  <2> QED
    BY <2>1, TypeFacts, Numbers
<1> QED
  BY <1>1, <1>2

(* The list of the pages: its first element, and what is left without it.  *)
LEMMA ListTopPop ==
  ASSUME TypeInv
  PROVE  /\ ListTop(pagesList) \in 0 .. Len(vAddr)
         /\ ListPop(pagesList) \in Seq(1 .. Len(vAddr))
         /\ ListTop(ListPop(pagesList)) \in 0 .. Len(vAddr)
         /\ pagesList # <<>> => Head(pagesList) \in 1 .. Len(vAddr)
<1>1. Len(vAddr) \in Nat /\ pagesList \in Seq(1 .. Len(vAddr))
  BY DEF TypeInv
<1>2. \A l \in Seq(1 .. Len(vAddr)) : l # <<>> =>
        Head(l) \in 1 .. Len(vAddr) /\ Tail(l) \in Seq(1 .. Len(vAddr))
  OBVIOUS
<1>3. ListPop(pagesList) \in Seq(1 .. Len(vAddr))
  BY <1>1, <1>2 DEF ListPop
<1>4. \A l \in Seq(1 .. Len(vAddr)) : ListTop(l) \in 0 .. Len(vAddr)
  BY <1>1, <1>2 DEF ListTop, Null
<1> QED
  BY <1>1, <1>2, <1>3, <1>4

(* ReadBytes keeps the types.                                              *)
LEMMA TypeRead ==
  ASSUME TypeInv, CountInv, ReadCall \/ ReadStep
  PROVE  TypeInv'
<1> USE DEF ReaderPcs
<1>1. CASE ReadCall
  <2>1. PICK size \in ReadSizes :
          /\ requested + size <= MaxRead
          /\ requested' = requested + size
          /\ localSize' = size
    BY <1>1 DEF ReadCall
  <2>2. size \in Nat /\ size > 0
    BY BufferAssumption
  <2>3. requested' \in 0 .. MaxRead /\ localSize' \in 0 .. MaxRead
    BY <2>1, <2>2, Numbers DEF TypeInv
  <2>4. rpc' \in ReaderPcs
    BY <1>1 DEF ReadCall, ReaderGoto
  <2>5. UNCHANGED <<delivered, crossed, early, writeVars, readVars, currentReadLimit,
                    pageVars, mem, senderVars>>
    BY <1>1 DEF ReadCall
  <2> QED
    BY <2>3, <2>4, <2>5 DEF TypeInv, writeVars, readVars, pageVars, senderVars
<1>2. CASE ReadFirstPage
  <2>1. currentPageRead' = ListTop(pagesList) /\ currentPageReadPtr' \in AddressOf(currentPageRead')
        /\ vAddr' = vAddr /\ rpc' = "limit"
    BY <1>2 DEF ReadFirstPage, ReaderGoto, pageVars
  <2>2. currentPageRead' \in 0 .. Len(vAddr)
    BY <2>1, ListTopPop
  <2>3. currentPageReadPtr' \in Nat
    BY <2>1, <2>2, AddressBelowTop
  <2>4. UNCHANGED <<localSize, delivered, requested, crossed, writeVars, currentReadLimit,
                    pageVars, mem, senderVars>>
    BY <1>2 DEF ReadFirstPage
  <2> QED
    BY <2>1, <2>2, <2>3, <2>4 DEF TypeInv, writeVars, pageVars, senderVars
<1>3. CASE ReadFirstLimit
  <2>1. currentReadLimit' \in Nat
    <3>1. currentPageWritePtr \in Nat /\ currentPageReadPtr \in Nat
      BY DEF TypeInv
    <3> QED
      BY <1>3, <3>1, Numbers DEF ReadFirstLimit
  <2>2. rpc' = "copy"
    BY <1>3 DEF ReadFirstLimit, ReaderGoto
  <2>3. UNCHANGED <<localSize, delivered, requested, crossed, early, writeVars, readVars,
                    pageVars, mem, senderVars>>
    BY <1>3 DEF ReadFirstLimit
  <2> QED
    BY <2>1, <2>2, <2>3 DEF TypeInv, writeVars, readVars, pageVars, senderVars
<1>4. CASE CopyByte
  <2>1. /\ currentPageReadPtr < currentReadLimit /\ rpc' = "copy" /\ localSize > 0
        /\ delivered' = Append(delivered, mem[currentPageReadPtr])
        /\ currentPageReadPtr' = currentPageReadPtr + 1 /\ localSize' = localSize - 1
    BY <1>4 DEF CopyByte, ReaderGoto
  <2>2. currentPageReadPtr \in Addr
    <3>1. currentPageReadPtr \in Nat /\ currentPageReadPtr <= Top + PAGE_SIZE + 2 * Done
      BY DEF TypeInv, CountInv
    <3>2. Done \in Nat /\ Done <= MaxBytes /\ Top \in Nat /\ PAGE_SIZE \in Nat /\ MaxBytes \in Nat
      <4>1. Done \in Nat /\ Done <= asked /\ asked <= MaxBytes /\ asked \in Nat
        BY TypeFacts, CountFacts
      <4> QED
        BY <4>1, Numbers
    <3>3. Addr = 0 .. Top + PAGE_SIZE + 2 * MaxBytes
      BY Numbers
    <3> QED
      BY <3>1, <3>2, <3>3
  <2>3. delivered' \in Seq(0 .. MaxBytes)
    BY <2>1, <2>2 DEF TypeInv
  <2>4. localSize' \in 0 .. MaxRead /\ currentPageReadPtr' \in Nat
    <3>1. localSize \in 0 .. MaxRead /\ currentPageReadPtr \in Nat
      BY DEF TypeInv
    <3> QED
      BY <2>1, <3>1, Numbers
  <2>5. UNCHANGED <<requested, crossed, early, currentPageRead, writeVars, currentReadLimit,
                    pageVars, mem, senderVars>>
    BY <1>4 DEF CopyByte
  <2> QED
    BY <2>1, <2>3, <2>4, <2>5 DEF TypeInv, writeVars, pageVars, senderVars
<1>5. CASE ReadNextPage
  <2>1. /\ pagesList' = ListPop(pagesList) /\ rpc' = "copy" /\ vAddr' = vAddr
        /\ freePages' = IF pagesList = <<>> THEN freePages
                          ELSE freePages \cup {vAddr[Head(pagesList)] \div PAGE_SIZE}
        /\ currentPageReadPtr' \in AddressOf(ListTop(pagesList'))
        /\ currentReadLimit' = currentPageReadPtr' + PAGE_SIZE
    BY <1>5 DEF ReadNextPage, ReaderGoto
  <2>2. pagesList' \in Seq(1 .. Len(vAddr)) /\ ListTop(pagesList') \in 0 .. Len(vAddr)
    BY <2>1, ListTopPop
  <2>3. currentPageReadPtr' \in Nat /\ currentReadLimit' \in Nat
    BY <2>1, <2>2, AddressBelowTop, Numbers
  <2>4. freePages' \subseteq 1 .. NbPages
    <3>1. \A i \in 1 .. Len(vAddr) : vAddr[i] \div PAGE_SIZE \in 1 .. NbPages
      BY PageAddress DEF TypeInv
    <3>2. freePages \subseteq 1 .. NbPages
      BY DEF TypeInv
    <3> QED
      BY <2>1, <3>1, <3>2, ListTopPop
  <2>5. UNCHANGED <<localSize, delivered, requested, early, currentPageRead, vAddr, writeVars,
                    mem, senderVars>>
    BY <1>5 DEF ReadNextPage
  <2> QED
    BY <2>1, <2>2, <2>3, <2>4, <2>5 DEF TypeInv, writeVars, senderVars
<1>6. CASE ReadReturn
  <2>1. rpc' = "idle"
    BY <1>6 DEF ReadReturn, ReaderGoto
  <2>2. UNCHANGED <<localSize, delivered, requested, crossed, early, writeVars, readVars,
                    currentReadLimit, pageVars, mem, senderVars>>
    BY <1>6 DEF ReadReturn
  <2> QED
    BY <2>1, <2>2 DEF TypeInv, writeVars, readVars, pageVars, senderVars
<1> QED
  BY <1>1, <1>2, <1>3, <1>4, <1>5, <1>6 DEF ReadStep

(* AddBytes keeps the pointers within bounds, however many senders are     *)
(* between the test of the limit and the increment.                        *)
LEMMA CountAdd ==
  ASSUME TypeInv, CountInv, NEW s \in Senders, AddCall(s) \/ AddStep(s)
  PROVE  CountInv'
<1>0. /\ currentPageWritePtr + NbAdvancing <= currentWriteLimit + Cardinality(Senders) - 1
      /\ currentPageWritePtr <= Top + Done
      /\ stored <= Done + NbAdvancing
      /\ NbLimiting <= Done
      /\ currentReadLimit + NbLimiting <= Top + PAGE_SIZE + 2 * Done
      /\ currentPageReadPtr <= Top + PAGE_SIZE + 2 * Done
  BY DEF CountInv
<1>1. /\ NbAdvancing \in Nat /\ NbLimiting \in Nat /\ Cardinality(Senders) \in Nat /\ NbTodo \in Nat /\ asked \in Nat
      /\ currentPageWritePtr \in Nat /\ currentWriteLimit \in Nat
      /\ currentPageReadPtr \in Nat /\ currentReadLimit \in Nat
      /\ stored \in Nat /\ Done \in Nat /\ PAGE_SIZE \in Nat /\ PAGE_SIZE > 0 /\ Top \in Nat
      /\ NbAdvancing <= Cardinality(Senders)
  BY CountFacts
<1>2. Done = asked - NbTodo /\ Done' = asked' - NbTodo'
  BY DEF Done
<1>3. rpc' = rpc /\ currentPageReadPtr' = currentPageReadPtr /\ (rpc = "limit" => currentPageReadPtr <= Top)
  BY DEF AddCall, AddStep, AllocateWritePage, AllocateWritePageFails, StoreByte, Advance,
         MoveReadLimit, AddReturn, readVars, readerVars, CountInv
<1>4. ASSUME NEW to, spc' = [spc EXCEPT ![s] = to]
      PROVE  /\ to # "advance" /\ spc[s] # "advance" => NbAdvancing' = NbAdvancing
             /\ to = "advance" /\ spc[s] # "advance" => NbAdvancing' = NbAdvancing + 1
             /\ to # "advance" /\ spc[s] = "advance" => NbAdvancing' = NbAdvancing - 1
             /\ to # "limit" /\ spc[s] # "limit" => NbLimiting' = NbLimiting
             /\ to = "limit" /\ spc[s] # "limit" => NbLimiting' = NbLimiting + 1
             /\ to # "limit" /\ spc[s] = "limit" => NbLimiting' = NbLimiting - 1
  BY <1>4, GotoCounts
<1>5. remainingBytes' = remainingBytes => NbTodo' = NbTodo
  BY DEF Todo, NbTodo
<1>6. SUFFICES
        /\ currentPageWritePtr' + NbAdvancing' <= currentWriteLimit' + Cardinality(Senders) - 1
        /\ currentPageWritePtr' <= Top + Done'
        /\ stored' <= Done' + NbAdvancing'
        /\ NbLimiting' <= Done'
        /\ currentReadLimit' + NbLimiting' <= Top + PAGE_SIZE + 2 * Done'
        /\ currentPageReadPtr' <= Top + PAGE_SIZE + 2 * Done'
  BY <1>3 DEF CountInv, Top
<1>7. CASE AddCall(s)
  <2>1. PICK size \in MessageSizes :
          /\ asked + size <= MaxBytes
          /\ asked' = asked + size
          /\ remainingBytes' = [remainingBytes EXCEPT ![s] = size]
    BY <1>7 DEF AddCall
  <2>2. size \in 1 .. MaxBytes /\ size \in Nat
    BY <1>1, <2>1, BufferAssumption, Numbers
  <2>3. spc[s] = "idle" /\ spc' = [spc EXCEPT ![s] = IF currentPageWritePtr = Null THEN "page" ELSE "store"]
    BY <1>7 DEF AddCall, SenderGoto
  <2>4. NbAdvancing' = NbAdvancing /\ NbLimiting' = NbLimiting
    <3>1. PICK to \in {"page", "store"} : spc' = [spc EXCEPT ![s] = to]
      BY <2>3, Zenon
    <3> QED
      BY <1>4, <2>3, <3>1, Zenon
  <2>5. NbTodo' = NbTodo + size
    BY <2>1, <2>2, <2>3, TodoCall DEF NbTodo
  <2>6. Done' = Done
    BY <1>1, <1>2, <2>1, <2>2, <2>5
  <2>7. UNCHANGED <<stored, currentPageWritePtr, currentWriteLimit, currentReadLimit>>
    BY <1>7 DEF AddCall, writeVars
  <2> QED
    BY <1>0, <1>3, <2>4, <2>6, <2>7
<1>8. CASE AllocateWritePage(s)
  <2>1. PICK p \in freePages :
          /\ currentPageWritePtr' = p * PAGE_SIZE
          /\ currentWriteLimit' = (p + 1) * PAGE_SIZE
    BY <1>8 DEF AllocateWritePage
  <2>2. p \in 1 .. NbPages
    BY DEF TypeInv
  <2>3. PICK a \in Nat :
          currentPageWritePtr' = a /\ currentWriteLimit' = a + PAGE_SIZE /\ a + PAGE_SIZE <= Top
    BY <2>1, <2>2, PageAddress
  <2>4. spc[s] \in {"page", "store"} /\ spc' = [spc EXCEPT ![s] = "store"]
        /\ remainingBytes' = remainingBytes
    BY <1>8 DEF AllocateWritePage, NeedsPage, SenderGoto
  <2>5. NbAdvancing' = NbAdvancing /\ NbLimiting' = NbLimiting
    <3>1. PICK to \in {"store"} : spc' = [spc EXCEPT ![s] = to]
      BY <2>4, Zenon
    <3> QED
      BY <1>4, <2>4, <3>1, Zenon
  <2>6. UNCHANGED <<stored, asked, currentReadLimit>>
    BY <1>8 DEF AllocateWritePage
  <2>7. Done' = Done
    BY <1>2, <1>5, <2>4, <2>6
  <2> QED
    BY <1>0, <1>1, <1>3, <2>3, <2>5, <2>6, <2>7
<1>9. CASE AllocateWritePageFails(s)
  <2>1. /\ spc[s] \in {"page", "store"} /\ spc' = [spc EXCEPT ![s] = "idle"]
        /\ remainingBytes' = [remainingBytes EXCEPT ![s] = 0]
    BY <1>9 DEF AllocateWritePageFails, NeedsPage, SenderGoto
  <2>2. NbAdvancing' = NbAdvancing /\ NbLimiting' = NbLimiting
    <3>1. PICK to \in {"idle"} : spc' = [spc EXCEPT ![s] = to]
      BY <2>1, Zenon
    <3> QED
      BY <1>4, <2>1, <3>1, Zenon
  <2>3. UNCHANGED <<stored, asked, currentPageWritePtr, currentWriteLimit, currentReadLimit>>
    BY <1>9 DEF AllocateWritePageFails, writeVars
  <2>4. PICK n \in Nat : NbTodo' = n /\ n <= NbTodo
    BY <2>1, TodoFails DEF NbTodo
  <2>5. Done' = asked - n
    BY <1>2, <2>3, <2>4
  <2> QED
    BY <1>0, <1>1, <1>2, <1>3, <2>2, <2>3, <2>4, <2>5
<1>10. CASE StoreByte(s)
  <2>1. /\ spc[s] = "store" /\ spc' = [spc EXCEPT ![s] = "advance"]
        /\ stored' = stored + 1 /\ currentPageWritePtr < currentWriteLimit
        /\ remainingBytes' = remainingBytes
    BY <1>10 DEF StoreByte, SenderGoto
  <2>2. NbAdvancing' = NbAdvancing + 1 /\ NbLimiting' = NbLimiting
    <3>1. PICK to \in {"advance"} : spc' = [spc EXCEPT ![s] = to]
      BY <2>1, Zenon
    <3> QED
      BY <1>4, <2>1, <3>1, Zenon
  <2>3. UNCHANGED <<asked, currentPageWritePtr, currentWriteLimit, currentReadLimit>>
    BY <1>10 DEF StoreByte, writeVars
  <2>4. Done' = Done
    BY <1>2, <1>5, <2>1, <2>3
  <2>5. NbAdvancing + 1 <= Cardinality(Senders)
    <3>1. s \notin Advancing /\ s \in Senders
      BY <2>1 DEF Advancing
    <3>2. Advancing \cup {s} \in SUBSET Senders
      BY DEF Advancing
    <3>3. Cardinality(Advancing \cup {s}) = NbAdvancing + 1
      BY <3>1, Counts, FS_AddElement DEF NbAdvancing
    <3>4. Cardinality(Advancing \cup {s}) <= Cardinality(Senders)
      BY <3>2, Numbers, FS_Subset
    <3> QED
      BY <3>3, <3>4
  <2> QED
    BY <1>0, <1>1, <1>3, <2>1, <2>2, <2>3, <2>4, <2>5
<1>11. CASE Advance(s)
  <2>1. /\ spc[s] = "advance" /\ spc' = [spc EXCEPT ![s] = "limit"]
        /\ remainingBytes' = [remainingBytes EXCEPT ![s] = @ - 1]
        /\ currentPageWritePtr' = currentPageWritePtr + 1
    BY <1>11 DEF Advance, SenderGoto
  <2>2. NbAdvancing' = NbAdvancing - 1 /\ NbLimiting' = NbLimiting + 1
    <3>1. PICK to \in {"limit"} : spc' = [spc EXCEPT ![s] = to]
      BY <2>1, Zenon
    <3> QED
      BY <1>4, <2>1, <3>1, Zenon
  <2>3. NbTodo' = NbTodo - 1
    BY <2>1, TodoAdvance DEF NbTodo
  <2>4. UNCHANGED <<stored, asked, currentWriteLimit, currentReadLimit>>
    BY <1>11 DEF Advance
  <2>5. Done' = Done + 1
    BY <1>1, <1>2, <2>3, <2>4
  <2> QED
    BY <1>0, <1>1, <1>3, <2>1, <2>2, <2>4, <2>5
<1>12. CASE MoveReadLimit(s)
  <2>1. /\ spc[s] = "limit" /\ spc' = [spc EXCEPT ![s] = "store"]
        /\ remainingBytes' = remainingBytes
        /\ currentReadLimit' = IF currentPageWrite = currentPageRead
                                 THEN currentReadLimit + 1 ELSE currentReadLimit
    BY <1>12 DEF MoveReadLimit, SenderGoto
  <2>2. NbAdvancing' = NbAdvancing /\ NbLimiting' = NbLimiting - 1
    <3>1. PICK to \in {"store"} : spc' = [spc EXCEPT ![s] = to]
      BY <2>1, Zenon
    <3> QED
      BY <1>4, <2>1, <3>1, Zenon
  <2>3. UNCHANGED <<stored, asked, currentPageWritePtr, currentWriteLimit>>
    BY <1>12 DEF MoveReadLimit, writeVars
  <2>4. Done' = Done
    BY <1>2, <1>5, <2>1, <2>3
  <2>5. PICK a \in Nat : currentReadLimit' = a /\ a <= currentReadLimit + 1
    BY <1>1, <2>1
  <2> QED
    BY <1>0, <1>1, <1>3, <2>2, <2>3, <2>4, <2>5
<1>13. CASE AddReturn(s)
  <2>1. spc[s] = "store" /\ spc' = [spc EXCEPT ![s] = "idle"] /\ remainingBytes' = remainingBytes
    BY <1>13 DEF AddReturn, SenderGoto
  <2>2. NbAdvancing' = NbAdvancing /\ NbLimiting' = NbLimiting
    <3>1. PICK to \in {"idle"} : spc' = [spc EXCEPT ![s] = to]
      BY <2>1, Zenon
    <3> QED
      BY <1>4, <2>1, <3>1, Zenon
  <2>3. UNCHANGED <<stored, asked, currentPageWritePtr, currentWriteLimit, currentReadLimit>>
    BY <1>13 DEF AddReturn, writeVars
  <2>4. Done' = Done
    BY <1>2, <1>5, <2>1, <2>3
  <2> QED
    BY <1>0, <1>3, <2>2, <2>3, <2>4
<1> QED
  BY <1>7, <1>8, <1>9, <1>10, <1>11, <1>12, <1>13 DEF AddStep

(* ReadBytes keeps its pointer within bounds.                              *)
LEMMA CountRead ==
  ASSUME TypeInv, CountInv, ReadCall \/ ReadStep
  PROVE  CountInv'
<1>0. /\ NbAdvancing \in Nat /\ NbLimiting \in Nat
      /\ currentPageWritePtr \in Nat
      /\ currentPageReadPtr \in Nat /\ currentReadLimit \in Nat
      /\ Done \in Nat /\ PAGE_SIZE \in Nat /\ PAGE_SIZE > 0 /\ Top \in Nat
  BY CountFacts
<1>1. UNCHANGED <<spc, remainingBytes, stored, asked, currentPageWritePtr, currentWriteLimit, vAddr>>
  BY DEF ReadCall, ReadStep, ReadFirstPage, ReadFirstLimit, CopyByte, ReadNextPage, ReadReturn,
         writeVars, senderVars, pageVars
<1>2. /\ Advancing' = Advancing /\ Limiting' = Limiting /\ Todo' = Todo
      /\ Done' = Done
  BY <1>1 DEF Advancing, Limiting, Todo, NbTodo, Done
<1>3. SUFFICES
        /\ currentReadLimit' + NbLimiting <= Top + PAGE_SIZE + 2 * Done
        /\ currentPageReadPtr' <= Top + PAGE_SIZE + 2 * Done
        /\ rpc' = "limit" => currentPageReadPtr' <= Top
  BY <1>1, <1>2 DEF CountInv, Top, NbAdvancing, NbLimiting
<1>4. /\ NbLimiting <= Done
      /\ currentPageWritePtr <= Top + Done
      /\ currentReadLimit + NbLimiting <= Top + PAGE_SIZE + 2 * Done
      /\ currentPageReadPtr <= Top + PAGE_SIZE + 2 * Done
      /\ rpc = "limit" => currentPageReadPtr <= Top
  BY DEF CountInv
<1>5. CASE ReadCall
  BY <1>4, <1>5 DEF ReadCall, ReaderGoto, readVars
<1>6. CASE ReadFirstPage
  <2>1. currentPageReadPtr' \in AddressOf(currentPageRead') /\ currentPageRead' \in 0 .. Len(vAddr)
    BY <1>6, ListTopPop DEF ReadFirstPage
  <2>2. currentPageReadPtr' \in Nat /\ currentPageReadPtr' <= Top
    BY <1>1, <2>1, AddressBelowTop DEF AddressOf
  <2>3. currentReadLimit' = currentReadLimit
    BY <1>6 DEF ReadFirstPage
  <2> QED
    BY <1>0, <1>4, <2>2, <2>3
<1>7. CASE ReadFirstLimit
  <2>1. currentReadLimit' = currentPageWritePtr \/ currentReadLimit' = currentPageReadPtr + PAGE_SIZE
    BY <1>7 DEF ReadFirstLimit
  <2>2. rpc = "limit" /\ rpc' = "copy" /\ currentPageReadPtr' = currentPageReadPtr
    BY <1>7 DEF ReadFirstLimit, ReaderGoto, readVars
  <2> QED
    BY <1>0, <1>4, <2>1, <2>2
<1>8. CASE CopyByte
  <2>1. /\ currentPageReadPtr < currentReadLimit /\ currentPageReadPtr' = currentPageReadPtr + 1
        /\ currentReadLimit' = currentReadLimit /\ rpc' = "copy"
    BY <1>8 DEF CopyByte, ReaderGoto
  <2> QED
    BY <1>0, <1>4, <2>1
<1>9. CASE ReadNextPage
  <2>1. /\ pagesList' = ListPop(pagesList) /\ rpc' = "copy"
        /\ currentPageReadPtr' \in AddressOf(ListTop(pagesList'))
        /\ currentReadLimit' = currentPageReadPtr' + PAGE_SIZE
    BY <1>9 DEF ReadNextPage, ReaderGoto
  <2>2. ListTop(pagesList') \in 0 .. Len(vAddr)
    BY <2>1, ListTopPop
  <2>3. PICK a \in Nat : currentPageReadPtr' = a /\ a <= Top
    BY <2>1, <2>2, AddressBelowTop
  <2>4. currentReadLimit' = a + PAGE_SIZE
    BY <2>1, <2>3
  <2> QED
    BY <1>0, <1>4, <2>1, <2>3, <2>4
<1>10. CASE ReadReturn
  BY <1>4, <1>10 DEF ReadReturn, ReaderGoto, readVars
<1> QED
  BY <1>5, <1>6, <1>7, <1>8, <1>9, <1>10 DEF ReadStep

-----------------------------------------------------------------------------
(* A page is given to one buffer page at a time until the reader releases  *)
(* one: AllocateWritePage takes it from the pool and appends it, and no    *)
(* other statement touches the list.                                       *)
LEMMA PagesStep ==
  ASSUME TypeInv, PagesInv, [BufferNext]_bufferVars
  PROVE  PagesInv'
<1>1. CASE UNCHANGED <<pageVars, crossed>>
  BY <1>1 DEF PagesInv, pageVars
<1>2. ASSUME NEW s \in Senders, AllocateWritePage(s)
      PROVE  PagesInv'
  <2>1. PICK p \in freePages :
          /\ freePages' = freePages \ {p}
          /\ vAddr' = Append(vAddr, p * PAGE_SIZE)
    BY <1>2 DEF AllocateWritePage
  <2>2. /\ currentPageWrite' = Len(vAddr') /\ pagesList' = Append(pagesList, currentPageWrite')
        /\ crossed' = crossed
    BY <1>2 DEF AllocateWritePage, readerVars
  <2>3. p \in 1 .. NbPages /\ freePages \subseteq 1 .. NbPages
    BY DEF TypeInv
  <2>4. p * PAGE_SIZE \in Addr
    BY <2>3, PageAddress
  <2>5. vAddr \in Seq(Addr) /\ pagesList \in Seq(1 .. Len(vAddr))
    BY DEF TypeInv
  <2>6. /\ Len(vAddr) \in Nat /\ Len(vAddr') = Len(vAddr) + 1
        /\ vAddr'[Len(vAddr) + 1] = p * PAGE_SIZE
        /\ \A i \in 1 .. Len(vAddr) : vAddr'[i] = vAddr[i]
    BY <2>1, <2>4, <2>5
  <2>7. /\ Len(pagesList) \in Nat /\ Len(pagesList') = Len(pagesList) + 1
        /\ pagesList'[Len(pagesList) + 1] = Len(vAddr) + 1
        /\ \A i \in 1 .. Len(pagesList) : pagesList'[i] = pagesList[i]
    BY <2>2, <2>5, <2>6
  <2> SUFFICES ASSUME ~crossed
               PROVE  /\ Len(pagesList') = Len(vAddr')
                      /\ \A i \in 1 .. Len(pagesList') : pagesList'[i] = i
                      /\ \A i, j \in 1 .. Len(vAddr') : vAddr'[i] = vAddr'[j] => i = j
                      /\ \A i \in 1 .. Len(vAddr') : \A q \in freePages' : vAddr'[i] # q * PAGE_SIZE
    BY <2>2 DEF PagesInv
  <2>8. /\ Len(pagesList) = Len(vAddr)
        /\ \A i \in 1 .. Len(pagesList) : pagesList[i] = i
        /\ \A i, j \in 1 .. Len(vAddr) : vAddr[i] = vAddr[j] => i = j
        /\ \A i \in 1 .. Len(vAddr) : \A q \in freePages : vAddr[i] # q * PAGE_SIZE
    BY DEF PagesInv
  <2>9. Len(pagesList') = Len(vAddr') /\ \A i \in 1 .. Len(pagesList') : pagesList'[i] = i
    BY <2>6, <2>7, <2>8
  <2>10. \A i, j \in 1 .. Len(vAddr') : vAddr'[i] = vAddr'[j] => i = j
    <3>1. \A i \in 1 .. Len(vAddr) : vAddr[i] # p * PAGE_SIZE
      BY <2>8
    <3>2. \A i \in 1 .. Len(vAddr') : i \in 1 .. Len(vAddr) \/ i = Len(vAddr) + 1
      BY <2>6
    <3>3. \A i \in 1 .. Len(vAddr) : vAddr'[i] # vAddr'[Len(vAddr) + 1]
      BY <2>6, <3>1
    <3>4. \A i, j \in 1 .. Len(vAddr) : vAddr'[i] = vAddr'[j] => i = j
      BY <2>6, <2>8
    <3> QED
      BY <3>2, <3>3, <3>4
  <2>11. \A i \in 1 .. Len(vAddr') : \A q \in freePages' : vAddr'[i] # q * PAGE_SIZE
    <3>1. \A q \in freePages' : q \in freePages /\ q # p
      BY <2>1
    <3>2. \A q \in freePages : q # p => p * PAGE_SIZE # q * PAGE_SIZE
      <4>1. \A q \in freePages : (q * PAGE_SIZE) \div PAGE_SIZE = q
        BY <2>3, PageAddress
      <4> QED
        BY <4>1
    <3>3. \A i \in 1 .. Len(vAddr') : i \in 1 .. Len(vAddr) \/ i = Len(vAddr) + 1
      BY <2>6
    <3>4. \A q \in freePages' : p * PAGE_SIZE # q * PAGE_SIZE
      BY <3>1, <3>2
    <3>5. \A i \in 1 .. Len(vAddr) : \A q \in freePages' : vAddr'[i] # q * PAGE_SIZE
      BY <2>6, <2>8, <3>1
    <3> QED
      BY <2>6, <3>3, <3>4, <3>5
  <2> QED
    BY <2>9, <2>10, <2>11
<1>3. CASE ReadNextPage
  BY <1>3 DEF ReadNextPage, PagesInv
<1>4. UNCHANGED <<pageVars, crossed>> \/ (\E s \in Senders : AllocateWritePage(s)) \/ ReadNextPage
  BY DEF BufferNext, AddCall, AddStep, AllocateWritePageFails, StoreByte, Advance, MoveReadLimit,
         AddReturn, ReadCall, ReadStep, ReadFirstPage, ReadFirstLimit, CopyByte, ReadReturn,
         readerVars, bufferVars
<1> QED
  BY <1>1, <1>2, <1>3, <1>4

(* Nothing is added, and every pointer is null, at the start.              *)
LEMMA BufferStarts ==
  ASSUME BufferInit
  PROVE  TypeInv /\ CountInv /\ PagesInv
<1>1. TypeInv
  BY Numbers DEF BufferInit, TypeInv, SenderPcs, ReaderPcs, Null
<1>2. Advancing = {} /\ Limiting = {} /\ Todo = {}
  <2>1. Advancing = {} /\ Limiting = {}
    BY DEF BufferInit, Advancing, Limiting
  <2>2. ASSUME NEW b \in Todo PROVE FALSE
    <3>1. b \in Senders \X (1 .. MaxBytes) /\ b[2] <= remainingBytes[b[1]]
      BY Zenon DEF Todo
    <3>2. b[1] \in Senders /\ b[2] \in 1 .. MaxBytes
      BY <3>1
    <3> QED
      BY <3>1, <3>2, Numbers DEF BufferInit
  <2> QED
    BY <2>1, <2>2
<1>3. NbAdvancing = 0 /\ NbLimiting = 0 /\ NbTodo = 0
  BY <1>2, FS_EmptySet DEF NbAdvancing, NbLimiting, NbTodo
<1>4. CountInv
  BY <1>3, Numbers DEF CountInv, BufferInit, Done, Null
<1>5. PagesInv
  BY DEF PagesInv, BufferInit
<1> QED
  BY <1>1, <1>4, <1>5

(* The three invariants hold in every reachable state.                     *)
THEOREM BufferInvariant == BufferSpec => [](TypeInv /\ CountInv /\ PagesInv)
<1>1. BufferInit => TypeInv /\ CountInv /\ PagesInv
  BY BufferStarts
<1>2. TypeInv /\ CountInv /\ PagesInv /\ [BufferNext]_bufferVars => (TypeInv /\ CountInv /\ PagesInv)'
  <2> SUFFICES ASSUME TypeInv, CountInv, PagesInv, [BufferNext]_bufferVars
               PROVE  (TypeInv /\ CountInv /\ PagesInv)'
    OBVIOUS
  <2>1. PagesInv'
    BY PagesStep
  <2>2. ASSUME NEW s \in Senders, AddCall(s) \/ AddStep(s) PROVE TypeInv' /\ CountInv'
    BY <2>2, TypeAdd, CountAdd
  <2>3. ASSUME ReadCall \/ ReadStep PROVE TypeInv' /\ CountInv'
    BY <2>3, TypeRead, CountRead
  <2>4. ASSUME UNCHANGED bufferVars PROVE TypeInv' /\ CountInv'
    <3>1. UNCHANGED <<writeVars, readVars, currentReadLimit, pageVars, mem, senderVars, readerVars>>
      BY <2>4 DEF bufferVars
    <3>2. TypeInv'
      BY <3>1 DEF TypeInv, writeVars, readVars, pageVars, senderVars, readerVars
    <3>3. Advancing' = Advancing /\ Limiting' = Limiting /\ Todo' = Todo
      BY <3>1 DEF Advancing, Limiting, Todo, senderVars
    <3>4. CountInv'
      BY <3>1, <3>3 DEF CountInv, NbAdvancing, NbLimiting, NbTodo, Done, Top,
                        writeVars, readVars, senderVars, readerVars
    <3> QED
      BY <3>2, <3>4
  <2> QED
    BY <2>1, <2>2, <2>3, <2>4 DEF BufferNext
<1> QED
  BY <1>1, <1>2, PTL DEF BufferSpec

(* The page being written is the last of the list, in no other list and    *)
(* not in the pool, until the reader removes a page; and no pointer leaves *)
(* its bounds whatever overlaps.                                           *)
THEOREM BufferWriterOwnsLastPage == BufferSpec => []WriterOwnsLastPage
<1>1. TypeInv /\ CountInv /\ PagesInv => WriterOwnsLastPage
  <2> SUFFICES ASSUME TypeInv, CountInv, PagesInv
               PROVE  WriterOwnsLastPage
    OBVIOUS
  <2>1. /\ NbAdvancing \in Nat /\ Cardinality(Senders) \in Nat /\ Cardinality(Senders) > 0
        /\ currentPageWritePtr \in Nat /\ currentWriteLimit \in Nat /\ currentWriteLimit <= Top
        /\ currentPageReadPtr \in Nat /\ currentReadLimit \in Nat /\ NbLimiting \in Nat
        /\ Done \in Nat /\ PAGE_SIZE \in Nat /\ Top \in Nat
        /\ Done <= MaxBytes /\ MaxBytes \in Nat /\ MaxPages \in Nat
    <3>1. Done \in Nat /\ Done <= asked /\ asked <= MaxBytes /\ asked \in Nat /\ MaxBytes \in Nat
      BY TypeFacts, CountFacts, Numbers
    <3>2. Done <= MaxBytes
      BY <3>1
    <3> QED
      BY <3>1, <3>2, CountFacts, Numbers
  <2>2. currentWriteLimit \in 0 .. Top /\ currentPageWritePtr \in 0 .. Top + Cardinality(Senders) - 1
    BY <2>1 DEF CountInv
  <2>3. currentPageReadPtr \in Addr /\ currentReadLimit \in Addr
    <3>1. Addr = 0 .. Top + PAGE_SIZE + 2 * MaxBytes
      BY Numbers
    <3> QED
      BY <2>1, <3>1 DEF CountInv
  <2>4. BufferTypeOK
    <3>1. Len(vAddr) \in Nat /\ Len(vAddr) <= MaxPages /\ pagesList \in Seq(1 .. Len(vAddr))
      BY DEF TypeInv
    <3>2. pagesList \in Seq(1 .. MaxPages)
      BY <2>1, <3>1
    <3>3. {currentPageWrite, currentPageRead} \subseteq 0 .. MaxPages
      BY <2>1, <3>1 DEF TypeInv
    <3> QED
      BY <2>2, <2>3, <3>2, <3>3 DEF BufferTypeOK, TypeInv, Top
  <2>5. ASSUME ~crossed
        PROVE  /\ pagesList # <<>> => currentPageWrite = pagesList[Len(pagesList)]
               /\ \A i, j \in 1 .. Len(pagesList) :
                    /\ vAddr[pagesList[i]] \div PAGE_SIZE \notin freePages
                    /\ vAddr[pagesList[i]] = vAddr[pagesList[j]] => i = j
    <3>1. /\ Len(pagesList) = Len(vAddr)
          /\ \A i \in 1 .. Len(pagesList) : pagesList[i] = i
          /\ \A i, j \in 1 .. Len(vAddr) : vAddr[i] = vAddr[j] => i = j
          /\ \A i \in 1 .. Len(vAddr) : \A p \in freePages : vAddr[i] # p * PAGE_SIZE
      BY <2>5 DEF PagesInv
    <3>2. pagesList # <<>> => currentPageWrite = pagesList[Len(pagesList)]
      <4>1. pagesList \in Seq(1 .. Len(vAddr)) /\ currentPageWrite = Len(vAddr)
        BY DEF TypeInv
      <4> QED
        BY <3>1, <4>1
    <3>3. \A i \in 1 .. Len(vAddr) : vAddr[i] \div PAGE_SIZE \notin freePages
      <4> SUFFICES ASSUME NEW i \in 1 .. Len(vAddr), vAddr[i] \div PAGE_SIZE \in freePages
                   PROVE  FALSE
        OBVIOUS
      <4>1. PICK p \in 1 .. NbPages : vAddr[i] = p * PAGE_SIZE
        BY DEF TypeInv
      <4>2. vAddr[i] \div PAGE_SIZE = p
        BY <4>1, PageAddress
      <4> QED
        BY <3>1, <4>1, <4>2
    <3> QED
      BY <3>1, <3>2, <3>3
  <2> QED
    BY <2>4, <2>5 DEF WriterOwnsLastPage
<1> QED
  BY <1>1, BufferInvariant, PTL

-----------------------------------------------------------------------------
(* The byte a sender has stored without advancing, the byte the limit of   *)
(* the reader does not take in yet, the bytes that are on the first page.  *)
Late == IF \E s \in Senders : spc[s] = "advance" THEN 1 ELSE 0
Unseen == IF \E s \in Senders : spc[s] \in {"advance", "limit"} THEN 1 ELSE 0
OnFirst == IF Len(vAddr) = 1 THEN stored ELSE PAGE_SIZE

(* While nothing overlapped there is at most one call.                     *)
OneCall ==
  Calm => \A s \in Senders : spc[s] # "idle" =>
            rpc = "idle" /\ \A t \in Senders : t # s => spc[t] = "idle"

(* What AddBytes did: the first page has the first bytes in their order,   *)
(* and the write pointer is on the last page.                              *)
WrittenInv ==
  Calm =>
    /\ Len(vAddr) = 0 => /\ stored = 0
                         /\ currentPageWritePtr = Null
                         /\ \A s \in Senders : spc[s] \in {"idle", "page"}
    /\ Len(vAddr) > 0 => /\ vAddr[Len(vAddr)] <= currentPageWritePtr
                         /\ currentWriteLimit = vAddr[Len(vAddr)] + PAGE_SIZE
                         /\ currentPageWritePtr + Late <= currentWriteLimit
                         /\ \A s \in Senders : spc[s] # "page"
                         /\ \A i \in 1 .. OnFirst : mem[vAddr[1] + i - 1] = i
    /\ Len(vAddr) = 1 => currentPageWritePtr + Late = vAddr[1] + stored
    /\ Len(vAddr) > 1 => stored >= PAGE_SIZE

(* What ReadBytes did: it is on the first page, as far as it copied, and   *)
(* its limit is what was written there.                                    *)
ReadInv ==
  Calm =>
    /\ \A i \in 1 .. Len(delivered) : delivered[i] = i
    /\ currentPageReadPtr = Null =>
         delivered = <<>> /\ currentPageRead = Null /\ rpc \in {"idle", "first"}
    /\ currentPageReadPtr # Null =>
         /\ Len(vAddr) > 0 /\ currentPageRead = 1 /\ rpc # "first"
         /\ currentPageReadPtr = vAddr[1] + Len(delivered)
         /\ rpc = "limit" => delivered = <<>>
         /\ rpc # "limit" =>
              /\ currentPageReadPtr <= currentReadLimit
              /\ Len(vAddr) = 1 => currentReadLimit = vAddr[1] + stored - Unseen
              /\ Len(vAddr) # 1 => currentReadLimit = vAddr[1] + PAGE_SIZE

(* The addresses of the pages are not null, and their memory is disjoint.  *)
LEMMA PagesApart ==
  ASSUME TypeInv
  PROVE  /\ \A i \in 1 .. Len(vAddr) :
              vAddr[i] \in Nat /\ vAddr[i] > 0 /\ vAddr[i] + PAGE_SIZE <= Top
         /\ \A i, j \in 1 .. Len(vAddr) : vAddr[i] # vAddr[j] =>
              vAddr[i] + PAGE_SIZE <= vAddr[j] \/ vAddr[j] + PAGE_SIZE <= vAddr[i]
<1>1. \A i \in 1 .. Len(vAddr) : \E p \in 1 .. NbPages : vAddr[i] = p * PAGE_SIZE
  BY DEF TypeInv
<1>2. \A i \in 1 .. Len(vAddr) :
        vAddr[i] \in Nat /\ vAddr[i] > 0 /\ vAddr[i] + PAGE_SIZE <= Top
  <2> SUFFICES ASSUME NEW i \in 1 .. Len(vAddr)
               PROVE  vAddr[i] \in Nat /\ vAddr[i] > 0 /\ vAddr[i] + PAGE_SIZE <= Top
    OBVIOUS
  <2>1. PICK p \in 1 .. NbPages : vAddr[i] = p * PAGE_SIZE
    BY <1>1
  <2>2. /\ p * PAGE_SIZE \in Nat /\ p * PAGE_SIZE >= PAGE_SIZE
        /\ p * PAGE_SIZE + PAGE_SIZE <= Top
    BY PageAddress
  <2>3. PAGE_SIZE \in Nat /\ PAGE_SIZE > 0
    BY Numbers
  <2> QED
    BY <2>1, <2>2, <2>3
<1>3. ASSUME NEW i \in 1 .. Len(vAddr), NEW j \in 1 .. Len(vAddr), vAddr[i] # vAddr[j]
      PROVE  vAddr[i] + PAGE_SIZE <= vAddr[j] \/ vAddr[j] + PAGE_SIZE <= vAddr[i]
  <2>1. PICK p \in 1 .. NbPages : vAddr[i] = p * PAGE_SIZE
    BY <1>1
  <2>2. PICK q \in 1 .. NbPages : vAddr[j] = q * PAGE_SIZE
    BY <1>1
  <2>3. p # q
    BY <1>3, <2>1, <2>2
  <2>4. p < q \/ q < p
    BY <2>3
  <2>5. p < q => p * PAGE_SIZE + PAGE_SIZE <= q * PAGE_SIZE
    BY PageAddress
  <2>6. q < p => q * PAGE_SIZE + PAGE_SIZE <= p * PAGE_SIZE
    BY PageAddress
  <2> QED
    BY <2>1, <2>2, <2>4, <2>5, <2>6
<1> QED
  BY <1>2, <1>3

(* A step of a sender that leaves the buffer calm is one of the only call. *)
LEMMA CalmSender ==
  ASSUME TypeInv, NEW s \in Senders, NEW to, SenderGoto(s, to), UNCHANGED readerVars, Calm'
  PROVE  /\ Calm /\ rpc = "idle" /\ rpc' = "idle"
         /\ \A t \in Senders : t # s => spc[t] = "idle" /\ spc'[t] = "idle"
         /\ spc'[s] = to
         /\ Late = IF spc[s] = "advance" THEN 1 ELSE 0
         /\ Late' = IF to = "advance" THEN 1 ELSE 0
         /\ Unseen = IF spc[s] \in {"advance", "limit"} THEN 1 ELSE 0
         /\ Unseen' = IF to \in {"advance", "limit"} THEN 1 ELSE 0
<1>1. /\ ~overlap /\ rpc = "idle"
      /\ \A t \in Senders : t # s => spc[t] = "idle"
  <2>1. overlap' <=> (overlap \/ rpc # "idle" \/ \E t \in Senders \ {s} : spc[t] # "idle")
    BY Zenon DEF SenderGoto
  <2>2. ~overlap'
    BY Zenon DEF Calm
  <2> QED
    BY <2>1, <2>2, Zenon
<1>2. Calm /\ rpc' = "idle"
  BY <1>1 DEF Calm, readerVars
<1>3. spc' = [spc EXCEPT ![s] = to] /\ spc \in [Senders -> SenderPcs]
  BY DEF SenderGoto, TypeInv
<1>4. spc'[s] = to /\ \A t \in Senders : t # s => spc'[t] = "idle"
  BY <1>1, <1>3
<1>5. /\ (\E t \in Senders : spc[t] = "advance") <=> spc[s] = "advance"
      /\ (\E t \in Senders : spc[t] \in {"advance", "limit"}) <=> spc[s] \in {"advance", "limit"}
  BY <1>1
<1>6. /\ (\E t \in Senders : spc'[t] = "advance") <=> to = "advance"
      /\ (\E t \in Senders : spc'[t] \in {"advance", "limit"}) <=> to \in {"advance", "limit"}
  BY <1>4
<1>7. /\ Late = IF spc[s] = "advance" THEN 1 ELSE 0
      /\ Unseen = IF spc[s] \in {"advance", "limit"} THEN 1 ELSE 0
  BY <1>5 DEF Late, Unseen
<1>8. /\ Late' = IF to = "advance" THEN 1 ELSE 0
      /\ Unseen' = IF to \in {"advance", "limit"} THEN 1 ELSE 0
  BY <1>6 DEF Late, Unseen
<1> QED
  BY <1>1, <1>2, <1>4, <1>7, <1>8

(* A step of the reader that leaves the buffer calm finds no sender in a   *)
(* call.                                                                   *)
LEMMA CalmReader ==
  ASSUME TypeInv, NEW to, ReaderGoto(to), UNCHANGED senderVars, Calm',
         ~crossed' => ~crossed, ~early' => ~early
  PROVE  /\ Calm
         /\ \A t \in Senders : spc[t] = "idle" /\ spc'[t] = "idle"
         /\ Late = 0 /\ Late' = 0 /\ Unseen = 0 /\ Unseen' = 0
<1>1. ~overlap /\ \A t \in Senders : spc[t] = "idle"
  <2>1. overlap' <=> (overlap \/ \E t \in Senders : spc[t] # "idle")
    BY Zenon DEF ReaderGoto
  <2>2. ~overlap'
    BY Zenon DEF Calm
  <2> QED
    BY <2>1, <2>2, Zenon
<1>2. Calm
  BY <1>1, Zenon DEF Calm
<1>3. spc' = spc
  BY DEF senderVars
<1>4. Late = 0 /\ Unseen = 0
  BY <1>1 DEF Late, Unseen
<1>5. Late' = 0 /\ Unseen' = 0
  BY <1>1, <1>3 DEF Late, Unseen
<1> QED
  BY <1>1, <1>2, <1>3, <1>4, <1>5

(* AddBytes writes the bytes one behind the other.                         *)
LEMMA WrittenAdd ==
  ASSUME TypeInv, PagesInv, CountInv, WrittenInv, NEW s \in Senders, AddCall(s) \/ AddStep(s)
  PROVE  WrittenInv'
<1> SUFFICES ASSUME Calm'
             PROVE  WrittenInv'
  BY DEF WrittenInv
<1>0. UNCHANGED readerVars
  BY DEF AddCall, AddStep, AllocateWritePage, AllocateWritePageFails, StoreByte, Advance,
         MoveReadLimit, AddReturn
<1>1. \A to : SenderGoto(s, to) =>
         /\ Calm /\ \A t \in Senders : t # s => spc[t] = "idle" /\ spc'[t] = "idle"
         /\ spc'[s] = to
         /\ Late = IF spc[s] = "advance" THEN 1 ELSE 0
         /\ Late' = IF to = "advance" THEN 1 ELSE 0
  BY <1>0, CalmSender
<1>2. /\ Len(vAddr) \in Nat /\ currentPageWritePtr \in Nat /\ currentWriteLimit \in Nat
      /\ stored \in Nat /\ PAGE_SIZE \in Nat /\ PAGE_SIZE > 0
      /\ \A i \in 1 .. Len(vAddr) : vAddr[i] \in Nat /\ vAddr[i] > 0
  BY CountFacts, PagesApart, SMTT(40) DEF TypeInv
<1>3. Calm =>
        /\ Len(vAddr) = 0 => /\ stored = 0
                             /\ currentPageWritePtr = Null
                             /\ \A t \in Senders : spc[t] \in {"idle", "page"}
        /\ Len(vAddr) > 0 => /\ vAddr[Len(vAddr)] <= currentPageWritePtr
                             /\ currentWriteLimit = vAddr[Len(vAddr)] + PAGE_SIZE
                             /\ currentPageWritePtr + Late <= currentWriteLimit
                             /\ \A t \in Senders : spc[t] # "page"
                             /\ \A i \in 1 .. OnFirst : mem[vAddr[1] + i - 1] = i
        /\ Len(vAddr) = 1 => currentPageWritePtr + Late = vAddr[1] + stored
        /\ Len(vAddr) > 1 => stored >= PAGE_SIZE
  BY DEF WrittenInv
<1>4. ASSUME NEW to, SenderGoto(s, to),
             UNCHANGED <<vAddr, stored, mem, writeVars>>, Late' = Late,
             Len(vAddr) = 0 => to \in {"idle", "page"}, Len(vAddr) > 0 => to # "page"
      PROVE  WrittenInv'
  <2>1. Calm /\ \A t \in Senders : t # s => spc'[t] = "idle"
    BY <1>1, <1>4
  <2>2. spc'[s] = to
    BY <1>1, <1>4
  <2>3. (Len(vAddr) = 0 => \A t \in Senders : spc'[t] \in {"idle", "page"})
        /\ (Len(vAddr) > 0 => \A t \in Senders : spc'[t] # "page")
    BY <1>4, <2>1, <2>2
  <2>4. OnFirst' = OnFirst
    BY <1>4 DEF OnFirst
  <2> QED
    BY <1>3, <1>4, <2>1, <2>3, <2>4 DEF WrittenInv, writeVars
<1>5. CASE AddCall(s)
  <2>1. spc[s] = "idle" /\ UNCHANGED <<vAddr, stored, mem, writeVars>>
    BY <1>5 DEF AddCall, pageVars
  <2>2. PICK to \in {"page", "store"} :
          SenderGoto(s, to) /\ to = IF currentPageWritePtr = Null THEN "page" ELSE "store"
    BY <1>5, Zenon DEF AddCall
  <2>3. Calm /\ Late = 0 /\ Late' = 0
    BY <1>1, <2>1, <2>2
  <2>4. Len(vAddr) > 0 => currentPageWritePtr # Null
    BY <1>2, <1>3, <2>3 DEF Null
  <2>5. (Len(vAddr) = 0 => to \in {"idle", "page"}) /\ (Len(vAddr) > 0 => to # "page")
    BY <1>3, <2>2, <2>3, <2>4
  <2> QED
    BY <1>4, <2>1, <2>2, <2>3, <2>5
<1>6. CASE AllocateWritePageFails(s)
  <2>1. spc[s] # "advance" /\ UNCHANGED <<vAddr, stored, mem, writeVars>>
    BY <1>6 DEF AllocateWritePageFails, NeedsPage, pageVars
  <2>2. PICK to \in {"idle"} : SenderGoto(s, to)
    BY <1>6, Zenon DEF AllocateWritePageFails
  <2>3. Late = 0 /\ Late' = 0
    BY <1>1, <2>1, <2>2
  <2> QED
    BY <1>4, <2>1, <2>2, <2>3
<1>7. CASE AddReturn(s)
  <2>1. spc[s] = "store" /\ UNCHANGED <<vAddr, stored, mem, writeVars>>
    BY <1>7 DEF AddReturn, pageVars
  <2>2. PICK to \in {"idle"} : SenderGoto(s, to)
    BY <1>7, Zenon DEF AddReturn
  <2>3. Late = 0 /\ Late' = 0
    BY <1>1, <2>1, <2>2
  <2> QED
    BY <1>4, <2>1, <2>2, <2>3
<1>8. CASE MoveReadLimit(s)
  <2>1. spc[s] = "limit" /\ UNCHANGED <<vAddr, stored, mem, writeVars>>
    BY <1>8 DEF MoveReadLimit, pageVars
  <2>2. PICK to \in {"store"} : SenderGoto(s, to)
    BY <1>8, Zenon DEF MoveReadLimit
  <2>3. Calm /\ Late = 0 /\ Late' = 0
    BY <1>1, <2>1, <2>2
  <2>4. Len(vAddr) # 0
    BY <1>3, <2>1, <2>3
  <2> QED
    BY <1>4, <2>1, <2>2, <2>3, <2>4
<1>9. CASE AllocateWritePage(s)
  <2>1. PICK p \in freePages :
          /\ vAddr' = Append(vAddr, p * PAGE_SIZE)
          /\ currentPageWritePtr' = p * PAGE_SIZE
          /\ currentWriteLimit' = (p + 1) * PAGE_SIZE
    BY <1>9 DEF AllocateWritePage
  <2>2. PICK a \in Nat :
          /\ a = p * PAGE_SIZE /\ a \in Addr
          /\ currentPageWritePtr' = a /\ currentWriteLimit' = a + PAGE_SIZE
    <3>1. p \in 1 .. NbPages
      BY DEF TypeInv
    <3> QED
      BY <2>1, <3>1, PageAddress
  <2>3. vAddr \in Seq(Addr) /\ vAddr' = Append(vAddr, a)
    BY <2>1, <2>2 DEF TypeInv
  <2>4. PICK n \in Nat \ {0} :
          /\ Len(vAddr') = n /\ n = Len(vAddr) + 1 /\ vAddr'[n] = a
          /\ n > 1 => vAddr'[1] = vAddr[1]
    BY <1>2, <2>2, <2>3
  <2>5. /\ UNCHANGED <<stored, mem>>
        /\ spc[s] # "page" => spc[s] = "store" /\ currentPageWritePtr >= currentWriteLimit
    BY <1>9 DEF AllocateWritePage, NeedsPage
  <2>6. PICK to \in {"store"} : SenderGoto(s, to)
    BY <1>9, Zenon DEF AllocateWritePage
  <2>7. Calm /\ Late = 0 /\ Late' = 0 /\ \A t \in Senders : spc'[t] \in {"idle", "store"}
    BY <1>1, <2>5, <2>6
  <2>8. CASE Len(vAddr) = 0
    <3>1. stored' = 0 /\ n = 1 /\ vAddr'[1] = a
      BY <1>3, <2>4, <2>5, <2>7, <2>8
    <3>2. OnFirst' = 0
      BY <2>4, <3>1 DEF OnFirst
    <3> QED
      <4>1. Len(vAddr') = 1 /\ vAddr'[Len(vAddr')] = a
        BY <2>4, <3>1
      <4>2. currentPageWritePtr' + Late' = a /\ vAddr'[1] + stored' = a
        BY <2>2, <2>7, <3>1
      <4>3. currentPageWritePtr' + Late' <= currentWriteLimit'
        BY <1>2, <2>2, <4>2
      <4>4. \A t \in Senders : spc'[t] # "page"
        BY <2>7
      <4>5. \A i \in 1 .. OnFirst' : mem'[vAddr'[1] + i - 1] = i
        BY <3>2
      <4> QED
        BY <2>2, <4>1, <4>2, <4>3, <4>4, <4>5 DEF WrittenInv
  <2>9. CASE Len(vAddr) > 0
    <3>1. n > 1 /\ currentPageWritePtr = currentWriteLimit
      BY <1>2, <1>3, <2>4, <2>5, <2>7, <2>9
    <3>2. OnFirst' = PAGE_SIZE
      BY <2>4, <3>1 DEF OnFirst
    <3>3. Len(vAddr) = 1 => stored = PAGE_SIZE
      BY <1>2, <1>3, <2>7, <3>1
    <3>4. stored >= PAGE_SIZE
      <4>1. PICK m \in Nat : m = Len(vAddr)
        BY <1>2
      <4>2. m = 1 \/ m > 1
        BY <2>9, <4>1
      <4>3. Len(vAddr) > 1 => stored >= PAGE_SIZE
        BY <1>3, <2>7
      <4>4. stored \in Nat /\ PAGE_SIZE \in Nat
        BY <1>2
      <4> QED
        BY <3>3, <4>1, <4>2, <4>3, <4>4
    <3>5. OnFirst = PAGE_SIZE
      BY <3>3 DEF OnFirst
    <3>6. \A i \in 1 .. OnFirst' : mem'[vAddr'[1] + i - 1] = i
      BY <1>3, <2>4, <2>5, <2>7, <2>9, <3>1, <3>2, <3>5
    <3> QED
      <4>1. Len(vAddr') = n /\ vAddr'[Len(vAddr')] = a /\ n # 0 /\ n # 1
        BY <2>4, <3>1
      <4>2. currentPageWritePtr' + Late' <= currentWriteLimit'
        BY <1>2, <2>2, <2>7
      <4>3. \A t \in Senders : spc'[t] # "page"
        BY <2>7
      <4>4. stored' >= PAGE_SIZE
        BY <2>5, <3>4
      <4> QED
        BY <2>2, <3>6, <4>1, <4>2, <4>3, <4>4 DEF WrittenInv
  <2> QED
    BY <1>2, <2>8, <2>9
<1>10. CASE StoreByte(s)
  <2>1. /\ spc[s] = "store" /\ currentPageWritePtr < currentWriteLimit
        /\ stored' = stored + 1
        /\ mem' = [mem EXCEPT ![currentPageWritePtr] = stored + 1]
        /\ UNCHANGED <<vAddr, writeVars>>
    BY <1>10 DEF StoreByte, pageVars
  <2>2. PICK to \in {"advance"} : SenderGoto(s, to)
    BY <1>10, Zenon DEF StoreByte
  <2>3. Calm /\ Late = 0 /\ Late' = 1 /\ \A t \in Senders : spc'[t] \in {"idle", "advance"}
    BY <1>1, <2>1, <2>2
  <2>4. Len(vAddr) > 0
    BY <1>2, <1>3, <2>1, <2>3
  <2>5. PICK b \in Nat : b = vAddr[1]
    BY <1>2, <2>4
  <2>6. PICK l \in Nat :
          l = vAddr[Len(vAddr)] /\ l <= currentPageWritePtr /\ currentWriteLimit = l + PAGE_SIZE
    BY <1>2, <1>3, <2>3, <2>4
  <2>7. currentPageWritePtr \in Addr /\ mem \in [Addr -> 0 .. MaxBytes]
    <3>1. l + PAGE_SIZE <= Top
      BY <1>2, <2>4, <2>6, PagesApart
    <3>2. Top \in Nat /\ MaxBytes \in Nat /\ Addr = 0 .. Top + PAGE_SIZE + 2 * MaxBytes
      BY Numbers
    <3>3. currentPageWritePtr \in Addr
      BY <1>2, <2>1, <2>6, <3>1, <3>2
    <3> QED
      BY <3>3 DEF TypeInv
  <2>8. \A i \in 1 .. OnFirst : mem[b + i - 1] = i
    BY <1>3, <2>3, <2>4, <2>5
  <2>9. CASE Len(vAddr) = 1
    <3>1. currentPageWritePtr = b + stored
      BY <1>2, <1>3, <2>3, <2>5, <2>9
    <3>2. OnFirst = stored /\ OnFirst' = stored + 1
      BY <2>1, <2>9 DEF OnFirst
    <3>3. mem'[b + stored] = stored + 1
      BY <2>1, <2>7, <3>1
    <3>4. \A i \in 1 .. stored : mem'[b + i - 1] = i
      <4> SUFFICES ASSUME NEW i \in 1 .. stored PROVE mem'[b + i - 1] = i
        OBVIOUS
      <4>1. b + i - 1 # currentPageWritePtr
        BY <1>2, <3>1
      <4>2. b + i - 1 \in Addr
        <5>1. Top + PAGE_SIZE + 2 * MaxBytes \in Nat /\ Addr = 0 .. Top + PAGE_SIZE + 2 * MaxBytes
          BY Numbers
        <5>2. b + i - 1 \in Nat /\ b + i - 1 <= b + stored
          BY <1>2
        <5> QED
          BY <1>2, <2>7, <3>1, <5>1, <5>2
      <4> QED
        BY <2>1, <2>7, <2>8, <3>2, <4>1, <4>2
    <3>5. \A i \in 1 .. OnFirst' : mem'[b + i - 1] = i
      <4>1. \A i \in 1 .. stored + 1 : i \in 1 .. stored \/ (i = stored + 1 /\ b + i - 1 = b + stored)
        BY <1>2
      <4> QED
        BY <3>2, <3>3, <3>4, <4>1
    <3> QED
      BY <1>2, <1>3, <2>1, <2>3, <2>5, <2>6, <2>9, <3>1, <3>5 DEF WrittenInv, writeVars
  <2>10. CASE Len(vAddr) > 1
    <3>1. OnFirst = PAGE_SIZE /\ OnFirst' = PAGE_SIZE
      BY <1>2, <2>1, <2>10 DEF OnFirst
    <3>2. b # l
      <4>1. ~crossed
        BY <2>3 DEF Calm
      <4>2. 1 \in 1 .. Len(vAddr) /\ Len(vAddr) \in 1 .. Len(vAddr) /\ 1 # Len(vAddr)
        BY <1>2, <2>10
      <4> QED
        BY <2>5, <2>6, <4>1, <4>2 DEF PagesInv
    <3>3. b + PAGE_SIZE <= l \/ l + PAGE_SIZE <= b
      BY <1>2, <2>5, <2>6, <2>10, <3>2, PagesApart, SMTT(40)
    <3>4. \A i \in 1 .. OnFirst' : mem'[b + i - 1] = i
      <4> SUFFICES ASSUME NEW i \in 1 .. PAGE_SIZE PROVE mem'[b + i - 1] = i
        BY <3>1
      <4>1. b + i - 1 # currentPageWritePtr
        BY <1>2, <2>1, <2>6, <3>3
      <4>2. b + PAGE_SIZE <= Top
        BY <1>2, <2>4, <2>5, PagesApart
      <4>3. b + i - 1 \in Addr
        BY <1>2, <4>2, Numbers
      <4> QED
        BY <2>1, <2>7, <2>8, <3>1, <4>1, <4>3
    <3> QED
      BY <1>2, <1>3, <2>1, <2>3, <2>5, <2>6, <2>10, <3>4, SMTT(40) DEF WrittenInv, writeVars
  <2>11. Len(vAddr) = 1 \/ Len(vAddr) > 1
    <3>1. PICK n \in Nat : n = Len(vAddr)
      BY <1>2
    <3>2. n > 0
      BY <2>4, <3>1
    <3>3. n = 1 \/ n > 1
      BY <3>2
    <3> QED
      BY <3>1, <3>3
  <2> QED
    BY <2>9, <2>10, <2>11
<1>11. CASE Advance(s)
  <2>1. /\ spc[s] = "advance" /\ currentPageWritePtr' = currentPageWritePtr + 1
        /\ UNCHANGED <<currentWriteLimit, stored, vAddr, mem>>
    BY <1>11 DEF Advance, pageVars
  <2>2. PICK to \in {"limit"} : SenderGoto(s, to)
    BY <1>11, Zenon DEF Advance
  <2>3. Calm /\ Late = 1 /\ Late' = 0 /\ \A t \in Senders : spc'[t] \in {"idle", "limit"}
    BY <1>1, <2>1, <2>2
  <2>4. Len(vAddr) > 0 /\ vAddr[Len(vAddr)] \in Nat
    BY <1>2, <1>3, <2>1, <2>3
  <2>5. OnFirst' = OnFirst
    BY <2>1 DEF OnFirst
  <2>6. Len(vAddr) = 1 => vAddr[1] \in Nat
    BY <1>2
  <2> QED
    BY <1>2, <1>3, <2>1, <2>3, <2>4, <2>5, <2>6 DEF WrittenInv
<1> QED
  BY <1>5, <1>6, <1>7, <1>8, <1>9, <1>10, <1>11 DEF AddStep

(* ReadBytes does not touch what was written.                              *)
LEMMA WrittenRead ==
  ASSUME TypeInv, WrittenInv, ReadCall \/ ReadStep
  PROVE  WrittenInv'
<1> SUFFICES ASSUME Calm'
             PROVE  WrittenInv'
  BY DEF WrittenInv
<1>1. UNCHANGED <<vAddr, stored, mem, writeVars, spc>>
  BY DEF ReadCall, ReadStep, ReadFirstPage, ReadFirstLimit, CopyByte, ReadNextPage, ReadReturn,
         pageVars, senderVars
<1>2. Calm
  <2>1. ~overlap' => ~overlap
    BY Zenon DEF ReadCall, ReadStep, ReadFirstPage, ReadFirstLimit, CopyByte, ReadNextPage, ReadReturn,
         ReaderGoto
  <2>2. ~crossed' => ~crossed
    BY Zenon DEF ReadCall, ReadStep, ReadFirstPage, ReadFirstLimit, CopyByte, ReadNextPage, ReadReturn
  <2>3. ~early' => ~early
    BY Zenon DEF ReadCall, ReadStep, ReadFirstPage, ReadFirstLimit, CopyByte, ReadNextPage, ReadReturn
  <2> QED
    BY <2>1, <2>2, <2>3, Zenon DEF Calm
<1>3. Late' = Late /\ OnFirst' = OnFirst
  BY <1>1 DEF Late, OnFirst
<1> QED
  BY <1>1, <1>2, <1>3 DEF WrittenInv, writeVars

(* AddBytes moves the limit of the reader with the bytes of the first page.*)
LEMMA ReadAdd ==
  ASSUME TypeInv, CountInv, WrittenInv, ReadInv, NEW s \in Senders, AddCall(s) \/ AddStep(s)
  PROVE  ReadInv'
<1> SUFFICES ASSUME Calm'
             PROVE  ReadInv'
  BY DEF ReadInv
<1>0. UNCHANGED <<readerVars, readVars>>
  BY DEF AddCall, AddStep, AllocateWritePage, AllocateWritePageFails, StoreByte, Advance,
         MoveReadLimit, AddReturn
<1>1. \A to : SenderGoto(s, to) =>
         /\ Calm /\ rpc = "idle"
         /\ Unseen = IF spc[s] \in {"advance", "limit"} THEN 1 ELSE 0
         /\ Unseen' = IF to \in {"advance", "limit"} THEN 1 ELSE 0
         /\ Late = IF spc[s] = "advance" THEN 1 ELSE 0
  BY <1>0, CalmSender
<1>2. /\ Len(vAddr) \in Nat /\ stored \in Nat /\ PAGE_SIZE \in Nat
      /\ currentPageReadPtr \in Nat /\ currentReadLimit \in Nat
      /\ \A i \in 1 .. Len(vAddr) : vAddr[i] \in Nat
      /\ currentPageWrite = Len(vAddr)
  <2>1. Len(vAddr) \in Nat /\ currentPageWrite = Len(vAddr)
    BY DEF TypeInv
  <2> QED
    BY <2>1, CountFacts, PagesApart
<1>3. Calm /\ rpc = "idle" /\ rpc' = "idle"
  <2>1. \E to : SenderGoto(s, to)
    BY DEF AddCall, AddStep, AllocateWritePage, AllocateWritePageFails, StoreByte, Advance,
           MoveReadLimit, AddReturn
  <2> QED
    BY <1>0, <1>1, <2>1 DEF readerVars
<1>4. /\ \A i \in 1 .. Len(delivered) : delivered[i] = i
      /\ currentPageReadPtr = Null => delivered = <<>> /\ currentPageRead = Null
      /\ currentPageReadPtr # Null =>
           /\ Len(vAddr) > 0 /\ currentPageRead = 1
           /\ currentPageReadPtr = vAddr[1] + Len(delivered)
           /\ currentPageReadPtr <= currentReadLimit
           /\ Len(vAddr) = 1 => currentReadLimit = vAddr[1] + stored - Unseen
           /\ Len(vAddr) # 1 => currentReadLimit = vAddr[1] + PAGE_SIZE
  BY <1>3 DEF ReadInv
<1>5. /\ delivered' = delivered /\ currentPageRead' = currentPageRead
      /\ currentPageReadPtr' = currentPageReadPtr
  BY <1>0 DEF readerVars, readVars
<1>6. CASE currentPageReadPtr = Null
  BY <1>3, <1>4, <1>5, <1>6 DEF ReadInv
<1>7. CASE currentPageReadPtr # Null
  <2>0. PICK b \in Nat : b = vAddr[1] /\ Len(vAddr) > 0
    BY <1>2, <1>4, <1>7
  <2> DEFINE Moved == /\ Len(vAddr') > 0 /\ vAddr'[1] = b
                      /\ currentPageReadPtr <= currentReadLimit'
                      /\ Len(vAddr') = 1 => currentReadLimit' = b + stored' - Unseen'
                      /\ Len(vAddr') # 1 => currentReadLimit' = b + PAGE_SIZE
  <2>1. SUFFICES Moved
    BY <1>3, <1>4, <1>5, <1>7, <2>0, <2>1 DEF ReadInv
  <2>2. ASSUME NEW to \in {"page", "store", "idle"}, SenderGoto(s, to),
               spc[s] \in {"idle", "page", "store"},
               UNCHANGED <<vAddr, stored, currentReadLimit>>
        PROVE  Moved
    <3>1. Unseen = 0 /\ Unseen' = 0
      BY <1>1, <2>2
    <3> QED
      BY <1>4, <1>7, <2>0, <2>2, <3>1
  <2>3. CASE AddCall(s)
    <3>1. PICK to \in {"page", "store", "idle"} : SenderGoto(s, to)
      BY <2>3, Zenon DEF AddCall
    <3>2. spc[s] = "idle" /\ UNCHANGED <<vAddr, stored, currentReadLimit>>
      BY <2>3 DEF AddCall, pageVars
    <3> QED
      BY <2>2, <3>1, <3>2
  <2>4. CASE AllocateWritePageFails(s)
    <3>1. PICK to \in {"page", "store", "idle"} : SenderGoto(s, to)
      BY <2>4, Zenon DEF AllocateWritePageFails
    <3>2. spc[s] \in {"page", "store"} /\ UNCHANGED <<vAddr, stored, currentReadLimit>>
      BY <2>4 DEF AllocateWritePageFails, NeedsPage, pageVars
    <3> QED
      BY <2>2, <3>1, <3>2
  <2>5. CASE AddReturn(s)
    <3>1. PICK to \in {"page", "store", "idle"} : SenderGoto(s, to)
      BY <2>5, Zenon DEF AddReturn
    <3>2. spc[s] = "store" /\ UNCHANGED <<vAddr, stored, currentReadLimit>>
      BY <2>5 DEF AddReturn, pageVars
    <3> QED
      BY <2>2, <3>1, <3>2
  <2>6. CASE AllocateWritePage(s)
    <3>1. PICK p \in freePages : vAddr' = Append(vAddr, p * PAGE_SIZE)
      BY <2>6 DEF AllocateWritePage
    <3>2. PICK a \in Addr : vAddr' = Append(vAddr, a)
      <4>1. p \in 1 .. NbPages
        BY DEF TypeInv
      <4> QED
        BY <3>1, <4>1, PageAddress
    <3>3. vAddr \in Seq(Addr)
      BY DEF TypeInv
    <3>4. PICK n \in Nat : n = Len(vAddr) /\ n > 0 /\ Len(vAddr') = n + 1 /\ vAddr'[1] = b
      BY <1>2, <2>0, <3>2, <3>3
    <3>5. n + 1 > 0 /\ n + 1 # 1
      BY <3>4
    <3>6. PICK to \in {"store"} : SenderGoto(s, to)
      BY <2>6, Zenon DEF AllocateWritePage
    <3>7. /\ UNCHANGED <<stored, currentReadLimit>>
          /\ spc[s] # "page" => spc[s] = "store" /\ currentPageWritePtr >= currentWriteLimit
      BY <2>6 DEF AllocateWritePage, NeedsPage
    <3>8. spc[s] = "store" /\ currentPageWritePtr >= currentWriteLimit
      BY <1>3, <2>0, <3>7 DEF WrittenInv
    <3>9. Unseen = 0 /\ Late = 0
      BY <1>1, <3>6, <3>8
    <3>10. n = 1 => stored = PAGE_SIZE
      <4>1. n = 1 => /\ currentWriteLimit = b + PAGE_SIZE
                     /\ currentPageWritePtr + Late <= currentWriteLimit
                     /\ currentPageWritePtr + Late = b + stored
        BY <1>3, <2>0, <3>4 DEF WrittenInv
      <4>2. currentPageWritePtr \in Nat /\ currentWriteLimit \in Nat
        BY CountFacts
      <4> QED
        BY <1>2, <3>8, <3>9, <4>1, <4>2
    <3>11. currentReadLimit = b + PAGE_SIZE
      BY <1>2, <1>4, <1>7, <2>0, <3>4, <3>9, <3>10
    <3> QED
      BY <1>4, <1>7, <3>4, <3>5, <3>7, <3>11
  <2>7. CASE StoreByte(s)
    <3>1. PICK to \in {"advance"} : SenderGoto(s, to)
      BY <2>7, Zenon DEF StoreByte
    <3>2. spc[s] = "store" /\ UNCHANGED <<vAddr, currentReadLimit>> /\ stored' = stored + 1
      BY <2>7 DEF StoreByte, pageVars
    <3>3. Unseen = 0 /\ Unseen' = 1
      BY <1>1, <3>1, <3>2
    <3> QED
      BY <1>2, <1>4, <1>7, <2>0, <3>2, <3>3
  <2>8. CASE Advance(s)
    <3>1. PICK to \in {"limit"} : SenderGoto(s, to)
      BY <2>8, Zenon DEF Advance
    <3>2. spc[s] = "advance" /\ UNCHANGED <<vAddr, currentReadLimit, stored>>
      BY <2>8 DEF Advance, pageVars
    <3>3. Unseen = 1 /\ Unseen' = 1
      BY <1>1, <3>1, <3>2
    <3> QED
      BY <1>4, <1>7, <2>0, <3>2, <3>3
  <2>9. CASE MoveReadLimit(s)
    <3>1. PICK to \in {"store"} : SenderGoto(s, to)
      BY <2>9, Zenon DEF MoveReadLimit
    <3>2. /\ spc[s] = "limit" /\ UNCHANGED <<vAddr, stored>>
          /\ currentReadLimit' = IF currentPageWrite = currentPageRead
                                   THEN currentReadLimit + 1 ELSE currentReadLimit
      BY <2>9 DEF MoveReadLimit, pageVars
    <3>3. Unseen = 1 /\ Unseen' = 0
      BY <1>1, <3>1, <3>2
    <3>4. currentPageWrite = currentPageRead <=> Len(vAddr) = 1
      BY <1>2, <1>4, <1>7
    <3>5. CASE Len(vAddr) = 1
      <4>1. currentReadLimit' = currentReadLimit + 1 /\ currentReadLimit = b + stored - 1
        BY <1>4, <1>7, <2>0, <3>2, <3>3, <3>4, <3>5
      <4> QED
        BY <1>2, <1>4, <1>7, <2>0, <3>2, <3>3, <3>5, <4>1
    <3>6. CASE Len(vAddr) # 1
      BY <1>4, <1>7, <2>0, <3>2, <3>4, <3>6
    <3> QED
      BY <3>5, <3>6
  <2> QED
    BY <2>3, <2>4, <2>5, <2>6, <2>7, <2>8, <2>9 DEF AddStep
<1> QED
  BY <1>6, <1>7

(* ReadBytes copies the bytes of the first page in their order.            *)
LEMMA ReadRead ==
  ASSUME TypeInv, CountInv, PagesInv, WrittenInv, ReadInv, ReadCall \/ ReadStep
  PROVE  ReadInv'
<1> SUFFICES ASSUME Calm'
             PROVE  ReadInv'
  BY DEF ReadInv
<1>0. UNCHANGED <<vAddr, stored, mem, senderVars>>
  BY DEF ReadCall, ReadStep, ReadFirstPage, ReadFirstLimit, CopyByte, ReadNextPage, ReadReturn,
         pageVars, senderVars
<1>1. Calm /\ Late = 0 /\ Unseen = 0 /\ Unseen' = 0
  <2>1. \E to : ReaderGoto(to)
    BY DEF ReadCall, ReadStep, ReadFirstPage, ReadFirstLimit, CopyByte, ReadNextPage, ReadReturn
  <2>2. ~crossed' => ~crossed
    BY Zenon DEF ReadCall, ReadStep, ReadFirstPage, ReadFirstLimit, CopyByte, ReadNextPage, ReadReturn
  <2>3. ~early' => ~early
    BY Zenon DEF ReadCall, ReadStep, ReadFirstPage, ReadFirstLimit, CopyByte, ReadNextPage, ReadReturn
  <2> QED
    BY <1>0, <2>1, <2>2, <2>3, CalmReader
<1>2. /\ Len(vAddr) \in Nat /\ stored \in Nat /\ PAGE_SIZE \in Nat
      /\ currentPageReadPtr \in Nat /\ currentReadLimit \in Nat /\ currentPageWritePtr \in Nat
      /\ \A i \in 1 .. Len(vAddr) : vAddr[i] \in Nat /\ vAddr[i] > 0
      /\ currentPageWrite = Len(vAddr)
      /\ delivered \in Seq(0 .. MaxBytes)
  <2>1. Len(vAddr) \in Nat /\ currentPageWrite = Len(vAddr) /\ delivered \in Seq(0 .. MaxBytes)
    BY DEF TypeInv
  <2> QED
    BY <2>1, CountFacts, PagesApart
<1>3. /\ \A i \in 1 .. Len(delivered) : delivered[i] = i
      /\ currentPageReadPtr = Null =>
           delivered = <<>> /\ currentPageRead = Null /\ rpc \in {"idle", "first"}
      /\ currentPageReadPtr # Null =>
           /\ Len(vAddr) > 0 /\ currentPageRead = 1 /\ rpc # "first"
           /\ currentPageReadPtr = vAddr[1] + Len(delivered)
           /\ rpc = "limit" => delivered = <<>>
           /\ rpc # "limit" =>
                /\ currentPageReadPtr <= currentReadLimit
                /\ Len(vAddr) = 1 => currentReadLimit = vAddr[1] + stored
                /\ Len(vAddr) # 1 => currentReadLimit = vAddr[1] + PAGE_SIZE
  <2>1. Len(vAddr) > 0 => vAddr[1] + stored - Unseen = vAddr[1] + stored
    BY <1>1, <1>2
  <2> QED
    BY <1>1, <2>1 DEF ReadInv
<1>4. CASE ReadCall
  <2>1. /\ UNCHANGED <<delivered, currentPageRead, currentPageReadPtr, currentReadLimit>>
        /\ rpc = "idle" /\ rpc' = IF currentPageReadPtr = Null THEN "first" ELSE "copy"
    BY <1>4 DEF ReadCall, ReaderGoto, readVars
  <2>2. Unseen' = Unseen
    BY <1>1
  <2> QED
    BY <1>0, <1>1, <2>1, <2>2 DEF ReadInv
<1>5. CASE ReadFirstPage
  <2>1. /\ rpc = "first" /\ rpc' = "limit" /\ delivered' = delivered
        /\ currentPageRead' = ListTop(pagesList)
        /\ currentPageReadPtr' \in AddressOf(currentPageRead')
    BY <1>5 DEF ReadFirstPage, ReaderGoto
  <2>2. delivered = <<>>
    BY <1>3, <2>1
  <2>3. pagesList # <<>>
    <3>1. early' <=> (early \/ pagesList = <<>>)
      BY <1>5, Zenon DEF ReadFirstPage
    <3> QED
      BY <3>1, Zenon DEF Calm
  <2>4. ListTop(pagesList) = 1 /\ Len(vAddr) > 0
    <3>1. ~crossed
      BY <1>1 DEF Calm
    <3>2. Len(pagesList) = Len(vAddr) /\ \A i \in 1 .. Len(pagesList) : pagesList[i] = i
      BY <3>1 DEF PagesInv
    <3>3. pagesList \in Seq(1 .. Len(vAddr))
      BY DEF TypeInv
    <3>4. Len(pagesList) > 0 /\ Head(pagesList) = pagesList[1]
      BY <2>3, <3>3
    <3> QED
      BY <1>2, <2>3, <3>2, <3>4 DEF ListTop
  <2>5. vAddr[1] \in Nat /\ vAddr[1] > 0
    BY <1>2, <2>4
  <2>6. currentPageRead' = 1 /\ currentPageReadPtr' = vAddr[1]
    BY <2>1, <2>4 DEF AddressOf, Null
  <2>7. Len(delivered) = 0 /\ vAddr[1] + 0 = vAddr[1] /\ vAddr[1] # Null
    BY <2>2, <2>5 DEF Null
  <2> QED
    BY <1>0, <1>3, <2>1, <2>2, <2>4, <2>6, <2>7 DEF ReadInv
<1>6. CASE ReadFirstLimit
  <2>1. /\ rpc = "limit" /\ rpc' = "copy"
        /\ UNCHANGED <<delivered, currentPageRead, currentPageReadPtr>>
        /\ currentReadLimit' = IF currentPageRead = currentPageWrite
                                 THEN currentPageWritePtr ELSE currentPageReadPtr + PAGE_SIZE
    BY <1>6 DEF ReadFirstLimit, ReaderGoto, readVars
  <2>2. currentPageReadPtr # Null
    BY <1>3, <2>1
  <2>3. PICK b \in Nat : b = vAddr[1]
    BY <1>2, <1>3, <2>2
  <2>4. Len(vAddr) > 0 /\ currentPageRead = 1 /\ currentPageReadPtr = b
    <3>1. delivered = <<>> /\ currentPageReadPtr = vAddr[1] + Len(delivered)
      BY <1>3, <2>1, <2>2
    <3>2. Len(delivered) = 0
      BY <3>1
    <3> QED
      BY <1>3, <2>2, <2>3, <3>1, <3>2
  <2>5. PICK l \in Nat :
          /\ currentReadLimit' = l /\ b <= l
          /\ Len(vAddr) = 1 => l = b + stored
          /\ Len(vAddr) # 1 => l = b + PAGE_SIZE
    <3>1. CASE Len(vAddr) = 1
      <4>1. currentPageWritePtr = b + stored
        BY <1>1, <1>2, <2>3, <3>1 DEF WrittenInv
      <4> QED
        BY <1>2, <2>1, <2>4, <3>1, <4>1
    <3>2. CASE Len(vAddr) # 1
      <4>1. currentReadLimit' = b + PAGE_SIZE
        BY <1>2, <2>1, <2>4, <3>2
      <4> QED
        BY <1>2, <3>2, <4>1
    <3> QED
      BY <3>1, <3>2
  <2>6. b + stored - 0 = b + stored
    BY <1>2
  <2> QED
    BY <1>0, <1>1, <1>3, <2>1, <2>2, <2>3, <2>4, <2>5, <2>6 DEF ReadInv
<1>7. CASE CopyByte
  <2>1. /\ rpc = "copy" /\ rpc' = "copy" /\ currentPageReadPtr < currentReadLimit
        /\ delivered' = Append(delivered, mem[currentPageReadPtr])
        /\ currentPageReadPtr' = currentPageReadPtr + 1
        /\ UNCHANGED <<currentPageRead, currentReadLimit>>
    BY <1>7 DEF CopyByte, ReaderGoto
  <2>2. currentPageReadPtr # Null
    BY <1>3, <2>1
  <2>3. PICK b \in Nat : b = vAddr[1] /\ Len(vAddr) > 0
    BY <1>2, <1>3, <2>2
  <2>4. PICK k \in Nat : k = Len(delivered) /\ currentPageReadPtr = b + k
    BY <1>2, <1>3, <2>2, <2>3
  <2>5. k + 1 \in 1 .. OnFirst
    <3>1. CASE Len(vAddr) = 1
      <4>1. currentReadLimit = b + stored /\ OnFirst = stored
        BY <1>3, <2>1, <2>2, <2>3, <3>1 DEF OnFirst
      <4> QED
        BY <1>2, <2>1, <2>4, <4>1
    <3>2. CASE Len(vAddr) # 1
      <4>1. currentReadLimit = b + PAGE_SIZE /\ OnFirst = PAGE_SIZE
        BY <1>3, <2>1, <2>2, <2>3, <3>2 DEF OnFirst
      <4> QED
        BY <1>2, <2>1, <2>4, <4>1
    <3> QED
      BY <3>1, <3>2
  <2>6. mem[currentPageReadPtr] = k + 1
    <3>1. mem[b + (k + 1) - 1] = k + 1
      BY <1>1, <2>3, <2>5 DEF WrittenInv
    <3>2. b + (k + 1) - 1 = b + k
      OBVIOUS
    <3> QED
      BY <2>4, <3>1, <3>2
  <2>7. /\ delivered' = Append(delivered, k + 1) /\ Len(delivered') = k + 1
        /\ delivered'[k + 1] = k + 1
        /\ \A i \in 1 .. k : delivered'[i] = delivered[i]
    BY <1>2, <2>1, <2>4, <2>6
  <2>8. \A i \in 1 .. Len(delivered') : delivered'[i] = i
    <3>1. \A i \in 1 .. k + 1 : i \in 1 .. k \/ i = k + 1
      OBVIOUS
    <3>2. \A i \in 1 .. k : delivered'[i] = i
      BY <1>3, <2>4, <2>7
    <3> QED
      BY <2>7, <3>1, <3>2
  <2>9. PICK a \in Nat : currentPageReadPtr' = a /\ a = b + (k + 1) /\ a # Null /\ a <= currentReadLimit
    <3>1. b + k + 1 \in Nat /\ b + k + 1 = b + (k + 1) /\ b + k + 1 # 0 /\ b + k + 1 <= currentReadLimit
      BY <1>2, <2>1, <2>4
    <3> QED
      BY <2>1, <2>4, <3>1 DEF Null
  <2>10. b + stored - 0 = b + stored
    BY <1>2
  <2>11. /\ currentPageRead = 1
         /\ Len(vAddr) = 1 => currentReadLimit = b + stored
         /\ Len(vAddr) # 1 => currentReadLimit = b + PAGE_SIZE
    BY <1>3, <2>1, <2>2, <2>3
  <2> QED
    BY <1>0, <1>1, <2>1, <2>3, <2>7, <2>8, <2>9, <2>10, <2>11 DEF ReadInv
<1>8. CASE ReadNextPage
  BY <1>8 DEF ReadNextPage, Calm
<1>9. CASE ReadReturn
  <2>1. /\ UNCHANGED <<delivered, currentPageRead, currentPageReadPtr, currentReadLimit>>
        /\ rpc = "copy" /\ rpc' = "idle"
    BY <1>9 DEF ReadReturn, ReaderGoto, readVars
  <2>2. Unseen' = Unseen
    BY <1>1
  <2> QED
    BY <1>0, <1>1, <2>1, <2>2 DEF ReadInv
<1> QED
  BY <1>4, <1>5, <1>6, <1>7, <1>8, <1>9 DEF ReadStep

(* A call that starts while another is on is an overlap.                   *)
LEMMA OneCallStep ==
  ASSUME TypeInv, OneCall, BufferNext
  PROVE  OneCall'
<1> SUFFICES ASSUME Calm'
             PROVE  OneCall'
  BY DEF OneCall
<1>1. ASSUME NEW s \in Senders, AddCall(s) \/ AddStep(s)
      PROVE  OneCall'
  <2>1. UNCHANGED readerVars /\ \E to : SenderGoto(s, to)
    BY <1>1 DEF AddCall, AddStep, AllocateWritePage, AllocateWritePageFails, StoreByte, Advance,
                MoveReadLimit, AddReturn
  <2>2. rpc' = "idle" /\ \A t \in Senders : t # s => spc'[t] = "idle"
    BY <2>1, CalmSender
  <2> QED
    BY <2>2 DEF OneCall
<1>2. ASSUME ReadCall \/ ReadStep
      PROVE  OneCall'
  <2>1. UNCHANGED senderVars /\ \E to : ReaderGoto(to)
    BY <1>2 DEF ReadCall, ReadStep, ReadFirstPage, ReadFirstLimit, CopyByte, ReadNextPage, ReadReturn
  <2>2. ~crossed' => ~crossed
    BY <1>2, Zenon DEF ReadCall, ReadStep, ReadFirstPage, ReadFirstLimit, CopyByte, ReadNextPage,
                       ReadReturn
  <2>3. ~early' => ~early
    BY <1>2, Zenon DEF ReadCall, ReadStep, ReadFirstPage, ReadFirstLimit, CopyByte, ReadNextPage,
                       ReadReturn
  <2>4. \A t \in Senders : spc'[t] = "idle"
    BY <2>1, <2>2, <2>3, CalmReader
  <2> QED
    BY <2>4 DEF OneCall
<1> QED
  BY <1>1, <1>2 DEF BufferNext

(* What calm calls make of the buffer holds in every reachable state.      *)
THEOREM BufferCalmInvariant == BufferSpec => [](OneCall /\ WrittenInv /\ ReadInv)
<1>1. BufferInit => OneCall /\ WrittenInv /\ ReadInv
  <2> SUFFICES ASSUME BufferInit PROVE OneCall /\ WrittenInv /\ ReadInv
    OBVIOUS
  <2>1. OneCall
    BY DEF BufferInit, OneCall
  <2>2. Len(vAddr) = 0 /\ Len(delivered) = 0
    BY DEF BufferInit
  <2>3. WrittenInv
    BY <2>2 DEF BufferInit, WrittenInv
  <2>4. ReadInv
    BY <2>2 DEF BufferInit, ReadInv
  <2> QED
    BY <2>1, <2>3, <2>4
<1>2. /\ TypeInv /\ CountInv /\ PagesInv /\ OneCall /\ WrittenInv /\ ReadInv
      /\ [BufferNext]_bufferVars
      => (OneCall /\ WrittenInv /\ ReadInv)'
  <2> SUFFICES ASSUME TypeInv, CountInv, PagesInv, OneCall, WrittenInv, ReadInv,
                      [BufferNext]_bufferVars
               PROVE  (OneCall /\ WrittenInv /\ ReadInv)'
    OBVIOUS
  <2>1. CASE BufferNext
    <3>1. OneCall'
      BY <2>1, OneCallStep
    <3>2. ASSUME NEW s \in Senders, AddCall(s) \/ AddStep(s) PROVE WrittenInv' /\ ReadInv'
      BY <3>2, WrittenAdd, ReadAdd
    <3>3. ASSUME ReadCall \/ ReadStep PROVE WrittenInv' /\ ReadInv'
      BY <3>3, WrittenRead, ReadRead
    <3> QED
      BY <2>1, <3>1, <3>2, <3>3 DEF BufferNext
  <2>2. CASE UNCHANGED bufferVars
    <3>1. UNCHANGED <<vAddr, stored, mem, writeVars, spc, rpc, delivered, readVars, currentReadLimit>>
      BY <2>2 DEF bufferVars, pageVars, senderVars, readerVars
    <3>2. Calm' => Calm
      BY <2>2, Zenon DEF bufferVars, readerVars, Calm
    <3>3. Late' = Late /\ OnFirst' = OnFirst /\ Unseen' = Unseen
      BY <3>1 DEF Late, OnFirst, Unseen
    <3>4. OneCall'
      BY <3>1, <3>2 DEF OneCall
    <3>5. WrittenInv'
      BY <3>1, <3>2, <3>3 DEF WrittenInv, writeVars
    <3>6. ReadInv'
      BY <3>1, <3>2, <3>3 DEF ReadInv, readVars
    <3> QED
      BY <3>4, <3>5, <3>6
  <2> QED
    BY <2>1, <2>2
<1> QED
  BY <1>1, <1>2, BufferInvariant, PTL DEF BufferSpec

(* The bytes come out of ReadBytes in the order AddBytes was given them,   *)
(* each once, while the calls do not overlap and the reader is on its      *)
(* first page.                                                             *)
THEOREM BufferDeliveredInOrder == BufferSpec => []DeliveredInOrder
<1>1. TypeInv /\ CountInv /\ WrittenInv /\ ReadInv => DeliveredInOrder
  <2> SUFFICES ASSUME TypeInv, CountInv, WrittenInv, ReadInv, Calm
               PROVE  /\ Len(delivered) <= stored
                      /\ \A i \in 1 .. Len(delivered) : delivered[i] = i
    BY DEF DeliveredInOrder
  <2>1. \A i \in 1 .. Len(delivered) : delivered[i] = i
    BY DEF ReadInv
  <2>2. /\ stored \in Nat /\ currentPageReadPtr \in Nat /\ currentReadLimit \in Nat
        /\ PAGE_SIZE \in Nat /\ Unseen \in {0, 1}
    BY CountFacts DEF Unseen
  <2>3. CASE delivered = <<>>
    BY <2>1, <2>2, <2>3
  <2>4. CASE delivered # <<>>
    <3>1. currentPageReadPtr # Null /\ rpc # "limit"
      BY <2>4 DEF ReadInv
    <3>2. PICK b \in Nat : b = vAddr[1] /\ Len(vAddr) > 0
      BY <3>1, PagesApart, SMTT(40) DEF ReadInv, TypeInv
    <3>3. PICK k \in Nat : k = Len(delivered) /\ currentPageReadPtr = b + k
      BY <3>1, <3>2 DEF ReadInv, TypeInv
    <3>4. currentPageReadPtr <= currentReadLimit
      BY <3>1 DEF ReadInv
    <3>5. CASE Len(vAddr) = 1
      <4>1. currentReadLimit = b + stored - Unseen
        BY <3>1, <3>2, <3>5 DEF ReadInv
      <4> QED
        BY <2>1, <2>2, <3>3, <3>4, <4>1
    <3>6. CASE Len(vAddr) # 1
      <4>1. currentReadLimit = b + PAGE_SIZE
        BY <3>1, <3>2, <3>6 DEF ReadInv
      <4>2. PICK n \in Nat : n = Len(vAddr)
        BY DEF TypeInv
      <4>3. n > 1
        BY <3>2, <3>6, <4>2
      <4>4. stored >= PAGE_SIZE
        BY <4>2, <4>3 DEF WrittenInv
      <4> QED
        BY <2>1, <2>2, <3>3, <3>4, <4>1, <4>4
    <3> QED
      BY <3>5, <3>6
  <2> QED
    BY <2>3, <2>4
<1> QED
  BY <1>1, BufferInvariant, BufferCalmInvariant, PTL

(* ReadBytes that returns less than it was asked for has emptied the       *)
(* buffer, in the same conditions.                                         *)
THEOREM BufferShortReadDrains == BufferSpec => ShortReadDrains
<1>1. /\ TypeInv /\ CountInv /\ OneCall /\ ReadInv
      => [(Calm /\ ReadReturn /\ localSize > 0) => Len(delivered) = stored]_bufferVars
  <2> SUFFICES ASSUME TypeInv, CountInv, OneCall, ReadInv, Calm, ReadReturn, localSize > 0
               PROVE  Len(delivered) = stored
    OBVIOUS
  <2>1. rpc = "copy" /\ currentPageReadPtr >= currentReadLimit /\ currentPageWrite = currentPageRead
    <3>1. localSize # 0
      BY DEF TypeInv
    <3> QED
      BY <3>1 DEF ReadReturn
  <2>2. Unseen = 0
    <3>1. \A s \in Senders : spc[s] = "idle"
      BY <2>1 DEF OneCall
    <3> QED
      BY <3>1 DEF Unseen
  <2>3. /\ currentPageReadPtr # Null /\ currentPageRead = 1 /\ Len(vAddr) > 0
        /\ currentPageReadPtr <= currentReadLimit
    BY <2>1 DEF ReadInv
  <2>4. Len(vAddr) = 1
    BY <2>1, <2>3 DEF TypeInv
  <2>5. PICK b \in Nat : b = vAddr[1]
    BY <2>4, PagesApart
  <2>6. PICK k \in Nat : k = Len(delivered) /\ currentPageReadPtr = b + k
    BY <2>3, <2>5 DEF ReadInv, TypeInv
  <2>7. currentReadLimit = b + stored - Unseen
    BY <2>1, <2>3, <2>4, <2>5 DEF ReadInv
  <2>8. stored \in Nat /\ currentPageReadPtr \in Nat /\ currentReadLimit \in Nat
    BY CountFacts
  <2> QED
    BY <2>1, <2>2, <2>3, <2>6, <2>7, <2>8
<1> QED
  BY <1>1, BufferInvariant, BufferCalmInvariant, PTL DEF ShortReadDrains

=============================================================================
