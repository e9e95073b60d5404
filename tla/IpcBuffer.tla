------------------------------ MODULE IpcBuffer ------------------------------
(***************************************************************************)
(* The byte stream between the clients and the server of an IPC object     *)
(* (kernel/task/Ipc/IpcBuffer.cpp): AddBytes writes a message in a list of *)
(* pages of the page pool, ReadBytes takes bytes from it.  The section     *)
(* that should exclude them is not entered by the senders (see Ipc), so    *)
(* the calls are cut at the statements that touch the buffer.              *)
(*                                                                         *)
(* A pointer is an integer: page p of the pool is at p * PAGE_SIZE, the    *)
(* null pointer is 0, and a byte is the rank at which it was stored.       *)
(***************************************************************************)
EXTENDS Integers, Sequences, FiniteSets

CONSTANTS
  Senders,      (* threads that call AddBytes                             *)
  PAGE_SIZE,
  NbPages,      (* pages of the page pool                                 *)
  MessageSizes, (* the sizes given to AddBytes                            *)
  ReadSizes,    (* the sizes given to ReadBytes                           *)
  MaxBytes,     (* bound: bytes given to AddBytes in one behaviour        *)
  MaxPages,     (* bound: pages allocated in one behaviour                *)
  MaxRead       (* bound: bytes asked from ReadBytes in one behaviour     *)

ASSUME BufferAssumption ==
  /\ IsFiniteSet(Senders) /\ Senders # {}
  /\ {PAGE_SIZE, NbPages, MaxBytes, MaxPages, MaxRead} \subseteq Nat \ {0}
  /\ MessageSizes \cup ReadSizes \subseteq Nat \ {0}

Null == 0

(* Where a Page read at the address 0 says its memory is.                  *)
WildAddr == (NbPages + 1) * PAGE_SIZE

(* The addresses the pointers may take: senders that overlap may leave the *)
(* write pointer behind the page, the limit of a reader takes its value,   *)
(* and moves with every byte added.                                        *)
Addr == 0 .. (NbPages + 2) * PAGE_SIZE + 2 * MaxBytes

VARIABLES
  vAddr,                  (* Page::vAddr of each Page object ever created *)
  pagesList,              (* the Page objects of the buffer, oldest first *)
  currentPageWrite, currentPageRead,        (* Page objects, or Null      *)
  currentPageWritePtr, currentPageReadPtr,
  currentWriteLimit, currentReadLimit,
  mem,                    (* the bytes in memory, 0 when never written    *)
  freePages,              (* pages the page pool can give                 *)
  spc, remainingBytes,    (* where each AddBytes is, and its local        *)
  rpc, localSize,         (* where ReadBytes is, and its local            *)
  stored, delivered,      (* history: bytes stored, bytes copied out      *)
  asked, requested,       (* bytes given to AddBytes, asked from ReadBytes*)
  overlap,                (* history: two calls overlapped                *)
  crossed,                (* history: ReadBytes removed a page            *)
  early                   (* history: ReadBytes ran before any AddBytes   *)

writeVars == <<currentPageWrite, currentPageWritePtr, currentWriteLimit>>
readVars == <<currentPageRead, currentPageReadPtr>>
pageVars == <<vAddr, pagesList, freePages>>
senderVars == <<spc, remainingBytes, stored, asked>>
readerVars == <<rpc, localSize, delivered, requested, crossed, early>>
bufferVars == <<writeVars, readVars, currentReadLimit, pageVars, mem,
                senderVars, readerVars, overlap>>

BufferInit ==
  /\ vAddr = <<>> /\ pagesList = <<>>
  /\ currentPageWrite = Null /\ currentPageRead = Null
  /\ currentPageWritePtr = Null /\ currentPageReadPtr = Null
  /\ currentWriteLimit = Null /\ currentReadLimit = Null
  /\ mem = [a \in Addr |-> 0]
  /\ freePages = 1 .. NbPages
  /\ spc = [s \in Senders |-> "idle"] /\ remainingBytes = [s \in Senders |-> 0]
  /\ rpc = "idle" /\ localSize = 0
  /\ stored = 0 /\ delivered = <<>> /\ asked = 0 /\ requested = 0
  /\ overlap = FALSE /\ crossed = FALSE /\ early = FALSE

SenderGoto(s, to) ==
  /\ spc' = [spc EXCEPT ![s] = to]
  /\ overlap' = (overlap \/ rpc # "idle" \/ \E t \in Senders \ {s} : spc[t] # "idle")

ReaderGoto(to) ==
  /\ rpc' = to
  /\ overlap' = (overlap \/ \E s \in Senders : spc[s] # "idle")

-----------------------------------------------------------------------------
(* AddBytes(message, size), once its parameters are accepted.              *)
AddCall(s) ==
  /\ spc[s] = "idle"
  /\ \E size \in MessageSizes :
       /\ asked + size <= MaxBytes
       /\ asked' = asked + size
       /\ remainingBytes' = [remainingBytes EXCEPT ![s] = size]
  /\ SenderGoto(s, IF currentPageWritePtr = Null THEN "page" ELSE "store")
  /\ UNCHANGED <<stored, writeVars, readVars, currentReadLimit, pageVars, mem, readerVars>>

(* AllocateWritePage, before the first byte or when the page is full.      *)
NeedsPage(s) ==
  \/ spc[s] = "page"
  \/ /\ spc[s] = "store" /\ remainingBytes[s] > 0
     /\ currentPageWritePtr >= currentWriteLimit

(* Mutant of AllocateWritePage: the page is put at the wrong end.          *)
AllocateWritePageFront(s) ==
  /\ NeedsPage(s)
  /\ Len(vAddr) < MaxPages
  /\ \E p \in freePages :
       /\ freePages' = freePages \ {p}
       /\ vAddr' = Append(vAddr, p * PAGE_SIZE)
       /\ currentPageWritePtr' = p * PAGE_SIZE
       /\ currentWriteLimit' = (p + 1) * PAGE_SIZE
  /\ currentPageWrite' = Len(vAddr')
  /\ pagesList' = <<currentPageWrite'>> \o pagesList
  /\ SenderGoto(s, "store")
  /\ UNCHANGED <<remainingBytes, stored, asked, readVars, currentReadLimit, mem, readerVars>>

AllocateWritePage(s) ==
  /\ NeedsPage(s)
  /\ Len(vAddr) < MaxPages
  /\ \E p \in freePages :
       /\ freePages' = freePages \ {p}
       /\ vAddr' = Append(vAddr, p * PAGE_SIZE)
       /\ currentPageWritePtr' = p * PAGE_SIZE
       /\ currentWriteLimit' = (p + 1) * PAGE_SIZE
  /\ currentPageWrite' = Len(vAddr')
  /\ pagesList' = Append(pagesList, currentPageWrite')
  /\ SenderGoto(s, "store")
  /\ UNCHANGED <<remainingBytes, stored, asked, readVars, currentReadLimit, mem, readerVars>>

(* The pool, or the heap, has nothing left: AddBytes returns without a     *)
(* signal and what it has stored of the message stays in the buffer.       *)
AllocateWritePageFails(s) ==
  /\ NeedsPage(s)
  /\ SenderGoto(s, "idle")
  /\ remainingBytes' = [remainingBytes EXCEPT ![s] = 0]
  /\ UNCHANGED <<stored, asked, writeVars, readVars, currentReadLimit, pageVars, mem, readerVars>>

(* *currentPageWritePtr = *localMessage                                    *)
StoreByte(s) ==
  /\ spc[s] = "store"
  /\ remainingBytes[s] > 0
  /\ currentPageWritePtr < currentWriteLimit
  /\ stored' = stored + 1
  /\ mem' = [mem EXCEPT ![currentPageWritePtr] = stored']
  /\ SenderGoto(s, "advance")
  /\ UNCHANGED <<remainingBytes, asked, writeVars, readVars, currentReadLimit, pageVars, readerVars>>

(* Mutant of Advance: the pointer stays.                                   *)
AdvanceNot(s) ==
  /\ spc[s] = "advance"
  /\ remainingBytes' = [remainingBytes EXCEPT ![s] = @ - 1]
  /\ SenderGoto(s, "limit")
  /\ UNCHANGED <<currentPageWritePtr, currentPageWrite, currentWriteLimit, stored, asked,
                 readVars, currentReadLimit, pageVars, mem, readerVars>>

(* currentPageWritePtr++; localMessage++; remainingBytes--                 *)
Advance(s) ==
  /\ spc[s] = "advance"
  /\ currentPageWritePtr' = currentPageWritePtr + 1
  /\ remainingBytes' = [remainingBytes EXCEPT ![s] = @ - 1]
  /\ SenderGoto(s, "limit")
  /\ UNCHANGED <<currentPageWrite, currentWriteLimit, stored, asked,
                 readVars, currentReadLimit, pageVars, mem, readerVars>>

(* Mutant of MoveReadLimit: the reader does not see the new byte.          *)
MoveReadLimitNot(s) ==
  /\ spc[s] = "limit"
  /\ SenderGoto(s, "store")
  /\ UNCHANGED <<currentReadLimit, remainingBytes, stored, asked, writeVars, readVars,
                 pageVars, mem, readerVars>>

(* if (currentPageWrite == currentPageRead) currentReadLimit++             *)
MoveReadLimit(s) ==
  /\ spc[s] = "limit"
  /\ currentReadLimit' = IF currentPageWrite = currentPageRead
                           THEN currentReadLimit + 1 ELSE currentReadLimit
  /\ SenderGoto(s, "store")
  /\ UNCHANGED <<remainingBytes, stored, asked, writeVars, readVars, pageVars, mem, readerVars>>

(* EventSignal(&ReadyToReadEvent) and the return; Event is where the event *)
(* is modelled.                                                            *)
AddReturn(s) ==
  /\ spc[s] = "store"
  /\ remainingBytes[s] = 0
  /\ SenderGoto(s, "idle")
  /\ UNCHANGED <<remainingBytes, stored, asked, writeVars, readVars, currentReadLimit,
                 pageVars, mem, readerVars>>

-----------------------------------------------------------------------------
(* ReadBytes(buffer, size), once its parameters are accepted.              *)
ReadCall ==
  /\ rpc = "idle"
  /\ \E size \in ReadSizes :
       /\ requested + size <= MaxRead
       /\ requested' = requested + size
       /\ localSize' = size
  /\ ReaderGoto(IF currentPageReadPtr = Null THEN "first" ELSE "copy")
  /\ UNCHANGED <<delivered, crossed, early, writeVars, readVars, currentReadLimit,
                 pageVars, mem, senderVars>>

(* The address of a page: the Page at 0, which the kernel maps, holds      *)
(* whatever the interrupt vectors of the BIOS hold, zero or not.           *)
AddressOf(page) == IF page = Null THEN {Null, WildAddr} ELSE {vAddr[page]}

(* ListTop: the first element, or nullptr.                                 *)
ListTop(list) == IF list = <<>> THEN Null ELSE Head(list)

(* ListPop: without its first element, if it has one.                      *)
ListPop(list) == IF list = <<>> THEN <<>> ELSE Tail(list)

(* currentPageRead and currentPageReadPtr take the oldest page.            *)
ReadFirstPage ==
  /\ rpc = "first"
  /\ currentPageRead' = ListTop(pagesList)
  /\ currentPageReadPtr' \in AddressOf(currentPageRead')
  /\ early' = (early \/ pagesList = <<>>)
  /\ ReaderGoto("limit")
  /\ UNCHANGED <<localSize, delivered, requested, crossed, writeVars, currentReadLimit,
                 pageVars, mem, senderVars>>

(* currentReadLimit: the write pointer on the page being written, the end  *)
(* of the page otherwise.                                                  *)
ReadFirstLimit ==
  /\ rpc = "limit"
  /\ currentReadLimit' = IF currentPageRead = currentPageWrite
                           THEN currentPageWritePtr
                           ELSE currentPageReadPtr + PAGE_SIZE
  /\ ReaderGoto("copy")
  /\ UNCHANGED <<localSize, delivered, requested, crossed, early, writeVars, readVars,
                 pageVars, mem, senderVars>>

(* *localBuffer = *currentPageReadPtr, and the increments.                 *)
CopyByte ==
  /\ rpc = "copy"
  /\ localSize > 0
  /\ currentPageReadPtr < currentReadLimit
  /\ delivered' = Append(delivered, mem[currentPageReadPtr])
  /\ currentPageReadPtr' = currentPageReadPtr + 1
  /\ localSize' = localSize - 1
  /\ ReaderGoto("copy")
  /\ UNCHANGED <<requested, crossed, early, currentPageRead, writeVars, currentReadLimit,
                 pageVars, mem, senderVars>>

(* The page is read to its limit and more is wanted: the oldest page is    *)
(* removed and released, and the next one is read to its end.              *)
(* currentPageRead keeps pointing to the first page ever read.             *)
ReadNextPage ==
  /\ rpc = "copy"
  /\ localSize > 0
  /\ currentPageReadPtr >= currentReadLimit
  /\ currentPageWrite # currentPageRead
  /\ pagesList' = ListPop(pagesList)
  /\ freePages' = IF pagesList = <<>> THEN freePages
                    ELSE freePages \cup {vAddr[Head(pagesList)] \div PAGE_SIZE}
  /\ currentPageReadPtr' \in AddressOf(ListTop(pagesList'))
  /\ currentReadLimit' = currentPageReadPtr' + PAGE_SIZE
  /\ crossed' = TRUE
  /\ ReaderGoto("copy")
  /\ UNCHANGED <<localSize, delivered, requested, early, currentPageRead, vAddr, writeVars,
                 mem, senderVars>>

(* Mutant of ReadReturn: a short read is not allowed.                      *)
ReadReturnFull ==
  /\ rpc = "copy"
  /\ localSize = 0
  /\ ReaderGoto("idle")
  /\ UNCHANGED <<localSize, delivered, requested, crossed, early, writeVars, readVars,
                 currentReadLimit, pageVars, mem, senderVars>>

(* Everything was copied, or the page being written has nothing more.      *)
ReadReturn ==
  /\ rpc = "copy"
  /\ \/ localSize = 0
     \/ currentPageReadPtr >= currentReadLimit /\ currentPageWrite = currentPageRead
  /\ ReaderGoto("idle")
  /\ UNCHANGED <<localSize, delivered, requested, crossed, early, writeVars, readVars,
                 currentReadLimit, pageVars, mem, senderVars>>

-----------------------------------------------------------------------------
AddStep(s) ==
  \/ AllocateWritePage(s) \/ AllocateWritePageFails(s)
  \/ StoreByte(s) \/ Advance(s) \/ MoveReadLimit(s) \/ AddReturn(s)

ReadStep == ReadFirstPage \/ ReadFirstLimit \/ CopyByte \/ ReadNextPage \/ ReadReturn

BufferNext ==
  \/ \E s \in Senders : AddCall(s) \/ AddStep(s)
  \/ ReadCall
  \/ ReadStep

BufferSpec == BufferInit /\ [][BufferNext]_bufferVars

(* A thread inside a call goes on with it (EveryThreadRuns of Scheduler).  *)
BufferFairSpec ==
  /\ BufferSpec
  /\ WF_bufferVars(ReadStep)
  /\ \A s \in Senders : WF_bufferVars(AddStep(s))

-----------------------------------------------------------------------------
BufferTypeOK ==
  /\ vAddr \in Seq(Addr) /\ Len(vAddr) <= MaxPages
  /\ pagesList \in Seq(1 .. MaxPages)
  /\ {currentPageWrite, currentPageRead} \subseteq 0 .. MaxPages
  /\ currentWriteLimit \in 0 .. (NbPages + 1) * PAGE_SIZE
  /\ currentPageWritePtr \in 0 .. (NbPages + 1) * PAGE_SIZE + Cardinality(Senders) - 1
  /\ {currentPageReadPtr, currentReadLimit} \subseteq Addr
  /\ mem \in [Addr -> 0 .. MaxBytes]
  /\ freePages \subseteq 1 .. NbPages
  /\ remainingBytes \in [Senders -> 0 .. MaxBytes]
  /\ localSize \in 0 .. MaxRead

(* Nothing has happened yet that the buffer does not survive.              *)
Calm == ~overlap /\ ~crossed /\ ~early

(* The bytes come out in the order they went in, each once, as long as     *)
(* calls do not overlap, the reader has not left its first page and has    *)
(* not run before the first message.                                       *)
DeliveredInOrder ==
  Calm => /\ Len(delivered) <= stored
          /\ \A i \in 1 .. Len(delivered) : delivered[i] = i

(* In the same conditions a short read means that the buffer is empty: no  *)
(* stored byte is kept from the reader.                                    *)
ShortReadDrains ==
  [][(Calm /\ ReadReturn /\ localSize > 0) => Len(delivered) = stored]_bufferVars

(* Until a page is removed by the reader, the page being written is the    *)
(* last of the list, it is not in the pool, and no other page is shared;   *)
(* the pointers never leave the pages and their guard, even if they did.   *)
WriterOwnsLastPage ==
  /\ BufferTypeOK
  /\ ~crossed =>
       /\ pagesList # <<>> => currentPageWrite = pagesList[Len(pagesList)]
       /\ \A i, j \in 1 .. Len(pagesList) :
            /\ vAddr[pagesList[i]] \div PAGE_SIZE \notin freePages
            /\ vAddr[pagesList[i]] = vAddr[pagesList[j]] => i = j

(* Every AddBytes and every ReadBytes ends, in whatever state the reader   *)
(* left the buffer.                                                        *)
BufferCallsEnd ==
  /\ (rpc # "idle") ~> (rpc = "idle")
  /\ \A s \in Senders : (spc[s] # "idle") ~> (spc[s] = "idle")

=============================================================================
