-------------------------------- MODULE Disk --------------------------------
(***************************************************************************)
(* Reading an ext2 disk (userland/system/LtFsService/src/Ext2.cpp) through *)
(* the programmed I/O of an ATA drive (AtaDriver.cpp).                     *)
(*                                                                         *)
(* A byte of the disk is known by its address.  The drive reads a sector   *)
(* or reports an error, each time it is asked; it knows no sector behind   *)
(* the last one.  The state follows the calls: the operation of the file   *)
(* system, the place in the pointers of a file, the read of the drive.     *)
(* Writing is not modelled: nothing writes.                                *)
(***************************************************************************)
EXTENDS Integers, Sequences, FiniteSets

CONSTANTS
  SectorSize,       (* ATA_BLOCK_SIZE                                      *)
  BlockSize,        (* disk->blockSize, here MBR_RESERVED_SIZE             *)
  PtrsPerBlock,     (* blockSize / sizeof(u32)                             *)
  DirectPtrs,       (* INODE_NB_DIRECT_PTR                                 *)
  InodeStruct,      (* sizeof(Ext2Inode)                                   *)
  InodeSizes,       (* superBlock->inodeSize of the disks                  *)
  InodesPerGroup,
  InodeTable,       (* for each group, the block of its inode table        *)
  FileInodes,       (* for each number, the inode: [size, block]           *)
  Pointers,         (* for each block of pointers, the pointers            *)
  NbSectors,        (* sectors of the drive                                *)
  MaxErrors,        (* a sector is given up after more than MaxErrors      *)
  MaxLeaks          (* bound: nothing is begun after so many failed reads  *)

ASSUME DiskAssumption ==
  /\ SectorSize \in Nat \ {0} /\ BlockSize \in Nat \ {0} /\ BlockSize % SectorSize = 0
  /\ InodesPerGroup \in Nat \ {0} /\ MaxErrors \in Nat /\ MaxLeaks \in Nat
  /\ DirectPtrs \in Nat /\ PtrsPerBlock \in Nat
  /\ InodeStruct \in Nat /\ InodeSizes \subseteq Nat /\ InodeTable \in Seq(Nat)

(* The pointers of a disk are numbers of its blocks, 0 among them; direct  *)
(* ones are followed by a singly, a doubly and a triply indirect one.      *)
ASSUME PointersAssumption ==
  /\ DOMAIN Pointers \subseteq Nat /\ 0 \in DOMAIN Pointers
  /\ Pointers \in [DOMAIN Pointers -> [1 .. PtrsPerBlock -> DOMAIN Pointers]]
  /\ DOMAIN FileInodes \subseteq 1 .. Len(InodeTable) * InodesPerGroup
  /\ \A n \in DOMAIN FileInodes :
       FileInodes[n] \in [size : Nat, block : [1 .. DirectPtrs + 3 -> DOMAIN Pointers]]

(* Inodes have a place of their own each.                                  *)
ASSUME TablesAssumption ==
  \A s \in InodeSizes : \A g, h \in 1 .. Len(InodeTable), k, l \in 0 .. InodesPerGroup - 1 :
    InodeTable[g] * BlockSize + k * s = InodeTable[h] * BlockSize + l * s => g = h /\ k = l

VARIABLES
  inodeSize,    (* superBlock->inodeSize                                   *)
  mounted,      (* gExt2Disk: none, ok, failed                             *)
  op,           (* operation of the file system: [kind, num]               *)
  st,           (* Ext2ReadFile: [phase, i, j, left, singly, doubly]       *)
  content,      (* fileContent: the addresses of the bytes copied to it    *)
  ata,          (* AtaRead: [state, dst, offset, size, sector, errors]     *)
  irq,          (* interrupts are enabled                                  *)
  bufs,         (* buffers of the heap that the operation holds            *)
  kept,         (* buffers that finished operations handed out             *)
  leaks,        (* sector buffers that nobody will free                    *)
  inodes,       (* inodes that were read: number and inode                 *)
  files,        (* files that were read: number and content                *)
  overrun,      (* history: what bytes were copied behind                  *)
  failed        (* history: the last read of the drive failed              *)

diskVars == <<inodeSize, mounted, op, st, content, ata, irq, bufs, kept, leaks,
              inodes, files, overrun, failed>>
resultVars == <<mounted, kept, inodes, files>>

Idle == [kind |-> "idle", num |-> 0]
NoFile == [phase |-> "none", i |-> 0, j |-> 0, left |-> 0, singly |-> 0, doubly |-> 0]
NoRead == [state |-> "none", dst |-> "none", offset |-> 0, size |-> 0, sector |-> 0, errors |-> 0]

DiskInit ==
  /\ inodeSize \in InodeSizes
  /\ mounted = "none" /\ op = Idle /\ st = NoFile /\ content = <<>>
  /\ ata = NoRead /\ irq = TRUE
  /\ bufs = {} /\ kept = 0 /\ leaks = 0
  /\ inodes = {} /\ files = {}
  /\ overrun = {} /\ failed = FALSE

-----------------------------------------------------------------------------
(* AtaDriver                                                               *)

(* AtaRead begins: room for the sectors, then interrupts are disabled.     *)
AtaRead(dst, offset, size) ==
  /\ ata' = [state |-> "busy", dst |-> dst, offset |-> offset, size |-> size,
             sector |-> 0, errors |-> 0]
  /\ irq' = FALSE

(* Mutant of NbBlocks: the sector in which the range ends is missing.      *)
NbBlocksShort(offset, size) ==
  (offset + size) \div SectorSize - offset \div SectorSize

(* The sectors to read: also the one behind a range that ends with one.    *)
NbBlocks(offset, size) ==
  (offset + size) \div SectorSize - offset \div SectorSize + 1

Lba == ata.offset \div SectorSize + ata.sector

(* AtaReadSectorPio: a sector was read.                                    *)
SectorRead ==
  /\ ata.state = "busy" /\ ata.sector < NbBlocks(ata.offset, ata.size)
  /\ Lba < NbSectors
  /\ ata' = [ata EXCEPT !.sector = @ + 1, !.errors = 0]
  /\ UNCHANGED <<inodeSize, op, st, content, irq, bufs, leaks, resultVars, overrun, failed>>

(* Mutant of Counted: errors are not counted.                              *)
CountedNot(n) == n

Counted(n) == n + 1

(* AtaWait found an error, a fault or no data: the sector is asked again.  *)
SectorRetry ==
  /\ ata.state = "busy" /\ ata.sector < NbBlocks(ata.offset, ata.size)
  /\ Counted(ata.errors) <= MaxErrors
  /\ ata' = [ata EXCEPT !.errors = Counted(@)]
  /\ UNCHANGED <<inodeSize, op, st, content, irq, bufs, leaks, resultVars, overrun, failed>>

(* Once too often: -EIO.  AtaRead returns at once, with the interrupts     *)
(* disabled and its buffer allocated.                                      *)
SectorGivenUp ==
  /\ ata.state = "busy" /\ ata.sector < NbBlocks(ata.offset, ata.size)
  /\ Counted(ata.errors) > MaxErrors
  /\ ata' = [ata EXCEPT !.state = "eio"]
  /\ leaks' = leaks + 1
  /\ failed' = TRUE
  /\ UNCHANGED <<inodeSize, op, st, content, irq, bufs, resultVars, overrun>>

(* The size of the destination of the read.                                *)
RoomOf(dst) == IF dst = "inode" THEN InodeStruct ELSE ata.size

(* Mutant of Enabled: the interrupts stay as they are.                     *)
EnabledNot == irq

(* ENABLE_IRQ                                                              *)
Enabled == TRUE

(* All sectors were read: the range is copied, the buffer is freed.        *)
AtaReadEnds ==
  /\ ata.state = "busy" /\ ata.sector = NbBlocks(ata.offset, ata.size)
  /\ ata' = [ata EXCEPT !.state = "ok"]
  /\ irq' = Enabled
  /\ overrun' = overrun
        \cup (IF ata.size > RoomOf(ata.dst) THEN {"destination"} ELSE {})
        \cup (IF (ata.offset % SectorSize) + ata.size > ata.sector * SectorSize
              THEN {"sectors"} ELSE {})
  /\ failed' = FALSE
  /\ UNCHANGED <<inodeSize, op, st, content, bufs, leaks, resultVars>>

-----------------------------------------------------------------------------
(* Ext2                                                                    *)

Begins == ata = NoRead /\ op = Idle /\ leaks < MaxLeaks

(* AtaIdentify: there is no drive.                                         *)
AtaInitFails ==
  /\ Begins /\ mounted = "none"
  /\ mounted' = "failed"
  /\ UNCHANGED <<inodeSize, op, st, content, ata, irq, bufs, kept, leaks, inodes, files, overrun, failed>>

(* Ext2ReadDiskOnDevice, ReadSuperBlock: offset and size change places in  *)
(* the call, and are the same.                                             *)
ReadSuperBlock ==
  /\ Begins /\ mounted = "none"
  /\ op' = [kind |-> "super", num |-> 0]
  /\ bufs' = {"disk", "super"}
  /\ AtaRead("super", BlockSize, BlockSize)
  /\ UNCHANGED <<inodeSize, st, content, leaks, resultVars, overrun, failed>>

(* ReadGroupDesc: behind the super block; for each group a descriptor (of  *)
(* the size of a pointer here).                                            *)
ReadGroupDesc ==
  /\ op.kind = "super" /\ ata.state = "ok"
  /\ op' = [kind |-> "group", num |-> 0]
  /\ bufs' = bufs \cup {"group"}
  /\ AtaRead("group", 2 * BlockSize, Len(InodeTable))
  /\ UNCHANGED <<inodeSize, st, content, leaks, resultVars, overrun, failed>>

(* The end of every operation: what is still held is freed.                *)
Cleaned == {}

(* The operation hands out the buffers h.                                  *)
Return(h) ==
  /\ op' = Idle /\ ata' = NoRead
  /\ bufs' = Cleaned
  /\ kept' = kept + h

MountEnds ==
  /\ op.kind = "group" /\ ata.state = "ok"
  /\ mounted' = "ok"
  /\ Return(3)
  /\ UNCHANGED <<inodeSize, st, content, irq, leaks, inodes, files, overrun, failed>>

MountFails ==
  /\ op.kind \in {"super", "group"} /\ ata.state = "eio"
  /\ mounted' = "failed"
  /\ Return(0)
  /\ UNCHANGED <<inodeSize, st, content, irq, leaks, inodes, files, overrun, failed>>

(* Mutant of InodeOffset: inodes are numbered from zero.                   *)
InodeOffsetZero(num) ==
  InodeTable[(num - 1) \div InodesPerGroup + 1] * BlockSize + (num % InodesPerGroup) * inodeSize

(* Where Ext2ReadInode looks for an inode.                                 *)
InodeOffset(num) ==
  InodeTable[(num - 1) \div InodesPerGroup + 1] * BlockSize
  + ((num - 1) % InodesPerGroup) * inodeSize

Ext2ReadInode(num) ==
  /\ Begins /\ mounted = "ok" /\ num \notin {r.num : r \in inodes}
  /\ op' = [kind |-> "inode", num |-> num]
  /\ bufs' = {"inode"}
  /\ AtaRead("inode", InodeOffset(num), inodeSize)
  /\ UNCHANGED <<inodeSize, st, content, leaks, resultVars, overrun, failed>>

(* The inode that is at an address of the disk: tables are filled from     *)
(* their first byte, one inode after the other.                            *)
InodeAt(offset) ==
  FileInodes[CHOOSE n \in DOMAIN FileInodes :
    \E g \in 1 .. Len(InodeTable), k \in 0 .. InodesPerGroup - 1 :
      /\ n = (g - 1) * InodesPerGroup + k + 1
      /\ offset = InodeTable[g] * BlockSize + k * inodeSize]

InodeEnds ==
  /\ op.kind = "inode" /\ ata.state = "ok"
  /\ inodes' = inodes \cup {[num |-> op.num, inode |-> InodeAt(ata.offset)]}
  /\ Return(1)
  /\ UNCHANGED <<inodeSize, mounted, st, content, irq, leaks, files, overrun, failed>>

InodeFails ==
  /\ op.kind = "inode" /\ ata.state = "eio"
  /\ Return(0)
  /\ UNCHANGED <<inodeSize, mounted, st, content, irq, leaks, inodes, files, overrun, failed>>

-----------------------------------------------------------------------------
(* Ext2ReadFile: the direct pointers, the pointers of the singly indirect  *)
(* block, those of the blocks of the doubly indirect one.                  *)

Inode == (CHOOSE r \in inodes : r.num = op.num).inode
Singly == Inode.block[DirectPtrs + 1]
Doubly == Inode.block[DirectPtrs + 2]

Ext2ReadFile(num) ==
  /\ Begins
  /\ \E r \in inodes :
       /\ r.num = num
       /\ st' = [NoFile EXCEPT !.phase = "direct", !.left = r.inode.size]
  /\ num \notin {r.num : r \in files}
  /\ op' = [kind |-> "file", num |-> num]
  /\ content' = <<>>
  /\ bufs' = {"content", "block"}
  /\ UNCHANGED <<inodeSize, ata, irq, leaks, resultVars, overrun, failed>>

InFile(phase) == op.kind = "file" /\ ata = NoRead /\ st.phase = phase

(* A block is read into buffer dst, which is allocated if it is not yet.   *)
ReadBlock(dst, b) ==
  /\ bufs' = bufs \cup {dst}
  /\ AtaRead(dst, b * BlockSize, BlockSize)
  /\ UNCHANGED <<inodeSize, op, content, leaks, resultVars, overrun, failed>>

GoTo(phase) ==
  /\ st' = [st EXCEPT !.phase = phase, !.i = 0, !.j = 0]
  /\ UNCHANGED <<inodeSize, op, content, ata, irq, bufs, leaks, resultVars, overrun, failed>>

HasDirect == st.i < DirectPtrs /\ Inode.block[st.i + 1] # 0
HasSingly == st.i < PtrsPerBlock /\ Pointers[st.singly][st.i + 1] # 0
HasDoubly == st.j < PtrsPerBlock /\ Pointers[st.doubly][st.j + 1] # 0

DirectBlock ==
  /\ InFile("direct") /\ HasDirect
  /\ ReadBlock("block", Inode.block[st.i + 1]) /\ UNCHANGED st

SinglyBlock ==
  /\ InFile("direct") /\ ~HasDirect
  /\ IF Singly = 0 THEN GoTo("double")
     ELSE /\ st' = [st EXCEPT !.phase = "singly", !.i = 0, !.singly = Singly]
          /\ ReadBlock("singly", Singly)

SinglyData ==
  /\ InFile("singly")
  /\ IF ~HasSingly THEN GoTo("double")
     ELSE ReadBlock("block", Pointers[st.singly][st.i + 1]) /\ UNCHANGED st

(* The doubly indirect block goes to the buffer of the singly indirect     *)
(* one, the blocks it points to to another.                                *)
DoublyBlock ==
  /\ InFile("double")
  /\ IF Doubly = 0 THEN GoTo("end")
     ELSE /\ st' = [st EXCEPT !.phase = "doubly", !.i = 0, !.singly = Doubly]
          /\ bufs' = bufs \cup {"singly", "doubly"}
          /\ AtaRead("singly", Doubly * BlockSize, BlockSize)
          /\ UNCHANGED <<inodeSize, op, content, leaks, resultVars, overrun, failed>>

DoublyPointers ==
  /\ InFile("doubly")
  /\ IF ~HasSingly THEN GoTo("end")
     ELSE LET b == Pointers[st.singly][st.i + 1]
          IN st' = [st EXCEPT !.phase = "doublydata", !.j = 0, !.doubly = b]
             /\ ReadBlock("doubly", b)

(* The block read for pointer j is the one of pointer i.                   *)
DoublyData ==
  /\ InFile("doublydata")
  /\ IF ~HasDoubly
     THEN /\ st' = [st EXCEPT !.phase = "doubly", !.i = @ + 1]
          /\ UNCHANGED <<inodeSize, op, content, ata, irq, bufs, leaks, resultVars, overrun, failed>>
     ELSE ReadBlock("block", Pointers[st.doubly][st.i + 1]) /\ UNCHANGED st

(* What is copied of a block: at most what is left of the file.            *)
CopySize(left) == IF left > BlockSize THEN BlockSize ELSE left

(* A block of the file was read: it is copied behind the ones before it.   *)
BlockRead ==
  /\ op.kind = "file" /\ ata.state = "ok" /\ ata.dst = "block"
  /\ LET n == CopySize(st.left)
     IN /\ content' = content \o [k \in 1 .. n |-> ata.offset + k - 1]
        /\ st' = [st EXCEPT !.left = @ - n,
                            !.i = IF st.phase = "doublydata" THEN @ ELSE @ + 1,
                            !.j = IF st.phase = "doublydata" THEN @ + 1 ELSE @]
  /\ ata' = NoRead
  /\ UNCHANGED <<inodeSize, op, irq, bufs, leaks, resultVars, overrun, failed>>

(* A block of pointers was read.                                           *)
PointersRead ==
  /\ op.kind = "file" /\ ata.state = "ok" /\ ata.dst \in {"singly", "doubly"}
  /\ ata' = NoRead
  /\ UNCHANGED <<inodeSize, op, st, content, irq, bufs, leaks, resultVars, overrun, failed>>

(* Triply indirect blocks are not supported: the file ends there.          *)
FileEnds ==
  /\ InFile("end")
  /\ files' = files \cup {[num |-> op.num, content |-> content]}
  /\ st' = NoFile /\ content' = <<>>
  /\ Return(1)
  /\ UNCHANGED <<inodeSize, mounted, irq, leaks, inodes, overrun, failed>>

FileFails ==
  /\ op.kind = "file" /\ ata.state = "eio"
  /\ st' = NoFile /\ content' = <<>>
  /\ Return(0)
  /\ UNCHANGED <<inodeSize, mounted, irq, leaks, inodes, files, overrun, failed>>

-----------------------------------------------------------------------------
Drive == SectorRead \/ SectorRetry \/ SectorGivenUp \/ AtaReadEnds

Reading ==
  \/ ReadGroupDesc \/ MountEnds \/ MountFails \/ InodeEnds \/ InodeFails
  \/ DirectBlock \/ SinglyBlock \/ SinglyData \/ DoublyBlock \/ DoublyPointers \/ DoublyData
  \/ BlockRead \/ PointersRead \/ FileEnds \/ FileFails

DiskNext ==
  \/ Drive \/ Reading
  \/ AtaInitFails \/ ReadSuperBlock
  \/ \E num \in DOMAIN FileInodes : Ext2ReadInode(num)
  \/ \E num \in DOMAIN FileInodes : Ext2ReadFile(num)

(* The drive is busy for a while only, the service goes on.                *)
DiskSpec == DiskInit /\ [][DiskNext]_diskVars /\ WF_diskVars(Drive) /\ WF_diskVars(Reading)

-----------------------------------------------------------------------------
(* Properties                                                              *)

(* Every variable has its type; no more is copied than the file holds.     *)
DiskTypeOK ==
  /\ mounted \in {"none", "ok", "failed"} /\ irq \in BOOLEAN
  /\ op.kind \in {"idle", "super", "group", "inode", "file"}
  /\ bufs \subseteq {"disk", "super", "group", "inode", "content", "block", "singly", "doubly"}
  /\ kept \in Nat /\ leaks \in 0 .. MaxLeaks
  /\ ata.errors \in 0 .. MaxErrors
  /\ st.left \in Nat /\ st.i \in 0 .. PtrsPerBlock + DirectPtrs /\ st.j \in 0 .. PtrsPerBlock
  /\ op.kind = "file" => Len(content) + st.left = Inode.size

(* Where pointer k of a block of pointers leads, 0 for nowhere.            *)
Under(b, k) == IF b = 0 THEN 0 ELSE Pointers[b][k]

(* Block k of a file: that of a direct pointer, a singly or a doubly       *)
(* indirect one.                                                           *)
BlockOf(f, k) ==
  LET single == k - DirectPtrs
      double == single - PtrsPerBlock - 1
  IN IF single <= 0 THEN f.block[k]
     ELSE IF double < 0 THEN Under(f.block[DirectPtrs + 1], single)
     ELSE Under(Under(f.block[DirectPtrs + 2], double \div PtrsPerBlock + 1),
                (double % PtrsPerBlock) + 1)

(* The file has no holes, and ends before the triply indirect blocks.      *)
Whole(f) ==
  \A k \in 1 .. (f.size + BlockSize - 1) \div BlockSize :
    /\ k <= DirectPtrs + PtrsPerBlock + PtrsPerBlock * PtrsPerBlock
    /\ BlockOf(f, k) # 0

(* What was copied are the bytes of the blocks of the file, in their       *)
(* order, as far as the first block behind the doubly indirect pointers.   *)
BytesOf(f, bytes) ==
  \A k \in DOMAIN bytes : k <= (DirectPtrs + PtrsPerBlock + 1) * BlockSize =>
    bytes[k] = BlockOf(f, (k - 1) \div BlockSize + 1) * BlockSize + ((k - 1) % BlockSize)

(* A file that was read has all its bytes, and those of its blocks, unless *)
(* it has holes or triply indirect blocks: Ext2ReadFile goes on with the   *)
(* next kind of pointers at a hole.  (Behind the first doubly indirect     *)
(* block it reads the wrong ones.)  This is so whichever sectors had to be *)
(* asked for again.                                                        *)
ContentCorrect ==
  /\ DiskTypeOK
  /\ \A r \in files : Whole(FileInodes[r.num]) =>
       Len(r.content) = FileInodes[r.num].size /\ BytesOf(FileInodes[r.num], r.content)

(* No copy goes behind the sectors that were read, nor behind a            *)
(* destination, unless the disk has inodes that are larger than Ext2Inode. *)
CopiesFit ==
  /\ "sectors" \notin overrun
  /\ "destination" \in overrun => inodeSize > InodeStruct

(* Between reads of the drive, the interrupts are enabled unless the last  *)
(* read failed: a failed read leaves them off until the next good one.     *)
IrqFollowsLastRead == (ata.state # "busy") => (irq = ~failed)

(* Between operations nothing is allocated but what was handed out: the    *)
(* disk, an inode and a content each.  A failed read leaks one buffer and  *)
(* its operation nothing more, wherever it was cut.                        *)
BuffersBalanced ==
  op = Idle =>
    /\ bufs = {}
    /\ kept = (IF mounted = "ok" THEN 3 ELSE 0) + Cardinality(inodes) + Cardinality(files)

(* What reads leave behind, failed ones included: the interrupts and the   *)
(* allocated buffers are as the two invariants above say.                  *)
LeftBehind == IrqFollowsLastRead /\ BuffersBalanced

(* Every operation ends, even on a drive that never reads a sector.        *)
ReadEnds == (op # Idle) ~> (op = Idle)

=============================================================================
