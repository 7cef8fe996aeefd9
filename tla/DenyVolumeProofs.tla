-------------------------- MODULE DenyVolumeProofs --------------------------
(***************************************************************************)
(* Theorems about DenyVolume for every size of volume, table and sector,   *)
(* every set of names and buffers, any number of write failures, and with  *)
(* or without crashes: its variables keep their types, and what            *)
(* denyfs_vol_flush saves.  Then the block map of a volume as a function:  *)
(* what the loader's counts say of it, and how it changes when a pointer,  *)
(* a pointer table or the inode table does.                                *)
(***************************************************************************)
EXTENDS DenyVolume, FiniteSetTheorems, FunctionTheorems, TLAPS

-----------------------------------------------------------------------------
(***************************************************************************)
(* The inductive invariant.                                                *)
(***************************************************************************)

\* The running write ends within the longest file; WriteDone needs it to keep
\* the size in range.
WriteFits == op.off + Len(op.buf) <= MaxFileSize

TypeInv == TypeOK /\ WriteFits

\* While a write looks for or fills pointer tables, it has bytes left and the
\* logical block is past the direct ones: table indices are in range.
InTables ==
  pc \in {"root", "table", "leaf", "link"} =>
    op.done < Len(op.buf) /\ BlkIdx >= DirectBlocks

-----------------------------------------------------------------------------
(***************************************************************************)
(* Layout: arithmetic of sectors, and the ranges that follow from it.      *)
(***************************************************************************)

\* What integer division by a positive divisor returns.
LEMMA DivFacts ==
  ASSUME NEW n \in Int, NEW b \in Nat \ {0}
  PROVE  /\ n \div b \in Int
         /\ b * (n \div b) <= n
         /\ n < b * ((n \div b) + 1)
  BY SMT

\* The number of sectors that hold a bits or inodes is a natural number.
LEMMA CeilNat ==
  ASSUME NEW a \in Nat, NEW b \in Nat \ {0}
  PROVE  Ceil(a, b) \in Nat
  BY DEF Ceil

\* Every bit or inode lies in one of those sectors.
LEMMA CeilBound ==
  ASSUME NEW a \in Nat, NEW b \in Nat \ {0}, NEW n \in 0 .. a - 1
  PROVE  n \div b \in 0 .. Ceil(a, b) - 1
<1> DEFINE q == n \div b
           c == (a + b - 1) \div b
<1>1. q \in Int /\ b * q <= n /\ n < b * (q + 1)
  BY DivFacts
<1>2. c \in Int /\ b * c <= a + b - 1 /\ a + b - 1 < b * (c + 1)
  BY DivFacts
<1>3. q >= 0
  <2> HIDE DEF q
  <2> SUFFICES ASSUME q <= -1 PROVE FALSE
    BY <1>1
  <2>1. b * (q + 1) <= 0
    BY <1>1
  <2> QED BY <2>1, <1>1
<1>4. q < c
  <2> HIDE DEF q, c
  <2> SUFFICES ASSUME c <= q PROVE FALSE
    BY <1>1, <1>2
  <2>1. b * (c + 1) <= b * (q + 1)
    BY <1>1, <1>2
  <2>2. b * (q + 1) = b * q + b
    BY <1>1
  <2> QED BY <2>1, <2>2, <1>1, <1>2
<1> QED BY <1>1, <1>2, <1>3, <1>4 DEF Ceil

\* The metadata area ends before the data area, which is not empty.
LEMMA Layout ==
  /\ BitmapBlocks \in Nat /\ InodeBlocks \in Nat
  /\ DataStart \in Nat /\ DataStart = 1 + BitmapBlocks + InodeBlocks
  /\ DataStart < TotalBlocks /\ TotalBlocks \in Nat
<1>1. BitmapBlocks \in Nat
  BY CeilNat, SizesAssumption DEF BitmapBlocks
<1>2. InodeBlocks \in Nat
  BY CeilNat, SizesAssumption DEF InodeBlocks
<1> QED BY <1>1, <1>2, SizesAssumption, LayoutAssumption DEF DataStart

\* The bitmap sector of a block and the table sector of an inode exist.
LEMMA SectorsExist ==
  /\ \A b \in Block : SectorOfBit(b) \in BitmapSectors
  /\ \A i \in Ino : SectorOfInode(i) \in 0 .. InodeBlocks - 1
<1>1. ASSUME NEW b \in Block PROVE SectorOfBit(b) \in BitmapSectors
  BY CeilBound, SizesAssumption
     DEF Block, SectorOfBit, BitmapSectors, BitmapBlocks
<1>2. ASSUME NEW i \in Ino PROVE SectorOfInode(i) \in 0 .. InodeBlocks - 1
  BY CeilBound, SizesAssumption DEF Ino, SectorOfInode, InodeBlocks
<1> QED BY <1>1, <1>2

\* Ranges that the type proofs use.
LEMMA Ranges ==
  /\ DataBlocks \subseteq Block /\ MetaBlocks \subseteq Block
  /\ DataStart \in DataBlocks
  /\ Block \subseteq Pointer /\ 0 \in Pointer /\ Invalid \in Pointer
  /\ 0 \in Ino /\ FileIno \subseteq Ino
  /\ 0 \in DirectIdx
  BY Layout, SizesAssumption
     DEF DataBlocks, MetaBlocks, Block, Pointer, Ino, FileIno, DirectIdx

\* Sets of blocks and of table indices are finite, so their sizes are
\* natural numbers.
LEMMA Sizes ==
  /\ \A S \in SUBSET DataBlocks : Cardinality(S) \in Nat
  /\ \A S \in SUBSET PtrIdx : Cardinality(S) \in Nat
  /\ \A S \in SUBSET DirectIdx : Cardinality(S) \in Nat
<1>1. IsFiniteSet(DataBlocks)
  BY Layout, FS_Interval DEF DataBlocks
<1>2. IsFiniteSet(PtrIdx)
  BY SizesAssumption, FS_Interval DEF PtrIdx
<1>3. IsFiniteSet(DirectIdx)
  BY SizesAssumption, FS_Interval DEF DirectIdx
<1> QED BY <1>1, <1>2, <1>3, FS_Subset, FS_CardinalityType

-----------------------------------------------------------------------------
(***************************************************************************)
(* Types of block contents, however a block decodes.                       *)
(***************************************************************************)

\* Decoding a block as a pointer table, a directory or file data gives a
\* well-typed value whatever the block holds.
LEMMA DecodeTypes ==
  ASSUME blk \in [DataBlocks -> Content], NEW b
  PROVE  /\ AsPointers(blk, b) \in [PtrIdx -> Pointer]
         /\ AsDirents(blk, b) \in [DirIdx -> Dirent]
         /\ AsBytes(blk, b) \in [ByteIdx -> DataByte]
<1>1. AsPointers(blk, b) \in [PtrIdx -> Pointer]
  BY Ranges DEF AsPointers, Content
<1>2. AsDirents(blk, b) \in [DirIdx -> Dirent]
  BY Ranges DEF AsDirents, Content, Dirent
<1>3. AsBytes(blk, b) \in [ByteIdx -> DataByte]
  BY DEF AsBytes, Content, DataByte
<1> QED BY <1>1, <1>2, <1>3

\* Blocks made from well-typed parts are well typed.
LEMMA MakeTypes ==
  /\ \A e \in [DirIdx -> Dirent] : DirBlock(e) \in Content
  /\ \A p \in [PtrIdx -> Pointer] : PtrBlock(p) \in Content
  /\ \A d \in [ByteIdx -> DataByte] : DataBlock(d) \in Content
  /\ Noise \in Content
  BY DEF DirBlock, PtrBlock, DataBlock, Noise, Content

\* The constant values of the model are well typed.
LEMMA ValueTypes ==
  /\ FreeEntry \in Dirent /\ NoPtrs \in [PtrIdx -> Pointer]
  /\ Zeros \in [ByteIdx -> DataByte]
  /\ \A t \in {"FREE", "FILE", "DIR"} : EmptyInode(t) \in Inode
  /\ NoOp \in OpType /\ NoOp.off + Len(NoOp.buf) <= MaxFileSize
<1>1. FreeEntry \in Dirent
  BY DEF FreeEntry, Dirent
<1>2. NoPtrs \in [PtrIdx -> Pointer]
  BY Ranges DEF NoPtrs
<1>3. Zeros \in [ByteIdx -> DataByte]
  BY ValuesAssumption DEF Zeros, DataByte
<1>4. \A t \in {"FREE", "FILE", "DIR"} : EmptyInode(t) \in Inode
  BY Ranges, SizesAssumption DEF EmptyInode, Inode
<1>5. NoOp \in OpType
  BY <1>2, Ranges, SizesAssumption DEF NoOp, OpType
<1>6. NoOp.off + Len(NoOp.buf) <= MaxFileSize
  BY SizesAssumption DEF NoOp
<1> QED BY <1>1, <1>2, <1>3, <1>4, <1>5, <1>6

\* Updating fields of an inode with typed values keeps it typed.
LEMMA InodeTypes ==
  ASSUME NEW nd \in Inode, NEW n \in Int, NEW i, NEW b \in Pointer
  PROVE  [nd EXCEPT !.block_count = n, !.direct[i] = b] \in Inode
<1>1. [nd.direct EXCEPT ![i] = b] \in [DirectIdx -> Pointer]
  BY DEF Inode
<1> QED BY <1>1 DEF Inode

\* The same for the pointers to tables.
LEMMA InodeFields ==
  /\ \A nd \in Inode, n \in Int, b \in Pointer :
       /\ [nd EXCEPT !.block_count = n, !.indirect = b] \in Inode
       /\ [nd EXCEPT !.block_count = n, !.double = b] \in Inode
  /\ \A nd \in Inode, n \in Int : [nd EXCEPT !.block_count = n] \in Inode
  /\ \A nd \in Inode, b \in Pointer :
       /\ [nd EXCEPT !.indirect = b] \in Inode
       /\ [nd EXCEPT !.double = b] \in Inode
  /\ \A nd \in Inode, n \in Int, d \in [DirectIdx -> Pointer] :
       [nd EXCEPT !.direct = d, !.block_count = n] \in Inode
  BY DEF Inode

-----------------------------------------------------------------------------
(***************************************************************************)
(* TypeInv in parts: the metadata on disk, the data area, the allocation   *)
(* state, the inode table in memory, and the control state.                *)
(***************************************************************************)
DiskOK ==
  /\ dsb \in [free_blocks : Int, free_inodes : Int, bitmap_hmac : SUBSET Block]
  /\ dbitmap \in SUBSET Block
  /\ dinodes \in [Ino -> Inode]
DataOK == blk \in [DataBlocks -> Content] /\ faults \in Nat
AllocOK ==
  freeBlocks \in Int /\ bitmap \in SUBSET Block /\ dirty \in SUBSET BitmapSectors
InodesOK == freeInodes \in Int /\ inodes \in [Ino -> Inode]
ControlOK == pc \in PCs /\ op \in OpType /\ ret \in Results /\ WriteFits

\* The parts make up the invariant, before and after a step.
LEMMA TypeParts ==
  /\ TypeInv <=> DiskOK /\ DataOK /\ AllocOK /\ InodesOK /\ ControlOK
  /\ TypeInv' <=> DiskOK' /\ DataOK' /\ AllocOK' /\ InodesOK' /\ ControlOK'
  BY DEF TypeInv, TypeOK, DiskOK, DataOK, AllocOK, InodesOK, ControlOK

\* A part whose variables do not change stays as it is.
LEMMA PartsUnchanged ==
  /\ DiskOK /\ UNCHANGED metaDisk => DiskOK'
  /\ DataOK /\ NoWrite => DataOK'
  /\ AllocOK /\ UNCHANGED alloc => AllocOK'
  /\ InodesOK /\ UNCHANGED <<freeInodes, inodes>> => InodesOK'
  /\ ControlOK /\ UNCHANGED <<pc, op, ret>> => ControlOK'
  BY DEF DiskOK, DataOK, AllocOK, InodesOK, ControlOK, WriteFits, metaDisk,
         NoWrite, alloc

\* A block write, successful or not, keeps the data area well typed.
LEMMA WriteTypes ==
  /\ \A b, c : DataOK /\ c \in Content /\ write_block(b, c) => DataOK'
  /\ \A k : DataOK /\ WriteFails(k) => DataOK'
  BY DEF DataOK, write_block, WriteFails

\* Allocating and freeing keep the bitmap, the count and the marks typed.
LEMMA AllocTypes ==
  /\ \A b : AllocOK /\ alloc_block(b) => AllocOK'
  /\ \A S, T : AllocOK /\ free_block(S, T) => AllocOK'
<1>1. ASSUME NEW b, AllocOK, alloc_block(b) PROVE AllocOK'
  BY <1>1, Ranges DEF AllocOK, alloc_block, FirstFree, FreeData, DirtySectors
<1>2. ASSUME NEW S, NEW T, AllocOK, free_block(S, T) PROVE AllocOK'
  <2> DEFINE F == S \intersect bitmap \intersect DataBlocks
  <2>1. Cardinality(F) \in Nat
    BY Sizes
  <2> QED BY <1>2, <2>1 DEF AllocOK, free_block, DirtySectors
<1> QED BY <1>1, <1>2

\* Ways a step moves control.
LEMMA ControlTypes ==
  /\ \A r \in Results : Return(r) => ControlOK'
  /\ \A p \in PCs : ControlOK /\ Goto(p) /\ UNCHANGED op => ControlOK'
  /\ \A o \in OpType : o.off + Len(o.buf) <= MaxFileSize /\ StartFlush(o)
                         => ControlOK'
<1>1. ASSUME NEW r \in Results, Return(r) PROVE ControlOK'
  BY <1>1, ValueTypes DEF Return, ControlOK, WriteFits, PCs
<1>2. ASSUME NEW p \in PCs, ControlOK, Goto(p), UNCHANGED op PROVE ControlOK'
  BY <1>2 DEF Goto, ControlOK, WriteFits
<1>3. ASSUME NEW o \in OpType, o.off + Len(o.buf) <= MaxFileSize, StartFlush(o)
      PROVE  ControlOK'
  BY <1>3 DEF StartFlush, ControlOK, WriteFits, OpType, PCs, Results
<1> QED BY <1>1, <1>2, <1>3

-----------------------------------------------------------------------------
(***************************************************************************)
(* Type correctness, action by action.                                     *)
(***************************************************************************)

\* The locals a call or a flush starts with are well typed.
LEMMA StartTypes ==
  ASSUME NEW c \in Calls, NEW i \in Ino
  PROVE  LET o == [NoOp EXCEPT !.call = c, !.ino = i]
         IN  o \in OpType /\ o.off + Len(o.buf) <= MaxFileSize
  BY ValueTypes DEF OpType

\* A step to the flush at the end of a call keeps the control state typed.
LEMMA FlushTypes ==
  ASSUME NEW c \in Calls, NEW i \in Ino,
         StartFlush([NoOp EXCEPT !.call = c, !.ino = i])
  PROVE  ControlOK'
  BY StartTypes, ControlTypes

\* A refused call changes nothing but the result.
LEMMA RefuseTypes ==
  ASSUME NEW r \in Results, TypeInv, Refuse(r)
  PROVE  TypeInv'
<1>1. DiskOK' /\ DataOK' /\ AllocOK' /\ InodesOK'
  BY TypeParts, PartsUnchanged DEF Refuse, disk, metaDisk, NoWrite
<1>2. ControlOK'
  BY ControlTypes DEF Refuse
<1> QED BY <1>1, <1>2, TypeParts

\* The fresh volume that format_volume writes is well typed.
LEMMA TypeInit == Init => TypeInv
<1> SUFFICES ASSUME Init PROVE TypeInv
  OBVIOUS
<1>1. FormattedBitmap \in SUBSET Block
  BY Ranges DEF FormattedBitmap
<1>2. FormattedInodes \in [Ino -> Inode] /\ NoInodes \in [Ino -> Inode]
  <2>1. [EmptyInode("DIR") EXCEPT !.block_count = 1, !.direct[0] = DataStart]
          \in Inode
    <3> DEFINE e == EmptyInode("DIR")
    <3>1. e \in Inode /\ DataStart \in Pointer /\ 1 \in Int
      BY ValueTypes, Ranges
    <3> HIDE DEF e
    <3>2. [e EXCEPT !.block_count = 1, !.direct[0] = DataStart] \in Inode
      BY <3>1, InodeTypes
    <3> QED BY <3>2 DEF e
  <2> QED BY <2>1, ValueTypes DEF FormattedInodes, NoInodes
<1>3. DiskOK
  BY <1>1, <1>2, Layout, SizesAssumption DEF Init, DiskOK
<1>4. DataOK
  <2>1. DirBlock([i \in DirIdx |-> FreeEntry]) \in Content
    BY MakeTypes, ValueTypes
  <2> QED BY <2>1, MakeTypes, InputsAssumption DEF Init, DataOK
<1>5. AllocOK /\ InodesOK
  BY <1>2 DEF Init, AllocOK, InodesOK
<1>6. ControlOK
  BY ValueTypes DEF Init, ControlOK, WriteFits, PCs, Results
<1> QED BY <1>3, <1>4, <1>5, <1>6, TypeParts

\* Opening a volume loads typed metadata or refuses the image.
LEMMA TypeOpen == TypeInv /\ denyfs_vol_open => TypeInv'
<1> SUFFICES ASSUME TypeInv, denyfs_vol_open PROVE TypeInv'
  OBVIOUS
<1>1. DiskOK' /\ DataOK'
  BY TypeParts, PartsUnchanged DEF denyfs_vol_open, disk, metaDisk, NoWrite
<1>2. AllocOK' /\ InodesOK'
  BY TypeParts DEF denyfs_vol_open, AllocOK, InodesOK, DiskOK
<1>3. ControlOK'
  BY TypeParts DEF denyfs_vol_open, ControlOK, WriteFits, PCs, Results
<1> QED BY <1>1, <1>2, <1>3, TypeParts

\* Closing clears memory.
LEMMA TypeClose ==
  ASSUME NEW r \in Results, denyfs_vol_close(r)
  PROVE  AllocOK' /\ InodesOK' /\ ControlOK'
<1>1. AllocOK' /\ InodesOK'
  BY ValueTypes DEF denyfs_vol_close, AllocOK, InodesOK, NoInodes
<1>2. ControlOK'
  BY ValueTypes DEF denyfs_vol_close, ControlOK, WriteFits, PCs
<1> QED BY <1>1, <1>2

\* Unmounting starts a flush; a crash clears memory.
LEMMA TypeEnd == TypeInv /\ (denyfs_fuse_destroy \/ Crash) => TypeInv'
<1>1. ASSUME TypeInv, denyfs_fuse_destroy PROVE TypeInv'
  <2>1. DiskOK' /\ DataOK' /\ AllocOK' /\ InodesOK'
    BY <1>1, TypeParts, PartsUnchanged
       DEF denyfs_fuse_destroy, disk, metaDisk, NoWrite
  <2> DEFINE o == [NoOp EXCEPT !.call = "destroy"]
  <2>2. o \in OpType /\ o.off + Len(o.buf) <= MaxFileSize
    BY ValueTypes DEF OpType, Calls
  <2>3. ControlOK'
    BY <1>1, <2>2, ControlTypes DEF denyfs_fuse_destroy
  <2> QED BY <2>1, <2>3, TypeParts
<1>2. ASSUME TypeInv, Crash PROVE TypeInv'
  <2>1. DiskOK' /\ DataOK'
    BY <1>2, TypeParts, PartsUnchanged DEF Crash, disk, metaDisk, NoWrite
  <2>2. AllocOK' /\ InodesOK' /\ ControlOK'
    BY <1>2, TypeClose DEF Crash, Results
  <2> QED BY <2>1, <2>2, TypeParts
<1> QED BY <1>1, <1>2

\* The end of a flush, whatever its outcome, is well typed.
LEMMA TypeFlushEnds ==
  ASSUME NEW r \in Results, TypeInv, FlushEnds(r), dirty' \in {{}, dirty}
  PROVE  AllocOK' /\ InodesOK' /\ ControlOK'
<1>1. CASE op.call = "destroy"
  BY <1>1, TypeClose DEF FlushEnds
<1>2. CASE op.call # "destroy"
  <2>1. ControlOK'
    BY <1>2, ControlTypes DEF FlushEnds
  <2>2. AllocOK' /\ InodesOK'
    BY <1>2, TypeParts DEF FlushEnds, AllocOK, InodesOK
  <2> QED BY <2>1, <2>2
<1> QED BY <1>1, <1>2

\* Flush steps write typed metadata.
LEMMA TypeFlush == TypeInv /\ (FlushBlock \/ FlushFails \/ FlushDone) => TypeInv'
<1>1. ASSUME TypeInv, FlushBlock PROVE TypeInv'
  <2>1. DataOK' /\ AllocOK' /\ InodesOK'
    BY <1>1, TypeParts, PartsUnchanged DEF FlushBlock, NoWrite
  <2>2. ControlOK'
    BY <1>1, TypeParts
       DEF FlushBlock, ControlOK, WriteFits, NextFlushBlock, OpType
  <2>3. DiskOK'
    <3>1. CASE FlushSuperblock
      BY <1>1, <3>1, TypeParts DEF FlushSuperblock, DiskOK, AllocOK, InodesOK
    <3>2. CASE FlushBitmapSector
      BY <1>1, <3>2, TypeParts
         DEF FlushBitmapSector, MergeSector, DiskOK, AllocOK
    <3>3. CASE FlushInodeSector
      BY <1>1, <3>3, TypeParts DEF FlushInodeSector, DiskOK, InodesOK
    <3> QED BY <1>1, <3>1, <3>2, <3>3 DEF FlushBlock
  <2> QED BY <2>1, <2>2, <2>3, TypeParts
<1>2. ASSUME TypeInv, FlushFails PROVE TypeInv'
  <2>1. DiskOK' /\ DataOK'
    BY <1>2, TypeParts, PartsUnchanged, WriteTypes DEF FlushFails, metaDisk
  <2>2. dirty' \in {{}, dirty}
    BY <1>2 DEF FlushFails, StillDirty, FlushEnds, denyfs_vol_close
  <2>3. AllocOK' /\ InodesOK' /\ ControlOK'
    BY <1>2, <2>2, TypeFlushEnds DEF FlushFails, Results
  <2> QED BY <2>1, <2>3, TypeParts
<1>3. ASSUME TypeInv, FlushDone PROVE TypeInv'
  <2>1. DiskOK' /\ DataOK'
    BY <1>3, TypeParts, PartsUnchanged DEF FlushDone, disk, metaDisk, NoWrite
  <2>2. AllocOK' /\ InodesOK' /\ ControlOK'
    BY <1>3, TypeFlushEnds DEF FlushDone, Results
  <2> QED BY <2>1, <2>2, TypeParts
<1> QED BY <1>1, <1>2, <1>3

\* Writing a directory entry keeps the data area typed.
LEMMA TypeEntry ==
  ASSUME NEW s, NEW e \in Dirent, DataOK, PutEntry(s, e)
  PROVE  DataOK'
<1> DEFINE b == inodes[0].direct[s[1]]
           c == DirBlock([AsDirents(blk, b) EXCEPT ![s[2]] = e])
<1>1. AsDirents(blk, b) \in [DirIdx -> Dirent]
  BY DecodeTypes DEF DataOK
<1>2. [AsDirents(blk, b) EXCEPT ![s[2]] = e] \in [DirIdx -> Dirent]
  BY <1>1
<1>3. c \in Content
  BY <1>2, MakeTypes
<1>4. write_block(b, c)
  BY DEF PutEntry
<1> QED BY <1>3, <1>4, WriteTypes

\* The inode table with a file added, and with that rolled back, is typed.
LEMMA TypeNewFile ==
  ASSUME TypeInv, NEW i \in FileIno
  PROVE  /\ WithFile(i) \in [Ino -> Inode]
         /\ RolledBack(WithFile(i), i) \in [Ino -> Inode]
         /\ \A b \in DataBlocks : /\ Grown(i, b) \in [Ino -> Inode]
                                  /\ RolledBack(Grown(i, b), i) \in [Ino -> Inode]
<1>1. WithFile(i) \in [Ino -> Inode]
  BY TypeParts, ValueTypes DEF InodesOK, WithFile
<1>2. \A I \in [Ino -> Inode] : RolledBack(I, i) \in [Ino -> Inode]
  BY Ranges DEF RolledBack, Inode
<1>3. ASSUME NEW b \in DataBlocks PROVE Grown(i, b) \in [Ino -> Inode]
  <2> DEFINE root == inodes[0]
             count == root.block_count
  <2>1. root \in Inode /\ b \in Pointer
    BY TypeParts, Ranges DEF InodesOK
  <2>2. count \in Int /\ count + 1 \in Int
    BY <2>1 DEF Inode
  <2>3. [root EXCEPT !.block_count = count + 1, !.direct[count] = b] \in Inode
    <3> HIDE DEF root, count
    <3> QED BY <2>1, <2>2, InodeTypes
  <2> QED BY <1>1, <2>3 DEF Grown
<1> QED BY <1>1, <1>2, <1>3

\* Creating a file keeps the types, in a free entry, in a new directory
\* block, and when the entry cannot be written.
LEMMA TypeCreate ==
  ASSUME TypeInv, NEW n \in Names, denyfs_vol_create(n)
  PROVE  TypeInv'
<1>1. ASSUME NEW i \in FileIno, CreateInSlot(n, i) PROVE TypeInv'
  <2>1. PICK s \in DirSlots(inodes) :
          /\ \/ /\ PutEntry(s, NewEntry(i, n))
                /\ inodes' = WithFile(i)
                /\ freeInodes' = freeInodes - 1
                /\ StartCreateFlush(i)
             \/ /\ WriteFails("create")
                /\ inodes' = RolledBack(WithFile(i), i)
                /\ UNCHANGED freeInodes
                /\ Return("EPERM")
          /\ UNCHANGED <<dsb, dbitmap, dinodes, alloc>>
    BY <1>1 DEF CreateInSlot
  <2>2. DiskOK' /\ AllocOK'
    BY <2>1, TypeParts, PartsUnchanged DEF metaDisk
  <2>3. DataOK'
    <3>1. NewEntry(i, n) \in Dirent
      BY Ranges DEF NewEntry, Dirent
    <3> QED BY <2>1, <3>1, TypeParts, TypeEntry, WriteTypes
  <2>4. InodesOK'
    BY <2>1, TypeNewFile, TypeParts DEF InodesOK
  <2>5. ControlOK'
    BY <2>1, ControlTypes, FlushTypes, Ranges
       DEF StartCreateFlush, Calls, Results
  <2> QED BY <2>2, <2>3, <2>4, <2>5, TypeParts
<1>2. ASSUME NEW i \in FileIno, NEW b \in DataBlocks, CreateInNewBlock(n, i, b)
      PROVE  TypeInv'
  <2>1. /\ alloc_block(b)
        /\ \/ /\ write_block(b, DirBlock(FirstEntry(i, n)))
              /\ inodes' = Grown(i, b)
              /\ freeInodes' = freeInodes - 1
              /\ StartCreateFlush(i)
           \/ /\ WriteFails("create")
              /\ inodes' = RolledBack(Grown(i, b), i)
              /\ UNCHANGED freeInodes
              /\ Return("EPERM")
        /\ UNCHANGED <<dsb, dbitmap, dinodes>>
    BY <1>2 DEF CreateInNewBlock
  <2>2. DiskOK' /\ AllocOK'
    BY <2>1, TypeParts, PartsUnchanged, AllocTypes DEF metaDisk
  <2>3. DataOK'
    <3>1. NewEntry(i, n) \in Dirent
      BY Ranges DEF NewEntry, Dirent
    <3>2. DirBlock(FirstEntry(i, n)) \in Content
      BY <3>1, ValueTypes, MakeTypes DEF FirstEntry
    <3> QED BY <2>1, <3>2, TypeParts, WriteTypes
  <2>4. InodesOK'
    BY <2>1, TypeNewFile, TypeParts DEF InodesOK
  <2>5. ControlOK'
    BY <2>1, ControlTypes, FlushTypes, Ranges
       DEF StartCreateFlush, Calls, Results
  <2> QED BY <2>2, <2>3, <2>4, <2>5, TypeParts
<1>3. ASSUME NEW r \in {"EEXIST", "EIO", "ENOSPC"}, Refuse(r) PROVE TypeInv'
  BY <1>3, RefuseTypes DEF Results
<1> QED BY <1>1, <1>2, <1>3 DEF denyfs_vol_create

\* free_inode keeps the types wherever it stops.
LEMMA TypeFree ==
  ASSUME TypeInv, NEW i \in FileIno, free_inode(i)
  PROVE  AllocOK' /\ InodesOK' /\ ControlOK'
<1> DEFINE nd == inodes[i]
           noDirect == [nd EXCEPT !.direct = EmptyInode("FREE").direct]
           noSingle == [noDirect EXCEPT !.indirect = Invalid]
<1>1. i \in Ino /\ AllocOK /\ inodes \in [Ino -> Inode] /\ freeInodes \in Int
  BY Ranges, TypeParts DEF InodesOK
<1>2. noDirect \in Inode /\ noSingle \in Inode /\ EmptyInode("FREE") \in Inode
  BY <1>1, ValueTypes, Ranges DEF Inode
<1>3. /\ \E S : free_block(S, {})
      /\ \E rest \in {noDirect, noSingle, EmptyInode("FREE")} :
           inodes' = [inodes EXCEPT ![i] = rest]
      /\ freeInodes' \in {freeInodes, freeInodes + 1}
      /\ \/ Return("EIO")
         \/ StartFlush([NoOp EXCEPT !.call = "unlink", !.ino = i])
  BY DEF free_inode
<1>4. AllocOK'
  BY <1>1, <1>3, AllocTypes
<1>5. InodesOK'
  BY <1>1, <1>2, <1>3 DEF InodesOK
<1>6. ControlOK'
  BY <1>1, <1>3, ControlTypes, FlushTypes DEF Results, Calls
<1> QED BY <1>4, <1>5, <1>6

\* Removing a file keeps the types, also when the entry cannot be cleared.
LEMMA TypeUnlink ==
  ASSUME TypeInv, NEW n \in Names, denyfs_vol_unlink(n)
  PROVE  TypeInv'
<1>1. CASE NotFound(n)
  BY <1>1, RefuseTypes DEF NotFound, Results
<1>2. CASE \E i \in FileIno, s \in DirSlots(inodes) :
             /\ \/ /\ WriteFails("unlink")
                   /\ Return("EPERM")
                   /\ UNCHANGED <<alloc, freeInodes, inodes>>
                \/ /\ PutEntry(s, FreeEntry)
                   /\ free_inode(i)
             /\ UNCHANGED <<dsb, dbitmap, dinodes>>
  <2>1. PICK i \in FileIno, s \in DirSlots(inodes) :
          /\ \/ /\ WriteFails("unlink")
                /\ Return("EPERM")
                /\ UNCHANGED <<alloc, freeInodes, inodes>>
             \/ /\ PutEntry(s, FreeEntry)
                /\ free_inode(i)
          /\ UNCHANGED <<dsb, dbitmap, dinodes>>
    BY <1>2
  <2>2. DiskOK'
    BY <2>1, TypeParts, PartsUnchanged DEF metaDisk
  <2>3. CASE /\ WriteFails("unlink")
             /\ Return("EPERM")
             /\ UNCHANGED <<alloc, freeInodes, inodes>>
    BY <2>2, <2>3, TypeParts, PartsUnchanged, WriteTypes, ControlTypes
       DEF Results
  <2>4. CASE PutEntry(s, FreeEntry) /\ free_inode(i)
    BY <2>2, <2>4, TypeParts, TypeEntry, ValueTypes, TypeFree
  <2> QED BY <2>1, <2>3, <2>4
<1> QED BY <1>1, <1>2 DEF denyfs_vol_unlink

\* Locals stay typed when a step stores a block number in them.
LEMMA TypeLocals ==
  ASSUME ControlOK, NEW b \in Pointer, NEW p \in PCs, Goto(p),
         \/ op' = [op EXCEPT !.data = b]
         \/ op' = [op EXCEPT !.root = b]
         \/ op' = [op EXCEPT !.table = b]
         \/ op' = [op EXCEPT !.root = b, !.new_root = TRUE]
         \/ op' = [op EXCEPT !.table = b, !.new_table = TRUE]
  PROVE  ControlOK'
<1>1. op' \in OpType
  BY DEF ControlOK, OpType
<1>2. op'.off = op.off /\ op'.buf = op.buf
  BY DEF ControlOK, OpType
<1> QED BY <1>1, <1>2 DEF ControlOK, WriteFits, Goto

\* The start of a write is typed: it has passed the file size limit.
LEMMA TypeWrite ==
  ASSUME TypeInv, NEW n \in Names, NEW off \in Offsets, NEW buf \in Payloads,
         denyfs_vol_write(n, off, buf)
  PROVE  TypeInv'
<1>1. CASE NotFound(n)
  BY <1>1, RefuseTypes DEF NotFound, Results
<1>2. ASSUME NEW i \in FileIno, ~TooLong(off + Len(buf)),
             pc' = "map", ret' = "busy",
             op' = [NoOp EXCEPT !.call = "write", !.ino = i,
                                !.off = off, !.buf = buf],
             UNCHANGED <<disk, alloc, freeInodes, inodes, faults>>
      PROVE  TypeInv'
  <2>1. DiskOK' /\ DataOK' /\ AllocOK' /\ InodesOK'
    BY <1>2, TypeParts, PartsUnchanged DEF disk, metaDisk, NoWrite
  <2>2. op' \in OpType
    BY <1>2, ValueTypes, Ranges, InputsAssumption DEF OpType, Calls
  <2>3. op'.off = off /\ op'.buf = buf
    BY <1>2, ValueTypes DEF OpType
  <2>4. off + Len(buf) <= MaxFileSize
    BY <1>2, InputsAssumption, SizesAssumption DEF TooLong
  <2>5. ControlOK'
    BY <1>2, <2>2, <2>3, <2>4 DEF ControlOK, WriteFits, PCs, Results
  <2> QED BY <2>1, <2>5, TypeParts
<1>3. ASSUME NEW r \in {"ENOSPC", "EISDIR"}, Refuse(r) PROVE TypeInv'
  BY <1>3, RefuseTypes DEF Results
<1> QED BY <1>1, <1>2, <1>3 DEF denyfs_vol_write

\* The inode the handler works on stays typed when its fields do.
LEMMA TypeBecome ==
  /\ TypeInv => op.ino \in Ino /\ node \in Inode
  /\ \A nd \in Inode : InodesOK /\ Become(nd) /\ UNCHANGED freeInodes
                         => InodesOK'
  BY TypeParts DEF InodesOK, ControlOK, OpType, Become, node

\* Finding the block of a chunk keeps the types.
LEMMA TypeMapped == TypeInv /\ WriteMapped => TypeInv'
<1> SUFFICES ASSUME TypeInv, WriteMapped PROVE TypeInv'
  OBVIOUS
<1>1. DiskOK' /\ DataOK' /\ AllocOK' /\ InodesOK'
  BY TypeParts, PartsUnchanged DEF WriteMapped
<1>2. ControlOK'
  BY TypeParts, ControlTypes, TypeLocals, Ranges DEF WriteMapped, Results, PCs
<1> QED BY <1>1, <1>2, TypeParts

\* Allocating a data block keeps the types.
LEMMA TypeAllocateData == TypeInv /\ AllocateData => TypeInv'
<1> SUFFICES ASSUME TypeInv, AllocateData PROVE TypeInv'
  OBVIOUS
<1>1. DiskOK' /\ UNCHANGED freeInodes
  BY TypeParts, PartsUnchanged DEF AllocateData
<1>2. CASE NoWrite /\ Return("ENOSPC") /\ UNCHANGED <<alloc, inodes>>
  BY <1>1, <1>2, TypeParts, PartsUnchanged, ControlTypes DEF Results
<1>3. ASSUME NEW b, WriteFails(op.call), free_block({}, {b}), Return("EIO"),
             UNCHANGED inodes
      PROVE  TypeInv'
  BY <1>1, <1>3, TypeParts, PartsUnchanged, WriteTypes, AllocTypes,
     ControlTypes DEF Results
<1>4. ASSUME NEW b \in DataBlocks, alloc_block(b),
             write_block(b, DataBlock(Zeros)),
             op' = [op EXCEPT !.data = b],
             NEW p \in {"put", "table", "root"}, Goto(p),
             \/ UNCHANGED inodes
             \/ Become([node EXCEPT !.block_count = @ + 1,
                                    !.direct[BlkIdx] = b])
      PROVE  TypeInv'
  <2>1. DataOK' /\ AllocOK'
    BY <1>4, TypeParts, WriteTypes, AllocTypes, MakeTypes, ValueTypes
  <2>2. ControlOK'
    BY <1>4, TypeParts, TypeLocals, Ranges DEF PCs
  <2>3. [node EXCEPT !.block_count = @ + 1, !.direct[BlkIdx] = b] \in Inode
    <3>1. node \in Inode /\ node.block_count + 1 \in Int /\ b \in Pointer
      BY TypeBecome, Ranges DEF Inode
    <3> QED BY <3>1, InodeTypes
  <2>4. InodesOK'
    BY <1>1, <1>4, <2>3, TypeParts, TypeBecome, PartsUnchanged
  <2> QED BY <1>1, <2>1, <2>2, <2>4, TypeParts
<1> QED BY <1>2, <1>3, <1>4 DEF AllocateData

\* Allocating a pointer table keeps the types.
LEMMA TypeAllocateTable ==
  ASSUME TypeInv, AllocateTable
  PROVE  DataOK' /\ AllocOK' /\ ControlOK'
<1>1. CASE Release /\ NoWrite /\ Return("ENOSPC")
  BY <1>1, TypeParts, PartsUnchanged, AllocTypes, ControlTypes
     DEF Release, Results
<1>2. ASSUME NEW b, WriteFails(op.call), free_block(Held, {b}), Return("EIO")
      PROVE  DataOK' /\ AllocOK' /\ ControlOK'
  BY <1>2, TypeParts, WriteTypes, AllocTypes, ControlTypes DEF Results
<1>3. ASSUME NEW b \in DataBlocks, alloc_block(b),
             write_block(b, PtrBlock(NoPtrs)),
             NEW p \in {"table", "leaf"}, Goto(p),
             \/ op' = [op EXCEPT !.root = b, !.new_root = TRUE]
             \/ op' = [op EXCEPT !.table = b, !.new_table = TRUE]
      PROVE  DataOK' /\ AllocOK' /\ ControlOK'
  <2>1. DataOK' /\ AllocOK'
    BY <1>3, TypeParts, WriteTypes, AllocTypes, MakeTypes, ValueTypes
  <2>2. ControlOK'
    BY <1>3, TypeParts, TypeLocals, Ranges DEF PCs
  <2> QED BY <2>1, <2>2
<1> QED BY <1>1, <1>2, <1>3 DEF AllocateTable

\* A quotient is below a bound when the dividend is below bound * divisor.
LEMMA DivBelow ==
  ASSUME NEW n \in Nat, NEW m \in Nat, NEW b \in Nat \ {0}, n < m * b
  PROVE  n \div b \in 0 .. m - 1
<1> DEFINE q == n \div b
<1>1. q \in Int /\ b * q <= n /\ n < b * (q + 1)
  BY DivFacts
<1> HIDE DEF q
<1>2. q >= 0
  <2> SUFFICES ASSUME q <= -1 PROVE FALSE
    BY <1>1
  <2>1. b * (q + 1) <= 0
    BY <1>1
  <2> QED BY <2>1, <1>1
<1>3. q < m
  <2> SUFFICES ASSUME m <= q PROVE FALSE
    BY <1>1
  <2>1. m * b <= b * q
    BY <1>1
  <2> QED BY <2>1, <1>1
<1>4. q \in 0 .. m - 1
  BY <1>1, <1>2, <1>3
<1> QED BY <1>4 DEF q

\* The index a write uses in the double-indirect root is an index of a table.
LEMMA OuterInRange ==
  ASSUME TypeInv, InTables, pc \in {"root", "table", "leaf", "link"},
         ~InIndirect(BlkIdx)
  PROVE  Outer(BlkIdx) \in PtrIdx
<1> DEFINE P == PointersPerBlock
           x == BlkIdx - DirectBlocks - P
<1>1. /\ op.off \in Nat /\ op.done \in Nat /\ Len(op.buf) \in Nat
      /\ op.off + Len(op.buf) <= MaxFileSize
  BY TypeParts, InputsAssumption DEF ControlOK, OpType, WriteFits
<1>2. MaxFileBlocks \in Nat /\ MaxFileBlocks = DirectBlocks + P + P * P
  BY SizesAssumption DEF MaxFileBlocks
<1>3. Pos \in Nat /\ Pos < MaxFileBlocks * SectorSize
  BY <1>1, <1>2, LayoutAssumption, SizesAssumption DEF InTables, Pos
<1>4. BlkIdx \in 0 .. MaxFileBlocks - 1
  BY <1>2, <1>3, DivBelow, SizesAssumption DEF BlkIdx
<1>5. x \in Nat /\ x < P * P
  BY <1>2, <1>4, SizesAssumption DEF InTables, InIndirect
<1>6. x \div P \in 0 .. P - 1
  <2> HIDE DEF x
  <2> QED BY <1>5, DivBelow, SizesAssumption
<1> QED BY <1>6 DEF Outer, PtrIdx

\* The table a write puts its pointer into is a block number.
LEMMA LeafTableType ==
  ASSUME TypeInv, InTables, pc = "table"
  PROVE  LeafTable \in Pointer
<1>1. CASE InIndirect(BlkIdx)
  BY <1>1, TypeBecome DEF LeafTable, Inode
<1>2. CASE ~InIndirect(BlkIdx)
  <2>1. AsPointers(blk, op.root) \in [PtrIdx -> Pointer]
    BY TypeParts, DecodeTypes DEF DataOK
  <2> QED BY <1>2, <2>1, OuterInRange DEF LeafTable
<1> QED BY <1>1, <1>2

\* Finding or allocating the tables on the way keeps the types.
LEMMA TypeTables ==
  TypeInv /\ InTables /\ (FindRoot \/ FindTable) => TypeInv'
<1>1. ASSUME TypeInv, FindRoot PROVE TypeInv'
  <2>1. DiskOK' /\ InodesOK'
    BY <1>1, TypeParts, PartsUnchanged DEF FindRoot
  <2>2. CASE AllocateTable
    BY <1>1, <2>1, <2>2, TypeAllocateTable, TypeParts
  <2>3. CASE /\ op' = [op EXCEPT !.root = node.double]
             /\ Goto("table") /\ NoWrite /\ UNCHANGED alloc
    <3>1. node.double \in Pointer
      BY <1>1, TypeBecome DEF Inode
    <3> QED BY <1>1, <2>1, <2>3, <3>1, TypeParts, PartsUnchanged, TypeLocals
            DEF PCs
  <2> QED BY <1>1, <2>2, <2>3 DEF FindRoot
<1>2. ASSUME TypeInv, InTables, FindTable PROVE TypeInv'
  <2>1. DiskOK' /\ InodesOK'
    BY <1>2, TypeParts, PartsUnchanged DEF FindTable
  <2>2. CASE AllocateTable
    BY <1>2, <2>1, <2>2, TypeAllocateTable, TypeParts
  <2>3. CASE /\ op' = [op EXCEPT !.table = LeafTable]
             /\ Goto("leaf") /\ NoWrite /\ UNCHANGED alloc
    <3>1. LeafTable \in Pointer
      BY <1>2, LeafTableType DEF FindTable
    <3> QED BY <1>2, <2>1, <2>3, <3>1, TypeParts, PartsUnchanged, TypeLocals
            DEF PCs
  <2> QED BY <1>2, <2>2, <2>3 DEF FindTable
<1> QED BY <1>1, <1>2

\* A table with one entry replaced is a typed block.
LEMMA TypeTableEntry ==
  ASSUME TypeInv, NEW t, NEW k, NEW b \in Pointer
  PROVE  PtrBlock([AsPointers(blk, t) EXCEPT ![k] = b]) \in Content
<1>1. AsPointers(blk, t) \in [PtrIdx -> Pointer]
  BY TypeParts, DecodeTypes DEF DataOK
<1> QED BY <1>1, MakeTypes

\* Giving back what an allocation holds keeps the types.
LEMMA TypeGiveBack ==
  ASSUME TypeInv, WriteFails(op.call), GiveBack, UNCHANGED freeInodes
  PROVE  DataOK' /\ AllocOK' /\ InodesOK' /\ ControlOK'
  BY TypeParts, PartsUnchanged, WriteTypes, AllocTypes, ControlTypes
     DEF GiveBack, Release, Results

\* Writing the pointer and linking a new child keep the types.
LEMMA TypeLink == TypeInv /\ (WriteLeaf \/ LinkChild) => TypeInv'
<1>1. ASSUME TypeInv PROVE /\ op.data \in Pointer /\ op.root \in Pointer
                           /\ op.table \in Pointer /\ node \in Inode
  BY <1>1, TypeParts, TypeBecome DEF ControlOK, OpType
<1>2. ASSUME TypeInv, WriteLeaf PROVE TypeInv'
  <2>1. DiskOK' /\ UNCHANGED freeInodes
    BY <1>2, TypeParts, PartsUnchanged DEF WriteLeaf
  <2>2. CASE WriteFails(op.call) /\ GiveBack
    BY <1>2, <2>1, <2>2, TypeGiveBack, TypeParts
  <2> DEFINE more == [node EXCEPT
               !.block_count = @ + 1,
               !.indirect = IF InIndirect(BlkIdx) THEN op.table ELSE @]
  <2>3. ASSUME write_block(op.table,
                 PtrBlock([AsPointers(blk, op.table) EXCEPT ![LeafIdx] = op.data])),
               UNCHANGED <<alloc, op>>,
               NEW p \in {"link", "put"}, Goto(p),
               UNCHANGED inodes \/ Become(more)
        PROVE  TypeInv'
    <3>1. more \in Inode
      <4>1. node \in Inode /\ op.table \in Pointer
        BY <1>1, <1>2
      <4>2. node.block_count + 1 \in Int /\ node.indirect \in Pointer
        BY <4>1 DEF Inode
      <4> QED BY <4>1, <4>2, InodeFields
    <3>2. InodesOK'
      BY <1>2, <2>1, <2>3, <3>1, TypeParts, PartsUnchanged, TypeBecome
    <3>3. DataOK'
      BY <1>1, <1>2, <2>3, TypeParts, TypeTableEntry, WriteTypes
    <3>4. AllocOK' /\ ControlOK'
      BY <1>2, <2>3, TypeParts, PartsUnchanged, ControlTypes DEF PCs
    <3> QED BY <2>1, <3>2, <3>3, <3>4, TypeParts
  <2> QED BY <1>2, <2>2, <2>3 DEF WriteLeaf
<1>3. ASSUME TypeInv, LinkChild PROVE TypeInv'
  <2>1. DiskOK' /\ UNCHANGED freeInodes
    BY <1>3, TypeParts, PartsUnchanged DEF LinkChild
  <2>2. CASE WriteFails(op.call) /\ GiveBack
    BY <1>3, <2>1, <2>2, TypeGiveBack, TypeParts
  <2> DEFINE more == [node EXCEPT !.block_count = @ + 1, !.double = op.root]
  <2>3. CASE /\ write_block(op.root, PtrBlock(
                  [AsPointers(blk, op.root) EXCEPT ![Outer(BlkIdx)] = op.table]))
             /\ Become(more)
             /\ Goto("put") /\ UNCHANGED <<alloc, op>>
    <3>1. more \in Inode
      <4>1. node \in Inode /\ op.root \in Pointer
        BY <1>1, <1>3
      <4>2. node.block_count + 1 \in Int
        BY <4>1 DEF Inode
      <4> QED BY <4>1, <4>2, InodeFields
    <3>2. InodesOK'
      BY <1>3, <2>1, <2>3, <3>1, TypeParts, TypeBecome
    <3>3. DataOK'
      BY <1>1, <1>3, <2>3, TypeParts, TypeTableEntry, WriteTypes
    <3>4. AllocOK' /\ ControlOK'
      BY <1>3, <2>3, TypeParts, PartsUnchanged, ControlTypes DEF PCs
    <3> QED BY <2>1, <3>2, <3>3, <3>4, TypeParts
  <2> QED BY <1>3, <2>2, <2>3 DEF LinkChild
<1> QED BY <1>2, <1>3

\* A chunk ends within its block and within the buffer.
LEMMA ChunkFits ==
  ASSUME TypeInv
  PROVE  /\ BlkOff \in ByteIdx /\ Chunk \in Int
         /\ op.done \in Nat /\ op.buf \in Seq(Bytes) /\ Len(op.buf) \in Nat
         /\ op.done + Chunk <= Len(op.buf) /\ op.done + Chunk \in Nat
<1>1. /\ op.off \in Nat /\ op.done \in Nat /\ op.buf \in Seq(Bytes)
      /\ Len(op.buf) \in Nat
  <2>1. op.off \in Nat /\ op.done \in Nat /\ op.buf \in Payloads \union {<<>>}
    BY TypeParts DEF ControlOK, OpType
  <2>2. <<>> \in Seq(Bytes)
    OBVIOUS
  <2>3. op.buf \in Seq(Bytes)
    BY <2>1, <2>2, InputsAssumption
  <2> QED BY <2>1, <2>3
<1>2. BlkOff \in ByteIdx
  BY <1>1, SizesAssumption DEF BlkOff, Pos, ByteIdx
<1>3. /\ Chunk \in Int
      /\ op.done + Chunk <= Len(op.buf) /\ op.done + Chunk \in Nat
  BY <1>1, <1>2, SizesAssumption DEF Chunk, ByteIdx
<1> QED BY <1>1, <1>2, <1>3

\* Storing a chunk reads only bytes of the buffer, and keeps the types.
LEMMA TypePut == TypeInv /\ PutChunk => TypeInv'
<1> SUFFICES ASSUME TypeInv, PutChunk PROVE TypeInv'
  OBVIOUS
<1>1. DiskOK' /\ AllocOK' /\ InodesOK'
  BY TypeParts, PartsUnchanged DEF PutChunk
<1>2. CASE WriteFails(op.call) /\ Return("EPERM")
  BY <1>1, <1>2, TypeParts, WriteTypes, ControlTypes DEF Results
<1>3. CASE /\ write_block(op.data, DataBlock(Patched))
           /\ op' = NextChunk /\ Goto("map")
  <2>1. Patched \in [ByteIdx -> DataByte]
    <3>1. AsBytes(blk, op.data) \in [ByteIdx -> DataByte]
      BY TypeParts, DecodeTypes DEF DataOK
    <3>2. ASSUME NEW k \in ByteIdx, k \in BlkOff .. BlkOff + Chunk - 1
          PROVE  op.buf[op.done + (k - BlkOff) + 1] \in DataByte
      <4>1. op.done + (k - BlkOff) + 1 \in 1 .. Len(op.buf)
        <5>1. /\ BlkOff \in Int /\ Chunk \in Int /\ op.done \in Nat
              /\ Len(op.buf) \in Nat /\ op.done + Chunk <= Len(op.buf)
          BY ChunkFits DEF ByteIdx
        <5>2. k \in Int /\ k >= BlkOff /\ k <= BlkOff + Chunk - 1
          BY <3>2, <5>1
        <5> QED BY <5>1, <5>2
      <4> QED BY <4>1, ChunkFits DEF DataByte
    <3> QED BY <3>1, <3>2 DEF Patched
  <2>2. DataOK'
    BY <1>3, <2>1, MakeTypes, WriteTypes, TypeParts
  <2>3. NextChunk \in OpType
    BY ChunkFits, ValueTypes, TypeParts DEF NextChunk, OpType, ControlOK
  <2>4. NextChunk.off = op.off /\ NextChunk.buf = op.buf
    BY ValueTypes DEF NextChunk, OpType
  <2>5. ControlOK'
    BY <1>3, <2>3, <2>4, TypeParts DEF ControlOK, WriteFits, Goto, PCs
  <2> QED BY <1>1, <2>2, <2>5, TypeParts
<1> QED BY <1>2, <1>3 DEF PutChunk

\* The end of a write and of a truncate set a size within the limit.
LEMMA TypeResize == TypeInv /\ (WriteDone \/ Resize) => TypeInv'
<1>1. ASSUME TypeInv, WriteDone PROVE TypeInv'
  <2> DEFINE end == op.off + Len(op.buf)
             longer == [node EXCEPT !.size = IF end > @ THEN end ELSE @]
  <2>1. DiskOK' /\ DataOK' /\ AllocOK'
    BY <1>1, TypeParts, PartsUnchanged DEF WriteDone
  <2>2. end \in 0 .. MaxFileSize
    BY <1>1, ChunkFits, TypeParts, SizesAssumption
       DEF ControlOK, OpType, WriteFits
  <2>3. longer \in Inode
    <3> HIDE DEF end
    <3> QED BY <1>1, <2>2, TypeBecome DEF Inode
  <2>4. InodesOK'
    BY <1>1, <2>3, TypeParts, TypeBecome DEF WriteDone
  <2>5. ControlOK'
    BY <1>1, TypeBecome, FlushTypes DEF WriteDone, EndWrite, Calls
  <2> QED BY <2>1, <2>4, <2>5, TypeParts
<1>2. ASSUME TypeInv, Resize PROVE TypeInv'
  <2>1. DiskOK' /\ DataOK' /\ AllocOK'
    BY <1>2, TypeParts, PartsUnchanged DEF Resize
  <2>2. [node EXCEPT !.size = op.size] \in Inode
    BY <1>2, TypeBecome, TypeParts DEF Inode, ControlOK, OpType
  <2>3. InodesOK'
    BY <1>2, <2>2, TypeParts, TypeBecome DEF Resize
  <2>4. ControlOK'
    BY <1>2, TypeBecome, FlushTypes DEF Resize, Calls
  <2> QED BY <2>1, <2>3, <2>4, TypeParts
<1> QED BY <1>1, <1>2

\* The start of a truncate keeps the types, also where it clears the tail.
LEMMA TypeTruncate ==
  ASSUME TypeInv, NEW n \in Names, NEW size \in TruncSizes,
         denyfs_vol_truncate(n, size)
  PROVE  TypeInv'
<1>1. CASE NotFound(n)
  BY <1>1, RefuseTypes DEF NotFound, Results
<1>2. ASSUME NEW r \in {"ENOSPC", "ok", "EISDIR", "EIO"}, Refuse(r)
      PROVE  TypeInv'
  BY <1>2, RefuseTypes DEF Results
<1>3. ASSUME NEW i \in FileIno, ~TooLong(size), NEW p \in {"resize", "shrink"},
             pc' = p, ret' = "busy",
             op' = [NoOp EXCEPT !.call = "truncate", !.ino = i, !.size = size]
      PROVE  ControlOK'
  <2>1. size \in 0 .. MaxFileSize
    BY <1>3, InputsAssumption, SizesAssumption DEF TooLong
  <2>2. op' \in OpType
    BY <1>3, <2>1, ValueTypes, Ranges DEF OpType, Calls
  <2>3. op'.off = NoOp.off /\ op'.buf = NoOp.buf
    BY <1>3, ValueTypes DEF OpType
  <2> QED BY <1>3, <2>2, <2>3, ValueTypes DEF ControlOK, WriteFits, PCs, Results
<1>4. ASSUME UNCHANGED <<disk, alloc, freeInodes, inodes, faults>>, ControlOK'
      PROVE  TypeInv'
  BY <1>4, TypeParts, PartsUnchanged DEF disk, metaDisk, NoWrite
<1>5. ASSUME NEW b, NEW from, write_block(b, DataBlock(Cleared(b, from)))
      PROVE  DataOK'
  <2>1. AsBytes(blk, b) \in [ByteIdx -> DataByte]
    BY TypeParts, DecodeTypes DEF DataOK
  <2>2. Cleared(b, from) \in [ByteIdx -> DataByte]
    BY <2>1, ValuesAssumption DEF Cleared, DataByte
  <2> QED BY <1>5, <2>2, MakeTypes, WriteTypes, TypeParts
<1>6. ASSUME UNCHANGED <<metaDisk, alloc, freeInodes, inodes>>, DataOK',
             ControlOK'
      PROVE  TypeInv'
  BY <1>6, TypeParts, PartsUnchanged
<1>7. ASSUME WriteFails("truncate"), Return("EIO") PROVE DataOK' /\ ControlOK'
  BY <1>7, TypeParts, WriteTypes, ControlTypes DEF Results
<1> QED BY <1>1, <1>2, <1>3, <1>4, <1>5, <1>6, <1>7 DEF denyfs_vol_truncate

\* What is left of a table after a truncate is a typed block, and what was
\* dropped from it is counted.
LEMMA TypeKept ==
  ASSUME TypeInv, NEW t, NEW first
  PROVE  /\ PtrBlock(Kept(t, first)) \in Content
         /\ DroppedCount(t, first) \in Nat
<1>1. AsPointers(blk, t) \in [PtrIdx -> Pointer]
  BY TypeParts, DecodeTypes DEF DataOK
<1>2. Kept(t, first) \in [PtrIdx -> Pointer]
  BY <1>1, Ranges DEF Kept
<1> QED BY <1>2, MakeTypes, Sizes DEF DroppedCount

\* Dropping direct blocks and the indirect table keeps the types.
LEMMA TypeShrinkDirect == TypeInv /\ ShrinkDirect => TypeInv'
<1> SUFFICES ASSUME TypeInv, ShrinkDirect PROVE TypeInv'
  OBVIOUS
<1> DEFINE cut == {i \in DirectIdx : i >= NewBlocks /\ node.direct[i] # Invalid}
           left == [i \in DirectIdx |->
                      IF i \in cut THEN Invalid ELSE node.direct[i]]
           short == [node EXCEPT !.direct = left,
                                 !.block_count = @ - Cardinality(cut)]
           t == node.indirect
           shorter == [short EXCEPT
             !.block_count = @ - DroppedCount(t, DirectBlocks)]
           bare == [shorter EXCEPT !.indirect = Invalid]
<1>1. DiskOK' /\ UNCHANGED freeInodes
  BY TypeParts, PartsUnchanged DEF ShrinkDirect
<1>2. short \in Inode /\ shorter \in Inode /\ bare \in Inode
  <2>1. node \in Inode /\ Cardinality(cut) \in Nat
    BY TypeBecome, Sizes
  <2>2. left \in [DirectIdx -> Pointer]
    BY <2>1, Ranges DEF Inode
  <2>3. node.block_count - Cardinality(cut) \in Int
    BY <2>1 DEF Inode
  <2>4. short \in Inode
    <3> HIDE DEF cut, left
    <3> QED BY <2>1, <2>2, <2>3, InodeFields
  <2> HIDE DEF short, t
  <2>5. short.block_count - DroppedCount(t, DirectBlocks) \in Int
    BY <2>4, TypeKept DEF Inode
  <2>6. shorter \in Inode
    BY <2>4, <2>5, InodeFields
  <2>7. bare \in Inode
    <3> HIDE DEF shorter
    <3> QED BY <2>6, Ranges, InodeFields
  <2> QED BY <2>4, <2>6, <2>7
<1>3. \E nd \in {short, shorter, bare} : Become(nd)
  BY DEF ShrinkDirect
<1>4. InodesOK'
  BY <1>1, <1>2, <1>3, TypeParts, TypeBecome
<1>5. \E S : free_block(S, {})
  BY DEF ShrinkDirect
<1>6. AllocOK'
  BY <1>5, TypeParts, AllocTypes
<1>7. \/ NoWrite
      \/ WriteFails(op.call)
      \/ write_block(t, PtrBlock(Kept(t, DirectBlocks)))
  BY DEF ShrinkDirect
<1>8. DataOK'
  BY <1>7, TypeParts, PartsUnchanged, WriteTypes, TypeKept
<1>9. (Goto("roots") /\ UNCHANGED op) \/ Return("EIO")
  BY DEF ShrinkDirect
<1>10. ControlOK'
  BY <1>9, TypeParts, ControlTypes DEF PCs, Results
<1> QED BY <1>1, <1>4, <1>6, <1>8, <1>10, TypeParts

\* Reading the double-indirect root keeps the types.
LEMMA TypeReadRoots == TypeInv /\ ReadRoots => TypeInv'
<1> SUFFICES ASSUME TypeInv, ReadRoots PROVE TypeInv'
  OBVIOUS
<1>1. DiskOK' /\ DataOK' /\ AllocOK' /\ InodesOK'
  BY TypeParts, PartsUnchanged DEF ReadRoots
<1>2. CASE Goto("resize") /\ UNCHANGED op
  BY <1>1, <1>2, TypeParts, ControlTypes DEF PCs
<1>3. CASE Return("EIO")
  BY <1>1, <1>3, TypeParts, ControlTypes DEF Results
<1>4. CASE /\ op' = [op EXCEPT !.roots = AsPointers(blk, node.double), !.cur = 0]
           /\ Goto("children")
  <2>1. AsPointers(blk, node.double) \in [PtrIdx -> Pointer]
    BY TypeParts, DecodeTypes DEF DataOK
  <2>2. op' \in OpType /\ op'.off = op.off /\ op'.buf = op.buf
    BY <1>4, <2>1, TypeParts DEF ControlOK, OpType
  <2> QED BY <1>1, <1>4, <2>2, TypeParts DEF ControlOK, WriteFits, Goto, PCs
<1> QED BY <1>2, <1>3, <1>4 DEF ReadRoots

\* Dropping the blocks of one child keeps the types.
LEMMA TypeShrinkChild == TypeInv /\ ShrinkChild => TypeInv'
<1> SUFFICES ASSUME TypeInv, NEW o \in PtrIdx, ShrinkChild PROVE TypeInv'
  BY DEF ShrinkChild
<1>1. DiskOK' /\ UNCHANGED freeInodes
  BY TypeParts, PartsUnchanged DEF ShrinkChild
<1>2. UNCHANGED alloc \/ \E S : free_block(S, {})
  BY DEF ShrinkChild
<1>3. AllocOK'
  BY <1>2, TypeParts, PartsUnchanged, AllocTypes
<1>4. \/ NoWrite
      \/ WriteFails(op.call)
      \/ \E t, first : write_block(t, PtrBlock(Kept(t, first)))
  BY DEF ShrinkChild
<1>5. DataOK'
  BY <1>4, TypeParts, PartsUnchanged, WriteTypes, TypeKept
<1>6. \/ UNCHANGED inodes
      \/ \E t, first : Become([node EXCEPT
                         !.block_count = @ - DroppedCount(t, first)])
  BY DEF ShrinkChild
<1>7. InodesOK'
  <2>1. CASE UNCHANGED inodes
    BY <1>1, <2>1, TypeParts, PartsUnchanged
  <2>2. ASSUME NEW t, NEW first,
               Become([node EXCEPT !.block_count = @ - DroppedCount(t, first)])
        PROVE  InodesOK'
    <3>1. node \in Inode /\ node.block_count - DroppedCount(t, first) \in Int
      BY TypeBecome, TypeKept DEF Inode
    <3>2. [node EXCEPT !.block_count = @ - DroppedCount(t, first)] \in Inode
      BY <3>1, InodeFields
    <3> QED BY <1>1, <2>2, <3>2, TypeParts, TypeBecome
  <2> QED BY <1>6, <2>1, <2>2
<1>8. \/ Return("EIO")
      \/ \E p \in PtrIdx : \E b \in {Invalid, op.roots[p]} :
           /\ op' = [op EXCEPT !.cur = p + 1, !.roots[p] = b]
           /\ Goto("children")
  BY DEF ShrinkChild
<1>9. ControlOK'
  <2>1. CASE Return("EIO")
    BY <2>1, ControlTypes DEF Results
  <2>2. ASSUME NEW p \in PtrIdx, NEW b \in {Invalid, op.roots[p]},
               op' = [op EXCEPT !.cur = p + 1, !.roots[p] = b],
               Goto("children")
        PROVE  ControlOK'
    <3>1. op \in OpType /\ op.roots \in [PtrIdx -> Pointer] /\ p + 1 \in Nat
      BY TypeParts, SizesAssumption DEF ControlOK, OpType, PtrIdx
    <3>2. [op.roots EXCEPT ![p] = b] \in [PtrIdx -> Pointer]
      BY <2>2, <3>1, Ranges
    <3>3. op' \in OpType /\ op'.off = op.off /\ op'.buf = op.buf
      BY <2>2, <3>1, <3>2 DEF OpType
    <3> QED BY <2>2, <3>3, TypeParts DEF ControlOK, WriteFits, Goto, PCs
  <2> QED BY <1>8, <2>1, <2>2
<1> QED BY <1>1, <1>3, <1>5, <1>7, <1>9, TypeParts

\* Writing or freeing the double-indirect root keeps the types.
LEMMA TypeShrinkRoot == TypeInv /\ ShrinkRoot => TypeInv'
<1> SUFFICES ASSUME TypeInv, ShrinkRoot PROVE TypeInv'
  OBVIOUS
<1>1. DiskOK' /\ UNCHANGED freeInodes
  BY TypeParts, PartsUnchanged DEF ShrinkRoot
<1>2. (Goto("resize") /\ UNCHANGED op) \/ Return("EIO")
  BY DEF ShrinkRoot
<1>3. ControlOK'
  BY <1>2, TypeParts, ControlTypes DEF PCs, Results
<1>4. AllocOK'
  BY TypeParts, PartsUnchanged, AllocTypes DEF ShrinkRoot
<1>5. PtrBlock(op.roots) \in Content
  BY TypeParts, MakeTypes DEF ControlOK, OpType
<1>6. DataOK'
  BY <1>5, TypeParts, PartsUnchanged, WriteTypes DEF ShrinkRoot
<1>7. [node EXCEPT !.double = Invalid] \in Inode
  BY TypeBecome, Ranges, InodeFields
<1>8. InodesOK'
  BY <1>1, <1>7, TypeParts, PartsUnchanged, TypeBecome DEF ShrinkRoot
<1> QED BY <1>1, <1>3, <1>4, <1>6, <1>8, TypeParts

\* A step that keeps offset, buffer and progress keeps the logical block.
LEMMA SameBlock ==
  ASSUME TypeInv,
         \/ UNCHANGED op
         \/ \E b : \/ op' = [op EXCEPT !.data = b]
                   \/ op' = [op EXCEPT !.root = b]
                   \/ op' = [op EXCEPT !.table = b]
                   \/ op' = [op EXCEPT !.root = b, !.new_root = TRUE]
                   \/ op' = [op EXCEPT !.table = b, !.new_table = TRUE]
  PROVE  BlkIdx' = BlkIdx /\ op'.done = op.done /\ op'.buf = op.buf
<1>1. op'.off = op.off /\ op'.done = op.done /\ op'.buf = op.buf
  BY TypeParts DEF ControlOK, OpType
<1> QED BY <1>1 DEF BlkIdx, Pos

\* Tables are only entered with bytes left and past the direct blocks.
LEMMA TablesStep == TypeInv /\ InTables /\ [Next]_vars => InTables'
<1> SUFFICES ASSUME TypeInv, InTables, [Next]_vars,
                    pc' \in {"root", "table", "leaf", "link"}
             PROVE  op'.done < Len(op'.buf) /\ BlkIdx' >= DirectBlocks
  BY DEF InTables
<1>1. CASE AllocateData
  <2>1. BlkIdx \in Int
    BY TypeParts, SizesAssumption, DivFacts DEF ControlOK, OpType, BlkIdx, Pos
  <2>2. op.done < Len(op.buf) /\ BlkIdx >= DirectBlocks
    <3>1. op.done < Len(op.buf)
      BY <1>1 DEF AllocateData
    <3>2. InIndirect(BlkIdx) \/ InDouble(BlkIdx)
      BY <1>1 DEF AllocateData, Return, Goto
    <3> QED BY <2>1, <3>1, <3>2, SizesAssumption DEF InIndirect, InDouble
  <2>3. \E b : op' = [op EXCEPT !.data = b]
    BY <1>1 DEF AllocateData, Return
  <2> QED BY <2>2, <2>3, SameBlock
<1>2. CASE FindRoot \/ FindTable
  <2>1. op.done < Len(op.buf) /\ BlkIdx >= DirectBlocks
    BY <1>2 DEF InTables, FindRoot, FindTable
  <2>2. \E b : \/ op' = [op EXCEPT !.root = b]
               \/ op' = [op EXCEPT !.table = b]
               \/ op' = [op EXCEPT !.root = b, !.new_root = TRUE]
               \/ op' = [op EXCEPT !.table = b, !.new_table = TRUE]
    BY <1>2 DEF FindRoot, FindTable, AllocateTable, Return
  <2> QED BY <2>1, <2>2, SameBlock
<1>3. CASE WriteLeaf
  <2>1. op.done < Len(op.buf) /\ BlkIdx >= DirectBlocks
    BY <1>3 DEF InTables, WriteLeaf
  <2>2. UNCHANGED op
    BY <1>3 DEF WriteLeaf, GiveBack, Return
  <2> QED BY <2>1, <2>2, SameBlock
<1>4. CASE UNCHANGED vars
  BY <1>4, SameBlock DEF InTables, vars
<1>5. CASE Call
  <2>1. ASSUME NEW n \in Names, denyfs_vol_create(n)
        PROVE  pc' \in {"idle", "flush"}
    BY <2>1 DEF denyfs_vol_create, CreateInSlot, CreateInNewBlock,
         StartCreateFlush, Refuse, Return, StartFlush
  <2>2. ASSUME NEW n \in Names, denyfs_vol_unlink(n)
        PROVE  pc' \in {"idle", "flush"}
    BY <2>2 DEF denyfs_vol_unlink, free_inode, NotFound, Refuse, Return,
         StartFlush
  <2>3. ASSUME NEW n \in Names, NEW off \in Offsets, NEW buf \in Payloads,
               denyfs_vol_write(n, off, buf)
        PROVE  pc' \in {"idle", "map"}
    BY <2>3 DEF denyfs_vol_write, NotFound, Refuse, Return
  <2>4. ASSUME NEW n \in Names, NEW size \in TruncSizes,
               denyfs_vol_truncate(n, size)
        PROVE  pc' \in {"idle", "resize", "shrink"}
    BY <2>4 DEF denyfs_vol_truncate, NotFound, Refuse, Return
  <2>5. CASE denyfs_fuse_destroy
    BY <2>5 DEF denyfs_fuse_destroy, StartFlush
  <2> QED BY <1>5, <2>1, <2>2, <2>3, <2>4, <2>5 DEF Call
<1>6. CASE denyfs_vol_open \/ Crash
  BY <1>6 DEF denyfs_vol_open, Crash, denyfs_vol_close
<1>7. CASE \/ WriteMapped \/ LinkChild \/ PutChunk \/ WriteDone
           \/ ShrinkDirect \/ ReadRoots \/ ShrinkChild \/ ShrinkRoot \/ Resize
           \/ FlushBlock \/ FlushFails \/ FlushDone
  <2>1. pc' \in {"idle", "flush", "map", "put", "resize", "roots", "children",
                 "closed"}
    BY <1>7 DEF WriteMapped, LinkChild, GiveBack, PutChunk, WriteDone, EndWrite,
         ShrinkDirect, ReadRoots, ShrinkChild, ShrinkRoot, Resize, FlushBlock,
         FlushFails, FlushDone, FlushEnds, denyfs_vol_close, Return, Goto,
         StartFlush
  <2> QED BY <2>1
<1> QED BY <1>1, <1>2, <1>3, <1>4, <1>5, <1>6, <1>7 DEF Next, Step

\* Every step keeps every type.
LEMMA TypeStep == TypeInv /\ InTables /\ [Next]_vars => TypeInv'
<1> SUFFICES ASSUME TypeInv, InTables, [Next]_vars PROVE TypeInv'
  OBVIOUS
<1>1. CASE denyfs_vol_open
  BY <1>1, TypeOpen
<1>2. CASE Call
  BY <1>2, TypeCreate, TypeUnlink, TypeWrite, TypeTruncate, TypeEnd DEF Call
<1>3. CASE Step
  BY <1>3, TypeMapped, TypeAllocateData, TypeTables, TypeLink, TypePut,
     TypeResize, TypeShrinkDirect, TypeReadRoots, TypeShrinkChild,
     TypeShrinkRoot, TypeFlush DEF Step
<1>4. CASE Crash
  BY <1>4, TypeEnd
<1>5. CASE UNCHANGED vars
  BY <1>5 DEF vars, TypeInv, TypeOK, WriteFits
<1> QED BY <1>1, <1>2, <1>3, <1>4, <1>5 DEF Next

\* Every variable of a volume keeps its type: block numbers stay within the
\* volume, sizes within the limit denyfs_vol_write and denyfs_vol_truncate
\* check, and table indices within their tables, for all sizes and inputs and
\* whatever fails.
THEOREM TypeCorrect == Spec => []TypeOK
<1>1. Init => TypeInv /\ InTables
  BY TypeInit DEF Init, InTables
<1>2. TypeInv /\ InTables /\ [Next]_vars => (TypeInv /\ InTables)'
  BY TypeStep, TablesStep
<1>3. TypeInv => TypeOK
  BY DEF TypeInv
<1> QED BY <1>1, <1>2, <1>3, PTL DEF Spec


-----------------------------------------------------------------------------
(***************************************************************************)
(* denyfs_vol_flush writes only the bitmap sectors marked dirty, can fail  *)
(* between any two blocks, and is retried by the next call.  The marks     *)
(* cover every sector that differs from the disk, and a flush that reports *)
(* success has saved all metadata.                                         *)
(*                                                                         *)
(* The inductive invariant: while a flush runs, each block it has passed   *)
(* is on disk as in memory.  A clean bitmap sector is passed without being *)
(* written, so this needs DirtyCovers, and DirtyCovers needs this when the *)
(* marks are cleared at the end.                                           *)
(***************************************************************************)
SuperblockPassed ==
  pc = "flush" /\ op.cur > 0 =>
    dsb = [free_blocks |-> freeBlocks, free_inodes |-> freeInodes,
           bitmap_hmac |-> bitmap]
BitmapPassed ==
  pc = "flush" => \A s \in BitmapSectors : op.cur > 1 + s => SectorSaved(s)
InodesPassed ==
  pc = "flush" =>
    \A i \in Ino : op.cur > 1 + BitmapBlocks + SectorOfInode(i) =>
                     dinodes[i] = inodes[i]

SaveInv == DirtyCovers /\ SuperblockPassed /\ BitmapPassed /\ InodesPassed

-----------------------------------------------------------------------------
\* What a step may do to the allocation state.
AllocMove ==
  \/ UNCHANGED alloc
  \/ \E b : alloc_block(b)
  \/ \E S, T : free_block(S, T)

\* A bitmap sector that a step leaves unmarked has not changed.
LEMMA UnmarkedSame ==
  ASSUME AllocMove, bitmap \in SUBSET Block, NEW s \in BitmapSectors,
         s \notin dirty'
  PROVE  /\ s \notin dirty
         /\ \A b \in Block : SectorOfBit(b) = s => (b \in bitmap' <=> b \in bitmap)
<1>1. CASE UNCHANGED alloc
  BY <1>1 DEF alloc
<1>2. ASSUME NEW a, alloc_block(a)
      PROVE  /\ s \notin dirty
             /\ \A b \in Block : SectorOfBit(b) = s =>
                                   (b \in bitmap' <=> b \in bitmap)
  BY <1>2 DEF alloc_block, DirtySectors
<1>3. ASSUME NEW S, NEW T, free_block(S, T)
      PROVE  /\ s \notin dirty
             /\ \A b \in Block : SectorOfBit(b) = s =>
                                   (b \in bitmap' <=> b \in bitmap)
  BY <1>3 DEF free_block, DirtySectors
<1> QED BY <1>1, <1>2, <1>3 DEF AllocMove

\* So a step that writes no metadata keeps the marks complete.
LEMMA CoverStep ==
  ASSUME TypeInv, DirtyCovers, pc # "closed", AllocMove, UNCHANGED dbitmap
  PROVE  DirtyCovers'
<1>1. bitmap \in SUBSET Block
  BY TypeParts DEF AllocOK
<1>2. ASSUME NEW s \in BitmapSectors, s \notin dirty' PROVE SectorSaved(s)'
  <2>1. /\ s \notin dirty
        /\ \A b \in Block : SectorOfBit(b) = s => (b \in bitmap' <=> b \in bitmap)
    BY <1>1, <1>2, UnmarkedSame
  <2>2. SectorSaved(s)
    BY <2>1 DEF DirtyCovers
  <2> QED BY <2>1, <2>2 DEF SectorSaved
<1> QED BY <1>2 DEF DirtyCovers

\* A flush that has written nothing yet has passed nothing.
LEMMA FlushStart ==
  ASSUME pc' = "flush" => op'.cur = 0
  PROVE  SuperblockPassed' /\ BitmapPassed' /\ InodesPassed'
<1>1. \A s \in BitmapSectors : s \in Nat
  BY Layout DEF BitmapSectors
<1>2. \A i \in Ino : SectorOfInode(i) \in Nat
  BY SectorsExist, Layout
<1> QED BY <1>1, <1>2, Layout DEF SuperblockPassed, BitmapPassed, InodesPassed

\* Steps of handlers other than flush steps: they change no metadata on disk,
\* and start a flush from its first block.
Quiet ==
  /\ pc # "closed" /\ AllocMove /\ UNCHANGED dbitmap
  /\ pc' = "flush" => op'.cur = 0

\* Quiet steps keep the invariant.
LEMMA QuietStep == TypeInv /\ SaveInv /\ Quiet => SaveInv'
  BY CoverStep, FlushStart DEF SaveInv, Quiet

\* Calls are quiet.
LEMMA QuietCall == Call => Quiet
<1>1. ASSUME NEW o, StartFlush([NoOp EXCEPT !.call = o]) \/
             \E i : StartFlush([NoOp EXCEPT !.call = o, !.ino = i])
      PROVE  op'.cur = 0
  BY <1>1 DEF StartFlush, NoOp
<1>2. ASSUME NEW r, Refuse(r) PROVE UNCHANGED <<alloc, dbitmap>> /\ pc' = "idle"
  BY <1>2 DEF Refuse, Return, disk
<1>3. ASSUME NEW n, denyfs_vol_create(n) PROVE Quiet
  <2>1. CASE \E r : Refuse(r)
    BY <1>2, <1>3, <2>1 DEF denyfs_vol_create, Quiet, AllocMove
  <2>2. ASSUME NEW i, CreateInSlot(n, i) PROVE Quiet
    <3>1. UNCHANGED <<dbitmap, alloc>>
      BY <2>2 DEF CreateInSlot
    <3>2. pc' = "idle" \/ op'.cur = 0
      BY <1>1, <2>2 DEF CreateInSlot, StartCreateFlush, Return
    <3> QED BY <1>3, <3>1, <3>2 DEF denyfs_vol_create, Quiet, AllocMove
  <2>3. ASSUME NEW i, NEW b, CreateInNewBlock(n, i, b) PROVE Quiet
    <3>1. UNCHANGED dbitmap /\ alloc_block(b)
      BY <2>3 DEF CreateInNewBlock
    <3>2. pc' = "idle" \/ op'.cur = 0
      BY <1>1, <2>3 DEF CreateInNewBlock, StartCreateFlush, Return
    <3> QED BY <1>3, <3>1, <3>2 DEF denyfs_vol_create, Quiet, AllocMove
  <2> QED BY <1>3, <2>1, <2>2, <2>3 DEF denyfs_vol_create
<1>4. ASSUME NEW n, denyfs_vol_unlink(n) PROVE Quiet
  <2>1. pc # "closed" /\ UNCHANGED dbitmap
    BY <1>2, <1>4 DEF denyfs_vol_unlink, NotFound
  <2>2. CASE NotFound(n)
    BY <1>2, <2>1, <2>2 DEF NotFound, Quiet, AllocMove
  <2>3. CASE Return("EPERM") /\ UNCHANGED alloc
    BY <2>1, <2>3 DEF Return, Quiet, AllocMove
  <2>4. ASSUME NEW i, free_inode(i) PROVE Quiet
    <3>1. /\ \E S : free_block(S, {})
          /\ \/ Return("EIO")
             \/ StartFlush([NoOp EXCEPT !.call = "unlink", !.ino = i])
      BY <2>4 DEF free_inode
    <3> QED BY <1>1, <2>1, <3>1 DEF Return, Quiet, AllocMove
  <2> QED BY <1>4, <2>2, <2>3, <2>4 DEF denyfs_vol_unlink
<1>5. ASSUME NEW n, NEW off, NEW buf, denyfs_vol_write(n, off, buf) PROVE Quiet
  <2>1. pc # "closed" /\ UNCHANGED <<alloc, dbitmap>> /\ pc' \in {"idle", "map"}
    BY <1>2, <1>5 DEF denyfs_vol_write, NotFound, disk
  <2> QED BY <2>1 DEF Quiet, AllocMove
<1>6. ASSUME NEW n, NEW size, denyfs_vol_truncate(n, size) PROVE Quiet
  <2>1. pc # "closed" /\ UNCHANGED <<alloc, dbitmap>>
    BY <1>2, <1>6 DEF denyfs_vol_truncate, NotFound, disk, metaDisk
  <2>2. pc' \in {"idle", "resize", "shrink"}
    BY <1>2, <1>6 DEF denyfs_vol_truncate, NotFound, Return
  <2> QED BY <2>1, <2>2 DEF Quiet, AllocMove
<1>7. ASSUME denyfs_fuse_destroy PROVE Quiet
  BY <1>1, <1>7 DEF denyfs_fuse_destroy, disk, Quiet, AllocMove
<1> QED BY <1>3, <1>4, <1>5, <1>6, <1>7 DEF Call

\* The steps of write and truncate.
HandlerStep ==
  \/ WriteMapped \/ AllocateData \/ FindRoot \/ FindTable
  \/ WriteLeaf \/ LinkChild \/ PutChunk \/ WriteDone
  \/ ShrinkDirect \/ ReadRoots \/ ShrinkChild \/ ShrinkRoot \/ Resize

\* They are quiet too: only a flush writes metadata.
LEMMA QuietHandler == HandlerStep => Quiet
<1> SUFFICES ASSUME HandlerStep PROVE Quiet
  OBVIOUS
<1>1. pc # "closed" /\ UNCHANGED dbitmap
  BY DEF HandlerStep, WriteMapped, AllocateData, FindRoot, FindTable,
     WriteLeaf, LinkChild, PutChunk, WriteDone, ShrinkDirect, ReadRoots,
     ShrinkChild, ShrinkRoot, Resize, metaDisk
<1>2. ASSUME AllocateTable PROVE AllocMove /\ pc' # "flush"
  BY <1>2 DEF AllocateTable, Release, AllocMove, Return, Goto
<1>3. CASE WriteMapped \/ AllocateData \/ PutChunk \/ ReadRoots \/ ShrinkRoot
  <2>1. AllocMove
    BY <1>3 DEF WriteMapped, AllocateData, PutChunk, ReadRoots, ShrinkRoot,
       AllocMove
  <2>2. pc' # "flush"
    BY <1>3 DEF WriteMapped, AllocateData, PutChunk, ReadRoots, ShrinkRoot,
       Return, Goto
  <2> QED BY <1>1, <2>1, <2>2 DEF Quiet
<1>4. CASE FindRoot \/ FindTable
  BY <1>1, <1>2, <1>4 DEF FindRoot, FindTable, Goto, AllocMove, Quiet
<1>5. CASE WriteLeaf \/ LinkChild
  BY <1>1, <1>5 DEF WriteLeaf, LinkChild, GiveBack, Release, Return, Goto,
     AllocMove, Quiet
<1>6. CASE ShrinkDirect \/ ShrinkChild
  <2>1. AllocMove
    BY <1>6 DEF ShrinkDirect, ShrinkChild, AllocMove
  <2>2. pc' # "flush"
    BY <1>6 DEF ShrinkDirect, ShrinkChild, Return, Goto
  <2> QED BY <1>1, <2>1, <2>2 DEF Quiet
<1>7. CASE WriteDone \/ Resize
  <2>1. UNCHANGED alloc
    BY <1>7 DEF WriteDone, Resize
  <2>2. op'.cur = 0
    BY <1>7 DEF WriteDone, EndWrite, Resize, StartFlush, NoOp
  <2> QED BY <1>1, <2>1, <2>2 DEF AllocMove, Quiet
<1> QED BY <1>3, <1>4, <1>5, <1>6, <1>7 DEF HandlerStep

-----------------------------------------------------------------------------
(***************************************************************************)
(* Flush steps.                                                            *)
(***************************************************************************)

\* Sector numbers are natural numbers below the number of sectors.
LEMMA SectorRange ==
  /\ \A s \in BitmapSectors : s \in Nat /\ s < BitmapBlocks
  /\ \A i \in Ino : SectorOfInode(i) \in Nat /\ SectorOfInode(i) < InodeBlocks
  BY SectorsExist, Layout DEF BitmapSectors

\* One block of a flush: the superblock, a bitmap sector that is written only
\* if dirty, or a sector of the inode table.
LEMMA SaveBlock == TypeInv /\ SaveInv /\ FlushBlock => SaveInv'
<1> SUFFICES ASSUME TypeInv, SaveInv, FlushBlock PROVE SaveInv'
  OBVIOUS
<1>1. /\ pc = "flush" /\ op.cur \in Nat
      /\ UNCHANGED <<freeBlocks, bitmap, dirty, freeInodes, inodes, pc>>
      /\ op'.cur = op.cur + 1
  <2>1. op \in OpType
    BY TypeParts DEF ControlOK
  <2> QED BY <2>1 DEF FlushBlock, alloc, NextFlushBlock, OpType
<1>2. CASE FlushSuperblock
  <2>1. op'.cur = 1 /\ UNCHANGED <<dbitmap, dinodes>>
    BY <1>1, <1>2 DEF FlushSuperblock
  <2>2. DirtyCovers'
    BY <1>1, <2>1 DEF SaveInv, DirtyCovers, SectorSaved
  <2>3. SuperblockPassed'
    BY <1>1, <1>2 DEF FlushSuperblock, SuperblockPassed
  <2>4. BitmapPassed' /\ InodesPassed'
    BY <2>1, SectorRange, Layout DEF BitmapPassed, InodesPassed
  <2> QED BY <2>2, <2>3, <2>4 DEF SaveInv
<1>3. CASE FlushBitmapSector
  <2> DEFINE now == op.cur - 1
  <2>1. op.cur \in 1 .. BitmapBlocks /\ UNCHANGED <<dsb, dinodes>>
    BY <1>3 DEF FlushBitmapSector
  <2>2. ASSUME NEW s \in BitmapSectors, s = now \/ SectorSaved(s)
        PROVE  SectorSaved(s)'
    <3>1. CASE s # now
      BY <1>1, <1>3, <2>2, <3>1
         DEF FlushBitmapSector, MergeSector, SectorSaved
    <3>2. CASE s = now /\ now \in dirty
      BY <1>1, <1>3, <3>2 DEF FlushBitmapSector, MergeSector, SectorSaved
    <3>3. CASE s = now /\ now \notin dirty
      <4>1. SectorSaved(s)
        BY <1>1, <3>3 DEF SaveInv, DirtyCovers
      <4> QED BY <1>1, <1>3, <3>3, <4>1 DEF FlushBitmapSector, SectorSaved
    <3> QED BY <3>1, <3>2, <3>3
  <2>3. DirtyCovers'
    BY <1>1, <2>2 DEF SaveInv, DirtyCovers
  <2>4. BitmapPassed'
    <3>1. ASSUME NEW s \in BitmapSectors, op'.cur > 1 + s PROVE SectorSaved(s)'
      <4>1. s = now \/ op.cur > 1 + s
        BY <1>1, <3>1, SectorRange
      <4> QED BY <1>1, <2>2, <4>1 DEF SaveInv, BitmapPassed
    <3> QED BY <3>1 DEF BitmapPassed
  <2>5. SuperblockPassed'
    BY <1>1, <2>1, Layout DEF SaveInv, SuperblockPassed
  <2>6. InodesPassed'
    BY <1>1, <2>1, SectorRange, Layout DEF InodesPassed
  <2> QED BY <2>3, <2>4, <2>5, <2>6 DEF SaveInv
<1>4. CASE FlushInodeSector
  <2>1. /\ op.cur \in 1 + BitmapBlocks .. DataStart - 1
        /\ UNCHANGED <<dsb, dbitmap>>
    BY <1>4 DEF FlushInodeSector
  <2>2. op.cur > BitmapBlocks /\ op.cur > 0
    BY <1>1, <2>1, Layout
  <2>3. DirtyCovers' /\ SuperblockPassed'
    BY <1>1, <2>1, <2>2
       DEF SaveInv, DirtyCovers, SectorSaved, SuperblockPassed
  <2>4. BitmapPassed'
    <3>1. ASSUME NEW s \in BitmapSectors PROVE SectorSaved(s)'
      <4>1. op.cur > 1 + s
        BY <1>1, <2>2, SectorRange, Layout
      <4>2. SectorSaved(s)
        BY <1>1, <4>1 DEF SaveInv, BitmapPassed
      <4> QED BY <1>1, <2>1, <4>2 DEF SectorSaved
    <3> QED BY <3>1 DEF BitmapPassed
  <2>5. InodesPassed'
    <3>1. ASSUME NEW i \in Ino, op'.cur > 1 + BitmapBlocks + SectorOfInode(i)
          PROVE  dinodes'[i] = inodes'[i]
      <4>1. CASE SectorOfInode(i) = InodeSectorAt(op.cur)
        BY <1>1, <1>4, <4>1 DEF FlushInodeSector
      <4>2. CASE SectorOfInode(i) # InodeSectorAt(op.cur)
        <5>1. op.cur > 1 + BitmapBlocks + SectorOfInode(i)
          BY <1>1, <3>1, <4>2, SectorRange, Layout DEF InodeSectorAt
        <5>2. dinodes[i] = inodes[i]
          BY <1>1, <5>1 DEF SaveInv, InodesPassed
        <5> QED BY <1>1, <1>4, <4>2, <5>2 DEF FlushInodeSector
      <4> QED BY <4>1, <4>2
    <3> QED BY <3>1 DEF InodesPassed
  <2> QED BY <2>3, <2>4, <2>5 DEF SaveInv
<1> QED BY <1>2, <1>3, <1>4 DEF FlushBlock

\* At the end of the metadata area everything has been saved.
LEMMA AllPassed ==
  ASSUME TypeInv, SaveInv, pc = "flush", op.cur = DataStart
  PROVE  MetadataSaved
<1>1. dsb = [free_blocks |-> freeBlocks, free_inodes |-> freeInodes,
             bitmap_hmac |-> bitmap]
  BY Layout DEF SaveInv, SuperblockPassed
<1>2. dbitmap = bitmap
  <2>1. ASSUME NEW b \in Block PROVE b \in bitmap <=> b \in dbitmap
    <3>1. SectorOfBit(b) \in BitmapSectors
      BY SectorsExist
    <3>2. op.cur > 1 + SectorOfBit(b)
      BY <3>1, SectorRange, Layout
    <3> QED BY <3>1, <3>2 DEF SaveInv, BitmapPassed, SectorSaved
  <2> QED BY <2>1, TypeParts DEF AllocOK, DiskOK
<1>3. dinodes = inodes
  <2>1. ASSUME NEW i \in Ino PROVE dinodes[i] = inodes[i]
    <3>1. op.cur > 1 + BitmapBlocks + SectorOfInode(i)
      BY SectorRange, Layout
    <3> QED BY <3>1 DEF SaveInv, InodesPassed
  <2> QED BY <2>1, TypeParts DEF InodesOK, DiskOK
<1> QED BY <1>1, <1>2, <1>3 DEF MetadataSaved

\* A flush that fails keeps the marks; one that succeeds may clear them.
LEMMA SaveEnd == TypeInv /\ SaveInv /\ (FlushFails \/ FlushDone) => SaveInv'
<1> SUFFICES ASSUME TypeInv, SaveInv, FlushFails \/ FlushDone PROVE SaveInv'
  OBVIOUS
<1>1. pc' \in {"idle", "closed"} /\ UNCHANGED dbitmap /\ pc = "flush"
  BY DEF FlushFails, FlushDone, FlushEnds, denyfs_vol_close, Return, disk
<1>2. SuperblockPassed' /\ BitmapPassed' /\ InodesPassed'
  BY <1>1, FlushStart
<1>3. CASE pc' = "closed"
  BY <1>2, <1>3 DEF SaveInv, DirtyCovers
<1>4. CASE pc' = "idle" /\ FlushFails
  <2>1. UNCHANGED alloc
    BY <1>4 DEF FlushFails, FlushEnds, denyfs_vol_close, StillDirty, alloc
  <2> QED BY <1>1, <1>2, <2>1 DEF SaveInv, DirtyCovers, SectorSaved, alloc
<1>5. CASE pc' = "idle" /\ FlushDone
  <2>1. MetadataSaved
    BY <1>5, AllPassed DEF FlushDone
  <2>2. UNCHANGED bitmap
    BY <1>5 DEF FlushDone, FlushEnds, denyfs_vol_close
  <2> QED BY <1>1, <1>2, <2>1, <2>2
          DEF SaveInv, DirtyCovers, SectorSaved, MetadataSaved
<1> QED BY <1>1, <1>3, <1>4, <1>5

\* Every step keeps the invariant.
LEMMA SaveStep == TypeInv /\ SaveInv /\ [Next]_vars => SaveInv'
<1> SUFFICES ASSUME TypeInv, SaveInv, [Next]_vars PROVE SaveInv'
  OBVIOUS
<1>1. CASE Call \/ HandlerStep
  BY <1>1, QuietCall, QuietHandler, QuietStep
<1>2. CASE FlushBlock \/ FlushFails \/ FlushDone
  BY <1>2, SaveBlock, SaveEnd
<1>3. CASE denyfs_vol_open \/ Crash
  <2>1. pc' \in {"idle", "closed"}
    BY <1>3 DEF denyfs_vol_open, Crash, denyfs_vol_close
  <2>2. DirtyCovers'
    BY <1>3 DEF denyfs_vol_open, disk, Crash, denyfs_vol_close, DirtyCovers,
       SectorSaved
  <2> QED BY <2>1, <2>2, FlushStart DEF SaveInv
<1>4. CASE UNCHANGED vars
  BY <1>4 DEF vars, SaveInv, DirtyCovers, SectorSaved, SuperblockPassed,
     BitmapPassed, InodesPassed
<1> QED BY <1>1, <1>2, <1>3, <1>4 DEF Next, Step, HandlerStep

\* The dirty marks of alloc_block and free_block always cover every bitmap
\* sector that differs from the disk, whatever calls and flushes failed, so
\* denyfs_vol_flush may skip the others.
THEOREM DirtyMarksComplete == Spec => []DirtyCovers
<1>1. Init => TypeInv /\ InTables /\ SaveInv
  BY TypeInit DEF Init, InTables, SaveInv, DirtyCovers, SuperblockPassed,
     BitmapPassed, InodesPassed
<1>2. TypeInv /\ InTables /\ SaveInv /\ [Next]_vars
        => (TypeInv /\ InTables /\ SaveInv)'
  BY TypeStep, TablesStep, SaveStep
<1>3. SaveInv => DirtyCovers
  BY DEF SaveInv
<1> QED BY <1>1, <1>2, <1>3, PTL DEF Spec

\* Whenever a flush returns success to the call it ends, superblock, bitmap
\* and inode table on disk are those in memory, and the HMAC on disk covers
\* the bitmap on disk.
THEOREM FlushSavesAll == Spec => FlushDurable
<1>1. Init => TypeInv /\ InTables /\ SaveInv
  BY TypeInit DEF Init, InTables, SaveInv, DirtyCovers, SuperblockPassed,
     BitmapPassed, InodesPassed
<1>2. TypeInv /\ InTables /\ SaveInv /\ [Next]_vars
        => (TypeInv /\ InTables /\ SaveInv)'
  BY TypeStep, TablesStep, SaveStep
<1>3. TypeInv /\ SaveInv /\ [Next]_vars
        => [pc = "flush" /\ pc' = "idle" /\ ret' = "ok" => MetadataSaved']_vars
  <2> SUFFICES ASSUME TypeInv, SaveInv, Next, pc = "flush", pc' = "idle",
                      ret' = "ok"
               PROVE  MetadataSaved'
    OBVIOUS
  <2>1. ~Call /\ ~HandlerStep
    BY DEF Call, denyfs_vol_create, denyfs_vol_unlink, denyfs_vol_write,
       denyfs_vol_truncate, denyfs_fuse_destroy, HandlerStep, WriteMapped,
       AllocateData, FindRoot, FindTable, WriteLeaf, LinkChild, PutChunk,
       WriteDone, ShrinkDirect, ReadRoots, ShrinkChild, ShrinkRoot, Resize
  <2>2. FlushDone
    BY <2>1 DEF Next, Step, HandlerStep, denyfs_vol_open, Crash,
       denyfs_vol_close, FlushBlock, FlushFails, FlushEnds, Return
  <2>3. MetadataSaved
    BY <2>2, AllPassed DEF FlushDone
  <2>4. UNCHANGED <<dsb, dbitmap, dinodes, freeBlocks, freeInodes, bitmap, inodes>>
    BY <2>2 DEF FlushDone, FlushEnds, denyfs_vol_close, disk
  <2> QED BY <2>3, <2>4 DEF MetadataSaved
<1> QED BY <1>1, <1>2, <1>3, PTL DEF Spec, FlushDurable

-----------------------------------------------------------------------------
(***************************************************************************)
(* A site is a place that may name a block: a logical block of a file, its *)
(* pointers to the indirect table and to the double-indirect root, an      *)
(* entry of that root.  The block map of a volume goes from sites to       *)
(* blocks.                                                                 *)
(***************************************************************************)
LocalSite == ({"data"} \X LogicalBlocks) \union ({"indirect", "double"} \X {0})
               \union ({"child"} \X PtrIdx)
Site == Ino \X LocalSite

DataSite(i, lb) == <<i, <<"data", lb>>>>
SingleSite(i)   == <<i, <<"indirect", 0>>>>
DoubleSite(i)   == <<i, <<"double", 0>>>>
ChildSite(i, o) == <<i, <<"child", o>>>>

At(B, nd, x) == IF x[1] = "data" THEN DataPtr(B, nd, x[2])
                ELSE IF x[1] = "indirect" THEN nd.indirect
                ELSE IF x[1] = "double" THEN nd.double
                ELSE Child(B, nd, x[2])
Map(I, B) == [s \in Site |-> At(B, I[s[1]], s[2])]

\* What a map names, and that it names nothing twice.
Img(f) == {f[s] : s \in DOMAIN f} \ {Invalid}
Once(f) == \A s, t \in DOMAIN f : f[s] = f[t] /\ f[s] # Invalid => s = t

-----------------------------------------------------------------------------
(***************************************************************************)
(* Maps, whatever their sites are.                                         *)
(***************************************************************************)

\* Taking blocks out of a map.
LEMMA MapCut ==
  ASSUME NEW f, NEW g, NEW X, X \subseteq DOMAIN f, DOMAIN g = DOMAIN f, Once(f),
         \A s \in DOMAIN f : g[s] = IF s \in X THEN Invalid ELSE f[s]
  PROVE  Once(g) /\ Img(g) = Img(f) \ {f[s] : s \in X}
<1>1. Once(g)
  BY DEF Once
<1>2. ASSUME NEW b \in Img(g) PROVE b \in Img(f) \ {f[s] : s \in X}
  <2>1. PICK s \in DOMAIN f : b = g[s] /\ b # Invalid
    BY DEF Img
  <2>2. s \notin X /\ b = f[s]
    BY <2>1
  <2> QED BY <2>1, <2>2 DEF Img, Once
<1>3. ASSUME NEW b \in Img(f) \ {f[s] : s \in X} PROVE b \in Img(g)
  BY DEF Img
<1> QED BY <1>1, <1>2, <1>3

\* Entering blocks that the map does not name yet.
LEMMA MapGrow ==
  ASSUME NEW f, NEW g, NEW Y, Y \subseteq DOMAIN f, DOMAIN g = DOMAIN f, Once(f),
         \A s \in Y : f[s] = Invalid /\ g[s] # Invalid /\ g[s] \notin Img(f),
         \A s, t \in Y : g[s] = g[t] => s = t,
         \A s \in DOMAIN f : s \notin Y => g[s] = f[s]
  PROVE  Once(g) /\ Img(g) = Img(f) \union {g[s] : s \in Y}
<1>1. Once(g)
  BY DEF Once, Img
<1>2. ASSUME NEW b \in Img(g) PROVE b \in Img(f) \union {g[s] : s \in Y}
  BY DEF Img
<1>3. ASSUME NEW b \in Img(f) PROVE b \in Img(g)
  <2>1. PICK s \in DOMAIN f : b = f[s] /\ b # Invalid
    BY DEF Img
  <2>2. s \notin Y
    BY <2>1
  <2> QED BY <2>1, <2>2 DEF Img
<1>4. ASSUME NEW s \in Y PROVE g[s] \in Img(g)
  BY DEF Img
<1> QED BY <1>1, <1>2, <1>3, <1>4

-----------------------------------------------------------------------------
(***************************************************************************)
(* Sites and logical blocks.                                               *)
(***************************************************************************)

\* Quotient and remainder of a natural number.
LEMMA ModFacts ==
  ASSUME NEW n \in Nat, NEW b \in Nat \ {0}
  PROVE  /\ n % b \in 0 .. b - 1
         /\ n = b * (n \div b) + (n % b)
<1>1. n % b \in 0 .. b - 1
  BY SMT
<1>2. n = b * (n \div b) + (n % b)
  BY SMT
<1> QED BY <1>1, <1>2

\* They are determined by the number.
LEMMA ModUnique ==
  ASSUME NEW o \in Nat, NEW b \in Nat \ {0}, NEW p \in 0 .. b - 1,
         NEW n \in Nat, n = b * o + p
  PROVE  n \div b = o /\ n % b = p
<1> DEFINE q == n \div b
           r == n % b
<1>1. q \in Int /\ r \in 0 .. b - 1 /\ n = b * q + r
  BY ModFacts, DivFacts
<1> HIDE DEF q, r
<1>2. q = o
  <2>1. ~(q <= o - 1)
    <3> SUFFICES ASSUME q <= o - 1 PROVE FALSE
      OBVIOUS
    <3>1. b * (q + 1) <= b * o /\ b * (q + 1) = b * q + b
      BY <1>1
    <3> QED BY <1>1, <3>1
  <2>2. ~(q >= o + 1)
    <3> SUFFICES ASSUME q >= o + 1 PROVE FALSE
      OBVIOUS
    <3>1. b * (o + 1) <= b * q /\ b * (o + 1) = b * o + b
      BY <1>1
    <3> QED BY <1>1, <3>1
  <2> QED BY <1>1, <2>1, <2>2
<1>3. r = p
  <2> DEFINE m == b * o
  <2>1. m \in Int /\ n = m + p /\ n = m + r
    BY <1>1, <1>2
  <2> HIDE DEF m
  <2> QED BY <1>1, <2>1
<1> QED BY <1>2, <1>3 DEF q, r

\* Where a logical block is named: a direct pointer, an entry of the indirect
\* table, or an entry of a child of the double-indirect root.
LEMMA BlockPlace ==
  ASSUME NEW lb \in LogicalBlocks
  PROVE  /\ lb \in Nat
         /\ \/ /\ lb \in DirectIdx /\ lb < DirectBlocks
               /\ ~InIndirect(lb) /\ ~InDouble(lb)
            \/ /\ InIndirect(lb) /\ ~InDouble(lb) /\ ~(lb < DirectBlocks)
               /\ lb - DirectBlocks \in PtrIdx
            \/ /\ InDouble(lb) /\ ~InIndirect(lb) /\ ~(lb < DirectBlocks)
               /\ Outer(lb) \in PtrIdx /\ Inner(lb) \in PtrIdx
               /\ lb = DirectBlocks + (Outer(lb) + 1) * PointersPerBlock
                         + Inner(lb)
<1> DEFINE P == PointersPerBlock
           S == P * P
           x == lb - DirectBlocks - P
<1>1. P \in Nat \ {0} /\ DirectBlocks \in Nat \ {0} /\ S \in Nat
  BY SizesAssumption
<1>2. lb \in Nat /\ lb < DirectBlocks + P + S
  <2>1. MaxFileBlocks = DirectBlocks + P + S
    BY DEF MaxFileBlocks
  <2> HIDE DEF P, S
  <2> QED BY <1>1, <2>1 DEF LogicalBlocks
<1>3. CASE lb < DirectBlocks
  BY <1>1, <1>2, <1>3 DEF DirectIdx, InIndirect, InDouble
<1>4. CASE lb >= DirectBlocks /\ lb < DirectBlocks + P
  BY <1>1, <1>2, <1>4 DEF InIndirect, InDouble, PtrIdx
<1>5. CASE lb >= DirectBlocks + P
  <2>1. x \in Nat /\ x < S
    <3> HIDE DEF P, S
    <3> QED BY <1>1, <1>2, <1>5
  <2> DEFINE q == x \div P
             r == x % P
             m == P * q
  <2>2. q \in 0 .. P - 1
    <3> HIDE DEF x
    <3> QED BY <1>1, <2>1, DivBelow
  <2>3. r \in 0 .. P - 1 /\ x = m + r
    <3> HIDE DEF x
    <3> QED BY <1>1, <2>1, ModFacts
  <2>4. Outer(lb) = q /\ Inner(lb) = r
    BY DEF Outer, Inner
  <2>5. lb = x + P + DirectBlocks
    BY <1>1, <1>2
  <2> HIDE DEF x, q, r
  <2>6. m \in Int /\ (q + 1) * P = m + P
    BY <1>1, <2>2
  <2> HIDE DEF m
  <2>7. lb = DirectBlocks + (q + 1) * P + r
    BY <1>1, <1>2, <2>1, <2>2, <2>3, <2>5, <2>6
  <2>8. InDouble(lb) /\ ~InIndirect(lb) /\ ~(lb < DirectBlocks)
    BY <1>1, <1>2, <1>5 DEF InDouble, InIndirect
  <2> QED BY <1>2, <2>2, <2>3, <2>4, <2>7, <2>8 DEF PtrIdx
<1> QED BY <1>1, <1>2, <1>3, <1>4, <1>5

\* The logical block of each place.
LEMMA PlaceBlock ==
  /\ DirectIdx \subseteq LogicalBlocks
  /\ \A p \in PtrIdx : /\ DirectBlocks + p \in LogicalBlocks
                       /\ InIndirect(DirectBlocks + p)
  /\ \A o, p \in PtrIdx :
       LET lb == DirectBlocks + (o + 1) * PointersPerBlock + p
       IN  /\ lb \in LogicalBlocks /\ InDouble(lb)
           /\ Outer(lb) = o /\ Inner(lb) = p
<1> DEFINE P == PointersPerBlock
           D == DirectBlocks
           S == P * P
<1>1. P \in Nat \ {0} /\ D \in Nat \ {0} /\ S \in Nat
  BY SizesAssumption
<1>2. LogicalBlocks = 0 .. (D + P + S) - 1
  BY DEF LogicalBlocks, MaxFileBlocks
<1>3. (P - 1) * P = S - P
  BY <1>1
<1> HIDE DEF S, D, P
<1>4. DirectIdx \subseteq LogicalBlocks
  BY <1>1, <1>2 DEF DirectIdx, D
<1>5. ASSUME NEW p \in PtrIdx
      PROVE  DirectBlocks + p \in LogicalBlocks /\ InIndirect(DirectBlocks + p)
  BY <1>1, <1>2 DEF PtrIdx, InIndirect, D, P
<1>6. ASSUME NEW o \in PtrIdx, NEW p \in PtrIdx
      PROVE  LET lb == D + (o + 1) * P + p
             IN  /\ lb \in LogicalBlocks /\ InDouble(lb)
                 /\ Outer(lb) = o /\ Inner(lb) = p
  <2> DEFINE m == P * o
             n == m + p
             lb == D + (o + 1) * P + p
  <2>1. o \in Nat /\ p \in 0 .. P - 1 /\ o <= P - 1
    BY <1>1 DEF PtrIdx, P
  <2>2. m \in Nat /\ (o + 1) * P = m + P
    BY <1>1, <2>1
  <2>3. m <= (P - 1) * P
    BY <1>1, <2>1
  <2>4. n \div P = o /\ n % P = p
    BY <1>1, <2>1, <2>2, ModUnique
  <2> HIDE DEF m
  <2>5. lb = D + P + m + p
    BY <1>1, <2>1, <2>2
  <2>6. m + p < S
    BY <1>1, <1>3, <2>1, <2>2, <2>3
  <2>7. lb \in LogicalBlocks /\ lb >= D + P
    BY <1>1, <1>2, <2>1, <2>2, <2>5, <2>6
  <2>8. lb - D - P = n
    BY <1>1, <2>1, <2>2, <2>5
  <2>9. Outer(lb) = n \div P /\ Inner(lb) = n % P
    BY <2>8 DEF Outer, Inner, D, P
  <2> QED BY <2>4, <2>7, <2>9 DEF InDouble, D, P
<1> QED BY <1>4, <1>5, <1>6 DEF D, P

\* What sites there are.
LEMMA Sites ==
  /\ \A i \in Ino, lb \in LogicalBlocks : DataSite(i, lb) \in Site
  /\ \A i \in Ino : SingleSite(i) \in Site /\ DoubleSite(i) \in Site
  /\ \A i \in Ino, o \in PtrIdx : ChildSite(i, o) \in Site
  /\ \A s \in Site : \E i \in Ino :
       \/ \E lb \in LogicalBlocks : s = DataSite(i, lb)
       \/ s = SingleSite(i)
       \/ s = DoubleSite(i)
       \/ \E o \in PtrIdx : s = ChildSite(i, o)
BY DEF LocalSite, Site, DataSite, SingleSite, DoubleSite, ChildSite

\* They are different from each other.
LEMMA SitesApart ==
  ASSUME NEW i, NEW j, NEW k, NEW l
  PROVE  /\ DataSite(i, k) = DataSite(j, l) => i = j /\ k = l
         /\ ChildSite(i, k) = ChildSite(j, l) => i = j /\ k = l
         /\ SingleSite(i) = SingleSite(j) => i = j
         /\ DoubleSite(i) = DoubleSite(j) => i = j
         /\ DataSite(i, k) # ChildSite(j, l)
         /\ DataSite(i, k) # SingleSite(j)
         /\ DataSite(i, k) # DoubleSite(j)
         /\ ChildSite(i, k) # SingleSite(j)
         /\ ChildSite(i, k) # DoubleSite(j)
         /\ SingleSite(i) # DoubleSite(j)
BY DEF DataSite, SingleSite, DoubleSite, ChildSite

\* What a map says at each kind of site.
LEMMA MapAt ==
  ASSUME NEW I, NEW B, NEW i \in Ino
  PROVE  /\ DOMAIN Map(I, B) = Site
         /\ \A lb \in LogicalBlocks :
              Map(I, B)[DataSite(i, lb)] = DataPtr(B, I[i], lb)
         /\ Map(I, B)[SingleSite(i)] = I[i].indirect
         /\ Map(I, B)[DoubleSite(i)] = I[i].double
         /\ \A o \in PtrIdx : Map(I, B)[ChildSite(i, o)] = Child(B, I[i], o)
<1>1. \A s \in Site : Map(I, B)[s] = At(B, I[s[1]], s[2])
  BY DEF Map
<1>2. ASSUME NEW lb \in LogicalBlocks
      PROVE  Map(I, B)[DataSite(i, lb)] = DataPtr(B, I[i], lb)
  BY <1>1, Sites DEF DataSite, At
<1>3. Map(I, B)[SingleSite(i)] = I[i].indirect
  BY <1>1, Sites DEF SingleSite, At
<1>4. Map(I, B)[DoubleSite(i)] = I[i].double
  BY <1>1, Sites DEF DoubleSite, At
<1>5. ASSUME NEW o \in PtrIdx
      PROVE  Map(I, B)[ChildSite(i, o)] = Child(B, I[i], o)
  BY <1>1, Sites DEF ChildSite, At
<1> QED BY <1>2, <1>3, <1>4, <1>5 DEF Map

-----------------------------------------------------------------------------
(***************************************************************************)
(* The references the loader counts are the entries of the map.            *)
(***************************************************************************)

\* There are finitely many sites.
LEMMA SitesFinite == IsFiniteSet(Site)
<1>1. IsFiniteSet(LogicalBlocks)
  <2> DEFINE P == PointersPerBlock
             S == P * P
  <2>1. P \in Nat /\ S \in Nat /\ DirectBlocks \in Nat
    BY SizesAssumption
  <2>2. MaxFileBlocks = DirectBlocks + P + S
    BY DEF MaxFileBlocks
  <2> HIDE DEF S, P
  <2>3. MaxFileBlocks - 1 \in Int /\ 0 \in Int
    BY <2>1, <2>2
  <2> QED BY <2>3, FS_Interval DEF LogicalBlocks
<1>2. IsFiniteSet(PtrIdx)
  BY SizesAssumption, FS_Interval DEF PtrIdx
<1>3. IsFiniteSet(Ino)
  BY SizesAssumption, FS_Interval DEF Ino
<1>4. /\ IsFiniteSet({"data"}) /\ IsFiniteSet({"child"}) /\ IsFiniteSet({0})
      /\ IsFiniteSet({"indirect"}) /\ IsFiniteSet({"double"})
  BY FS_Singleton
<1>5. IsFiniteSet({"indirect", "double"})
  <2>1. IsFiniteSet({"indirect"} \union {"double"})
    BY <1>4, FS_AddElement
  <2>2. {"indirect", "double"} = {"indirect"} \union {"double"}
    OBVIOUS
  <2> QED BY <2>1, <2>2, Zenon
<1>6. /\ IsFiniteSet({"data"} \X LogicalBlocks)
      /\ IsFiniteSet({"indirect", "double"} \X {0})
      /\ IsFiniteSet({"child"} \X PtrIdx)
  BY <1>1, <1>2, <1>4, <1>5, FS_Product
<1>7. IsFiniteSet(LocalSite)
  BY <1>6, FS_Union DEF LocalSite
<1> QED BY <1>3, <1>7, FS_Product DEF Site

\* A reference is a site that names a block, with the block.
LEMMA RefsAreSites ==
  ASSUME NEW I, NEW B
  PROVE  Refs(I, B) = {<<s[1], s[2][1], s[2][2], Map(I, B)[s]>> :
                         s \in {t \in Site : Map(I, B)[t] # Invalid}}
<1> DEFINE f == Map(I, B)
           ref(s) == <<s[1], s[2][1], s[2][2], f[s]>>
           N == {t \in Site : f[t] # Invalid}
<1>1. \A i, k : /\ ref(DataSite(i, k)) = <<i, "data", k, f[DataSite(i, k)]>>
                /\ ref(SingleSite(i)) = <<i, "indirect", 0, f[SingleSite(i)]>>
                /\ ref(DoubleSite(i)) = <<i, "double", 0, f[DoubleSite(i)]>>
                /\ ref(ChildSite(i, k)) = <<i, "child", k, f[ChildSite(i, k)]>>
  BY DEF DataSite, SingleSite, DoubleSite, ChildSite
<1> HIDE DEF ref
<1>2. ASSUME NEW i \in Ino
      PROVE  /\ \A lb \in LogicalBlocks : f[DataSite(i, lb)] = DataPtr(B, I[i], lb)
             /\ f[SingleSite(i)] = I[i].indirect
             /\ f[DoubleSite(i)] = I[i].double
             /\ \A o \in PtrIdx : f[ChildSite(i, o)] = Child(B, I[i], o)
  BY MapAt
<1> HIDE DEF f
<1>3. ASSUME NEW i \in Ino, NEW r \in InodeRefs(B, I[i])
      PROVE  \E s \in N : <<i, r[1], r[2], r[3]>> = ref(s)
  <2>1. CASE r \in DataRefs(B, I[i])
    <3>1. PICK lb \in LogicalBlocks : r = <<"data", lb, DataPtr(B, I[i], lb)>>
      BY <2>1 DEF DataRefs
    <3>2. r[1] = "data" /\ r[2] = lb /\ r[3] = DataPtr(B, I[i], lb) /\ r[3] # Invalid
      BY <2>1, <3>1 DEF DataRefs
    <3>3. DataSite(i, lb) \in N
      BY <1>2, <3>2, Sites
    <3>4. <<i, r[1], r[2], r[3]>> = ref(DataSite(i, lb))
      BY <1>1, <1>2, <3>2
    <3> QED BY <3>3, <3>4
  <2>2. CASE r \in TableRefs(B, I[i])
    <3>1. r[3] # Invalid
      BY <2>2 DEF TableRefs
    <3>2. CASE r = <<"indirect", 0, I[i].indirect>>
      <4>1. r[1] = "indirect" /\ r[2] = 0 /\ r[3] = I[i].indirect
        BY <3>2
      <4>2. SingleSite(i) \in N /\ <<i, r[1], r[2], r[3]>> = ref(SingleSite(i))
        BY <1>1, <1>2, <3>1, <4>1, Sites
      <4> QED BY <4>2
    <3>3. CASE r = <<"double", 0, I[i].double>>
      <4>1. r[1] = "double" /\ r[2] = 0 /\ r[3] = I[i].double
        BY <3>3
      <4>2. DoubleSite(i) \in N /\ <<i, r[1], r[2], r[3]>> = ref(DoubleSite(i))
        BY <1>1, <1>2, <3>1, <4>1, Sites
      <4> QED BY <4>2
    <3>4. ASSUME NEW o \in PtrIdx, r = <<"child", o, Child(B, I[i], o)>>
          PROVE  \E s \in N : <<i, r[1], r[2], r[3]>> = ref(s)
      <4>1. r[1] = "child" /\ r[2] = o /\ r[3] = Child(B, I[i], o)
        BY <3>4
      <4>2. ChildSite(i, o) \in N /\ <<i, r[1], r[2], r[3]>> = ref(ChildSite(i, o))
        BY <1>1, <1>2, <3>1, <4>1, Sites
      <4> QED BY <4>2
    <3> QED BY <2>2, <3>2, <3>3, <3>4 DEF TableRefs
  <2> QED BY <2>1, <2>2 DEF InodeRefs
<1>4. ASSUME NEW s \in N
      PROVE  \E i \in Ino : \E r \in InodeRefs(B, I[i]) :
               ref(s) = <<i, r[1], r[2], r[3]>>
  <2>1. s \in Site /\ f[s] # Invalid
    OBVIOUS
  <2>2. ASSUME NEW i \in Ino, NEW lb \in LogicalBlocks, s = DataSite(i, lb)
        PROVE  \E r \in InodeRefs(B, I[i]) : ref(s) = <<i, r[1], r[2], r[3]>>
    <3> DEFINE r == <<"data", lb, DataPtr(B, I[i], lb)>>
    <3>1. r[1] = "data" /\ r[2] = lb /\ r[3] = DataPtr(B, I[i], lb)
      OBVIOUS
    <3>2. r \in InodeRefs(B, I[i])
      BY <1>2, <2>1, <2>2, <3>1 DEF InodeRefs, DataRefs
    <3>3. ref(s) = <<i, r[1], r[2], r[3]>>
      BY <1>1, <1>2, <2>2, <3>1
    <3> QED BY <3>2, <3>3
  <2>3. ASSUME NEW i \in Ino, s = SingleSite(i)
        PROVE  \E r \in InodeRefs(B, I[i]) : ref(s) = <<i, r[1], r[2], r[3]>>
    <3> DEFINE r == <<"indirect", 0, I[i].indirect>>
    <3>1. r[1] = "indirect" /\ r[2] = 0 /\ r[3] = I[i].indirect
      OBVIOUS
    <3>2. r \in InodeRefs(B, I[i])
      BY <1>2, <2>1, <2>3, <3>1 DEF InodeRefs, TableRefs
    <3>3. ref(s) = <<i, r[1], r[2], r[3]>>
      BY <1>1, <1>2, <2>3, <3>1
    <3> QED BY <3>2, <3>3
  <2>4. ASSUME NEW i \in Ino, s = DoubleSite(i)
        PROVE  \E r \in InodeRefs(B, I[i]) : ref(s) = <<i, r[1], r[2], r[3]>>
    <3> DEFINE r == <<"double", 0, I[i].double>>
    <3>1. r[1] = "double" /\ r[2] = 0 /\ r[3] = I[i].double
      OBVIOUS
    <3>2. r \in InodeRefs(B, I[i])
      BY <1>2, <2>1, <2>4, <3>1 DEF InodeRefs, TableRefs
    <3>3. ref(s) = <<i, r[1], r[2], r[3]>>
      BY <1>1, <1>2, <2>4, <3>1
    <3> QED BY <3>2, <3>3
  <2>5. ASSUME NEW i \in Ino, NEW o \in PtrIdx, s = ChildSite(i, o)
        PROVE  \E r \in InodeRefs(B, I[i]) : ref(s) = <<i, r[1], r[2], r[3]>>
    <3> DEFINE r == <<"child", o, Child(B, I[i], o)>>
    <3>1. r[1] = "child" /\ r[2] = o /\ r[3] = Child(B, I[i], o)
      OBVIOUS
    <3>2. r \in InodeRefs(B, I[i])
      BY <1>2, <2>1, <2>5, <3>1 DEF InodeRefs, TableRefs
    <3>3. ref(s) = <<i, r[1], r[2], r[3]>>
      BY <1>1, <1>2, <2>5, <3>1
    <3> QED BY <3>2, <3>3
  <2> QED BY <2>1, <2>2, <2>3, <2>4, <2>5, Sites
<1>5. Refs(I, B) = {ref(s) : s \in N}
  <2> HIDE DEF N
  <2>1. ASSUME NEW e \in Refs(I, B) PROVE e \in {ref(s) : s \in N}
    <3>1. PICK i \in Ino : \E r \in InodeRefs(B, I[i]) : e = <<i, r[1], r[2], r[3]>>
      BY DEF Refs
    <3> QED BY <1>3, <3>1
  <2>2. ASSUME NEW e \in {ref(s) : s \in N} PROVE e \in Refs(I, B)
    BY <1>4 DEF Refs
  <2> QED BY <2>1, <2>2
<1> QED BY <1>5 DEF ref, f, N

\* The blocks claimed are those the map names.
LEMMA ClaimedIs ==
  ASSUME NEW I, NEW B
  PROVE  Claimed(I, B) = Img(Map(I, B))
<1> DEFINE f == Map(I, B)
           ref(s) == <<s[1], s[2][1], s[2][2], f[s]>>
           N == {t \in Site : f[t] # Invalid}
<1>1. Refs(I, B) = {ref(s) : s \in N}
  BY RefsAreSites
<1>2. \A s \in N : ref(s)[4] = f[s]
  OBVIOUS
<1>3. DOMAIN f = Site
  BY DEF Map
<1>4. Img(f) = {f[s] : s \in N}
  <2> HIDE DEF f
  <2> QED BY <1>3 DEF Img
<1> HIDE DEF ref, f
<1>5. Claimed(I, B) = {f[s] : s \in N}
  BY <1>1, <1>2 DEF Claimed
<1> QED BY <1>4, <1>5 DEF f

\* Comparing the number of references with the number of blocks claimed, as
\* the loader does, finds out whether a block is named twice.
LEMMA RefsCount ==
  ASSUME NEW I, NEW B
  PROVE  Cardinality(Claimed(I, B)) = Cardinality(Refs(I, B)) <=> Once(Map(I, B))
<1> DEFINE f == Map(I, B)
           ref(s) == <<s[1], s[2][1], s[2][2], f[s]>>
           N == {t \in Site : f[t] # Invalid}
           g == [s \in N |-> ref(s)]
           h == [s \in N |-> f[s]]
<1>1. IsFiniteSet(N)
  BY SitesFinite, FS_Subset
<1>2. Refs(I, B) = {ref(s) : s \in N} /\ DOMAIN f = Site
  BY RefsAreSites DEF Map
<1>3. ASSUME NEW s \in N, NEW t \in N, ref(s) = ref(t) PROVE s = t
  <2>1. s[1] = t[1] /\ s[2][1] = t[2][1] /\ s[2][2] = t[2][2]
    BY <1>3
  <2>2. \A x \in LocalSite : x = <<x[1], x[2]>>
    BY DEF LocalSite
  <2>3. /\ s = <<s[1], s[2]>> /\ t = <<t[1], t[2]>>
        /\ s[2] \in LocalSite /\ t[2] \in LocalSite
    BY DEF Site
  <2>4. s[2] = <<s[2][1], s[2][2]>> /\ t[2] = <<t[2][1], t[2][2]>>
    BY <2>2, <2>3
  <2> QED BY <2>1, <2>3, <2>4
<1> HIDE DEF ref, f, N
<1>4. g \in Bijection(N, Refs(I, B))
  <2>1. g \in [N -> Refs(I, B)]
    BY <1>2
  <2>2. \A a, b \in N : g[a] = g[b] => a = b
    BY <1>3
  <2>3. \A r \in Refs(I, B) : \E a \in N : g[a] = r
    BY <1>2
  <2> QED BY <2>1, <2>2, <2>3, Fun_IsBij
<1>5. Cardinality(Refs(I, B)) = Cardinality(N)
  <2>1. ExistsBijection(N, Refs(I, B))
    BY <1>4 DEF ExistsBijection
  <2> QED BY <1>1, <2>1, FS_Bijection
<1>6. Claimed(I, B) = {f[s] : s \in N}
  <2>1. Claimed(I, B) = Img(f)
    BY ClaimedIs DEF f
  <2> QED BY <1>2, <2>1 DEF Img, N
<1>7. h \in Surjection(N, Claimed(I, B))
  BY <1>6 DEF Surjection
<1>8. Cardinality(Claimed(I, B)) = Cardinality(N) <=> h \in Injection(N, Claimed(I, B))
  BY <1>1, <1>7, FS_Surjection
<1>9. h \in [N -> Claimed(I, B)]
  BY <1>6
<1>10. h \in Injection(N, Claimed(I, B)) <=> Once(f)
  <2>1. \A a \in N : h[a] = f[a]
    OBVIOUS
  <2> HIDE DEF h
  <2>2. h \in Injection(N, Claimed(I, B)) => \A a, b \in N : h[a] = h[b] => a = b
    BY Fun_InjectionProperties
  <2>3. (\A a, b \in N : h[a] = h[b] => a = b) => h \in Injection(N, Claimed(I, B))
    BY <1>9, Fun_IsInj
  <2> QED BY <1>2, <2>1, <2>2, <2>3 DEF Once, N
<1> QED BY <1>5, <1>8, <1>10 DEF f

-----------------------------------------------------------------------------
(***************************************************************************)
(* The bitmap and the count of free blocks.                                *)
(***************************************************************************)

\* The data area is finite and apart from the metadata.
LEMMA DataArea ==
  /\ IsFiniteSet(DataBlocks)
  /\ MetaBlocks \intersect DataBlocks = {}
  /\ Invalid \notin DataBlocks /\ Invalid \notin MetaBlocks
  /\ EIO \notin DataBlocks /\ Invalid # EIO
<1>1. IsFiniteSet(DataBlocks)
  BY Layout, FS_Interval DEF DataBlocks
<1> QED BY <1>1, Layout DEF DataBlocks, MetaBlocks, Invalid, EIO

\* Allocating and freeing keep free_blocks the number of unmarked blocks.
LEMMA FreeCount ==
  ASSUME freeBlocks = Cardinality(DataBlocks \ bitmap)
  PROVE  /\ \A b \in DataBlocks : alloc_block(b) =>
              freeBlocks' = Cardinality(DataBlocks \ bitmap')
         /\ \A S, T : free_block(S, T) =>
              freeBlocks' = Cardinality(DataBlocks \ bitmap')
<1> DEFINE R == DataBlocks \ bitmap
<1>1. IsFiniteSet(R)
  BY DataArea, FS_Subset
<1>2. Cardinality(R) \in Nat
  BY <1>1, FS_CardinalityType
<1>3. ASSUME NEW b \in DataBlocks, alloc_block(b)
      PROVE  freeBlocks' = Cardinality(DataBlocks \ bitmap')
  <2>1. b \in R /\ bitmap' = bitmap \union {b} /\ freeBlocks' = freeBlocks - 1
    BY <1>3 DEF alloc_block, FirstFree, FreeData
  <2>2. DataBlocks \ bitmap' = R \ {b}
    BY <2>1
  <2>3. Cardinality(R \ {b}) = Cardinality(R) - 1
    BY <1>1, <2>1, FS_RemoveElement
  <2> QED BY <2>1, <2>2, <2>3
<1>4. ASSUME NEW S, NEW T, free_block(S, T)
      PROVE  freeBlocks' = Cardinality(DataBlocks \ bitmap')
  <2> DEFINE F == S \intersect bitmap \intersect DataBlocks
  <2>1. bitmap' = bitmap \ F /\ freeBlocks' = freeBlocks + Cardinality(F)
    BY <1>4 DEF free_block
  <2>2. IsFiniteSet(F)
    BY DataArea, FS_Subset
  <2>3. Cardinality(F) \in Nat
    BY <2>2, FS_CardinalityType
  <2>4. DataBlocks \ bitmap' = R \union F /\ R \intersect F = {}
    BY <2>1
  <2> HIDE DEF R, F
  <2>5. Cardinality(R \union F) =
          Cardinality(R) + Cardinality(F) - Cardinality(R \intersect F)
    BY <1>1, <2>2, FS_Union
  <2>6. Cardinality(R \intersect F) = 0
    BY <2>4, FS_EmptySet
  <2>7. freeBlocks = Cardinality(R)
    BY DEF R
  <2>8. Cardinality(DataBlocks \ bitmap') = Cardinality(R \union F)
    BY <2>4
  <2> QED BY <1>2, <2>1, <2>3, <2>5, <2>6, <2>7, <2>8
<1> QED BY <1>3, <1>4

-----------------------------------------------------------------------------
(***************************************************************************)
(* Writes to the data area and changes of the inode table, as they show in *)
(* the block map.                                                          *)
(***************************************************************************)

\* C is B with block t overwritten.
OnlyAt(B, C, t) == \A u : u # t => AsPointers(C, u) = AsPointers(B, u)
\* Block t is no pointer table of an inode.
NoTable(B, nd, t) == /\ nd.indirect # t /\ nd.double # t
                     /\ \A o \in PtrIdx : Child(B, nd, o) # t
\* Two maps agree on an inode.
Agree(f, g, i) == \A s \in Site : s[1] = i => g[s] = f[s]
SamePointers(nd, md) ==
  md.direct = nd.direct /\ md.indirect = nd.indirect /\ md.double = nd.double

\* What a block write does to pointer tables.
LEMMA WriteOnly ==
  ASSUME TypeInv, NEW t, NEW c, write_block(t, c)
  PROVE  /\ OnlyAt(blk, blk', t)
         /\ \A p : c = PtrBlock(p) /\ t \in DataBlocks
                     => blk'[t] = c /\ AsPointers(blk', t) = p
<1>1. blk \in [DataBlocks -> Content] /\ blk' = [blk EXCEPT ![t] = c]
  BY TypeParts DEF DataOK, write_block
<1>2. OnlyAt(blk, blk', t)
  BY <1>1 DEF OnlyAt, AsPointers
<1>3. ASSUME NEW p, c = PtrBlock(p), t \in DataBlocks
      PROVE  blk'[t] = c /\ AsPointers(blk', t) = p
  <2>1. blk'[t] = c
    BY <1>1, <1>3
  <2>2. c.kind = "ptrs" /\ c.ptrs = p
    BY <1>3 DEF PtrBlock
  <2> QED BY <1>3, <2>1, <2>2 DEF AsPointers
<1> QED BY <1>2, <1>3

\* A block that is not written keeps what it holds.
LEMMA WriteOther ==
  ASSUME TypeInv, NEW t, NEW c, write_block(t, c), NEW u \in DataBlocks, u # t
  PROVE  blk'[u] = blk[u]
BY TypeParts DEF DataOK, write_block

\* The block map of an inode depends on its pointers and on its own tables.
LEMMA InodeSame ==
  ASSUME NEW I, NEW J, NEW B, NEW C, NEW i \in Ino, NEW t,
         SamePointers(I[i], J[i]), OnlyAt(B, C, t),
         t = Invalid \/ NoTable(B, I[i], t)
  PROVE  Agree(Map(I, B), Map(J, C), i)
<1>1. /\ \A u, o : u = Invalid \/ u # t => PtrAt(C, u, o) = PtrAt(B, u, o)
      /\ \/ t = Invalid
         \/ /\ I[i].indirect # t /\ I[i].double # t
            /\ \A o \in PtrIdx : Child(B, I[i], o) # t
  BY DEF PtrAt, OnlyAt, NoTable
<1>2. \A o : Child(C, J[i], o) = Child(B, I[i], o)
  BY <1>1 DEF Child, SamePointers
<1>3. ASSUME NEW lb \in LogicalBlocks
      PROVE  DataPtr(C, J[i], lb) = DataPtr(B, I[i], lb)
  <2>1. CASE lb < DirectBlocks
    BY <2>1 DEF DataPtr, SamePointers
  <2>2. CASE ~(lb < DirectBlocks) /\ InIndirect(lb)
    BY <1>1, <2>2 DEF DataPtr, SamePointers
  <2>3. CASE ~(lb < DirectBlocks) /\ ~InIndirect(lb)
    <3>1. Outer(lb) \in PtrIdx
      BY <2>3, BlockPlace
    <3> QED BY <1>1, <1>2, <2>3, <3>1 DEF DataPtr
  <2> QED BY <2>1, <2>2, <2>3
<1>4. SUFFICES ASSUME NEW s \in Site, s[1] = i PROVE Map(J, C)[s] = Map(I, B)[s]
  BY DEF Agree
<1>5. PICK j \in Ino : \/ \E lb \in LogicalBlocks : s = DataSite(j, lb)
                       \/ s = SingleSite(j)
                       \/ s = DoubleSite(j)
                       \/ \E o \in PtrIdx : s = ChildSite(j, o)
  BY Sites
<1>6. j = i
  BY <1>4, <1>5 DEF DataSite, SingleSite, DoubleSite, ChildSite
<1> QED BY <1>2, <1>3, <1>5, <1>6, MapAt DEF SamePointers

\* All inodes keep their pointers.
AllSame(I, J) == \A i \in Ino : SamePointers(I[i], J[i])
\* Block t is not named, or is named as file data or directory entries.
Harmless(I, B, t) ==
  \/ t = Invalid \/ t \notin Img(Map(I, B))
  \/ /\ Once(Map(I, B))
     /\ \E i \in Ino, lb \in LogicalBlocks : t = DataPtr(B, I[i], lb)

\* Overwriting a block that is no pointer table, and changing nothing of an
\* inode that the map depends on, leaves the map as it is.
LEMMA MapSame ==
  ASSUME NEW I, NEW J, NEW B, NEW C, NEW t, OnlyAt(B, C, t),
         AllSame(I, J), Harmless(I, B, t)
  PROVE  Map(J, C) = Map(I, B)
<1>1. DOMAIN Map(I, B) = Site /\ DOMAIN Map(J, C) = Site
  BY DEF Map
<1>2. ASSUME NEW s \in Site,
             \A j, lb : s # DataSite(j, lb)
      PROVE  t = Invalid \/ Map(I, B)[s] # t
  <2>1. CASE t \notin Img(Map(I, B))
    BY <1>1, <2>1 DEF Img
  <2>2. ASSUME Once(Map(I, B)), NEW i \in Ino, NEW lb \in LogicalBlocks,
               t = DataPtr(B, I[i], lb)
        PROVE  t = Invalid \/ Map(I, B)[s] # t
    <3>1. t = Map(I, B)[DataSite(i, lb)] /\ DataSite(i, lb) \in Site
      BY <2>2, MapAt, Sites
    <3>2. s # DataSite(i, lb)
      BY <1>2
    <3> QED BY <1>1, <2>2, <3>1, <3>2 DEF Once
  <2> QED BY <2>1, <2>2 DEF Harmless
<1>3. ASSUME NEW i \in Ino
      PROVE  Agree(Map(I, B), Map(J, C), i)
  <2>1. t = Invalid \/ NoTable(B, I[i], t)
    BY <1>2, MapAt, Sites, SitesApart DEF NoTable
  <2>2. SamePointers(I[i], J[i])
    BY DEF AllSame
  <2> QED BY <2>1, <2>2, InodeSame
<1>4. \A s \in Site : s[1] \in Ino
  BY DEF Site
<1>5. \A s \in Site : Map(J, C)[s] = Map(I, B)[s]
  BY <1>3, <1>4 DEF Agree
<1> QED BY <1>5 DEF Map

-----------------------------------------------------------------------------
(***************************************************************************)
(* The six kinds of sites: a direct pointer, an entry of the indirect      *)
(* table, an entry of a child table, the pointers to the indirect table    *)
(* and to the root, an entry of the root.                                  *)
(***************************************************************************)
DirectSite(i, k)   == DataSite(i, k)
IndirectSite(i, p) == DataSite(i, DirectBlocks + p)
LeafSite(i, o, p)  ==
  DataSite(i, DirectBlocks + (o + 1) * PointersPerBlock + p)

\* Every site is of one of the kinds.
LEMMA SiteKinds ==
  ASSUME NEW s \in Site
  PROVE  \E i \in Ino :
           \/ \E k \in DirectIdx : s = DirectSite(i, k)
           \/ \E p \in PtrIdx : s = IndirectSite(i, p)
           \/ \E o, p \in PtrIdx : s = LeafSite(i, o, p)
           \/ s = SingleSite(i)
           \/ s = DoubleSite(i)
           \/ \E o \in PtrIdx : s = ChildSite(i, o)
<1>1. ASSUME NEW i \in Ino, NEW lb \in LogicalBlocks, s = DataSite(i, lb)
      PROVE  \/ \E k \in DirectIdx : s = DirectSite(i, k)
             \/ \E p \in PtrIdx : s = IndirectSite(i, p)
             \/ \E o, p \in PtrIdx : s = LeafSite(i, o, p)
  <2>1. CASE lb \in DirectIdx
    BY <1>1, <2>1 DEF DirectSite
  <2>2. CASE lb \notin DirectIdx /\ InIndirect(lb)
    <3>1. lb - DirectBlocks \in PtrIdx /\ lb \in Nat
      BY <2>2, BlockPlace
    <3>2. lb = DirectBlocks + (lb - DirectBlocks)
      BY <3>1, SizesAssumption
    <3> QED BY <1>1, <3>1, <3>2 DEF IndirectSite
  <2>3. CASE lb \notin DirectIdx /\ ~InIndirect(lb)
    <3>1. /\ Outer(lb) \in PtrIdx /\ Inner(lb) \in PtrIdx
          /\ lb = DirectBlocks + (Outer(lb) + 1) * PointersPerBlock + Inner(lb)
      BY <2>3, BlockPlace
    <3>2. s = LeafSite(i, Outer(lb), Inner(lb))
      BY <1>1, <3>1 DEF LeafSite
    <3> QED BY <3>1, <3>2
  <2> QED BY <2>1, <2>2, <2>3
<1> QED BY <1>1, Sites

\* They are sites.
LEMMA KindsAreSites ==
  ASSUME NEW i \in Ino
  PROVE  /\ \A k \in DirectIdx : DirectSite(i, k) \in Site
         /\ \A p \in PtrIdx : IndirectSite(i, p) \in Site
         /\ \A o, p \in PtrIdx : LeafSite(i, o, p) \in Site
         /\ SingleSite(i) \in Site /\ DoubleSite(i) \in Site
         /\ \A o \in PtrIdx : ChildSite(i, o) \in Site
BY Sites, PlaceBlock DEF DirectSite, IndirectSite, LeafSite

\* The kinds have no site in common, and a site of a kind is one place.
LEMMA TableKindsApart ==
  ASSUME NEW i, NEW j
  PROVE  /\ \A k : DirectSite(i, k) # SingleSite(j)
                   /\ DirectSite(i, k) # DoubleSite(j)
         /\ \A k, o : DirectSite(i, k) # ChildSite(j, o)
         /\ \A k : IndirectSite(i, k) # SingleSite(j)
                   /\ IndirectSite(i, k) # DoubleSite(j)
         /\ \A k, o : IndirectSite(i, k) # ChildSite(j, o)
         /\ \A n, k : LeafSite(i, n, k) # SingleSite(j)
                      /\ LeafSite(i, n, k) # DoubleSite(j)
         /\ \A n, k, o : LeafSite(i, n, k) # ChildSite(j, o)
         /\ SingleSite(i) # DoubleSite(j)
         /\ \A o : ChildSite(i, o) # SingleSite(j)
                   /\ ChildSite(i, o) # DoubleSite(j)
         /\ SingleSite(i) = SingleSite(j) => i = j
         /\ DoubleSite(i) = DoubleSite(j) => i = j
         /\ \A o, n : ChildSite(i, o) = ChildSite(j, n) => i = j /\ o = n
BY SitesApart DEF DirectSite, IndirectSite, LeafSite

\* What a map says at each kind of site.
LEMMA MapKinds ==
  ASSUME NEW I, NEW B, NEW i \in Ino
  PROVE  /\ DOMAIN Map(I, B) = Site
         /\ \A k \in DirectIdx : Map(I, B)[DirectSite(i, k)] = I[i].direct[k]
         /\ \A p \in PtrIdx :
              Map(I, B)[IndirectSite(i, p)] = PtrAt(B, I[i].indirect, p)
         /\ \A o, p \in PtrIdx :
              Map(I, B)[LeafSite(i, o, p)] = PtrAt(B, Child(B, I[i], o), p)
         /\ Map(I, B)[SingleSite(i)] = I[i].indirect
         /\ Map(I, B)[DoubleSite(i)] = I[i].double
         /\ \A o \in PtrIdx : Map(I, B)[ChildSite(i, o)] = Child(B, I[i], o)
<1>1. ASSUME NEW k \in DirectIdx
      PROVE  Map(I, B)[DirectSite(i, k)] = I[i].direct[k]
  <2>1. k \in LogicalBlocks /\ k < DirectBlocks
    BY PlaceBlock, SizesAssumption DEF DirectIdx
  <2> QED BY <2>1, MapAt DEF DirectSite, DataPtr
<1>2. ASSUME NEW p \in PtrIdx
      PROVE  Map(I, B)[IndirectSite(i, p)] = PtrAt(B, I[i].indirect, p)
  <2> DEFINE lb == DirectBlocks + p
  <2>1. lb \in LogicalBlocks /\ InIndirect(lb)
    BY PlaceBlock
  <2>2. ~(lb < DirectBlocks) /\ lb - DirectBlocks = p
    BY SizesAssumption DEF PtrIdx
  <2>3. Map(I, B)[DataSite(i, lb)] = DataPtr(B, I[i], lb)
    BY <2>1, MapAt
  <2> HIDE DEF lb
  <2> QED BY <2>1, <2>2, <2>3 DEF IndirectSite, DataPtr, lb
<1>3. ASSUME NEW o \in PtrIdx, NEW p \in PtrIdx
      PROVE  Map(I, B)[LeafSite(i, o, p)] = PtrAt(B, Child(B, I[i], o), p)
  <2> DEFINE lb == DirectBlocks + (o + 1) * PointersPerBlock + p
  <2>1. lb \in LogicalBlocks /\ InDouble(lb) /\ Outer(lb) = o /\ Inner(lb) = p
    BY PlaceBlock
  <2>2. Map(I, B)[DataSite(i, lb)] = DataPtr(B, I[i], lb)
    BY <2>1, MapAt
  <2>3. LeafSite(i, o, p) = DataSite(i, lb)
    BY DEF LeafSite
  <2> HIDE DEF lb
  <2>4. ~InIndirect(lb) /\ ~(lb < DirectBlocks)
    BY <2>1, BlockPlace
  <2> QED BY <2>1, <2>2, <2>3, <2>4 DEF DataPtr
<1> QED BY <1>1, <1>2, <1>3, MapAt

-----------------------------------------------------------------------------
(***************************************************************************)
(* How the map changes when one pointer of an inode or one of its tables   *)
(* does.                                                                   *)
(***************************************************************************)
DirectSites(i)   == {DirectSite(i, k) : k \in DirectIdx}
IndirectSites(i) == {IndirectSite(i, p) : p \in PtrIdx}
LeafSites(i, o)  == {LeafSite(i, o, p) : p \in PtrIdx}

\* Two maps differ at sites of X at most.
AgreeBut(f, g, X) == \A s \in Site : s \notin X => g[s] = f[s]

\* Inodes other than i keep their pointers.
OthersSame(I, J, i) == \A j \in Ino : j # i => SamePointers(I[j], J[j])

\* An inode's tables and blocks are no tables of another.
LEMMA TablesApart ==
  ASSUME NEW I, NEW B, NEW i \in Ino, NEW j \in Ino, i # j, Once(Map(I, B)),
         NEW s \in Site, s[1] = i, Map(I, B)[s] # Invalid
  PROVE  NoTable(B, I[j], Map(I, B)[s])
<1>1. DOMAIN Map(I, B) = Site
  BY DEF Map
<1>2. \A r \in Site : r[1] = j => Map(I, B)[r] # Map(I, B)[s]
  BY <1>1 DEF Once
<1>3. SingleSite(j)[1] = j /\ DoubleSite(j)[1] = j
      /\ \A o : ChildSite(j, o)[1] = j
  BY DEF SingleSite, DoubleSite, ChildSite
<1> QED BY <1>2, <1>3, MapKinds, KindsAreSites DEF NoTable

\* The other inodes keep their part of the map.
LEMMA OthersAgree ==
  ASSUME NEW I, NEW J, NEW B, NEW C, NEW i \in Ino, NEW t,
         OthersSame(I, J, i), OnlyAt(B, C, t),
         \/ t = Invalid
         \/ /\ Once(Map(I, B))
            /\ \E s \in Site : s[1] = i /\ t = Map(I, B)[s]
  PROVE  \A j \in Ino : j # i => Agree(Map(I, B), Map(J, C), j)
<1> SUFFICES ASSUME NEW j \in Ino, j # i PROVE Agree(Map(I, B), Map(J, C), j)
  OBVIOUS
<1>1. SamePointers(I[j], J[j])
  BY DEF OthersSame
<1>2. t = Invalid \/ NoTable(B, I[j], t)
  BY TablesApart
<1> QED BY <1>1, <1>2, InodeSame

\* It is enough to look at the sites of the inode that changes.
LEMMA OwnSites ==
  ASSUME NEW f, NEW g, NEW i \in Ino, NEW X,
         \A j \in Ino : j # i => Agree(f, g, j),
         \A k \in DirectIdx :
           DirectSite(i, k) \in X \/ g[DirectSite(i, k)] = f[DirectSite(i, k)],
         \A p \in PtrIdx :
           \/ IndirectSite(i, p) \in X
           \/ g[IndirectSite(i, p)] = f[IndirectSite(i, p)],
         \A o, p \in PtrIdx :
           LeafSite(i, o, p) \in X \/ g[LeafSite(i, o, p)] = f[LeafSite(i, o, p)],
         SingleSite(i) \in X \/ g[SingleSite(i)] = f[SingleSite(i)],
         DoubleSite(i) \in X \/ g[DoubleSite(i)] = f[DoubleSite(i)],
         \A o \in PtrIdx :
           ChildSite(i, o) \in X \/ g[ChildSite(i, o)] = f[ChildSite(i, o)]
  PROVE  AgreeBut(f, g, X)
<1> SUFFICES ASSUME NEW s \in Site, s \notin X PROVE g[s] = f[s]
  BY DEF AgreeBut
<1>1. PICK j \in Ino :
           \/ \E k \in DirectIdx : s = DirectSite(j, k)
           \/ \E p \in PtrIdx : s = IndirectSite(j, p)
           \/ \E o, p \in PtrIdx : s = LeafSite(j, o, p)
           \/ s = SingleSite(j)
           \/ s = DoubleSite(j)
           \/ \E o \in PtrIdx : s = ChildSite(j, o)
  BY SiteKinds
<1>2. s[1] = j
  BY <1>1 DEF DirectSite, IndirectSite, LeafSite, DataSite, SingleSite,
       DoubleSite, ChildSite
<1>3. CASE j # i
  BY <1>2, <1>3 DEF Agree
<1>4. CASE j = i
  BY <1>1, <1>4
<1> QED BY <1>3, <1>4

\* Nothing is written at all.
LEMMA NoneWritten == \A B : OnlyAt(B, B, Invalid)
BY DEF OnlyAt

\* New direct pointers.
LEMMA PutDirect ==
  ASSUME NEW I, NEW J, NEW B, NEW i \in Ino, OthersSame(I, J, i),
         J[i].indirect = I[i].indirect, J[i].double = I[i].double
  PROVE  AgreeBut(Map(I, B), Map(J, B), DirectSites(i))
<1> DEFINE f == Map(I, B)
           g == Map(J, B)
<1>1. \A j \in Ino : j # i => Agree(f, g, j)
  BY NoneWritten, OthersAgree
<1>2. \A o : Child(B, J[i], o) = Child(B, I[i], o)
  BY DEF Child
<1>3. /\ \A p \in PtrIdx : g[IndirectSite(i, p)] = f[IndirectSite(i, p)]
      /\ \A o, p \in PtrIdx : g[LeafSite(i, o, p)] = f[LeafSite(i, o, p)]
      /\ g[SingleSite(i)] = f[SingleSite(i)]
      /\ g[DoubleSite(i)] = f[DoubleSite(i)]
      /\ \A o \in PtrIdx : g[ChildSite(i, o)] = f[ChildSite(i, o)]
  BY <1>2, MapKinds
<1> HIDE DEF f, g
<1> QED BY <1>1, <1>3, OwnSites DEF DirectSites, f, g

\* A new pointer to the indirect table.
LEMMA PutSingle ==
  ASSUME NEW I, NEW J, NEW B, NEW i \in Ino, OthersSame(I, J, i),
         J[i].direct = I[i].direct, J[i].double = I[i].double
  PROVE  AgreeBut(Map(I, B), Map(J, B), IndirectSites(i) \union {SingleSite(i)})
<1> DEFINE f == Map(I, B)
           g == Map(J, B)
<1>1. \A j \in Ino : j # i => Agree(f, g, j)
  BY NoneWritten, OthersAgree
<1>2. \A o : Child(B, J[i], o) = Child(B, I[i], o)
  BY DEF Child
<1>3. /\ \A k \in DirectIdx : g[DirectSite(i, k)] = f[DirectSite(i, k)]
      /\ \A o, p \in PtrIdx : g[LeafSite(i, o, p)] = f[LeafSite(i, o, p)]
      /\ g[DoubleSite(i)] = f[DoubleSite(i)]
      /\ \A o \in PtrIdx : g[ChildSite(i, o)] = f[ChildSite(i, o)]
  BY <1>2, MapKinds
<1> HIDE DEF f, g
<1> QED BY <1>1, <1>3, OwnSites DEF IndirectSites, f, g

\* The sites below the root, and below child o.
RootSites(i) == {DoubleSite(i)} \union {ChildSite(i, o) : o \in PtrIdx}
                  \union UNION {LeafSites(i, o) : o \in PtrIdx}

\* A new pointer to the double-indirect root.
LEMMA PutDouble ==
  ASSUME NEW I, NEW J, NEW B, NEW i \in Ino, OthersSame(I, J, i),
         J[i].direct = I[i].direct, J[i].indirect = I[i].indirect
  PROVE  AgreeBut(Map(I, B), Map(J, B), RootSites(i))
<1> DEFINE f == Map(I, B)
           g == Map(J, B)
<1>1. \A j \in Ino : j # i => Agree(f, g, j)
  BY NoneWritten, OthersAgree
<1>2. /\ \A k \in DirectIdx : g[DirectSite(i, k)] = f[DirectSite(i, k)]
      /\ \A p \in PtrIdx : g[IndirectSite(i, p)] = f[IndirectSite(i, p)]
      /\ g[SingleSite(i)] = f[SingleSite(i)]
  BY MapKinds
<1>3. /\ DoubleSite(i) \in RootSites(i)
      /\ \A o \in PtrIdx : ChildSite(i, o) \in RootSites(i)
      /\ \A o, p \in PtrIdx : LeafSite(i, o, p) \in RootSites(i)
  BY DEF RootSites, LeafSites
<1> HIDE DEF f, g
<1> QED BY <1>1, <1>2, <1>3, OwnSites DEF f, g

\* The indirect table is written.
LEMMA WriteSingle ==
  ASSUME NEW I, NEW B, NEW C, NEW i \in Ino, Once(Map(I, B)),
         I[i].indirect # Invalid, OnlyAt(B, C, I[i].indirect)
  PROVE  AgreeBut(Map(I, B), Map(I, C), IndirectSites(i))
<1> DEFINE f == Map(I, B)
           g == Map(I, C)
           t == I[i].indirect
<1>0. DOMAIN f = Site /\ f[SingleSite(i)] = t /\ SingleSite(i) \in Site
  BY MapKinds, KindsAreSites
<1>1. \A j \in Ino : j # i => Agree(f, g, j)
  <2>1. OthersSame(I, I, i)
    BY DEF OthersSame, SamePointers
  <2>2. SingleSite(i)[1] = i
    BY DEF SingleSite
  <2> QED BY <1>0, <2>1, <2>2, OthersAgree
<1>2. I[i].double # t /\ \A o \in PtrIdx : Child(B, I[i], o) # t
  BY <1>0, MapKinds, KindsAreSites, TableKindsApart DEF Once
<1>3. \A u, p : u # t => PtrAt(C, u, p) = PtrAt(B, u, p)
  BY DEF PtrAt, OnlyAt
<1>4. \A o : Child(C, I[i], o) = Child(B, I[i], o)
  BY <1>2, <1>3 DEF Child
<1>5. /\ \A k \in DirectIdx : g[DirectSite(i, k)] = f[DirectSite(i, k)]
      /\ \A o, p \in PtrIdx : g[LeafSite(i, o, p)] = f[LeafSite(i, o, p)]
      /\ g[SingleSite(i)] = f[SingleSite(i)]
      /\ g[DoubleSite(i)] = f[DoubleSite(i)]
      /\ \A o \in PtrIdx : g[ChildSite(i, o)] = f[ChildSite(i, o)]
  BY <1>2, <1>3, <1>4, MapKinds
<1> HIDE DEF f, g, t
<1> QED BY <1>1, <1>5, OwnSites DEF IndirectSites, f, g

\* A child table is written.
LEMMA WriteChild ==
  ASSUME NEW I, NEW B, NEW C, NEW i \in Ino, Once(Map(I, B)), NEW o \in PtrIdx,
         Child(B, I[i], o) # Invalid, OnlyAt(B, C, Child(B, I[i], o))
  PROVE  AgreeBut(Map(I, B), Map(I, C), LeafSites(i, o))
<1> DEFINE f == Map(I, B)
           g == Map(I, C)
           t == Child(B, I[i], o)
<1>0. DOMAIN f = Site /\ f[ChildSite(i, o)] = t /\ ChildSite(i, o) \in Site
  BY MapKinds, KindsAreSites
<1>1. \A j \in Ino : j # i => Agree(f, g, j)
  <2>1. OthersSame(I, I, i)
    BY DEF OthersSame, SamePointers
  <2>2. ChildSite(i, o)[1] = i
    BY DEF ChildSite
  <2> QED BY <1>0, <2>1, <2>2, OthersAgree
<1>2. /\ I[i].double # t /\ I[i].indirect # t
      /\ \A n \in PtrIdx : n # o => Child(B, I[i], n) # t
  BY <1>0, MapKinds, KindsAreSites, TableKindsApart DEF Once
<1>3. \A u, p : u # t => PtrAt(C, u, p) = PtrAt(B, u, p)
  BY DEF PtrAt, OnlyAt
<1>4. \A n : Child(C, I[i], n) = Child(B, I[i], n)
  BY <1>2, <1>3 DEF Child
<1>5. /\ \A k \in DirectIdx : g[DirectSite(i, k)] = f[DirectSite(i, k)]
      /\ \A p \in PtrIdx : g[IndirectSite(i, p)] = f[IndirectSite(i, p)]
      /\ \A n, p \in PtrIdx :
           n # o => g[LeafSite(i, n, p)] = f[LeafSite(i, n, p)]
      /\ g[SingleSite(i)] = f[SingleSite(i)]
      /\ g[DoubleSite(i)] = f[DoubleSite(i)]
      /\ \A n \in PtrIdx : g[ChildSite(i, n)] = f[ChildSite(i, n)]
  BY <1>2, <1>3, <1>4, MapKinds
<1>6. \A n, p \in PtrIdx : LeafSite(i, n, p) \in LeafSites(i, o)
                             \/ g[LeafSite(i, n, p)] = f[LeafSite(i, n, p)]
  BY <1>5 DEF LeafSites
<1> HIDE DEF f, g, t
<1> QED BY <1>1, <1>5, <1>6, OwnSites DEF f, g

\* Table t keeps its entries but those of O.
SameEntriesBut(B, C, t, O) ==
  \A o \in PtrIdx : o \notin O => AsPointers(C, t)[o] = AsPointers(B, t)[o]

\* The sites that entries O of the root stand for: the children and their
\* leaves.
EntrySites(i, O) ==
  {ChildSite(i, o) : o \in O} \union UNION {LeafSites(i, o) : o \in O}

\* The root is written: its children change where its entries do.
LEMMA WriteRoot ==
  ASSUME NEW I, NEW B, NEW C, NEW i \in Ino, Once(Map(I, B)), NEW O,
         I[i].double # Invalid, OnlyAt(B, C, I[i].double),
         SameEntriesBut(B, C, I[i].double, O)
  PROVE  AgreeBut(Map(I, B), Map(I, C), EntrySites(i, O))
<1> DEFINE f == Map(I, B)
           g == Map(I, C)
           t == I[i].double
           X == EntrySites(i, O)
<1>0. DOMAIN f = Site /\ f[DoubleSite(i)] = t /\ DoubleSite(i) \in Site
  BY MapKinds, KindsAreSites
<1>1. \A j \in Ino : j # i => Agree(f, g, j)
  <2>1. OthersSame(I, I, i)
    BY DEF OthersSame, SamePointers
  <2>2. DoubleSite(i)[1] = i
    BY DEF DoubleSite
  <2> QED BY <1>0, <2>1, <2>2, OthersAgree
<1>2. I[i].indirect # t /\ \A o \in PtrIdx : Child(B, I[i], o) # t
  BY <1>0, MapKinds, KindsAreSites, TableKindsApart DEF Once
<1>3. \A u, p : u # t => PtrAt(C, u, p) = PtrAt(B, u, p)
  BY DEF PtrAt, OnlyAt
<1>4. \A o \in PtrIdx : o \notin O => Child(C, I[i], o) = Child(B, I[i], o)
  BY DEF Child, PtrAt, SameEntriesBut
<1>5. /\ \A k \in DirectIdx : g[DirectSite(i, k)] = f[DirectSite(i, k)]
      /\ \A p \in PtrIdx : g[IndirectSite(i, p)] = f[IndirectSite(i, p)]
      /\ \A n, p \in PtrIdx :
           n \notin O => g[LeafSite(i, n, p)] = f[LeafSite(i, n, p)]
      /\ g[SingleSite(i)] = f[SingleSite(i)]
      /\ g[DoubleSite(i)] = f[DoubleSite(i)]
      /\ \A n \in PtrIdx : n \notin O => g[ChildSite(i, n)] = f[ChildSite(i, n)]
  BY <1>2, <1>3, <1>4, MapKinds
<1>6. /\ \A n \in PtrIdx : n \in O => ChildSite(i, n) \in X
      /\ \A n, p \in PtrIdx : n \in O => LeafSite(i, n, p) \in X
  BY DEF LeafSites, EntrySites
<1> HIDE DEF f, g, t, X
<1> QED BY <1>1, <1>5, <1>6, OwnSites DEF f, g, X

-----------------------------------------------------------------------------
(***************************************************************************)
(* Cutting sites out of the map.                                           *)
(***************************************************************************)

\* Map g is f without the sites of X; S are the blocks those sites named.
CutAt(f, g, X) == \A s \in Site : g[s] = IF s \in X THEN Invalid ELSE f[s]
Freed(S, f, X) == S \ {Invalid} = {f[s] : s \in X} \ {Invalid}

\* The sites of an inode.
Owned(i) == {s \in Site : s[1] = i}

\* An inode that is emptied takes its sites out of the map.
LEMMA DropInode ==
  ASSUME NEW I, NEW J, NEW B, NEW i \in Ino, OthersSame(I, J, i),
         J[i] = EmptyInode("FREE")
  PROVE  CutAt(Map(I, B), Map(J, B), Owned(i))
<1> DEFINE f == Map(I, B)
           g == Map(J, B)
<1>1. \A j \in Ino : j # i => Agree(f, g, j)
  BY NoneWritten, OthersAgree
<1>2. /\ \A k \in DirectIdx : J[i].direct[k] = Invalid
      /\ J[i].indirect = Invalid /\ J[i].double = Invalid
  BY DEF EmptyInode
<1>3. \A p : PtrAt(B, Invalid, p) = Invalid
  BY DEF PtrAt
<1>4. /\ \A k \in DirectIdx : g[DirectSite(i, k)] = Invalid
      /\ \A p \in PtrIdx : g[IndirectSite(i, p)] = Invalid
      /\ \A o, p \in PtrIdx : g[LeafSite(i, o, p)] = Invalid
      /\ g[SingleSite(i)] = Invalid /\ g[DoubleSite(i)] = Invalid
      /\ \A o \in PtrIdx : g[ChildSite(i, o)] = Invalid
  BY <1>2, <1>3, MapKinds DEF Child
<1> HIDE DEF f, g
<1>5. ASSUME NEW s \in Site, s[1] = i PROVE g[s] = Invalid
  <2>1. PICK j \in Ino :
           \/ \E k \in DirectIdx : s = DirectSite(j, k)
           \/ \E p \in PtrIdx : s = IndirectSite(j, p)
           \/ \E o, p \in PtrIdx : s = LeafSite(j, o, p)
           \/ s = SingleSite(j)
           \/ s = DoubleSite(j)
           \/ \E o \in PtrIdx : s = ChildSite(j, o)
    BY SiteKinds
  <2>2. j = i
    BY <1>5, <2>1 DEF DirectSite, IndirectSite, LeafSite, DataSite, SingleSite,
         DoubleSite, ChildSite
  <2> QED BY <1>4, <2>1, <2>2
<1>6. ASSUME NEW s \in Site, s[1] # i PROVE g[s] = f[s]
  BY <1>1, <1>6 DEF Agree, Site
<1> QED BY <1>5, <1>6 DEF CutAt, Owned, f, g

\* Table t without its entries of Q.
CutEntries(B, C, t, Q) ==
  /\ OnlyAt(B, C, t)
  /\ \A p \in PtrIdx : AsPointers(C, t)[p] =
                         IF p \in Q THEN Invalid ELSE AsPointers(B, t)[p]

\* What becomes of the map when the indirect table is cut.
LEMMA CutSingleTable ==
  ASSUME NEW I, NEW B, NEW C, NEW i \in Ino, NEW Q, Q \subseteq PtrIdx,
         Once(Map(I, B)), I[i].indirect # Invalid,
         CutEntries(B, C, I[i].indirect, Q)
  PROVE  CutAt(Map(I, B), Map(I, C), {IndirectSite(i, p) : p \in Q})
<1> DEFINE f == Map(I, B)
           g == Map(I, C)
           X == {IndirectSite(i, p) : p \in Q}
<1>1. AgreeBut(f, g, IndirectSites(i))
  BY WriteSingle DEF CutEntries
<1>2. /\ \A p \in PtrIdx : f[IndirectSite(i, p)] = PtrAt(B, I[i].indirect, p)
      /\ \A p \in PtrIdx : g[IndirectSite(i, p)] = PtrAt(C, I[i].indirect, p)
  BY MapKinds
<1>3. \A p \in PtrIdx : g[IndirectSite(i, p)] =
                         IF p \in Q THEN Invalid ELSE f[IndirectSite(i, p)]
  BY <1>2 DEF CutEntries, PtrAt
<1> HIDE DEF f, g
<1>4. \A s \in Site : s \in X => g[s] = Invalid
  BY <1>3
<1>5. ASSUME NEW s \in Site, s \notin X PROVE g[s] = f[s]
  <2>1. CASE s \notin IndirectSites(i)
    BY <1>1, <2>1 DEF AgreeBut
  <2>2. ASSUME NEW p \in PtrIdx, s = IndirectSite(i, p) PROVE g[s] = f[s]
    BY <1>3, <1>5, <2>2
  <2> QED BY <2>1, <2>2 DEF IndirectSites
<1> QED BY <1>4, <1>5 DEF CutAt, f, g

\* The sites of entries Q of a child table.
LeafEntries(i, o, Q) == {LeafSite(i, o, p) : p \in Q}

\* The same for a child table.
LEMMA CutChildTable ==
  ASSUME NEW I, NEW B, NEW C, NEW i \in Ino, NEW o \in PtrIdx,
         NEW Q, Q \subseteq PtrIdx, Once(Map(I, B)),
         Child(B, I[i], o) # Invalid, CutEntries(B, C, Child(B, I[i], o), Q)
  PROVE  CutAt(Map(I, B), Map(I, C), LeafEntries(i, o, Q))
<1> DEFINE f == Map(I, B)
           g == Map(I, C)
           t == Child(B, I[i], o)
           X == LeafEntries(i, o, Q)
<1>1. AgreeBut(f, g, LeafSites(i, o))
  BY WriteChild DEF CutEntries
<1>2. Child(C, I[i], o) = t
  <2>1. ChildSite(i, o) \in Site /\ ChildSite(i, o) \notin LeafSites(i, o)
    BY KindsAreSites, TableKindsApart DEF LeafSites
  <2>2. f[ChildSite(i, o)] = t
    BY MapKinds
  <2>3. g[ChildSite(i, o)] = Child(C, I[i], o)
    BY MapKinds
  <2> HIDE DEF f, g
  <2> QED BY <1>1, <2>1, <2>2, <2>3 DEF AgreeBut
<1>3. \A p \in PtrIdx : f[LeafSite(i, o, p)] = PtrAt(B, t, p)
  BY MapKinds
<1>4. \A p \in PtrIdx : g[LeafSite(i, o, p)] = PtrAt(C, t, p)
  <2>1. \A p \in PtrIdx :
          g[LeafSite(i, o, p)] = PtrAt(C, Child(C, I[i], o), p)
    BY MapKinds
  <2> QED BY <1>2, <2>1
<1> HIDE DEF f, g
<1>5. \A p \in PtrIdx : g[LeafSite(i, o, p)] =
                         IF p \in Q THEN Invalid ELSE f[LeafSite(i, o, p)]
  BY <1>3, <1>4 DEF CutEntries, PtrAt
<1>6. \A s \in Site : s \in X => g[s] = Invalid
  BY <1>5 DEF LeafEntries
<1>7. ASSUME NEW s \in Site, s \notin X PROVE g[s] = f[s]
  <2>1. CASE s \notin LeafSites(i, o)
    BY <1>1, <2>1 DEF AgreeBut
  <2>2. ASSUME NEW p \in PtrIdx, s = LeafSite(i, o, p) PROVE g[s] = f[s]
    BY <1>5, <1>7, <2>2 DEF LeafEntries
  <2> QED BY <2>1, <2>2 DEF LeafSites
<1> QED BY <1>6, <1>7 DEF CutAt, f, g

\* The same for an entry of the root: its child goes with its leaves.
LEMMA CutRootTable ==
  ASSUME NEW I, NEW B, NEW C, NEW i \in Ino, NEW o \in PtrIdx,
         Once(Map(I, B)), I[i].double # Invalid,
         CutEntries(B, C, I[i].double, {o})
  PROVE  CutAt(Map(I, B), Map(I, C), {ChildSite(i, o)} \union LeafSites(i, o))
<1> DEFINE f == Map(I, B)
           g == Map(I, C)
           X == EntrySites(i, {o})
<1>1. AgreeBut(f, g, X)
  <2>1. SameEntriesBut(B, C, I[i].double, {o})
    BY DEF SameEntriesBut, CutEntries
  <2> QED BY <2>1, WriteRoot DEF CutEntries
<1>2. X = {ChildSite(i, o)} \union LeafSites(i, o)
  BY DEF EntrySites
<1>3. Child(C, I[i], o) = Invalid
  BY DEF Child, PtrAt, CutEntries
<1>4. g[ChildSite(i, o)] = Invalid
  BY <1>3, MapKinds
<1>5. \A p \in PtrIdx : g[LeafSite(i, o, p)] = Invalid
  <2>1. \A p \in PtrIdx :
          g[LeafSite(i, o, p)] = PtrAt(C, Child(C, I[i], o), p)
    BY MapKinds
  <2> QED BY <1>3, <2>1 DEF PtrAt
<1> HIDE DEF f, g, X
<1> QED BY <1>1, <1>2, <1>4, <1>5 DEF CutAt, AgreeBut, LeafSites, f, g

\* What becomes of the map when an inode loses its indirect table.
LEMMA CutIndirect ==
  ASSUME NEW I, NEW J, NEW B, NEW i \in Ino, OthersSame(I, J, i),
         J[i].direct = I[i].direct, J[i].double = I[i].double,
         J[i].indirect = Invalid
  PROVE  CutAt(Map(I, B), Map(J, B), IndirectSites(i) \union {SingleSite(i)})
<1> DEFINE f == Map(I, B)
           g == Map(J, B)
<1>1. AgreeBut(f, g, IndirectSites(i) \union {SingleSite(i)})
  BY PutSingle
<1>2. g[SingleSite(i)] = Invalid
  BY MapKinds
<1>3. \A p \in PtrIdx : g[IndirectSite(i, p)] = Invalid
  <2>1. \A p \in PtrIdx : g[IndirectSite(i, p)] = PtrAt(B, J[i].indirect, p)
    BY MapKinds
  <2> QED BY <2>1 DEF PtrAt
<1> HIDE DEF f, g
<1> QED BY <1>1, <1>2, <1>3 DEF CutAt, AgreeBut, IndirectSites, f, g

\* Cuts add up.
LEMMA CutTwice ==
  /\ \A f, g, h, X, Y : CutAt(f, g, X) /\ CutAt(g, h, Y) => CutAt(f, h, X \union Y)
  /\ \A f, S, T, X, Y : Freed(S, f, X) /\ Freed(T, f, Y)
                           => Freed(S \union T, f, X \union Y)
<1>1. ASSUME NEW f, NEW g, NEW h, NEW X, NEW Y, CutAt(f, g, X), CutAt(g, h, Y)
      PROVE  CutAt(f, h, X \union Y)
  BY <1>1 DEF CutAt
<1>2. ASSUME NEW f, NEW S, NEW T, NEW X, NEW Y, Freed(S, f, X), Freed(T, f, Y)
      PROVE  Freed(S \union T, f, X \union Y)
  <2>1. {f[s] : s \in X \union Y} = {f[s] : s \in X} \union {f[s] : s \in Y}
    OBVIOUS
  <2>2. (S \union T) \ {Invalid} = (S \ {Invalid}) \union (T \ {Invalid})
    OBVIOUS
  <2> QED BY <1>2, <2>1, <2>2 DEF Freed
<1> QED BY <1>1, <1>2

=============================================================================
