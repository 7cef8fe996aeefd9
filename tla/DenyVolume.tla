---------------------------- MODULE DenyVolume ------------------------------
(***************************************************************************)
(* A mounted DenyFS volume: fs.c driven by the FUSE handlers of            *)
(* fuse_ops.c.  FUSE runs single-threaded, so one handler runs at a time;  *)
(* a handler is a sequence of steps, and a step writes at most one block   *)
(* to the container.  The process can die between two steps, and a block   *)
(* write can fail.                                                         *)
(*                                                                         *)
(* On disk:   dsb, dbitmap, dinodes (the metadata area), blk (data area).  *)
(* In memory: freeBlocks, freeInodes, bitmap, dirty, inodes                *)
(*            (denyfs_volume_t), and op, the locals of the running handler. *)
(***************************************************************************)
EXTENDS VolumeImage

CONSTANTS
  Payloads,     \* buffers a write is called with: nonempty sequences of bytes
  Offsets,      \* write offsets
  TruncSizes,   \* sizes a truncate is called with
  CanCrash,     \* whether the process may die
  MaxFaults,    \* bound: how many block writes may fail in a behaviour
  FaultyCalls   \* the calls whose block writes may fail

ASSUME InputsAssumption ==
  /\ Payloads \subseteq Seq(Bytes)
  /\ Offsets \subseteq Nat
  /\ TruncSizes \subseteq Nat
  /\ CanCrash \in BOOLEAN
  /\ MaxFaults \in Nat

VARIABLES
  dsb,      \* superblock on disk: counts and the bitmap its HMAC covers
  dbitmap,  \* allocated blocks according to the bitmap on disk
  dinodes,  \* inode table on disk
  blk,      \* contents of the data area
  freeBlocks, freeInodes, \* vol->sb.free_blocks, vol->sb.free_inodes
  bitmap,   \* vol->bitmap
  dirty,    \* vol->bitmap_dirty: bitmap sectors to write at the next flush
  inodes,   \* vol->inodes
  pc,       \* where the running handler is; "idle" between calls
  op,       \* its arguments and locals
  ret,      \* result of the last call
  faults    \* block writes that may still fail

disk  == <<dsb, dbitmap, dinodes, blk>>
alloc == <<freeBlocks, bitmap, dirty>>
vars  == <<dsb, dbitmap, dinodes, blk, freeBlocks, freeInodes, bitmap, dirty,
           inodes, pc, op, ret, faults>>

PCs == {"closed", "idle", "map", "root", "table", "leaf", "link", "put",
        "shrink", "roots", "children", "resize", "flush"}
Calls == {"create", "unlink", "write", "truncate", "destroy"}
Results == {"none", "busy", "ok", "NULL", "EIO", "EPERM", "ENOSPC", "ENOENT",
            "EEXIST", "EISDIR"}

NoOp == [call |-> "none", ino |-> 0, off |-> 0,
         buf |-> <<>>, done |-> 0, size |-> 0,
         data |-> Invalid, root |-> Invalid, new_root |-> FALSE,
         table |-> Invalid, new_table |-> FALSE,
         roots |-> NoPtrs, cur |-> 0]

OpType == [call : Calls \union {"none"}, ino : Ino, off : Nat,
           buf : Payloads \union {<<>>}, done : Nat, size : 0 .. MaxFileSize,
           data : Pointer, root : Pointer, new_root : BOOLEAN,
           table : Pointer, new_table : BOOLEAN,
           roots : [PtrIdx -> Pointer], cur : Nat]

\* Every variable has its type; counters the code never checks are integers.
TypeOK ==
  /\ dsb \in [free_blocks : Int, free_inodes : Int,
              bitmap_hmac : SUBSET Block]
  /\ dbitmap \in SUBSET Block
  /\ dinodes \in [Ino -> Inode]
  /\ blk \in [DataBlocks -> Content]
  /\ freeBlocks \in Int /\ freeInodes \in Int
  /\ bitmap \in SUBSET Block
  /\ dirty \in SUBSET BitmapSectors
  /\ inodes \in [Ino -> Inode]
  /\ pc \in PCs
  /\ op \in OpType
  /\ ret \in Results
  /\ faults \in Nat

-----------------------------------------------------------------------------
(***************************************************************************)
(* A fresh volume, as format_volume leaves it: the root directory has one  *)
(* block of free entries, everything else is random.                       *)
(***************************************************************************)
FormattedInodes ==
  [i \in Ino |-> IF i = 0
     THEN [EmptyInode("DIR") EXCEPT !.block_count = 1, !.direct[0] = DataStart]
     ELSE EmptyInode("FREE")]
FormattedBitmap == MetaBlocks \union {DataStart}

NoInodes == [i \in Ino |-> EmptyInode("FREE")]

Init ==
  /\ dsb = [free_blocks |-> TotalBlocks - DataStart - 1,
            free_inodes |-> MaxInodes - 1, bitmap_hmac |-> FormattedBitmap]
  /\ dbitmap = FormattedBitmap
  /\ dinodes = FormattedInodes
  /\ blk = [b \in DataBlocks |->
              IF b = DataStart THEN DirBlock([i \in DirIdx |-> FreeEntry])
              ELSE Noise]
  /\ freeBlocks = 0 /\ freeInodes = 0
  /\ bitmap = {} /\ dirty = {} /\ inodes = NoInodes
  /\ pc = "closed" /\ op = NoOp /\ ret = "none" /\ faults = MaxFaults

-----------------------------------------------------------------------------
(***************************************************************************)
(* Block writes and the allocation bitmap.                                 *)
(***************************************************************************)
write_block(b, c) == blk' = [blk EXCEPT ![b] = c] /\ UNCHANGED faults

\* write_block returns -1; where the caller passes that on, FUSE reads it as
\* EPERM.
WriteFails(call) ==
  /\ faults > 0 /\ call \in FaultyCalls
  /\ faults' = faults - 1
  /\ UNCHANGED blk

NoWrite == UNCHANGED <<blk, faults>>

FreeData == DataBlocks \ bitmap
FirstFree(b) == b \in FreeData /\ \A c \in FreeData : b <= c

\* Mutant: the byte index is not divided by the sector size.
DirtyFirstSector(S) == IF S = {} THEN {} ELSE {0}
DirtySectors(S) == {SectorOfBit(b) : b \in S} \intersect BitmapSectors

alloc_block(b) ==
  /\ FirstFree(b)
  /\ bitmap' = bitmap \union {b}
  /\ freeBlocks' = freeBlocks - 1
  /\ dirty' = dirty \union DirtySectors({b})

\* Free every block of S that is allocated.  Blocks of tried were allocated
\* and given back within the step: only their dirty marks remain.
free_block(S, tried) ==
  LET F == S \intersect bitmap \intersect DataBlocks
  IN  /\ bitmap' = bitmap \ F
      /\ freeBlocks' = freeBlocks + Cardinality(F)
      /\ dirty' = dirty \union DirtySectors(F \union tried)

Return(r) == pc' = "idle" /\ op' = NoOp /\ ret' = r

\* A call that ends before it changes anything.
Refuse(r) == Return(r) /\ UNCHANGED <<disk, alloc, freeInodes, inodes, faults>>

Goto(p) == pc' = p /\ UNCHANGED ret
StartFlush(o) == pc' = "flush" /\ op' = [o EXCEPT !.cur = 0] /\ ret' = "busy"

\* Mutant: no limit on file size.
NeverTooLong(end) == FALSE
\* An end of file past DENYFS_MAX_FILE_SIZE.
TooLong(end) == end > MaxFileSize

IsFile(i) == inodes[i].type = "FILE"

LookupIs(n, i) == denyfs_vol_lookup(inodes, blk, n) = i

\* Whatever lookup fails with, the handlers answer ENOENT.
NotFound(n) == (\A i \in FileIno : ~LookupIs(n, i)) /\ Refuse("ENOENT")

-----------------------------------------------------------------------------
(***************************************************************************)
(* denyfs_vol_open and denyfs_vol_close.                                   *)
(***************************************************************************)
denyfs_vol_open ==
  /\ pc = "closed"
  /\ UNCHANGED <<disk, op, faults, dirty>>
  /\ \/ /\ ValidImage(dsb, dbitmap, dinodes, blk)
        /\ freeBlocks' = dsb.free_blocks
        /\ freeInodes' = dsb.free_inodes
        /\ bitmap' = dbitmap
        /\ inodes' = dinodes
        /\ pc' = "idle" /\ ret' = "none"
     \/ /\ ~ValidImage(dsb, dbitmap, dinodes, blk)
        /\ ret' = "NULL"
        /\ UNCHANGED <<freeBlocks, freeInodes, bitmap, inodes, pc>>

denyfs_vol_close(r) ==
  /\ freeBlocks' = 0 /\ freeInodes' = 0
  /\ bitmap' = {} /\ dirty' = {} /\ inodes' = NoInodes
  /\ pc' = "closed" /\ op' = NoOp /\ ret' = r

denyfs_fuse_destroy ==
  /\ pc = "idle"
  /\ StartFlush([NoOp EXCEPT !.call = "destroy"])
  /\ UNCHANGED <<disk, alloc, freeInodes, inodes, faults>>

\* The process dies: memory is lost, the container keeps what was written.
Crash ==
  /\ CanCrash /\ pc # "closed"
  /\ denyfs_vol_close("none")
  /\ UNCHANGED <<disk, faults>>

-----------------------------------------------------------------------------
(***************************************************************************)
(* denyfs_vol_flush: superblock, dirty bitmap sectors, inode table, in     *)
(* block order.  op.cur is the block to write next.                        *)
(***************************************************************************)
MergeSector(old, new, s) ==
  {b \in old : SectorOfBit(b) # s} \union {b \in new : SectorOfBit(b) = s}

FlushSuperblock ==
  /\ op.cur = 0
  /\ dsb' = [free_blocks |-> freeBlocks, free_inodes |-> freeInodes,
             bitmap_hmac |-> bitmap]
  /\ UNCHANGED <<dbitmap, dinodes>>

FlushBitmapSector ==
  /\ op.cur \in 1 .. BitmapBlocks
  /\ dbitmap' = IF op.cur - 1 \in dirty
                THEN MergeSector(dbitmap, bitmap, op.cur - 1) ELSE dbitmap
  /\ UNCHANGED <<dsb, dinodes>>

\* Mutant: off by one.
EarlierInodeSector(b) == b - 2 - BitmapBlocks
\* The inode-table sector that metadata block b holds.
InodeSectorAt(b) == b - 1 - BitmapBlocks

FlushInodeSector ==
  /\ op.cur \in 1 + BitmapBlocks .. DataStart - 1
  /\ dinodes' = [i \in Ino |->
       IF SectorOfInode(i) = InodeSectorAt(op.cur)
       THEN inodes[i] ELSE dinodes[i]]
  /\ UNCHANGED <<dsb, dbitmap>>

\* Mutant: a clean bitmap sector is skipped without moving on.
StayOnClean == IF op.cur \in 1 .. BitmapBlocks /\ op.cur - 1 \notin dirty
               THEN op.cur ELSE op.cur + 1
NextFlushBlock == op.cur + 1

FlushBlock ==
  /\ pc = "flush" /\ op.cur < DataStart
  /\ FlushSuperblock \/ FlushBitmapSector \/ FlushInodeSector
  /\ op' = [op EXCEPT !.cur = NextFlushBlock]
  /\ UNCHANGED <<blk, alloc, freeInodes, inodes, pc, ret, faults>>

\* A flush ends the call it belongs to; destroy closes the volume whatever
\* the flush returned.
FlushEnds(r) ==
  IF op.call = "destroy" THEN denyfs_vol_close(r)
  ELSE Return(r) /\ UNCHANGED <<freeBlocks, freeInodes, bitmap, inodes>>

\* Mutant: the marks are cleared before the outcome is known.
DirtyForgotten == dirty' = {}
\* A failed flush keeps every dirty mark for the next one.
StillDirty == UNCHANGED dirty

FlushFails ==
  /\ pc = "flush" /\ op.cur < DataStart
  /\ op.cur \in 1 .. BitmapBlocks => op.cur - 1 \in dirty
  /\ WriteFails(op.call)
  /\ FlushEnds("EIO")
  /\ op.call # "destroy" => StillDirty
  /\ UNCHANGED <<dsb, dbitmap, dinodes>>

FlushDone ==
  /\ pc = "flush" /\ op.cur = DataStart
  /\ FlushEnds("ok")
  /\ dirty' = {}
  /\ UNCHANGED <<disk, faults>>

-----------------------------------------------------------------------------
(***************************************************************************)
(* denyfs_vol_create.  The inode is allocated and initialised, then        *)
(* add_dirent takes the first free entry, or a new directory block.        *)
(***************************************************************************)
FirstFreeInode(i) ==
  /\ i \in FileIno /\ inodes[i].type = "FREE"
  /\ \A j \in FileIno : inodes[j].type = "FREE" => i <= j

FirstFreeSlot(s) ==
  /\ s \in DirSlots(inodes) /\ Reached(inodes, blk, s)
  /\ EntryAt(inodes, blk, s) = FreeEntry
  /\ \A t \in DirSlots(inodes) :
       Before(t, s) => EntryAt(inodes, blk, t) # FreeEntry

\* The inode table and counts with inode i allocated, and rolled back.
WithFile(i) == [inodes EXCEPT ![i] = EmptyInode("FILE")]
RolledBack(I, i) == [I EXCEPT ![i].type = "FREE"]

NewEntry(i, n) == [ino |-> i, name |-> n]
PutEntry(s, e) ==
  LET b == inodes[0].direct[s[1]]
  IN  write_block(b, DirBlock([AsDirents(blk, b) EXCEPT ![s[2]] = e]))

StartCreateFlush(i) == StartFlush([NoOp EXCEPT !.call = "create", !.ino = i])

CreateInSlot(n, i) ==
  \E s \in DirSlots(inodes) :
    /\ FirstFreeSlot(s)
    /\ \/ /\ PutEntry(s, NewEntry(i, n))
          /\ inodes' = WithFile(i)
          /\ freeInodes' = freeInodes - 1
          /\ StartCreateFlush(i)
       \/ /\ WriteFails("create")
          /\ inodes' = RolledBack(WithFile(i), i)
          /\ UNCHANGED freeInodes
          /\ Return("EPERM")
    /\ UNCHANGED <<dsb, dbitmap, dinodes, alloc>>

\* The root directory grows by block b before the block is written; a failed
\* write leaves it there.
Grown(i, b) ==
  [WithFile(i) EXCEPT ![0] = [inodes[0] EXCEPT
     !.block_count = @ + 1, !.direct[inodes[0].block_count] = b]]
FirstEntry(i, n) ==
  [k \in DirIdx |-> IF k = 0 THEN NewEntry(i, n) ELSE FreeEntry]

CreateInNewBlock(n, i, b) ==
  /\ alloc_block(b)
  /\ \/ /\ write_block(b, DirBlock(FirstEntry(i, n)))
        /\ inodes' = Grown(i, b)
        /\ freeInodes' = freeInodes - 1
        /\ StartCreateFlush(i)
     \/ /\ WriteFails("create")
        /\ inodes' = RolledBack(Grown(i, b), i)
        /\ UNCHANGED freeInodes
        /\ Return("EPERM")
  /\ UNCHANGED <<dsb, dbitmap, dinodes>>

denyfs_vol_create(n) ==
  /\ pc = "idle"
  /\ \/ \E i \in FileIno : LookupIs(n, i) /\ Refuse("EEXIST")
     \/ LookupIs(n, EIO) /\ Refuse("EIO")
     \/ /\ LookupIs(n, ENOENT)
        /\ \A i \in FileIno : inodes[i].type # "FREE"
        /\ Refuse("ENOSPC")
     \/ /\ LookupIs(n, ENOENT)
        /\ \E i \in FileIno :
             /\ FirstFreeInode(i)
             /\ \/ CreateInSlot(n, i)
                \/ /\ \A s \in DirSlots(inodes) : ~FirstFreeSlot(s)
                   /\ inodes[0].block_count >= DirectBlocks \/ FreeData = {}
                   /\ Refuse("ENOSPC")
                \/ /\ \A s \in DirSlots(inodes) : ~FirstFreeSlot(s)
                   /\ inodes[0].block_count < DirectBlocks
                   /\ \E b \in DataBlocks : CreateInNewBlock(n, i, b)

-----------------------------------------------------------------------------
(***************************************************************************)
(* denyfs_vol_unlink: clear the entry on disk, then free_inode.            *)
(***************************************************************************)
TableEntries(t) == {AsPointers(blk, t)[p] : p \in PtrIdx} \ {Invalid}

\* free_inode works in stages, and stops at the first table it cannot read:
\* the direct blocks, the indirect table with its blocks, then the children
\* in order, each with its blocks, then the double-indirect root.
free_inode(i) ==
  LET nd == inodes[i]
      direct == {nd.direct[k] : k \in DirectIdx}
      single == IF nd.indirect = Invalid THEN {}
                ELSE TableEntries(nd.indirect) \union {nd.indirect}
      left == bitmap \ (direct \union single)
      kids == {o \in PtrIdx : Child(blk, nd, o) # Invalid}
      kidRead(o) == \A k \in kids : k <= o => Readable(left, Child(blk, nd, k))
      family(o) == TableEntries(Child(blk, nd, o)) \union {Child(blk, nd, o)}
      below == UNION {family(o) : o \in {k \in kids : kidRead(k)}}
      singleRead == \/ nd.indirect = Invalid
                    \/ Readable(bitmap \ direct, nd.indirect)
      rootRead == nd.double = Invalid \/ Readable(left, nd.double)
      noDirect == [nd EXCEPT !.direct = EmptyInode("FREE").direct]
      Stop(S, rest) == /\ free_block(S, {})
                       /\ inodes' = [inodes EXCEPT ![i] = rest]
                       /\ UNCHANGED freeInodes
                       /\ Return("EIO")
  IN  \/ /\ ~singleRead
         /\ Stop(direct, noDirect)
      \/ /\ singleRead /\ ~rootRead
         /\ Stop(direct \union single, [noDirect EXCEPT !.indirect = Invalid])
      \/ /\ singleRead /\ rootRead /\ \E o \in kids : ~kidRead(o)
         /\ Stop(direct \union single \union below,
                 [noDirect EXCEPT !.indirect = Invalid])
      \/ /\ singleRead /\ rootRead /\ \A o \in kids : kidRead(o)
         /\ free_block(direct \union single \union below \union {nd.double}, {})
         /\ inodes' = [inodes EXCEPT ![i] = EmptyInode("FREE")]
         /\ freeInodes' = freeInodes + 1
         /\ StartFlush([NoOp EXCEPT !.call = "unlink", !.ino = i])

\* Mutant: the inode is freed although its entry could not be cleared.
UnlinkUnchecked(n) ==
  /\ pc = "idle"
  /\ \/ NotFound(n)
     \/ \E i \in FileIno, s \in DirSlots(inodes) :
          /\ LookupIs(n, i) /\ IsEntryOf(inodes, blk, n, s)
          /\ WriteFails("unlink") \/ PutEntry(s, FreeEntry)
          /\ free_inode(i)
          /\ UNCHANGED <<dsb, dbitmap, dinodes>>

denyfs_vol_unlink(n) ==
  /\ pc = "idle"
  /\ \/ NotFound(n)
     \/ \E i \in FileIno, s \in DirSlots(inodes) :
          /\ LookupIs(n, i) /\ IsEntryOf(inodes, blk, n, s)
          /\ \/ /\ WriteFails("unlink")
                /\ Return("EPERM")
                /\ UNCHANGED <<alloc, freeInodes, inodes>>
             \/ /\ PutEntry(s, FreeEntry)
                /\ free_inode(i)
          /\ UNCHANGED <<dsb, dbitmap, dinodes>>

-----------------------------------------------------------------------------
(***************************************************************************)
(* denyfs_vol_write.  Per chunk: find the block (pc = "map"), allocate it  *)
(* if it is a hole, then read, modify and write it (pc = "put").           *)
(***************************************************************************)
denyfs_vol_write(n, off, buf) ==
  /\ pc = "idle"
  /\ \/ NotFound(n)
     \/ \E i \in FileIno :
          /\ LookupIs(n, i)
          /\ \/ /\ ~IsFile(i) \/ TooLong(off + Len(buf))
                /\ Refuse(IF IsFile(i) THEN "ENOSPC" ELSE "EISDIR")
             \/ /\ IsFile(i) /\ ~TooLong(off + Len(buf))
                /\ pc' = "map" /\ ret' = "busy"
                /\ op' = [NoOp EXCEPT !.call = "write", !.ino = i,
                                      !.off = off, !.buf = buf]
                /\ UNCHANGED <<disk, alloc, freeInodes, inodes, faults>>

\* The inode the handler works on, and its new value.
node       == inodes[op.ino]
Become(nd) == inodes' = [inodes EXCEPT ![op.ino] = nd]

Pos      == op.off + op.done
BlkIdx   == Pos \div SectorSize
BlkOff   == Pos % SectorSize
Chunk    == IF SectorSize - BlkOff > Len(op.buf) - op.done
            THEN Len(op.buf) - op.done ELSE SectorSize - BlkOff
Mapped   == get_file_data_block(bitmap, blk, node, BlkIdx)
metaDisk == <<dsb, dbitmap, dinodes>>

WriteMapped ==
  /\ pc = "map" /\ op.done < Len(op.buf)
  /\ \/ /\ Mapped = EIO
        /\ Return("EIO")
     \/ /\ Mapped \in DataBlocks
        /\ op' = [op EXCEPT !.data = Mapped]
        /\ Goto("put")
  /\ NoWrite
  /\ UNCHANGED <<metaDisk, alloc, freeInodes, inodes>>

\* allocate_zeroed_data_block for a hole; a direct pointer is set at once.
AllocateData ==
  /\ pc = "map" /\ op.done < Len(op.buf) /\ Mapped = Invalid
  /\ \/ /\ FreeData = {}
        /\ NoWrite /\ Return("ENOSPC")
        /\ UNCHANGED <<alloc, inodes>>
     \/ \E b \in DataBlocks :
          \/ /\ FirstFree(b) /\ WriteFails(op.call)
             /\ free_block({}, {b})
             /\ Return("EIO") /\ UNCHANGED inodes
          \/ /\ alloc_block(b)
             /\ write_block(b, DataBlock(Zeros))
             /\ op' = [op EXCEPT !.data = b]
             /\ \/ /\ BlkIdx < DirectBlocks
                   /\ Become([node EXCEPT !.block_count = @ + 1,
                                           !.direct[BlkIdx] = b])
                   /\ Goto("put")
                \/ /\ InIndirect(BlkIdx) /\ Goto("table") /\ UNCHANGED inodes
                \/ /\ InDouble(BlkIdx) /\ Goto("root") /\ UNCHANGED inodes
  /\ UNCHANGED <<metaDisk, freeInodes>>

\* Blocks this allocation holds that no table or inode names yet.
Held == {op.data} \union (IF op.new_root THEN {op.root} ELSE {})
                  \union (IF op.new_table THEN {op.table} ELSE {})

\* Mutant: only the data block is given back.
ReleaseData == free_block({op.data}, {})
Release == free_block(Held, {})

\* allocate_pointer_table, giving back what is held when it fails.
AllocateTable ==
  \/ /\ FreeData = {}
     /\ Release
     /\ NoWrite /\ Return("ENOSPC")
  \/ \E b \in DataBlocks :
       \/ /\ FirstFree(b) /\ WriteFails(op.call)
          /\ free_block(Held, {b})
          /\ Return("EIO")
       \/ /\ alloc_block(b)
          /\ write_block(b, PtrBlock(NoPtrs))
          /\ \/ /\ pc = "root" /\ Goto("table")
                /\ op' = [op EXCEPT !.root = b, !.new_root = TRUE]
             \/ /\ pc = "table" /\ Goto("leaf")
                /\ op' = [op EXCEPT !.table = b, !.new_table = TRUE]

FindRoot ==
  /\ pc = "root"
  /\ \/ /\ node.double # Invalid
        /\ op' = [op EXCEPT !.root = node.double]
        /\ Goto("table")
        /\ NoWrite /\ UNCHANGED alloc
     \/ /\ node.double = Invalid
        /\ AllocateTable
  /\ UNCHANGED <<metaDisk, freeInodes, inodes>>

\* The table the pointer goes into: the indirect block or a child.
LeafTable == IF InIndirect(BlkIdx) THEN node.indirect
             ELSE AsPointers(blk, op.root)[Outer(BlkIdx)]
LeafIdx == IF InIndirect(BlkIdx) THEN BlkIdx - DirectBlocks ELSE Inner(BlkIdx)

FindTable ==
  /\ pc = "table"
  /\ \/ /\ LeafTable # Invalid
        /\ op' = [op EXCEPT !.table = LeafTable]
        /\ Goto("leaf")
        /\ NoWrite /\ UNCHANGED alloc
     \/ /\ LeafTable = Invalid
        /\ AllocateTable
  /\ UNCHANGED <<metaDisk, freeInodes, inodes>>

GiveBack == Release /\ Return("EIO") /\ UNCHANGED inodes

\* The pointer is written into the table; with no new child that links it.
WriteLeaf ==
  /\ pc = "leaf"
  /\ \/ /\ WriteFails(op.call)
        /\ GiveBack
     \/ /\ write_block(op.table,
             PtrBlock([AsPointers(blk, op.table) EXCEPT ![LeafIdx] = op.data]))
        /\ UNCHANGED <<alloc, op>>
        /\ \/ /\ InDouble(BlkIdx) /\ op.new_table
              /\ Goto("link") /\ UNCHANGED inodes
           \/ /\ ~(InDouble(BlkIdx) /\ op.new_table)
              /\ Become([node EXCEPT
                   !.block_count = @ + 1,
                   !.indirect = IF InIndirect(BlkIdx) THEN op.table ELSE @])
              /\ Goto("put")
  /\ UNCHANGED <<metaDisk, freeInodes>>

\* A new child is entered in the double-indirect root.
LinkChild ==
  /\ pc = "link"
  /\ \/ /\ WriteFails(op.call)
        /\ GiveBack
     \/ /\ write_block(op.root, PtrBlock(
             [AsPointers(blk, op.root) EXCEPT ![Outer(BlkIdx)] = op.table]))
        /\ Become([node EXCEPT !.block_count = @ + 1, !.double = op.root])
        /\ Goto("put") /\ UNCHANGED <<alloc, op>>
  /\ UNCHANGED <<metaDisk, freeInodes>>

\* Locals of one chunk, reset for the next.
NextChunk == [NoOp EXCEPT !.call = op.call, !.ino = op.ino, !.off = op.off,
                          !.buf = op.buf, !.done = op.done + Chunk]

Patched == [k \in ByteIdx |->
  IF k \in BlkOff .. BlkOff + Chunk - 1
  THEN op.buf[op.done + (k - BlkOff) + 1] ELSE AsBytes(blk, op.data)[k]]

PutChunk ==
  /\ pc = "put"
  /\ \/ /\ WriteFails(op.call)
        /\ Return("EPERM")
     \/ /\ write_block(op.data, DataBlock(Patched))
        /\ op' = NextChunk
        /\ Goto("map")
  /\ UNCHANGED <<metaDisk, alloc, freeInodes, inodes>>

\* Mutant: the write returns before it has saved the metadata.
EndUnflushed == Return("ok")
EndWrite == StartFlush([NoOp EXCEPT !.call = "write", !.ino = op.ino])

WriteDone ==
  /\ pc = "map" /\ op.done = Len(op.buf)
  /\ Become([node EXCEPT !.size =
       IF op.off + Len(op.buf) > @ THEN op.off + Len(op.buf) ELSE @])
  /\ EndWrite
  /\ NoWrite
  /\ UNCHANGED <<metaDisk, alloc, freeInodes>>

-----------------------------------------------------------------------------
(***************************************************************************)
(* denyfs_vol_truncate.  Shrinking clears the tail of the last block kept, *)
(* then truncate_file_blocks drops the direct blocks and the blocks of the *)
(* indirect table (pc = "shrink"), reads the double-indirect root into     *)
(* op.roots (pc = "roots"), and goes through the children in order         *)
(* (pc = "children") before the root is written.                           *)
(***************************************************************************)
\* Mutant: one byte too few is cleared.
ClearedLate(b, from) ==
  [k \in ByteIdx |-> IF k > from THEN 0 ELSE AsBytes(blk, b)[k]]
Cleared(b, from) ==
  [k \in ByteIdx |-> IF k >= from THEN 0 ELSE AsBytes(blk, b)[k]]

denyfs_vol_truncate(n, size) ==
  /\ pc = "idle"
  /\ \/ TooLong(size) /\ Refuse("ENOSPC")
     \/ ~TooLong(size) /\ NotFound(n)
     \/ \E i \in FileIno :
          /\ ~TooLong(size) /\ LookupIs(n, i)
          /\ LET old == inodes[i].size
                 start == [NoOp EXCEPT !.call = "truncate", !.ino = i,
                                       !.size = size]
                 tail == IF size % SectorSize = 0 THEN Invalid
                         ELSE get_file_data_block(bitmap, blk, inodes[i],
                                                  size \div SectorSize)
                 Go(p) == pc' = p /\ op' = start /\ ret' = "busy"
             IN  \/ /\ ~IsFile(i) \/ size = old
                    /\ Refuse(IF IsFile(i) THEN "ok" ELSE "EISDIR")
                 \/ /\ IsFile(i) /\ size > old
                    /\ Go("resize")
                    /\ UNCHANGED <<disk, alloc, freeInodes, inodes, faults>>
                 \/ /\ IsFile(i) /\ size < old /\ tail = EIO
                    /\ Refuse("EIO")
                 \/ /\ IsFile(i) /\ size < old /\ tail = Invalid
                    /\ Go("shrink")
                    /\ UNCHANGED <<disk, alloc, freeInodes, inodes, faults>>
                 \/ /\ IsFile(i) /\ size < old /\ tail \in DataBlocks
                    /\ \/ /\ WriteFails("truncate")
                          /\ Return("EIO")
                       \/ /\ write_block(tail,
                               DataBlock(Cleared(tail, size % SectorSize)))
                          /\ Go("shrink")
                    /\ UNCHANGED <<metaDisk, alloc, freeInodes, inodes>>

NewBlocks == Ceil(op.size, SectorSize)

\* Table t (at logical block first) without the pointers at or past the new
\* end, and the blocks those pointers named.
Kept(t, first) ==
  [p \in PtrIdx |-> IF first + p >= NewBlocks THEN Invalid
                    ELSE AsPointers(blk, t)[p]]
Dropped(t, first) ==
  {AsPointers(blk, t)[p] : p \in {q \in PtrIdx : first + q >= NewBlocks}}
    \ {Invalid}
\* Mutant: block_count keeps the first block past the new end.
DroppedCountLate(t, first) ==
  Cardinality({p \in PtrIdx : /\ first + p > NewBlocks
                              /\ AsPointers(blk, t)[p] # Invalid})
DroppedCount(t, first) ==
  Cardinality({p \in PtrIdx : /\ first + p >= NewBlocks
                              /\ AsPointers(blk, t)[p] # Invalid})

ShrinkDirect ==
  /\ pc = "shrink"
  /\ LET cut == {i \in DirectIdx : i >= NewBlocks /\ node.direct[i] # Invalid}
         direct == {node.direct[i] : i \in cut}
         short == [node EXCEPT
           !.direct = [i \in DirectIdx |->
                         IF i \in cut THEN Invalid ELSE node.direct[i]],
           !.block_count = @ - Cardinality(cut)]
         t == node.indirect
         shorter == [short EXCEPT
           !.block_count = @ - DroppedCount(t, DirectBlocks)]
         Onward == Goto("roots") /\ UNCHANGED op
     IN  \/ /\ t = Invalid
            /\ free_block(direct, {}) /\ Become(short)
            /\ NoWrite /\ Onward
         \/ /\ t # Invalid /\ ~Readable(bitmap \ direct, t)
            /\ free_block(direct, {}) /\ Become(short)
            /\ NoWrite /\ Return("EIO")
         \/ /\ t # Invalid /\ Readable(bitmap \ direct, t)
            /\ Kept(t, DirectBlocks) = NoPtrs
            /\ free_block(direct \union Dropped(t, DirectBlocks) \union {t}, {})
            /\ Become([shorter EXCEPT !.indirect = Invalid])
            /\ NoWrite /\ Onward
         \/ /\ t # Invalid /\ Readable(bitmap \ direct, t)
            /\ Kept(t, DirectBlocks) # NoPtrs
            /\ free_block(direct \union Dropped(t, DirectBlocks), {})
            /\ Become(shorter)
            /\ \/ WriteFails(op.call) /\ Return("EIO")
               \/ write_block(t, PtrBlock(Kept(t, DirectBlocks))) /\ Onward
  /\ UNCHANGED <<metaDisk, freeInodes>>

ReadRoots ==
  /\ pc = "roots"
  /\ \/ /\ node.double = Invalid
        /\ Goto("resize") /\ UNCHANGED op
     \/ /\ node.double # Invalid /\ ~Readable(bitmap, node.double)
        /\ Return("EIO")
     \/ /\ node.double # Invalid /\ Readable(bitmap, node.double)
        /\ op' = [op EXCEPT !.roots = AsPointers(blk, node.double), !.cur = 0]
        /\ Goto("children")
  /\ NoWrite
  /\ UNCHANGED <<metaDisk, alloc, freeInodes, inodes>>

\* The next child of the loop over the root, from op.cur on.
NextChild(o) ==
  /\ o >= op.cur /\ op.roots[o] # Invalid
  /\ \A p \in PtrIdx : p >= op.cur /\ p < o => op.roots[p] = Invalid
NoChildLeft == \A o \in PtrIdx : o >= op.cur => op.roots[o] = Invalid

ShrinkChild ==
  /\ pc = "children"
  /\ \E o \in PtrIdx :
       LET t == op.roots[o]
           first == DirectBlocks + (o + 1) * PointersPerBlock
           Drop == Become([node EXCEPT
                     !.block_count = @ - DroppedCount(t, first)])
           Onward(r) == /\ op' = [op EXCEPT !.cur = o + 1, !.roots[o] = r]
                        /\ Goto("children")
       IN  /\ NextChild(o)
           /\ \/ /\ ~Readable(bitmap, t)
                 /\ NoWrite /\ Return("EIO") /\ UNCHANGED <<alloc, inodes>>
              \/ /\ Readable(bitmap, t) /\ Kept(t, first) = NoPtrs
                 /\ free_block(Dropped(t, first) \union {t}, {}) /\ Drop
                 /\ NoWrite /\ Onward(Invalid)
              \/ /\ Readable(bitmap, t) /\ Kept(t, first) # NoPtrs
                 /\ free_block(Dropped(t, first), {}) /\ Drop
                 /\ \/ WriteFails(op.call) /\ Return("EIO")
                    \/ write_block(t, PtrBlock(Kept(t, first))) /\ Onward(t)
  /\ UNCHANGED <<metaDisk, freeInodes>>

ShrinkRoot ==
  /\ pc = "children" /\ NoChildLeft
  /\ \/ /\ op.roots = NoPtrs
        /\ free_block({node.double}, {})
        /\ Become([node EXCEPT !.double = Invalid])
        /\ NoWrite /\ Goto("resize") /\ UNCHANGED op
     \/ /\ op.roots # NoPtrs
        /\ UNCHANGED <<alloc, inodes>>
        /\ \/ WriteFails(op.call) /\ Return("EIO")
           \/ /\ write_block(node.double, PtrBlock(op.roots))
              /\ Goto("resize") /\ UNCHANGED op
  /\ UNCHANGED <<metaDisk, freeInodes>>

Resize ==
  /\ pc = "resize"
  /\ Become([node EXCEPT !.size = op.size])
  /\ StartFlush([NoOp EXCEPT !.call = "truncate", !.ino = op.ino])
  /\ NoWrite
  /\ UNCHANGED <<metaDisk, alloc, freeInodes>>

-----------------------------------------------------------------------------
\* A call from FUSE; it starts only when no other is running.
Call ==
  \/ \E n \in Names :
       \/ denyfs_vol_create(n)
       \/ denyfs_vol_unlink(n)
       \/ \E off \in Offsets, buf \in Payloads : denyfs_vol_write(n, off, buf)
       \/ \E size \in TruncSizes : denyfs_vol_truncate(n, size)
  \/ denyfs_fuse_destroy

\* The running handler goes on.
Step ==
  \/ WriteMapped \/ AllocateData \/ FindRoot \/ FindTable
  \/ WriteLeaf \/ LinkChild \/ PutChunk \/ WriteDone
  \/ ShrinkDirect \/ ReadRoots \/ ShrinkChild \/ ShrinkRoot \/ Resize
  \/ FlushBlock \/ FlushFails \/ FlushDone

Next == denyfs_vol_open \/ Call \/ Step \/ Crash

Spec == Init /\ [][Next]_vars

\* A handler runs on its own thread of control and never waits for anything,
\* so it keeps going as long as the process lives.
FairSpec == Spec /\ WF_vars(Step)

-----------------------------------------------------------------------------
(***************************************************************************)
(* Properties.                                                             *)
(***************************************************************************)

\* Whenever no truncate is in the middle of a double-indirect tree, the blocks
\* the bitmap marks allocated are exactly those that some inode or pointer
\* table names, each named once, and those the running allocate_file_data_block
\* still holds; free_blocks is the number of the others.  So alloc_block,
\* free_block and every ENOSPC and EIO path keep the three in step: no block
\* leaks, none is shared, and free_blocks never wraps.
AllocationExact ==
  pc \notin {"closed", "children"} =>
    /\ MetaBlocks \subseteq bitmap
    /\ Claimed(inodes, blk) \union (Held \ {Invalid})
         = bitmap \intersect DataBlocks
    /\ pc \in {"root", "table", "leaf", "link"} =>
         Claimed(inodes, blk) \intersect Held = {}
    /\ Cardinality(Claimed(inodes, blk)) = Cardinality(Refs(inodes, blk))
    /\ freeBlocks = Cardinality(DataBlocks \ bitmap)

\* Between calls, memory and the data area satisfy everything the loader
\* checks, end-of-file positions excepted: block counts, non-empty pointer
\* tables, counters, and a directory that matches the inode table.
IdleConsistent ==
  pc = "idle" => Consistent(freeBlocks, freeInodes, bitmap, inodes, blk)

\* An unmounted container that no crash interrupted is authenticated by its
\* HMAC and satisfies everything the loader checks, end-of-file positions
\* excepted: flushing only the dirty bitmap sectors is enough.
UnmountedConsistent ==
  pc = "closed" =>
    /\ dsb.bitmap_hmac = dbitmap
    /\ Consistent(dsb.free_blocks, dsb.free_inodes, dbitmap, dinodes, blk)

\* What the tests expect of every unmount: the container opens again.
RemountAlways == pc = "closed" => ValidImage(dsb, dbitmap, dinodes, blk)

SectorSaved(s) ==
  \A b \in Block : SectorOfBit(b) = s => (b \in bitmap <=> b \in dbitmap)

\* A bitmap sector that is not marked dirty is on disk as it is in memory, so
\* denyfs_vol_flush may skip it, also after flushes that failed half-way.
DirtyCovers ==
  pc # "closed" => \A s \in BitmapSectors : s \in dirty \/ SectorSaved(s)

MetadataSaved ==
  /\ dsb = [free_blocks |-> freeBlocks, free_inodes |-> freeInodes,
            bitmap_hmac |-> bitmap]
  /\ dbitmap = bitmap
  /\ dinodes = inodes

\* When a flush reports success to the caller, the metadata on disk is the
\* metadata in memory, and the bitmap written is the one the HMAC covers,
\* whatever earlier calls and flushes failed.
FlushDurable ==
  [][pc = "flush" /\ pc' = "idle" /\ ret' = "ok" => MetadataSaved']_vars

\* After failed calls and crashes too, a mounted volume whose directory is one
\* block lists only files that are there: every entry readdir gives names an
\* inode in use as a file, lookup finds that inode by the entry's name, and no
\* inode is listed under two names.
ListingTrue ==
  pc = "idle" =>
    LET listed == denyfs_vol_readdir(inodes, blk)
        At(s) == EntryAt(inodes, blk, s)
    IN  /\ \A s \in listed :
             /\ inodes[At(s).ino].type = "FILE"
             /\ denyfs_vol_lookup(inodes, blk, At(s).name) = At(s).ino
        /\ \A s, t \in listed : s # t => At(s).ino # At(t).ino

\* Every handler that starts comes to an end.
HandlerEnds == (pc \notin {"idle", "closed"}) ~> (pc \in {"idle", "closed"})
=============================================================================
