---------------------------- MODULE VolumeImage ----------------------------
(***************************************************************************)
(* The DenyFS volume as data: its layout, its block contents, and the      *)
(* functions of fs.c that only read it (get_file_data_block,               *)
(* denyfs_vol_lookup, validate_loaded_metadata).  A volume image is the    *)
(* superblock, the allocation bitmap, the inode table and the blocks of    *)
(* the data area; the same operators apply to the image on disk and to     *)
(* the copy a mounted volume holds in memory.                              *)
(***************************************************************************)
EXTENDS Integers, Sequences, FiniteSets

CONSTANTS
  Names,            \* file names callers use
  NoName,           \* the empty name of a free directory entry
  MaxInodes,        \* DENYFS_MAX_INODES; inode 0 is the root directory
  DirectBlocks,     \* DENYFS_DIRECT_BLOCKS, for files and for the root
  PointersPerBlock, \* DENYFS_POINTERS_PER_BLOCK
  DirentsPerBlock,  \* DENYFS_DIRENTS_PER_BLOCK
  SectorSize,       \* SECTOR_SIZE, in bytes of file data
  MaxFileSize,      \* DENYFS_MAX_FILE_SIZE
  TotalBlocks,      \* sb.total_blocks
  BitsPerSector,    \* bitmap bits held by one sector of the bitmap
  InodesPerSector,  \* inodes held by one sector of the inode table
  Bytes             \* byte values, 0 among them

ASSUME SizesAssumption ==
  /\ MaxInodes \in Nat \ {0}
  /\ DirectBlocks \in Nat \ {0}
  /\ PointersPerBlock \in Nat \ {0}
  /\ DirentsPerBlock \in Nat \ {0}
  /\ SectorSize \in Nat \ {0}
  /\ BitsPerSector \in Nat \ {0}
  /\ InodesPerSector \in Nat \ {0}
  /\ TotalBlocks \in Nat
  /\ MaxFileSize \in Nat

ASSUME ValuesAssumption ==
  /\ NoName \notin Names
  /\ 0 \in Bytes
  /\ Bytes \subseteq Nat

-----------------------------------------------------------------------------
(***************************************************************************)
(* Layout: superblock, bitmap, inode table, data area.                     *)
(***************************************************************************)
Ceil(a, b) == (a + b - 1) \div b

BitmapBlocks == Ceil(TotalBlocks, BitsPerSector)
InodeBlocks  == Ceil(MaxInodes, InodesPerSector)
DataStart    == 1 + BitmapBlocks + InodeBlocks
Block        == 0 .. TotalBlocks - 1
MetaBlocks   == 0 .. DataStart - 1
DataBlocks   == DataStart .. TotalBlocks - 1
Ino          == 0 .. MaxInodes - 1
FileIno      == 1 .. MaxInodes - 1
DirectIdx    == 0 .. DirectBlocks - 1
PtrIdx       == 0 .. PointersPerBlock - 1
ByteIdx      == 0 .. SectorSize - 1
MaxFileBlocks == DirectBlocks + PointersPerBlock
                 + PointersPerBlock * PointersPerBlock
LogicalBlocks == 0 .. MaxFileBlocks - 1

BitmapSectors    == 0 .. BitmapBlocks - 1
SectorOfBit(b)   == b \div BitsPerSector
SectorOfInode(i) == i \div InodesPerSector

\* What validate_superblock and the #defines guarantee of the sizes: there is
\* a data area, and the block map reaches every byte of the longest file.
ASSUME LayoutAssumption ==
  /\ DataStart < TotalBlocks
  /\ MaxFileSize <= MaxFileBlocks * SectorSize

(***************************************************************************)
(* Block numbers.  Invalid is DENYFS_INVALID_BLOCK / DENYFS_INVALID_INO;   *)
(* the negative errno values a read-only function can return share the     *)
(* integers with it.                                                       *)
(***************************************************************************)
Invalid == -1
EIO     == -2
ENOENT  == -3
Pointer == Block \union {Invalid}

(***************************************************************************)
(* Block contents.  A block is known by what was last written to it; a     *)
(* block of another kind decodes as follows.  As a pointer table, file     *)
(* bytes, directory entries and the random filling of a fresh container    *)
(* are pointers to block 0 or out of range: both are refused, and 0 stands *)
(* for them.  As a directory, they are entries valid_dirent refuses: inode *)
(* 0 stands for them.  As file data they are some bytes: Junk.             *)
(***************************************************************************)
Junk     == -1
DataByte == Bytes \union {Junk}
Dirent   == [ino : Ino \union {Invalid}, name : Names \union {NoName}]
DirIdx   == 0 .. DirentsPerBlock - 1

Content ==
  [kind : {"dir"}, ents : [DirIdx -> Dirent]]
    \union [kind : {"ptrs"}, ptrs : [PtrIdx -> Pointer]]
    \union [kind : {"data"}, bytes : [ByteIdx -> DataByte]]
    \union [kind : {"noise"}]

DirBlock(e)  == [kind |-> "dir", ents |-> e]
PtrBlock(p)  == [kind |-> "ptrs", ptrs |-> p]
DataBlock(d) == [kind |-> "data", bytes |-> d]
Noise        == [kind |-> "noise"]

FreeEntry == [ino |-> Invalid, name |-> NoName]
NoPtrs    == [i \in PtrIdx |-> Invalid]
Zeros     == [i \in ByteIdx |-> 0]

AsPointers(B, t) == IF t \in DataBlocks /\ B[t].kind = "ptrs"
                    THEN B[t].ptrs ELSE [i \in PtrIdx |-> 0]
AsDirents(B, b)  == IF b \in DataBlocks /\ B[b].kind = "dir"
                    THEN B[b].ents
                    ELSE [i \in DirIdx |-> [ino |-> 0, name |-> NoName]]
AsBytes(B, b)    == IF b \in DataBlocks /\ B[b].kind = "data"
                    THEN B[b].bytes ELSE [i \in ByteIdx |-> Junk]

(***************************************************************************)
(* Inodes.  block_count is a uint32_t the code increments and decrements   *)
(* without a check; it is an integer here, so that a wrap below zero is a  *)
(* negative number.  mtime is left out.                                    *)
(***************************************************************************)
Inode == [type : {"FREE", "FILE", "DIR"}, size : 0 .. MaxFileSize,
          block_count : Int, direct : [DirectIdx -> Pointer],
          indirect : Pointer, double : Pointer]

EmptyInode(t) == [type |-> t, size |-> 0, block_count |-> 0,
                  direct |-> [i \in DirectIdx |-> Invalid],
                  indirect |-> Invalid, double |-> Invalid]
FileBlocks(nd) == Ceil(nd.size, SectorSize)

-----------------------------------------------------------------------------
(***************************************************************************)
(* The block map of a file: direct pointers, one indirect table, and a     *)
(* double-indirect root whose children are tables.                         *)
(***************************************************************************)
InIndirect(lb) == lb >= DirectBlocks /\ lb < DirectBlocks + PointersPerBlock
InDouble(lb)   == lb >= DirectBlocks + PointersPerBlock
Outer(lb) == (lb - DirectBlocks - PointersPerBlock) \div PointersPerBlock
Inner(lb) == (lb - DirectBlocks - PointersPerBlock) % PointersPerBlock

PtrAt(B, t, i) == IF t = Invalid THEN Invalid ELSE AsPointers(B, t)[i]
Child(B, nd, o) == PtrAt(B, nd.double, o)

DataPtr(B, nd, lb) ==
  IF lb < DirectBlocks THEN nd.direct[lb]
  ELSE IF InIndirect(lb) THEN PtrAt(B, nd.indirect, lb - DirectBlocks)
  ELSE PtrAt(B, Child(B, nd, Outer(lb)), Inner(lb))

\* The pointer tables on the way to logical block lb.
TablePath(B, nd, lb) ==
  (IF lb < DirectBlocks THEN {}
   ELSE IF InIndirect(lb) THEN {nd.indirect}
   ELSE {nd.double, Child(B, nd, Outer(lb))}) \ {Invalid}

\* A table can be read when it is a data block marked allocated.
Readable(bm, t) == t \in DataBlocks /\ t \in bm

\* The block that holds logical block lb, Invalid for a hole, or EIO when a
\* table or the block itself is not marked allocated.
get_file_data_block(bm, B, nd, lb) ==
  LET b == DataPtr(B, nd, lb)
  IN  IF /\ \A t \in TablePath(B, nd, lb) : Readable(bm, t)
         /\ b = Invalid \/ Readable(bm, b)
      THEN b ELSE EIO

\* The byte denyfs_vol_read returns for position pos: a hole reads as zero.
ReadByte(bm, B, nd, pos) ==
  LET b == get_file_data_block(bm, B, nd, pos \div SectorSize)
  IN  IF b = Invalid THEN 0 ELSE AsBytes(B, b)[pos % SectorSize]

-----------------------------------------------------------------------------
(***************************************************************************)
(* The root directory, entry by entry in the order the code scans it.      *)
(***************************************************************************)
valid_dirent(e) ==
  \/ e = FreeEntry
  \/ e.ino \in FileIno /\ e.name \in Names

DirSlots(I) == {s \in DirectIdx \X DirIdx : I[0].direct[s[1]] # Invalid}
Before(s, t) == s[1] < t[1] \/ (s[1] = t[1] /\ s[2] < t[2])
EntryAt(I, B, s) == AsDirents(B, I[0].direct[s[1]])[s[2]]

\* The scan of lookup, add_dirent and remove_dirent reaches slot s: no entry
\* up to s is malformed.
Reached(I, B, s) ==
  \A t \in DirSlots(I) : ~Before(s, t) => valid_dirent(EntryAt(I, B, t))

\* Slot s is the entry of name n the scan stops at.
IsEntryOf(I, B, n, s) ==
  /\ s \in DirSlots(I) /\ Reached(I, B, s) /\ EntryAt(I, B, s).name = n
  /\ \A t \in DirSlots(I) : Before(t, s) => EntryAt(I, B, t).name # n

denyfs_vol_lookup(I, B, n) ==
  LET hits == {s \in DirSlots(I) : IsEntryOf(I, B, n, s)}
  IN  IF hits # {} THEN EntryAt(I, B, CHOOSE s \in hits : TRUE).ino
      ELSE IF \A s \in DirSlots(I) : valid_dirent(EntryAt(I, B, s))
           THEN ENOENT ELSE EIO

\* The entries denyfs_vol_readdir passes to its callback: every used slot
\* before the first malformed one, where the call ends with EIO.
denyfs_vol_readdir(I, B) ==
  {s \in DirSlots(I) : Reached(I, B, s) /\ EntryAt(I, B, s) # FreeEntry}

-----------------------------------------------------------------------------
(***************************************************************************)
(* validate_loaded_metadata.  A reference is one place that names a block: *)
(* <<inode, role, index, block>>.                                          *)
(***************************************************************************)
DataRefs(B, nd) ==
  {r \in {<<"data", lb, DataPtr(B, nd, lb)>> : lb \in LogicalBlocks} :
     r[3] # Invalid}
TableRefs(B, nd) ==
  {r \in {<<"indirect", 0, nd.indirect>>, <<"double", 0, nd.double>>}
         \union {<<"child", o, Child(B, nd, o)>> : o \in PtrIdx} :
     r[3] # Invalid}
InodeRefs(B, nd) == DataRefs(B, nd) \union TableRefs(B, nd)
Refs(I, B) ==
  UNION {{<<i, r[1], r[2], r[3]>> : r \in InodeRefs(B, I[i])} : i \in Ino}
Claimed(I, B) == {r[4] : r \in Refs(I, B)}

RootValid(I) ==
  /\ I[0].type = "DIR" /\ I[0].size = 0
  /\ I[0].block_count \in 1 .. DirectBlocks
  /\ I[0].indirect = Invalid /\ I[0].double = Invalid
  /\ \A i \in DirectIdx : (i < I[0].block_count) <=> (I[0].direct[i] # Invalid)

InodesValid(I) ==
  \A i \in FileIno : I[i].type = "FILE" \/ I[i] = EmptyInode("FREE")

\* Every block a file claims lies before its end, and so does the first
\* block of every double-indirect child.
WithinSize(I, B) ==
  \A i \in FileIno :
    /\ \A r \in DataRefs(B, I[i]) : r[2] < FileBlocks(I[i])
    /\ \A o \in PtrIdx : Child(B, I[i], o) # Invalid =>
         DirectBlocks + (o + 1) * PointersPerBlock < FileBlocks(I[i])

BlockCountsValid(I, B) ==
  \A i \in FileIno : I[i].block_count = Cardinality(DataRefs(B, I[i]))

TablesNonEmpty(I, B) ==
  \A i \in FileIno : \A r \in TableRefs(B, I[i]) :
    \E p \in PtrIdx : AsPointers(B, r[3])[p] # Invalid

\* Each reference claims a data block that is marked allocated, and no block
\* is claimed twice.
ClaimsValid(bm, I, B) ==
  /\ Claimed(I, B) \subseteq bm \intersect DataBlocks
  /\ Cardinality(Claimed(I, B)) = Cardinality(Refs(I, B))

AccountingValid(free_blocks, free_inodes, bm, I, B) ==
  /\ free_inodes = Cardinality({i \in Ino : I[i].type = "FREE"})
  /\ MetaBlocks \subseteq bm
  /\ Cardinality(bm \intersect DataBlocks) = Cardinality(Refs(I, B))
  /\ free_blocks = Cardinality(DataBlocks \ bm)

\* Directory entries and allocated files correspond one to one, and no two
\* entries have the same name.
DirectoryValid(I, B) ==
  LET used == {s \in DirSlots(I) : EntryAt(I, B, s) # FreeEntry}
  IN  /\ \A s \in used : /\ valid_dirent(EntryAt(I, B, s))
                         /\ I[EntryAt(I, B, s).ino].type = "FILE"
      /\ \A s, t \in used : s # t =>
           /\ EntryAt(I, B, s).ino # EntryAt(I, B, t).ino
           /\ EntryAt(I, B, s).name # EntryAt(I, B, t).name
      /\ \A i \in FileIno : I[i].type = "FILE" =>
           \E s \in used : EntryAt(I, B, s).ino = i

\* Everything the loader checks except that blocks lie before end of file.
Consistent(free_blocks, free_inodes, bm, I, B) ==
  /\ RootValid(I)
  /\ InodesValid(I)
  /\ BlockCountsValid(I, B)
  /\ TablesNonEmpty(I, B)
  /\ ClaimsValid(bm, I, B)
  /\ AccountingValid(free_blocks, free_inodes, bm, I, B)
  /\ DirectoryValid(I, B)

\* denyfs_vol_open accepts the image: the bitmap is the one the superblock
\* authenticates, and the metadata validates.
ValidImage(dsb, bm, I, B) ==
  /\ dsb.bitmap_hmac = bm
  /\ dsb.free_blocks \in 0 .. TotalBlocks - DataStart
  /\ dsb.free_inodes \in 0 .. MaxInodes - 1
  /\ Consistent(dsb.free_blocks, dsb.free_inodes, bm, I, B)
  /\ WithinSize(I, B)

=============================================================================
