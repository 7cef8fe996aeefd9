---------------------------- MODULE HistoryProofs ----------------------------
(***************************************************************************)
(* A volume implements FlatFiles: what its callers see between calls, and  *)
(* after a crash, are flat files.                                          *)
(***************************************************************************)
EXTENDS ConsistencyProofs, VolumeHistory

-----------------------------------------------------------------------------
(***************************************************************************)
(* The invariant.                                                          *)
(***************************************************************************)
\* The bytes of logical block lb of file i in data area B with block map f.
SectorOf(f, B, i, lb) == IF f[DataSite(i, lb)] = Invalid THEN Zeros
                         ELSE AsBytes(B, f[DataSite(i, lb)])
\* The directory has name n for file i.
ListsIn(I, B, n, i) ==
  \E s \in Used(I, B) : EntryAt(I, B, s).name = n /\ EntryAt(I, B, s).ino = i
\* File i, and what a caller sees under name n.
FileOf(I, f, B, i) ==
  [exists |-> TRUE, size |-> I[i].size,
   cells |-> [c \in Flat!Cells |->
                SectorOf(f, B, i, c \div SectorSize)[c % SectorSize]]]
ShowsIn(I, f, B, n, g) ==
  \/ \E i \in FileIno : ListsIn(I, B, n, i) /\ g = FileOf(I, f, B, i)
  \/ (\A i \in FileIno : ~ListsIn(I, B, n, i)) /\ g = Flat!Absent

\* The same of the mounted volume.
Sector(i, lb) == SectorOf(BlockMap, blk, i, lb)
Cell(i, c)    == Sector(i, c \div SectorSize)[c % SectorSize]
Lists(n, i)   == ListsIn(inodes, blk, n, i)
FileAt(i)     == FileOf(inodes, BlockMap, blk, i)
Shows(n, g)   == ShowsIn(inodes, BlockMap, blk, n, g)

InWrite    == pc \in {"map", "root", "table", "leaf", "link", "put"}
InTruncate == pc \in {"shrink", "roots", "children", "resize"}

\* The call recorded is the one whose handler runs.
CallOK ==
  /\ pc = "idle" => call = Flat!NoCall
  /\ pc # "idle" => ret = "busy"
  /\ InWrite => /\ op.call = "write"
                /\ call = Request("write", call.name, op.off, op.buf, 0)
  /\ InTruncate => /\ op.call = "truncate"
                   /\ call = Request("truncate", call.name, 0, <<>>, op.size)
  /\ InWrite \/ InTruncate => Lists(call.name, op.ino)
  /\ pc = "flush" => IF op.call = "destroy" THEN call = Flat!NoCall
                     ELSE call # Flat!NoCall /\ call.kind = op.call
  /\ call # Flat!NoCall => /\ call.kind \in {"create", "unlink", "write", "truncate"}
                           /\ call.name \in Names /\ call.name \in unsettled

\* Nothing but the file of the running call has changed.
OthersSeen ==
  \A m \in Names : call = Flat!NoCall \/ m # call.name => Shows(m, seen[m])

\* The table on disk and the table in memory agree on the settled files.
Saved(J, I, B, U) ==
  /\ \A k \in DirectIdx : J[0].direct[k] # Invalid =>
       J[0].direct[k] = I[0].direct[k]
  /\ \A s \in Used(I, B) : EntryAt(I, B, s).name \notin U =>
       /\ J[0].direct[s[1]] # Invalid
       /\ J[EntryAt(I, B, s).ino] = I[EntryAt(I, B, s).ino]
Settled == Saved(dinodes, inodes, blk, unsettled)

\* A data block that no table names yet holds zeros.
Zeroed == InTable => blk[op.data] = DataBlock(Zeros)

\* The file of the running call, as far as the handler has come.
Was == seen[call.name]
Stands == InWrite \/ InTruncate => Was.exists /\ Was.size = node.size
WrittenSoFar ==
  InWrite => \A c \in Flat!Cells :
    Cell(op.ino, c) = IF c \in op.off .. op.off + op.done - 1
                      THEN op.buf[c - op.off + 1] ELSE Was.cells[c]
Passed(lb) ==
  CASE pc = "shrink" -> FALSE
    [] pc = "roots" -> ~InDouble(lb)
    [] pc = "children" -> InDouble(lb) => Outer(lb) < op.cur
    [] OTHER -> TRUE
GrowsOn == InTruncate /\ op.size > node.size =>
  pc = "resize" /\ \A c \in Flat!Cells : Cell(op.ino, c) = Was.cells[c]
ShrunkSoFar == InTruncate /\ ~(op.size > node.size) =>
  /\ op.size < node.size
  /\ \A c \in Flat!Cells : c \div SectorSize < NewBlocks =>
       Cell(op.ino, c) = IF c < op.size THEN Was.cells[c] ELSE 0
  /\ \A lb \in LogicalBlocks : lb >= NewBlocks /\ Passed(lb) =>
       Sector(op.ino, lb) = Zeros
Saving == pc = "flush" /\ call # Flat!NoCall =>
  Shows(call.name, Flat!Effect(call, Was))

OpenInv == /\ CallOK /\ OthersSeen /\ Settled /\ Zeroed /\ Stands
           /\ WrittenSoFar /\ GrowsOn /\ ShrunkSoFar /\ Saving

\* A container that opens shows the settled files as they were seen.
Recovers ==
  ValidImage(dsb, dbitmap, dinodes, blk) =>
    \A n \in Names \ unsettled : FileIn(dbitmap, dinodes, blk, n) = seen[n]

HistoryInv ==
  /\ seen \in [Names -> Flat!File]
  /\ IF pc = "closed" THEN call = Flat!NoCall /\ Recovers ELSE OpenInv

\* The history variables take nothing from the volume and add nothing to it.
LEMMA HistoryMoves == [HNext]_hvars => [Next]_vars
<1>1. HCall => Call
  BY DEF HCall, Call
<1>2. UNCHANGED hvars => UNCHANGED vars
  BY DEF hvars
<1>3. HNext => Next
  BY <1>1 DEF HNext, HStep, Next
<1> QED BY <1>2, <1>3

\* So what holds of every volume holds of one with its history.
LEMMA HistoryRefines == HSpec => Spec
<1>1. HInit => Init
  BY DEF HInit
<1> QED BY <1>1, HistoryMoves, PTL DEF HSpec, Spec

-----------------------------------------------------------------------------
(***************************************************************************)
(* Reading an image.                                                       *)
(***************************************************************************)
\* A valid directory lists each file once, under one name, and lookup finds it.
LEMMA ListingFacts ==
  ASSUME NEW I, NEW B, DirectoryValid(I, B)
  PROVE  /\ \A n, i : ListsIn(I, B, n, i) =>
              i \in FileIno /\ n \in Names /\ I[i].type = "FILE"
         /\ \A n, i, j : ListsIn(I, B, n, i) /\ ListsIn(I, B, n, j) => i = j
         /\ \A m, n, i : ListsIn(I, B, m, i) /\ ListsIn(I, B, n, i) => m = n
         /\ \A n \in Names, i \in FileIno :
              denyfs_vol_lookup(I, B, n) = i <=> ListsIn(I, B, n, i)
         /\ \A n \in Names : denyfs_vol_lookup(I, B, n) = ENOENT =>
              \A i : ~ListsIn(I, B, n, i)
<1>1. /\ \A s \in Used(I, B) :
           /\ EntryAt(I, B, s).ino \in FileIno
           /\ EntryAt(I, B, s).name \in Names
           /\ I[EntryAt(I, B, s).ino].type = "FILE"
      /\ \A s, t \in Used(I, B) : s # t =>
           /\ EntryAt(I, B, s).ino # EntryAt(I, B, t).ino
           /\ EntryAt(I, B, s).name # EntryAt(I, B, t).name
  BY EntriesRead
<1>2. ASSUME NEW n \in Names, NEW i \in FileIno, denyfs_vol_lookup(I, B, n) = i
      PROVE  ListsIn(I, B, n, i)
  <2>1. CASE \E s \in Used(I, B) : EntryAt(I, B, s).name = n
    BY <1>2, <2>1, LookupFinds DEF ListsIn
  <2>2. CASE \A s \in Used(I, B) : EntryAt(I, B, s).name # n
    <3>1. \A s : ~IsEntryOf(I, B, n, s)
      BY <2>2, EntryFound
    <3>2. denyfs_vol_lookup(I, B, n) \in {ENOENT, EIO}
      BY <3>1 DEF denyfs_vol_lookup
    <3>3. i >= 1
      BY DEF FileIno
    <3> QED BY <1>2, <3>2, <3>3 DEF ENOENT, EIO
  <2> QED BY <2>1, <2>2
<1>3. ASSUME NEW n \in Names, NEW i \in FileIno, ListsIn(I, B, n, i)
      PROVE  denyfs_vol_lookup(I, B, n) = i
  BY <1>3, LookupFinds DEF ListsIn
<1>4. \A n \in Names : denyfs_vol_lookup(I, B, n) = ENOENT =>
        \A i : ~ListsIn(I, B, n, i)
  BY LookupFinds DEF ListsIn
<1> QED BY <1>1, <1>2, <1>3, <1>4 DEF ListsIn

\* Every byte of a file lies in a logical block.
LEMMA CellPlace ==
  ASSUME NEW c \in Flat!Cells
  PROVE  /\ c \in Nat /\ c \div SectorSize \in LogicalBlocks
         /\ c \div SectorSize \in Nat /\ c % SectorSize \in ByteIdx
         /\ c = SectorSize * (c \div SectorSize) + (c % SectorSize)
<1>1. c \in Nat /\ c < MaxFileSize
  BY SizesAssumption DEF Flat!Cells
<1>2. MaxFileBlocks \in Nat
  BY SizesAssumption DEF MaxFileBlocks
<1>3. c < MaxFileBlocks * SectorSize
  BY <1>1, <1>2, LayoutAssumption, SizesAssumption
<1>4. c \div SectorSize \in 0 .. MaxFileBlocks - 1
  BY <1>1, <1>2, <1>3, DivBelow, SizesAssumption
<1>5. /\ c % SectorSize \in 0 .. SectorSize - 1
      /\ c = SectorSize * (c \div SectorSize) + (c % SectorSize)
  BY <1>1, ModFacts, SizesAssumption
<1> QED BY <1>1, <1>2, <1>4, <1>5 DEF LogicalBlocks, ByteIdx

\* Every block the map of an image names can be read.
Sound(bm, f) == \A s \in Site : f[s] = Invalid \/ Readable(bm, f[s])

\* What read returns is what the map and the data area hold.
LEMMA ByteRead ==
  ASSUME NEW bm, NEW I, NEW B, Sound(bm, Map(I, B)), NEW i \in Ino,
         NEW c \in Flat!Cells
  PROVE  ReadByte(bm, B, I[i], c) =
           SectorOf(Map(I, B), B, i, c \div SectorSize)[c % SectorSize]
<1> DEFINE lb == c \div SectorSize
           nd == I[i]
           f == Map(I, B)
<1>1. lb \in LogicalBlocks /\ c % SectorSize \in ByteIdx
  BY CellPlace
<1>2. f[DataSite(i, lb)] = DataPtr(B, nd, lb) /\ DataSite(i, lb) \in Site
  BY <1>1, MapAt, Sites
<1>3. \A t \in TablePath(B, nd, lb) : Readable(bm, t)
  <2> SUFFICES ASSUME NEW t \in TablePath(B, nd, lb)
               PROVE  Readable(bm, t)
    OBVIOUS
  <2>1. /\ f[SingleSite(i)] = nd.indirect /\ f[DoubleSite(i)] = nd.double
        /\ SingleSite(i) \in Site /\ DoubleSite(i) \in Site
        /\ \A o \in PtrIdx : f[ChildSite(i, o)] = Child(B, nd, o)
                             /\ ChildSite(i, o) \in Site
    BY MapAt, Sites
  <2>2. t # Invalid /\ (\/ t = nd.indirect
                        \/ ~(lb < DirectBlocks) /\ ~InIndirect(lb)
                           /\ (t = nd.double \/ t = Child(B, nd, Outer(lb))))
    BY DEF TablePath
  <2>3. ~(lb < DirectBlocks) /\ ~InIndirect(lb) => Outer(lb) \in PtrIdx
    BY <1>1, BlockPlace
  <2> QED BY <2>1, <2>2, <2>3 DEF Sound
<1>4. get_file_data_block(bm, B, nd, lb) = f[DataSite(i, lb)]
  BY <1>2, <1>3 DEF get_file_data_block, Sound
<1>5. Zeros[c % SectorSize] = 0
  BY <1>1 DEF Zeros
<1> QED BY <1>4, <1>5 DEF ReadByte, SectorOf

\* Lookup, getattr and read show what the map and the data area hold.
LEMMA FileRead ==
  ASSUME NEW bm, NEW I, NEW B, DirectoryValid(I, B), Sound(bm, Map(I, B)),
         NEW n \in Names, NEW g
  PROVE  ShowsIn(I, Map(I, B), B, n, g) <=> g = FileIn(bm, I, B, n)
<1> DEFINE f == Map(I, B)
           i == denyfs_vol_lookup(I, B, n)
<1>1. ASSUME NEW j \in FileIno
      PROVE  FileOf(I, f, B, j) =
               [exists |-> TRUE, size |-> I[j].size,
                cells |-> [c \in 0 .. MaxFileSize - 1 |-> ReadByte(bm, B, I[j], c)]]
  <2>1. j \in Ino
    BY Ranges
  <2>2. \A c \in Flat!Cells : ReadByte(bm, B, I[j], c)
                                = SectorOf(f, B, j, c \div SectorSize)[c % SectorSize]
    BY <2>1, ByteRead
  <2> QED BY <2>2 DEF FileOf, Flat!Cells
<1>2. \A j \in FileIno : i = j <=> ListsIn(I, B, n, j)
  BY ListingFacts
<1>3. CASE i \in FileIno
  <2>1. FileIn(bm, I, B, n) = FileOf(I, f, B, i)
    BY <1>1, <1>3 DEF FileIn
  <2> QED BY <1>2, <1>3, <2>1 DEF ShowsIn
<1>4. CASE i \notin FileIno
  <2>1. FileIn(bm, I, B, n) = Flat!Absent
    BY <1>4 DEF FileIn
  <2> QED BY <1>2, <1>4, <2>1 DEF ShowsIn
<1> QED BY <1>3, <1>4

\* What is read is a file.
LEMMA FileTyped ==
  ASSUME NEW bm, NEW I \in [Ino -> Inode], NEW B \in [DataBlocks -> Content],
         NEW n
  PROVE  FileIn(bm, I, B, n) \in Flat!File
<1>1. \A b : AsBytes(B, b) \in [ByteIdx -> DataByte]
  BY ValuesAssumption DEF AsBytes, Content, DataByte
<1>2. 0 \in DataByte
  BY ValuesAssumption DEF DataByte
<1>3. \A nd, c : c \in Flat!Cells => ReadByte(bm, B, nd, c) \in DataByte
  BY <1>1, <1>2, CellPlace DEF ReadByte
<1>4. Flat!Absent \in Flat!File
  BY <1>2, SizesAssumption DEF Flat!Absent, Flat!File, Flat!Blank
<1>5. ASSUME NEW i \in FileIno
      PROVE  [exists |-> TRUE, size |-> I[i].size,
              cells |-> [c \in 0 .. MaxFileSize - 1 |-> ReadByte(bm, B, I[i], c)]]
               \in Flat!File
  <2>1. I[i].size \in 0 .. MaxFileSize
    BY Ranges DEF Inode
  <2> QED BY <1>3, <2>1 DEF Flat!File, Flat!Cells
<1> QED BY <1>4, <1>5 DEF FileIn

-----------------------------------------------------------------------------
(***************************************************************************)
(* What a block write does to the contents of files.                       *)
(***************************************************************************)
SameSectors == \A i \in FileIno, lb \in LogicalBlocks :
                 Sector(i, lb)' = Sector(i, lb)

\* A write to another block keeps what is still named, and a block no longer
\* named reads as zeros.
LEMMA SectorKept ==
  ASSUME TypeInv, NEW i \in FileIno, NEW lb \in LogicalBlocks,
         UNCHANGED blk \/ \E t, c : Beside(t) /\ write_block(t, c)
  PROVE  /\ BlockMap'[DataSite(i, lb)] = BlockMap[DataSite(i, lb)] =>
              Sector(i, lb)' = Sector(i, lb)
         /\ BlockMap'[DataSite(i, lb)] = Invalid => Sector(i, lb)' = Zeros
<1> DEFINE x == DataSite(i, lb)
<1>1. Sector(i, lb)' = SectorOf(BlockMap', blk', i, lb)
  BY DEF Sector
<1>2. BlockMap'[x] = Invalid => Sector(i, lb)' = Zeros
  BY <1>1 DEF SectorOf
<1>3. ASSUME BlockMap'[x] = BlockMap[x], BlockMap[x] # Invalid
      PROVE  Sector(i, lb)' = Sector(i, lb)
  <2>1. AsBytes(blk', BlockMap[x]) = AsBytes(blk, BlockMap[x])
    <3>1. CASE UNCHANGED blk
      BY <3>1
    <3>2. ASSUME NEW t, NEW c, Beside(t), write_block(t, c)
          PROVE  AsBytes(blk', BlockMap[x]) = AsBytes(blk, BlockMap[x])
      <4>1. BlockMap[x] # t
        BY <1>3, <3>2 DEF Beside
      <4>2. BlockMap[x] \in DataBlocks => blk'[BlockMap[x]] = blk[BlockMap[x]]
        BY <3>2, <4>1, WriteOther
      <4> QED BY <4>2 DEF AsBytes
    <3> QED BY <3>1, <3>2
  <2> QED BY <1>1, <1>3, <2>1 DEF Sector, SectorOf
<1>4. BlockMap'[x] = BlockMap[x] /\ BlockMap[x] = Invalid =>
        Sector(i, lb)' = Sector(i, lb)
  BY <1>2 DEF Sector, SectorOf
<1> QED BY <1>2, <1>3, <1>4

\* A write to a block of a file changes that block of that file.
LEMMA SectorPut ==
  ASSUME TypeInv, LiveInv, BlockMap' = BlockMap, NEW i \in FileIno,
         NEW lb \in LogicalBlocks, NEW d, NEW t \in DataBlocks,
         t = BlockMap[DataSite(i, lb)], write_block(t, DataBlock(d))
  PROVE  \A j \in FileIno, k \in LogicalBlocks :
           Sector(j, k)' = IF j = i /\ k = lb THEN d ELSE Sector(j, k)
<1> SUFFICES ASSUME NEW j \in FileIno, NEW k \in LogicalBlocks
             PROVE  Sector(j, k)' = IF j = i /\ k = lb THEN d ELSE Sector(j, k)
  OBVIOUS
<1> DEFINE b == BlockMap[DataSite(j, k)]
<1>1. Sector(j, k)' = IF b = Invalid THEN Zeros ELSE AsBytes(blk', b)
  BY DEF Sector, SectorOf
<1>2. t # Invalid
  BY DataArea
<1>3. CASE j = i /\ k = lb
  <2>1. blk'[t] = DataBlock(d)
    BY TypeParts DEF write_block, DataOK
  <2>2. AsBytes(blk', t) = d
    BY <2>1 DEF AsBytes, DataBlock
  <2> QED BY <1>1, <1>2, <1>3, <2>2
<1>4. CASE ~(j = i /\ k = lb)
  <2>1. DataSite(j, k) \in Site /\ DataSite(i, lb) \in Site
        /\ DataSite(j, k) # DataSite(i, lb) /\ DOMAIN BlockMap = Site
    <3>1. i \in Ino /\ j \in Ino /\ i \in Ino
      BY Ranges
    <3>2. DataSite(j, k) # DataSite(i, lb)
      BY <1>4, SitesApart
    <3> QED BY <3>1, <3>2, Sites, MapAt DEF BlockMap
  <2>2. b # t
    BY <1>2, <2>1 DEF LiveInv, MapExact, Once
  <2>3. b \in DataBlocks => blk'[b] = blk[b]
    BY <2>2, WriteOther
  <2>4. AsBytes(blk', b) = AsBytes(blk, b)
    BY <2>3 DEF AsBytes
  <2> QED BY <1>1, <1>4, <2>4 DEF Sector, SectorOf
<1> QED BY <1>3, <1>4

\* A block that comes to be named held zeros, as the hole it fills did.
LEMMA SectorsEnter ==
  ASSUME TypeInv, InTables, LiveInv, Zeroed,
         AllocateData \/ WriteLeaf \/ LinkChild, pc' = "put"
  PROVE  SameSectors
<1>1. /\ op.ino \in FileIno /\ op.done < Len(op.buf)
      /\ BlockMap'[BlkSite] = op'.data
      /\ \/ /\ \E b \in DataBlocks :
                 alloc_block(b) /\ op' = [op EXCEPT !.data = b]
            /\ write_block(op'.data, DataBlock(Zeros))
         \/ /\ InTable /\ UNCHANGED op
            /\ \E t, c : t # op.data /\ Beside(t) /\ write_block(t, c)
  BY BlockEnters
<1>2. PICK Y : Enters(BlockMap, BlockMap', op.ino, Y, BlkSite)
  BY BlockEnters
<1>3. /\ \A s \in Site : s \notin Y => BlockMap'[s] = BlockMap[s]
      /\ Y \intersect DataSites(op.ino) = {BlkSite} /\ Y \subseteq Owned(op.ino)
      /\ \A s \in Y : BlockMap[s] = Invalid
  BY <1>2 DEF Enters, AgreeBut
<1>4. op'.data \in DataBlocks /\ blk'[op'.data] = DataBlock(Zeros)
      /\ \E t, c : Beside(t) /\ write_block(t, c)
  <2>1. CASE /\ \E b \in DataBlocks :
                  alloc_block(b) /\ op' = [op EXCEPT !.data = b]
             /\ write_block(op'.data, DataBlock(Zeros))
    <3>1. PICK b \in DataBlocks : alloc_block(b) /\ op' = [op EXCEPT !.data = b]
      BY <2>1
    <3>2. op'.data = b
      BY <3>1, Locals
    <3>3. blk'[b] = DataBlock(Zeros)
      BY <2>1, <3>2, TypeParts DEF write_block, DataOK
    <3>4. b \notin Named
      BY <3>1, FreshBlock DEF alloc_block, LiveInv
    <3> QED BY <2>1, <3>2, <3>3, <3>4, Besides
  <2>2. CASE /\ InTable /\ UNCHANGED op
             /\ \E t, c : t # op.data /\ Beside(t) /\ write_block(t, c)
    <3>1. PICK t, c : t # op.data /\ Beside(t) /\ write_block(t, c)
      BY <2>2
    <3>2. op.data \in DataBlocks
      BY <2>2 DEF LiveInv, TablesOK
    <3>3. blk'[op.data] = DataBlock(Zeros)
      BY <2>2, <3>1, <3>2, WriteOther DEF Zeroed
    <3> QED BY <2>2, <3>1, <3>2, <3>3
  <2> QED BY <1>1, <2>1, <2>2
<1>5. SUFFICES ASSUME NEW i \in FileIno, NEW lb \in LogicalBlocks
               PROVE  Sector(i, lb)' = Sector(i, lb)
  BY DEF SameSectors
<1>6. i \in Ino /\ op.ino \in Ino /\ DataSite(i, lb) \in Site
  BY <1>1, Ranges, Sites
<1>7. CASE DataSite(i, lb) \notin Y
  BY <1>3, <1>4, <1>6, <1>7, SectorKept
<1>8. CASE DataSite(i, lb) \in Y
  <2>1. DataSite(i, lb) = BlkSite
    <3>1. i = op.ino
      BY <1>3, <1>8 DEF Owned, DataSite
    <3>2. DataSite(i, lb) \in DataSites(op.ino)
      BY <1>6, <3>1, OwnedKinds
    <3> QED BY <1>3, <1>8, <3>2
  <2>2. Sector(i, lb) = Zeros
    BY <1>3, <1>8 DEF Sector, SectorOf
  <2>3. BlockMap'[DataSite(i, lb)] = op'.data /\ op'.data # Invalid
    BY <1>1, <1>4, <2>1, DataArea
  <2>4. AsBytes(blk', op'.data) = Zeros
    BY <1>4 DEF AsBytes, DataBlock
  <2>5. Sector(i, lb)' = Zeros
    BY <2>3, <2>4 DEF Sector, SectorOf
  <2> QED BY <2>2, <2>5
<1> QED BY <1>7, <1>8

\* A write step that allocates or looks for blocks, and does not enter any.
LEMMA SectorsWait ==
  ASSUME TypeInv, InTables, LiveInv, Zeroed,
         \/ WriteMapped \/ FindRoot \/ FindTable
         \/ (AllocateData \/ WriteLeaf \/ LinkChild) /\ pc' # "put"
  PROVE  SameSectors /\ Zeroed'
<1>1. BlockMap' = BlockMap /\ UNCHANGED inodes /\ pc # "children"
  BY MapStays
<1>2. ASSUME UNCHANGED blk, InTable' => op'.data = op.data /\ InTable
      PROVE  SameSectors /\ Zeroed'
  <2>1. SameSectors
    BY <1>1, <1>2, SectorKept DEF SameSectors
  <2> QED BY <1>2, <2>1 DEF Zeroed
<1>3. ASSUME NEW t, NEW c, Beside(t), write_block(t, c),
             InTable' => op'.data \in DataBlocks /\ blk'[op'.data] = DataBlock(Zeros)
      PROVE  SameSectors /\ Zeroed'
  <2>1. SameSectors
    BY <1>1, <1>3, SectorKept DEF SameSectors
  <2> QED BY <1>3, <2>1 DEF Zeroed
<1>4. ASSUME NEW t, NEW c, Beside(t), write_block(t, c), op'.data = op.data,
             InTable, t # op.data
      PROVE  SameSectors /\ Zeroed'
  <2>1. op.data \in DataBlocks
    BY <1>4 DEF LiveInv, TablesOK
  <2>2. blk'[op.data] = DataBlock(Zeros)
    BY <1>4, <2>1, WriteOther DEF Zeroed
  <2> QED BY <1>3, <1>4, <2>1, <2>2
<1>5. CASE WriteMapped
  BY <1>2, <1>5 DEF WriteMapped, InTable, NoWrite, Return, Goto
<1>6. CASE AllocateData /\ pc' # "put"
  <2>1. CASE UNCHANGED blk /\ pc' = "idle"
    BY <1>2, <2>1 DEF InTable
  <2>2. ASSUME NEW b \in DataBlocks, alloc_block(b), op' = [op EXCEPT !.data = b],
               write_block(b, DataBlock(Zeros))
        PROVE  SameSectors /\ Zeroed'
    <3>1. b \notin Named
      BY <2>2, FreshBlock DEF alloc_block, LiveInv
    <3>2. op'.data = b
      BY <2>2, Locals
    <3>3. blk'[b] = DataBlock(Zeros)
      BY <2>2, TypeParts DEF write_block, DataOK
    <3> QED BY <1>3, <2>2, <3>1, <3>2, <3>3, Besides
  <2> QED BY <1>6, <2>1, <2>2 DEF AllocateData, Return, WriteFails, NoWrite
<1>7. ASSUME AllocateTable, pc = "root" \/ pc = "table"
      PROVE  SameSectors /\ Zeroed'
  <2>1. CASE UNCHANGED blk /\ pc' = "idle"
    BY <1>2, <2>1 DEF InTable
  <2>2. ASSUME NEW b \in DataBlocks, alloc_block(b),
               write_block(b, PtrBlock(NoPtrs)),
               \/ op' = [op EXCEPT !.root = b, !.new_root = TRUE]
               \/ op' = [op EXCEPT !.table = b, !.new_table = TRUE]
        PROVE  SameSectors /\ Zeroed'
    <3>1. b \notin Named /\ b \notin Loose
      BY <2>2, FreshBlock DEF alloc_block, LiveInv
    <3>2. op'.data = op.data
      BY <2>2, Locals
    <3>3. InTable /\ b # op.data
      BY <1>7, <3>1 DEF InTable, Loose, Held
    <3> QED BY <1>4, <2>2, <3>1, <3>2, <3>3, Besides
  <2> QED BY <1>7, <2>1, <2>2 DEF AllocateTable, Return, WriteFails, NoWrite
<1>8. CASE FindRoot
  <2>1. CASE node.double # Invalid
    <3>1. op' = [op EXCEPT !.root = node.double] /\ UNCHANGED blk /\ pc = "root"
      BY <1>8, <2>1 DEF FindRoot, NoWrite
    <3> QED BY <1>2, <3>1, Locals DEF InTable
  <2>2. CASE node.double = Invalid
    BY <1>7, <1>8, <2>2 DEF FindRoot
  <2> QED BY <2>1, <2>2
<1>9. CASE FindTable
  <2>1. CASE LeafTable # Invalid
    <3>1. op' = [op EXCEPT !.table = LeafTable] /\ UNCHANGED blk /\ pc = "table"
      BY <1>9, <2>1 DEF FindTable, NoWrite
    <3> QED BY <1>2, <3>1, Locals DEF InTable
  <2>2. CASE LeafTable = Invalid
    BY <1>7, <1>9, <2>2 DEF FindTable
  <2> QED BY <2>1, <2>2
<1>10. CASE WriteLeaf /\ pc' # "put"
  <2>1. CASE UNCHANGED blk /\ pc' = "idle"
    BY <1>2, <2>1 DEF InTable
  <2>2. ASSUME NEW c, write_block(op.table, c), UNCHANGED op
        PROVE  SameSectors /\ Zeroed'
    <3>1. pc = "leaf" /\ InTable
      BY <1>10 DEF WriteLeaf, InTable
    <3> QED BY <1>4, <2>2, <3>1, TablesBeside
  <2> QED BY <1>10, <2>1, <2>2 DEF WriteLeaf, GiveBack, Return, WriteFails
<1>11. CASE LinkChild /\ pc' # "put"
  <2>1. UNCHANGED blk /\ pc' = "idle"
    BY <1>11 DEF LinkChild, GiveBack, Return, WriteFails, Goto
  <2> QED BY <1>2, <2>1 DEF InTable
<1> QED BY <1>5, <1>6, <1>8, <1>9, <1>10, <1>11

\* A write before the chunk is put: whatever it allocates and enters, what can
\* be read stays the same.
SameJob == /\ op'.call = op.call /\ op'.ino = op.ino /\ op'.off = op.off
           /\ op'.buf = op.buf /\ op'.done = op.done /\ op'.size = op.size
FileStays == /\ inodes'[op.ino].size = node.size
             /\ \A j \in FileIno : j # op.ino => inodes'[j] = inodes[j]
LEMMA WriteSearches ==
  ASSUME TypeInv, InTables, LiveInv, Zeroed,
         \/ WriteMapped \/ AllocateData \/ FindRoot \/ FindTable
         \/ WriteLeaf \/ LinkChild
  PROVE  /\ SameSectors /\ Zeroed' /\ FileStays /\ InWrite
         /\ \/ InWrite' /\ SameJob /\ UNCHANGED ret
            \/ pc' = "idle" /\ ret' # "ok" /\ op.done < Len(op.buf)
<1>1. SameSectors /\ Zeroed'
  <2>1. CASE pc' = "put" /\ (AllocateData \/ WriteLeaf \/ LinkChild)
    <3>1. SameSectors
      BY <2>1, SectorsEnter
    <3>2. Zeroed'
      BY <2>1 DEF Zeroed, InTable
    <3> QED BY <3>1, <3>2
  <2>2. CASE ~(pc' = "put" /\ (AllocateData \/ WriteLeaf \/ LinkChild))
    BY <2>2, SectorsWait
  <2> QED BY <2>1, <2>2
<1>2. FileStays
  <2>1. CASE pc' = "put" /\ (AllocateData \/ WriteLeaf \/ LinkChild)
    <3>1. PICK nd : Become(nd) /\ nd.type = node.type /\ nd.size = node.size
      BY <2>1, BlockEnters
    <3>2. op.ino \in Ino /\ inodes \in [Ino -> Inode] /\ FileIno \subseteq Ino
      BY Ranges, TypeBecome, TypeParts DEF InodesOK
    <3> QED BY <3>1, <3>2 DEF FileStays, Become
  <2>2. CASE ~(pc' = "put" /\ (AllocateData \/ WriteLeaf \/ LinkChild))
    <3>1. UNCHANGED inodes
      BY <2>2, MapStays
    <3> QED BY <3>1 DEF FileStays, node
  <2> QED BY <2>1, <2>2
<1>3. InWrite /\ op.done < Len(op.buf)
  BY DEF InWrite, InTables, WriteMapped, AllocateData, FindRoot, FindTable,
         WriteLeaf, LinkChild
<1>4. op \in OpType
  BY TypeParts DEF ControlOK
<1>5. \A b : /\ op' = [op EXCEPT !.data = b] => SameJob
             /\ op' = [op EXCEPT !.root = b] => SameJob
             /\ op' = [op EXCEPT !.table = b] => SameJob
             /\ op' = [op EXCEPT !.root = b, !.new_root = TRUE] => SameJob
             /\ op' = [op EXCEPT !.table = b, !.new_table = TRUE] => SameJob
             /\ UNCHANGED op => SameJob
  BY <1>4 DEF OpType, SameJob
<1>6. ASSUME NEW r \in {"EIO", "ENOSPC"}, Return(r)
      PROVE  pc' = "idle" /\ ret' # "ok"
  BY <1>6 DEF Return
<1>7. ASSUME NEW p \in {"map", "root", "table", "leaf", "link", "put"}, Goto(p)
      PROVE  InWrite' /\ UNCHANGED ret
  BY <1>7 DEF Goto, InWrite
<1>8. \/ SameJob /\ \E p \in {"map", "root", "table", "leaf", "link", "put"} : Goto(p)
      \/ \E r \in {"EIO", "ENOSPC"} : Return(r)
  <2>1. WriteMapped \/ AllocateData => \/ SameJob /\ \E p \in {"map", "root", "table", "leaf", "link", "put"} : Goto(p)
      \/ \E r \in {"EIO", "ENOSPC"} : Return(r)
    BY <1>5 DEF WriteMapped, AllocateData
  <2>2. FindRoot \/ FindTable => \/ SameJob /\ \E p \in {"map", "root", "table", "leaf", "link", "put"} : Goto(p)
      \/ \E r \in {"EIO", "ENOSPC"} : Return(r)
    BY <1>5 DEF FindRoot, FindTable, AllocateTable
  <2>3. WriteLeaf \/ LinkChild => \/ SameJob /\ \E p \in {"map", "root", "table", "leaf", "link", "put"} : Goto(p)
      \/ \E r \in {"EIO", "ENOSPC"} : Return(r)
    BY <1>5 DEF WriteLeaf, LinkChild, GiveBack
  <2> QED BY <2>1, <2>2, <2>3
<1> QED BY <1>1, <1>2, <1>3, <1>6, <1>7, <1>8

-----------------------------------------------------------------------------
(***************************************************************************)
(* What is shown, as the directory and the files change.                   *)
(***************************************************************************)
\* The listing of a directory that stays as it is.
LEMMA ListsSame ==
  ASSUME SameDir, NEW n, NEW i
  PROVE  Lists(n, i)' <=> Lists(n, i)
BY DEF SameDir, Lists, ListsIn

\* A file with the same size and bytes.
LEMMA FileSame ==
  ASSUME NEW i, inodes'[i].size = inodes[i].size,
         \A c \in Flat!Cells : Cell(i, c)' = Cell(i, c)
  PROVE  FileAt(i)' = FileAt(i)
BY DEF FileAt, FileOf, Cell, Sector

\* A file whose blocks all stay.
LEMMA CellsSame ==
  ASSUME NEW i, \A lb \in LogicalBlocks : Sector(i, lb)' = Sector(i, lb)
  PROVE  \A c \in Flat!Cells : Cell(i, c)' = Cell(i, c)
BY CellPlace DEF Cell

\* A name is shown the same file when it is listed for the same inode.
LEMMA ShowsKept ==
  ASSUME NEW n, NEW g, Shows(n, g),
         \A i \in FileIno : /\ Lists(n, i)' <=> Lists(n, i)
                            /\ Lists(n, i) => FileAt(i)' = FileAt(i)
  PROVE  Shows(n, g)'
<1>1. /\ Shows(n, g) <=> \/ \E i \in FileIno : Lists(n, i) /\ g = FileAt(i)
                         \/ (\A i \in FileIno : ~Lists(n, i)) /\ g = Flat!Absent
      /\ Shows(n, g)' <=> \/ \E i \in FileIno : Lists(n, i)' /\ g = FileAt(i)'
                          \/ (\A i \in FileIno : ~Lists(n, i)') /\ g = Flat!Absent
  BY DEF Shows, ShowsIn, Lists, FileAt, Flat!Absent, Flat!Blank, Flat!Cells
<1> QED BY <1>1

\* The files of a mounted volume, one to a name.
LEMMA Listing ==
  ASSUME DirHolds
  PROVE  /\ \A n, i : Lists(n, i) => i \in FileIno /\ n \in Names /\ IsFile(i)
         /\ \A n, i, j : Lists(n, i) /\ Lists(n, j) => i = j
         /\ \A m, n, i : Lists(m, i) /\ Lists(n, i) => m = n
         /\ \A n \in Names, i \in FileIno : LookupIs(n, i) <=> Lists(n, i)
         /\ \A n \in Names : LookupIs(n, ENOENT) => \A i : ~Lists(n, i)
         /\ \A n, i, g : Lists(n, i) /\ Shows(n, g) => g = FileAt(i)
         /\ \A n, g : (\A i \in FileIno : ~Lists(n, i)) /\ Shows(n, g)
                        => g = Flat!Absent
<1>1. DirectoryValid(inodes, blk)
  BY DEF DirHolds
<1>2. /\ \A n, i : Lists(n, i) => i \in FileIno /\ n \in Names /\ IsFile(i)
      /\ \A n, i, j : Lists(n, i) /\ Lists(n, j) => i = j
      /\ \A m, n, i : Lists(m, i) /\ Lists(n, i) => m = n
  BY <1>1, ListingFacts DEF Lists, IsFile
<1>3. /\ \A n \in Names, i \in FileIno : LookupIs(n, i) <=> Lists(n, i)
      /\ \A n \in Names : LookupIs(n, ENOENT) => \A i : ~Lists(n, i)
  BY <1>1, ListingFacts DEF Lists, LookupIs
<1>4. \A n, g : Shows(n, g) <=>
        \/ \E i \in FileIno : Lists(n, i) /\ g = FileAt(i)
        \/ (\A i \in FileIno : ~Lists(n, i)) /\ g = Flat!Absent
  BY DEF Shows, ShowsIn, Lists, FileAt
<1> QED BY <1>2, <1>3, <1>4

\* A step of a handler that touches its own file at most.
RestStays ==
  /\ SameDir /\ UNCHANGED dinodes
  /\ \A j \in FileIno : j # op.ino =>
       /\ inodes'[j] = inodes[j]
       /\ \A lb \in LogicalBlocks : Sector(j, lb)' = Sector(j, lb)
LEMMA RestKept ==
  ASSUME OpenInv, DirHolds, InWrite \/ InTruncate, RestStays,
         unsettled' = unsettled
  PROVE  /\ \A m \in Names : \A g : m # call.name /\ Shows(m, g) => Shows(m, g)'
         /\ \A n, i : Lists(n, i)' <=> Lists(n, i)
         /\ Settled' /\ Lists(call.name, op.ino)
         /\ call # Flat!NoCall /\ call.name \in Names /\ op.ino \in FileIno
<1>1. Lists(call.name, op.ino) /\ call # Flat!NoCall
  <2>1. InWrite => call.kind = "write"
    BY DEF OpenInv, CallOK, Request
  <2>2. InTruncate => call.kind = "truncate"
    BY DEF OpenInv, CallOK, Request
  <2>3. Flat!NoCall.kind = "none"
    BY DEF Flat!NoCall
  <2>4. Lists(call.name, op.ino)
    BY DEF OpenInv, CallOK
  <2> QED BY <2>1, <2>2, <2>3, <2>4
<1>2. call.name \in Names /\ call.name \in unsettled /\ op.ino \in FileIno
  BY <1>1, Listing DEF OpenInv, CallOK
<1>3. \A n, i : Lists(n, i)' <=> Lists(n, i)
  BY ListsSame DEF RestStays
<1>4. ASSUME NEW m \in Names, m # call.name, NEW g, Shows(m, g)
      PROVE  Shows(m, g)'
  <2>1. ASSUME NEW i \in FileIno, Lists(m, i)
        PROVE  FileAt(i)' = FileAt(i)
    <3>1. i # op.ino
      BY <1>1, <1>4, <2>1, Listing
    <3>2. /\ inodes'[i].size = inodes[i].size
          /\ \A lb \in LogicalBlocks : Sector(i, lb)' = Sector(i, lb)
      BY <3>1 DEF RestStays
    <3> QED BY <3>2, CellsSame, FileSame
  <2> QED BY <1>3, <1>4, <2>1, ShowsKept
<1>5. Settled'
  <2>1. /\ inodes'[0] = inodes[0] /\ dinodes' = dinodes
        /\ Used(inodes', blk') = Used(inodes, blk)
        /\ \A s \in Used(inodes, blk) :
             EntryAt(inodes', blk', s) = EntryAt(inodes, blk, s)
    BY DEF RestStays, SameDir
  <2>2. \A s \in Used(inodes, blk) : EntryAt(inodes, blk, s).name \notin unsettled =>
          inodes'[EntryAt(inodes, blk, s).ino] = inodes[EntryAt(inodes, blk, s).ino]
    <3> SUFFICES ASSUME NEW s \in Used(inodes, blk),
                        EntryAt(inodes, blk, s).name \notin unsettled
                 PROVE  inodes'[EntryAt(inodes, blk, s).ino]
                          = inodes[EntryAt(inodes, blk, s).ino]
      OBVIOUS
    <3>1. Lists(EntryAt(inodes, blk, s).name, EntryAt(inodes, blk, s).ino)
      BY DEF Lists, ListsIn
    <3>2. EntryAt(inodes, blk, s).ino # op.ino /\ EntryAt(inodes, blk, s).ino \in FileIno
      BY <1>1, <1>2, <3>1, Listing
    <3> QED BY <3>2 DEF RestStays
  <2>3. Saved(dinodes, inodes, blk, unsettled)
    BY DEF OpenInv, Settled
  <2>4. Saved(dinodes', inodes', blk', unsettled')
    BY <2>1, <2>2, <2>3 DEF Saved
  <2> QED BY <2>4 DEF Settled
<1> QED BY <1>1, <1>2, <1>3, <1>4, <1>5

-----------------------------------------------------------------------------
(***************************************************************************)
(* How a step ends.                                                        *)
(***************************************************************************)
\* Every block a volume between calls names can be read.
LEMMA RestSound ==
  /\ MapExact /\ pc = "idle" => Sound(bitmap, Map(inodes, blk))
  /\ MapExact' /\ pc' = "idle" => Sound(bitmap', Map(inodes', blk'))
<1>1. /\ pc = "idle" => BlockMap = Map(inodes, blk)
      /\ pc' = "idle" => BlockMap' = Map(inodes', blk')
  BY TreeIs
<1>2. DOMAIN BlockMap = Site /\ DOMAIN BlockMap' = Site
  BY DEF BlockMap, Map
<1>3. ASSUME MapExact PROVE Sound(bitmap, BlockMap)
  BY <1>2, <1>3 DEF MapExact, Named, Img, Sound, Readable
<1>4. ASSUME MapExact' PROVE Sound(bitmap', BlockMap')
  BY <1>2, <1>4 DEF MapExact, Named, Img, Sound, Readable
<1> QED BY <1>1, <1>3, <1>4

\* What callers see when a step ends in idle.
LEMMA Seen ==
  ASSUME MapExact', DirHolds', pc' = "idle", Look, NEW n \in Names
  PROVE  /\ seen' = [m \in Names |-> FileIn(bitmap', inodes', blk', m)]
         /\ \A g : Shows(n, g)' <=> g = FileIn(bitmap', inodes', blk', n)
<1>1. seen' = [m \in Names |-> FileIn(bitmap', inodes', blk', m)]
  BY DEF Look
<1>2. BlockMap' = Map(inodes', blk')
  BY TreeIs
<1>3. DirectoryValid(inodes', blk') /\ Sound(bitmap', Map(inodes', blk'))
  BY RestSound DEF DirHolds
<1>4. \A g : Shows(n, g)' <=> ShowsIn(inodes', BlockMap', blk', n, g)
  BY DEF Shows
<1>5. \A g : ShowsIn(inodes', Map(inodes', blk'), blk', n, g)
               <=> g = FileIn(bitmap', inodes', blk', n)
  BY <1>3, FileRead
<1> QED BY <1>1, <1>2, <1>4, <1>5

\* A step that ends in idle: callers see the files that are shown.
Files(g) == g = [n \in Names |-> g[n]]
LEMMA AtIdle ==
  ASSUME TypeInv', LiveInv', DirHolds', pc' = "idle", Look, call' = Flat!NoCall,
         Settled', NEW g, Files(g), \A n \in Names : Shows(n, g[n])'
  PROVE  seen' = g /\ HistoryInv'
<1>1. /\ seen' = [m \in Names |-> FileIn(bitmap', inodes', blk', m)]
      /\ \A n \in Names : g[n] = FileIn(bitmap', inodes', blk', n)
  <2>1. MapExact'
    BY DEF LiveInv
  <2>2. seen' = [m \in Names |-> FileIn(bitmap', inodes', blk', m)]
    BY DEF Look
  <2>3. ASSUME NEW n \in Names
        PROVE  g[n] = FileIn(bitmap', inodes', blk', n)
    <3>1. ShowsIn(inodes', BlockMap', blk', n, g[n])
      BY DEF Shows
    <3>2. \A h : ShowsIn(inodes', BlockMap', blk', n, h)
                   <=> h = FileIn(bitmap', inodes', blk', n)
      BY <2>1, Seen DEF Shows
    <3> QED BY <3>1, <3>2
  <2> QED BY <2>2, <2>3
<1>2. seen' = g
  BY <1>1 DEF Files
<1>3. seen' \in [Names -> Flat!File]
  <2>1. inodes' \in [Ino -> Inode] /\ blk' \in [DataBlocks -> Content]
    BY TypeParts DEF InodesOK, DataOK
  <2>2. \A n : FileIn(bitmap', inodes', blk', n) \in Flat!File
    BY <2>1, FileTyped
  <2> QED BY <1>1, <2>2
<1>4. OthersSeen'
  BY <1>2 DEF OthersSeen
<1>5. CallOK' /\ Zeroed' /\ Stands' /\ WrittenSoFar' /\ GrowsOn' /\ ShrunkSoFar'
      /\ Saving'
  BY DEF CallOK, Zeroed, Stands, WrittenSoFar, GrowsOn, ShrunkSoFar, Saving,
         InWrite, InTruncate, InTable
<1> QED BY <1>2, <1>3, <1>4, <1>5 DEF HistoryInv, OpenInv

\* A handler that goes on to write, to truncate or to flush.
Fields == op'.call = op.call /\ op'.ino = op.ino /\ op'.off = op.off
          /\ op'.buf = op.buf
LEMMA GoesOn ==
  ASSUME OpenInv, seen \in [Names -> Flat!File], DirHolds, InWrite \/ InTruncate,
         HStep, Look, RestStays, ret' = "busy",
         \/ InWrite /\ InWrite' /\ Fields
         \/ InTruncate /\ InTruncate' /\ Fields /\ op'.size = op.size
         \/ pc' = "flush" /\ op'.call = op.call
  PROVE  /\ call' = call /\ seen' = seen /\ unsettled' = unsettled
         /\ UNCHANGED Flat!vars
         /\ Zeroed' /\ Stands' /\ WrittenSoFar' /\ GrowsOn' /\ ShrunkSoFar'
              /\ Saving' => HistoryInv'
<1>1. pc' \notin {"idle", "closed"} /\ pc # "closed"
  BY DEF InWrite, InTruncate
<1>2. call' = call /\ unsettled' = unsettled /\ seen' = seen
  BY <1>1 DEF HStep, Look
<1>3. UNCHANGED Flat!vars
  BY <1>1, <1>2 DEF Flat!vars
<1>4. /\ \A m \in Names : \A g : m # call.name /\ Shows(m, g) => Shows(m, g)'
      /\ \A n, i : Lists(n, i)' <=> Lists(n, i)
      /\ Settled' /\ Lists(call.name, op.ino)
      /\ call # Flat!NoCall /\ call.name \in Names
  BY <1>2, RestKept
<1>5. OthersSeen'
  <2>1. \A m \in Names : m # call.name => Shows(m, seen[m])
    BY DEF OpenInv, OthersSeen
  <2>2. \A m \in Names : m # call.name =>
          ShowsIn(inodes', BlockMap', blk', m, seen[m])
    BY <1>4, <2>1 DEF Shows
  <2> QED BY <1>2, <1>4, <2>2 DEF OthersSeen, Shows
<1>6. CallOK'
  <2>1. /\ InWrite => /\ op.call = "write"
                      /\ call = Request("write", call.name, op.off, op.buf, 0)
        /\ InTruncate => /\ op.call = "truncate"
                         /\ call = Request("truncate", call.name, 0, <<>>, op.size)
        /\ call.kind \in {"create", "unlink", "write", "truncate"}
        /\ call.name \in unsettled
    BY <1>4 DEF OpenInv, CallOK
  <2>2. call.kind = op.call
    <3>1. InWrite => call.kind = "write"
      BY <2>1 DEF Request
    <3>2. InTruncate => call.kind = "truncate"
      BY <2>1 DEF Request
    <3> QED BY <2>1, <3>1, <3>2
  <2>4. InWrite' \/ InTruncate' => Lists(call.name, op.ino)'
    <3>1. CASE InWrite' \/ InTruncate'
      <4>1. op'.ino = op.ino
        BY <3>1 DEF InWrite, InTruncate, Fields
      <4>2. ListsIn(inodes', blk', call.name, op.ino)
        BY <1>4 DEF Lists
      <4> QED BY <1>2, <4>1, <4>2 DEF Lists
    <3> QED BY <3>1
  <2>5. InWrite' => /\ op'.call = "write"
                    /\ call' = Request("write", call'.name, op'.off, op'.buf, 0)
    BY <1>2, <2>1 DEF InWrite, InTruncate, Fields
  <2>6. InTruncate' => /\ op'.call = "truncate"
                       /\ call' = Request("truncate", call'.name, 0, <<>>, op'.size)
    BY <1>2, <2>1 DEF InWrite, InTruncate, Fields
  <2>7. pc' = "flush" => op'.call # "destroy" /\ op'.call = call.kind
    <3>1. op.call \in {"write", "truncate"}
      BY <2>1
    <3>2. pc' = "flush" => ~InWrite' /\ ~InTruncate'
      BY DEF InWrite, InTruncate
    <3> QED BY <2>2, <3>1, <3>2
  <2> QED BY <1>1, <1>2, <1>4, <2>1, <2>4, <2>5, <2>6, <2>7 DEF CallOK
<1>7. seen' \in [Names -> Flat!File]
  BY <1>2
<1> QED BY <1>1, <1>2, <1>3, <1>4, <1>5, <1>6, <1>7 DEF HistoryInv, OpenInv

\* A call ends: its file is shown anew, the others as before.
LEMMA CallEnds ==
  ASSUME TypeInv', LiveInv', DirHolds', pc' = "idle", Look, call' = Flat!NoCall,
         Settled', seen \in [Names -> Flat!File], NEW n \in Names, NEW h,
         Shows(n, h)', \A m \in Names : m # n => Shows(m, seen[m]),
         \A m \in Names : \A g : m # n /\ Shows(m, g) => Shows(m, g)'
  PROVE  seen' = [seen EXCEPT ![n] = h] /\ HistoryInv'
<1>1. PICK v : v = [seen EXCEPT ![n] = h]
  OBVIOUS
<1>2. Files(v) /\ \A m \in Names : v[m] = IF m = n THEN h ELSE seen[m]
  BY <1>1 DEF Files
<1>3. \A m \in Names : Shows(m, v[m])'
  <2>1. \A m \in Names : m # n => ShowsIn(inodes', BlockMap', blk', m, v[m])
    BY <1>2 DEF Shows
  <2>2. ShowsIn(inodes', BlockMap', blk', n, v[n])
    BY <1>2 DEF Shows
  <2> QED BY <2>1, <2>2 DEF Shows
<1> QED BY <1>1, <1>2, <1>3, AtIdle

-----------------------------------------------------------------------------
(***************************************************************************)
(* The handler of a write.                                                 *)
(***************************************************************************)
\* A step keeps the history invariant and is a step of FlatFiles, or none.
Follows == HistoryInv' /\ (Flat!Next \/ UNCHANGED Flat!vars)

\* The file of the running call.
LEMMA WasFile ==
  ASSUME OpenInv, seen \in [Names -> Flat!File], DirHolds, InWrite \/ InTruncate
  PROVE  /\ call # Flat!NoCall /\ call.name \in Names /\ op.ino \in FileIno
         /\ Lists(call.name, op.ino) /\ Was \in Flat!File
         /\ Was.exists /\ Was.size = node.size
         /\ Was = [exists |-> TRUE, size |-> node.size, cells |-> Was.cells]
         /\ Was.cells \in [Flat!Cells -> DataByte]
<1>1. Lists(call.name, op.ino) /\ call # Flat!NoCall
  <2>1. InWrite => call.kind = "write"
    BY DEF OpenInv, CallOK, Request
  <2>2. InTruncate => call.kind = "truncate"
    BY DEF OpenInv, CallOK, Request
  <2>3. Flat!NoCall.kind = "none"
    BY DEF Flat!NoCall
  <2>4. Lists(call.name, op.ino)
    BY DEF OpenInv, CallOK
  <2> QED BY <2>1, <2>2, <2>3, <2>4
<1>2. call.name \in Names /\ op.ino \in FileIno
  BY <1>1, Listing
<1>3. Was \in Flat!File
  BY <1>2 DEF Was
<1>4. Was.exists /\ Was.size = node.size
  BY DEF OpenInv, Stands
<1>5. /\ Was = [exists |-> TRUE, size |-> node.size, cells |-> Was.cells]
      /\ Was.cells \in [Flat!Cells -> DataByte]
  BY <1>3, <1>4 DEF Flat!File
<1> QED BY <1>1, <1>2, <1>3, <1>4, <1>5

\* Putting other cells, or another size, into a file.
LEMMA FieldsPut ==
  ASSUME NEW z, NEW e
  PROVE  /\ \A g : [[exists |-> TRUE, size |-> z, cells |-> e] EXCEPT !.cells = g]
                     = [exists |-> TRUE, size |-> z, cells |-> g]
         /\ \A s : [[exists |-> TRUE, size |-> z, cells |-> e] EXCEPT !.size = s]
                     = [exists |-> TRUE, size |-> s, cells |-> e]
         /\ \A s, g : [[exists |-> TRUE, size |-> z, cells |-> e]
                         EXCEPT !.size = s, !.cells = g]
                        = [exists |-> TRUE, size |-> s, cells |-> g]
<1>1. PICK t : t = TRUE
  OBVIOUS
<1>2. \A g : [[exists |-> t, size |-> z, cells |-> e] EXCEPT !.cells = g]
                = [exists |-> t, size |-> z, cells |-> g]
  OBVIOUS
<1>3. \A s : [[exists |-> t, size |-> z, cells |-> e] EXCEPT !.size = s]
                = [exists |-> t, size |-> s, cells |-> e]
  OBVIOUS
<1>4. \A s, g : [[exists |-> t, size |-> z, cells |-> e]
                   EXCEPT !.size = s, !.cells = g]
                  = [exists |-> t, size |-> s, cells |-> g]
  <2> SUFFICES ASSUME NEW s, NEW g
               PROVE  [[exists |-> t, size |-> z, cells |-> e]
                         EXCEPT !.size = s, !.cells = g]
                        = [exists |-> t, size |-> s, cells |-> g]
    OBVIOUS
  <2>1. [[exists |-> t, size |-> s, cells |-> e] EXCEPT !.cells = g]
          = [exists |-> t, size |-> s, cells |-> g]
    BY <1>2
  <2> QED BY <1>2, <1>3, <2>1
<1> QED BY <1>1, <1>2, <1>3, <1>4, Zenon

\* The listing shows the file of the call as it is now.
LEMMA FileShown ==
  ASSUME NEW i \in FileIno, NEW n, NEW g, Lists(n, i), SameDir, g = FileAt(i)'
  PROVE  Shows(n, g)'
<1>1. ListsIn(inodes', blk', n, i)
  BY DEF SameDir, Lists, ListsIn
<1>2. g = FileOf(inodes', BlockMap', blk', i)
  BY DEF FileAt
<1> QED BY <1>1, <1>2 DEF Shows, ShowsIn

\* A write that fails: whole chunks are stored, and the size is what it was.
LEMMA WriteFailed ==
  ASSUME OpenInv, seen \in [Names -> Flat!File], DirHolds, TypeInv,
         TypeInv', LiveInv', DirHolds', HStep, Look, InWrite, pc' = "idle",
         ret' # "ok", op.done < Len(op.buf), SameDir, UNCHANGED dinodes,
         FileStays, SameSectors
  PROVE  Follows
<1>1. /\ call # Flat!NoCall /\ call.name \in Names /\ op.ino \in FileIno
      /\ Lists(call.name, op.ino) /\ Was \in Flat!File
      /\ Was = [exists |-> TRUE, size |-> node.size, cells |-> Was.cells]
      /\ Was.cells \in [Flat!Cells -> DataByte]
  BY WasFile
<1>2. call' = Flat!NoCall /\ unsettled' = unsettled /\ pc # "closed" /\ pc # "idle"
  BY DEF HStep, InWrite
<1>3. RestStays
  BY DEF RestStays, FileStays, SameSectors
<1>4. /\ \A m \in Names : \A k : m # call.name /\ Shows(m, k) => Shows(m, k)'
      /\ Settled'
  BY <1>2, <1>3, RestKept
<1>5. PICK i, n, off, buf, k, w, z :
        /\ i \in FileIno /\ n \in Names
        /\ i = op.ino /\ n = call.name /\ off = op.off /\ buf = op.buf
        /\ k = op.done /\ w = Was /\ z = node.size
  BY <1>1
<1> DEFINE g == [c \in Flat!Cells |-> IF c \in off .. off + k - 1
                                      THEN buf[c - off + 1] ELSE w.cells[c]]
           h == [exists |-> TRUE, size |-> z, cells |-> g]
           after == [seen EXCEPT ![n] = h]
<1>6. \A c \in Flat!Cells : Cell(i, c) = g[c]
  BY <1>5 DEF OpenInv, WrittenSoFar
<1>7. FileAt(i)' = h
  <2>1. \A c \in Flat!Cells : Cell(i, c)' = Cell(i, c)
    <3>1. \A lb \in LogicalBlocks : Sector(i, lb)' = Sector(i, lb)
      BY <1>5 DEF SameSectors
    <3> QED BY <3>1, CellsSame
  <2>2. inodes'[i].size = z
    BY <1>5 DEF FileStays
  <2>3. FileAt(i)' = [exists |-> TRUE, size |-> inodes'[i].size,
                      cells |-> [c \in Flat!Cells |-> Cell(i, c)']]
    BY DEF FileAt, FileOf, Cell, Sector
  <2> QED BY <1>6, <2>1, <2>2, <2>3
<1>8. Shows(n, h)'
  BY <1>1, <1>5, <1>7, FileShown
<1>9. seen' = [seen EXCEPT ![n] = h] /\ HistoryInv'
  <2>1. \A m \in Names : m # n => Shows(m, seen[m])
    BY <1>1, <1>5 DEF OpenInv, OthersSeen
  <2> HIDE DEF h
  <2> QED BY <1>2, <1>4, <1>5, <1>8, <2>1, CallEnds
<1>10. k \in Nat /\ k <= Len(buf) /\ Len(buf) \in Nat /\ off \in Nat
  <2>1. op \in OpType /\ op.done \in Nat /\ Len(op.buf) \in Nat
    BY ChunkFits, TypeParts DEF ControlOK
  <2>2. op.off \in Nat
    BY <2>1 DEF OpType
  <2> QED BY <1>5, <2>1, <2>2
<1>11. call = Request("write", n, off, buf, 0)
  BY <1>5 DEF OpenInv, CallOK
<1>12. CASE k = 0
  <2>1. g = w.cells
    BY <1>1, <1>5, <1>10, <1>12
  <2>2. h = seen[n]
    BY <1>1, <1>5, <2>1 DEF Was
  <2>3. UNCHANGED seen
    BY <1>9, <2>2
  <2> QED BY <1>1, <1>2, <1>9, <2>3 DEF Follows, Flat!Next, Flat!Fail
<1>13. CASE k # 0
  <2>1. h = Flat!Stored(seen[n], off, buf, k)
    <3>1. w = seen[n] /\ w = [exists |-> TRUE, size |-> z, cells |-> w.cells]
      BY <1>1, <1>5 DEF Was
    <3>2. Flat!Stored(w, off, buf, k) = [w EXCEPT !.cells = g]
      BY DEF Flat!Stored, Flat!Cells
    <3> HIDE DEF g
    <3>3. [w EXCEPT !.cells = g] = h
      <4>1. PICK e : e = w.cells
        OBVIOUS
      <4>2. w = [exists |-> TRUE, size |-> z, cells |-> e]
        BY <3>1, <4>1
      <4> HIDE DEF h
      <4>3. [w EXCEPT !.cells = g] = [exists |-> TRUE, size |-> z, cells |-> g]
        BY <4>2, FieldsPut, Zenon
      <4> QED BY <4>3 DEF h
    <3> QED BY <3>1, <3>2, <3>3
  <2>2. k \in 1 .. Len(buf)
    BY <1>10, <1>13
  <2>3. /\ call.kind = "write" /\ call.off = off /\ call.buf = buf /\ call.name = n
    BY <1>11 DEF Request
  <2>4. Flat!Apply(Flat!Stored(seen[call.name], call.off, call.buf, k))
    BY <1>9, <2>1, <2>3 DEF Flat!Apply
  <2>5. \E l \in 1 .. Len(call.buf) :
          Flat!Apply(Flat!Stored(seen[call.name], call.off, call.buf, l))
    BY <2>2, <2>3, <2>4
  <2>6. (pc # "closed")' = (pc # "closed")
    BY <1>2, <1>9
  <2>7. Flat!Fail
    BY <1>1, <1>2, <2>3, <2>5, <2>6 DEF Flat!Fail
  <2> QED BY <1>9, <2>7 DEF Follows, Flat!Next
<1> QED BY <1>12, <1>13

\* The bytes of one chunk are those at its places of the block.
LEMMA ChunkPlaces ==
  ASSUME TypeInv, NEW c \in Flat!Cells
  PROVE  /\ c \div SectorSize = BlkIdx =>
              /\ c % SectorSize \in BlkOff .. BlkOff + Chunk - 1
                   <=> c \in Pos .. Pos + Chunk - 1
              /\ op.done + ((c % SectorSize) - BlkOff) + 1 = c - op.off + 1
         /\ c \in Pos .. Pos + Chunk - 1 => c \div SectorSize = BlkIdx
<1>1. /\ BlkOff \in ByteIdx /\ Chunk \in Int /\ op.done \in Nat
      /\ op.off \in Nat /\ Len(op.buf) \in Nat
  BY ChunkFits, TypeParts DEF ControlOK, OpType
<1>2. SectorSize \in Nat \ {0}
  BY SizesAssumption
<1>3. Pos \in Nat /\ BlkIdx \in Int /\ Pos = SectorSize * BlkIdx + BlkOff
      /\ BlkIdx \in Nat
  <2>1. Pos \in Nat
    BY <1>1 DEF Pos
  <2>2. Pos = SectorSize * BlkIdx + BlkOff
    BY <1>2, <2>1, ModFacts DEF BlkIdx, BlkOff
  <2>3. BlkIdx \in Nat
    BY <1>2, <2>1, DivFacts DEF BlkIdx
  <2> QED BY <2>1, <2>2, <2>3
<1>4. BlkOff + Chunk <= SectorSize /\ BlkOff \in 0 .. SectorSize - 1
  BY <1>1, <1>2 DEF Chunk, ByteIdx
<1>5. /\ c \in Nat /\ c % SectorSize \in ByteIdx
      /\ c = SectorSize * (c \div SectorSize) + (c % SectorSize)
  BY CellPlace
<1>6. PICK x : x = SectorSize * BlkIdx
  OBVIOUS
<1>7. x \in Int
  BY <1>2, <1>3, <1>6
<1>8. ASSUME c \div SectorSize = BlkIdx
      PROVE  /\ c % SectorSize \in BlkOff .. BlkOff + Chunk - 1
                  <=> c \in Pos .. Pos + Chunk - 1
             /\ op.done + ((c % SectorSize) - BlkOff) + 1 = c - op.off + 1
  <2>1. c = x + (c % SectorSize) /\ Pos = x + BlkOff
    BY <1>3, <1>5, <1>6, <1>8
  <2>2. c % SectorSize \in Int /\ BlkOff \in Int
    BY <1>4, <1>5 DEF ByteIdx
  <2>3. Pos = op.off + op.done
    BY DEF Pos
  <2>4. PICK m \in Int : m = c % SectorSize
    BY <2>2
  <2>5. c = x + m /\ Pos = x + BlkOff /\ Pos = op.off + op.done
    BY <2>1, <2>3, <2>4
  <2>6. PICK b \in Int, q \in Int, d \in Int, f \in Int :
          b = BlkOff /\ q = Chunk /\ d = op.done /\ f = op.off
    BY <1>1, <2>2
  <2>7. /\ m \in b .. b + q - 1 <=> c \in (x + b) .. (x + b) + q - 1
        /\ x + b = f + d => d + (m - b) + 1 = c - f + 1
    BY <1>7, <2>5
  <2> QED BY <2>4, <2>5, <2>6, <2>7
<1>9. ASSUME c \in Pos .. Pos + Chunk - 1
      PROVE  c \div SectorSize = BlkIdx
  <2>1. PICK p \in 0 .. SectorSize - 1 : c = x + p
    <3>1. c - x \in 0 .. SectorSize - 1
      BY <1>1, <1>2, <1>3, <1>4, <1>5, <1>6, <1>7, <1>9
    <3> QED BY <1>5, <1>7, <3>1
  <2> QED BY <1>2, <1>3, <1>5, <1>6, <2>1, ModUnique
<1> QED BY <1>8, <1>9

\* PutChunk stores the bytes of the chunk and no others.
LEMMA PutCells ==
  ASSUME TypeInv, InTables, LiveInv, PutChunk, pc' # "idle", NEW i \in FileIno,
         NEW c \in Flat!Cells
  PROVE  Cell(i, c)' = IF i = op.ino /\ c \in Pos .. Pos + Chunk - 1
                       THEN op.buf[c - op.off + 1] ELSE Cell(i, c)
<1>1. BlockMap' = BlockMap /\ pc # "children"
  BY MapStays
<1>2. /\ pc = "put" /\ write_block(op.data, DataBlock(Patched))
      /\ op.done < Len(op.buf) /\ op.data \in DataBlocks
      /\ op.data = DataPtr(blk, node, BlkIdx) /\ IsFile(op.ino)
  BY DEF PutChunk, Return, LiveInv, HandlerOK
<1>3. op.ino \in FileIno /\ BlkIdx \in LogicalBlocks
      /\ op.data = BlockMap[DataSite(op.ino, BlkIdx)]
  BY <1>1, <1>2, NodesFile, BlkPlace, BlkNamed DEF LiveInv, BlkSite
<1>4. PICK k, d : k = BlkIdx /\ d = Patched
  OBVIOUS
<1>5. c \div SectorSize \in LogicalBlocks /\ c % SectorSize \in ByteIdx
  BY CellPlace
<1>6. Sector(i, c \div SectorSize)'
        = IF i = op.ino /\ c \div SectorSize = k THEN d
          ELSE Sector(i, c \div SectorSize)
  <2>1. \A j \in FileIno, l \in LogicalBlocks :
          Sector(j, l)' = IF j = op.ino /\ l = k THEN d ELSE Sector(j, l)
    BY <1>1, <1>2, <1>3, <1>4, SectorPut
  <2> QED BY <1>5, <2>1
<1>7. CASE i = op.ino /\ c \div SectorSize = k
  <2>1. Sector(i, k) = AsBytes(blk, op.data)
    BY <1>2, <1>3, <1>4, <1>7, DataArea DEF Sector, SectorOf
  <2>2. d[c % SectorSize] = IF c % SectorSize \in BlkOff .. BlkOff + Chunk - 1
                            THEN op.buf[op.done + ((c % SectorSize) - BlkOff) + 1]
                            ELSE Cell(i, c)
    BY <1>4, <1>5, <1>7, <2>1 DEF Patched, Cell
  <2>3. Cell(i, c)' = d[c % SectorSize]
    BY <1>6, <1>7 DEF Cell
  <2> QED BY <1>4, <1>7, <2>2, <2>3, ChunkPlaces
<1>8. CASE ~(i = op.ino /\ c \div SectorSize = k)
  <2>1. Cell(i, c)' = Cell(i, c)
    BY <1>6, <1>8 DEF Cell
  <2>2. ~(i = op.ino /\ c \in Pos .. Pos + Chunk - 1)
    BY <1>4, <1>8, ChunkPlaces
  <2> QED BY <2>1, <2>2
<1> QED BY <1>7, <1>8

\* The parts of the history invariant a write leaves to others.
LEMMA OthersIdle ==
  /\ InWrite' => GrowsOn' /\ ShrunkSoFar' /\ Saving'
  /\ InTruncate' => WrittenSoFar' /\ Saving' /\ Zeroed'
  /\ pc' = "flush" => Zeroed' /\ Stands' /\ WrittenSoFar' /\ GrowsOn' /\ ShrunkSoFar'
BY DEF InWrite, InTruncate, GrowsOn, ShrunkSoFar, Saving, WrittenSoFar, Zeroed,
       InTable, Stands

\* Looking for a block, allocating and entering it, up to the chunk.
LEMMA HistorySearch ==
  ASSUME TypeInv, InTables, LiveInv, DirHolds, HistoryInv, HStep, Look,
         TypeInv', pc' # "closed" => LiveInv',
         \/ WriteMapped \/ AllocateData \/ FindRoot \/ FindTable
         \/ WriteLeaf \/ LinkChild
  PROVE  Follows
<1>1. OpenInv /\ seen \in [Names -> Flat!File] /\ Zeroed /\ InWrite
  <2>1. InWrite
    BY DEF InWrite, WriteMapped, AllocateData, FindRoot, FindTable,
           WriteLeaf, LinkChild
  <2> QED BY <2>1 DEF HistoryInv, OpenInv, InWrite
<1>2. /\ SameSectors /\ Zeroed' /\ FileStays
      /\ \/ InWrite' /\ SameJob /\ UNCHANGED ret
         \/ pc' = "idle" /\ ret' # "ok" /\ op.done < Len(op.buf)
  BY <1>1, WriteSearches
<1>3. DirHolds' /\ SameDir
  BY DirWrite
<1>4. UNCHANGED dinodes
  BY DEF WriteMapped, AllocateData, FindRoot, FindTable, WriteLeaf, LinkChild,
         metaDisk
<1>5. CASE pc' = "idle" /\ ret' # "ok" /\ op.done < Len(op.buf)
  BY <1>1, <1>2, <1>3, <1>4, <1>5, WriteFailed
<1>6. CASE InWrite' /\ SameJob /\ UNCHANGED ret
  <2>1. RestStays
    BY <1>2, <1>3, <1>4 DEF RestStays, FileStays, SameSectors
  <2>2. ret' = "busy" /\ Fields
    <3>1. ret = "busy"
      BY <1>1 DEF OpenInv, CallOK, InWrite
    <3> QED BY <1>6, <3>1 DEF SameJob, Fields
  <2>3. /\ call' = call /\ seen' = seen /\ UNCHANGED Flat!vars
        /\ Zeroed' /\ Stands' /\ WrittenSoFar' /\ GrowsOn' /\ ShrunkSoFar'
             /\ Saving' => HistoryInv'
    BY <1>1, <1>6, <2>1, <2>2, GoesOn
  <2>4. Was' = Was /\ op'.ino = op.ino /\ op.ino \in FileIno
        /\ op'.off = op.off /\ op'.buf = op.buf /\ op'.done = op.done
    BY <1>1, <1>6, <2>3, WasFile DEF Was, SameJob
  <2>5. Stands'
    <3>1. node'.size = node.size
      BY <1>2, <2>4 DEF FileStays, node
    <3> QED BY <1>1, <2>4, <3>1, WasFile DEF Stands
  <2>6. WrittenSoFar'
    <3>1. PICK i \in FileIno : i = op.ino
      BY <2>4
    <3>2. \A c \in Flat!Cells : Cell(i, c)' = Cell(i, c)
      <4>1. \A lb \in LogicalBlocks : Sector(i, lb)' = Sector(i, lb)
        BY <1>2 DEF SameSectors
      <4> QED BY <4>1, CellsSame
    <3>3. \A c \in Flat!Cells : Cell(i, c)' =
            IF c \in op.off .. op.off + op.done - 1
            THEN op.buf[c - op.off + 1] ELSE Was.cells[c]
      BY <1>1, <3>1, <3>2 DEF OpenInv, WrittenSoFar
    <3>4. i = op'.ino
      BY <2>4, <3>1
    <3> QED BY <2>4, <3>3, <3>4 DEF WrittenSoFar, Cell, Sector
  <2> QED BY <1>2, <1>6, <2>3, <2>5, <2>6, OthersIdle DEF Follows
<1> QED BY <1>2, <1>5, <1>6

\* Writing a chunk, or failing to.
LEMMA HistoryPut ==
  ASSUME TypeInv, InTables, LiveInv, DirHolds, HistoryInv, HStep, Look,
         TypeInv', pc' # "closed" => LiveInv', PutChunk
  PROVE  Follows
<1>1. /\ OpenInv /\ seen \in [Names -> Flat!File] /\ InWrite /\ pc = "put"
      /\ op.done < Len(op.buf)
  BY DEF HistoryInv, OpenInv, InWrite, PutChunk, LiveInv, HandlerOK
<1>2. DirHolds' /\ SameDir
  BY DirWrite
<1>3. UNCHANGED dinodes /\ UNCHANGED inodes /\ BlockMap' = BlockMap
  BY MapStays DEF PutChunk, metaDisk
<1>4. CASE WriteFails(op.call) /\ Return("EPERM")
  <2>1. UNCHANGED blk /\ pc' = "idle" /\ ret' # "ok"
    BY <1>4 DEF WriteFails, Return
  <2>2. SameSectors
    BY <1>3, <2>1, SectorKept DEF SameSectors
  <2>3. FileStays
    BY <1>3 DEF FileStays, node
  <2> QED BY <1>1, <1>2, <1>3, <2>1, <2>2, <2>3, WriteFailed
<1>5. CASE /\ write_block(op.data, DataBlock(Patched))
           /\ op' = NextChunk /\ Goto("map")
  <2>1. pc' = "map" /\ ret' = ret /\ InWrite'
    BY <1>5 DEF Goto, InWrite
  <2>2. /\ op'.call = op.call /\ op'.ino = op.ino /\ op'.off = op.off
        /\ op'.buf = op.buf /\ op'.done = op.done + Chunk
    BY <1>5 DEF NextChunk, NoOp
  <2>3. \A i \in FileIno, c \in Flat!Cells :
          Cell(i, c)' = IF i = op.ino /\ c \in Pos .. Pos + Chunk - 1
                        THEN op.buf[c - op.off + 1] ELSE Cell(i, c)
    BY <2>1, PutCells
  <2>4. op.data \in DataBlocks /\ BlkIdx \in LogicalBlocks /\ op.ino \in FileIno
        /\ op.data = BlockMap[DataSite(op.ino, BlkIdx)]
    <3>1. op.data \in DataBlocks /\ IsFile(op.ino)
          /\ op.data = DataPtr(blk, node, BlkIdx)
      BY <1>1 DEF LiveInv, HandlerOK
    <3> QED BY <1>1, <3>1, NodesFile, BlkPlace, BlkNamed DEF LiveInv, BlkSite
  <2>5. RestStays
    <3>1. PICK k, d : k = BlkIdx /\ d = Patched
      OBVIOUS
    <3>2. \A j \in FileIno, l \in LogicalBlocks :
            Sector(j, l)' = IF j = op.ino /\ l = k THEN d ELSE Sector(j, l)
      BY <1>3, <1>5, <2>4, <3>1, SectorPut
    <3> QED BY <1>2, <1>3, <3>2 DEF RestStays
  <2>6. ret' = "busy" /\ Fields
    <3>1. ret = "busy"
      BY <1>1 DEF OpenInv, CallOK
    <3> QED BY <2>1, <2>2, <3>1 DEF Fields
  <2>7. /\ call' = call /\ seen' = seen /\ UNCHANGED Flat!vars
        /\ Zeroed' /\ Stands' /\ WrittenSoFar' /\ GrowsOn' /\ ShrunkSoFar'
             /\ Saving' => HistoryInv'
    BY <1>1, <2>1, <2>5, <2>6, GoesOn
  <2>8. Was' = Was
    BY <2>7 DEF Was
  <2>9. Stands'
    BY <1>1, <1>3, <2>2, <2>8, WasFile DEF Stands, node
  <2>10. WrittenSoFar'
    <3>1. PICK i, off, buf, k, w : i \in FileIno /\
            i = op.ino /\ off = op.off /\ buf = op.buf /\ k = op.done + Chunk /\ w = Was
      BY <2>4
    <3>2. \A c \in Flat!Cells : Cell(i, c)' =
            IF c \in off .. off + k - 1 THEN buf[c - off + 1] ELSE w.cells[c]
      <4> SUFFICES ASSUME NEW c \in Flat!Cells
                   PROVE  Cell(i, c)' = IF c \in off .. off + k - 1
                                        THEN buf[c - off + 1] ELSE w.cells[c]
        OBVIOUS
      <4>1. Cell(i, c) = IF c \in op.off .. op.off + op.done - 1
                         THEN buf[c - off + 1] ELSE w.cells[c]
        BY <1>1, <3>1 DEF OpenInv, WrittenSoFar
      <4>2. Cell(i, c)' = IF c \in Pos .. Pos + Chunk - 1
                          THEN buf[c - off + 1] ELSE Cell(i, c)
        BY <2>3, <3>1
      <4>3. c \in off .. off + k - 1 <=> \/ c \in op.off .. op.off + op.done - 1
                                         \/ c \in Pos .. Pos + Chunk - 1
        <5>1. op.off \in Nat /\ op.done \in Nat /\ Chunk \in Int /\ Chunk >= 1
          <6>1. op.done \in Nat /\ BlkOff \in ByteIdx /\ Len(op.buf) \in Nat
                /\ Chunk \in Int
            BY ChunkFits
          <6>2. op.off \in Nat
            BY TypeParts DEF ControlOK, OpType
          <6>3. Chunk >= 1
            BY <1>1, <6>1, SizesAssumption DEF Chunk, ByteIdx
          <6> QED BY <6>1, <6>2, <6>3
        <5>2. c \in Int
          BY CellPlace
        <5>3. Pos = op.off + op.done
          BY DEF Pos
        <5>4. PICK f \in Nat, d \in Nat, q \in Int :
                f = op.off /\ d = op.done /\ q = Chunk /\ q >= 1
          BY <5>1
        <5>5. c \in f .. f + (d + q) - 1 <=> \/ c \in f .. f + d - 1
                                             \/ c \in (f + d) .. (f + d) + q - 1
          BY <5>2, <5>4
        <5> QED BY <3>1, <5>3, <5>4, <5>5
      <4> QED BY <4>1, <4>2, <4>3
    <3>3. i = op'.ino /\ off = op'.off /\ buf = op'.buf /\ k = op'.done /\ w = Was'
      BY <2>2, <2>8, <3>1
    <3> QED BY <3>2, <3>3 DEF WrittenSoFar, Cell, Sector
  <2>11. Zeroed'
    BY <2>1 DEF Zeroed, InTable
  <2> QED BY <2>1, <2>7, <2>9, <2>10, <2>11, OthersIdle DEF Follows
<1> QED BY <1>4, <1>5 DEF PutChunk

\* A handler that has done its work: what it saves is the effect of the call.
LEMMA HistorySave ==
  ASSUME TypeInv, LiveInv, DirHolds, HistoryInv, HStep, Look, InWrite \/ InTruncate,
         pc' = "flush", ret' = "busy", op'.call = op.call, SameDir,
         UNCHANGED <<dinodes, blk>>, BlockMap' = BlockMap,
         NEW z, Become([node EXCEPT !.size = z]),
         Flat!Effect(call, Was) = [exists |-> TRUE, size |-> z,
                                   cells |-> [c \in Flat!Cells |-> Cell(op.ino, c)]]
  PROVE  Follows
<1>1. OpenInv /\ seen \in [Names -> Flat!File]
  BY DEF HistoryInv, OpenInv, InWrite, InTruncate
<1>2. SameSectors
  BY SectorKept DEF SameSectors
<1>3. /\ call # Flat!NoCall /\ call.name \in Names /\ op.ino \in FileIno
      /\ Lists(call.name, op.ino)
  BY <1>1, WasFile
<1>4. inodes'[op.ino].size = z /\ \A j \in FileIno : j # op.ino => inodes'[j] = inodes[j]
  <2>1. node \in Inode /\ inodes \in [Ino -> Inode] /\ op.ino \in Ino
    BY TypeBecome, TypeParts DEF InodesOK
  <2>2. inodes'[op.ino] = [node EXCEPT !.size = z]
    BY <2>1 DEF Become
  <2>3. [node EXCEPT !.size = z].size = z
    BY <2>1 DEF Inode
  <2>4. \A j \in FileIno : j # op.ino => inodes'[j] = inodes[j]
    BY <2>1, Ranges DEF Become
  <2> QED BY <2>2, <2>3, <2>4
<1>5. RestStays
  BY <1>2, <1>4 DEF RestStays, SameSectors
<1>6. /\ call' = call /\ seen' = seen /\ UNCHANGED Flat!vars
      /\ Zeroed' /\ Stands' /\ WrittenSoFar' /\ GrowsOn' /\ ShrunkSoFar'
           /\ Saving' => HistoryInv'
  BY <1>1, <1>5, GoesOn
<1>7. Saving'
  <2>1. PICK i, n, e, g :
          /\ i \in FileIno
          /\ i = op.ino /\ n = call.name /\ e = Flat!Effect(call, Was)
          /\ g = [c \in Flat!Cells |-> Cell(op.ino, c)]
    BY <1>3
  <2>2. \A c \in Flat!Cells : Cell(i, c)' = g[c]
    <3>1. \A c \in Flat!Cells : Cell(i, c)' = Cell(i, c)
      <4>1. \A lb \in LogicalBlocks : Sector(i, lb)' = Sector(i, lb)
        BY <1>2, <2>1 DEF SameSectors
      <4> QED BY <4>1, CellsSame
    <3> QED BY <2>1, <3>1
  <2>3. FileAt(i)' = e
    <3>1. FileAt(i)' = [exists |-> TRUE, size |-> inodes'[i].size,
                        cells |-> [c \in Flat!Cells |-> Cell(i, c)']]
      BY DEF FileAt, FileOf, Cell, Sector
    <3>2. inodes'[i].size = z
      BY <1>4, <2>1
    <3>3. [c \in Flat!Cells |-> Cell(i, c)'] = g
      BY <2>1, <2>2
    <3>4. e = [exists |-> TRUE, size |-> z, cells |-> g]
      BY <2>1
    <3> QED BY <3>1, <3>2, <3>3, <3>4
  <2>4. Shows(n, e)'
    BY <1>3, <2>1, <2>3, FileShown
  <2>5. Flat!Effect(call', Was') = e /\ call'.name = n
    BY <1>6, <2>1 DEF Was
  <2> QED BY <2>4, <2>5 DEF Saving, Shows
<1> QED BY <1>6, <1>7, OthersIdle DEF Follows

\* A file by its size and cells; cells with a buffer stored, and cut off.
Whole(z, e)    == [exists |-> TRUE, size |-> z, cells |-> e]
Put(o, buf, e) == [c \in Flat!Cells |-> IF c \in o .. o + Len(buf) - 1
                                        THEN buf[c - o + 1] ELSE e[c]]
CutOff(s, z, e) == [c \in Flat!Cells |-> IF s < z /\ c >= s THEN 0 ELSE e[c]]

\* The fields of a file that exists.
LEMMA WholeFields ==
  ASSUME NEW z, NEW e
  PROVE  /\ Whole(z, e).exists /\ Whole(z, e).size = z
         /\ Whole(z, e).cells = e
<1>1. Whole(z, e).exists
  BY Zenon DEF Whole
<1>2. Whole(z, e).size = z /\ Whole(z, e).cells = e
  BY DEF Whole
<1> QED BY <1>1, <1>2

\* The effect of a write and of a truncate on a file.
LEMMA Effects ==
  ASSUME NEW z, NEW e
  PROVE  /\ \A n, o, buf : Flat!Effect(Request("write", n, o, buf, 0), Whole(z, e)) =
              Whole(IF o + Len(buf) > z THEN o + Len(buf) ELSE z, Put(o, buf, e))
         /\ \A n, s : Flat!Effect(Request("truncate", n, 0, <<>>, s), Whole(z, e)) =
              Whole(s, CutOff(s, z, e))
<1>1. /\ \A y, f, g : [Whole(y, f) EXCEPT !.cells = g] = Whole(y, g)
      /\ \A y, f, g : [Whole(y, f) EXCEPT !.size = g] = Whole(g, f)
  <2>1. PICK t : t = TRUE
    OBVIOUS
  <2> DEFINE W(y, f) == [exists |-> t, size |-> y, cells |-> f]
  <2>2. \A y, f : Whole(y, f) = W(y, f)
    BY <2>1, Zenon DEF Whole
  <2>3. \A y, f, g : [W(y, f) EXCEPT !.cells = g] = W(y, g)
    OBVIOUS
  <2>4. \A y, f, g : [W(y, f) EXCEPT !.size = g] = W(g, f)
    OBVIOUS
  <2> HIDE DEF W
  <2>5. \A y, f, g : [Whole(y, f) EXCEPT !.cells = g] = Whole(y, g)
    BY <2>2, <2>3, Zenon
  <2>6. \A y, f, g : [Whole(y, f) EXCEPT !.size = g] = Whole(g, f)
    BY <2>2, <2>4, Zenon
  <2> QED BY <2>5, <2>6
<1> DEFINE w == Whole(z, e)
<1>2. w.cells = e /\ w.size = z /\ \A g : Whole(z, g).size = z
  BY DEF Whole
<1>3. ASSUME NEW n, NEW o, NEW buf
      PROVE  Flat!Effect(Request("write", n, o, buf, 0), Whole(z, e)) =
               Whole(IF o + Len(buf) > z THEN o + Len(buf) ELSE z, Put(o, buf, e))
  <2> DEFINE rq == Request("write", n, o, buf, 0)
             st == Flat!Stored(w, o, buf, Len(buf))
  <2>1. rq.kind = "write" /\ rq.off = o /\ rq.buf = buf
    BY DEF Request
  <2>2. Flat!Effect(rq, w) =
          [Flat!Stored(w, rq.off, rq.buf, Len(rq.buf)) EXCEPT
             !.size = IF rq.off + Len(rq.buf) > @ THEN rq.off + Len(rq.buf) ELSE @]
    BY <2>1 DEF Flat!Effect
  <2>3. st = [Whole(z, e) EXCEPT !.cells = Put(o, buf, e)]
    BY <1>2 DEF Flat!Stored, Put, Flat!Cells
  <2>4. st = Whole(z, Put(o, buf, e)) /\ st.size = z
    <3> HIDE DEF st
    <3>1. st = Whole(z, Put(o, buf, e))
      BY <1>1, <2>3, Zenon
    <3> QED BY <1>2, <3>1
  <2> HIDE DEF rq
  <2>5. Flat!Effect(rq, w) =
          [st EXCEPT !.size = IF o + Len(buf) > st.size THEN o + Len(buf) ELSE st.size]
    BY <2>1, <2>2
  <2> HIDE DEF st
  <2>6. [st EXCEPT !.size = IF o + Len(buf) > st.size THEN o + Len(buf) ELSE st.size]
          = Whole(IF o + Len(buf) > z THEN o + Len(buf) ELSE z, Put(o, buf, e))
    BY <1>1, <2>4
  <2> QED BY <2>5, <2>6 DEF rq
<1>4. ASSUME NEW n, NEW s
      PROVE  Flat!Effect(Request("truncate", n, 0, <<>>, s), Whole(z, e)) =
               Whole(s, CutOff(s, z, e))
  <2> DEFINE rq == Request("truncate", n, 0, <<>>, s)
  <2>1. rq.kind = "truncate" /\ rq.size = s
    BY DEF Request
  <2>2. Flat!Effect(rq, w) =
          [w EXCEPT !.size = rq.size,
                    !.cells = [k \in Flat!Cells |->
                       IF rq.size < w.size /\ k >= rq.size THEN 0 ELSE w.cells[k]]]
    BY <2>1 DEF Flat!Effect, Flat!Cells
  <2> HIDE DEF rq
  <2>3. Flat!Effect(rq, w) = [w EXCEPT !.size = s, !.cells = CutOff(s, z, e)]
    BY <1>2, <2>1, <2>2 DEF CutOff
  <2>4. [Whole(z, e) EXCEPT !.size = s, !.cells = CutOff(s, z, e)]
          = Whole(s, CutOff(s, z, e))
    <3>1. PICK g : g = CutOff(s, z, e)
      OBVIOUS
    <3>2. [Whole(z, e) EXCEPT !.size = s] = Whole(s, e)
      BY <1>1
    <3>3. [Whole(s, e) EXCEPT !.cells = g] = Whole(s, g)
      BY <1>1
    <3>4. \A x : x = [Whole(z, e) EXCEPT !.size = s] =>
            [Whole(z, e) EXCEPT !.size = s, !.cells = g] = [x EXCEPT !.cells = g]
      OBVIOUS
    <3>5. [Whole(z, e) EXCEPT !.size = s, !.cells = g] = [Whole(s, e) EXCEPT !.cells = g]
      BY <3>2, <3>4
    <3> QED BY <3>1, <3>3, <3>5
  <2> QED BY <2>3, <2>4 DEF rq
<1> QED BY <1>3, <1>4, Zenon

\* A write that is done.
LEMMA HistoryDone ==
  ASSUME TypeInv, InTables, LiveInv, DirHolds, HistoryInv, HStep, Look, WriteDone
  PROVE  Follows
<1>1. /\ InWrite /\ op.done = Len(op.buf)
      /\ OpenInv /\ seen \in [Names -> Flat!File]
  BY DEF WriteDone, HistoryInv, OpenInv, InWrite
<1>2. PICK z : z = IF op.off + Len(op.buf) > node.size THEN op.off + Len(op.buf)
                   ELSE node.size
  OBVIOUS
<1>3. Become([node EXCEPT !.size = z])
  BY <1>2 DEF WriteDone
<1>4. /\ pc' = "flush" /\ ret' = "busy" /\ UNCHANGED <<dinodes, blk>>
      /\ op'.call = "write" /\ op.call = "write"
  <2>1. op.call = "write"
    BY <1>1 DEF OpenInv, CallOK
  <2>2. op'.call = "write"
    BY DEF WriteDone, EndWrite, StartFlush, NoOp
  <2> QED BY <2>1, <2>2 DEF WriteDone, EndWrite, StartFlush, NoWrite, metaDisk
<1>5. SameDir /\ BlockMap' = BlockMap
  BY DirWrite, LiveDone
<1>6. Flat!Effect(call, Was) = [exists |-> TRUE, size |-> z,
                                cells |-> [c \in Flat!Cells |-> Cell(op.ino, c)]]
  <2>1. PICK w, n, o, buf, i, y, e :
          /\ w = Was /\ n = call.name /\ o = op.off /\ buf = op.buf /\ i = op.ino
          /\ y = node.size /\ e = w.cells
    OBVIOUS
  <2>2. w = Whole(y, e)
    BY <1>1, <2>1, WasFile DEF Whole
  <2>3. call = Request("write", n, o, buf, 0)
    BY <1>1, <2>1 DEF OpenInv, CallOK
  <2>4. [c \in Flat!Cells |-> Cell(i, c)] = Put(o, buf, e)
    BY <1>1, <2>1 DEF OpenInv, WrittenSoFar, Put
  <2>5. Flat!Effect(call, w) = Whole(z, Put(o, buf, e))
    BY <1>2, <2>1, <2>2, <2>3, Effects
  <2> QED BY <2>1, <2>4, <2>5 DEF Whole
<1> QED BY <1>1, <1>3, <1>4, <1>5, <1>6, HistorySave

-----------------------------------------------------------------------------
(***************************************************************************)
(* The handler of a truncate.                                              *)
(***************************************************************************)
\* A step of a truncate that goes on keeps its locals and the file's size.
LEMMA ShrinkFields ==
  ASSUME TypeInv, LiveInv, "truncate" \notin FaultyCalls, pc' # "idle",
         ShrinkDirect \/ ReadRoots \/ ShrinkChild \/ ShrinkRoot
  PROVE  /\ UNCHANGED <<ret, dinodes>> /\ Fields /\ op'.size = op.size
         /\ inodes'[op.ino].size = inodes[op.ino].size
         /\ \A j \in FileIno : j # op.ino => inodes'[j] = inodes[j]
<1>1. node \in Inode /\ inodes \in [Ino -> Inode] /\ op.ino \in Ino /\ op \in OpType
  BY TypeBecome, TypeParts DEF InodesOK, ControlOK
<1> DEFINE Same == /\ inodes'[op.ino].size = inodes[op.ino].size
                   /\ \A j \in FileIno : j # op.ino => inodes'[j] = inodes[j]
           Job == Fields /\ op'.size = op.size
<1>2. ASSUME NEW nd, Become(nd), nd.size = node.size
      PROVE  Same
  BY <1>1, <1>2, Ranges DEF Become, node
<1>3. UNCHANGED inodes => Same
  OBVIOUS
<1>4. /\ UNCHANGED op => Job
      /\ \A r, c : op' = [op EXCEPT !.roots = r, !.cur = c] => Job
      /\ \A o, r, c : op' = [op EXCEPT !.cur = c, !.roots[o] = r] => Job
  BY <1>1 DEF OpType, Fields
<1>5. /\ \A r : ~Return(r)
      /\ \A p : Goto(p) => UNCHANGED ret
  BY DEF Return, Goto
<1> HIDE DEF Same, Job
<1>6. CASE ShrinkDirect
  <2>1. \E nd : Become(nd) /\ nd.size = node.size
    BY <1>6, LiveShrinkDirect DEF DirectShrunk
  <2>2. UNCHANGED <<ret, op, dinodes>>
    BY <1>5, <1>6 DEF ShrinkDirect, metaDisk
  <2> QED BY <1>2, <1>4, <2>1, <2>2 DEF Same, Job
<1>7. CASE ReadRoots
  BY <1>3, <1>4, <1>5, <1>7 DEF ReadRoots, metaDisk, Same, Job
<1>8. CASE ShrinkChild
  <2>1. \A k : [node EXCEPT !.block_count = k].size = node.size
    BY <1>1 DEF Inode
  <2>2. PICK o \in PtrIdx :
          /\ \E k : Become([node EXCEPT !.block_count = k])
          /\ \E r : op' = [op EXCEPT !.cur = o + 1, !.roots[o] = r]
          /\ Goto("children")
    BY <1>5, <1>8 DEF ShrinkChild
  <2>3. UNCHANGED dinodes
    BY <1>8 DEF ShrinkChild, metaDisk
  <2> QED BY <1>2, <1>4, <1>5, <2>1, <2>2, <2>3 DEF Same, Job
<1>9. CASE ShrinkRoot
  <2>1. [node EXCEPT !.double = Invalid].size = node.size
    BY <1>1 DEF Inode
  <2>2. Same
    BY <1>2, <1>3, <2>1, <1>9 DEF ShrinkRoot
  <2>3. UNCHANGED <<ret, op, dinodes>>
    BY <1>5, <1>9 DEF ShrinkRoot, metaDisk
  <2> QED BY <1>4, <2>2, <2>3 DEF Same, Job
<1> QED BY <1>6, <1>7, <1>8, <1>9

\* What the blocks of a file hold when sites are cut out of the map, and only
\* a block that holds no contents is written.
LEMMA CutSectors ==
  ASSUME TypeInv, NEW X, CutAt(BlockMap, BlockMap', X), NEW i \in FileIno,
         NEW lb \in LogicalBlocks,
         UNCHANGED blk \/ \E t, c : Beside(t) /\ write_block(t, c)
  PROVE  Sector(i, lb)' = IF DataSite(i, lb) \in X THEN Zeros ELSE Sector(i, lb)
<1>1. DataSite(i, lb) \in Site
  BY Ranges, Sites
<1> QED BY <1>1, SectorKept DEF CutAt

\* The blocks that a step of a truncate cuts out of the map are holes already,
\* or past the new end of file.
CutsRight(X) ==
  /\ X \subseteq Owned(op.ino) /\ CutAt(BlockMap, BlockMap', X)
  /\ UNCHANGED blk \/ \E t, c : Beside(t) /\ write_block(t, c)
  /\ \A lb \in LogicalBlocks :
       /\ lb < NewBlocks /\ DataSite(op.ino, lb) \in X =>
            Sector(op.ino, lb) = Zeros
       /\ lb >= NewBlocks /\ Passed(lb)' =>
            \/ Passed(lb) \/ DataSite(op.ino, lb) \in X
            \/ Sector(op.ino, lb) = Zeros

\* A step of a truncate that goes on.
LEMMA HistoryShrinks ==
  ASSUME TypeInv, LiveInv, DirHolds, HistoryInv, HStep, Look,
         "truncate" \notin FaultyCalls,
         ShrinkDirect \/ ReadRoots \/ ShrinkChild \/ ShrinkRoot,
         InTruncate', NEW X, CutsRight(X)
  PROVE  Follows
<1>1. /\ InTruncate /\ pc # "resize" /\ OpenInv /\ seen \in [Names -> Flat!File]
      /\ pc' # "idle" /\ ~InWrite
  BY DEF ShrinkDirect, ReadRoots, ShrinkChild, ShrinkRoot, InTruncate, InWrite,
         HistoryInv, OpenInv
<1>2. /\ UNCHANGED <<ret, dinodes>> /\ Fields /\ op'.size = op.size
      /\ inodes'[op.ino].size = inodes[op.ino].size
      /\ \A j \in FileIno : j # op.ino => inodes'[j] = inodes[j]
  BY <1>1, ShrinkFields
<1>3. SameDir
  BY DirTruncate
<1>4. PICK i \in FileIno : i = op.ino
  BY <1>1, WasFile
<1>5. \A j \in FileIno, lb \in LogicalBlocks :
        Sector(j, lb)' = IF DataSite(j, lb) \in X THEN Zeros ELSE Sector(j, lb)
  BY CutSectors DEF CutsRight
<1>6. \A j, lb : j # i => DataSite(j, lb) \notin X
  BY <1>4 DEF CutsRight, Owned, DataSite
<1>7. RestStays
  BY <1>2, <1>3, <1>4, <1>5, <1>6 DEF RestStays
<1>8. ret' = "busy"
  BY <1>1, <1>2 DEF OpenInv, CallOK, InTruncate
<1>9. /\ call' = call /\ seen' = seen /\ UNCHANGED Flat!vars
      /\ Zeroed' /\ Stands' /\ WrittenSoFar' /\ GrowsOn' /\ ShrunkSoFar'
           /\ Saving' => HistoryInv'
  BY <1>1, <1>2, <1>7, <1>8, GoesOn
<1>10. op'.ino = i /\ op.ino = i /\ Was' = Was /\ node'.size = node.size
  BY <1>2, <1>4, <1>9 DEF Fields, Was, node
<1>11. Stands'
  BY <1>1, <1>10, WasFile DEF Stands
<1>12. ~(op.size > node.size)
  BY <1>1 DEF OpenInv, GrowsOn
<1>13. GrowsOn'
  BY <1>2, <1>10, <1>12 DEF GrowsOn
<1>14. ShrunkSoFar'
  <2>1. /\ op.size < node.size
        /\ \A c \in Flat!Cells : c \div SectorSize < NewBlocks =>
             Cell(i, c) = IF c < op.size THEN Was.cells[c] ELSE 0
        /\ \A lb \in LogicalBlocks : lb >= NewBlocks /\ Passed(lb) =>
             Sector(i, lb) = Zeros
    BY <1>1, <1>10, <1>12 DEF OpenInv, ShrunkSoFar
  <2>2. PICK N, z, w : N = NewBlocks /\ z = op.size /\ w = Was
    OBVIOUS
  <2>3. NewBlocks' = N /\ op'.size = z /\ Was' = w
    BY <1>2, <1>10, <2>2 DEF NewBlocks
  <2>4. \A lb \in LogicalBlocks :
          /\ lb < N /\ DataSite(i, lb) \in X => Sector(i, lb) = Zeros
          /\ lb >= N /\ Passed(lb)' =>
               Passed(lb) \/ DataSite(i, lb) \in X \/ Sector(i, lb) = Zeros
    BY <1>10, <2>2 DEF CutsRight
  <2>5. \A lb \in LogicalBlocks : lb < N => Sector(i, lb)' = Sector(i, lb)
    BY <1>5, <2>4
  <2>6. \A lb \in LogicalBlocks : lb >= N /\ Passed(lb)' => Sector(i, lb)' = Zeros
    BY <1>5, <2>1, <2>2, <2>4
  <2>7. \A c \in Flat!Cells : c \div SectorSize < N =>
          Cell(i, c)' = IF c < z THEN w.cells[c] ELSE 0
    <3> SUFFICES ASSUME NEW c \in Flat!Cells, c \div SectorSize < N
                 PROVE  Cell(i, c)' = IF c < z THEN w.cells[c] ELSE 0
      OBVIOUS
    <3>1. Sector(i, c \div SectorSize)' = Sector(i, c \div SectorSize)
      BY <2>5, CellPlace
    <3>2. Cell(i, c)' = Cell(i, c)
      BY <3>1 DEF Cell
    <3> QED BY <2>1, <2>2, <3>2
  <2>8. op'.size < node'.size
    BY <1>2, <1>10, <2>1
  <2>9. i = op'.ino
    BY <1>10
  <2>10. \A c \in Flat!Cells : c \div SectorSize < NewBlocks' =>
           Cell(op.ino, c)' = IF c < op'.size THEN Was'.cells[c] ELSE 0
    BY <2>3, <2>7, <2>9 DEF Cell, Sector
  <2>11. \A lb \in LogicalBlocks : lb >= NewBlocks' /\ Passed(lb)' =>
           Sector(op.ino, lb)' = Zeros
    BY <2>3, <2>6, <2>9 DEF Sector
  <2> QED BY <2>8, <2>10, <2>11 DEF ShrunkSoFar
<1>15. Zeroed' /\ WrittenSoFar' /\ Saving'
  BY OthersIdle
<1> QED BY <1>9, <1>11, <1>13, <1>14, <1>15 DEF Follows

\* The number of blocks a truncate keeps.
LEMMA ShrinkNumbers ==
  ASSUME TypeInv
  PROVE  NewBlocks \in Int /\ op.size \in Nat /\ op.size <= MaxFileSize
<1>1. op.size \in 0 .. MaxFileSize
  BY TypeParts DEF ControlOK, OpType
<1> QED BY <1>1, SizesAssumption, CeilNat DEF NewBlocks

\* A logical block that the map does not name is a hole.
LEMMA HoleReads ==
  ASSUME NEW i, NEW lb, BlockMap[DataSite(i, lb)] = Invalid
  PROVE  Sector(i, lb) = Zeros
BY DEF Sector, SectorOf

\* The site of a logical block of a file, by where it is named.
LEMMA PlaceNamed ==
  ASSUME NEW i, NEW lb \in LogicalBlocks
  PROVE  /\ lb \in Nat
         /\ \/ lb \in DirectIdx /\ DataSite(i, lb) = DirectSite(i, lb) /\ ~InDouble(lb)
            \/ /\ lb - DirectBlocks \in PtrIdx /\ ~InDouble(lb)
               /\ DirectBlocks + (lb - DirectBlocks) = lb
               /\ DataSite(i, lb) = IndirectSite(i, lb - DirectBlocks)
            \/ /\ InDouble(lb) /\ Outer(lb) \in PtrIdx /\ Inner(lb) \in PtrIdx
               /\ ChildFirst(Outer(lb)) + Inner(lb) = lb
               /\ DataSite(i, lb) = LeafSite(i, Outer(lb), Inner(lb))
<1>1. lb \in Nat /\ DirectBlocks \in Nat
  BY BlockPlace, SizesAssumption
<1>2. CASE lb \in DirectIdx /\ ~InDouble(lb)
  BY <1>1, <1>2 DEF DirectSite
<1>3. CASE lb - DirectBlocks \in PtrIdx /\ ~InDouble(lb)
  <2>1. DirectBlocks + (lb - DirectBlocks) = lb
    BY <1>1
  <2> QED BY <1>1, <1>3, <2>1 DEF IndirectSite
<1>4. CASE /\ InDouble(lb) /\ Outer(lb) \in PtrIdx /\ Inner(lb) \in PtrIdx
           /\ lb = DirectBlocks + (Outer(lb) + 1) * PointersPerBlock + Inner(lb)
  BY <1>1, <1>4 DEF LeafSite, ChildFirst
<1> QED BY <1>2, <1>3, <1>4, BlockPlace

\* The direct blocks and the indirect table are cut.
LEMMA HistoryDirect ==
  ASSUME TypeInv, LiveInv, DirHolds, HistoryInv, HStep, Look,
         "truncate" \notin FaultyCalls, ShrinkDirect
  PROVE  Follows
<1> DEFINE i == op.ino
           t == node.indirect
           X == CutSites(i) \union SingleCut(i)
<1>1. /\ pc' = "roots" /\ UNCHANGED op /\ CutAt(BlockMap, BlockMap', X)
      /\ UNCHANGED blk \/ \E c : write_block(t, c)
  BY LiveShrinkDirect DEF DirectShrunk
<1>2. /\ i \in Ino /\ node = inodes[i] /\ pc = "shrink" /\ BlockMap = Map(inodes, blk)
  BY ShrinkSites, TreeIs DEF ShrinkDirect
<1>3. /\ \A k \in DirectIdx : BlockMap[DirectSite(i, k)] = node.direct[k]
      /\ \A p \in PtrIdx : BlockMap[IndirectSite(i, p)] = PtrAt(blk, t, p)
      /\ BlockMap[SingleSite(i)] = t
      /\ SingleSite(i) \in Owned(i)
      /\ \A k \in DirectIdx : DirectSite(i, k) \in Owned(i)
      /\ \A p \in PtrIdx : IndirectSite(i, p) \in Owned(i)
  BY <1>2, MapKinds, OwnedKinds
<1>4. X \subseteq Owned(i)
  BY <1>3 DEF CutSites, Cut, SingleCut, IndirectSites, Past
<1>5. UNCHANGED blk \/ \E b, c : Beside(b) /\ write_block(b, c)
  BY <1>1, <1>2, <1>3, Besides
<1>6. ASSUME NEW lb \in LogicalBlocks, lb < NewBlocks, DataSite(i, lb) \in X
      PROVE  Sector(i, lb) = Zeros
  <2>1. lb \in Nat /\ NewBlocks \in Int
    BY PlaceNamed, ShrinkNumbers
  <2>2. DataSite(i, lb) \notin CutSites(i)
    <3>1. ASSUME NEW k \in Cut, DataSite(i, lb) = DirectSite(i, k)
          PROVE  FALSE
      <4>1. lb = k /\ k >= NewBlocks
        BY <3>1, SitesApart DEF DirectSite, Cut
      <4> QED BY <1>6, <2>1, <4>1
    <3> QED BY <3>1 DEF CutSites
  <2>3. PICK p \in PtrIdx : lb = DirectBlocks + p /\ t # Invalid
                            /\ AsPointers(blk, t)[p] = Invalid
    <3>1. t # Invalid /\ DataSite(i, lb) \in SingleCut(i)
      BY <1>6, <2>2 DEF SingleCut
    <3>2. CASE Kept(t, DirectBlocks) = NoPtrs
      <4>1. PICK p \in PtrIdx : DataSite(i, lb) = IndirectSite(i, p)
        BY <3>1, <3>2, SitesApart DEF SingleCut, IndirectSites
      <4>2. lb = DirectBlocks + p
        BY <4>1, SitesApart DEF IndirectSite
      <4>3. Kept(t, DirectBlocks)[p] = Invalid
        BY <3>2 DEF NoPtrs
      <4> QED BY <1>6, <2>1, <3>1, <4>2, <4>3 DEF Kept
    <3>3. CASE Kept(t, DirectBlocks) # NoPtrs
      <4>1. PICK p \in Past(DirectBlocks) : DataSite(i, lb) = IndirectSite(i, p)
        BY <3>1, <3>3 DEF SingleCut
      <4>2. lb = DirectBlocks + p /\ DirectBlocks + p >= NewBlocks
        BY <4>1, SitesApart DEF IndirectSite, Past
      <4> QED BY <1>6, <2>1, <4>2
    <3> QED BY <3>2, <3>3
  <2> QED BY <1>3, <2>3, HoleReads DEF PtrAt, IndirectSite
<1>7. ASSUME NEW lb \in LogicalBlocks, lb >= NewBlocks, ~InDouble(lb)
      PROVE  DataSite(i, lb) \in X \/ Sector(i, lb) = Zeros
  <2>1. CASE lb \in DirectIdx /\ DataSite(i, lb) = DirectSite(i, lb)
    <3>1. CASE node.direct[lb] = Invalid
      BY <1>3, <2>1, <3>1, HoleReads
    <3>2. CASE node.direct[lb] # Invalid
      BY <1>7, <2>1, <3>2 DEF CutSites, Cut
    <3> QED BY <3>1, <3>2
  <2>2. CASE /\ lb - DirectBlocks \in PtrIdx
             /\ DirectBlocks + (lb - DirectBlocks) = lb
             /\ DataSite(i, lb) = IndirectSite(i, lb - DirectBlocks)
    <3>1. CASE t = Invalid
      BY <1>3, <2>2, <3>1, HoleReads DEF PtrAt
    <3>2. CASE t # Invalid
      BY <1>7, <2>2, <3>2 DEF SingleCut, IndirectSites, Past
    <3> QED BY <3>1, <3>2
  <2> QED BY <1>7, <2>1, <2>2, PlaceNamed
<1>8. \A lb : Passed(lb)' = ~InDouble(lb)
  BY <1>1 DEF Passed
<1>9. CutsRight(X)
  BY <1>1, <1>4, <1>5, <1>6, <1>7, <1>8 DEF CutsRight
<1> QED BY <1>1, <1>9, HistoryShrinks DEF InTruncate

\* The root is read: all that the file has not in it is dropped by now.
LEMMA HistoryRoots ==
  ASSUME TypeInv, LiveInv, DirHolds, HistoryInv, HStep, Look,
         "truncate" \notin FaultyCalls, ReadRoots
  PROVE  Follows
<1> DEFINE i == op.ino
<1>1. /\ BlockMap' = BlockMap /\ UNCHANGED blk /\ pc = "roots"
  BY LiveReadRoots DEF ReadRoots, NoWrite
<1>2. /\ i \in Ino /\ node = inodes[i] /\ BlockMap = Map(inodes, blk)
      /\ DoubleSite(i) \in Site
  BY <1>1, ShrinkSites, TreeIs, Sites
<1>3. /\ BlockMap[DoubleSite(i)] = node.double
      /\ \A o, p \in PtrIdx :
           BlockMap[LeafSite(i, o, p)] = PtrAt(blk, Child(blk, node, o), p)
  BY <1>2, MapKinds
<1>4. node.double # Invalid => Readable(bitmap, node.double)
  BY <1>2, <1>3, NamedReadable DEF LiveInv
<1>5. \/ pc' = "resize" /\ node.double = Invalid
      \/ pc' = "children" /\ op'.cur = 0
  <2>1. op \in OpType
    BY TypeParts DEF ControlOK
  <2>2. \A r : [op EXCEPT !.roots = r, !.cur = 0].cur = 0
    BY <2>1 DEF OpType
  <2> QED BY <1>4, <2>2 DEF ReadRoots, Goto
<1>6. ASSUME NEW lb \in LogicalBlocks, Passed(lb)'
      PROVE  Passed(lb) \/ Sector(i, lb) = Zeros
  <2>1. Passed(lb) = ~InDouble(lb)
    BY <1>1 DEF Passed
  <2>2. CASE InDouble(lb) /\ pc' = "children" /\ op'.cur = 0
    <3>1. Outer(lb) \in PtrIdx /\ Outer(lb) < 0
      BY <1>6, <2>2, BlockPlace DEF Passed
    <3> QED BY <3>1, SizesAssumption DEF PtrIdx
  <2>3. CASE InDouble(lb) /\ node.double = Invalid
    <3>1. /\ Outer(lb) \in PtrIdx /\ Inner(lb) \in PtrIdx
          /\ DataSite(i, lb) = LeafSite(i, Outer(lb), Inner(lb))
      BY <2>3, PlaceNamed
    <3>2. BlockMap[DataSite(i, lb)] = Invalid
      BY <1>3, <2>3, <3>1 DEF PtrAt, Child
    <3> QED BY <3>2, HoleReads
  <2> QED BY <1>5, <2>1, <2>2, <2>3
<1>7. CutsRight({})
  BY <1>1, <1>6 DEF CutsRight, CutAt
<1> QED BY <1>5, <1>7, HistoryShrinks DEF InTruncate

\* One child is cut.
LEMMA HistoryChild ==
  ASSUME TypeInv, LiveInv, DirHolds, HistoryInv, HStep, Look,
         "truncate" \notin FaultyCalls, ShrinkChild
  PROVE  Follows
<1> DEFINE i == op.ino
<1>1. PICK o \in PtrIdx : ChildShrunk(o)
  BY LiveShrinkChild
<1> DEFINE t == op.roots[o]
           X == ChildCut(i, o)
<1>2. /\ pc = "children" /\ pc' = "children" /\ op'.cur = o + 1 /\ NextChild(o)
      /\ UNCHANGED blk \/ \E c : write_block(t, c)
      /\ \A p \in PtrIdx : BlockMap[LeafSite(i, o, p)] = AsPointers(blk, t)[p]
      /\ CutAt(BlockMap, BlockMap', X)
  BY <1>1 DEF ChildShrunk, ShrinkChild
<1>3. /\ i \in Ino /\ node = inodes[i] /\ BlockMap = Map(inodes, Tree)
      /\ \A p \in PtrIdx : Child(Tree, node, p) = op.roots[p]
  BY <1>2, ChildrenKnown
<1>4. /\ BlockMap[ChildSite(i, o)] = t /\ ChildSite(i, o) \in Owned(i)
      /\ \A n, p \in PtrIdx : BlockMap[LeafSite(i, n, p)] = PtrAt(Tree, op.roots[n], p)
      /\ \A n, p \in PtrIdx : LeafSite(i, n, p) \in Owned(i)
  BY <1>3, MapKinds, OwnedKinds
<1>5. X \subseteq Owned(i)
  BY <1>4 DEF ChildCut, LeafSites, LeafEntries, Past
<1>6. UNCHANGED blk \/ \E b, c : Beside(b) /\ write_block(b, c)
  BY <1>2, <1>3, <1>4, Besides
<1>7. NewBlocks \in Int /\ \A p \in PtrIdx : ChildFirst(o) + p \in Int
  BY ShrinkNumbers, Indices
<1>8. ASSUME NEW lb \in LogicalBlocks, lb < NewBlocks, DataSite(i, lb) \in X
      PROVE  Sector(i, lb) = Zeros
  <2>1. PICK p \in PtrIdx : DataSite(i, lb) = LeafSite(i, o, p)
                            /\ (Kept(t, ChildFirst(o)) # NoPtrs =>
                                  ChildFirst(o) + p >= NewBlocks)
    BY <1>8, SitesApart DEF ChildCut, LeafSites, LeafEntries, Past
  <2>2. lb = ChildFirst(o) + p
    BY <2>1, SitesApart DEF LeafSite, ChildFirst
  <2>3. Kept(t, ChildFirst(o)) = NoPtrs
    BY <1>7, <1>8, <2>1, <2>2
  <2>4. Kept(t, ChildFirst(o))[p] = Invalid
    BY <2>3 DEF NoPtrs
  <2>5. AsPointers(blk, t)[p] = Invalid
    BY <1>7, <1>8, <2>2, <2>4 DEF Kept
  <2> QED BY <1>2, <2>1, <2>5, HoleReads
<1>9. ASSUME NEW lb \in LogicalBlocks, lb >= NewBlocks, Passed(lb)'
      PROVE  Passed(lb) \/ DataSite(i, lb) \in X \/ Sector(i, lb) = Zeros
  <2>1. /\ Passed(lb) <=> (InDouble(lb) => Outer(lb) < op.cur)
        /\ InDouble(lb) => Outer(lb) < o + 1
    BY <1>2, <1>9 DEF Passed
  <2>2. CASE InDouble(lb) /\ ~(Outer(lb) < op.cur)
    <3>1. /\ Outer(lb) \in PtrIdx /\ Inner(lb) \in PtrIdx
          /\ ChildFirst(Outer(lb)) + Inner(lb) = lb
          /\ DataSite(i, lb) = LeafSite(i, Outer(lb), Inner(lb))
      BY <2>2, PlaceNamed
    <3>2. Outer(lb) \in Nat /\ o \in Nat /\ op.cur \in Nat
      BY <3>1, Indices, TypeParts DEF ControlOK, OpType
    <3>3. CASE Outer(lb) = o
      <4>1. Inner(lb) \in Past(ChildFirst(o))
        BY <1>9, <3>1, <3>3 DEF Past
      <4> QED BY <3>1, <3>3, <4>1 DEF ChildCut, LeafSites, LeafEntries
    <3>4. CASE Outer(lb) # o
      <4>1. Outer(lb) < o /\ Outer(lb) >= op.cur
        BY <2>1, <2>2, <3>2, <3>4
      <4>2. op.roots[Outer(lb)] = Invalid
        BY <1>2, <3>1, <4>1 DEF NextChild
      <4>3. BlockMap[DataSite(i, lb)] = Invalid
        BY <1>4, <3>1, <4>2 DEF PtrAt
      <4> QED BY <4>3, HoleReads
    <3> QED BY <3>3, <3>4
  <2> QED BY <2>1, <2>2
<1>10. CutsRight(X)
  BY <1>2, <1>5, <1>6, <1>8, <1>9 DEF CutsRight
<1> QED BY <1>2, <1>10, HistoryShrinks DEF InTruncate

\* The root goes, or is written without the children dropped.
LEMMA HistoryRoot ==
  ASSUME TypeInv, LiveInv, DirHolds, HistoryInv, HStep, Look,
         "truncate" \notin FaultyCalls, ShrinkRoot
  PROVE  Follows
<1> DEFINE i == op.ino
<1>1. RootShrunk /\ pc = "children" /\ pc' = "resize" /\ NoChildLeft
  BY LiveShrinkRoot DEF RootShrunk, ShrinkRoot
<1>2. /\ i \in Ino /\ node = inodes[i] /\ BlockMap = Map(inodes, Tree)
      /\ \A p \in PtrIdx : Child(Tree, node, p) = op.roots[p]
  BY <1>1, ChildrenKnown
<1>3. /\ BlockMap[DoubleSite(i)] = node.double /\ DoubleSite(i) \in Owned(i)
      /\ \A n, p \in PtrIdx : BlockMap[LeafSite(i, n, p)] = PtrAt(Tree, op.roots[n], p)
  BY <1>2, MapKinds, OwnedKinds
<1>4. UNCHANGED blk \/ \E b, c : Beside(b) /\ write_block(b, c)
  <2>1. UNCHANGED blk \/ \E c : write_block(node.double, c)
    BY <1>1 DEF ShrinkRoot, NoWrite, Return
  <2> QED BY <1>2, <1>3, <2>1, Besides
<1>5. PICK X : /\ CutAt(BlockMap, BlockMap', X) /\ X \subseteq Owned(i)
               /\ \A lb : DataSite(i, lb) \notin X
  <2>1. CASE CutAt(BlockMap, BlockMap', {DoubleSite(i)})
    BY <1>3, <2>1, SitesApart
  <2>2. CASE BlockMap' = BlockMap
    <3>1. CutAt(BlockMap, BlockMap', {})
      BY <2>2 DEF CutAt
    <3> QED BY <3>1
  <2> QED BY <1>1, <2>1, <2>2 DEF RootShrunk
<1>6. ASSUME NEW lb \in LogicalBlocks
      PROVE  Passed(lb) \/ Sector(i, lb) = Zeros
  <2>1. Passed(lb) <=> (InDouble(lb) => Outer(lb) < op.cur)
    BY <1>1 DEF Passed
  <2>2. CASE InDouble(lb) /\ ~(Outer(lb) < op.cur)
    <3>1. /\ Outer(lb) \in PtrIdx /\ Inner(lb) \in PtrIdx
          /\ DataSite(i, lb) = LeafSite(i, Outer(lb), Inner(lb))
      BY <2>2, PlaceNamed
    <3>2. Outer(lb) \in Nat /\ op.cur \in Nat
      BY <3>1, Indices, TypeParts DEF ControlOK, OpType
    <3>3. op.roots[Outer(lb)] = Invalid
      BY <1>1, <2>2, <3>1, <3>2 DEF NoChildLeft
    <3>4. BlockMap[DataSite(i, lb)] = Invalid
      BY <1>3, <3>1, <3>3 DEF PtrAt
    <3> QED BY <3>4, HoleReads
  <2> QED BY <2>1, <2>2
<1>7. CutsRight(X)
  BY <1>4, <1>5, <1>6 DEF CutsRight
<1> QED BY <1>1, <1>7, HistoryShrinks DEF InTruncate

\* The size is set: the file has what the truncate was to leave.
LEMMA HistoryResize ==
  ASSUME TypeInv, LiveInv, DirHolds, HistoryInv, HStep, Look, Resize
  PROVE  Follows
<1>1. /\ InTruncate /\ pc = "resize" /\ OpenInv /\ seen \in [Names -> Flat!File]
  BY DEF Resize, HistoryInv, OpenInv, InTruncate
<1>2. /\ pc' = "flush" /\ ret' = "busy" /\ UNCHANGED <<dinodes, blk>>
      /\ op'.call = "truncate" /\ op.call = "truncate"
  <2>1. op.call = "truncate"
    BY <1>1 DEF OpenInv, CallOK
  <2>2. op'.call = "truncate"
    BY DEF Resize, StartFlush, NoOp
  <2> QED BY <2>1, <2>2 DEF Resize, StartFlush, NoWrite, metaDisk
<1>3. SameDir /\ BlockMap' = BlockMap
  BY DirTruncate, LiveDone
<1>4. PICK w, n, i, y, e, z :
        /\ w = Was /\ n = call.name /\ i = op.ino
        /\ y = node.size /\ e = w.cells /\ z = op.size
  OBVIOUS
<1>5. Become([node EXCEPT !.size = z])
  BY <1>4 DEF Resize
<1>6. Flat!Effect(call, w) = Whole(z, CutOff(z, y, e))
  <2>1. w = Whole(y, e)
    BY <1>1, <1>4, WasFile DEF Whole
  <2>2. call = Request("truncate", n, 0, <<>>, z)
    BY <1>1, <1>4 DEF OpenInv, CallOK
  <2> QED BY <2>1, <2>2, Effects
<1>7. z \in Nat /\ y \in Nat
  <2>1. node \in Inode
    BY TypeBecome
  <2> QED BY <1>4, <2>1, ShrinkNumbers, SizesAssumption DEF Inode
<1>8. ASSUME NEW c \in Flat!Cells
      PROVE  Cell(i, c) = IF z < y /\ c >= z THEN 0 ELSE e[c]
  <2>1. CASE z > y
    BY <1>1, <1>4, <1>7, <2>1 DEF OpenInv, GrowsOn
  <2>2. CASE ~(z > y)
    <3>1. /\ z < y
          /\ c \div SectorSize < NewBlocks =>
               Cell(i, c) = IF c < z THEN e[c] ELSE 0
          /\ \A lb \in LogicalBlocks : lb >= NewBlocks => Sector(i, lb) = Zeros
      BY <1>1, <1>4, <2>2 DEF OpenInv, ShrunkSoFar, Passed
    <3>2. c \in Nat /\ c \div SectorSize \in LogicalBlocks
          /\ c \div SectorSize \in Nat /\ c % SectorSize \in ByteIdx
      BY CellPlace
    <3>3. NewBlocks \in Int
      BY ShrinkNumbers
    <3>4. CASE c \div SectorSize < NewBlocks
      BY <1>7, <3>1, <3>2, <3>4
    <3>5. CASE c \div SectorSize >= NewBlocks
      <4>1. Cell(i, c) = 0
        BY <3>1, <3>2, <3>5 DEF Cell, Zeros
      <4>2. ~(c < z)
        <5>1. c < z => c \div SectorSize \in 0 .. NewBlocks - 1
          BY <1>4, <1>7, <3>2, CeilBound, SizesAssumption DEF NewBlocks
        <5> QED BY <3>2, <3>3, <3>5, <5>1
      <4> QED BY <1>7, <3>1, <3>2, <4>1, <4>2
    <3> QED BY <3>2, <3>3, <3>4, <3>5
  <2> QED BY <2>1, <2>2
<1>9. [c \in Flat!Cells |-> Cell(i, c)] = CutOff(z, y, e)
  BY <1>8 DEF CutOff
<1> QED BY <1>1, <1>2, <1>3, <1>4, <1>5, <1>6, <1>9, HistorySave DEF Whole

-----------------------------------------------------------------------------
(***************************************************************************)
(* Calls, up to the first step of their handler.                           *)
(***************************************************************************)
\* The table on disk still has the settled files.
LEMMA SettledStays ==
  ASSUME Settled, UNCHANGED dinodes, unsettled \subseteq unsettled',
         \A k \in DirectIdx : inodes[0].direct[k] # Invalid =>
           inodes'[0].direct[k] = inodes[0].direct[k],
         \A s \in Used(inodes', blk') :
           EntryAt(inodes', blk', s).name \notin unsettled' =>
             /\ s \in Used(inodes, blk)
             /\ EntryAt(inodes', blk', s) = EntryAt(inodes, blk, s)
             /\ inodes'[EntryAt(inodes, blk, s).ino]
                  = inodes[EntryAt(inodes, blk, s).ino]
  PROVE  Settled'
<1>1. Saved(dinodes, inodes, blk, unsettled)
  BY DEF Settled
<1>2. Saved(dinodes', inodes', blk', unsettled')
  BY <1>1 DEF Saved
<1> QED BY <1>2 DEF Settled

\* A call that changes no file but, at most, the bytes of one.
LEMMA SettledSame ==
  ASSUME Settled, DirHolds, UNCHANGED dinodes, unsettled \subseteq unsettled',
         SameDir, \A j \in FileIno : inodes'[j] = inodes[j]
  PROVE  Settled'
<1>1. /\ inodes'[0] = inodes[0] /\ Used(inodes', blk') = Used(inodes, blk)
      /\ \A s \in Used(inodes, blk) :
           EntryAt(inodes', blk', s) = EntryAt(inodes, blk, s)
  BY DEF SameDir
<1>2. \A s \in Used(inodes, blk) : EntryAt(inodes, blk, s).ino \in FileIno
  BY EntriesRead DEF DirHolds
<1> QED BY <1>1, <1>2, SettledStays

\* A call that is refused, or fails at once, changes nothing a caller can see.
LEMMA CallRefused ==
  ASSUME HistoryInv, TypeInv', LiveInv', DirHolds, DirHolds', pc = "idle",
         pc' = "idle", Look, UNCHANGED <<call, unsettled, dinodes>>,
         SameDir, SameSectors, \A j \in FileIno : inodes'[j] = inodes[j]
  PROVE  Follows
<1>1. /\ OpenInv /\ call = Flat!NoCall /\ seen \in [Names -> Flat!File]
      /\ \A m \in Names : Shows(m, seen[m])
  BY DEF HistoryInv, OpenInv, CallOK, OthersSeen
<1>2. Settled'
  BY <1>1, SettledSame DEF OpenInv
<1>3. PICK v : v = seen
  OBVIOUS
<1>4. ASSUME NEW m \in Names
      PROVE  Shows(m, v[m])'
  <2>1. \A i \in FileIno : Lists(m, i)' <=> Lists(m, i)
    BY ListsSame
  <2>2. \A i \in FileIno : FileAt(i)' = FileAt(i)
    BY CellsSame, FileSame DEF SameSectors
  <2> QED BY <1>1, <1>3, <2>1, <2>2, ShowsKept
<1>5. Files(v)
  BY <1>1, <1>3 DEF Files
<1>6. seen' = v /\ HistoryInv'
  BY <1>1, <1>2, <1>4, <1>5, AtIdle
<1> QED BY <1>3, <1>6 DEF Follows, Flat!vars

\* A call that starts is one that FlatFiles begins.
LEMMA CallBegins ==
  ASSUME HistoryInv, pc = "idle", pc' \notin {"idle", "closed"}, Look, NEW c,
         Starts(c), c.kind \in {"create", "unlink", "write", "truncate"},
         c.kind = "create" <=> ~seen[c.name].exists
  PROVE  /\ Flat!Next /\ call' = c /\ c # Flat!NoCall /\ seen' = seen
         /\ unsettled' = unsettled \union {c.name}
<1>1. call = Flat!NoCall
  BY DEF HistoryInv, OpenInv, CallOK
<1>2. call' = c /\ unsettled' = unsettled \union {c.name} /\ seen' = seen
  BY DEF Starts, Look
<1>3. c # Flat!NoCall
  <2>1. Flat!NoCall.kind = "none"
    BY DEF Flat!NoCall
  <2> QED BY <2>1
<1>4. Flat!Begin
  BY <1>1, <1>2, <1>3 DEF Flat!Begin
<1> QED BY <1>2, <1>3, <1>4 DEF Flat!Next

\* A call whose first step leaves all to the flush.
LEMMA SaveStarts ==
  ASSUME HistoryInv, pc = "idle", pc' = "flush", ret' = "busy", Look,
         NEW n \in Names, NEW k \in {"create", "unlink"}, op'.call = k,
         Starts(Request(k, n, 0, <<>>, 0)),
         k = "create" <=> ~seen[n].exists, Settled',
         \A m \in Names : \A g : m # n /\ Shows(m, g) => Shows(m, g)',
         Shows(n, IF k = "create" THEN Flat!Empty ELSE Flat!Absent)'
  PROVE  Follows
<1> DEFINE c == Request(k, n, 0, <<>>, 0)
<1>1. c.kind = k /\ c.name = n
  BY DEF Request
<1> HIDE DEF c
<1>2. /\ Flat!Next /\ call' = c /\ c # Flat!NoCall /\ seen' = seen
      /\ unsettled' = unsettled \union {n}
  BY <1>1, CallBegins DEF c
<1>3. PICK v : v = seen
  OBVIOUS
<1>4. \A m \in Names : Shows(m, v[m])
  BY <1>3 DEF HistoryInv, OpenInv, CallOK, OthersSeen
<1>5. OthersSeen'
  <2>1. \A m \in Names : m # n => Shows(m, v[m])'
    BY <1>4
  <2>2. \A m \in Names : m # n => ShowsIn(inodes', BlockMap', blk', m, v[m])
    BY <2>1 DEF Shows
  <2> QED BY <1>1, <1>2, <1>3, <2>2 DEF OthersSeen, Shows
<1>6. Saving'
  <2>1. \A f : Flat!Effect(c, f) = IF k = "create" THEN Flat!Empty ELSE Flat!Absent
    <3>1. CASE k = "create"
      BY <1>1, <3>1 DEF Flat!Effect
    <3>2. CASE k = "unlink"
      BY <1>1, <3>2 DEF Flat!Effect
    <3> QED BY <3>1, <3>2
  <2>2. ShowsIn(inodes', BlockMap', blk', n, Flat!Effect(c, v[n]))
    BY <2>1 DEF Shows
  <2> QED BY <1>1, <1>2, <1>3, <2>2 DEF Saving, Shows, Was
<1>7. CallOK'
  <2>1. ~InWrite' /\ ~InTruncate'
    BY DEF InWrite, InTruncate
  <2> QED BY <1>1, <1>2, <2>1 DEF CallOK
<1>8. Zeroed' /\ Stands' /\ WrittenSoFar' /\ GrowsOn' /\ ShrunkSoFar'
  BY OthersIdle
<1>9. HistoryInv'
  BY <1>2, <1>5, <1>6, <1>7, <1>8 DEF HistoryInv, OpenInv
<1> QED BY <1>2, <1>9 DEF Follows

\* A call that starts to work on a file.
LEMMA FileStarts ==
  ASSUME HistoryInv, DirHolds, pc = "idle", ret' = "busy", Look,
         pc' \in {"map", "shrink", "resize"},
         NEW n \in Names, NEW i \in FileIno, LookupIs(n, i), NEW c, Starts(c),
         c.kind \in {"write", "truncate"}, c.name = n, op'.ino = i,
         InWrite' => /\ op'.call = "write"
                     /\ c = Request("write", n, op'.off, op'.buf, 0),
         InTruncate' => /\ op'.call = "truncate"
                        /\ c = Request("truncate", n, 0, <<>>, op'.size),
         SameDir, UNCHANGED <<inodes, dinodes>>,
         \A j \in FileIno : j # i => \A lb \in LogicalBlocks :
           Sector(j, lb)' = Sector(j, lb)
  PROVE  /\ call' = c /\ seen' = seen
         /\ seen[n] = Whole(inodes[i].size, [x \in Flat!Cells |-> Cell(i, x)])
         /\ WrittenSoFar' /\ GrowsOn' /\ ShrunkSoFar' => Follows
<1>1. PICK v : v = seen
  OBVIOUS
<1>2. \A m \in Names : Shows(m, v[m])
  BY <1>1 DEF HistoryInv, OpenInv, CallOK, OthersSeen
<1>3. Lists(n, i) /\ \A m : m # n => ~Lists(m, i)
  BY Listing
<1>4. v[n] = FileAt(i)
  BY <1>2, <1>3, Listing
<1>5. v[n] = Whole(inodes[i].size, [x \in Flat!Cells |-> Cell(i, x)])
  BY <1>4 DEF FileAt, FileOf, Whole, Cell, Sector
<1>6. /\ Flat!Next /\ call' = c /\ c # Flat!NoCall /\ seen' = seen
      /\ unsettled' = unsettled \union {n}
  <2>1. seen[n].exists
    BY <1>1, <1>5, WholeFields
  <2> QED BY <2>1, CallBegins
<1>7. \A m, j : Lists(m, j)' <=> Lists(m, j)
  BY ListsSame
<1>8. ASSUME NEW m \in Names, m # n
      PROVE  Shows(m, v[m])'
  <2>1. \A j \in FileIno : Lists(m, j) => FileAt(j)' = FileAt(j)
    <3>1. \A j \in FileIno : Lists(m, j) => j # i
      BY <1>3, <1>8
    <3> QED BY <3>1, CellsSame, FileSame
  <2> QED BY <1>2, <1>7, <2>1, ShowsKept
<1>9. OthersSeen'
  <2>1. \A m \in Names : m # n => ShowsIn(inodes', BlockMap', blk', m, v[m])
    BY <1>8 DEF Shows
  <2> QED BY <1>1, <1>6, <2>1 DEF OthersSeen, Shows
<1>10. Settled'
  BY <1>6, SettledSame DEF HistoryInv, OpenInv
<1>11. CallOK'
  <2>1. ListsIn(inodes', blk', n, i)
    BY <1>3, <1>7 DEF Lists
  <2> QED BY <1>6, <2>1 DEF CallOK, InWrite, InTruncate, Lists
<1>12. Stands' /\ Zeroed' /\ Saving'
  <2>1. v[n].exists /\ v[n].size = inodes'[i].size
    BY <1>5, WholeFields
  <2>2. Stands'
    BY <1>1, <1>6, <2>1 DEF Stands, Was, node
  <2> QED BY <2>2 DEF Zeroed, InTable, Saving
<1>13. WrittenSoFar' /\ GrowsOn' /\ ShrunkSoFar' => HistoryInv'
  BY <1>6, <1>9, <1>10, <1>11, <1>12 DEF HistoryInv, OpenInv
<1> QED BY <1>1, <1>5, <1>6, <1>13 DEF Follows

\* A write starts with nothing written.
LEMMA HistoryStartWrite ==
  ASSUME TypeInv, TypeInv', LiveInv, DirHolds, HistoryInv, Look, NEW n \in Names,
         NEW off \in Offsets, NEW buf \in Payloads, denyfs_vol_write(n, off, buf),
         Starts(Request("write", n, off, buf, 0))
  PROVE  Follows
<1>1. UNCHANGED <<inodes, blk, dinodes>> /\ LiveInv' /\ pc' # "closed"
  <2>1. LiveInv' /\ pc' # "closed"
    BY LiveStartWrite
  <2> QED BY <2>1 DEF denyfs_vol_write, NotFound, Refuse, disk
<1>2. DirHolds' /\ SameDir
  BY <1>1, DirQuiet
<1>3. pc = "idle" /\ pc' \in {"idle", "map"}
  BY DEF denyfs_vol_write, NotFound, Refuse, Return
<1>4. SameSectors
  <2>1. BlockMap' = BlockMap
    BY <1>1, <1>3, TreeIs
  <2> QED BY <1>1, <2>1 DEF SameSectors, Sector
<1>5. CASE pc' = "idle"
  <2>1. UNCHANGED <<call, unsettled>>
    BY <1>5 DEF Starts
  <2> QED BY <1>1, <1>2, <1>3, <1>4, <1>5, <2>1, CallRefused
<1>6. CASE pc' = "map"
  <2>1. PICK i \in FileIno :
          /\ LookupIs(n, i) /\ ret' = "busy"
          /\ op' = [NoOp EXCEPT !.call = "write", !.ino = i, !.off = off, !.buf = buf]
    BY <1>6 DEF denyfs_vol_write, NotFound, Refuse, Return
  <2>2. /\ op'.call = "write" /\ op'.ino = i /\ op'.off = off /\ op'.buf = buf
        /\ op'.done = 0
    BY <2>1 DEF NoOp
  <2> DEFINE c == Request("write", n, off, buf, 0)
  <2>3. c.kind = "write" /\ c.name = n
    BY DEF Request
  <2>4. ~InTruncate'
    BY <1>6 DEF InTruncate
  <2> HIDE DEF c
  <2>5. /\ call' = c /\ seen' = seen
        /\ seen[n] = Whole(inodes[i].size, [x \in Flat!Cells |-> Cell(i, x)])
        /\ WrittenSoFar' /\ GrowsOn' /\ ShrunkSoFar' => Follows
    <3>1. InWrite' => op'.call = "write"
                      /\ c = Request("write", n, op'.off, op'.buf, 0)
      BY <2>2 DEF c
    <3>2. Starts(c)
      BY DEF c
    <3> QED BY <1>1, <1>2, <1>3, <1>4, <1>6, <2>1, <2>2, <2>3, <2>4, <3>1, <3>2,
               FileStarts DEF SameSectors
  <2>6. WrittenSoFar'
    <3>1. PICK e : e = seen[n].cells
      OBVIOUS
    <3>2. e = [x \in Flat!Cells |-> Cell(i, x)]
      BY <2>5, <3>1, WholeFields
    <3>3. \A x \in Flat!Cells : Cell(i, x)' = e[x]
      BY <1>4, <3>2, CellsSame DEF SameSectors
    <3>4. off \in Nat /\ off .. off + 0 - 1 = {}
      BY InputsAssumption
    <3>5. \A x \in Flat!Cells :
            SectorOf(BlockMap', blk', i, x \div SectorSize)[x % SectorSize] = e[x]
      BY <3>3 DEF Cell, Sector
    <3> QED BY <2>2, <2>3, <2>5, <3>1, <3>4, <3>5 DEF WrittenSoFar, Was, Cell, Sector
  <2>7. GrowsOn' /\ ShrunkSoFar'
    BY <2>4 DEF GrowsOn, ShrunkSoFar
  <2> QED BY <2>5, <2>6, <2>7
<1> QED BY <1>3, <1>5, <1>6

\* Positions in the last block that a file of z bytes needs.
LEMMA LastBlock ==
  ASSUME NEW c \in Nat, NEW z \in Nat
  PROVE  /\ c \div SectorSize < Ceil(z, SectorSize) /\ c >= z =>
              z % SectorSize # 0 /\ c \div SectorSize = z \div SectorSize
         /\ c \div SectorSize = z \div SectorSize =>
              (c < z <=> c % SectorSize < z % SectorSize)
<1>1. PICK S, q, a, k, r, y :
        /\ S = SectorSize /\ q = c \div S /\ a = z \div S
        /\ k = (z + S - 1) \div S /\ r = c % S /\ y = z % S
  OBVIOUS
<1>2. S \in Nat \ {0}
  BY <1>1, SizesAssumption
<1>3. /\ q \in Int /\ a \in Int /\ k \in Int /\ r \in 0 .. S - 1 /\ y \in 0 .. S - 1
      /\ c = S * q + r /\ z = S * a + y /\ S * k <= z + S - 1
      /\ c < S * (q + 1) /\ z < S * (a + 1)
  <2>1. /\ q \in Int /\ a \in Int /\ c < S * (q + 1) /\ z < S * (a + 1)
    BY <1>1, <1>2, DivFacts
  <2>2. k \in Int /\ S * k <= z + S - 1
    BY <1>1, <1>2, DivFacts
  <2>3. r \in 0 .. S - 1 /\ y \in 0 .. S - 1 /\ c = S * q + r /\ z = S * a + y
    BY <1>1, <1>2, ModFacts
  <2> QED BY <2>1, <2>2, <2>3
<1>4. ASSUME q < k, c >= z
      PROVE  q = a /\ y # 0
  <2>1. S * (q + 1) <= S * k /\ S * (q + 1) = S * q + S
    BY <1>2, <1>3, <1>4
  <2>2. S * q < z
    BY <1>2, <1>3, <2>1
  <2>3. ~(q <= a - 1)
    <3> SUFFICES ASSUME q <= a - 1 PROVE FALSE
      OBVIOUS
    <3>1. S * (q + 1) <= S * a
      BY <1>2, <1>3
    <3> QED BY <1>2, <1>3, <1>4, <3>1
  <2>4. ~(q >= a + 1)
    <3> SUFFICES ASSUME q >= a + 1 PROVE FALSE
      OBVIOUS
    <3>1. S * q >= S * (a + 1)
      BY <1>2, <1>3
    <3> QED BY <1>2, <1>3, <2>2, <3>1
  <2>5. q = a
    BY <1>3, <2>3, <2>4
  <2>6. PICK x : x = S * a
    OBVIOUS
  <2>7. x < z /\ z = x + y /\ x \in Int
    BY <1>2, <1>3, <2>2, <2>5, <2>6
  <2> QED BY <1>3, <2>5, <2>7
<1>5. ASSUME q = a
      PROVE  c < z <=> r < y
  <2>1. PICK x : x = S * a
    OBVIOUS
  <2>2. x \in Int /\ c = x + r /\ z = x + y
    BY <1>2, <1>3, <1>5, <2>1
  <2> QED BY <1>3, <2>2
<1> QED BY <1>1, <1>4, <1>5 DEF Ceil

\* How a truncate starts: it is refused, or grows the file, or shrinks it, with
\* the tail of the last block a hole already or cleared.
TruncateStarts(n, i, size) ==
  LET lb == size \div SectorSize
  IN  /\ LookupIs(n, i) /\ ret' = "busy" /\ UNCHANGED <<inodes, dinodes>>
      /\ op' = [NoOp EXCEPT !.call = "truncate", !.ino = i, !.size = size]
      /\ \/ pc' = "resize" /\ size > inodes[i].size /\ UNCHANGED blk
         \/ /\ pc' = "shrink" /\ size < inodes[i].size
            /\ lb \in LogicalBlocks
            /\ \/ /\ size % SectorSize = 0 \/ BlockMap[DataSite(i, lb)] = Invalid
                  /\ UNCHANGED blk
               \/ \E t \in DataBlocks :
                    /\ t = BlockMap[DataSite(i, lb)]
                    /\ write_block(t, DataBlock(Cleared(t, size % SectorSize)))
LEMMA StartsTruncate ==
  ASSUME TypeInv, "truncate" \notin FaultyCalls, NEW n, NEW size \in TruncSizes,
         denyfs_vol_truncate(n, size)
  PROVE  \/ \E r : Refuse(r)
         \/ \E i \in FileIno : TruncateStarts(n, i, size)
<1>1. pc = "idle" /\ BlockMap = Map(inodes, blk)
  BY TreeIs DEF denyfs_vol_truncate
<1>2. ~WriteFails("truncate")
  BY DEF WriteFails
<1> SUFFICES ASSUME ~\E r : Refuse(r)
             PROVE  \E i \in FileIno : TruncateStarts(n, i, size)
  OBVIOUS
<1>3. PICK i \in FileIno : LookupIs(n, i) /\ TruncateGoes(i, size)
  BY DEF denyfs_vol_truncate, NotFound, TruncateGoes
<1> DEFINE lb == size \div SectorSize
           t == get_file_data_block(bitmap, blk, inodes[i], lb)
<1>4. i \in Ino /\ inodes[i].size \in 0 .. MaxFileSize /\ size \in Nat
  <2>1. i \in Ino /\ inodes \in [Ino -> Inode]
    BY TypeParts, Ranges DEF InodesOK
  <2> QED BY <2>1, InputsAssumption DEF Inode
<1>5. size < inodes[i].size => lb \in LogicalBlocks
  <2>1. MaxFileBlocks \in Nat
    BY SizesAssumption DEF MaxFileBlocks
  <2>2. size < inodes[i].size => size < MaxFileBlocks * SectorSize
    BY <1>4, <2>1, LayoutAssumption, SizesAssumption
  <2> QED BY <1>4, <2>1, <2>2, DivBelow, SizesAssumption DEF LogicalBlocks
<1>6. ASSUME t # EIO, lb \in LogicalBlocks
      PROVE  t = BlockMap[DataSite(i, lb)]
  <2> HIDE DEF lb
  <2>1. t = DataPtr(blk, inodes[i], lb)
    BY <1>6 DEF get_file_data_block
  <2> QED BY <1>1, <1>4, <1>6, <2>1, MapAt
<1>7. UNCHANGED <<inodes, dinodes>>
  BY <1>3 DEF TruncateGoes, disk, metaDisk
<1> HIDE DEF t, lb
<1>8. /\ op' = [NoOp EXCEPT !.call = "truncate", !.ino = i, !.size = size]
      /\ ret' = "busy"
      /\ \/ pc' = "resize" /\ size > inodes[i].size /\ UNCHANGED blk
         \/ /\ pc' = "shrink" /\ size < inodes[i].size
            /\ size % SectorSize = 0 \/ t = Invalid
            /\ UNCHANGED blk
         \/ /\ pc' = "shrink" /\ size < inodes[i].size /\ t \in DataBlocks
            /\ write_block(t, DataBlock(Cleared(t, size % SectorSize)))
  BY <1>2, <1>3, DataArea DEF TruncateGoes, disk, t, lb
<1> QED BY <1>3, <1>5, <1>6, <1>7, <1>8, DataArea DEF TruncateStarts, lb

\* A truncate starts with what is past the new end of file, in the last block
\* it keeps, zero.
LEMMA HistoryStartTruncate ==
  ASSUME TypeInv, LiveInv, TypeInv', DirHolds, HistoryInv, Look,
         "truncate" \notin FaultyCalls, NEW n \in Names, NEW size \in TruncSizes,
         denyfs_vol_truncate(n, size), Starts(Request("truncate", n, 0, <<>>, size))
  PROVE  Follows
<1>1. LiveInv' /\ BlockMap' = BlockMap /\ DirHolds' /\ SameDir /\ pc = "idle"
  BY LiveStartTruncate, DirStartTruncate DEF denyfs_vol_truncate
<1>2. ASSUME NEW r, Refuse(r)
      PROVE  Follows
  <2>1. pc' = "idle" /\ UNCHANGED <<inodes, dinodes, blk>>
    BY <1>2 DEF Refuse, Return, disk
  <2>2. UNCHANGED <<call, unsettled>>
    BY <2>1 DEF Starts
  <2>3. SameSectors
    BY <1>1, <2>1 DEF SameSectors, Sector
  <2> QED BY <1>1, <2>1, <2>2, <2>3, CallRefused
<1>3. ASSUME NEW i \in FileIno, TruncateStarts(n, i, size)
      PROVE  Follows
  <2> DEFINE lb == size \div SectorSize
             z == inodes[i].size
  <2>1. /\ LookupIs(n, i) /\ ret' = "busy" /\ UNCHANGED <<inodes, dinodes>>
        /\ op'.call = "truncate" /\ op'.ino = i /\ op'.size = size
        /\ pc' \in {"resize", "shrink"}
    BY <1>3 DEF TruncateStarts, NoOp
  <2>2. z \in Nat /\ size \in Nat
    <3>1. i \in Ino /\ inodes \in [Ino -> Inode]
      BY TypeParts, Ranges DEF InodesOK
    <3> QED BY <3>1, SizesAssumption, InputsAssumption DEF Inode
  <2>3. \/ pc' = "resize" /\ size > z /\ SameSectors
        \/ /\ pc' = "shrink" /\ size < z /\ SameSectors
           /\ size % SectorSize = 0 \/ Sector(i, lb) = Zeros
        \/ /\ pc' = "shrink" /\ size < z
           /\ \A j \in FileIno, k \in LogicalBlocks :
                Sector(j, k)' = IF j = i /\ k = lb
                                THEN [x \in ByteIdx |->
                                        IF x >= size % SectorSize THEN 0
                                        ELSE Sector(i, lb)[x]]
                                ELSE Sector(j, k)
    <3>1. UNCHANGED blk => SameSectors
      BY <1>1 DEF SameSectors, Sector
    <3>2. ASSUME lb \in LogicalBlocks, NEW t \in DataBlocks,
                 t = BlockMap[DataSite(i, lb)],
                 write_block(t, DataBlock(Cleared(t, size % SectorSize)))
          PROVE  \A j \in FileIno, k \in LogicalBlocks :
                   Sector(j, k)' = IF j = i /\ k = lb
                                   THEN [x \in ByteIdx |->
                                           IF x >= size % SectorSize THEN 0
                                           ELSE Sector(i, lb)[x]]
                                   ELSE Sector(j, k)
      <4> HIDE DEF lb
      <4>1. \A j \in FileIno, k \in LogicalBlocks :
              Sector(j, k)' = IF j = i /\ k = lb
                              THEN Cleared(t, size % SectorSize) ELSE Sector(j, k)
        BY <1>1, <3>2, SectorPut
      <4>2. Sector(i, lb) = AsBytes(blk, t)
        BY <3>2, DataArea DEF Sector, SectorOf
      <4> QED BY <4>1, <4>2 DEF Cleared
    <3>3. BlockMap[DataSite(i, lb)] = Invalid => Sector(i, lb) = Zeros
      BY HoleReads
    <3> QED BY <1>3, <3>1, <3>2, <3>3 DEF TruncateStarts
  <2> HIDE DEF lb, z
  <2> DEFINE c == Request("truncate", n, 0, <<>>, size)
  <2>4. c.kind = "truncate" /\ c.name = n
    BY DEF Request
  <2>5. /\ ~InWrite' /\ InTruncate' /\ Starts(c)
        /\ c = Request("truncate", n, 0, <<>>, op'.size)
    BY <2>1 DEF InWrite, InTruncate
  <2> HIDE DEF c
  <2>6. /\ call' = c /\ seen' = seen
        /\ seen[n] = Whole(inodes[i].size, [x \in Flat!Cells |-> Cell(i, x)])
        /\ WrittenSoFar' /\ GrowsOn' /\ ShrunkSoFar' => Follows
    <3>1. \A j \in FileIno : j # i => \A k \in LogicalBlocks :
            Sector(j, k)' = Sector(j, k)
      BY <2>3 DEF SameSectors
    <3> QED BY <1>1, <2>1, <2>4, <2>5, <3>1, FileStarts
  <2>7. PICK e : e = seen[n].cells
    OBVIOUS
  <2>8. \A x \in Flat!Cells : Cell(i, x) = e[x]
    BY <2>6, <2>7, WholeFields
  <2>9. WrittenSoFar'
    BY <2>5 DEF WrittenSoFar
  <2>10. Was'.cells = e /\ node'.size = z
    BY <2>1, <2>4, <2>6, <2>7 DEF Was, node, z
  <2>11. GrowsOn'
    <3>1. CASE pc' = "resize"
      <4>1. SameSectors
        BY <2>3, <3>1
      <4>2. \A x \in Flat!Cells : Cell(i, x)' = e[x]
        BY <2>8, <4>1, CellsSame DEF SameSectors
      <4>3. \A x \in Flat!Cells :
              SectorOf(BlockMap', blk', i, x \div SectorSize)[x % SectorSize] = e[x]
        BY <4>2 DEF Cell, Sector
      <4> QED BY <2>1, <2>10, <3>1, <4>3 DEF GrowsOn, Cell, Sector
    <3>2. CASE pc' = "shrink"
      BY <2>1, <2>2, <2>3, <2>10, <3>2 DEF GrowsOn
    <3> QED BY <2>1, <3>1, <3>2
  <2>12. ShrunkSoFar'
    <3>1. CASE pc' = "resize"
      BY <2>1, <2>2, <2>3, <2>10, <3>1 DEF ShrunkSoFar
    <3>2. CASE pc' = "shrink"
      <4>1. size < z
        BY <2>3, <3>2
      <4>2. ASSUME NEW x \in Flat!Cells,
                   x \div SectorSize < Ceil(size, SectorSize)
            PROVE  Cell(i, x)' = IF x < size THEN e[x] ELSE 0
        <5>1. /\ x \in Nat /\ x \div SectorSize \in LogicalBlocks
              /\ x % SectorSize \in ByteIdx /\ x % SectorSize \in Nat
              /\ size % SectorSize \in Int
          BY CellPlace, ModFacts, <2>2, SizesAssumption DEF ByteIdx
        <5>2. /\ x >= size => size % SectorSize # 0 /\ x \div SectorSize = lb
              /\ x \div SectorSize = lb =>
                   (x < size <=> x % SectorSize < size % SectorSize)
          BY <2>2, <4>2, <5>1, LastBlock DEF lb
        <5>3. Cell(i, x) = e[x]
          BY <2>8
        <5>4. CASE /\ SameSectors
                   /\ size % SectorSize = 0 \/ Sector(i, lb) = Zeros
          <6>1. Cell(i, x)' = Cell(i, x)
            BY <5>4, CellsSame DEF SameSectors
          <6>2. x >= size => Cell(i, x) = 0
            BY <5>1, <5>2, <5>4 DEF Cell, Zeros
          <6> QED BY <2>2, <5>1, <5>3, <6>1, <6>2
        <5>5. CASE ~(/\ SameSectors
                     /\ size % SectorSize = 0 \/ Sector(i, lb) = Zeros)
          <6>1. Sector(i, x \div SectorSize)' =
                  IF x \div SectorSize = lb
                  THEN [y \in ByteIdx |-> IF y >= size % SectorSize THEN 0
                                          ELSE Sector(i, lb)[y]]
                  ELSE Sector(i, x \div SectorSize)
            BY <2>3, <3>2, <5>1, <5>5
          <6>2. Cell(i, x)' = Sector(i, x \div SectorSize)'[x % SectorSize]
            BY DEF Cell
          <6>3. CASE x \div SectorSize = lb
            <7>1. Cell(i, x)' = IF x % SectorSize >= size % SectorSize THEN 0
                                ELSE Sector(i, lb)[x % SectorSize]
              BY <5>1, <6>1, <6>2, <6>3
            <7> QED BY <5>1, <5>2, <5>3, <6>3, <7>1 DEF Cell
          <6>4. CASE x \div SectorSize # lb
            <7>1. Cell(i, x)' = Cell(i, x)
              BY <6>1, <6>2, <6>4 DEF Cell
            <7> QED BY <2>2, <5>1, <5>2, <5>3, <6>4, <7>1
          <6> QED BY <6>3, <6>4
        <5> QED BY <5>4, <5>5
      <4>3. \A x \in Flat!Cells : x \div SectorSize < Ceil(size, SectorSize) =>
              SectorOf(BlockMap', blk', i, x \div SectorSize)[x % SectorSize]
                = IF x < size THEN e[x] ELSE 0
        BY <4>2 DEF Cell, Sector
      <4>4. \A k : ~Passed(k)'
        BY <3>2 DEF Passed
      <4> QED BY <2>1, <2>10, <4>1, <4>4, <4>3 DEF ShrunkSoFar, NewBlocks, Cell, Sector
    <3> QED BY <2>1, <3>1, <3>2
  <2> QED BY <2>6, <2>9, <2>11, <2>12
<1> QED BY <1>2, <1>3, StartsTruncate

\* A file that is created is empty, and no other file changes.
LEMMA HistoryCreated ==
  ASSUME TypeInv, DirHolds, HistoryInv, Look, pc = "idle", pc' = "flush",
         ret' = "busy", op'.call = "create", NEW n \in Names, NEW i \in FileIno,
         LookupIs(n, ENOENT), Created(n, i), UNCHANGED dinodes,
         Starts(Request("create", n, 0, <<>>, 0)),
         \A s \in Site : s \notin Owned(0) => BlockMap'[s] = BlockMap[s],
         \E t, c : Beside(t) /\ write_block(t, c)
  PROVE  Follows
<1>1. /\ inodes[i].type = "FREE" /\ inodes'[i] = EmptyInode("FILE")
      /\ \A j \in FileIno : j # i => inodes'[j] = inodes[j]
      /\ \A k \in DirectIdx : inodes[0].direct[k] # Invalid =>
           inodes'[0].direct[k] = inodes[0].direct[k]
  BY DEF Created
<1>2. PICK s : /\ Used(inodes', blk') = Used(inodes, blk) \union {s}
               /\ EntryAt(inodes', blk', s) = NewEntry(i, n)
               /\ \A t \in Used(inodes, blk) :
                    /\ EntryAt(inodes', blk', t) = EntryAt(inodes, blk, t)
                    /\ EntryAt(inodes, blk, t).name # n
  BY DEF Created
<1>3. /\ \A j : ~Lists(n, j)
      /\ \A m, j : Lists(m, j) => j \in FileIno /\ j # i
  BY <1>1, Listing DEF IsFile
<1>4. NewEntry(i, n).name = n /\ NewEntry(i, n).ino = i
  BY DEF NewEntry
<1>5. /\ ListsIn(inodes', blk', n, i)
      /\ \A m, j : m # n => (ListsIn(inodes', blk', m, j) <=> ListsIn(inodes, blk, m, j))
  BY <1>2, <1>4 DEF ListsIn
<1>6. ~seen[n].exists
  <2>1. Shows(n, seen[n])
    BY DEF HistoryInv, OpenInv, CallOK, OthersSeen
  <2>2. seen[n] = Flat!Absent
    BY <1>3, <2>1, Listing
  <2>3. Flat!Absent.exists = FALSE
    BY DEF Flat!Absent
  <2> QED BY <2>2, <2>3
<1>7. ASSUME NEW m \in Names, NEW g, m # n, Shows(m, g)
      PROVE  Shows(m, g)'
  <2>1. ASSUME NEW j \in FileIno, j # i
        PROVE  FileAt(j)' = FileAt(j)
    <3>1. ASSUME NEW lb \in LogicalBlocks
          PROVE  Sector(j, lb)' = Sector(j, lb)
      <4>1. DataSite(j, lb) \in Site /\ DataSite(j, lb) \notin Owned(0)
        BY Sites, Ranges DEF Owned, DataSite, FileIno
      <4> QED BY <4>1, SectorKept
    <3> QED BY <1>1, <2>1, <3>1, CellsSame, FileSame
  <2>2. \A j \in FileIno : /\ Lists(m, j)' <=> Lists(m, j)
                           /\ Lists(m, j) => FileAt(j)' = FileAt(j)
    BY <1>3, <1>5, <1>7, <2>1 DEF Lists
  <2> QED BY <1>7, <2>2, ShowsKept
<1>8. Shows(n, Flat!Empty)'
  <2>1. BlockMap' = Map(inodes', blk') /\ i \in Ino
    BY TreeIs, Ranges
  <2>2. ASSUME NEW lb \in LogicalBlocks
        PROVE  SectorOf(BlockMap', blk', i, lb) = Zeros
    <3>1. DataPtr(blk', inodes'[i], lb) = Invalid
      <4>1. lb < DirectBlocks => lb \in DirectIdx
        BY BlockPlace
      <4> QED BY <1>1, <4>1 DEF EmptyInode, DataPtr, PtrAt, Child
    <3>2. BlockMap'[DataSite(i, lb)] = Invalid
      BY <2>1, <3>1, MapAt
    <3> QED BY <3>2 DEF SectorOf
  <2>3. FileOf(inodes', BlockMap', blk', i) = Flat!Empty
    <3>1. inodes'[i].size = 0
      BY <1>1 DEF EmptyInode
    <3>2. \A c \in Flat!Cells :
            SectorOf(BlockMap', blk', i, c \div SectorSize)[c % SectorSize] = 0
      BY <2>2, CellPlace DEF Zeros
    <3>3. [c \in Flat!Cells |->
             SectorOf(BlockMap', blk', i, c \div SectorSize)[c % SectorSize]]
            = Flat!Blank
      BY <3>2 DEF Flat!Blank
    <3> QED BY <3>1, <3>3 DEF FileOf, Flat!Empty
  <2>4. ShowsIn(inodes', BlockMap', blk', n, Flat!Empty)
    BY <1>5, <2>3 DEF ShowsIn
  <2> QED BY <2>4 DEF Shows
<1>9. Settled'
  <2>1. unsettled' = unsettled \union {n}
    BY DEF Starts, Request
  <2>2. ASSUME NEW t \in Used(inodes', blk'),
               EntryAt(inodes', blk', t).name \notin unsettled'
        PROVE  /\ t \in Used(inodes, blk)
               /\ EntryAt(inodes', blk', t) = EntryAt(inodes, blk, t)
               /\ inodes'[EntryAt(inodes, blk, t).ino]
                    = inodes[EntryAt(inodes, blk, t).ino]
    <3>1. t \in Used(inodes, blk)
      BY <1>2, <1>4, <2>1, <2>2
    <3>2. Lists(EntryAt(inodes, blk, t).name, EntryAt(inodes, blk, t).ino)
      BY <3>1 DEF Lists, ListsIn
    <3> QED BY <1>1, <1>2, <1>3, <3>1, <3>2
  <2>3. Settled
    BY DEF HistoryInv, OpenInv
  <2> QED BY <1>1, <2>1, <2>2, <2>3, SettledStays
<1>10. Shows(n, IF "create" = "create" THEN Flat!Empty ELSE Flat!Absent)'
  BY <1>8
<1> QED BY <1>6, <1>7, <1>9, <1>10, SaveStarts

\* A file that is unlinked is gone, and no other file changes.
LEMMA HistoryRemoved ==
  ASSUME TypeInv, DirHolds, HistoryInv, Look, pc = "idle", pc' = "flush",
         ret' = "busy", op'.call = "unlink", NEW n \in Names, NEW i \in FileIno,
         Removed(n, i), UNCHANGED dinodes,
         Starts(Request("unlink", n, 0, <<>>, 0)),
         CutAt(BlockMap, BlockMap', Owned(i)),
         \E t, c : Beside(t) /\ write_block(t, c)
  PROVE  Follows
<1>1. /\ inodes'[0] = inodes[0]
      /\ \A j \in FileIno : j # i => inodes'[j] = inodes[j]
  BY DEF Removed
<1>2. PICK s \in Used(inodes, blk) :
        /\ EntryAt(inodes, blk, s).name = n /\ EntryAt(inodes, blk, s).ino = i
        /\ Used(inodes', blk') = Used(inodes, blk) \ {s}
        /\ \A t \in Used(inodes, blk) : t # s =>
             EntryAt(inodes', blk', t) = EntryAt(inodes, blk, t)
  BY DEF Removed
<1>3. /\ Lists(n, i)
      /\ \A m, j : Lists(m, j) => j \in FileIno /\ (m = n <=> j = i)
  <2>1. Lists(n, i)
    BY <1>2 DEF Lists, ListsIn
  <2> QED BY <2>1, Listing
<1>4. \A t \in Used(inodes, blk) : t # s => /\ EntryAt(inodes, blk, t).name # n
                                            /\ EntryAt(inodes, blk, t).ino # i
  BY <1>2, EntriesRead DEF DirHolds
<1>5. /\ \A j : ~ListsIn(inodes', blk', n, j)
      /\ \A m, j : m # n => (ListsIn(inodes', blk', m, j) <=> ListsIn(inodes, blk, m, j))
  BY <1>2, <1>4 DEF ListsIn
<1>6. seen[n].exists
  <2>1. Shows(n, seen[n])
    BY DEF HistoryInv, OpenInv, CallOK, OthersSeen
  <2>2. seen[n] = FileAt(i)
    BY <1>3, <2>1, Listing
  <2>3. seen[n] = Whole(inodes[i].size, FileAt(i).cells)
    BY <2>2 DEF FileAt, FileOf, Whole
  <2> QED BY <2>3, WholeFields
<1>7. ASSUME NEW m \in Names, NEW g, m # n, Shows(m, g)
      PROVE  Shows(m, g)'
  <2>1. ASSUME NEW j \in FileIno, j # i
        PROVE  FileAt(j)' = FileAt(j)
    <3>1. ASSUME NEW lb \in LogicalBlocks
          PROVE  Sector(j, lb)' = Sector(j, lb)
      <4>1. DataSite(j, lb) \in Site /\ DataSite(j, lb) \notin Owned(i)
        BY <2>1, Sites, Ranges DEF Owned, DataSite
      <4>2. BlockMap'[DataSite(j, lb)] = BlockMap[DataSite(j, lb)]
        BY <4>1 DEF CutAt
      <4> QED BY <4>2, SectorKept
    <3> QED BY <1>1, <2>1, <3>1, CellsSame, FileSame
  <2>2. \A j \in FileIno : /\ Lists(m, j)' <=> Lists(m, j)
                           /\ Lists(m, j) => FileAt(j)' = FileAt(j)
    BY <1>3, <1>5, <1>7, <2>1 DEF Lists
  <2> QED BY <1>7, <2>2, ShowsKept
<1>8. Shows(n, Flat!Absent)'
  BY <1>5 DEF Shows, ShowsIn
<1>9. Settled'
  <2>1. unsettled' = unsettled \union {n}
    BY DEF Starts, Request
  <2>2. ASSUME NEW t \in Used(inodes', blk')
        PROVE  /\ t \in Used(inodes, blk)
               /\ EntryAt(inodes', blk', t) = EntryAt(inodes, blk, t)
               /\ inodes'[EntryAt(inodes, blk, t).ino]
                    = inodes[EntryAt(inodes, blk, t).ino]
    <3>1. t \in Used(inodes, blk) /\ t # s
      BY <1>2
    <3>2. EntryAt(inodes, blk, t).ino \in FileIno
      BY <3>1, EntriesRead DEF DirHolds
    <3> QED BY <1>1, <1>2, <1>4, <3>1, <3>2
  <2>3. Settled
    BY DEF HistoryInv, OpenInv
  <2> QED BY <1>1, <2>1, <2>2, <2>3, SettledStays
<1>10. Shows(n, IF "unlink" = "create" THEN Flat!Empty ELSE Flat!Absent)'
  BY <1>8
<1> QED BY <1>6, <1>7, <1>9, <1>10, SaveStarts

\* A directory entry is written beside the contents of files.
LEMMA EntryBeside ==
  ASSUME TypeInv, LiveInv, pc = "idle", NEW s \in DirSlots(inodes), NEW e,
         PutEntry(s, e)
  PROVE  \E t, c : Beside(t) /\ write_block(t, c)
<1>1. s[1] \in DirectIdx /\ 0 \in Ino /\ BlockMap = Map(inodes, blk)
  BY Ranges, TreeIs DEF DirSlots
<1>2. BlockMap[DirectSite(0, s[1])] = inodes[0].direct[s[1]]
  BY <1>1, MapKinds
<1>3. DirectSite(0, s[1]) \in Site /\ DirectSite(0, s[1])[1] = 0
  BY <1>1, KindsAreSites DEF DirectSite, DataSite
<1>4. Beside(inodes[0].direct[s[1]])
  BY <1>2, <1>3, Besides
<1> QED BY <1>4 DEF PutEntry

\* denyfs_vol_create as a whole.
LEMMA HistoryCreate ==
  ASSUME TypeInv, LiveInv, TypeInv', DirHolds, HistoryInv, Look,
         "create" \notin FaultyCalls \/ DirectBlocks = 1, NEW n \in Names,
         denyfs_vol_create(n), Starts(Request("create", n, 0, <<>>, 0))
  PROVE  Follows
<1>1. pc = "idle" /\ LiveInv' /\ DirHolds'
  BY LiveCreate, DirCreate DEF denyfs_vol_create
<1>2. ASSUME NEW r, Refuse(r)
      PROVE  Follows
  <2>1. pc' = "idle" /\ UNCHANGED <<inodes, dinodes, blk>>
    BY <1>2 DEF Refuse, Return, disk
  <2>2. UNCHANGED <<call, unsettled>>
    BY <2>1 DEF Starts
  <2>3. BlockMap' = BlockMap
    BY <1>1, <2>1, TreeIs
  <2>4. SameSectors
    BY <2>1, <2>3 DEF SameSectors, Sector
  <2>5. SameDir
    BY <2>1, DirQuiet
  <2> QED BY <1>1, <2>1, <2>2, <2>4, <2>5, CallRefused
<1>3. ASSUME NEW i \in FileIno, LookupIs(n, ENOENT), FirstFreeInode(i),
             CreateInSlot(n, i)
      PROVE  Follows
  <2>1. BlockMap' = BlockMap /\ UNCHANGED dinodes
    BY <1>1, <1>3, LiveCreateInSlot DEF CreateInSlot
  <2>2. CASE pc' = "idle" /\ SameDir /\ UNCHANGED blk
             /\ \A j \in FileIno : inodes'[j] = inodes[j]
    <3>1. UNCHANGED <<call, unsettled>>
      BY <2>2 DEF Starts
    <3>2. SameSectors
      BY <2>1, <2>2 DEF SameSectors, Sector
    <3> QED BY <1>1, <2>1, <2>2, <3>1, <3>2, CallRefused
  <2>3. CASE pc' = "flush" /\ Created(n, i)
             /\ \E s \in DirSlots(inodes) : PutEntry(s, NewEntry(i, n))
    <3>1. op'.call = "create" /\ ret' = "busy"
      BY <1>3, <2>3 DEF CreateInSlot, Return, StartCreateFlush, StartFlush, NoOp
    <3>2. \E t, c : Beside(t) /\ write_block(t, c)
      BY <1>1, <2>3, EntryBeside
    <3> QED BY <1>1, <1>3, <2>1, <2>3, <3>1, <3>2, HistoryCreated
  <2> QED BY <1>1, <1>3, <2>2, <2>3, DirCreateInSlot
<1>4. ASSUME NEW i \in FileIno, NEW b \in DataBlocks, LookupIs(n, ENOENT),
             FirstFreeInode(i), inodes[0].block_count < DirectBlocks,
             CreateInNewBlock(n, i, b)
      PROVE  Follows
  <2>1. /\ Created(n, i) /\ pc' = "flush" /\ alloc_block(b)
        /\ write_block(b, DirBlock(FirstEntry(i, n)))
    BY <1>1, <1>4, DirCreateInNewBlock
  <2>2. op'.call = "create" /\ ret' = "busy" /\ UNCHANGED dinodes
    BY <1>4, <2>1 DEF CreateInNewBlock, Return, StartCreateFlush, StartFlush, NoOp
  <2>3. \A s \in Site : s \notin Owned(0) => BlockMap'[s] = BlockMap[s]
    BY <1>1, <1>4, LiveCreateInNewBlock
  <2>4. Beside(b)
    BY <2>1, FreshBlock, Besides DEF alloc_block, LiveInv
  <2>5. \E t, c : Beside(t) /\ write_block(t, c)
    BY <2>1, <2>4
  <2> QED BY <1>1, <1>4, <2>1, <2>2, <2>3, <2>5, HistoryCreated
<1> QED BY <1>2, <1>3, <1>4 DEF denyfs_vol_create

\* denyfs_vol_unlink as a whole.
LEMMA HistoryUnlink ==
  ASSUME TypeInv, LiveInv, TypeInv', DirHolds, HistoryInv, Look, NEW n \in Names,
         denyfs_vol_unlink(n), Starts(Request("unlink", n, 0, <<>>, 0))
  PROVE  Follows
<1>1. pc = "idle" /\ LiveInv' /\ DirHolds'
  BY LiveUnlink, DirUnlink DEF denyfs_vol_unlink
<1>2. CASE UNCHANGED <<inodes, blk, dinodes>> /\ pc' = "idle"
  <2>1. UNCHANGED <<call, unsettled>>
    BY <1>2 DEF Starts
  <2>2. BlockMap' = BlockMap
    BY <1>1, <1>2, TreeIs
  <2>3. SameSectors
    BY <1>2, <2>2 DEF SameSectors, Sector
  <2>4. SameDir
    BY <1>2, DirQuiet
  <2> QED BY <1>1, <1>2, <2>1, <2>3, <2>4, CallRefused
<1>3. ASSUME NEW i \in FileIno, NEW s \in DirSlots(inodes), LookupIs(n, i),
             IsEntryOf(inodes, blk, n, s), PutEntry(s, FreeEntry), free_inode(i),
             UNCHANGED dinodes
      PROVE  Follows
  <2>1. Removed(n, i)
    BY <1>1, <1>3, DirRemove
  <2>2. /\ CutAt(BlockMap, BlockMap', Owned(i))
        /\ StartFlush([NoOp EXCEPT !.call = "unlink", !.ino = i])
    BY <1>1, <1>3, UnlinkCuts
  <2>3. pc' = "flush" /\ ret' = "busy" /\ op'.call = "unlink"
    BY <2>2 DEF StartFlush, NoOp
  <2>4. \E t, c : Beside(t) /\ write_block(t, c)
    BY <1>1, <1>3, EntryBeside
  <2> QED BY <1>1, <1>3, <2>1, <2>2, <2>3, <2>4, HistoryRemoved
<1> QED BY <1>2, <1>3 DEF denyfs_vol_unlink, NotFound, Refuse, Return, disk,
        WriteFails

-----------------------------------------------------------------------------
(***************************************************************************)
(* What a container shows after a crash.                                   *)
(***************************************************************************)
\* A file that is settled is read from the container as from the volume.
LEMMA ImageShows ==
  ASSUME TypeInv, LiveInv, DirHolds, NEW U, Saved(dinodes, inodes, blk, U),
         ValidImage(dsb, dbitmap, dinodes, blk), NEW n \in Names \ U, NEW g,
         Shows(n, g), pc = "children" => ~Lists(n, op.ino)
  PROVE  FileIn(dbitmap, dinodes, blk, n) = g
<1> DEFINE f == Map(dinodes, blk)
<1>1. DirectoryValid(dinodes, blk) /\ Sound(dbitmap, f)
  <2>1. /\ DirectoryValid(dinodes, blk)
        /\ Claimed(dinodes, blk) \subseteq dbitmap \intersect DataBlocks
    BY DEF ValidImage, Consistent, ClaimsValid
  <2>2. Img(f) \subseteq dbitmap \intersect DataBlocks
    BY <2>1, ClaimedIs
  <2>3. DOMAIN f = Site
    BY DEF Map
  <2> HIDE DEF f
  <2> QED BY <2>1, <2>2, <2>3 DEF Img, Sound, Readable
<1>2. ASSUME NEW s \in Used(dinodes, blk)
      PROVE  /\ s \in Used(inodes, blk)
             /\ EntryAt(inodes, blk, s) = EntryAt(dinodes, blk, s)
  <2>1. dinodes[0].direct[s[1]] # Invalid /\ s \in DirectIdx \X DirIdx
    BY DEF Used, DirSlots
  <2>2. dinodes[0].direct[s[1]] = inodes[0].direct[s[1]]
    BY <2>1 DEF Saved
  <2> QED BY <2>1, <2>2 DEF Used, DirSlots, EntryAt
<1>3. ASSUME NEW s \in Used(inodes, blk), EntryAt(inodes, blk, s).name = n
      PROVE  /\ s \in Used(dinodes, blk)
             /\ EntryAt(inodes, blk, s) = EntryAt(dinodes, blk, s)
             /\ dinodes[EntryAt(inodes, blk, s).ino]
                  = inodes[EntryAt(inodes, blk, s).ino]
  <2>1. /\ dinodes[0].direct[s[1]] # Invalid /\ s \in DirectIdx \X DirIdx
        /\ dinodes[EntryAt(inodes, blk, s).ino]
             = inodes[EntryAt(inodes, blk, s).ino]
    BY <1>3 DEF Saved, Used, DirSlots
  <2>2. dinodes[0].direct[s[1]] = inodes[0].direct[s[1]]
    BY <2>1 DEF Saved
  <2> QED BY <2>1, <2>2 DEF Used, DirSlots, EntryAt
<1>4. \A i : ListsIn(dinodes, blk, n, i) <=> Lists(n, i)
  BY <1>2, <1>3 DEF ListsIn, Lists
<1>5. ASSUME NEW i \in FileIno, Lists(n, i)
      PROVE  FileOf(dinodes, f, blk, i) = FileAt(i)
  <2>1. dinodes[i] = inodes[i] /\ i \in Ino
    BY <1>3, <1>5, Ranges DEF Lists, ListsIn
  <2>2. ASSUME NEW lb \in LogicalBlocks
        PROVE  f[DataSite(i, lb)] = BlockMap[DataSite(i, lb)]
    <3>1. f[DataSite(i, lb)] = Map(inodes, blk)[DataSite(i, lb)]
      BY <2>1, MapAt
    <3>2. CASE pc # "children"
      BY <3>1, <3>2, TreeIs
    <3>3. CASE pc = "children"
      <4>1. /\ op.ino \in Ino /\ Once(Map(inodes, Tree)) /\ i # op.ino
            /\ BlockMap = Map(inodes, Tree) /\ node = inodes[op.ino]
            /\ \A u : u # node.double => AsPointers(Tree, u) = AsPointers(blk, u)
        BY <1>5, <3>3, ChildrenKnown
      <4>2. OthersSame(inodes, inodes, op.ino) /\ OnlyAt(Tree, blk, node.double)
        BY <4>1 DEF OthersSame, SamePointers, OnlyAt
      <4>3. /\ node.double = Map(inodes, Tree)[DoubleSite(op.ino)]
            /\ DoubleSite(op.ino) \in Site /\ DoubleSite(op.ino)[1] = op.ino
        BY <4>1, MapAt, Sites DEF DoubleSite
      <4>4. Agree(Map(inodes, Tree), Map(inodes, blk), i)
        BY <2>1, <4>1, <4>2, <4>3, OthersAgree
      <4>5. DataSite(i, lb) \in Site /\ DataSite(i, lb)[1] = i
        BY <2>1, Sites DEF DataSite
      <4> QED BY <3>1, <4>1, <4>4, <4>5 DEF Agree
    <3> QED BY <3>2, <3>3
  <2>3. \A c \in Flat!Cells :
          SectorOf(f, blk, i, c \div SectorSize)
            = SectorOf(BlockMap, blk, i, c \div SectorSize)
    BY <2>2, CellPlace DEF SectorOf
  <2> HIDE DEF f
  <2> QED BY <2>1, <2>3 DEF FileOf, FileAt
<1>6. ShowsIn(dinodes, f, blk, n, g)
  BY <1>4, <1>5 DEF Shows, ShowsIn, Lists, FileAt
<1> QED BY <1>1, <1>6, FileRead

\* A container left in the middle of a call, or between calls, recovers.
LEMMA CrashRecovers ==
  ASSUME TypeInv, LiveInv, DirHolds, HistoryInv, pc # "closed"
  PROVE  Recovers
<1> SUFFICES ASSUME ValidImage(dsb, dbitmap, dinodes, blk),
                    NEW n \in Names \ unsettled
             PROVE  FileIn(dbitmap, dinodes, blk, n) = seen[n]
  BY DEF Recovers
<1>1. OpenInv /\ Saved(dinodes, inodes, blk, unsettled)
  BY DEF HistoryInv, OpenInv, Settled
<1>2. call = Flat!NoCall \/ n # call.name
  BY <1>1 DEF OpenInv, CallOK
<1>3. Shows(n, seen[n])
  BY <1>1, <1>2 DEF OpenInv, OthersSeen
<1>4. pc = "children" => ~Lists(n, op.ino)
  <2>1. ASSUME pc = "children"
        PROVE  ~Lists(n, op.ino)
    <3>1. InTruncate
      BY <2>1 DEF InTruncate
    <3>2. /\ Lists(call.name, op.ino)
          /\ call = Request("truncate", call.name, 0, <<>>, op.size)
      BY <1>1, <3>1 DEF OpenInv, CallOK
    <3>3. call # Flat!NoCall
      <4>1. call.kind = "truncate"
        BY <3>2 DEF Request
      <4>2. Flat!NoCall.kind = "none"
        BY DEF Flat!NoCall
      <4> QED BY <4>1, <4>2
    <3> QED BY <1>2, <3>2, <3>3, Listing
  <2> QED BY <2>1
<1> QED BY <1>1, <1>3, <1>4, ImageShows

-----------------------------------------------------------------------------
(***************************************************************************)
(* Flushing, and how calls that flush end.                                 *)
(***************************************************************************)
\* A step that leaves inode table and data area alone shows what was shown.
LEMMA ShownSame ==
  ASSUME UNCHANGED <<inodes, blk>>, pc # "children", pc' # "children"
  PROVE  \A m, g : Shows(m, g)' <=> Shows(m, g)
<1>1. BlockMap = Map(inodes, blk) /\ BlockMap' = Map(inodes', blk')
  BY TreeIs
<1>2. BlockMap' = BlockMap
  BY <1>1
<1> QED BY <1>2 DEF Shows

\* Saving inodes keeps the settled files saved.
LEMMA SettledSaves ==
  ASSUME Settled, DirHolds, UNCHANGED <<inodes, blk, unsettled>>,
         \A i \in Ino : dinodes'[i] \in {dinodes[i], inodes[i]}
  PROVE  Settled'
<1>1. Saved(dinodes, inodes, blk, unsettled)
  BY DEF Settled
<1>2. 0 \in Ino
  BY Ranges
<1>3. \A s \in Used(inodes, blk) :
        EntryAt(inodes, blk, s).ino \in Ino /\ inodes[0].direct[s[1]] # Invalid
  <2>1. \A s \in Used(inodes, blk) : EntryAt(inodes, blk, s).ino \in FileIno
    BY EntriesRead DEF DirHolds
  <2>2. \A s \in Used(inodes, blk) : inodes[0].direct[s[1]] # Invalid
    BY DEF Used, DirSlots
  <2> QED BY <2>1, <2>2, Ranges
<1>4. Saved(dinodes', inodes, blk, unsettled)
  BY <1>1, <1>2, <1>3 DEF Saved
<1> QED BY <1>4 DEF Settled

\* A table that is saved has every file.
LEMMA AllSaved ==
  ASSUME NEW I, NEW B
  PROVE  Saved(I, I, B, {})
BY DEF Saved, Used, DirSlots

\* A flush that starts or goes on.
LEMMA FlushGoes ==
  ASSUME HistoryInv, DirHolds, Look, pc \in {"idle", "flush"}, pc' = "flush",
         ret' = "busy", UNCHANGED <<inodes, blk, call, unsettled>>,
         \A i \in Ino : dinodes'[i] \in {dinodes[i], inodes[i]},
         IF pc = "idle" THEN op'.call = "destroy" ELSE op'.call = op.call
  PROVE  Follows
<1>1. OpenInv /\ seen \in [Names -> Flat!File] /\ seen' = seen
  BY DEF HistoryInv, Look
<1>2. pc = "idle" => call = Flat!NoCall
  BY <1>1 DEF OpenInv, CallOK
<1>3. PICK v : v = seen
  OBVIOUS
<1>4. PICK c : c = call
  OBVIOUS
<1>5. \A m, g : Shows(m, g)' <=> Shows(m, g)
  BY ShownSame
<1>6. OthersSeen'
  <2>1. \A m \in Names : c = Flat!NoCall \/ m # c.name => Shows(m, v[m])
    BY <1>1, <1>3, <1>4 DEF OpenInv, OthersSeen
  <2>2. \A m \in Names : c = Flat!NoCall \/ m # c.name =>
          ShowsIn(inodes', BlockMap', blk', m, v[m])
    BY <1>5, <2>1 DEF Shows
  <2> QED BY <1>1, <1>3, <1>4, <2>2 DEF OthersSeen, Shows
<1>7. Saving'
  <2>1. c # Flat!NoCall => Shows(c.name, Flat!Effect(c, v[c.name]))
    BY <1>1, <1>2, <1>3, <1>4 DEF OpenInv, Saving, Was
  <2>2. c # Flat!NoCall =>
          ShowsIn(inodes', BlockMap', blk', c.name, Flat!Effect(c, v[c.name]))
    BY <1>5, <2>1 DEF Shows
  <2> QED BY <1>1, <1>3, <1>4, <2>2 DEF Saving, Shows, Was
<1>8. CallOK'
  <2>1. ~InWrite' /\ ~InTruncate'
    BY DEF InWrite, InTruncate
  <2>2. IF op'.call = "destroy" THEN call = Flat!NoCall
        ELSE call # Flat!NoCall /\ call.kind = op'.call
    BY <1>1, <1>2 DEF OpenInv, CallOK
  <2>3. call # Flat!NoCall =>
          /\ call.kind \in {"create", "unlink", "write", "truncate"}
          /\ call.name \in Names /\ call.name \in unsettled
    BY <1>1 DEF OpenInv, CallOK
  <2> QED BY <2>1, <2>2, <2>3 DEF CallOK
<1>9. Settled'
  BY <1>1, SettledSaves DEF OpenInv
<1>10. Zeroed' /\ Stands' /\ WrittenSoFar' /\ GrowsOn' /\ ShrunkSoFar'
  BY OthersIdle
<1>11. HistoryInv'
  BY <1>1, <1>6, <1>7, <1>8, <1>9, <1>10 DEF HistoryInv, OpenInv
<1> QED BY <1>1, <1>11 DEF Follows, Flat!vars

\* Starting to unmount, and saving a block.
LEMMA HistoryFlush ==
  ASSUME TypeInv, DirHolds, HistoryInv, Look,
         \/ denyfs_fuse_destroy /\ UNCHANGED <<call, unsettled>>
         \/ FlushBlock /\ HStep
  PROVE  Follows
<1>1. CASE denyfs_fuse_destroy /\ UNCHANGED <<call, unsettled>>
  <2>1. /\ pc = "idle" /\ pc' = "flush" /\ ret' = "busy"
        /\ UNCHANGED <<inodes, blk, dinodes>>
    BY <1>1 DEF denyfs_fuse_destroy, StartFlush, disk
  <2>2. op'.call = "destroy"
    BY <1>1 DEF denyfs_fuse_destroy, StartFlush, NoOp
  <2> QED BY <1>1, <2>1, <2>2, FlushGoes
<1>2. CASE FlushBlock /\ HStep
  <2>1. /\ pc = "flush" /\ pc' = "flush" /\ ret' = ret
        /\ UNCHANGED <<inodes, blk>> /\ op' = [op EXCEPT !.cur = NextFlushBlock]
    BY <1>2 DEF FlushBlock
  <2>2. ret = "busy"
    BY <2>1 DEF HistoryInv, OpenInv, CallOK
  <2>3. op'.call = op.call
    <3>1. op \in OpType
      BY TypeParts DEF ControlOK
    <3> QED BY <2>1, <3>1 DEF OpType
  <2>4. \A i \in Ino : dinodes'[i] \in {dinodes[i], inodes[i]}
    BY <1>2 DEF FlushBlock, FlushSuperblock, FlushBitmapSector, FlushInodeSector
  <2>5. UNCHANGED <<call, unsettled>>
    BY <1>2, <2>1 DEF HStep
  <2> QED BY <2>1, <2>2, <2>3, <2>4, <2>5, FlushGoes
<1> QED BY <1>1, <1>2

\* A call returns after its flush: its file is shown with the effect of the call.
LEMMA FlushReturns ==
  ASSUME TypeInv', LiveInv', DirHolds', HistoryInv, Look, pc = "flush",
         pc' = "idle", op.call # "destroy", UNCHANGED <<inodes, blk>>,
         call' = Flat!NoCall, Settled'
  PROVE  /\ HistoryInv' /\ call # Flat!NoCall /\ UNCHANGED (pc # "closed")
         /\ Flat!Apply(Flat!Effect(call, seen[call.name]))
<1>1. OpenInv /\ seen \in [Names -> Flat!File]
  BY DEF HistoryInv
<1>2. call # Flat!NoCall /\ call.name \in Names
  BY <1>1 DEF OpenInv, CallOK
<1>3. PICK h : h = Flat!Effect(call, seen[call.name])
  OBVIOUS
<1>4. PICK n \in Names : n = call.name
  BY <1>2
<1>5. \A m, g : Shows(m, g)' <=> Shows(m, g)
  BY ShownSame
<1>6. Shows(n, h)
  BY <1>1, <1>2, <1>3, <1>4 DEF OpenInv, Saving, Was
<1>7. Shows(n, h)'
  BY <1>5, <1>6
<1>8. \A m \in Names : m # n => Shows(m, seen[m])
  BY <1>1, <1>4 DEF OpenInv, OthersSeen
<1>9. seen' = [seen EXCEPT ![n] = h] /\ HistoryInv'
  BY <1>1, <1>5, <1>7, <1>8, CallEnds
<1> QED BY <1>2, <1>3, <1>4, <1>9 DEF Flat!Apply

\* The volume is closed and the container left as it was.
LEMMA Closes ==
  ASSUME HistoryInv, Recovers, pc' = "closed", Look, UNCHANGED disk,
         call' = Flat!NoCall, unsettled' = unsettled
  PROVE  HistoryInv' /\ seen' = seen
<1>1. seen' = seen
  BY DEF Look
<1>2. UNCHANGED <<dsb, dbitmap, dinodes, blk>>
  BY DEF disk
<1>3. Recovers'
  BY <1>1, <1>2 DEF Recovers
<1> QED BY <1>1, <1>3 DEF HistoryInv

\* A flush that fails.
LEMMA HistoryFlushFails ==
  ASSUME TypeInv, TypeInv', LiveInv, pc' # "closed" => LiveInv', DirHolds,
         HistoryInv, HStep, Look, FlushFails
  PROVE  Follows
<1>1. /\ pc = "flush" /\ FlushEnds("EIO") /\ UNCHANGED <<dsb, dbitmap, dinodes, blk>>
  BY DEF FlushFails, WriteFails
<1>2. CASE op.call # "destroy"
  <2>1. pc' = "idle" /\ ret' = "EIO" /\ UNCHANGED <<inodes, blk>>
    BY <1>1, <1>2 DEF FlushEnds, Return
  <2>2. call' = Flat!NoCall /\ unsettled' = unsettled
    BY <2>1 DEF HStep
  <2>3. DirHolds'
    BY <2>1, DirQuiet
  <2>4. Settled'
    <3>1. Settled
      BY <1>1 DEF HistoryInv, OpenInv
    <3> QED BY <1>1, <2>1, <2>2, <3>1, SettledSaves
  <2>5. /\ HistoryInv' /\ call # Flat!NoCall /\ UNCHANGED (pc # "closed")
        /\ Flat!Apply(Flat!Effect(call, seen[call.name]))
    BY <1>1, <1>2, <2>1, <2>2, <2>3, <2>4, FlushReturns
  <2>6. Flat!Fail
    BY <2>2, <2>5 DEF Flat!Fail
  <2> QED BY <2>5, <2>6 DEF Follows, Flat!Next
<1>3. CASE op.call = "destroy"
  <2>1. pc' = "closed" /\ ret' = "EIO"
    BY <1>1, <1>3 DEF FlushEnds, denyfs_vol_close
  <2>2. call' = Flat!NoCall /\ unsettled' = unsettled
    BY <2>1 DEF HStep
  <2>3. call = Flat!NoCall
    BY <1>1, <1>3 DEF HistoryInv, OpenInv, CallOK
  <2>4. Recovers
    BY <1>1, CrashRecovers
  <2>5. HistoryInv' /\ seen' = seen
    BY <1>1, <2>1, <2>2, <2>4, Closes DEF disk
  <2>6. Flat!Unmount
    BY <1>1, <2>1, <2>2, <2>3, <2>5 DEF Flat!Unmount
  <2> QED BY <2>5, <2>6 DEF Follows, Flat!Next
<1> QED BY <1>2, <1>3

\* A flush that succeeds has settled everything.
LEMMA HistoryFlushDone ==
  ASSUME TypeInv, TypeInv', LiveInv, pc' # "closed" => LiveInv', SaveInv, DirHolds,
         HistoryInv, HStep, Look, FlushDone
  PROVE  Follows
<1>1. pc = "flush" /\ op.cur = DataStart /\ FlushEnds("ok") /\ UNCHANGED disk
  BY DEF FlushDone
<1>2. UNCHANGED <<dsb, dbitmap, dinodes, blk>>
  BY <1>1 DEF disk
<1>3. dinodes = inodes
  BY <1>1, AllPassed DEF MetadataSaved
<1>4. CASE op.call # "destroy"
  <2>1. pc' = "idle" /\ ret' = "ok" /\ UNCHANGED <<inodes, blk>>
    BY <1>1, <1>2, <1>4 DEF FlushEnds, Return
  <2>2. call' = Flat!NoCall /\ unsettled' = {}
    BY <1>1, <2>1 DEF HStep
  <2>3. DirHolds'
    BY <2>1, DirQuiet
  <2>4. Settled'
    <3>1. Saved(inodes', inodes', blk', {})
      BY AllSaved
    <3>2. dinodes' = inodes'
      BY <1>2, <1>3, <2>1
    <3> QED BY <2>2, <3>1, <3>2 DEF Settled
  <2>5. /\ HistoryInv' /\ call # Flat!NoCall /\ UNCHANGED (pc # "closed")
        /\ Flat!Apply(Flat!Effect(call, seen[call.name]))
    BY <1>1, <1>4, <2>1, <2>2, <2>3, <2>4, FlushReturns
  <2>6. Flat!Succeed
    BY <2>2, <2>5 DEF Flat!Succeed
  <2> QED BY <2>5, <2>6 DEF Follows, Flat!Next
<1>5. CASE op.call = "destroy"
  <2>1. pc' = "closed" /\ ret' = "ok"
    BY <1>1, <1>5 DEF FlushEnds, denyfs_vol_close
  <2>2. call' = Flat!NoCall /\ unsettled' = {} /\ seen' = seen
    BY <1>1, <2>1 DEF HStep, Look
  <2>3. OpenInv /\ call = Flat!NoCall
    BY <1>1, <1>5 DEF HistoryInv, OpenInv, CallOK
  <2>4. ASSUME ValidImage(dsb, dbitmap, dinodes, blk), NEW n \in Names
        PROVE  FileIn(dbitmap, dinodes, blk, n) = seen[n]
    <3>1. Saved(dinodes, inodes, blk, {})
      BY <1>3, AllSaved
    <3>2. Shows(n, seen[n])
      BY <2>3 DEF OpenInv, OthersSeen
    <3> QED BY <1>1, <2>4, <3>1, <3>2, ImageShows
  <2>5. Recovers'
    BY <1>2, <2>2, <2>4 DEF Recovers
  <2>6. HistoryInv'
    BY <2>1, <2>2, <2>5 DEF HistoryInv
  <2>7. Flat!Unmount
    BY <1>1, <2>1, <2>2, <2>3 DEF Flat!Unmount
  <2> QED BY <2>6, <2>7 DEF Follows, Flat!Next
<1> QED BY <1>4, <1>5

-----------------------------------------------------------------------------
(***************************************************************************)
(* Crashes, and opening a container.                                       *)
(***************************************************************************)
\* A crash, in the middle of a call or between calls.
LEMMA HistoryCrash ==
  ASSUME TypeInv, LiveInv, DirHolds, HistoryInv, Look, Crash,
         call' = Flat!NoCall, UNCHANGED unsettled
  PROVE  Follows
<1>1. pc # "closed" /\ pc' = "closed" /\ UNCHANGED disk
  BY DEF Crash, denyfs_vol_close
<1>2. Recovers
  BY <1>1, CrashRecovers
<1>3. HistoryInv' /\ seen' = seen
  BY <1>1, <1>2, Closes
<1>4. Flat!Crash
  BY <1>1, <1>3 DEF Flat!Crash
<1> QED BY <1>3, <1>4 DEF Follows, Flat!Next

\* A container that opens shows the settled files; one that does not stays
\* closed.
LEMMA HistoryOpen ==
  ASSUME TypeInv', AllocInv', DirInv', HistoryInv, Look, denyfs_vol_open,
         unsettled' = IF pc' = "idle" THEN {} ELSE unsettled, UNCHANGED call
  PROVE  Follows
<1>1. pc = "closed" /\ UNCHANGED <<dsb, dbitmap, dinodes, blk>>
  BY DEF denyfs_vol_open, disk
<1>2. call = Flat!NoCall /\ Recovers
  BY <1>1 DEF HistoryInv
<1>3. CASE pc' = "idle"
  <2>1. /\ ValidImage(dsb, dbitmap, dinodes, blk)
        /\ bitmap' = dbitmap /\ inodes' = dinodes
    BY <1>1, <1>3 DEF denyfs_vol_open
  <2>2. LiveInv' /\ DirHolds' /\ MapExact'
    BY <1>3 DEF AllocInv, DirInv, LiveInv
  <2>3. Settled'
    <3>1. Saved(inodes', inodes', blk', {})
      BY AllSaved
    <3>2. dinodes' = inodes' /\ unsettled' = {}
      BY <1>1, <1>3, <2>1
    <3> QED BY <3>1, <3>2 DEF Settled
  <2>4. PICK g : g = [m \in Names |-> FileIn(bitmap', inodes', blk', m)]
    OBVIOUS
  <2>5. ASSUME NEW n \in Names PROVE Shows(n, g[n])'
    <3>1. g[n] = FileIn(bitmap', inodes', blk', n)
      BY <2>4
    <3>2. \A h : ShowsIn(inodes', BlockMap', blk', n, h)
                   <=> h = FileIn(bitmap', inodes', blk', n)
      BY <1>3, <2>2, Seen DEF Shows
    <3>3. ShowsIn(inodes', BlockMap', blk', n, g[n])
      BY <3>1, <3>2
    <3> QED BY <3>3 DEF Shows
  <2>6. Files(g)
    BY <2>4 DEF Files
  <2>7. seen' = g /\ HistoryInv'
    BY <1>2, <1>3, <2>2, <2>3, <2>5, <2>6, AtIdle
  <2>8. \A n \in Names \ unsettled : seen'[n] = seen[n]
    BY <1>1, <1>2, <2>1, <2>4, <2>7 DEF Recovers
  <2>9. seen' \in [Names -> Flat!File]
    BY <2>7 DEF HistoryInv
  <2>10. Flat!Mount
    BY <1>1, <1>3, <2>8, <2>9 DEF Flat!Mount
  <2> QED BY <2>7, <2>10 DEF Follows, Flat!Next
<1>4. CASE pc' # "idle"
  <2>1. pc' = "closed" /\ unsettled' = unsettled
    BY <1>1, <1>4 DEF denyfs_vol_open
  <2>2. HistoryInv' /\ seen' = seen
    BY <1>1, <1>2, <2>1, Closes DEF disk
  <2> QED BY <1>1, <2>1, <2>2 DEF Follows, Flat!vars
<1> QED BY <1>3, <1>4

\* Nothing happens.
LEMMA HistoryQuiet == HistoryInv /\ UNCHANGED hvars => HistoryInv'
<1> SUFFICES ASSUME HistoryInv, UNCHANGED hvars
             PROVE  HistoryInv'
  OBVIOUS
<1>1. /\ UNCHANGED <<dsb, dbitmap, dinodes, blk, inodes, pc, op, ret>>
      /\ UNCHANGED <<seen, unsettled, call>>
  BY DEF hvars, vars
<1>2. BlockMap' = BlockMap
  BY <1>1 DEF BlockMap, Tree, node
<1>3. /\ \A m, g : Shows(m, g)' <=> Shows(m, g)
      /\ \A m, i : Lists(m, i)' <=> Lists(m, i)
      /\ \A i, lb : Sector(i, lb)' = Sector(i, lb)
  BY <1>1, <1>2 DEF Shows, Lists, Sector
<1>4. InWrite' = InWrite /\ InTruncate' = InTruncate /\ node' = node /\ Was' = Was
  BY <1>1 DEF InWrite, InTruncate, node, Was
<1>5. CASE pc = "closed"
  BY <1>1, <1>5 DEF HistoryInv, Recovers
<1>6. CASE pc # "closed"
  <2>1. CallOK' /\ OthersSeen' /\ Settled' /\ Zeroed' /\ Stands' /\ Saving'
    <3>1. OpenInv
      BY <1>6 DEF HistoryInv
    <3>2. CallOK'
      BY <1>1, <1>3, <1>4, <3>1 DEF OpenInv, CallOK, Lists
    <3>3. OthersSeen' /\ Saving'
      BY <1>1, <1>2, <1>4, <3>1 DEF OpenInv, OthersSeen, Saving, Shows
    <3>4. Settled' /\ Zeroed' /\ Stands'
      BY <1>1, <1>4, <3>1 DEF OpenInv, Settled, Zeroed, InTable, Stands
    <3> QED BY <3>2, <3>3, <3>4
  <2>2. WrittenSoFar' /\ GrowsOn' /\ ShrunkSoFar'
    BY <1>1, <1>2, <1>4, <1>6
       DEF HistoryInv, OpenInv, WrittenSoFar, GrowsOn, ShrunkSoFar, Cell, Sector,
           NewBlocks, Passed
  <2> QED BY <1>1, <1>6, <2>1, <2>2 DEF HistoryInv, OpenInv
<1> QED BY <1>5, <1>6

-----------------------------------------------------------------------------
(***************************************************************************)
(* Every step, and the theorem.                                            *)
(***************************************************************************)
\* A handler goes on.
LEMMA HistoryHandler ==
  ASSUME TypeInv, TypeInv', InTables, LiveInv, pc' # "closed" => LiveInv', SaveInv,
         DirHolds, HistoryInv, HStep, Look, "truncate" \notin FaultyCalls
  PROVE  Follows
<1>1. CASE \/ WriteMapped \/ AllocateData \/ FindRoot \/ FindTable
           \/ WriteLeaf \/ LinkChild
  BY <1>1, HistorySearch
<1>2. CASE PutChunk \/ WriteDone
  BY <1>2, HistoryPut, HistoryDone
<1>3. CASE ShrinkDirect \/ ReadRoots \/ ShrinkChild
  BY <1>3, HistoryDirect, HistoryRoots, HistoryChild
<1>4. CASE ShrinkRoot \/ Resize
  BY <1>4, HistoryRoot, HistoryResize
<1>5. CASE FlushBlock
  BY <1>5, HistoryFlush
<1>6. CASE FlushFails \/ FlushDone
  BY <1>6, HistoryFlushFails, HistoryFlushDone
<1> QED BY <1>1, <1>2, <1>3, <1>4, <1>5, <1>6 DEF HStep, Step

\* A call is made.
LEMMA HistoryCall ==
  ASSUME TypeInv, TypeInv', LiveInv, DirHolds, HistoryInv, HCall, Look,
         "truncate" \notin FaultyCalls,
         "create" \notin FaultyCalls \/ DirectBlocks = 1
  PROVE  Follows
<1>1. ASSUME NEW n \in Names,
             \/ denyfs_vol_create(n) /\ Starts(Request("create", n, 0, <<>>, 0))
             \/ denyfs_vol_unlink(n) /\ Starts(Request("unlink", n, 0, <<>>, 0))
      PROVE  Follows
  BY <1>1, HistoryCreate, HistoryUnlink
<1>2. ASSUME NEW n \in Names, NEW off \in Offsets, NEW buf \in Payloads,
             denyfs_vol_write(n, off, buf), Starts(Request("write", n, off, buf, 0))
      PROVE  Follows
  BY <1>2, HistoryStartWrite
<1>3. ASSUME NEW n \in Names, NEW size \in TruncSizes,
             denyfs_vol_truncate(n, size),
             Starts(Request("truncate", n, 0, <<>>, size))
      PROVE  Follows
  BY <1>3, HistoryStartTruncate
<1>4. CASE denyfs_fuse_destroy /\ UNCHANGED <<call, unsettled>>
  BY <1>4, HistoryFlush
<1> QED BY <1>1, <1>2, <1>3, <1>4 DEF HCall

\* Every step of a volume is one of FlatFiles, or none.
LEMMA HistoryStep ==
  ASSUME TypeInv, TypeInv', InTables, AllocInv, AllocInv', DirInv, DirInv', SaveInv,
         HistoryInv, [HNext]_hvars, "truncate" \notin FaultyCalls,
         "create" \notin FaultyCalls \/ DirectBlocks = 1
  PROVE  Follows
<1>1. /\ pc # "closed" => LiveInv /\ DirHolds
      /\ pc' # "closed" => LiveInv'
  BY DEF AllocInv, DirInv
<1>2. CASE HCall /\ Look
  <2>1. pc # "closed"
    BY <1>2 DEF HCall, denyfs_vol_create, denyfs_vol_unlink, denyfs_vol_write,
                denyfs_vol_truncate, denyfs_fuse_destroy
  <2> QED BY <1>1, <1>2, <2>1, HistoryCall
<1>3. CASE HStep /\ Look
  <2>1. pc # "closed"
    BY <1>3 DEF HStep, Step, WriteMapped, AllocateData, FindRoot, FindTable,
                WriteLeaf, LinkChild, PutChunk, WriteDone, ShrinkDirect, ReadRoots,
                ShrinkChild, ShrinkRoot, Resize, FlushBlock, FlushFails, FlushDone
  <2> QED BY <1>1, <1>3, <2>1, HistoryHandler
<1>4. CASE Crash /\ call' = Flat!NoCall /\ UNCHANGED unsettled /\ Look
  BY <1>1, <1>4, HistoryCrash DEF Crash
<1>5. CASE /\ denyfs_vol_open /\ UNCHANGED call /\ Look
           /\ unsettled' = IF pc' = "idle" THEN {} ELSE unsettled
  BY <1>5, HistoryOpen
<1>6. CASE UNCHANGED hvars
  BY <1>6, HistoryQuiet DEF Follows, Flat!vars, hvars, vars
<1> QED BY <1>2, <1>3, <1>4, <1>5, <1>6 DEF HNext

\* A formatted volume has no file.
LEMMA HistoryInit == HInit => HistoryInv /\ Flat!Init
<1> SUFFICES ASSUME HInit
             PROVE  HistoryInv /\ Flat!Init
  OBVIOUS
<1>1. /\ seen = [n \in Names |-> Flat!Absent] /\ unsettled = {}
      /\ call = Flat!NoCall /\ pc = "closed" /\ Init
  BY DEF HInit, Init
<1>2. DirectoryValid(dinodes, blk)
  <2>1. blk \in [DataBlocks -> Content]
    BY <1>1, TypeInit, TypeParts DEF DataOK
  <2>2. blk[DataStart] = DirBlock([i \in DirIdx |-> FreeEntry])
    BY <1>1, Ranges DEF Init
  <2>3. Consistent(TotalBlocks - DataStart - 1, MaxInodes - 1, FormattedBitmap,
                   FormattedInodes, blk)
    BY <2>1, <2>2, FormattedConsistent
  <2>4. DirectoryValid(FormattedInodes, blk)
    BY <2>3 DEF Consistent
  <2> QED BY <1>1, <2>4 DEF Init
<1>3. ASSUME NEW n \in Names
      PROVE  FileIn(dbitmap, dinodes, blk, n) = Flat!Absent
  <2>1. \A i \in FileIno : dinodes[i].type = "FREE"
    BY <1>1, Ranges DEF Init, FormattedInodes, EmptyInode, FileIno
  <2>2. denyfs_vol_lookup(dinodes, blk, n) \notin FileIno
    BY <1>2, <2>1, ListingFacts
  <2> QED BY <2>2 DEF FileIn
<1>4. Recovers
  BY <1>1, <1>3 DEF Recovers
<1>5. Flat!Absent \in Flat!File
  <2>1. 0 \in 0 .. MaxFileSize
    BY SizesAssumption
  <2>2. 0 \in DataByte
    BY ValuesAssumption DEF DataByte
  <2>3. Flat!Blank \in [Flat!Cells -> DataByte]
    BY <2>2 DEF Flat!Blank
  <2> QED BY <2>1, <2>3 DEF Flat!Absent, Flat!File
<1>6. HistoryInv
  BY <1>1, <1>4, <1>5 DEF HistoryInv
<1>7. Flat!Init
  BY <1>1 DEF Flat!Init
<1> QED BY <1>6, <1>7

\* What callers of denyfs_vol_create, denyfs_vol_unlink, denyfs_vol_write,
\* denyfs_vol_truncate and denyfs_vol_read may rely on.  Every file is a byte
\* array; a call acts on the file it names and on no other; one that succeeds
\* has its whole effect, one that fails has none, all of it or, for a write, a
\* prefix of its buffer.  A success is kept by every later unmount and crash,
\* and a container that opens after a crash shows as it was each file that no
\* call has worked on since the last success.  So holes, pointer tables, chunks,
\* reused blocks, the clearing of a cut tail and the order of the flush cannot
\* be told from outside.  Block writes of truncate must not fail, and those of
\* create only where a directory is one block.
THEOREM VolumeIsFlatFiles ==
  ASSUME "truncate" \notin FaultyCalls,
         "create" \notin FaultyCalls \/ DirectBlocks = 1
  PROVE  HSpec => ImplementsFlatFiles
<1> DEFINE Inv == /\ TypeInv /\ InTables /\ AllocInv /\ DirInv /\ SaveInv
                  /\ HistoryInv
<1>1. HInit => Inv /\ Flat!Init
  <2> SUFFICES ASSUME HInit PROVE Inv /\ Flat!Init
    OBVIOUS
  <2>1. Init
    BY DEF HInit
  <2>2. TypeInv /\ InTables /\ AllocInv /\ DirInv
    BY <2>1, TypeInit DEF Init, InTables, AllocInv, DirInv
  <2>3. SaveInv
    BY <2>1 DEF Init, SaveInv, DirtyCovers, SuperblockPassed, BitmapPassed,
                InodesPassed
  <2> QED BY <2>2, <2>3, HistoryInit
<1>2. Inv /\ [HNext]_hvars => Inv' /\ [Flat!Next]_(Flat!vars)
  <2> SUFFICES ASSUME Inv, [HNext]_hvars
               PROVE  Inv' /\ [Flat!Next]_(Flat!vars)
    OBVIOUS
  <2>1. [Next]_vars
    BY HistoryMoves
  <2>2. TypeInv' /\ InTables' /\ AllocInv' /\ DirInv' /\ SaveInv'
    BY <2>1, TypeStep, TablesStep, AllocStep, DirStep, SaveStep
  <2>3. Follows
    BY <2>2, HistoryStep
  <2> QED BY <2>2, <2>3 DEF Follows
<1> HIDE DEF Inv
<1> QED BY <1>1, <1>2, PTL DEF HSpec, ImplementsFlatFiles, Flat!Spec
=============================================================================
