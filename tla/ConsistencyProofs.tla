------------------------- MODULE ConsistencyProofs -------------------------
(***************************************************************************)
(* Everything the loader checks except end-of-file positions holds of a    *)
(* mounted volume between calls, and of the container after an unmount:    *)
(* the directory matches the inode table, block counts, counters and       *)
(* bitmap are exact, and no pointer table is empty.                        *)
(***************************************************************************)
EXTENDS AllocationProofs

-----------------------------------------------------------------------------
(***************************************************************************)
(* What the scan of a valid directory finds.                               *)
(***************************************************************************)
Used(I, B) == {s \in DirSlots(I) : EntryAt(I, B, s) # FreeEntry}

\* The places of a directory are ordered.
LEMMA SlotOrder ==
  ASSUME NEW I, NEW s \in DirSlots(I)
  PROVE  ~Before(s, s)
<1>1. s[1] \in Int /\ s[2] \in Int
  BY SizesAssumption DEF DirSlots, DirectIdx, DirIdx
<1> QED BY <1>1 DEF Before

\* Every entry of a valid directory can be read, and a used one names a file.
LEMMA EntriesRead ==
  ASSUME NEW I, NEW B, DirectoryValid(I, B)
  PROVE  /\ \A s \in DirSlots(I) :
              valid_dirent(EntryAt(I, B, s)) /\ Reached(I, B, s)
         /\ \A s \in Used(I, B) :
              /\ EntryAt(I, B, s).ino \in FileIno
              /\ EntryAt(I, B, s).name \in Names
              /\ I[EntryAt(I, B, s).ino].type = "FILE"
         /\ \A s, t \in Used(I, B) : s # t =>
              /\ EntryAt(I, B, s).ino # EntryAt(I, B, t).ino
              /\ EntryAt(I, B, s).name # EntryAt(I, B, t).name
         /\ \A i \in FileIno : I[i].type = "FILE" =>
              \E s \in Used(I, B) : EntryAt(I, B, s).ino = i
         /\ \A s \in DirSlots(I) :
              EntryAt(I, B, s).name \in Names => s \in Used(I, B)
<1>1. ASSUME NEW s \in DirSlots(I) PROVE valid_dirent(EntryAt(I, B, s))
  BY <1>1 DEF DirectoryValid, valid_dirent
<1>2. \A s \in DirSlots(I) : Reached(I, B, s)
  BY <1>1 DEF Reached
<1>3. ASSUME NEW s \in DirSlots(I), EntryAt(I, B, s).name \in Names
      PROVE  s \in Used(I, B)
  BY <1>3, ValuesAssumption DEF Used, FreeEntry
<1>4. ASSUME NEW s \in Used(I, B)
      PROVE  /\ EntryAt(I, B, s).ino \in FileIno
             /\ EntryAt(I, B, s).name \in Names
             /\ I[EntryAt(I, B, s).ino].type = "FILE"
  BY DEF DirectoryValid, valid_dirent, Used
<1>5. /\ \A s, t \in Used(I, B) : s # t =>
           /\ EntryAt(I, B, s).ino # EntryAt(I, B, t).ino
           /\ EntryAt(I, B, s).name # EntryAt(I, B, t).name
      /\ \A i \in FileIno : I[i].type = "FILE" =>
           \E s \in Used(I, B) : EntryAt(I, B, s).ino = i
  BY DEF DirectoryValid, Used
<1> QED BY <1>1, <1>2, <1>3, <1>4, <1>5

\* The entry of a name is the used slot with that name.
LEMMA EntryFound ==
  ASSUME NEW I, NEW B, DirectoryValid(I, B), NEW n \in Names, NEW s
  PROVE  IsEntryOf(I, B, n, s) <=> s \in Used(I, B) /\ EntryAt(I, B, s).name = n
<1>1. ASSUME IsEntryOf(I, B, n, s)
      PROVE  s \in Used(I, B) /\ EntryAt(I, B, s).name = n
  BY <1>1, EntriesRead DEF IsEntryOf
<1>2. ASSUME s \in Used(I, B), EntryAt(I, B, s).name = n
      PROVE  IsEntryOf(I, B, n, s)
  <2>1. s \in DirSlots(I) /\ Reached(I, B, s)
    BY <1>2, EntriesRead DEF Used
  <2>2. ASSUME NEW t \in DirSlots(I), Before(t, s) PROVE EntryAt(I, B, t).name # n
    <3>1. t # s
      BY <2>1, <2>2, SlotOrder
    <3> QED BY <1>2, <3>1, EntriesRead
  <2> QED BY <1>2, <2>1, <2>2 DEF IsEntryOf
<1> QED BY <1>1, <1>2

\* Lookup gives the inode of the entry with that name, or ENOENT.
LEMMA LookupFinds ==
  ASSUME NEW I, NEW B, DirectoryValid(I, B), NEW n \in Names
  PROVE  /\ \A s \in Used(I, B) : EntryAt(I, B, s).name = n =>
              denyfs_vol_lookup(I, B, n) = EntryAt(I, B, s).ino
         /\ denyfs_vol_lookup(I, B, n) = ENOENT =>
              \A s \in Used(I, B) : EntryAt(I, B, s).name # n
<1> DEFINE hits == {s \in DirSlots(I) : IsEntryOf(I, B, n, s)}
<1>1. ASSUME NEW s \in Used(I, B), EntryAt(I, B, s).name = n
      PROVE  denyfs_vol_lookup(I, B, n) = EntryAt(I, B, s).ino
  <2>1. hits = {s}
    <3>1. s \in hits
      BY <1>1, EntryFound DEF Used
    <3>2. \A t \in hits : t = s
      BY <1>1, EntryFound, EntriesRead
    <3> QED BY <3>1, <3>2
  <2>2. (CHOOSE t \in hits : TRUE) = s
    BY <2>1
  <2>3. hits # {}
    BY <2>1
  <2>4. denyfs_vol_lookup(I, B, n) = EntryAt(I, B, CHOOSE t \in hits : TRUE).ino
    BY <2>3 DEF denyfs_vol_lookup
  <2> QED BY <2>2, <2>4
<1>2. \A i \in FileIno : i # ENOENT
  BY DEF FileIno, ENOENT
<1>3. ASSUME denyfs_vol_lookup(I, B, n) = ENOENT,
             NEW s \in Used(I, B), EntryAt(I, B, s).name = n
      PROVE  FALSE
  BY <1>1, <1>2, <1>3, EntriesRead
<1> QED BY <1>1, <1>3

\* The listing of a valid directory is true.
LEMMA ValidListing ==
  ASSUME DirectoryValid(inodes, blk)
  PROVE  ListingTrue
<1>1. denyfs_vol_readdir(inodes, blk) \subseteq Used(inodes, blk)
  BY DEF denyfs_vol_readdir, Used
<1>2. \A s \in Used(inodes, blk) :
        /\ inodes[EntryAt(inodes, blk, s).ino].type = "FILE"
        /\ denyfs_vol_lookup(inodes, blk, EntryAt(inodes, blk, s).name)
             = EntryAt(inodes, blk, s).ino
  BY EntriesRead, LookupFinds
<1>3. \A s, t \in Used(inodes, blk) : s # t =>
        EntryAt(inodes, blk, s).ino # EntryAt(inodes, blk, t).ino
  BY EntriesRead
<1> QED BY <1>1, <1>2, <1>3 DEF ListingTrue

-----------------------------------------------------------------------------
(***************************************************************************)
(* The invariant, and the steps that leave the directory alone.            *)
(***************************************************************************)
DirHolds == /\ RootValid(inodes) /\ InodesValid(inodes)
            /\ DirectoryValid(inodes, blk)
DirInv == pc # "closed" => DirHolds

\* Block t is none of the directory's.
Spared(t) == \A k \in DirectIdx :
               inodes[0].direct[k] # Invalid => inodes[0].direct[k] # t

\* The inodes a step may leave behind.
SameFiles ==
  /\ inodes'[0] = inodes[0]
  /\ \A i \in FileIno : /\ inodes'[i].type = inodes[i].type
                        /\ inodes'[i] = inodes[i] \/ inodes'[i].type = "FILE"

\* The directory stays as it is.
SameDir ==
  /\ inodes'[0] = inodes[0]
  /\ Used(inodes', blk') = Used(inodes, blk)
  /\ \A s \in Used(inodes, blk) :
       EntryAt(inodes', blk', s) = EntryAt(inodes, blk, s)

\* Entries are where they were when the blocks of the directory are.
LEMMA SameEntries ==
  ASSUME inodes'[0] = inodes[0],
         \A k \in DirectIdx : inodes[0].direct[k] # Invalid =>
           AsDirents(blk', inodes[0].direct[k]) = AsDirents(blk, inodes[0].direct[k])
  PROVE  /\ DirSlots(inodes') = DirSlots(inodes)
         /\ \A s \in DirSlots(inodes) :
              EntryAt(inodes', blk', s) = EntryAt(inodes, blk, s)
         /\ Used(inodes', blk') = Used(inodes, blk)
<1>1. DirSlots(inodes') = DirSlots(inodes)
  BY DEF DirSlots
<1>2. ASSUME NEW s \in DirSlots(inodes)
      PROVE  EntryAt(inodes', blk', s) = EntryAt(inodes, blk, s)
  <2>1. s[1] \in DirectIdx /\ inodes[0].direct[s[1]] # Invalid
    BY DEF DirSlots
  <2> QED BY <2>1 DEF EntryAt
<1> QED BY <1>1, <1>2 DEF Used

\* A step that changes neither the directory nor which inodes are in use.
LEMMA DirKept ==
  ASSUME DirHolds, SameFiles,
         \A k \in DirectIdx : inodes[0].direct[k] # Invalid =>
           AsDirents(blk', inodes[0].direct[k]) = AsDirents(blk, inodes[0].direct[k])
  PROVE  DirHolds' /\ SameDir
<1>1. /\ DirSlots(inodes') = DirSlots(inodes)
      /\ \A s \in DirSlots(inodes) :
           EntryAt(inodes', blk', s) = EntryAt(inodes, blk, s)
      /\ Used(inodes', blk') = Used(inodes, blk)
  BY SameEntries DEF SameFiles
<1>2. RootValid(inodes')
  BY DEF DirHolds, RootValid, SameFiles
<1>3. InodesValid(inodes')
  BY DEF DirHolds, InodesValid, SameFiles
<1>4. DirectoryValid(inodes', blk')
  <2>1. \A s \in Used(inodes, blk) :
          /\ EntryAt(inodes', blk', s) = EntryAt(inodes, blk, s)
          /\ valid_dirent(EntryAt(inodes', blk', s))
          /\ inodes'[EntryAt(inodes', blk', s).ino].type = "FILE"
    BY <1>1, EntriesRead DEF DirHolds, SameFiles, Used
  <2>2. /\ \A s, t \in Used(inodes, blk) : s # t =>
             /\ EntryAt(inodes, blk, s).ino # EntryAt(inodes, blk, t).ino
             /\ EntryAt(inodes, blk, s).name # EntryAt(inodes, blk, t).name
        /\ \A i \in FileIno : inodes'[i].type = "FILE" =>
             \E s \in Used(inodes, blk) : EntryAt(inodes, blk, s).ino = i
    BY EntriesRead DEF DirHolds, SameFiles
  <2> QED BY <1>1, <2>1, <2>2 DEF DirectoryValid, Used
<1>5. SameDir
  BY <1>1 DEF SameDir, SameFiles, Used
<1> QED BY <1>2, <1>3, <1>4, <1>5 DEF DirHolds

\* A block written that is none of the directory's.
LEMMA WriteSpares ==
  ASSUME TypeInv, DirHolds, SameFiles,
         \/ UNCHANGED blk
         \/ \E t, c : Spared(t) /\ write_block(t, c)
  PROVE  DirHolds' /\ SameDir
<1>1. ASSUME NEW k \in DirectIdx, inodes[0].direct[k] # Invalid
      PROVE  AsDirents(blk', inodes[0].direct[k])
               = AsDirents(blk, inodes[0].direct[k])
  <2> DEFINE b == inodes[0].direct[k]
  <2>1. blk \in [DataBlocks -> Content]
    BY TypeParts DEF DataOK
  <2>2. b \in DataBlocks => blk'[b] = blk[b]
    BY <1>1, <2>1 DEF Spared, write_block
  <2> HIDE DEF b
  <2>3. AsDirents(blk', b) = AsDirents(blk, b)
    BY <2>2 DEF AsDirents
  <2> QED BY <2>3 DEF b
<1> QED BY <1>1, DirKept

\* A handler that changes its file at most.
LEMMA FileKept ==
  ASSUME TypeInv, LiveInv, IsFile(op.ino),
         \/ UNCHANGED inodes
         \/ \E nd : Become(nd) /\ nd.type = "FILE"
  PROVE  SameFiles
<1>1. CASE UNCHANGED inodes
  BY <1>1 DEF SameFiles
<1>2. ASSUME NEW nd, Become(nd), nd.type = "FILE"
      PROVE  SameFiles
  <2>1. /\ inodes'[op.ino].type = "FILE" /\ op.ino # 0 /\ op.ino \in FileIno
        /\ node.type = "FILE"
        /\ \A i \in Ino : i # op.ino => inodes'[i] = inodes[i]
    BY <1>2, NodesFile DEF LiveInv
  <2> QED BY <2>1, Ranges DEF SameFiles, node
<1> QED BY <1>1, <1>2

\* The directory has none of the blocks that are free or held, or that a file
\* names.
LEMMA Spares ==
  ASSUME TypeInv, LiveInv
  PROVE  /\ \A t : t \notin Named => Spared(t)
         /\ \A s \in Site : s[1] # 0 => Spared(BlockMap[s])
<1>1. 0 \in Ino
  BY Ranges
<1>2. \A k \in DirectIdx : /\ BlockMap[DirectSite(0, k)] = inodes[0].direct[k]
                           /\ DirectSite(0, k) \in Site
  BY <1>1, MapKinds, KindsAreSites DEF BlockMap
<1>3. DOMAIN BlockMap = Site
  BY DEF BlockMap, Map
<1>4. ASSUME NEW t, t \notin Named PROVE Spared(t)
  BY <1>2, <1>3, <1>4 DEF Spared, Named, Img
<1>5. ASSUME NEW s \in Site, s[1] # 0 PROVE Spared(BlockMap[s])
  <2>1. \A k : DirectSite(0, k)[1] = 0
    BY DEF DirectSite, DataSite
  <2>2. Once(BlockMap)
    BY DEF LiveInv, MapExact
  <2> QED BY <1>2, <1>3, <1>5, <2>1, <2>2 DEF Spared, Once
<1> QED BY <1>4, <1>5

\* The tables and blocks of files are none of the directory's.
LEMMA FileBlocksSpared ==
  ASSUME TypeInv, LiveInv
  PROVE  /\ IsFile(op.ino) => Spared(node.indirect) /\ Spared(node.double)
         /\ IsFile(op.ino) /\ pc # "children" =>
              \A o \in PtrIdx : Spared(Child(blk, node, o))
         /\ pc = "children" => \A o \in PtrIdx : Spared(op.roots[o])
         /\ pc # "children" => \A i \in FileIno, lb \in LogicalBlocks :
              Spared(DataPtr(blk, inodes[i], lb))
<1>1. \A s \in Site : s[1] # 0 => Spared(BlockMap[s])
  BY Spares
<1>2. BlockMap = Map(inodes, Tree) /\ (pc # "children" => Tree = blk)
  BY TreeIs DEF BlockMap
<1>3. /\ \A i : SingleSite(i)[1] = i /\ DoubleSite(i)[1] = i
      /\ \A i, o : ChildSite(i, o)[1] = i
      /\ \A i, lb : DataSite(i, lb)[1] = i
  BY DEF SingleSite, DoubleSite, ChildSite, DataSite
<1>4. ASSUME IsFile(op.ino)
      PROVE  /\ Spared(node.indirect) /\ Spared(node.double)
             /\ \A o \in PtrIdx : Spared(Child(Tree, node, o))
  <2>1. op.ino \in Ino /\ op.ino # 0
    BY <1>4, NodesFile, TypeBecome DEF LiveInv
  <2>2. /\ BlockMap[SingleSite(op.ino)] = node.indirect
        /\ BlockMap[DoubleSite(op.ino)] = node.double
        /\ \A o \in PtrIdx : BlockMap[ChildSite(op.ino, o)] = Child(Tree, node, o)
    BY <1>2, <2>1, MapKinds DEF node
  <2>3. /\ SingleSite(op.ino) \in Site /\ DoubleSite(op.ino) \in Site
        /\ \A o \in PtrIdx : ChildSite(op.ino, o) \in Site
    BY <2>1, KindsAreSites
  <2> QED BY <1>1, <1>3, <2>1, <2>2, <2>3
<1>5. ASSUME pc = "children" PROVE \A o \in PtrIdx : Spared(op.roots[o])
  BY <1>4, <1>5, ChildrenKnown
<1>6. ASSUME pc # "children", NEW i \in FileIno, NEW lb \in LogicalBlocks
      PROVE  Spared(DataPtr(blk, inodes[i], lb))
  <2>1. i \in Ino /\ i # 0
    BY Ranges DEF FileIno
  <2>2. BlockMap[DataSite(i, lb)] = DataPtr(blk, inodes[i], lb)
    BY <1>2, <1>6, <2>1, MapAt
  <2>3. DataSite(i, lb) \in Site
    BY <2>1, Sites
  <2> QED BY <1>1, <1>3, <2>1, <2>2, <2>3
<1> QED BY <1>2, <1>4, <1>5, <1>6

\* Calls that change nothing, and flushes.
LEMMA DirQuiet ==
  ASSUME TypeInv, DirHolds, UNCHANGED <<inodes, blk>>
  PROVE  DirHolds' /\ SameDir
<1>1. SameFiles
  BY DEF SameFiles
<1> QED BY <1>1, WriteSpares

\* The handlers of a write.
LEMMA DirWrite ==
  ASSUME TypeInv, InTables, LiveInv, DirHolds,
         \/ WriteMapped \/ AllocateData \/ FindRoot \/ FindTable
         \/ WriteLeaf \/ LinkChild \/ PutChunk \/ WriteDone
  PROVE  DirHolds' /\ SameFiles /\ SameDir
<1>1. IsFile(op.ino) /\ pc # "children"
  BY DEF LiveInv, HandlerOK, WriteMapped, AllocateData, FindRoot, FindTable,
     WriteLeaf, LinkChild, PutChunk, WriteDone
<1>2. node \in Inode /\ node.type = "FILE" /\ op.ino \in Ino
  BY <1>1, NodesFile, TypeBecome DEF LiveInv
<1>3. ASSUME \/ UNCHANGED inodes
             \/ \E nd : Become(nd) /\ nd.type = node.type,
             \/ UNCHANGED blk
             \/ \E t, c : Spared(t) /\ write_block(t, c)
      PROVE  DirHolds' /\ SameFiles /\ SameDir
  <2>1. SameFiles
    BY <1>1, <1>2, <1>3, FileKept
  <2> QED BY <1>3, <2>1, WriteSpares
<1>4. \A b \in DataBlocks : alloc_block(b) => Spared(b)
  BY FreshBlock, Spares DEF LiveInv, alloc_block
<1>5. CASE WriteMapped
  BY <1>3, <1>5 DEF WriteMapped, NoWrite
<1>6. CASE AllocateData
  <2>1. CASE UNCHANGED blk /\ UNCHANGED inodes
    BY <1>3, <2>1
  <2>2. ASSUME NEW b \in DataBlocks, alloc_block(b),
               write_block(b, DataBlock(Zeros)),
               \/ Become([node EXCEPT !.block_count = @ + 1, !.direct[BlkIdx] = b])
               \/ UNCHANGED inodes
        PROVE  DirHolds' /\ SameFiles /\ SameDir
    <3> DEFINE nd == [node EXCEPT !.block_count = @ + 1, !.direct[BlkIdx] = b]
    <3>1. nd.type = node.type
      BY <1>2 DEF Inode
    <3> HIDE DEF nd
    <3>2. UNCHANGED inodes \/ Become(nd)
      BY <2>2 DEF nd
    <3> QED BY <1>3, <1>4, <2>2, <3>1, <3>2
  <2> QED BY <1>6, <2>1, <2>2 DEF AllocateData, NoWrite, WriteFails
<1>7. CASE FindRoot \/ FindTable
  <2>1. UNCHANGED inodes
    BY <1>7 DEF FindRoot, FindTable
  <2>2. ASSUME AllocateTable
        PROVE  \/ UNCHANGED blk
               \/ \E t, c : Spared(t) /\ write_block(t, c)
    BY <1>4, <2>2 DEF AllocateTable, NoWrite, WriteFails
  <2> QED BY <1>3, <1>7, <2>1, <2>2 DEF FindRoot, FindTable, NoWrite
<1>8. CASE WriteLeaf
  <2> DEFINE nd == [node EXCEPT !.block_count = @ + 1,
                      !.indirect = IF InIndirect(BlkIdx) THEN op.table ELSE @]
  <2>1. nd.type = node.type
    BY <1>2 DEF Inode
  <2> HIDE DEF nd
  <2>2. UNCHANGED inodes \/ Become(nd)
    BY <1>8 DEF WriteLeaf, GiveBack, nd
  <2>3. pc = "leaf" /\ InTable /\ op.done < Len(op.buf)
    BY <1>8 DEF WriteLeaf, InTable, InTables
  <2>4. Spared(op.table)
    <3>1. CASE op.new_table
      <4>1. op.table \in Loose
        BY <2>3, <3>1 DEF Loose, Held
      <4>2. op.table \notin Named
        BY <4>1 DEF LiveInv, MapExact
      <4> QED BY <4>2, Spares
    <3>2. CASE ~op.new_table
      <4>1. \/ op.table = node.indirect
            \/ InDouble(BlkIdx) /\ op.table = Child(blk, node, Outer(BlkIdx))
        BY <2>3, <3>2 DEF LiveInv, TablesOK
      <4>2. InDouble(BlkIdx) => Outer(BlkIdx) \in PtrIdx
        BY <2>3, BlkPlace
      <4> QED BY <1>1, <4>1, <4>2, FileBlocksSpared
    <3> QED BY <3>1, <3>2
  <2>5. \/ UNCHANGED blk
        \/ \E c : write_block(op.table, c)
    BY <1>8 DEF WriteLeaf, WriteFails
  <2> QED BY <1>3, <2>1, <2>2, <2>4, <2>5
<1>9. CASE LinkChild
  <2> DEFINE nd == [node EXCEPT !.block_count = @ + 1, !.double = op.root]
  <2>1. nd.type = node.type
    BY <1>2 DEF Inode
  <2> HIDE DEF nd
  <2>2. UNCHANGED inodes \/ Become(nd)
    BY <1>9 DEF LinkChild, GiveBack, nd
  <2>3. pc = "link" /\ InTable /\ RootFound
    BY <1>9 DEF LinkChild, InTable, LiveInv, TablesOK
  <2>4. Spared(op.root)
    <3>1. CASE op.new_root
      <4>1. op.root \notin Named
        BY <2>3, <3>1, RootKnown DEF LiveInv, MapExact
      <4> QED BY <4>1, Spares
    <3>2. CASE ~op.new_root
      BY <1>1, <2>3, <3>2, FileBlocksSpared DEF RootFound
    <3> QED BY <3>1, <3>2
  <2>5. \/ UNCHANGED blk
        \/ \E c : write_block(op.root, c)
    BY <1>9 DEF LinkChild, WriteFails
  <2> QED BY <1>3, <2>1, <2>2, <2>4, <2>5
<1>10. CASE PutChunk
  <2>1. UNCHANGED inodes /\ pc = "put" /\ op.done < Len(op.buf)
        /\ op.data = DataPtr(blk, node, BlkIdx)
    BY <1>10 DEF PutChunk, LiveInv, HandlerOK
  <2>2. op.ino \in FileIno /\ BlkIdx \in LogicalBlocks
    BY <1>1, <2>1, BlkPlace, NodesFile DEF LiveInv
  <2>3. Spared(op.data)
    BY <1>1, <2>1, <2>2, FileBlocksSpared DEF node
  <2>4. \/ UNCHANGED blk
        \/ \E c : write_block(op.data, c)
    BY <1>10 DEF PutChunk, WriteFails
  <2> QED BY <1>3, <2>1, <2>3, <2>4
<1>11. CASE WriteDone
  <2> DEFINE nd == [node EXCEPT !.size = IF op.off + Len(op.buf) > @
                                         THEN op.off + Len(op.buf) ELSE @]
  <2>1. nd.type = node.type
    BY <1>2 DEF Inode
  <2> HIDE DEF nd
  <2>2. Become(nd) /\ UNCHANGED blk
    BY <1>11 DEF WriteDone, NoWrite, nd
  <2> QED BY <1>3, <2>1, <2>2
<1> QED BY <1>5, <1>6, <1>7, <1>8, <1>9, <1>10, <1>11

\* The handlers of a truncate.
LEMMA DirTruncate ==
  ASSUME TypeInv, LiveInv, DirHolds,
         ShrinkDirect \/ ReadRoots \/ ShrinkChild \/ ShrinkRoot \/ Resize
  PROVE  DirHolds' /\ SameFiles /\ SameDir
<1>1. IsFile(op.ino)
  BY DEF LiveInv, HandlerOK, ShrinkDirect, ReadRoots, ShrinkChild, ShrinkRoot,
     Resize
<1>2. node \in Inode /\ node.type = "FILE" /\ op.ino \in Ino
  BY <1>1, NodesFile, TypeBecome DEF LiveInv
<1>3. ASSUME \/ UNCHANGED inodes
             \/ \E nd : Become(nd) /\ nd.type = node.type,
             \/ UNCHANGED blk
             \/ \E t, c : Spared(t) /\ write_block(t, c)
      PROVE  DirHolds' /\ SameFiles /\ SameDir
  <2>1. SameFiles
    BY <1>1, <1>2, <1>3, FileKept
  <2> QED BY <1>3, <2>1, WriteSpares
<1>4. CASE ShrinkDirect
  <2> DEFINE cut == {i \in DirectIdx : i >= NewBlocks /\ node.direct[i] # Invalid}
             direct == [i \in DirectIdx |->
                          IF i \in cut THEN Invalid ELSE node.direct[i]]
             count == node.block_count - Cardinality(cut)
             short == [node EXCEPT !.direct = direct,
                                   !.block_count = @ - Cardinality(cut)]
             t == node.indirect
             shorter == [short EXCEPT
                           !.block_count = @ - DroppedCount(t, DirectBlocks)]
             shortest == [shorter EXCEPT !.indirect = Invalid]
  <2>1. short.type = node.type /\ shorter.type = node.type
        /\ shortest.type = node.type
    BY <1>2 DEF Inode
  <2> HIDE DEF cut, direct, count, shortest, shorter
  <2>2. Become(short) \/ Become(shorter) \/ Become(shortest)
    BY <1>4 DEF ShrinkDirect, cut, direct, shorter, shortest
  <2> HIDE DEF short
  <2>3. \E nd : Become(nd) /\ nd.type = node.type
    BY <2>1, <2>2
  <2>4. UNCHANGED blk \/ \E c : write_block(node.indirect, c)
    BY <1>4 DEF ShrinkDirect, NoWrite, WriteFails
  <2>5. Spared(node.indirect)
    BY <1>1, FileBlocksSpared
  <2> QED BY <1>3, <2>3, <2>4, <2>5
<1>5. CASE ReadRoots
  BY <1>3, <1>5 DEF ReadRoots, NoWrite
<1>6. CASE ShrinkChild
  <2>1. PICK o \in PtrIdx :
          /\ \/ UNCHANGED inodes
             \/ \E z : Become([node EXCEPT !.block_count = @ - z])
          /\ \/ UNCHANGED blk
             \/ \E c : write_block(op.roots[o], c)
    BY <1>6 DEF ShrinkChild, NoWrite, WriteFails
  <2>2. pc = "children"
    BY <1>6 DEF ShrinkChild
  <2>3. Spared(op.roots[o])
    BY <2>2, FileBlocksSpared
  <2>4. ASSUME NEW z, Become([node EXCEPT !.block_count = @ - z])
        PROVE  \E nd : Become(nd) /\ nd.type = node.type
    <3>1. [node EXCEPT !.block_count = @ - z].type = node.type
      BY <1>2 DEF Inode
    <3> QED BY <2>4, <3>1
  <2> QED BY <1>3, <2>1, <2>3, <2>4
<1>7. CASE ShrinkRoot
  <2>1. \/ UNCHANGED inodes
        \/ Become([node EXCEPT !.double = Invalid])
    BY <1>7 DEF ShrinkRoot
  <2>2. UNCHANGED blk \/ \E c : write_block(node.double, c)
    BY <1>7 DEF ShrinkRoot, NoWrite, WriteFails
  <2>3. Spared(node.double)
    BY <1>1, FileBlocksSpared
  <2>4. [node EXCEPT !.double = Invalid].type = node.type
    BY <1>2 DEF Inode
  <2> QED BY <1>3, <2>1, <2>2, <2>3, <2>4
<1>8. CASE Resize
  <2>1. Become([node EXCEPT !.size = op.size]) /\ UNCHANGED blk
    BY <1>8 DEF Resize, NoWrite
  <2>2. [node EXCEPT !.size = op.size].type = node.type
    BY <1>2 DEF Inode
  <2> QED BY <1>3, <2>1, <2>2
<1> QED BY <1>4, <1>5, <1>6, <1>7, <1>8

\* The start of a truncate.
LEMMA DirStartTruncate ==
  ASSUME TypeInv, LiveInv, DirHolds, NEW n, NEW size \in TruncSizes,
         denyfs_vol_truncate(n, size)
  PROVE  DirHolds' /\ SameDir
<1>1. pc = "idle"
  BY DEF denyfs_vol_truncate
<1>2. CASE UNCHANGED <<inodes, blk>>
  BY <1>2, DirQuiet
<1>3. ASSUME NEW i \in FileIno, NEW c, size < inodes[i].size,
             LET tail == get_file_data_block(bitmap, blk, inodes[i],
                                             size \div SectorSize)
             IN  tail \in DataBlocks /\ write_block(tail, c),
             UNCHANGED inodes
      PROVE  DirHolds' /\ SameDir
  <2> DEFINE lb == size \div SectorSize
             t == DataPtr(blk, inodes[i], lb)
  <2>1. get_file_data_block(bitmap, blk, inodes[i], lb) = t
    BY <1>3, DataArea DEF get_file_data_block
  <2>2. lb \in LogicalBlocks
    <3>1. size \in Nat /\ inodes[i].size \in 0 .. MaxFileSize
      <4>1. inodes \in [Ino -> Inode] /\ i \in Ino
        BY TypeParts, Ranges DEF InodesOK
      <4> QED BY <4>1, InputsAssumption DEF Inode
    <3>2. MaxFileBlocks \in Nat
      <4> DEFINE S == PointersPerBlock * PointersPerBlock
      <4>1. S \in Nat
        BY SizesAssumption
      <4> HIDE DEF S
      <4> QED BY <4>1, SizesAssumption DEF MaxFileBlocks, S
    <3>3. size < MaxFileBlocks * SectorSize
      BY <1>3, <3>1, <3>2, LayoutAssumption, SizesAssumption
    <3> QED BY <3>1, <3>2, <3>3, DivBelow, SizesAssumption DEF LogicalBlocks
  <2> HIDE DEF lb
  <2>3. Spared(t)
    BY <1>1, <2>2, FileBlocksSpared
  <2>4. write_block(t, c)
    BY <1>3, <2>1 DEF lb
  <2>5. SameFiles
    BY <1>3 DEF SameFiles
  <2> QED BY <2>3, <2>4, <2>5, WriteSpares
<1> QED BY <1>2, <1>3, DataArea DEF denyfs_vol_truncate, NotFound, Refuse, disk,
        WriteFails

-----------------------------------------------------------------------------
(***************************************************************************)
(* The calls that change the directory.                                    *)
(***************************************************************************)

\* An entry is written.
LEMMA EntryPut ==
  ASSUME TypeInv, LiveInv, pc = "idle", NEW s \in DirSlots(inodes), NEW e,
         PutEntry(s, e), inodes'[0] = inodes[0]
  PROVE  /\ DirSlots(inodes') = DirSlots(inodes)
         /\ \A t \in DirSlots(inodes) :
              EntryAt(inodes', blk', t) = IF t = s THEN e
                                          ELSE EntryAt(inodes, blk, t)
<1> DEFINE b == inodes[0].direct[s[1]]
<1>1. /\ s[1] \in DirectIdx /\ s[2] \in DirIdx /\ s = <<s[1], s[2]>>
      /\ b # Invalid
  BY DEF DirSlots
<1>2. 0 \in Ino /\ BlockMap = Map(inodes, blk) /\ Once(BlockMap)
  BY TreeIs, Ranges DEF LiveInv, MapExact
<1>3. \A k \in DirectIdx : /\ BlockMap[DirectSite(0, k)] = inodes[0].direct[k]
                           /\ DirectSite(0, k) \in Site
  BY <1>2, MapKinds, KindsAreSites
<1>4. b \in DataBlocks
  BY <1>1, <1>3, NamedReadable DEF LiveInv
<1>5. ASSUME NEW k \in DirectIdx, k # s[1] PROVE inodes[0].direct[k] # b
  <2>1. DirectSite(0, k) # DirectSite(0, s[1])
    BY <1>5 DEF DirectSite, DataSite
  <2>2. DOMAIN BlockMap = Site
    BY DEF BlockMap, Map
  <2> QED BY <1>1, <1>2, <1>3, <2>1, <2>2 DEF Once
<1>6. blk \in [DataBlocks -> Content] /\ AsDirents(blk, b) \in [DirIdx -> Dirent]
  BY TypeParts, DecodeTypes DEF DataOK
<1>7. /\ \A c : c # b => AsDirents(blk', c) = AsDirents(blk, c)
      /\ AsDirents(blk', b) = [AsDirents(blk, b) EXCEPT ![s[2]] = e]
  <2> DEFINE d == [AsDirents(blk, b) EXCEPT ![s[2]] = e]
  <2>1. blk' = [blk EXCEPT ![b] = DirBlock(d)]
    BY DEF PutEntry, write_block
  <2> HIDE DEF d, b
  <2>2. \A c \in DataBlocks : blk'[c] = IF c = b THEN DirBlock(d) ELSE blk[c]
    BY <1>6, <2>1
  <2>3. AsDirents(blk', b) = d
    BY <1>4, <2>2 DEF AsDirents, DirBlock
  <2>4. \A c : c # b => AsDirents(blk', c) = AsDirents(blk, c)
    BY <2>2 DEF AsDirents
  <2> QED BY <2>3, <2>4 DEF d
<1>8. DirSlots(inodes') = DirSlots(inodes)
  BY DEF DirSlots
<1>9. ASSUME NEW t \in DirSlots(inodes)
      PROVE  EntryAt(inodes', blk', t) = IF t = s THEN e
                                         ELSE EntryAt(inodes, blk, t)
  <2>1. t[1] \in DirectIdx /\ t[2] \in DirIdx /\ t = <<t[1], t[2]>>
    BY DEF DirSlots
  <2>2. CASE t[1] # s[1]
    BY <1>5, <1>7, <2>1, <2>2 DEF EntryAt
  <2>3. CASE t[1] = s[1]
    <3>1. EntryAt(inodes', blk', t) = [AsDirents(blk, b) EXCEPT ![s[2]] = e][t[2]]
      BY <1>7, <2>3 DEF EntryAt
    <3>2. EntryAt(inodes, blk, t) = AsDirents(blk, b)[t[2]]
      BY <2>3 DEF EntryAt
    <3>3. t = s <=> t[2] = s[2]
      BY <1>1, <2>1, <2>3
    <3> HIDE DEF b
    <3> QED BY <1>1, <1>6, <2>1, <3>1, <3>2, <3>3
  <2> QED BY <2>2, <2>3
<1> QED BY <1>8, <1>9

\* The directory with an entry for a new file, and without that of a file.
Created(n, i) ==
  /\ \E s : /\ s \notin Used(inodes, blk)
            /\ Used(inodes', blk') = Used(inodes, blk) \union {s}
            /\ EntryAt(inodes', blk', s) = NewEntry(i, n)
            /\ \A t \in Used(inodes, blk) :
                 /\ EntryAt(inodes', blk', t) = EntryAt(inodes, blk, t)
                 /\ EntryAt(inodes, blk, t).name # n
  /\ \A k \in DirectIdx : inodes[0].direct[k] # Invalid =>
       inodes'[0].direct[k] = inodes[0].direct[k]
  /\ inodes[i].type = "FREE" /\ inodes'[i] = EmptyInode("FILE")
  /\ \A j \in FileIno : j # i => inodes'[j] = inodes[j]
Removed(n, i) ==
  /\ \E s \in Used(inodes, blk) :
       /\ EntryAt(inodes, blk, s).name = n /\ EntryAt(inodes, blk, s).ino = i
       /\ Used(inodes', blk') = Used(inodes, blk) \ {s}
       /\ \A t \in Used(inodes, blk) : t # s =>
            EntryAt(inodes', blk', t) = EntryAt(inodes, blk, t)
  /\ inodes'[0] = inodes[0]
  /\ \A j \in FileIno : j # i => inodes'[j] = inodes[j]

\* An entry for a new file.
LEMMA EntryAdded ==
  ASSUME DirectoryValid(inodes, blk), NEW n \in Names, NEW i \in FileIno,
         NEW s, s \notin Used(inodes, blk),
         Used(inodes', blk') = Used(inodes, blk) \union {s},
         EntryAt(inodes', blk', s) = NewEntry(i, n),
         \A t \in Used(inodes, blk) :
           /\ EntryAt(inodes', blk', t) = EntryAt(inodes, blk, t)
           /\ EntryAt(inodes, blk, t).name # n,
         inodes[i].type = "FREE", inodes'[i].type = "FILE",
         \A j \in FileIno : j # i => inodes'[j].type = inodes[j].type
  PROVE  DirectoryValid(inodes', blk')
<1> DEFINE U == Used(inodes, blk)
           E(t) == EntryAt(inodes, blk, t)
           F(t) == EntryAt(inodes', blk', t)
<1>1. /\ \A t \in U : /\ E(t).ino \in FileIno /\ E(t).name \in Names
                      /\ inodes[E(t).ino].type = "FILE"
      /\ \A t, u \in U : t # u => E(t).ino # E(u).ino /\ E(t).name # E(u).name
      /\ \A j \in FileIno : inodes[j].type = "FILE" => \E t \in U : E(t).ino = j
  BY EntriesRead
<1>2. F(s).ino = i /\ F(s).name = n
  BY DEF NewEntry
<1>3. /\ \A t \in U : F(t) = E(t) /\ E(t).name # n
      /\ Used(inodes', blk') = U \union {s}
  OBVIOUS
<1> HIDE DEF U, E, F
<1>4. \A t \in U : E(t).ino # i
  BY <1>1
<1>5. \A t \in U \union {s} : /\ valid_dirent(F(t))
                              /\ inodes'[F(t).ino].type = "FILE"
  BY <1>1, <1>2, <1>3, <1>4 DEF valid_dirent
<1>6. \A t, u \in U \union {s} : t # u =>
        F(t).ino # F(u).ino /\ F(t).name # F(u).name
  BY <1>1, <1>2, <1>3, <1>4
<1>7. \A j \in FileIno : inodes'[j].type = "FILE" =>
        \E t \in U \union {s} : F(t).ino = j
  BY <1>1, <1>2, <1>3
<1> QED BY <1>3, <1>5, <1>6, <1>7 DEF DirectoryValid, Used, F

\* The entry of a file that goes.
LEMMA EntryGone ==
  ASSUME DirectoryValid(inodes, blk), NEW i \in FileIno,
         NEW s \in Used(inodes, blk), EntryAt(inodes, blk, s).ino = i,
         Used(inodes', blk') = Used(inodes, blk) \ {s},
         \A t \in Used(inodes, blk) : t # s =>
           EntryAt(inodes', blk', t) = EntryAt(inodes, blk, t),
         inodes'[i].type = "FREE",
         \A j \in FileIno : j # i => inodes'[j].type = inodes[j].type
  PROVE  DirectoryValid(inodes', blk')
<1> DEFINE U == Used(inodes, blk)
           E(t) == EntryAt(inodes, blk, t)
           F(t) == EntryAt(inodes', blk', t)
<1>1. /\ \A t \in U : /\ E(t).ino \in FileIno /\ E(t).name \in Names
                      /\ inodes[E(t).ino].type = "FILE"
      /\ \A t, u \in U : t # u => E(t).ino # E(u).ino /\ E(t).name # E(u).name
      /\ \A j \in FileIno : inodes[j].type = "FILE" => \E t \in U : E(t).ino = j
  BY EntriesRead
<1>2. /\ \A t \in U : t # s => F(t) = E(t)
      /\ Used(inodes', blk') = U \ {s} /\ s \in U /\ E(s).ino = i
  OBVIOUS
<1> HIDE DEF U, E, F
<1>3. \A t \in U \ {s} : /\ valid_dirent(F(t))
                         /\ inodes'[F(t).ino].type = "FILE"
  BY <1>1, <1>2 DEF valid_dirent
<1>4. \A t, u \in U \ {s} : t # u =>
        F(t).ino # F(u).ino /\ F(t).name # F(u).name
  BY <1>1, <1>2
<1>5. \A j \in FileIno : inodes'[j].type = "FILE" =>
        \E t \in U \ {s} : F(t).ino = j
  BY <1>1, <1>2
<1> QED BY <1>2, <1>3, <1>4, <1>5 DEF DirectoryValid, Used, F

\* A directory that keeps its root and its free inodes empty.
LEMMA TableKept ==
  ASSUME RootValid(inodes), InodesValid(inodes), inodes'[0] = inodes[0],
         NEW i, inodes'[i].type = "FILE" \/ inodes'[i] = EmptyInode("FREE"),
         \A j \in FileIno : j # i => inodes'[j] = inodes[j]
  PROVE  RootValid(inodes') /\ InodesValid(inodes')
<1>1. RootValid(inodes')
  BY DEF RootValid
<1>2. InodesValid(inodes')
  BY DEF InodesValid
<1> QED BY <1>1, <1>2

\* add_dirent takes a free entry, or the inode is given back.
LEMMA DirCreateInSlot ==
  ASSUME TypeInv, LiveInv, DirHolds, pc = "idle", NEW n \in Names,
         NEW i \in FileIno, LookupIs(n, ENOENT), FirstFreeInode(i),
         CreateInSlot(n, i)
  PROVE  /\ DirHolds'
         /\ \/ pc' = "flush" /\ Created(n, i)
               /\ \E s \in DirSlots(inodes) : PutEntry(s, NewEntry(i, n))
            \/ /\ pc' = "idle" /\ SameDir /\ UNCHANGED blk
               /\ \A j \in FileIno : inodes'[j] = inodes[j]
<1>1. PICK s \in DirSlots(inodes) :
        /\ FirstFreeSlot(s)
        /\ \/ /\ PutEntry(s, NewEntry(i, n)) /\ inodes' = WithFile(i)
              /\ pc' = "flush"
           \/ /\ WriteFails("create") /\ inodes' = RolledBack(WithFile(i), i)
              /\ pc' = "idle"
  BY DEF CreateInSlot, StartCreateFlush, StartFlush, Return
<1>2. /\ i \in Ino /\ i # 0 /\ 0 \in Ino /\ inodes[i].type = "FREE"
      /\ inodes \in [Ino -> Inode]
  BY FreeNode, TypeParts DEF FirstFreeInode, LiveInv, InodesOK
<1>3. \A j \in FileIno : j \in Ino
  BY Ranges
<1>4. CASE PutEntry(s, NewEntry(i, n)) /\ inodes' = WithFile(i) /\ pc' = "flush"
  <2>1. /\ inodes'[0] = inodes[0] /\ inodes'[i].type = "FILE"
        /\ inodes'[i] = EmptyInode("FILE")
        /\ \A j \in FileIno : j # i => inodes'[j] = inodes[j]
    BY <1>2, <1>3, <1>4 DEF WithFile, EmptyInode
  <2>2. RootValid(inodes') /\ InodesValid(inodes')
    BY <2>1, TableKept DEF DirHolds
  <2>3. /\ DirSlots(inodes') = DirSlots(inodes)
        /\ \A t \in DirSlots(inodes) :
             EntryAt(inodes', blk', t) = IF t = s THEN NewEntry(i, n)
                                         ELSE EntryAt(inodes, blk, t)
    BY <1>4, <2>1, EntryPut
  <2>4. EntryAt(inodes, blk, s) = FreeEntry
    BY <1>1 DEF FirstFreeSlot
  <2>5. NewEntry(i, n) # FreeEntry
    <3>1. NewEntry(i, n).name # FreeEntry.name
      BY ValuesAssumption DEF NewEntry, FreeEntry
    <3> QED BY <3>1
  <2>6. /\ s \notin Used(inodes, blk)
        /\ Used(inodes', blk') = Used(inodes, blk) \union {s}
    BY <2>3, <2>4, <2>5 DEF Used
  <2>7. \A t \in Used(inodes, blk) : EntryAt(inodes, blk, t).name # n
    BY LookupFinds DEF DirHolds, LookupIs
  <2>8. \A t \in Used(inodes, blk) :
          EntryAt(inodes', blk', t) = EntryAt(inodes, blk, t)
    BY <2>3, <2>6 DEF Used
  <2>9. EntryAt(inodes', blk', s) = NewEntry(i, n)
    BY <2>3
  <2>10. DirectoryValid(inodes', blk')
    BY <1>2, <2>1, <2>6, <2>7, <2>8, <2>9, EntryAdded DEF DirHolds
  <2>11. Created(n, i)
    BY <1>2, <2>1, <2>6, <2>7, <2>8, <2>9 DEF Created
  <2> QED BY <1>4, <2>2, <2>10, <2>11 DEF DirHolds
<1>5. CASE /\ WriteFails("create") /\ inodes' = RolledBack(WithFile(i), i)
           /\ pc' = "idle"
  <2>1. /\ inodes'[0] = inodes[0]
        /\ inodes'[i] = [EmptyInode("FILE") EXCEPT !.type = "FREE"]
        /\ \A j \in FileIno : j # i => inodes'[j] = inodes[j]
    BY <1>2, <1>3, <1>5 DEF WithFile, RolledBack
  <2>2. inodes[i] = EmptyInode("FREE")
    BY <1>2 DEF DirHolds, InodesValid
  <2>3. inodes'[i] = inodes[i]
    BY <2>1, <2>2 DEF EmptyInode
  <2>4. SameFiles
    BY <2>1, <2>3 DEF SameFiles
  <2> QED BY <1>5, <2>1, <2>3, <2>4, WriteSpares DEF WriteFails
<1> QED BY <1>1, <1>4, <1>5

\* add_dirent takes a new block of the directory.
LEMMA DirCreateInNewBlock ==
  ASSUME TypeInv, LiveInv, DirHolds, pc = "idle", NEW n \in Names,
         NEW i \in FileIno, NEW b \in DataBlocks, LookupIs(n, ENOENT),
         FirstFreeInode(i), inodes[0].block_count < DirectBlocks,
         CreateInNewBlock(n, i, b),
         "create" \notin FaultyCalls \/ DirectBlocks = 1
  PROVE  /\ DirHolds' /\ Created(n, i) /\ pc' = "flush"
         /\ alloc_block(b) /\ write_block(b, DirBlock(FirstEntry(i, n)))
<1> DEFINE k == inodes[0].block_count
           root == [inodes[0] EXCEPT !.block_count = @ + 1, !.direct[k] = b]
<1>1. k \in 1 .. DirectBlocks /\ DirectBlocks # 1
  BY SizesAssumption DEF DirHolds, RootValid
<1>2. /\ alloc_block(b) /\ write_block(b, DirBlock(FirstEntry(i, n)))
      /\ inodes' = Grown(i, b) /\ pc' = "flush"
  BY <1>1 DEF CreateInNewBlock, WriteFails, StartCreateFlush, StartFlush
<1>3. /\ i \in Ino /\ i # 0 /\ 0 \in Ino /\ inodes[i].type = "FREE"
      /\ inodes \in [Ino -> Inode] /\ inodes[0] \in Inode
  BY FreeNode, TypeParts DEF FirstFreeInode, LiveInv, InodesOK
<1>4. k \in DirectIdx /\ k \in Nat /\ DirectBlocks \in Nat
  BY <1>1, SizesAssumption DEF DirectIdx
<1>5. /\ root.type = inodes[0].type /\ root.size = inodes[0].size
      /\ root.block_count = k + 1
      /\ \A l \in DirectIdx : root.direct[l] = IF l = k THEN b
                                               ELSE inodes[0].direct[l]
      /\ root.indirect = inodes[0].indirect /\ root.double = inodes[0].double
  BY <1>3 DEF Inode
<1>6. inodes'[0] = root /\ inodes'[i].type = "FILE"
      /\ inodes'[i] = EmptyInode("FILE")
      /\ \A j \in FileIno : j # i => inodes'[j] = inodes[j]
  <2>1. \A j \in FileIno : j \in Ino /\ j # 0
    BY Ranges DEF FileIno
  <2> QED BY <1>2, <1>3, <2>1 DEF Grown, WithFile, EmptyInode
<1> HIDE DEF root
<1>7. b # Invalid /\ Spared(b)
  BY <1>2, FreshBlock, Spares DEF LiveInv, alloc_block
<1>8. inodes[0].direct[k] = Invalid
  BY <1>4 DEF DirHolds, RootValid
<1>9. RootValid(inodes')
  <2>1. \A l \in DirectIdx : (l < k + 1) <=> (root.direct[l] # Invalid)
    <3> SUFFICES ASSUME NEW l \in DirectIdx
                 PROVE  (l < k + 1) <=> (root.direct[l] # Invalid)
      OBVIOUS
    <3>1. l \in Nat
      BY <1>4 DEF DirectIdx
    <3>2. (l < k) <=> (inodes[0].direct[l] # Invalid)
      BY DEF DirHolds, RootValid
    <3>3. CASE l = k
      BY <1>4, <1>5, <1>7, <3>3
    <3>4. CASE l # k
      <4>1. (l < k + 1) <=> (l < k)
        BY <1>4, <3>1, <3>4
      <4> QED BY <1>5, <3>2, <3>4, <4>1
    <3> QED BY <3>3, <3>4
  <2>2. k + 1 \in 1 .. DirectBlocks
    BY <1>4
  <2> HIDE DEF k
  <2> QED BY <1>5, <1>6, <2>1, <2>2 DEF DirHolds, RootValid
<1>10. InodesValid(inodes')
  BY <1>6 DEF DirHolds, InodesValid
<1> DEFINE s == <<k, 0>>
<1>11. 0 \in DirIdx
  BY SizesAssumption DEF DirIdx
<1>12. /\ AsDirents(blk', b) = FirstEntry(i, n)
       /\ \A c : c # b => AsDirents(blk', c) = AsDirents(blk, c)
  <2> DEFINE d == FirstEntry(i, n)
  <2>1. blk' = [blk EXCEPT ![b] = DirBlock(d)] /\ blk \in [DataBlocks -> Content]
    BY <1>2, TypeParts DEF write_block, DataOK
  <2> HIDE DEF d
  <2>2. \A c \in DataBlocks : blk'[c] = IF c = b THEN DirBlock(d) ELSE blk[c]
    BY <2>1
  <2>3. AsDirents(blk', b) = d
    BY <2>2 DEF AsDirents, DirBlock
  <2>4. \A c : c # b => AsDirents(blk', c) = AsDirents(blk, c)
    BY <2>2 DEF AsDirents
  <2> QED BY <2>3, <2>4 DEF d
<1>13. \A t : t \in DirSlots(inodes') <=>
                t \in DirSlots(inodes) \/ t \in {k} \X DirIdx
  <2>1. \A l \in DirectIdx : inodes'[0].direct[l] # Invalid <=>
                               inodes[0].direct[l] # Invalid \/ l = k
    BY <1>5, <1>6, <1>7
  <2> HIDE DEF k
  <2> QED BY <1>4, <2>1 DEF DirSlots
<1>14. \A t \in DirSlots(inodes) :
         EntryAt(inodes', blk', t) = EntryAt(inodes, blk, t)
  <2> SUFFICES ASSUME NEW t \in DirSlots(inodes)
               PROVE  EntryAt(inodes', blk', t) = EntryAt(inodes, blk, t)
    OBVIOUS
  <2>1. t[1] \in DirectIdx /\ inodes[0].direct[t[1]] # Invalid
    BY DEF DirSlots
  <2>2. t[1] # k /\ inodes[0].direct[t[1]] # b
    BY <1>7, <1>8, <2>1 DEF Spared
  <2>3. inodes'[0].direct[t[1]] = inodes[0].direct[t[1]]
    BY <1>5, <1>6, <2>1, <2>2
  <2> QED BY <1>12, <2>2, <2>3 DEF EntryAt
<1>15. \A l \in DirIdx :
         EntryAt(inodes', blk', <<k, l>>) = IF l = 0 THEN NewEntry(i, n)
                                            ELSE FreeEntry
  <2>1. inodes'[0].direct[k] = b
    BY <1>4, <1>5, <1>6
  <2> QED BY <1>12, <2>1 DEF EntryAt, FirstEntry
<1>16. NewEntry(i, n) # FreeEntry
  <2>1. NewEntry(i, n).name # FreeEntry.name
    BY ValuesAssumption DEF NewEntry, FreeEntry
  <2> QED BY <2>1
<1>17. s \notin DirSlots(inodes) /\ s \in DirSlots(inodes')
  BY <1>8, <1>11, <1>13 DEF DirSlots
<1>18. /\ s \notin Used(inodes, blk)
       /\ Used(inodes', blk') = Used(inodes, blk) \union {s}
  <2>1. ASSUME NEW t \in {k} \X DirIdx, t \in Used(inodes', blk') PROVE t = s
    <3>1. t = <<k, t[2]>> /\ t[2] \in DirIdx
      OBVIOUS
    <3> QED BY <1>15, <2>1, <3>1 DEF Used
  <2>2. s \in Used(inodes', blk')
    BY <1>11, <1>15, <1>16, <1>17 DEF Used
  <2> HIDE DEF s
  <2>3. ASSUME NEW t \in DirSlots(inodes)
        PROVE  t \in Used(inodes', blk') <=> t \in Used(inodes, blk)
    BY <1>13, <1>14 DEF Used
  <2> QED BY <1>13, <1>17, <2>1, <2>2, <2>3 DEF Used
<1>19. \A t \in Used(inodes, blk) :
         /\ EntryAt(inodes', blk', t) = EntryAt(inodes, blk, t)
         /\ EntryAt(inodes, blk, t).name # n
  BY <1>14, LookupFinds DEF DirHolds, LookupIs, Used
<1>20. EntryAt(inodes', blk', s) = NewEntry(i, n)
  BY <1>11, <1>15
<1> HIDE DEF s
<1>21. DirectoryValid(inodes', blk')
  BY <1>3, <1>6, <1>18, <1>19, <1>20, EntryAdded DEF DirHolds
<1>22. \A l \in DirectIdx : inodes[0].direct[l] # Invalid =>
         inodes'[0].direct[l] = inodes[0].direct[l]
  BY <1>5, <1>6, <1>8
<1>23. Created(n, i)
  BY <1>3, <1>6, <1>18, <1>19, <1>20, <1>22 DEF Created
<1> QED BY <1>2, <1>9, <1>10, <1>21, <1>23 DEF DirHolds

\* denyfs_vol_create as a whole.
LEMMA DirCreate ==
  ASSUME TypeInv, LiveInv, DirHolds, NEW n \in Names, denyfs_vol_create(n),
         "create" \notin FaultyCalls \/ DirectBlocks = 1
  PROVE  DirHolds'
<1>1. pc = "idle"
  BY DEF denyfs_vol_create
<1>2. ASSUME NEW r, Refuse(r) PROVE DirHolds'
  BY <1>2, DirQuiet DEF Refuse, disk
<1>3. CASE \E i \in FileIno :
             LookupIs(n, ENOENT) /\ FirstFreeInode(i) /\ CreateInSlot(n, i)
  BY <1>1, <1>3, DirCreateInSlot
<1>4. CASE \E i \in FileIno, b \in DataBlocks :
             /\ LookupIs(n, ENOENT) /\ FirstFreeInode(i)
             /\ inodes[0].block_count < DirectBlocks
             /\ CreateInNewBlock(n, i, b)
  BY <1>1, <1>4, DirCreateInNewBlock
<1> QED BY <1>2, <1>3, <1>4 DEF denyfs_vol_create

\* denyfs_vol_unlink clears the entry and frees the inode.
LEMMA DirRemove ==
  ASSUME TypeInv, LiveInv, DirHolds, NEW n \in Names, pc = "idle",
         NEW i \in FileIno, NEW s \in DirSlots(inodes), LookupIs(n, i),
         IsEntryOf(inodes, blk, n, s), PutEntry(s, FreeEntry), free_inode(i)
  PROVE  DirHolds' /\ Removed(n, i) /\ inodes'[i] = EmptyInode("FREE")
<1>1. inodes' = [inodes EXCEPT ![i] = EmptyInode("FREE")]
  BY FreeInode
<1>2. /\ i \in Ino /\ i # 0 /\ 0 \in Ino /\ inodes \in [Ino -> Inode]
      /\ \A j \in FileIno : j \in Ino
  BY Ranges, TypeParts DEF FileIno, InodesOK
<1>3. /\ inodes'[0] = inodes[0] /\ inodes'[i] = EmptyInode("FREE")
      /\ inodes'[i].type = "FREE"
      /\ \A j \in FileIno : j # i => inodes'[j] = inodes[j]
  BY <1>1, <1>2 DEF EmptyInode
<1>4. RootValid(inodes') /\ InodesValid(inodes')
  BY <1>3, TableKept DEF DirHolds
<1>5. /\ DirSlots(inodes') = DirSlots(inodes)
      /\ \A t \in DirSlots(inodes) :
           EntryAt(inodes', blk', t) = IF t = s THEN FreeEntry
                                       ELSE EntryAt(inodes, blk, t)
  BY <1>3, EntryPut
<1>6. /\ s \in Used(inodes, blk) /\ EntryAt(inodes, blk, s).name = n
      /\ EntryAt(inodes, blk, s).ino = i
  <2>1. s \in Used(inodes, blk) /\ EntryAt(inodes, blk, s).name = n
    BY EntryFound DEF DirHolds
  <2> QED BY <2>1, LookupFinds DEF DirHolds, LookupIs
<1>7. /\ Used(inodes', blk') = Used(inodes, blk) \ {s}
      /\ \A t \in Used(inodes, blk) : t # s =>
           EntryAt(inodes', blk', t) = EntryAt(inodes, blk, t)
  BY <1>5 DEF Used
<1>8. DirectoryValid(inodes', blk')
  BY <1>3, <1>6, <1>7, EntryGone DEF DirHolds
<1>9. Removed(n, i)
  BY <1>3, <1>6, <1>7 DEF Removed
<1> QED BY <1>3, <1>4, <1>8, <1>9 DEF DirHolds

\* denyfs_vol_unlink as a whole.
LEMMA DirUnlink ==
  ASSUME TypeInv, LiveInv, DirHolds, NEW n \in Names, denyfs_vol_unlink(n)
  PROVE  DirHolds'
<1>1. pc = "idle"
  BY DEF denyfs_vol_unlink
<1>2. CASE UNCHANGED <<inodes, blk>>
  BY <1>2, DirQuiet
<1>3. ASSUME NEW i \in FileIno, NEW s \in DirSlots(inodes), LookupIs(n, i),
             IsEntryOf(inodes, blk, n, s), PutEntry(s, FreeEntry), free_inode(i)
      PROVE  DirHolds'
  BY <1>1, <1>3, DirRemove
<1> QED BY <1>2, <1>3 DEF denyfs_vol_unlink, NotFound, Refuse, disk, WriteFails

\* Every step keeps the directory.
LEMMA DirStep ==
  ASSUME TypeInv, InTables, AllocInv, DirInv, [Next]_vars,
         "create" \notin FaultyCalls \/ DirectBlocks = 1
  PROVE  DirInv'
<1>1. CASE pc # "closed"
  <2>1. LiveInv /\ DirHolds
    BY <1>1 DEF AllocInv, DirInv
  <2>2. ASSUME UNCHANGED <<inodes, blk>> PROVE DirInv'
    BY <2>1, <2>2, DirQuiet DEF DirInv
  <2>3. CASE Call
    <3>1. CASE denyfs_fuse_destroy
      BY <2>2, <3>1 DEF denyfs_fuse_destroy, disk
    <3>2. ASSUME NEW n \in Names,
                 \/ denyfs_vol_create(n)
                 \/ denyfs_vol_unlink(n)
                 \/ \E size \in TruncSizes : denyfs_vol_truncate(n, size)
          PROVE  DirInv'
      BY <2>1, <3>2, DirCreate, DirUnlink, DirStartTruncate DEF DirInv
    <3>3. ASSUME NEW n \in Names, NEW off \in Offsets, NEW buf \in Payloads,
                 denyfs_vol_write(n, off, buf)
          PROVE  DirInv'
      BY <2>2, <3>3 DEF denyfs_vol_write, NotFound, Refuse, disk
    <3> QED BY <2>3, <3>1, <3>2, <3>3 DEF Call
  <2>4. CASE \/ WriteMapped \/ AllocateData \/ FindRoot \/ FindTable
             \/ WriteLeaf \/ LinkChild \/ PutChunk \/ WriteDone
    BY <2>1, <2>4, DirWrite DEF DirInv
  <2>5. CASE ShrinkDirect \/ ReadRoots \/ ShrinkChild \/ ShrinkRoot \/ Resize
    BY <2>1, <2>5, DirTruncate DEF DirInv
  <2>6. CASE FlushBlock
    BY <2>2, <2>6 DEF FlushBlock
  <2>7. CASE FlushFails \/ FlushDone
    <3>1. UNCHANGED blk
      BY <2>7 DEF FlushFails, FlushDone, WriteFails, disk
    <3>2. pc' = "closed" \/ UNCHANGED inodes
      BY <2>7 DEF FlushFails, FlushDone, FlushEnds, denyfs_vol_close
    <3> QED BY <2>2, <3>1, <3>2 DEF DirInv
  <2>8. CASE Crash
    BY <2>8 DEF Crash, denyfs_vol_close, DirInv
  <2>9. CASE UNCHANGED vars
    BY <2>2, <2>9 DEF vars
  <2> QED BY <1>1, <2>3, <2>4, <2>5, <2>6, <2>7, <2>8, <2>9
          DEF Next, Step, denyfs_vol_open
<1>2. CASE pc = "closed"
  <2>1. CASE denyfs_vol_open
    <3>1. CASE pc' = "closed"
      BY <3>1 DEF DirInv
    <3>2. CASE pc' # "closed"
      <4>1. /\ ValidImage(dsb, dbitmap, dinodes, blk) /\ inodes' = dinodes
            /\ blk' = blk
        BY <1>2, <2>1, <3>2 DEF denyfs_vol_open, disk
      <4> QED BY <4>1 DEF DirInv, DirHolds, ValidImage, Consistent
    <3> QED BY <3>1, <3>2
  <2>2. CASE UNCHANGED vars
    BY <1>2, <2>2 DEF vars, DirInv
  <2>3. ~Call /\ ~Step /\ ~Crash
    BY <1>2 DEF Call, denyfs_vol_create, denyfs_vol_unlink, denyfs_vol_write,
       denyfs_vol_truncate, denyfs_fuse_destroy, Step, WriteMapped, AllocateData,
       FindRoot, FindTable, WriteLeaf, LinkChild, PutChunk, WriteDone,
       ShrinkDirect, ReadRoots, ShrinkChild, ShrinkRoot, Resize, FlushBlock,
       FlushFails, FlushDone, Crash
  <2> QED BY <2>1, <2>2, <2>3 DEF Next
<1> QED BY <1>1, <1>2

-----------------------------------------------------------------------------
(***************************************************************************)
(* Block counts and pointer tables.                                        *)
(***************************************************************************)
\* The sites of the blocks of a file's contents, and those that name one.
DataSites(i) == {s \in Owned(i) : \E lb \in LogicalBlocks : s = DataSite(i, lb)}
NamedData(f, i) == {s \in DataSites(i) : f[s] # Invalid}

\* A table that is named has an entry.
SingleFilled(f, i) == f[SingleSite(i)] # Invalid =>
                        \E p \in PtrIdx : f[IndirectSite(i, p)] # Invalid
ChildFilled(f, i, o) == f[ChildSite(i, o)] # Invalid =>
                          \E p \in PtrIdx : f[LeafSite(i, o, p)] # Invalid
RootFilled(f, i) == f[DoubleSite(i)] # Invalid =>
                      \E o \in PtrIdx : f[ChildSite(i, o)] # Invalid

\* The invariant: block_count is the number of blocks the map names, and no
\* table is empty but a root whose children a truncate is going through.
Tallies(f, i, count) ==
  /\ count = Cardinality(NamedData(f, i))
  /\ SingleFilled(f, i)
  /\ \A o \in PtrIdx : ChildFilled(f, i, o)
TallyOK ==
  \A i \in FileIno : /\ Tallies(BlockMap, i, inodes[i].block_count)
                     /\ (pc = "children" /\ i = op.ino) \/ RootFilled(BlockMap, i)

\* The sites an inode has.
LEMMA OwnedKinds ==
  ASSUME NEW i \in Ino
  PROVE  /\ \A k \in DirectIdx : DirectSite(i, k) \in DataSites(i)
         /\ \A p \in PtrIdx : IndirectSite(i, p) \in DataSites(i)
         /\ \A o, p \in PtrIdx : LeafSite(i, o, p) \in DataSites(i)
         /\ SingleSite(i) \in Owned(i) /\ DoubleSite(i) \in Owned(i)
         /\ \A o \in PtrIdx : ChildSite(i, o) \in Owned(i)
         /\ DataSites(i) \subseteq Owned(i) /\ IsFiniteSet(DataSites(i))
         /\ \A f : IsFiniteSet(NamedData(f, i))
         /\ \A lb \in LogicalBlocks : DataSite(i, lb) \in DataSites(i)
         /\ SingleSite(i) \notin DataSites(i) /\ DoubleSite(i) \notin DataSites(i)
         /\ \A o \in PtrIdx : ChildSite(i, o) \notin DataSites(i)
<1>1. \A lb \in LogicalBlocks : DataSite(i, lb) \in DataSites(i)
  BY Sites DEF DataSites, Owned, DataSite
<1>2. /\ \A k \in DirectIdx : DirectSite(i, k) \in DataSites(i)
      /\ \A p \in PtrIdx : IndirectSite(i, p) \in DataSites(i)
      /\ \A o, p \in PtrIdx : LeafSite(i, o, p) \in DataSites(i)
  BY <1>1, PlaceBlock DEF DirectSite, IndirectSite, LeafSite
<1>3. /\ SingleSite(i) \in Owned(i) /\ DoubleSite(i) \in Owned(i)
      /\ \A o \in PtrIdx : ChildSite(i, o) \in Owned(i)
  BY Sites DEF Owned, SingleSite, DoubleSite, ChildSite
<1>4. IsFiniteSet(DataSites(i)) /\ DataSites(i) \subseteq Owned(i)
  BY SitesFinite, FS_Subset DEF DataSites, Owned
<1>5. \A f : IsFiniteSet(NamedData(f, i))
  BY <1>4, FS_Subset DEF NamedData
<1>6. /\ SingleSite(i) \notin DataSites(i) /\ DoubleSite(i) \notin DataSites(i)
      /\ \A o \in PtrIdx : ChildSite(i, o) \notin DataSites(i)
  BY SitesApart DEF DataSites
<1> QED BY <1>1, <1>2, <1>3, <1>4, <1>5, <1>6

\* What a map says of a file depends on the file's own sites.
LEMMA SameTally ==
  ASSUME NEW f, NEW g, NEW i \in Ino, \A s \in Owned(i) : g[s] = f[s]
  PROVE  /\ \A n : Tallies(f, i, n) => Tallies(g, i, n)
         /\ RootFilled(f, i) => RootFilled(g, i)
<1>1. NamedData(g, i) = NamedData(f, i)
  BY OwnedKinds DEF NamedData
<1>2. SingleFilled(f, i) => SingleFilled(g, i)
  BY OwnedKinds DEF SingleFilled
<1>3. \A o \in PtrIdx : ChildFilled(f, i, o) => ChildFilled(g, i, o)
  BY OwnedKinds DEF ChildFilled
<1>4. RootFilled(f, i) => RootFilled(g, i)
  BY OwnedKinds DEF RootFilled
<1> QED BY <1>1, <1>2, <1>3, <1>4 DEF Tallies

\* A step that changes the sites and the block count of one inode.
LEMMA OneTally ==
  ASSUME TallyOK, NEW i \in Ino, pc = "children" => op.ino = i,
         \A s \in Site : s \notin Owned(i) => BlockMap'[s] = BlockMap[s],
         \A j \in FileIno : j # i =>
           inodes'[j].block_count = inodes[j].block_count,
         i \in FileIno =>
           /\ Tallies(BlockMap', i, inodes'[i].block_count)
           /\ (pc' = "children" /\ op'.ino = i) \/ RootFilled(BlockMap', i)
  PROVE  TallyOK'
<1> SUFFICES ASSUME NEW j \in FileIno, j # i
             PROVE  /\ Tallies(BlockMap', j, inodes'[j].block_count)
                    /\ RootFilled(BlockMap', j)
  BY DEF TallyOK
<1>1. j \in Ino
  BY Ranges
<1>2. \A s \in Owned(j) : BlockMap'[s] = BlockMap[s]
  BY DEF Owned
<1>3. /\ Tallies(BlockMap, j, inodes[j].block_count)
      /\ RootFilled(BlockMap, j)
  BY DEF TallyOK
<1> QED BY <1>1, <1>2, <1>3, SameTally

\* A step that leaves the map and the block counts alone.
LEMMA StillTally ==
  ASSUME TallyOK, BlockMap' = BlockMap,
         \A j \in FileIno : inodes'[j].block_count = inodes[j].block_count,
         pc = "children" => RootFilled(BlockMap, op.ino)
  PROVE  TallyOK'
BY DEF TallyOK

\* Map g is f with a block of file i entered at site x, together with the
\* tables on the way to it: Y are the new sites.
Enters(f, g, i, Y, x) ==
  /\ Y \subseteq Owned(i) /\ Y \intersect DataSites(i) = {x}
  /\ \A s \in Y : f[s] = Invalid /\ g[s] # Invalid
  /\ AgreeBut(f, g, Y)
  /\ SingleSite(i) \in Y => \E p \in PtrIdx : x = IndirectSite(i, p)
  /\ \A o \in PtrIdx : ChildSite(i, o) \in Y =>
       \E p \in PtrIdx : x = LeafSite(i, o, p)
  /\ DoubleSite(i) \in Y => \E o \in PtrIdx : ChildSite(i, o) \in Y

\* A step that does so.
LEMMA GrownTally ==
  ASSUME TallyOK, pc # "children", NEW i \in FileIno, NEW Y, NEW x,
         Enters(BlockMap, BlockMap', i, Y, x),
         inodes'[i].block_count = inodes[i].block_count + 1,
         \A j \in FileIno : j # i =>
           inodes'[j].block_count = inodes[j].block_count
  PROVE  TallyOK'
<1> DEFINE f == BlockMap
           g == BlockMap'
<1>1. i \in Ino
  BY Ranges
<1>2. /\ Tallies(f, i, inodes[i].block_count) /\ RootFilled(f, i)
  BY DEF TallyOK
<1>3. \A s \in Site : s \notin Y => g[s] = f[s]
  BY DEF Enters, AgreeBut
<1>4. Owned(i) \subseteq Site
  BY DEF Owned
<1> HIDE DEF f, g
<1>5. /\ Enters(f, g, i, Y, x)
      /\ \A s \in Y : f[s] = Invalid /\ g[s] # Invalid
      /\ \A s \in Site : f[s] # Invalid => g[s] # Invalid
      /\ \A s \in Site : g[s] # Invalid => f[s] # Invalid \/ s \in Y
  BY <1>3 DEF f, g, Enters
<1>6. NamedData(g, i) = NamedData(f, i) \union {x} /\ x \notin NamedData(f, i)
  BY <1>1, <1>4, <1>5, OwnedKinds DEF NamedData, Enters
<1>7. inodes'[i].block_count = Cardinality(NamedData(g, i))
  BY <1>1, <1>2, <1>6, OwnedKinds, FS_AddElement DEF Tallies
<1>8. SingleFilled(g, i)
  BY <1>1, <1>2, <1>4, <1>5, OwnedKinds DEF SingleFilled, Tallies, Enters
<1>9. \A o \in PtrIdx : ChildFilled(g, i, o)
  BY <1>1, <1>2, <1>4, <1>5, OwnedKinds DEF ChildFilled, Tallies, Enters
<1>10. RootFilled(g, i)
  BY <1>1, <1>2, <1>4, <1>5, OwnedKinds DEF RootFilled, Enters
<1>11. Tallies(g, i, inodes'[i].block_count)
  BY <1>7, <1>8, <1>9 DEF Tallies
<1> QED BY <1>1, <1>3, <1>10, <1>11, OneTally DEF f, g, Enters

\* A step that takes the sites X of a file out of the map, and no table
\* without its last entry.
LEMMA CutTally ==
  ASSUME TallyOK, NEW i \in FileIno, pc = "children" => op.ino = i, NEW X,
         X \subseteq Owned(i), CutAt(BlockMap, BlockMap', X),
         inodes'[i].block_count = inodes[i].block_count
                                    - Cardinality(NamedData(BlockMap, i) \intersect X),
         \A j \in FileIno : j # i =>
           inodes'[j].block_count = inodes[j].block_count,
         SingleFilled(BlockMap', i),
         \A o \in PtrIdx : ChildFilled(BlockMap', i, o),
         (pc' = "children" /\ op'.ino = i) \/ RootFilled(BlockMap', i)
  PROVE  TallyOK'
<1> DEFINE f == BlockMap
           g == BlockMap'
<1>1. i \in Ino
  BY Ranges
<1>2. inodes[i].block_count = Cardinality(NamedData(f, i))
  BY DEF TallyOK, Tallies
<1>3. \A s \in Site : g[s] = IF s \in X THEN Invalid ELSE f[s]
  BY DEF CutAt
<1>4. Owned(i) \subseteq Site
  BY DEF Owned
<1> HIDE DEF f, g
<1>5. NamedData(g, i) = NamedData(f, i) \ X
  BY <1>1, <1>3, <1>4, OwnedKinds DEF NamedData
<1>6. Cardinality(NamedData(g, i))
        = Cardinality(NamedData(f, i)) - Cardinality(NamedData(f, i) \intersect X)
  BY <1>1, <1>5, OwnedKinds, FS_Difference
<1>7. Tallies(g, i, inodes'[i].block_count)
  BY <1>2, <1>6 DEF Tallies, f, g
<1> QED BY <1>1, <1>3, <1>7, OneTally DEF f, g

\* An injective function has as many values as arguments.
LEMMA Injected ==
  ASSUME NEW S, IsFiniteSet(S), NEW f,
         \A s, t \in S : f[s] = f[t] => s = t
  PROVE  /\ IsFiniteSet({f[s] : s \in S})
         /\ Cardinality({f[s] : s \in S}) = Cardinality(S)
<1> DEFINE T == {f[s] : s \in S}
           g == [s \in S |-> f[s]]
<1>1. g \in Bijection(S, T)
  <2>1. g \in [S -> T]
    OBVIOUS
  <2>2. \A a, b \in S : g[a] = g[b] => a = b
    OBVIOUS
  <2>3. \A t \in T : \E a \in S : g[a] = t
    OBVIOUS
  <2> HIDE DEF g, T
  <2> QED BY <2>1, <2>2, <2>3, Fun_IsBij
<1>2. ExistsBijection(S, T)
  BY <1>1 DEF ExistsBijection
<1> HIDE DEF T
<1>3. IsFiniteSet(T) /\ Cardinality(T) = Cardinality(S)
  BY <1>2, FS_Bijection
<1> QED BY <1>3 DEF T

\* S are the sites of the logical blocks from a on, at distances Q.
SitesFrom(S, i, a, Q) == /\ \A q \in Q : DataSite(i, a + q) \in S
                         /\ \A x \in S : \E q \in Q : x = DataSite(i, a + q)

\* They are as many as the distances.
LEMMA ManySites ==
  ASSUME NEW i, NEW a, a \in Int, NEW Q, Q \subseteq Int, IsFiniteSet(Q),
         NEW S, SitesFrom(S, i, a, Q)
  PROVE  IsFiniteSet(S) /\ Cardinality(S) = Cardinality(Q)
<1> DEFINE f == [q \in Q |-> DataSite(i, a + q)]
<1>1. ASSUME NEW p \in Q, NEW q \in Q, f[p] = f[q] PROVE p = q
  <2>1. a + p = a + q
    BY <1>1, SitesApart
  <2>2. p \in Int /\ q \in Int
    OBVIOUS
  <2> QED BY <2>1, <2>2
<1>2. {f[q] : q \in Q} = S
  BY DEF SitesFrom
<1> HIDE DEF f
<1>3. /\ IsFiniteSet({f[q] : q \in Q})
      /\ Cardinality({f[q] : q \in Q}) = Cardinality(Q)
  BY <1>1, Injected
<1> QED BY <1>2, <1>3

\* Indices are finitely many numbers.
LEMMA Indices ==
  /\ DirectIdx \subseteq Nat /\ IsFiniteSet(DirectIdx)
  /\ PtrIdx \subseteq Nat /\ IsFiniteSet(PtrIdx)
  /\ DirectBlocks \in Int
  /\ \A o \in PtrIdx : ChildFirst(o) \in Int
<1>1. DirectIdx \subseteq Nat /\ PtrIdx \subseteq Nat /\ DirectBlocks \in Int
  BY SizesAssumption DEF DirectIdx, PtrIdx
<1>2. IsFiniteSet(DirectIdx) /\ IsFiniteSet(PtrIdx)
  BY SizesAssumption, FS_Interval DEF DirectIdx, PtrIdx
<1>3. ASSUME NEW o \in PtrIdx PROVE ChildFirst(o) \in Int
  <2> DEFINE m == (o + 1) * PointersPerBlock
  <2>1. m \in Int
    BY <1>1, SizesAssumption
  <2> HIDE DEF m
  <2> QED BY <1>1, <2>1 DEF ChildFirst, m
<1> QED BY <1>1, <1>2, <1>3

\* The sites of data blocks are different from each other.
LEMMA DataApart ==
  ASSUME NEW i
  PROVE  /\ \A k \in DirectIdx, p \in PtrIdx : DirectSite(i, k) # IndirectSite(i, p)
         /\ \A k \in DirectIdx, o, p \in PtrIdx : DirectSite(i, k) # LeafSite(i, o, p)
         /\ \A p, o, q \in PtrIdx : IndirectSite(i, p) # LeafSite(i, o, q)
         /\ \A p, q \in PtrIdx : IndirectSite(i, p) = IndirectSite(i, q) => p = q
         /\ \A o, n, p, q \in PtrIdx :
              LeafSite(i, n, p) = LeafSite(i, o, q) => n = o /\ p = q
<1>1. 0 \in DirectIdx
  BY SizesAssumption DEF DirectIdx
<1> SUFFICES ASSUME NEW k \in DirectIdx, NEW p \in PtrIdx, NEW n \in PtrIdx,
                    NEW o \in PtrIdx, NEW q \in PtrIdx
             PROVE  /\ DirectSite(i, k) # IndirectSite(i, p)
                    /\ DirectSite(i, k) # LeafSite(i, n, p)
                    /\ IndirectSite(i, p) # LeafSite(i, n, q)
                    /\ IndirectSite(i, p) = IndirectSite(i, q) => p = q
                    /\ LeafSite(i, n, p) = LeafSite(i, o, q) => n = o /\ p = q
  BY <1>1
<1>2. k < DirectBlocks /\ k \in Nat
  BY SizesAssumption DEF DirectIdx
<1> DEFINE a == DirectBlocks + p
           b == DirectBlocks + q
           c == DirectBlocks + (n + 1) * PointersPerBlock + p
           d == DirectBlocks + (o + 1) * PointersPerBlock + q
           e == DirectBlocks + (n + 1) * PointersPerBlock + q
<1>3. /\ a \in LogicalBlocks /\ InIndirect(a)
      /\ c \in LogicalBlocks /\ InDouble(c) /\ Outer(c) = n /\ Inner(c) = p
      /\ InDouble(d) /\ Outer(d) = o /\ Inner(d) = q
      /\ e \in LogicalBlocks /\ InDouble(e)
  BY PlaceBlock
<1>4. /\ DirectSite(i, k) = DataSite(i, k) /\ IndirectSite(i, p) = DataSite(i, a)
      /\ IndirectSite(i, q) = DataSite(i, b) /\ LeafSite(i, n, p) = DataSite(i, c)
      /\ LeafSite(i, o, q) = DataSite(i, d) /\ LeafSite(i, n, q) = DataSite(i, e)
  BY DEF DirectSite, IndirectSite, LeafSite
<1>5. a = b => p = q
  BY Indices
<1> HIDE DEF a, b, c, d, e
<1>6. ~InIndirect(k) /\ ~InDouble(k)
  BY <1>2, SizesAssumption DEF InIndirect, InDouble
<1>7. ~InIndirect(e)
  BY <1>3, BlockPlace
<1> QED BY <1>3, <1>4, <1>5, <1>6, <1>7, SitesApart

\* The entries of table t past the new end of file, by index.
Gone(t, first) == {p \in PtrIdx : /\ first + p >= NewBlocks
                                  /\ AsPointers(blk, t)[p] # Invalid}

\* ShrinkDirect counts what it drops, and keeps no empty indirect table.
LEMMA TallyDirect ==
  ASSUME TypeInv, LiveInv, TallyOK, pc = "shrink", DirectShrunk
  PROVE  TallyOK'
<1> DEFINE i == op.ino
           f == BlockMap
           g == BlockMap'
           t == node.indirect
           D == {DirectSite(i, k) : k \in Cut}
           Q == IF t = Invalid THEN {} ELSE Gone(t, DirectBlocks)
           E == {IndirectSite(i, p) : p \in Q}
           X == CutSites(i) \union SingleCut(i)
<1>1. /\ i \in Ino /\ i \in FileIno /\ node = inodes[i] /\ node \in Inode
      /\ IsFile(i)
  BY ShrinkSites, NodesFile DEF LiveInv
<1>2. f = Map(inodes, blk)
  BY TreeIs
<1>3. /\ \A k \in DirectIdx : f[DirectSite(i, k)] = node.direct[k]
      /\ \A p \in PtrIdx : f[IndirectSite(i, p)] = PtrAt(blk, t, p)
      /\ f[SingleSite(i)] = t
  BY <1>1, <1>2, MapKinds
<1>4. CutAt(f, g, X) /\ pc' = "roots"
  BY DEF DirectShrunk
<1>5. PICK nd : /\ Become(nd) /\ nd.type = node.type
                /\ nd.block_count = node.block_count - Cardinality(Cut)
                     - (IF t = Invalid THEN 0 ELSE DroppedCount(t, DirectBlocks))
  BY DEF DirectShrunk
<1>6. /\ inodes'[i] = nd
      /\ \A j \in FileIno : j # i => inodes'[j] = inodes[j]
  BY <1>1, <1>5, NodesFile, Ranges DEF LiveInv, IsFile
<1> HIDE DEF i, f, g
<1>7. /\ SingleSite(i) \in Owned(i) /\ DataSites(i) \subseteq Owned(i)
      /\ \A k \in DirectIdx : DirectSite(i, k) \in DataSites(i)
      /\ \A p \in PtrIdx : IndirectSite(i, p) \in DataSites(i)
      /\ \A o, p \in PtrIdx : LeafSite(i, o, p) \in DataSites(i)
      /\ SingleSite(i) \notin DataSites(i)
      /\ DoubleSite(i) \in Owned(i) /\ DoubleSite(i) \notin DataSites(i)
      /\ \A o \in PtrIdx :
           ChildSite(i, o) \in Owned(i) /\ ChildSite(i, o) \notin DataSites(i)
  BY <1>1, OwnedKinds
<1>8. /\ Cut \subseteq DirectIdx /\ \A k \in Cut : node.direct[k] # Invalid
      /\ Q \subseteq PtrIdx
      /\ \A p \in PtrIdx : t # Invalid =>
           PtrAt(blk, t, p) = AsPointers(blk, t)[p]
      /\ \A p \in PtrIdx : t = Invalid => PtrAt(blk, t, p) = Invalid
  BY DEF Cut, Gone, PtrAt
<1>9. SingleCut(i) \subseteq {SingleSite(i)} \union {IndirectSite(i, p) : p \in PtrIdx}
  BY DEF SingleCut, IndirectSites, Past
<1>10. X \subseteq Owned(i)
  BY <1>7, <1>8, <1>9 DEF CutSites
<1>11. NamedData(f, i) \intersect X = D \union E
  <2>1. CutSites(i) = D /\ D \subseteq NamedData(f, i)
    BY <1>3, <1>7, <1>8 DEF CutSites, NamedData
  <2>2. NamedData(f, i) \intersect SingleCut(i) = E
    <3>1. CASE t = Invalid
      BY <3>1 DEF SingleCut
    <3>2. CASE t # Invalid
      <4>1. \A p \in PtrIdx : IndirectSite(i, p) \in NamedData(f, i)
                               <=> AsPointers(blk, t)[p] # Invalid
        BY <1>3, <1>7, <1>8, <3>2 DEF NamedData
      <4>2. SingleSite(i) \notin NamedData(f, i)
        BY <1>7 DEF NamedData
      <4>3. CASE Kept(t, DirectBlocks) = NoPtrs
        <5>1. \A p \in PtrIdx : AsPointers(blk, t)[p] # Invalid =>
                                  DirectBlocks + p >= NewBlocks
          <6>1. \A p \in PtrIdx : Kept(t, DirectBlocks)[p] = Invalid
            BY <4>3 DEF NoPtrs
          <6> QED BY <6>1 DEF Kept
        <5>2. SingleCut(i) = IndirectSites(i) \union {SingleSite(i)}
          BY <3>2, <4>3 DEF SingleCut
        <5> QED BY <3>2, <4>1, <4>2, <5>1, <5>2 DEF IndirectSites, Gone
      <4>4. CASE Kept(t, DirectBlocks) # NoPtrs
        <5>1. SingleCut(i) = {IndirectSite(i, p) : p \in Past(DirectBlocks)}
          BY <3>2, <4>4 DEF SingleCut
        <5> QED BY <3>2, <4>1, <5>1 DEF Past, Gone
      <4> QED BY <4>3, <4>4
    <3> QED BY <3>1, <3>2
  <2> QED BY <2>1, <2>2
<1>12. Cardinality(D \union E) = Cardinality(Cut) + Cardinality(Q)
  <2>1. Cut \subseteq Int /\ IsFiniteSet(Cut) /\ Q \subseteq Int /\ IsFiniteSet(Q)
    <3> HIDE DEF Q
    <3>1. IsFiniteSet(Cut) /\ IsFiniteSet(Q)
      BY <1>8, Indices, FS_Subset
    <3>2. Cut \subseteq Int /\ Q \subseteq Int
      BY <1>8, Indices
    <3> QED BY <3>1, <3>2
  <2>2. SitesFrom(D, i, 0, Cut)
    BY <2>1 DEF DirectSite, SitesFrom
  <2>3. SitesFrom(E, i, DirectBlocks, Q)
    BY DEF IndirectSite, SitesFrom
  <2> HIDE DEF D, E, Q
  <2>4. /\ IsFiniteSet(D) /\ Cardinality(D) = Cardinality(Cut)
        /\ IsFiniteSet(E) /\ Cardinality(E) = Cardinality(Q)
    <3>1. 0 \in Int /\ DirectBlocks \in Int
      BY Indices
    <3>2. IsFiniteSet(D) /\ Cardinality(D) = Cardinality(Cut)
      BY ONLY <2>1, <2>2, <3>1, ManySites
    <3>3. IsFiniteSet(E) /\ Cardinality(E) = Cardinality(Q)
      BY ONLY <2>1, <2>3, <3>1, ManySites
    <3> QED BY <3>2, <3>3
  <2>5. D \intersect E = {}
    BY <1>8, DataApart DEF D, E
  <2>6. Cardinality(D \union E)
          = Cardinality(D) + Cardinality(E) - Cardinality(D \intersect E)
    BY <2>4, FS_Union
  <2>7. Cardinality(D) \in Nat /\ Cardinality(E) \in Nat
    BY <2>4, FS_CardinalityType
  <2> QED BY <2>4, <2>5, <2>6, <2>7, FS_EmptySet
<1>13. nd.block_count = node.block_count - Cardinality(NamedData(f, i) \intersect X)
  <2>1. /\ Cardinality(Cut) \in Nat /\ node.block_count \in Int
        /\ Cardinality(Q) \in Nat
    BY <1>1, <1>8, Indices, CutFinite, FS_Subset, FS_CardinalityType DEF Inode
  <2>2. (IF t = Invalid THEN 0 ELSE DroppedCount(t, DirectBlocks)) = Cardinality(Q)
    BY FS_EmptySet DEF DroppedCount, Gone
  <2> HIDE DEF D, E, Q, X, t
  <2>3. nd.block_count = node.block_count - Cardinality(Cut) - Cardinality(Q)
    BY <1>5, <2>2
  <2>4. Cardinality(NamedData(f, i) \intersect X) = Cardinality(Cut) + Cardinality(Q)
    BY <1>11, <1>12
  <2> QED BY <2>1, <2>3, <2>4
<1>14. /\ SingleFilled(f, i) /\ RootFilled(f, i)
       /\ \A o \in PtrIdx : ChildFilled(f, i, o)
  BY <1>1 DEF TallyOK, Tallies, f, i
<1>15. \A s \in Owned(i) : g[s] = IF s \in X THEN Invalid ELSE f[s]
  BY <1>4 DEF CutAt, Owned
<1>16. SingleFilled(g, i)
  <2> SUFFICES ASSUME g[SingleSite(i)] # Invalid
               PROVE  \E p \in PtrIdx : g[IndirectSite(i, p)] # Invalid
    BY DEF SingleFilled
  <2>1. SingleSite(i) \notin X /\ t # Invalid
    BY <1>3, <1>7, <1>15
  <2>2. SingleCut(i) = {IndirectSite(i, p) : p \in Past(DirectBlocks)}
        /\ Kept(t, DirectBlocks) # NoPtrs
    BY <2>1 DEF SingleCut
  <2>3. PICK p \in PtrIdx : Kept(t, DirectBlocks)[p] # Invalid
    BY <2>2 DEF Kept, NoPtrs
  <2>4. ~(DirectBlocks + p >= NewBlocks) /\ AsPointers(blk, t)[p] # Invalid
    BY <2>3 DEF Kept
  <2>5. IndirectSite(i, p) \notin X
    <3>1. IndirectSite(i, p) \notin CutSites(i)
      BY <1>8, DataApart DEF CutSites
    <3>2. IndirectSite(i, p) \notin SingleCut(i)
      BY <2>2, <2>4, DataApart DEF Past
    <3> QED BY <3>1, <3>2
  <2> QED BY <1>3, <1>7, <1>8, <1>15, <2>1, <2>4, <2>5
<1>17. /\ \A o \in PtrIdx : ChildSite(i, o) \notin X
       /\ \A o, p \in PtrIdx : LeafSite(i, o, p) \notin X
       /\ DoubleSite(i) \notin X
  <2>1. /\ \A o \in PtrIdx : ChildSite(i, o) \notin CutSites(i)
        /\ \A o, p \in PtrIdx : LeafSite(i, o, p) \notin CutSites(i)
        /\ DoubleSite(i) \notin CutSites(i)
    BY <1>8, DataApart, TableKindsApart DEF CutSites
  <2>2. /\ \A o \in PtrIdx : ChildSite(i, o) \notin SingleCut(i)
        /\ DoubleSite(i) \notin SingleCut(i)
    BY <1>9, TableKindsApart
  <2>3. \A o, p \in PtrIdx : LeafSite(i, o, p) \notin SingleCut(i)
    BY <1>9, DataApart, TableKindsApart
  <2> QED BY <2>1, <2>2, <2>3
<1>18. (\A o \in PtrIdx : ChildFilled(g, i, o)) /\ RootFilled(g, i)
  BY <1>7, <1>14, <1>15, <1>17 DEF ChildFilled, RootFilled
<1> HIDE DEF X, t
<1> QED BY <1>1, <1>4, <1>6, <1>10, <1>13, <1>16, <1>18, CutTally DEF f, g, i

\* So does ShrinkChild with the blocks below child o.
LEMMA TallyChild ==
  ASSUME TypeInv, LiveInv, TallyOK, pc = "children", NEW o \in PtrIdx,
         ChildShrunk(o)
  PROVE  TallyOK'
<1> DEFINE i == op.ino
           f == BlockMap
           g == BlockMap'
           t == op.roots[o]
           first == ChildFirst(o)
           nd == [node EXCEPT !.block_count = @ - DroppedCount(t, first)]
           Q == Gone(t, first)
           E == {LeafSite(i, o, p) : p \in Q}
           X == ChildCut(i, o)
<1>1. /\ i \in Ino /\ i \in FileIno /\ node = inodes[i] /\ node \in Inode
      /\ IsFile(i)
  BY ShrinkSites, NodesFile DEF LiveInv
<1>2. /\ \A p \in PtrIdx : f[LeafSite(i, o, p)] = AsPointers(blk, t)[p]
      /\ CutAt(f, g, X) /\ pc' = "children" /\ op'.ino = i /\ Become(nd)
  BY DEF ChildShrunk
<1>3. /\ nd.type = node.type
      /\ nd.block_count = node.block_count - DroppedCount(t, first)
  BY <1>1 DEF Inode
<1> HIDE DEF nd
<1>4. /\ inodes'[i] = nd
      /\ \A j \in FileIno : j # i => inodes'[j] = inodes[j]
  BY <1>1, <1>2, <1>3, NodesFile, Ranges DEF LiveInv, IsFile
<1> HIDE DEF i, f, g
<1>5. /\ SingleSite(i) \in Owned(i) /\ DataSites(i) \subseteq Owned(i)
      /\ \A p \in PtrIdx : IndirectSite(i, p) \in DataSites(i)
      /\ \A n, p \in PtrIdx : LeafSite(i, n, p) \in DataSites(i)
      /\ SingleSite(i) \notin DataSites(i)
      /\ \A n \in PtrIdx :
           ChildSite(i, n) \in Owned(i) /\ ChildSite(i, n) \notin DataSites(i)
  BY <1>1, OwnedKinds
<1>6. X \subseteq {ChildSite(i, o)} \union {LeafSite(i, o, p) : p \in PtrIdx}
  BY DEF ChildCut, LeafSites, LeafEntries, Past
<1>7. X \subseteq Owned(i)
  BY <1>5, <1>6
<1>8. NamedData(f, i) \intersect X = E
  <2>1. \A p \in PtrIdx : LeafSite(i, o, p) \in NamedData(f, i)
                           <=> AsPointers(blk, t)[p] # Invalid
    BY <1>2, <1>5 DEF NamedData
  <2>2. ChildSite(i, o) \notin NamedData(f, i)
    BY <1>5 DEF NamedData
  <2>3. CASE Kept(t, first) = NoPtrs
    <3>1. \A p \in PtrIdx : AsPointers(blk, t)[p] # Invalid =>
                              first + p >= NewBlocks
      <4>1. \A p \in PtrIdx : Kept(t, first)[p] = Invalid
        BY <2>3 DEF NoPtrs
      <4> QED BY <4>1 DEF Kept
    <3>2. X = LeafSites(i, o) \union {ChildSite(i, o)}
      BY <2>3 DEF ChildCut
    <3> HIDE DEF first, X
    <3> QED BY <2>1, <2>2, <3>1, <3>2 DEF LeafSites, Gone
  <2>4. CASE Kept(t, first) # NoPtrs
    <3>1. X = LeafEntries(i, o, Past(first))
      BY <2>4 DEF ChildCut
    <3> HIDE DEF first, X
    <3> QED BY <2>1, <3>1 DEF LeafEntries, Past, Gone
  <2> QED BY <2>3, <2>4
<1>9. Cardinality(E) = DroppedCount(t, first)
  <2>1. Q \subseteq PtrIdx
    BY DEF Gone
  <2>2. SitesFrom(E, i, first, Q)
    <3>1. \A p \in Q : LeafSite(i, o, p) = DataSite(i, first + p)
      BY DEF LeafSite, ChildFirst
    <3> HIDE DEF first, Q
    <3> QED BY <3>1 DEF SitesFrom
  <2>3. DroppedCount(t, first) = Cardinality(Q)
    BY DEF DroppedCount, Gone
  <2>4. first \in Int
    BY Indices
  <2> HIDE DEF E, Q, first
  <2>5. IsFiniteSet(Q)
    BY <2>1, Indices, FS_Subset
  <2>6. Q \subseteq Int
    BY <2>1, Indices
  <2>7. Cardinality(E) = Cardinality(Q)
    BY ONLY <2>2, <2>4, <2>5, <2>6, ManySites
  <2> QED BY <2>3, <2>7
<1>10. nd.block_count = node.block_count - Cardinality(NamedData(f, i) \intersect X)
  BY <1>3, <1>8, <1>9
<1>11. /\ SingleFilled(f, i)
       /\ \A n \in PtrIdx : ChildFilled(f, i, n)
  BY <1>1 DEF TallyOK, Tallies, f, i
<1>12. \A s \in Owned(i) : g[s] = IF s \in X THEN Invalid ELSE f[s]
  BY <1>2 DEF CutAt, Owned
<1>13. SingleFilled(g, i)
  <2> HIDE DEF X
  <2>1. SingleSite(i) \notin X
    BY <1>6, TableKindsApart
  <2>2. \A p \in PtrIdx : IndirectSite(i, p) \notin X
    BY <1>6, DataApart, TableKindsApart
  <2> QED BY <1>5, <1>11, <1>12, <2>1, <2>2 DEF SingleFilled
<1>14. ASSUME NEW n \in PtrIdx PROVE ChildFilled(g, i, n)
  <2>1. CASE n # o
    <3>1. ChildSite(i, n) \notin X /\ \A p \in PtrIdx : LeafSite(i, n, p) \notin X
      BY <1>6, <2>1, DataApart, TableKindsApart
    <3> QED BY <1>5, <1>11, <1>12, <3>1 DEF ChildFilled
  <2>2. CASE n = o
    <3> SUFFICES ASSUME g[ChildSite(i, o)] # Invalid
                 PROVE  \E p \in PtrIdx : g[LeafSite(i, o, p)] # Invalid
      BY <2>2 DEF ChildFilled
    <3>1. ChildSite(i, o) \notin X
      BY <1>5, <1>12
    <3>2. Kept(t, first) # NoPtrs /\ X = LeafEntries(i, o, Past(first))
      BY <3>1 DEF ChildCut
    <3>3. PICK p \in PtrIdx : Kept(t, first)[p] # Invalid
      BY <3>2 DEF Kept, NoPtrs
    <3>4. ~(first + p >= NewBlocks) /\ AsPointers(blk, t)[p] # Invalid
      BY <3>3 DEF Kept
    <3>5. LeafSite(i, o, p) \notin X
      <4> HIDE DEF X, first
      <4> QED BY <3>2, <3>4, DataApart DEF Past, LeafEntries
    <3> HIDE DEF X, t
    <3> QED BY <1>2, <1>5, <1>12, <3>4, <3>5
  <2> QED BY <2>1, <2>2
<1> HIDE DEF X, t, first
<1> QED BY <1>1, <1>2, <1>4, <1>7, <1>10, <1>13, <1>14, CutTally DEF f, g, i

\* ShrinkRoot frees a root without children, and no other.
LEMMA TallyRoot ==
  ASSUME TypeInv, LiveInv, TallyOK, pc = "children", RootShrunk
  PROVE  TallyOK'
<1> DEFINE i == op.ino
           f == BlockMap
           g == BlockMap'
           X == {DoubleSite(i)}
           nd == [node EXCEPT !.double = Invalid]
<1>1. /\ i \in Ino /\ i \in FileIno /\ node = inodes[i] /\ node \in Inode
      /\ IsFile(i)
  BY ShrinkSites, NodesFile DEF LiveInv
<1>2. CASE /\ \A o \in PtrIdx : f[ChildSite(i, o)] = Invalid
           /\ Become(nd) /\ CutAt(f, g, X)
  <2>1. nd.type = node.type /\ nd.block_count = node.block_count
    BY <1>1 DEF Inode
  <2> HIDE DEF nd
  <2>2. /\ inodes'[i] = nd
        /\ \A j \in FileIno : j # i => inodes'[j] = inodes[j]
    BY <1>1, <1>2, <2>1, NodesFile, Ranges DEF LiveInv, IsFile
  <2>3. /\ SingleFilled(f, i) /\ \A o \in PtrIdx : ChildFilled(f, i, o)
        /\ node.block_count \in Int
    BY <1>1 DEF TallyOK, Tallies, Inode
  <2> HIDE DEF i, f, g
  <2>4. /\ X \subseteq Owned(i) /\ NamedData(f, i) \intersect X = {}
        /\ SingleSite(i) \in Owned(i) /\ DataSites(i) \subseteq Owned(i)
        /\ \A p \in PtrIdx : IndirectSite(i, p) \in DataSites(i)
        /\ \A o, p \in PtrIdx : LeafSite(i, o, p) \in DataSites(i)
        /\ DoubleSite(i) \in Owned(i) /\ DoubleSite(i) \notin DataSites(i)
        /\ \A o \in PtrIdx : ChildSite(i, o) \in Owned(i)
    BY <1>1, OwnedKinds DEF NamedData
  <2>5. \A s \in Owned(i) : g[s] = IF s = DoubleSite(i) THEN Invalid ELSE f[s]
    BY <1>2 DEF CutAt, Owned
  <2>6. SingleFilled(g, i) /\ \A o \in PtrIdx : ChildFilled(g, i, o)
    BY <2>3, <2>4, <2>5, TableKindsApart DEF SingleFilled, ChildFilled
  <2>7. RootFilled(g, i)
    BY <2>4, <2>5 DEF RootFilled
  <2> HIDE DEF X
  <2>8. nd.block_count
          = node.block_count - Cardinality(NamedData(f, i) \intersect X)
    <3>1. Cardinality(NamedData(f, i) \intersect X) = 0
      BY <2>4, FS_EmptySet
    <3> QED BY <2>1, <2>3, <3>1
  <2> QED BY <1>1, <1>2, <2>2, <2>4, <2>6, <2>7, <2>8, CutTally DEF f, g, i
<1>3. CASE /\ \E o \in PtrIdx : f[ChildSite(i, o)] # Invalid
           /\ UNCHANGED inodes /\ BlockMap' = BlockMap
  <2>1. RootFilled(BlockMap, op.ino)
    BY <1>3 DEF RootFilled
  <2> QED BY <1>3, <2>1, StillTally
<1> QED BY <1>2, <1>3 DEF RootShrunk

\* free_inode leaves nothing to count.
LEMMA TallyUnlink ==
  ASSUME TypeInv, TallyOK, pc = "idle", pc' = "flush", NEW i \in FileIno,
         CutAt(BlockMap, BlockMap', Owned(i)),
         inodes' = [inodes EXCEPT ![i] = EmptyInode("FREE")]
  PROVE  TallyOK'
<1> DEFINE f == BlockMap
           g == BlockMap'
<1>1. i \in Ino /\ inodes \in [Ino -> Inode]
  BY Ranges, TypeParts DEF InodesOK
<1>2. /\ inodes'[i] = EmptyInode("FREE")
      /\ \A j \in FileIno : j # i => inodes'[j] = inodes[j]
  BY <1>1, Ranges
<1>3. inodes[i].block_count = Cardinality(NamedData(f, i))
  BY DEF TallyOK, Tallies
<1>4. \A s \in Owned(i) : g[s] = Invalid
  BY DEF CutAt, Owned
<1> HIDE DEF f, g
<1>5. /\ NamedData(f, i) \intersect Owned(i) = NamedData(f, i)
      /\ Cardinality(NamedData(f, i)) \in Nat
  BY <1>1, OwnedKinds, FS_CardinalityType DEF NamedData
<1>6. inodes'[i].block_count
        = inodes[i].block_count - Cardinality(NamedData(f, i) \intersect Owned(i))
  <2>1. inodes'[i].block_count = 0
    BY <1>2 DEF EmptyInode
  <2>2. Cardinality(NamedData(f, i) \intersect Owned(i)) = inodes[i].block_count
        /\ inodes[i].block_count \in Nat
    BY <1>3, <1>5
  <2> QED BY <2>1, <2>2
<1>7. /\ SingleFilled(g, i) /\ RootFilled(g, i)
      /\ \A o \in PtrIdx : ChildFilled(g, i, o)
  BY <1>1, <1>4, OwnedKinds DEF SingleFilled, RootFilled, ChildFilled
<1> QED BY <1>2, <1>6, <1>7, CutTally DEF f, g

\* Block t holds no contents of a file.
Beside(t) == \A i \in FileIno, lb \in LogicalBlocks :
  BlockMap[DataSite(i, lb)] # Invalid => BlockMap[DataSite(i, lb)] # t

\* Blocks that are named nowhere, tables, and blocks of the directory hold none.
LEMMA Besides ==
  ASSUME TypeInv, LiveInv
  PROVE  /\ \A t : t \notin Named => Beside(t)
         /\ \A s \in Site : s[1] = 0 => Beside(BlockMap[s])
         /\ \A i \in Ino : Beside(BlockMap[SingleSite(i)])
                          /\ Beside(BlockMap[DoubleSite(i)])
         /\ \A i \in Ino, o \in PtrIdx : Beside(BlockMap[ChildSite(i, o)])
<1>1. DOMAIN BlockMap = Site /\ Once(BlockMap)
  BY DEF BlockMap, Map, LiveInv, MapExact
<1>2. \A i \in FileIno, lb \in LogicalBlocks :
        /\ DataSite(i, lb) \in Site /\ DataSite(i, lb) \in DataSites(i)
        /\ DataSite(i, lb)[1] = i /\ i # 0 /\ i \in Ino
  <2>1. \A i \in FileIno : i # 0 /\ i \in Ino
    BY Ranges DEF FileIno
  <2> QED BY <2>1, Sites, OwnedKinds DEF DataSite
<1>3. ASSUME NEW t, t \notin Named PROVE Beside(t)
  BY <1>1, <1>2, <1>3 DEF Beside, Named, Img
<1>4. ASSUME NEW s \in Site,
             \A i \in FileIno, lb \in LogicalBlocks : s # DataSite(i, lb)
      PROVE  Beside(BlockMap[s])
  BY <1>1, <1>2, <1>4 DEF Beside, Once
<1>5. ASSUME NEW s \in Site, s[1] = 0 PROVE Beside(BlockMap[s])
  BY <1>2, <1>4, <1>5
<1>6. ASSUME NEW i \in Ino, NEW s \in Site, s \in Owned(i), s \notin DataSites(i)
      PROVE  Beside(BlockMap[s])
  <2>1. s[1] = i
    BY <1>6 DEF Owned
  <2> QED BY <1>2, <1>4, <1>6, <2>1
<1>7. \A i \in Ino : /\ SingleSite(i) \in Site /\ DoubleSite(i) \in Site
                     /\ \A o \in PtrIdx : ChildSite(i, o) \in Site
  BY KindsAreSites
<1> QED BY <1>3, <1>5, <1>6, <1>7, OwnedKinds

\* The table a write works on, and the root, hold no contents.
LEMMA TablesBeside ==
  ASSUME TypeInv, InTables, LiveInv
  PROVE  /\ pc = "leaf" => op.table # op.data /\ Beside(op.table)
         /\ pc = "link" => op.root # op.data /\ Beside(op.root)
<1>1. Held \subseteq Loose \/ ~InTable
  BY DEF Loose
<1>2. BlockMap = Map(inodes, blk) \/ pc = "children"
  BY TreeIs
<1>3. CASE pc = "leaf"
  <2>1. InTable /\ IsFile(op.ino) /\ op.done < Len(op.buf) /\ op.data \in Loose
        /\ op.ino \in Ino
    BY <1>1, <1>3, TypeBecome DEF InTable, Held, LiveInv, HandlerOK, InTables
  <2>2. op.data \notin Named
    BY <2>1 DEF LiveInv, MapExact
  <2>3. CASE op.new_table
    <3>1. op.table \in Loose /\ op.table # op.data
      BY <1>1, <1>3, <2>1, <2>3 DEF Held, LiveInv, TablesOK, NewTableApart
    <3>2. op.table \notin Named
      BY <3>1 DEF LiveInv, MapExact
    <3> QED BY <1>3, <3>1, <3>2, Besides
  <2>4. CASE ~op.new_table
    <3>1. \/ op.table = node.indirect /\ op.table # Invalid
          \/ /\ InDouble(BlkIdx) /\ op.table = Child(blk, node, Outer(BlkIdx))
             /\ op.table # Invalid
      BY <1>3, <2>4 DEF LiveInv, TablesOK
    <3>2. InDouble(BlkIdx) => Outer(BlkIdx) \in PtrIdx
      BY <2>1, BlkPlace
    <3>3. PICK s \in Site : op.table = BlockMap[s] /\ Beside(BlockMap[s])
      <4>1. /\ BlockMap[SingleSite(op.ino)] = node.indirect
            /\ \A o \in PtrIdx : BlockMap[ChildSite(op.ino, o)] = Child(blk, node, o)
        BY <1>2, <1>3, <2>1, MapKinds DEF node
      <4>2. /\ SingleSite(op.ino) \in Site
            /\ \A o \in PtrIdx : ChildSite(op.ino, o) \in Site
        BY <2>1, KindsAreSites
      <4> QED BY <2>1, <3>1, <3>2, <4>1, <4>2, Besides
    <3>4. op.table \in Named
      BY <3>1, <3>3, NamedReadable DEF LiveInv
    <3> QED BY <1>3, <2>2, <3>3, <3>4
  <2> QED BY <2>3, <2>4
<1>4. CASE pc = "link"
  <2>1. InTable /\ IsFile(op.ino) /\ RootFound /\ op.data \in Loose
        /\ op.ino \in Ino
    BY <1>1, <1>4, TypeBecome
       DEF InTable, Held, LiveInv, HandlerOK, TablesOK
  <2>2. op.data \notin Named
    BY <2>1 DEF LiveInv, MapExact
  <2>3. CASE op.new_root
    <3>1. op.root \in Loose /\ op.root # op.data
      BY <2>1, <2>3, RootKnown DEF RootFound
    <3>2. op.root \notin Named
      BY <3>1 DEF LiveInv, MapExact
    <3> QED BY <1>4, <3>1, <3>2, Besides
  <2>4. CASE ~op.new_root
    <3>1. op.root = node.double /\ op.root \in Named
      BY <2>1, <2>4, RootKnown DEF RootFound
    <3>2. BlockMap[DoubleSite(op.ino)] = node.double
      BY <1>2, <1>4, <2>1, MapKinds DEF node
    <3> QED BY <1>4, <2>1, <2>2, <3>1, <3>2, Besides
  <2> QED BY <2>3, <2>4
<1> QED BY <1>3, <1>4

\* Until the new blocks of a chunk are entered, and once they are, a write
\* leaves the map alone.
LEMMA MapStays ==
  ASSUME TypeInv, InTables, LiveInv,
         \/ WriteMapped \/ FindRoot \/ FindTable \/ PutChunk
         \/ (AllocateData \/ WriteLeaf \/ LinkChild) /\ pc' # "put"
  PROVE  BlockMap' = BlockMap /\ UNCHANGED inodes /\ pc # "children"
<1>1. ASSUME UNCHANGED <<inodes, blk>>, pc # "children", pc' # "children"
      PROVE  BlockMap' = BlockMap
  BY <1>1, TreeIs
<1>2. ASSUME UNCHANGED inodes, AllocateTable, pc \in {"root", "table"}
      PROVE  BlockMap' = BlockMap
  <2>1. pc # "children" /\ pc' # "children"
    BY <1>2 DEF AllocateTable, Return, Goto
  <2>2. CASE UNCHANGED blk
    BY <1>1, <1>2, <2>1, <2>2
  <2>3. ASSUME NEW b \in DataBlocks, alloc_block(b),
               write_block(b, PtrBlock(NoPtrs))
        PROVE  BlockMap' = BlockMap
    <3>1. b \notin Named
      BY <2>3, FreshBlock DEF LiveInv, alloc_block
    <3> QED BY <1>2, <2>1, <2>3, <3>1, PlainWrite DEF LiveInv
  <2> QED BY <1>2, <2>2, <2>3 DEF AllocateTable, NoWrite, WriteFails
<1>3. CASE WriteMapped
  BY <1>1, <1>3 DEF WriteMapped, NoWrite, Return, Goto
<1>4. CASE FindRoot
  BY <1>1, <1>2, <1>4 DEF FindRoot, NoWrite, Goto
<1>5. CASE FindTable
  BY <1>1, <1>2, <1>5 DEF FindTable, NoWrite, Goto
<1>6. CASE PutChunk
  <2>1. pc = "put" /\ pc' # "children" /\ UNCHANGED inodes
    BY <1>6 DEF PutChunk, Return, Goto
  <2>2. op.data = DataPtr(blk, node, BlkIdx) /\ op.done < Len(op.buf)
    BY <2>1 DEF LiveInv, HandlerOK
  <2>3. \E i \in Ino, lb \in LogicalBlocks : op.data = DataPtr(blk, inodes[i], lb)
    BY <2>2, BlkPlace DEF node
  <2>4. CASE UNCHANGED blk
    BY <1>1, <2>1, <2>4
  <2>5. CASE write_block(op.data, DataBlock(Patched))
    BY <2>1, <2>3, <2>5, PlainWrite DEF LiveInv
  <2> QED BY <1>6, <2>1, <2>4, <2>5 DEF PutChunk, WriteFails
<1>7. CASE AllocateData /\ pc' # "put"
  <2>1. pc = "map" /\ pc' # "children" /\ UNCHANGED inodes
    BY <1>7 DEF AllocateData, Return, Goto
  <2>2. CASE UNCHANGED blk
    BY <1>1, <2>1, <2>2
  <2>3. ASSUME NEW b \in DataBlocks, alloc_block(b),
               write_block(b, DataBlock(Zeros))
        PROVE  BlockMap' = BlockMap
    <3>1. b \notin Named
      BY <2>3, FreshBlock DEF LiveInv, alloc_block
    <3> QED BY <2>1, <2>3, <3>1, PlainWrite DEF LiveInv
  <2> QED BY <1>7, <2>1, <2>2, <2>3 DEF AllocateData, NoWrite, WriteFails
<1>8. CASE (WriteLeaf \/ LinkChild) /\ pc' # "put"
  <2>1. pc \in {"leaf", "link"} /\ pc' # "children" /\ UNCHANGED inodes
    BY <1>8 DEF WriteLeaf, LinkChild, GiveBack, Return, Goto
  <2>2. CASE UNCHANGED blk
    BY <1>1, <2>1, <2>2
  <2>3. CASE WriteLeaf /\ op.new_table /\ \E c : write_block(op.table, c)
    <3>1. op.table \in Loose
      BY <2>1, <2>3 DEF WriteLeaf, Loose, InTable, Held
    <3>2. op.table \notin Named
      BY <3>1 DEF LiveInv, MapExact
    <3> QED BY <2>1, <2>3, <3>2, PlainWrite DEF LiveInv
  <2> QED BY <1>8, <2>2, <2>3 DEF WriteLeaf, LinkChild, WriteFails, Goto
<1> QED BY <1>3, <1>4, <1>5, <1>6, <1>7, <1>8
        DEF WriteMapped, FindRoot, FindTable, PutChunk

\* set_file_data_block enters the block, with the tables it needs.
LEMMA NamedEnters ==
  ASSUME TypeInv, InTables, LiveInv, pc \in {"leaf", "link"}, NamesHeld(NewSites)
  PROVE  Enters(BlockMap, BlockMap', op.ino, NewSites, BlkSite)
<1> DEFINE i == op.ino
           Y == NewSites
           x == BlkSite
<1>1. IsFile(i) /\ op.done < Len(op.buf) /\ InTable /\ pc # "children"
  BY DEF LiveInv, HandlerOK, InTables, InTable
<1>2. i \in Ino
  BY <1>1, BlkPlace
<1>3. /\ \A s \in Y : BlockMap[s] = Invalid /\ BlockMap'[s] \in Held
      /\ AgreeBut(BlockMap, BlockMap', Y)
  BY DEF NamesHeld
<1>4. Invalid \notin Held
  BY <1>1, DataArea DEF LiveInv, MapExact, Loose
<1>5. \/ /\ InIndirect(BlkIdx) /\ ~op.new_root
         /\ LeafIdx \in PtrIdx /\ x = IndirectSite(i, LeafIdx)
      \/ /\ ~InIndirect(BlkIdx) /\ (op.new_root => op.new_table)
         /\ Outer(BlkIdx) \in PtrIdx /\ LeafIdx \in PtrIdx
         /\ x = LeafSite(i, Outer(BlkIdx), LeafIdx)
  <2>1. \/ InIndirect(BlkIdx) /\ ~op.new_root
        \/ InDouble(BlkIdx) /\ (op.new_root => op.new_table)
    BY DEF LiveInv, TablesOK
  <2> QED BY <1>1, <2>1, BlkPlace
<1>6. Y = {x} \union (IF ~op.new_table THEN {}
                       ELSE IF InIndirect(BlkIdx) THEN {SingleSite(i)}
                       ELSE {ChildSite(i, Outer(BlkIdx))})
              \union (IF op.new_root THEN {DoubleSite(i)} ELSE {})
  BY DEF NewSites
<1> HIDE DEF i, Y, x
<1>7. Y \subseteq Owned(i) /\ Y \intersect DataSites(i) = {x}
  BY <1>2, <1>5, <1>6, OwnedKinds
<1>8. SingleSite(i) \in Y => \E p \in PtrIdx : x = IndirectSite(i, p)
  BY <1>5, <1>6, TableKindsApart
<1>9. \A o \in PtrIdx : ChildSite(i, o) \in Y =>
        \E p \in PtrIdx : x = LeafSite(i, o, p)
  BY <1>5, <1>6, TableKindsApart
<1>10. DoubleSite(i) \in Y => \E o \in PtrIdx : ChildSite(i, o) \in Y
  BY <1>5, <1>6, TableKindsApart
<1>11. \A s \in Y : BlockMap[s] = Invalid /\ BlockMap'[s] # Invalid
  BY <1>3, <1>4
<1>12. Enters(BlockMap, BlockMap', i, Y, x)
  BY <1>3, <1>7, <1>8, <1>9, <1>10, <1>11 DEF Enters
<1> QED BY <1>12 DEF i, x, Y

\* The steps that enter a block in the map.
LEMMA BlockEnters ==
  ASSUME TypeInv, InTables, LiveInv, AllocateData \/ WriteLeaf \/ LinkChild,
         pc' = "put"
  PROVE  /\ op.ino \in FileIno /\ op.done < Len(op.buf) /\ pc # "children"
         /\ \E Y : Enters(BlockMap, BlockMap', op.ino, Y, BlkSite)
         /\ BlockMap'[BlkSite] = op'.data /\ UNCHANGED faults
         /\ \/ /\ \E b \in DataBlocks : alloc_block(b) /\ op' = [op EXCEPT !.data = b]
               /\ write_block(op'.data, DataBlock(Zeros))
            \/ /\ InTable /\ UNCHANGED op
               /\ \E t, c : t # op.data /\ Beside(t) /\ write_block(t, c)
         /\ \E nd : /\ Become(nd) /\ nd.type = node.type /\ nd.size = node.size
                    /\ nd.block_count = node.block_count + 1
<1>1. node \in Inode
  BY TypeBecome
<1>2. op.ino \in FileIno /\ op.done < Len(op.buf) /\ pc # "children"
  <2>1. IsFile(op.ino) /\ pc # "children"
    BY DEF AllocateData, WriteLeaf, LinkChild, LiveInv, HandlerOK
  <2>2. op.done < Len(op.buf)
    BY DEF AllocateData, WriteLeaf, LinkChild, InTables
  <2> QED BY <2>1, <2>2, NodesFile DEF LiveInv
<1>3. CASE AllocateData
  <2>1. PICK b \in DataBlocks :
          /\ alloc_block(b) /\ write_block(b, DataBlock(Zeros))
          /\ op' = [op EXCEPT !.data = b] /\ BlkIdx < DirectBlocks
          /\ Become([node EXCEPT !.block_count = @ + 1, !.direct[BlkIdx] = b])
    BY <1>3 DEF AllocateData, Return, Goto
  <2>2. pc = "map" /\ op.done < Len(op.buf) /\ IsFile(op.ino)
    BY <1>3 DEF AllocateData, LiveInv, HandlerOK
  <2> DEFINE i == op.ino
             nd == [node EXCEPT !.block_count = @ + 1, !.direct[BlkIdx] = b]
  <2>3. i \in Ino /\ BlkIdx \in DirectIdx /\ BlkSite = DirectSite(i, BlkIdx)
    BY <2>1, <2>2, BlkPlace
  <2>4. /\ nd.type = node.type /\ nd.block_count = node.block_count + 1
        /\ nd.direct = [node.direct EXCEPT ![BlkIdx] = b]
        /\ nd.indirect = node.indirect /\ nd.double = node.double
        /\ nd.size = node.size
    BY <1>1 DEF Inode
  <2> HIDE DEF nd
  <2>5. /\ inodes'[i] = nd /\ OthersSame(inodes, inodes', i)
    BY <2>1, <2>2, <2>4, FileGets DEF nd
  <2>6. inodes[i].direct[BlkIdx] = Invalid
    <3>1. DataPtr(blk, node, BlkIdx) = Invalid
      <4>1. Mapped = Invalid
        BY <1>3 DEF AllocateData
      <4> QED BY <4>1 DEF Mapped, get_file_data_block, Invalid, EIO
    <3> QED BY <2>1, <3>1 DEF DataPtr, node
  <2>7. /\ BlockMap[BlkSite] = Invalid /\ BlockMap'[BlkSite] # Invalid
        /\ BlockMap'[BlkSite] = b
        /\ AgreeBut(BlockMap, BlockMap', {BlkSite})
    <3>1. OnlyAt(blk, blk', b)
      BY <2>1, WriteOnly
    <3>2. pc # "children" /\ pc' # "children" /\ MapExact
      BY <1>3, <2>2 DEF LiveInv
    <3>3. /\ inodes'[i].direct = [inodes[i].direct EXCEPT ![BlkIdx] = b]
          /\ inodes'[i].indirect = inodes[i].indirect
          /\ inodes'[i].double = inodes[i].double
      BY <2>4, <2>5 DEF node
    <3> QED BY <2>1, <2>3, <2>5, <2>6, <3>1, <3>2, <3>3, DirectGrows
  <2> DEFINE x == BlkSite
             Y == {x}
  <2>8. /\ Y \subseteq Owned(i) /\ Y \intersect DataSites(i) = {x}
        /\ SingleSite(i) \notin Y /\ DoubleSite(i) \notin Y
        /\ \A o \in PtrIdx : ChildSite(i, o) \notin Y
    BY <2>3, OwnedKinds
  <2>9. /\ \A s \in Y : BlockMap[s] = Invalid /\ BlockMap'[s] # Invalid
        /\ AgreeBut(BlockMap, BlockMap', Y)
    BY <2>7
  <2>10. Enters(BlockMap, BlockMap', i, Y, x)
    BY <2>8, <2>9 DEF Enters
  <2>11. op'.data = b
    BY <2>1, Locals
  <2>12. UNCHANGED faults
    BY <2>1 DEF write_block
  <2> HIDE DEF x, Y
  <2>13. \E Z : Enters(BlockMap, BlockMap', op.ino, Z, BlkSite)
    BY <2>10 DEF x
  <2>14. \E md : /\ Become(md) /\ md.type = node.type /\ md.size = node.size
                /\ md.block_count = node.block_count + 1
    BY <2>1, <2>4 DEF nd
  <2>15. write_block(op'.data, DataBlock(Zeros))
    BY <2>1, <2>11
  <2> QED BY <1>2, <2>1, <2>7, <2>11, <2>12, <2>13, <2>14, <2>15
<1>4. CASE WriteLeaf
  <2> DEFINE nd == [node EXCEPT !.block_count = @ + 1,
                      !.indirect = IF InIndirect(BlkIdx) THEN op.table ELSE @]
  <2>1. /\ pc = "leaf" /\ UNCHANGED <<alloc, op>> /\ Become(nd)
        /\ write_block(op.table,
             PtrBlock([AsPointers(blk, op.table) EXCEPT ![LeafIdx] = op.data]))
        /\ ~(InDouble(BlkIdx) /\ op.new_table)
    BY <1>4 DEF WriteLeaf, GiveBack, Return, Goto
  <2>2. /\ nd.type = node.type /\ nd.block_count = node.block_count + 1
        /\ nd.size = node.size
    BY <1>1 DEF Inode
  <2>3. NamesHeld(NewSites)
    <3>1. CASE InIndirect(BlkIdx)
      BY <1>4, <2>1, <3>1, EnterSingle
    <3>2. CASE ~InIndirect(BlkIdx)
      <4>1. InDouble(BlkIdx)
        BY <2>1, <3>2 DEF LiveInv, TablesOK
      <4> QED BY <1>4, <2>1, <3>2, <4>1, EnterChild
    <3> QED BY <3>1, <3>2
  <2> HIDE DEF nd
  <2>4. \E Z : Enters(BlockMap, BlockMap', op.ino, Z, BlkSite)
    BY <2>1, <2>3, NamedEnters
  <2>5. BlockMap'[BlkSite] = op.data
    BY <2>3 DEF NamesHeld
  <2>6. InTable /\ op.table # op.data /\ Beside(op.table)
    BY <2>1, TablesBeside DEF InTable
  <2>7. UNCHANGED faults
    BY <2>1 DEF write_block
  <2>8. \E t, c : t # op.data /\ Beside(t) /\ write_block(t, c)
    BY <2>1, <2>6
  <2> QED BY <1>2, <2>1, <2>2, <2>4, <2>5, <2>6, <2>7, <2>8
<1>5. CASE LinkChild
  <2> DEFINE nd == [node EXCEPT !.block_count = @ + 1, !.double = op.root]
  <2>1. /\ pc = "link" /\ UNCHANGED <<alloc, op>> /\ Become(nd)
        /\ write_block(op.root, PtrBlock(
             [AsPointers(blk, op.root) EXCEPT ![Outer(BlkIdx)] = op.table]))
    BY <1>5 DEF LinkChild, GiveBack, Return, Goto
  <2>2. /\ nd.type = node.type /\ nd.block_count = node.block_count + 1
        /\ nd.size = node.size
    BY <1>1 DEF Inode
  <2>3. NamesHeld(NewSites)
    BY <1>5, <2>1, EnterLink
  <2> HIDE DEF nd
  <2>4. \E Z : Enters(BlockMap, BlockMap', op.ino, Z, BlkSite)
    BY <2>1, <2>3, NamedEnters
  <2>5. BlockMap'[BlkSite] = op.data
    BY <2>3 DEF NamesHeld
  <2>6. InTable /\ op.root # op.data /\ Beside(op.root)
    BY <2>1, TablesBeside DEF InTable
  <2>7. UNCHANGED faults
    BY <2>1 DEF write_block
  <2>8. \E t, c : t # op.data /\ Beside(t) /\ write_block(t, c)
    BY <2>1, <2>6
  <2> QED BY <1>2, <2>1, <2>2, <2>4, <2>5, <2>6, <2>7, <2>8
<1> QED BY <1>3, <1>4, <1>5

\* A write keeps the count of blocks.
LEMMA TallyWrite ==
  ASSUME TypeInv, InTables, LiveInv, TallyOK,
         \/ WriteMapped \/ AllocateData \/ FindRoot \/ FindTable
         \/ WriteLeaf \/ LinkChild \/ PutChunk
  PROVE  TallyOK'
<1>1. CASE \/ WriteMapped \/ FindRoot \/ FindTable \/ PutChunk
           \/ (AllocateData \/ WriteLeaf \/ LinkChild) /\ pc' # "put"
  BY <1>1, MapStays, StillTally
<1>2. CASE (AllocateData \/ WriteLeaf \/ LinkChild) /\ pc' = "put"
  <2>1. /\ op.ino \in FileIno /\ pc # "children"
        /\ \E Y : Enters(BlockMap, BlockMap', op.ino, Y, BlkSite)
    BY <1>2, BlockEnters
  <2>2. PICK nd : /\ Become(nd) /\ nd.type = node.type
                  /\ nd.block_count = node.block_count + 1
    BY <1>2, BlockEnters
  <2>3. IsFile(op.ino)
    BY <1>2 DEF AllocateData, WriteLeaf, LinkChild, LiveInv, HandlerOK
  <2>4. node.type = "FILE"
    BY <2>3, NodesFile DEF LiveInv
  <2>5. inodes'[op.ino] = nd /\ \A j \in Ino : j # op.ino => inodes'[j] = inodes[j]
    BY <2>2, <2>3, <2>4, NodesFile DEF LiveInv
  <2>6. /\ inodes'[op.ino].block_count = inodes[op.ino].block_count + 1
        /\ \A j \in FileIno : j # op.ino =>
             inodes'[j].block_count = inodes[j].block_count
    BY <2>2, <2>5, Ranges DEF node
  <2> QED BY <2>1, <2>6, GrownTally
<1> QED BY <1>1, <1>2

-----------------------------------------------------------------------------
(***************************************************************************)
(* The number of free inodes, and the calls that change it.                *)
(***************************************************************************)
Free(I) == {i \in Ino : I[i].type = "FREE"}
FreeOK == freeInodes = Cardinality(Free(inodes))

\* A step that leaves the types of all inodes alone.
LEMMA FreeSame ==
  ASSUME FreeOK, freeInodes' = freeInodes,
         \A i \in Ino : inodes'[i].type = inodes[i].type
  PROVE  FreeOK'
<1>1. Free(inodes') = Free(inodes)
  BY DEF Free
<1> QED BY <1>1 DEF FreeOK

\* One inode is taken or given back.
LEMMA FreeOne ==
  ASSUME FreeOK, NEW i \in Ino,
         \A j \in Ino : j # i => inodes'[j].type = inodes[j].type
  PROVE  /\ inodes[i].type = "FREE" /\ inodes'[i].type = "FILE"
              /\ freeInodes' = freeInodes - 1 => FreeOK'
         /\ inodes[i].type = "FILE" /\ inodes'[i].type = "FREE"
              /\ freeInodes' = freeInodes + 1 => FreeOK'
<1>1. IsFiniteSet(Free(inodes))
  <2>1. IsFiniteSet(Ino)
    BY SizesAssumption, FS_Interval DEF Ino
  <2> QED BY <2>1, FS_Subset DEF Free
<1>2. Cardinality(Free(inodes)) \in Nat
  BY <1>1, FS_CardinalityType
<1>3. ASSUME inodes[i].type = "FREE", inodes'[i].type = "FILE",
             freeInodes' = freeInodes - 1
      PROVE  FreeOK'
  <2>1. Free(inodes') = Free(inodes) \ {i} /\ i \in Free(inodes)
    BY <1>3 DEF Free
  <2>2. Cardinality(Free(inodes')) = Cardinality(Free(inodes)) - 1
    BY <1>1, <2>1, FS_RemoveElement
  <2> QED BY <1>3, <2>2 DEF FreeOK
<1>4. ASSUME inodes[i].type = "FILE", inodes'[i].type = "FREE",
             freeInodes' = freeInodes + 1
      PROVE  FreeOK'
  <2>1. Free(inodes') = Free(inodes) \union {i} /\ i \notin Free(inodes)
    BY <1>4 DEF Free
  <2>2. Cardinality(Free(inodes')) = Cardinality(Free(inodes)) + 1
    BY <1>1, <2>1, FS_AddElement
  <2> QED BY <1>4, <2>2 DEF FreeOK
<1> QED BY <1>3, <1>4

\* What create_file makes of the inode table, whether add_dirent succeeds or
\* not: the new inode is a file or free again, others keep type and count.
LEMMA CountCreated ==
  ASSUME TypeInv, LiveInv, DirHolds, FreeOK, NEW i \in FileIno,
         FirstFreeInode(i), NEW I \in [Ino -> Inode],
         I[i] = EmptyInode("FILE"),
         \A j \in Ino : j # i => /\ I[j].type = inodes[j].type
                                 /\ j \in FileIno =>
                                      I[j].block_count = inodes[j].block_count,
         \/ inodes' = I /\ freeInodes' = freeInodes - 1
         \/ inodes' = RolledBack(I, i) /\ freeInodes' = freeInodes
  PROVE  /\ FreeOK'
         /\ \A j \in FileIno : inodes'[j].block_count = inodes[j].block_count
<1>1. i \in Ino /\ inodes[i].type = "FREE"
  BY FreeNode DEF FirstFreeInode, LiveInv
<1>2. inodes[i].block_count = 0
  BY <1>1 DEF DirHolds, InodesValid, EmptyInode
<1>3. \A j \in FileIno : j \in Ino
  BY Ranges
<1>4. CASE inodes' = I /\ freeInodes' = freeInodes - 1
  <2>1. I[i].type = "FILE" /\ I[i].block_count = 0
    BY DEF EmptyInode
  <2>2. FreeOK'
    BY <1>1, <1>4, <2>1, FreeOne
  <2> QED BY <1>2, <1>3, <1>4, <2>1, <2>2
<1>5. CASE inodes' = RolledBack(I, i) /\ freeInodes' = freeInodes
  <2>1. inodes'[i] = [EmptyInode("FILE") EXCEPT !.type = "FREE"]
    BY <1>1, <1>5 DEF RolledBack
  <2>2. inodes'[i].type = "FREE" /\ inodes'[i].block_count = 0
    BY <2>1 DEF EmptyInode
  <2>3. \A j \in Ino : j # i => inodes'[j] = I[j]
    BY <1>1, <1>5 DEF RolledBack
  <2>4. FreeOK'
    BY <1>1, <1>5, <2>2, <2>3, FreeSame
  <2> QED BY <1>2, <1>3, <2>2, <2>3, <2>4
<1> QED BY <1>4, <1>5

\* denyfs_vol_create as a whole.
LEMMA CountCreate ==
  ASSUME TypeInv, LiveInv, DirHolds, TallyOK, FreeOK, NEW n \in Names,
         denyfs_vol_create(n)
  PROVE  TallyOK' /\ FreeOK'
<1>1. pc = "idle"
  BY DEF denyfs_vol_create
<1>2. ASSUME NEW r, Refuse(r) PROVE TallyOK' /\ FreeOK'
  <2>1. /\ UNCHANGED <<inodes, blk, freeInodes>> /\ pc' = "idle"
    BY <1>2 DEF Refuse, Return, disk
  <2>2. BlockMap' = BlockMap
    BY <1>1, <2>1, TreeIs
  <2> QED BY <1>1, <2>1, <2>2, StillTally, FreeSame
<1>3. inodes \in [Ino -> Inode] /\ 0 \in Ino /\ 0 \notin FileIno
  BY TypeParts, Ranges DEF InodesOK, FileIno
<1>4. ASSUME NEW i \in FileIno, FirstFreeInode(i), CreateInSlot(n, i)
      PROVE  TallyOK' /\ FreeOK'
  <2>1. BlockMap' = BlockMap
    BY <1>1, <1>4, LiveCreateInSlot
  <2>2. \/ inodes' = WithFile(i) /\ freeInodes' = freeInodes - 1
        \/ inodes' = RolledBack(WithFile(i), i) /\ freeInodes' = freeInodes
    BY <1>4 DEF CreateInSlot
  <2>3. i \in Ino /\ WithFile(i) \in [Ino -> Inode]
    BY TypeNewFile, Ranges
  <2>4. /\ WithFile(i)[i] = EmptyInode("FILE")
        /\ \A j \in Ino : j # i => WithFile(i)[j] = inodes[j]
    BY <1>3, <2>3 DEF WithFile
  <2>5. /\ FreeOK'
        /\ \A j \in FileIno : inodes'[j].block_count = inodes[j].block_count
    BY <1>4, <2>2, <2>3, <2>4, CountCreated
  <2> QED BY <1>1, <2>1, <2>5, StillTally
<1>5. ASSUME NEW i \in FileIno, NEW b \in DataBlocks, FirstFreeInode(i),
             inodes[0].block_count < DirectBlocks, CreateInNewBlock(n, i, b)
      PROVE  TallyOK' /\ FreeOK'
  <2>1. \A s \in Site : s \notin Owned(0) => BlockMap'[s] = BlockMap[s]
    BY <1>1, <1>5, LiveCreateInNewBlock
  <2>2. \/ inodes' = Grown(i, b) /\ freeInodes' = freeInodes - 1
        \/ inodes' = RolledBack(Grown(i, b), i) /\ freeInodes' = freeInodes
    BY <1>5 DEF CreateInNewBlock
  <2>3. i \in Ino /\ i # 0 /\ Grown(i, b) \in [Ino -> Inode]
    BY <1>3, TypeNewFile, Ranges
  <2>4. /\ Grown(i, b)[i] = EmptyInode("FILE")
        /\ \A j \in Ino : j # i /\ j # 0 => Grown(i, b)[j] = inodes[j]
        /\ Grown(i, b)[0].type = inodes[0].type
    <3> DEFINE root == [inodes[0] EXCEPT !.block_count = @ + 1,
                                         !.direct[inodes[0].block_count] = b]
    <3>1. inodes[0] \in Inode
      BY <1>3
    <3>2. root.type = inodes[0].type
      BY <3>1 DEF Inode
    <3>3. Grown(i, b) = [WithFile(i) EXCEPT ![0] = root]
      BY DEF Grown
    <3> HIDE DEF root
    <3> QED BY <1>3, <2>3, <3>2, <3>3 DEF WithFile
  <2>5. /\ FreeOK'
        /\ \A j \in FileIno : inodes'[j].block_count = inodes[j].block_count
    BY <1>3, <1>5, <2>2, <2>3, <2>4, CountCreated
  <2> QED BY <1>1, <1>3, <2>1, <2>5, OneTally
<1> QED BY <1>2, <1>4, <1>5 DEF denyfs_vol_create

\* denyfs_vol_unlink as a whole.
LEMMA CountUnlink ==
  ASSUME TypeInv, LiveInv, DirHolds, TallyOK, FreeOK, NEW n \in Names,
         denyfs_vol_unlink(n)
  PROVE  TallyOK' /\ FreeOK'
<1>1. pc = "idle"
  BY DEF denyfs_vol_unlink
<1>2. CASE UNCHANGED <<inodes, blk, freeInodes>> /\ pc' = "idle"
  <2>1. BlockMap' = BlockMap
    BY <1>1, <1>2, TreeIs
  <2> QED BY <1>1, <1>2, <2>1, StillTally, FreeSame
<1>3. ASSUME NEW i \in FileIno, NEW s \in DirSlots(inodes), LookupIs(n, i),
             IsEntryOf(inodes, blk, n, s), PutEntry(s, FreeEntry), free_inode(i)
      PROVE  TallyOK' /\ FreeOK'
  <2>1. /\ CutAt(BlockMap, BlockMap', Owned(i)) /\ pc' = "flush"
        /\ inodes' = [inodes EXCEPT ![i] = EmptyInode("FREE")]
        /\ freeInodes' = freeInodes + 1
    BY <1>1, <1>3, UnlinkCuts DEF StartFlush
  <2>2. inodes[i].type = "FILE"
    <3>1. s \in Used(inodes, blk) /\ EntryAt(inodes, blk, s).name = n
      BY <1>3, EntryFound DEF DirHolds
    <3>2. EntryAt(inodes, blk, s).ino = i
      BY <1>3, <3>1, LookupFinds DEF DirHolds, LookupIs
    <3> QED BY <3>1, <3>2, EntriesRead DEF DirHolds
  <2>3. i \in Ino /\ inodes \in [Ino -> Inode]
    BY Ranges, TypeParts DEF InodesOK
  <2>4. /\ inodes'[i].type = "FREE"
        /\ \A j \in Ino : j # i => inodes'[j] = inodes[j]
    BY <2>1, <2>3 DEF EmptyInode
  <2> QED BY <1>1, <2>1, <2>2, <2>3, <2>4, TallyUnlink, FreeOne
<1> QED BY <1>2, <1>3 DEF denyfs_vol_unlink, NotFound, Refuse, Return, disk,
        WriteFails

-----------------------------------------------------------------------------
(***************************************************************************)
(* What the loader checks of block counts and tables, in terms of the map. *)
(***************************************************************************)

\* The references to blocks of contents are the named sites of such blocks.
LEMMA RefsTallied ==
  ASSUME NEW I, NEW B, NEW i \in Ino
  PROVE  Cardinality(DataRefs(B, I[i])) = Cardinality(NamedData(Map(I, B), i))
<1> DEFINE f == Map(I, B)
           N == NamedData(f, i)
           g == [s \in N |-> <<s[2][1], s[2][2], f[s]>>]
<1>1. \A lb \in LogicalBlocks : f[DataSite(i, lb)] = DataPtr(B, I[i], lb)
  BY MapAt
<1>2. /\ \A lb \in LogicalBlocks : DataSite(i, lb) \in DataSites(i)
      /\ IsFiniteSet(N)
  BY OwnedKinds
<1> HIDE DEF f
<1>3. \A s \in N : \E lb \in LogicalBlocks : s = DataSite(i, lb)
  BY DEF NamedData, DataSites
<1>4. ASSUME NEW s \in N, NEW t \in N, g[s] = g[t] PROVE s = t
  <2>1. PICK lb \in LogicalBlocks : s = DataSite(i, lb)
    BY <1>3
  <2>2. PICK lc \in LogicalBlocks : t = DataSite(i, lc)
    BY <1>3
  <2>3. s[2][2] = t[2][2]
    BY <1>4
  <2> HIDE DEF N
  <2> QED BY <2>1, <2>2, <2>3 DEF DataSite
<1>5. DataRefs(B, I[i]) = {g[s] : s \in N}
  <2>1. ASSUME NEW r \in DataRefs(B, I[i]) PROVE \E s \in N : r = g[s]
    <3>1. PICK lb \in LogicalBlocks : /\ r = <<"data", lb, DataPtr(B, I[i], lb)>>
                                      /\ r[3] # Invalid
      BY DEF DataRefs
    <3>2. DataSite(i, lb) \in N
      BY <1>1, <1>2, <3>1 DEF NamedData
    <3>3. DataSite(i, lb)[2][1] = "data" /\ DataSite(i, lb)[2][2] = lb
      BY DEF DataSite
    <3> HIDE DEF N
    <3>4. g[DataSite(i, lb)] = r
      BY <1>1, <3>1, <3>2, <3>3
    <3> QED BY <3>2, <3>4
  <2>2. ASSUME NEW s \in N PROVE g[s] \in DataRefs(B, I[i])
    <3>1. PICK lb \in LogicalBlocks : s = DataSite(i, lb)
      BY <1>3
    <3>2. f[s] # Invalid
      BY DEF NamedData
    <3>3. s[2][1] = "data" /\ s[2][2] = lb
      BY <3>1 DEF DataSite
    <3> HIDE DEF N
    <3>4. g[s] = <<"data", lb, DataPtr(B, I[i], lb)>>
      BY <1>1, <3>1, <3>3
    <3>5. g[s][3] # Invalid
      BY <1>1, <3>1, <3>2, <3>4
    <3> HIDE DEF g
    <3> QED BY <3>4, <3>5 DEF DataRefs
  <2> HIDE DEF N, g
  <2> QED BY <2>1, <2>2
<1> HIDE DEF N, g
<1>6. Cardinality({g[s] : s \in N}) = Cardinality(N)
  BY <1>2, <1>4, Injected
<1> QED BY <1>5, <1>6 DEF N, f

\* The tables that must not be empty are those the map names.
LEMMA TablesFilled ==
  ASSUME NEW I, NEW B, NEW i \in Ino
  PROVE  (\A r \in TableRefs(B, I[i]) :
            \E p \in PtrIdx : AsPointers(B, r[3])[p] # Invalid)
         <=> /\ SingleFilled(Map(I, B), i) /\ RootFilled(Map(I, B), i)
             /\ \A o \in PtrIdx : ChildFilled(Map(I, B), i, o)
<1> DEFINE f == Map(I, B)
           nd == I[i]
           Full(t) == \E p \in PtrIdx : AsPointers(B, t)[p] # Invalid
<1>1. /\ \A p \in PtrIdx : f[IndirectSite(i, p)] = PtrAt(B, nd.indirect, p)
      /\ \A o, p \in PtrIdx : f[LeafSite(i, o, p)] = PtrAt(B, Child(B, nd, o), p)
      /\ f[SingleSite(i)] = nd.indirect /\ f[DoubleSite(i)] = nd.double
      /\ \A o \in PtrIdx : f[ChildSite(i, o)] = Child(B, nd, o)
  BY MapKinds
<1>2. \A t, p : t # Invalid => PtrAt(B, t, p) = AsPointers(B, t)[p]
  BY DEF PtrAt
<1>3. \A o : nd.double # Invalid => Child(B, nd, o) = AsPointers(B, nd.double)[o]
  BY DEF Child, PtrAt
<1> HIDE DEF f, nd
<1>4. SingleFilled(f, i) <=> (nd.indirect # Invalid => Full(nd.indirect))
  BY <1>1, <1>2 DEF SingleFilled
<1>5. RootFilled(f, i) <=> (nd.double # Invalid => Full(nd.double))
  BY <1>1, <1>3 DEF RootFilled
<1>6. \A o \in PtrIdx : ChildFilled(f, i, o) <=>
        (Child(B, nd, o) # Invalid => Full(Child(B, nd, o)))
  BY <1>1, <1>2 DEF ChildFilled
<1>7. (\A r \in TableRefs(B, nd) : Full(r[3])) <=>
        /\ nd.indirect # Invalid => Full(nd.indirect)
        /\ nd.double # Invalid => Full(nd.double)
        /\ \A o \in PtrIdx : Child(B, nd, o) # Invalid => Full(Child(B, nd, o))
  <2> HIDE DEF Full
  <2> DEFINE T(r) == r \in TableRefs(B, nd)
             a == <<"indirect", 0, nd.indirect>>
             b == <<"double", 0, nd.double>>
             c(o) == <<"child", o, Child(B, nd, o)>>
  <2>1. a[3] = nd.indirect /\ b[3] = nd.double /\ \A o : c(o)[3] = Child(B, nd, o)
    OBVIOUS
  <2>2. \A r : T(r) <=> r[3] # Invalid /\ (r = a \/ r = b \/ \E o \in PtrIdx : r = c(o))
    BY DEF TableRefs
  <2> HIDE DEF T, a, b, c
  <2>3. (\A r : T(r) => Full(r[3])) <=>
        /\ nd.indirect # Invalid => Full(nd.indirect)
        /\ nd.double # Invalid => Full(nd.double)
        /\ \A o \in PtrIdx : Child(B, nd, o) # Invalid => Full(Child(B, nd, o))
    BY <2>1, <2>2
  <2> QED BY <2>3 DEF T
<1> QED BY <1>4, <1>5, <1>6, <1>7 DEF f, nd

\* Together: the loader's checks are the invariant of a volume at rest.
LEMMA TalliesChecked ==
  ASSUME NEW I, NEW B
  PROVE  BlockCountsValid(I, B) /\ TablesNonEmpty(I, B) <=>
           \A i \in FileIno : /\ Tallies(Map(I, B), i, I[i].block_count)
                              /\ RootFilled(Map(I, B), i)
<1>1. ASSUME NEW i \in FileIno
      PROVE  /\ I[i].block_count = Cardinality(DataRefs(B, I[i]))
             /\ \A r \in TableRefs(B, I[i]) :
                  \E p \in PtrIdx : AsPointers(B, r[3])[p] # Invalid
             <=> /\ Tallies(Map(I, B), i, I[i].block_count)
                 /\ RootFilled(Map(I, B), i)
  <2>1. i \in Ino
    BY Ranges
  <2>2. Cardinality(DataRefs(B, I[i])) = Cardinality(NamedData(Map(I, B), i))
    BY <2>1, RefsTallied
  <2>3. (\A r \in TableRefs(B, I[i]) :
           \E p \in PtrIdx : AsPointers(B, r[3])[p] # Invalid)
        <=> /\ SingleFilled(Map(I, B), i) /\ RootFilled(Map(I, B), i)
            /\ \A o \in PtrIdx : ChildFilled(Map(I, B), i, o)
    BY <2>1, TablesFilled
  <2>4. Tallies(Map(I, B), i, I[i].block_count) <=>
          /\ I[i].block_count = Cardinality(NamedData(Map(I, B), i))
          /\ SingleFilled(Map(I, B), i)
          /\ \A o \in PtrIdx : ChildFilled(Map(I, B), i, o)
    BY DEF Tallies
  <2> QED BY <2>2, <2>3, <2>4
<1> QED BY <1>1 DEF BlockCountsValid, TablesNonEmpty

-----------------------------------------------------------------------------
(***************************************************************************)
(* The counts and tables of every step.                                    *)
(***************************************************************************)
CountInv == pc # "closed" => TallyOK /\ FreeOK

\* The handlers of a write or a truncate.
LEMMA CountHandlers ==
  ASSUME TypeInv, InTables, LiveInv, DirHolds, TallyOK, FreeOK,
         "truncate" \notin FaultyCalls,
         \/ WriteMapped \/ AllocateData \/ FindRoot \/ FindTable
         \/ WriteLeaf \/ LinkChild \/ PutChunk \/ WriteDone
         \/ ShrinkDirect \/ ReadRoots \/ ShrinkChild \/ ShrinkRoot \/ Resize
  PROVE  TallyOK' /\ FreeOK'
<1>1. FreeOK'
  <2>1. freeInodes' = freeInodes
    BY DEF WriteMapped, AllocateData, FindRoot, FindTable, WriteLeaf, LinkChild,
       PutChunk, WriteDone, ShrinkDirect, ReadRoots, ShrinkChild, ShrinkRoot,
       Resize
  <2>2. SameFiles
    BY DirWrite, DirTruncate
  <2>3. \A i \in Ino : i = 0 \/ i \in FileIno
    BY SizesAssumption DEF Ino, FileIno
  <2>4. \A i \in Ino : inodes'[i].type = inodes[i].type
    BY <2>2, <2>3 DEF SameFiles
  <2> QED BY <2>1, <2>4, FreeSame
<1>2. CASE \/ WriteMapped \/ AllocateData \/ FindRoot \/ FindTable
           \/ WriteLeaf \/ LinkChild \/ PutChunk
  BY <1>1, <1>2, TallyWrite
<1>3. CASE WriteDone \/ Resize
  <2>1. BlockMap' = BlockMap /\ pc # "children"
    BY <1>3, LiveDone DEF WriteDone, Resize
  <2>2. IsFile(op.ino)
    BY <1>3 DEF LiveInv, HandlerOK, WriteDone, Resize
  <2>3. node \in Inode /\ node = inodes[op.ino]
    BY <2>2, NodesFile, TypeBecome DEF LiveInv, node
  <2>4. \E z : Become([node EXCEPT !.size = z])
    BY <1>3 DEF WriteDone, Resize
  <2>5. PICK nd : Become(nd) /\ nd.type = "FILE" /\ nd.block_count = node.block_count
    <3>1. PICK z : Become([node EXCEPT !.size = z])
      BY <2>4
    <3>2. /\ [node EXCEPT !.size = z].type = node.type
          /\ [node EXCEPT !.size = z].block_count = node.block_count
      BY <2>3 DEF Inode
    <3> QED BY <2>2, <2>3, <3>1, <3>2 DEF IsFile
  <2>6. /\ inodes'[op.ino] = nd
        /\ \A i \in Ino : i # op.ino => inodes'[i] = inodes[i]
    BY <2>2, <2>5, NodesFile DEF LiveInv
  <2>7. \A i \in FileIno : inodes'[i].block_count = inodes[i].block_count
    BY <2>3, <2>5, <2>6, Ranges
  <2> QED BY <1>1, <2>1, <2>7, StillTally
<1>4. CASE ReadRoots
  <2>1. BlockMap' = BlockMap /\ pc # "children" /\ UNCHANGED inodes
    BY <1>4, LiveReadRoots DEF ReadRoots
  <2> QED BY <1>1, <2>1, StillTally
<1>5. CASE ShrinkDirect
  BY <1>1, <1>5, LiveShrinkDirect, TallyDirect DEF ShrinkDirect
<1>6. CASE ShrinkChild
  BY <1>1, <1>6, LiveShrinkChild, TallyChild DEF ShrinkChild
<1>7. CASE ShrinkRoot
  BY <1>1, <1>7, LiveShrinkRoot, TallyRoot DEF ShrinkRoot
<1> QED BY <1>2, <1>3, <1>4, <1>5, <1>6, <1>7

\* Every step keeps them.
LEMMA CountStep ==
  ASSUME TypeInv, InTables, AllocInv, DirInv, CountInv, [Next]_vars,
         "truncate" \notin FaultyCalls
  PROVE  CountInv'
<1>1. CASE pc # "closed"
  <2>1. LiveInv /\ DirHolds /\ TallyOK /\ FreeOK
    BY <1>1 DEF AllocInv, DirInv, CountInv
  <2>2. ASSUME UNCHANGED <<inodes, blk, freeInodes>>, pc # "children",
               pc' # "children"
        PROVE  CountInv'
    <3>1. BlockMap' = BlockMap
      BY <2>2, TreeIs
    <3> QED BY <2>1, <2>2, <3>1, StillTally, FreeSame DEF CountInv
  <2>3. CASE Call
    <3>1. CASE denyfs_fuse_destroy
      BY <2>2, <3>1 DEF denyfs_fuse_destroy, StartFlush, disk
    <3>2. ASSUME NEW n \in Names, denyfs_vol_create(n) \/ denyfs_vol_unlink(n)
          PROVE  CountInv'
      BY <2>1, <3>2, CountCreate, CountUnlink DEF CountInv
    <3>3. ASSUME NEW n \in Names, NEW off \in Offsets, NEW buf \in Payloads,
                 denyfs_vol_write(n, off, buf)
          PROVE  CountInv'
      <4>1. /\ UNCHANGED <<inodes, blk, freeInodes>> /\ pc # "children"
            /\ pc' # "children"
        BY <3>3 DEF denyfs_vol_write, NotFound, Refuse, Return, disk
      <4> QED BY <2>2, <4>1
    <3>4. ASSUME NEW n \in Names, NEW size \in TruncSizes,
                 denyfs_vol_truncate(n, size)
          PROVE  CountInv'
      <4>1. BlockMap' = BlockMap
        BY <2>1, <3>4, LiveStartTruncate
      <4>2. UNCHANGED <<inodes, freeInodes>> /\ pc # "children"
        BY <3>4 DEF denyfs_vol_truncate, NotFound, Refuse
      <4> QED BY <2>1, <4>1, <4>2, StillTally, FreeSame DEF CountInv
    <3> QED BY <2>3, <3>1, <3>2, <3>3, <3>4 DEF Call
  <2>4. CASE \/ WriteMapped \/ AllocateData \/ FindRoot \/ FindTable
             \/ WriteLeaf \/ LinkChild \/ PutChunk \/ WriteDone
             \/ ShrinkDirect \/ ReadRoots \/ ShrinkChild \/ ShrinkRoot \/ Resize
    BY <2>1, <2>4, CountHandlers DEF CountInv
  <2>5. CASE FlushBlock
    BY <2>2, <2>5 DEF FlushBlock
  <2>6. CASE FlushFails \/ FlushDone
    <3>1. UNCHANGED blk /\ pc # "children" /\ pc' # "children"
      BY <2>6 DEF FlushFails, FlushDone, FlushEnds, Return, denyfs_vol_close,
         WriteFails, disk
    <3>2. pc' = "closed" \/ UNCHANGED <<inodes, freeInodes>>
      BY <2>6 DEF FlushFails, FlushDone, FlushEnds, denyfs_vol_close
    <3> QED BY <2>2, <3>1, <3>2 DEF CountInv
  <2>7. CASE Crash
    BY <2>7 DEF Crash, denyfs_vol_close, CountInv
  <2>8. CASE UNCHANGED vars
    <3>1. /\ UNCHANGED <<inodes, blk, freeInodes>> /\ pc' = pc /\ op' = op
      BY <2>8 DEF vars
    <3>2. BlockMap' = BlockMap
      BY <3>1 DEF BlockMap, Tree, node
    <3>3. TallyOK'
      BY <2>1, <3>1, <3>2 DEF TallyOK
    <3> QED BY <2>1, <3>1, <3>3, FreeSame DEF CountInv
  <2> QED BY <1>1, <2>3, <2>4, <2>5, <2>6, <2>7, <2>8
          DEF Next, Step, denyfs_vol_open
<1>2. CASE pc = "closed"
  <2>1. CASE denyfs_vol_open
    <3>1. CASE pc' = "closed"
      BY <3>1 DEF CountInv
    <3>2. CASE pc' # "closed"
      <4>1. /\ ValidImage(dsb, dbitmap, dinodes, blk) /\ inodes' = dinodes
            /\ blk' = blk /\ freeInodes' = dsb.free_inodes /\ pc' = "idle"
        BY <1>2, <2>1, <3>2 DEF denyfs_vol_open, disk
      <4>2. BlockMap' = Map(inodes', blk)
        BY <4>1, TreeIs
      <4>3. TallyOK'
        BY <4>1, <4>2, TalliesChecked DEF ValidImage, Consistent, TallyOK
      <4>4. FreeOK'
        BY <4>1 DEF ValidImage, Consistent, AccountingValid, FreeOK, Free
      <4> QED BY <4>3, <4>4 DEF CountInv
    <3> QED BY <3>1, <3>2
  <2>2. CASE UNCHANGED vars
    BY <1>2, <2>2 DEF vars, CountInv
  <2>3. ~Call /\ ~Step /\ ~Crash
    BY <1>2 DEF Call, denyfs_vol_create, denyfs_vol_unlink, denyfs_vol_write,
       denyfs_vol_truncate, denyfs_fuse_destroy, Step, WriteMapped, AllocateData,
       FindRoot, FindTable, WriteLeaf, LinkChild, PutChunk, WriteDone,
       ShrinkDirect, ReadRoots, ShrinkChild, ShrinkRoot, Resize, FlushBlock,
       FlushFails, FlushDone, Crash
  <2> QED BY <2>1, <2>2, <2>3 DEF Next
<1> QED BY <1>1, <1>2

\* At rest, all of it together is what the loader checks.
LEMMA RestConsistent ==
  ASSUME TypeInv, LiveInv, DirHolds, TallyOK, FreeOK, pc \in {"idle", "flush"}
  PROVE  Consistent(freeBlocks, freeInodes, bitmap, inodes, blk)
<1>1. BlockMap = Map(inodes, blk) /\ Loose = {}
  BY TreeIs DEF Loose, InTable
<1>2. /\ Claimed(inodes, blk) = bitmap \intersect DataBlocks
      /\ Cardinality(Claimed(inodes, blk)) = Cardinality(Refs(inodes, blk))
      /\ MetaBlocks \subseteq bitmap
      /\ freeBlocks = Cardinality(DataBlocks \ bitmap)
  <2>1. Claimed(inodes, blk) = Named
    BY <1>1, ClaimedIs DEF Named
  <2> QED BY <1>1, <2>1, RefsCount DEF LiveInv, MapExact
<1>3. ClaimsValid(bitmap, inodes, blk)
  BY <1>2 DEF ClaimsValid
<1>4. AccountingValid(freeBlocks, freeInodes, bitmap, inodes, blk)
  BY <1>2 DEF AccountingValid, FreeOK, Free
<1>5. BlockCountsValid(inodes, blk) /\ TablesNonEmpty(inodes, blk)
  BY <1>1, TalliesChecked DEF TallyOK
<1> QED BY <1>3, <1>4, <1>5 DEF Consistent, DirHolds

-----------------------------------------------------------------------------
(***************************************************************************)
(* The container between mounts.                                           *)
(***************************************************************************)

\* The only block a formatted volume names is the root directory's.
LEMMA FormattedMap ==
  ASSUME NEW B
  PROVE  \A s \in Site : Map(FormattedInodes, B)[s]
           = IF s = DirectSite(0, 0) THEN DataStart ELSE Invalid
<1> DEFINE I == FormattedInodes
           f == Map(I, B)
<1>1. /\ \A i \in Ino : /\ I[i].indirect = Invalid /\ I[i].double = Invalid
                        /\ \A k \in DirectIdx :
                             I[i].direct[k] = IF i = 0 /\ k = 0 THEN DataStart
                                              ELSE Invalid
  BY Ranges DEF FormattedInodes, EmptyInode
<1> HIDE DEF I
<1>2. \A t : PtrAt(B, Invalid, t) = Invalid
  BY DEF PtrAt
<1>3. \A i \in Ino : \A o : Child(B, I[i], o) = Invalid
  BY <1>1, <1>2 DEF Child
<1>4. ASSUME NEW i \in Ino, NEW lb \in LogicalBlocks
      PROVE  f[DataSite(i, lb)] = IF i = 0 /\ lb = 0 THEN DataStart ELSE Invalid
  <2>1. f[DataSite(i, lb)] = DataPtr(B, I[i], lb)
    BY MapAt
  <2>2. lb \in Nat
    BY SizesAssumption DEF LogicalBlocks
  <2>3. CASE lb < DirectBlocks
    <3>1. lb \in DirectIdx
      BY <2>2, <2>3, SizesAssumption DEF DirectIdx
    <3> QED BY <1>1, <2>1, <2>3, <3>1 DEF DataPtr
  <2>4. CASE ~(lb < DirectBlocks)
    <3>1. lb # 0
      BY <2>4, SizesAssumption
    <3> QED BY <1>1, <1>2, <1>3, <2>1, <2>4, <3>1 DEF DataPtr
  <2> QED BY <2>3, <2>4
<1>5. \A i \in Ino : /\ f[SingleSite(i)] = Invalid /\ f[DoubleSite(i)] = Invalid
                     /\ \A o \in PtrIdx : f[ChildSite(i, o)] = Invalid
  BY <1>1, <1>3, MapAt
<1>6. DirectSite(0, 0) = DataSite(0, 0)
  BY DEF DirectSite
<1> HIDE DEF f
<1> SUFFICES ASSUME NEW s \in Site
             PROVE  f[s] = IF s = DataSite(0, 0) THEN DataStart ELSE Invalid
  BY <1>6 DEF f, I
<1>7. PICK i \in Ino : \/ \E lb \in LogicalBlocks : s = DataSite(i, lb)
                       \/ s = SingleSite(i) \/ s = DoubleSite(i)
                       \/ \E o \in PtrIdx : s = ChildSite(i, o)
  BY Sites
<1>8. CASE \E lb \in LogicalBlocks : s = DataSite(i, lb)
  <2>1. PICK lb \in LogicalBlocks : s = DataSite(i, lb)
    BY <1>8
  <2>2. s = DataSite(0, 0) <=> i = 0 /\ lb = 0
    BY <2>1, SitesApart
  <2> QED BY <1>4, <2>1, <2>2
<1>9. CASE ~\E lb \in LogicalBlocks : s = DataSite(i, lb)
  <2>1. f[s] = Invalid
    BY <1>5, <1>7, <1>9
  <2>2. s # DataSite(0, 0)
    BY <1>7, <1>9, SitesApart
  <2> QED BY <2>1, <2>2
<1> QED BY <1>8, <1>9

\* The container format_volume leaves passes every check of the loader.
LEMMA FormattedConsistent ==
  ASSUME NEW B, B \in [DataBlocks -> Content],
         B[DataStart] = DirBlock([i \in DirIdx |-> FreeEntry])
  PROVE  Consistent(TotalBlocks - DataStart - 1, MaxInodes - 1, FormattedBitmap,
                    FormattedInodes, B)
<1> DEFINE I == FormattedInodes
           f == Map(I, B)
           x == DirectSite(0, 0)
<1>1. /\ 0 \in Ino /\ 0 \in DirectIdx /\ DataStart \in DataBlocks
      /\ \A i \in FileIno : i \in Ino /\ i # 0
      /\ Invalid \notin DataBlocks /\ MetaBlocks \intersect DataBlocks = {}
      /\ IsFiniteSet(DataBlocks)
  BY Ranges, DataArea DEF FileIno, MetaBlocks, DataBlocks
<1>2. /\ I[0].type = "DIR" /\ I[0].size = 0 /\ I[0].block_count = 1
      /\ I[0].indirect = Invalid /\ I[0].double = Invalid
      /\ \A k \in DirectIdx : I[0].direct[k] = IF k = 0 THEN DataStart ELSE Invalid
      /\ \A i \in FileIno : /\ I[i] = EmptyInode("FREE")
                            /\ I[i].type = "FREE" /\ I[i].block_count = 0
  BY <1>1 DEF FormattedInodes, EmptyInode
<1>3. \A s \in Site : f[s] = IF s = x THEN DataStart ELSE Invalid
  BY FormattedMap
<1>4. x \in Site /\ DOMAIN f = Site
  BY <1>1, KindsAreSites DEF Map
<1>5. DataStart # Invalid
  BY <1>1
<1> HIDE DEF I, f
<1>6. RootValid(I)
  <2>1. 1 \in 1 .. DirectBlocks
    BY SizesAssumption
  <2>2. \A k \in DirectIdx : (k < 1) <=> (k = 0)
    BY SizesAssumption DEF DirectIdx
  <2> QED BY <1>2, <1>5, <2>1, <2>2 DEF RootValid
<1>7. InodesValid(I)
  BY <1>2 DEF InodesValid
<1>8. BlockCountsValid(I, B) /\ TablesNonEmpty(I, B)
  <2> SUFFICES ASSUME NEW i \in FileIno
               PROVE  Tallies(f, i, I[i].block_count) /\ RootFilled(f, i)
    BY TalliesChecked DEF f
  <2>1. i \in Ino /\ i # 0 /\ I[i].block_count = 0
    BY <1>1, <1>2
  <2>2. \A s \in Owned(i) : f[s] = Invalid
    <3>1. x[1] = 0
      BY DEF DirectSite, DataSite
    <3> QED BY <1>3, <2>1, <3>1 DEF Owned
  <2>3. NamedData(f, i) = {}
    BY <2>1, <2>2, OwnedKinds DEF NamedData
  <2>4. I[i].block_count = Cardinality(NamedData(f, i))
    BY <2>1, <2>3, FS_EmptySet
  <2>5. /\ SingleFilled(f, i) /\ RootFilled(f, i)
        /\ \A o \in PtrIdx : ChildFilled(f, i, o)
    BY <2>1, <2>2, OwnedKinds DEF SingleFilled, RootFilled, ChildFilled
  <2> QED BY <2>4, <2>5 DEF Tallies
<1>9. Claimed(I, B) = {DataStart}
  <2>1. Img(f) = {DataStart}
    BY <1>3, <1>4, <1>5 DEF Img
  <2> QED BY <2>1, ClaimedIs DEF f
<1>10. Cardinality(Claimed(I, B)) = Cardinality(Refs(I, B))
  <2>1. Once(f)
    BY <1>3, <1>4 DEF Once
  <2> QED BY <2>1, RefsCount DEF f
<1>11. FormattedBitmap \intersect DataBlocks = {DataStart}
  BY <1>1 DEF FormattedBitmap
<1>12. ClaimsValid(FormattedBitmap, I, B)
  BY <1>9, <1>10, <1>11 DEF ClaimsValid
<1>13. AccountingValid(TotalBlocks - DataStart - 1, MaxInodes - 1,
                       FormattedBitmap, I, B)
  <2>1. MaxInodes - 1 = Cardinality(Free(I))
    <3>1. IsFiniteSet(Ino) /\ Cardinality(Ino) = MaxInodes
      BY SizesAssumption, FS_Interval DEF Ino
    <3>2. \A i \in Ino : i = 0 \/ i \in FileIno
      BY SizesAssumption DEF Ino, FileIno
    <3>3. Free(I) = Ino \ {0}
      BY <1>1, <1>2, <3>2 DEF Free
    <3> QED BY <1>1, <3>1, <3>3, FS_RemoveElement
  <2>2. TotalBlocks - DataStart - 1 = Cardinality(DataBlocks \ FormattedBitmap)
    <3>1. DataBlocks \ FormattedBitmap = DataBlocks \ {DataStart}
      BY <1>11
    <3>2. Cardinality(DataBlocks) = TotalBlocks - DataStart
      BY Layout, SizesAssumption, LayoutAssumption, FS_Interval DEF DataBlocks
    <3>3. Cardinality(DataBlocks \ {DataStart}) = Cardinality(DataBlocks) - 1
      BY <1>1, FS_RemoveElement
    <3> QED BY <3>1, <3>2, <3>3
  <2>3. MetaBlocks \subseteq FormattedBitmap
    BY DEF FormattedBitmap
  <2> QED BY <1>9, <1>10, <1>11, <2>1, <2>2, <2>3 DEF AccountingValid, Free
<1>14. DirectoryValid(I, B)
  <2>1. ASSUME NEW s \in DirSlots(I) PROVE EntryAt(I, B, s) = FreeEntry
    <3>1. s[1] \in DirectIdx /\ s[2] \in DirIdx /\ I[0].direct[s[1]] # Invalid
      BY DEF DirSlots
    <3>2. I[0].direct[s[1]] = DataStart
      BY <1>2, <3>1
    <3>3. AsDirents(B, DataStart) = [i \in DirIdx |-> FreeEntry]
      BY <1>1 DEF AsDirents, DirBlock
    <3> QED BY <3>1, <3>2, <3>3 DEF EntryAt
  <2> QED BY <1>2, <2>1 DEF DirectoryValid
<1> QED BY <1>6, <1>7, <1>8, <1>12, <1>13, <1>14 DEF Consistent, I

\* A step into the unmounted state, or in it, leaves the container consistent.
LEMMA UnmountStep ==
  ASSUME TypeInv, AllocInv, DirInv, CountInv, SaveInv, UnmountedConsistent,
         [Next]_vars, ~CanCrash, "destroy" \notin FaultyCalls
  PROVE  UnmountedConsistent'
<1> SUFFICES ASSUME pc' = "closed"
             PROVE  /\ dsb'.bitmap_hmac = dbitmap'
                    /\ Consistent(dsb'.free_blocks, dsb'.free_inodes, dbitmap',
                                  dinodes', blk')
  BY DEF UnmountedConsistent
<1>1. CASE pc = "closed"
  <2>1. ~Call /\ ~Step
    BY <1>1 DEF Call, denyfs_vol_create, denyfs_vol_unlink, denyfs_vol_write,
       denyfs_vol_truncate, denyfs_fuse_destroy, Step, WriteMapped, AllocateData,
       FindRoot, FindTable, WriteLeaf, LinkChild, PutChunk, WriteDone,
       ShrinkDirect, ReadRoots, ShrinkChild, ShrinkRoot, Resize, FlushBlock,
       FlushFails, FlushDone
  <2>2. UNCHANGED disk
    BY <2>1 DEF Next, denyfs_vol_open, Crash, vars, disk
  <2> QED BY <1>1, <2>2 DEF disk, UnmountedConsistent
<1>2. CASE pc # "closed"
  <2>1. LiveInv /\ DirHolds /\ TallyOK /\ FreeOK
    BY <1>2 DEF AllocInv, DirInv, CountInv
  <2>2. FlushDone
    <3>1. ~Crash /\ pc' # pc
      BY <1>2 DEF Crash
    <3>2. ~denyfs_vol_open /\ ~FlushBlock
      BY <1>2 DEF denyfs_vol_open, FlushBlock
    <3>3. ~FlushFails
      BY DEF FlushFails, FlushEnds, WriteFails, Return
    <3>4. ~Call
      BY DEF Call, denyfs_vol_create, CreateInSlot, CreateInNewBlock,
         StartCreateFlush, denyfs_vol_unlink, free_inode, denyfs_vol_write,
         denyfs_vol_truncate, denyfs_fuse_destroy, NotFound, Refuse, Return,
         StartFlush
    <3>5. /\ ~WriteMapped /\ ~AllocateData /\ ~FindRoot /\ ~FindTable
          /\ ~WriteLeaf /\ ~LinkChild /\ ~PutChunk /\ ~WriteDone
      BY DEF WriteMapped, AllocateData, FindRoot, FindTable, AllocateTable,
         WriteLeaf, LinkChild, GiveBack, PutChunk, WriteDone, EndWrite, Goto,
         Return, StartFlush
    <3>6. /\ ~ShrinkDirect /\ ~ReadRoots /\ ~ShrinkChild /\ ~ShrinkRoot
          /\ ~Resize
      BY DEF ShrinkDirect, ReadRoots, ShrinkChild, ShrinkRoot, Resize, Goto,
         Return, StartFlush
    <3>7. ~UNCHANGED vars
      BY <3>1 DEF vars
    <3> QED BY <3>1, <3>2, <3>3, <3>4, <3>5, <3>6, <3>7 DEF Next, Step
  <2>3. MetadataSaved /\ UNCHANGED disk /\ pc = "flush"
    BY <2>2, AllPassed DEF FlushDone
  <2>4. Consistent(freeBlocks, freeInodes, bitmap, inodes, blk)
    BY <2>1, <2>3, RestConsistent
  <2>5. /\ dsb.bitmap_hmac = bitmap /\ dsb.free_blocks = freeBlocks
        /\ dsb.free_inodes = freeInodes /\ dbitmap = bitmap /\ dinodes = inodes
    BY <2>3 DEF MetadataSaved
  <2> QED BY <2>3, <2>4, <2>5 DEF disk
<1> QED BY <1>1, <1>2

\* readdir lists files that are there, lookup finds each by its name, and no
\* file is listed twice: what add_dirent, remove_dirent, free_inode and the
\* rollback of a failed create do to the directory and the inode table keeps
\* the two in step, and no pointer table or file block is ever written over
\* the directory.  Crashes at any point are covered, and block writes that
\* fail in any call but truncate; a create may fail only where the directory
\* is one block, since the new block of a failed create stays in the directory
\* unwritten.
THEOREM ListingIsTrue ==
  ASSUME "truncate" \notin FaultyCalls,
         "create" \notin FaultyCalls \/ DirectBlocks = 1
  PROVE  Spec => []ListingTrue
<1>1. Init => TypeInv /\ InTables /\ AllocInv /\ DirInv
  BY TypeInit DEF Init, InTables, AllocInv, DirInv
<1>2. TypeInv /\ InTables /\ AllocInv /\ DirInv /\ [Next]_vars
        => (TypeInv /\ InTables /\ AllocInv /\ DirInv)'
  BY TypeStep, TablesStep, AllocStep, DirStep
<1>3. DirInv => ListingTrue
  BY ValidListing DEF DirInv, DirHolds, ListingTrue
<1> QED BY <1>1, <1>2, <1>3, PTL DEF Spec

\* Between calls, memory and data area pass every check denyfs_vol_open makes
\* but that of end-of-file positions: the directory and the inode table match,
\* block_count is the number of blocks a file has, no pointer table is without
\* an entry, and both counters are exact.  So what allocate_file_data_block,
\* truncate_file_blocks, create_file and free_inode do to a file and to the
\* counters is never half done when the call returns, whether it returns
\* success or an error.  Crashes and failed block writes are covered as for
\* the listing.
THEOREM IdleIsConsistent ==
  ASSUME "truncate" \notin FaultyCalls,
         "create" \notin FaultyCalls \/ DirectBlocks = 1
  PROVE  Spec => []IdleConsistent
<1>1. Init => TypeInv /\ InTables /\ AllocInv /\ DirInv /\ CountInv
  BY TypeInit DEF Init, InTables, AllocInv, DirInv, CountInv
<1>2. TypeInv /\ InTables /\ AllocInv /\ DirInv /\ CountInv /\ [Next]_vars
        => (TypeInv /\ InTables /\ AllocInv /\ DirInv /\ CountInv)'
  BY TypeStep, TablesStep, AllocStep, DirStep, CountStep
<1>3. TypeInv /\ AllocInv /\ DirInv /\ CountInv => IdleConsistent
  BY RestConsistent DEF AllocInv, DirInv, CountInv, IdleConsistent
<1> QED BY <1>1, <1>2, <1>3, PTL DEF Spec

\* An unmount leaves a container whose metadata its HMAC authenticates and
\* that passes every check but that of end-of-file positions: the flush of
\* denyfs_fuse_destroy, which writes only the dirty bitmap sectors, completes
\* what earlier flushes left undone, also those that failed.  The process must
\* not die and the block writes of the unmount itself must succeed.
THEOREM UnmountIsConsistent ==
  ASSUME "truncate" \notin FaultyCalls,
         "create" \notin FaultyCalls \/ DirectBlocks = 1,
         "destroy" \notin FaultyCalls, ~CanCrash
  PROVE  Spec => []UnmountedConsistent
<1> DEFINE Inv == /\ TypeInv /\ InTables /\ AllocInv /\ DirInv /\ CountInv
                  /\ SaveInv /\ UnmountedConsistent
<1>1. Init => Inv
  <2> SUFFICES ASSUME Init PROVE Inv
    OBVIOUS
  <2>1. TypeInv /\ InTables /\ AllocInv /\ DirInv /\ CountInv
    BY TypeInit DEF Init, InTables, AllocInv, DirInv, CountInv
  <2>2. SaveInv
    BY DEF Init, SaveInv, DirtyCovers, SuperblockPassed, BitmapPassed,
       InodesPassed
  <2>3. Consistent(dsb.free_blocks, dsb.free_inodes, dbitmap, dinodes, blk)
    <3>1. blk \in [DataBlocks -> Content]
      BY <2>1, TypeParts DEF DataOK
    <3>2. blk[DataStart] = DirBlock([i \in DirIdx |-> FreeEntry])
      BY Ranges DEF Init
    <3>3. /\ dsb.free_blocks = TotalBlocks - DataStart - 1
          /\ dsb.free_inodes = MaxInodes - 1
          /\ dbitmap = FormattedBitmap /\ dinodes = FormattedInodes
      BY DEF Init
    <3> QED BY <3>1, <3>2, <3>3, FormattedConsistent
  <2>4. dsb.bitmap_hmac = dbitmap
    BY DEF Init
  <2> QED BY <2>1, <2>2, <2>3, <2>4 DEF UnmountedConsistent
<1>2. Inv /\ [Next]_vars => Inv'
  <2> SUFFICES ASSUME Inv, [Next]_vars PROVE Inv'
    OBVIOUS
  <2>1. (TypeInv /\ InTables /\ AllocInv /\ DirInv /\ CountInv)'
    BY TypeStep, TablesStep, AllocStep, DirStep, CountStep
  <2>2. SaveInv'
    BY SaveStep
  <2>3. UnmountedConsistent'
    BY UnmountStep
  <2> QED BY <2>1, <2>2, <2>3
<1>3. Inv => UnmountedConsistent
  OBVIOUS
<1> HIDE DEF Inv
<1> QED BY <1>1, <1>2, <1>3, PTL DEF Spec

=============================================================================
