-------------------------- MODULE AllocationProofs --------------------------
(***************************************************************************)
(* The allocation bitmap of a mounted volume is exact, for every size of   *)
(* volume, every sequence of calls, with crashes and with block writes     *)
(* that fail in any call but truncate.                                     *)
(***************************************************************************)
EXTENDS DenyVolumeProofs

-----------------------------------------------------------------------------
(***************************************************************************)
(* The invariant.                                                          *)
(***************************************************************************)
\* The data area as a running truncate will leave it: the children it has
\* dropped are gone from the root, which is written last.
Tree == IF pc = "children" THEN [blk EXCEPT ![node.double] = PtrBlock(op.roots)]
        ELSE blk

\* The block map of the volume, and the blocks it names.
BlockMap == Map(inodes, Tree)
Named == Img(BlockMap)

InTable == pc \in {"root", "table", "leaf", "link"}
\* Blocks that are allocated and not named yet.
Loose == IF InTable THEN Held ELSE {}

\* The bitmap says what the block map names, and free_blocks counts the rest.
MapExact ==
  /\ MetaBlocks \subseteq bitmap
  /\ freeBlocks = Cardinality(DataBlocks \ bitmap)
  /\ Once(BlockMap)
  /\ Named \union Loose = bitmap \intersect DataBlocks
  /\ Named \intersect Loose = {}

\* The directory uses its first direct pointers; a free inode names nothing.
NoBlocks(nd) == /\ \A k \in DirectIdx : nd.direct[k] = Invalid
                /\ nd.indirect = Invalid /\ nd.double = Invalid
NodesOK ==
  /\ inodes[0].type = "DIR" /\ inodes[0].block_count \in 0 .. DirectBlocks
  /\ \A k \in DirectIdx : k >= inodes[0].block_count =>
       inodes[0].direct[k] = Invalid
  /\ \A i \in FileIno : inodes[i].type = "FREE" => NoBlocks(inodes[i])

\* Handlers that write or truncate work on a file.
HandlerOK ==
  /\ pc \in {"map", "root", "table", "leaf", "link", "put",
             "shrink", "roots", "children", "resize"} => IsFile(op.ino)
  /\ pc \in {"shrink", "roots", "children"} => op.call = "truncate"
  /\ pc = "children" => node.double # Invalid
  /\ pc \in {"idle", "flush", "map", "shrink", "roots", "children", "resize"} =>
       op.data = Invalid /\ ~op.new_root /\ ~op.new_table
  /\ pc = "put" =>
       /\ op.done < Len(op.buf) /\ op.data \in DataBlocks
       /\ op.data = DataPtr(blk, node, BlkIdx)
       /\ Held \ {Invalid} \subseteq Named

\* A table that was allocated and holds nothing yet.
EmptyTable(t) == t \in DataBlocks /\ blk[t] = PtrBlock(NoPtrs)

\* The double-indirect root is that of the file, or a new one.
RootFound ==
  IF op.new_root
  THEN node.double = Invalid /\ EmptyTable(op.root) /\ op.root # op.data
  ELSE node.double # Invalid /\ op.root = node.double

\* The slot the new child will take in the root is free.
SlotFree == AsPointers(blk, op.root)[Outer(BlkIdx)] = Invalid
NewTableApart == op.table # op.data /\ (op.new_root => op.table # op.root)

\* What allocate_file_data_block knows at each of its steps.
TablesOK ==
  /\ InTable => op.data \in DataBlocks /\ DataPtr(blk, node, BlkIdx) = Invalid
  /\ pc = "root" => InDouble(BlkIdx) /\ ~op.new_root /\ ~op.new_table
  /\ pc = "table" =>
       /\ ~op.new_table
       /\ \/ InIndirect(BlkIdx) /\ ~op.new_root
          \/ InDouble(BlkIdx) /\ RootFound
  /\ pc = "leaf" =>
       \/ /\ InIndirect(BlkIdx) /\ ~op.new_root
          /\ IF op.new_table
             THEN node.indirect = Invalid /\ EmptyTable(op.table) /\ NewTableApart
             ELSE node.indirect # Invalid /\ op.table = node.indirect
       \/ /\ InDouble(BlkIdx) /\ RootFound
          /\ IF op.new_table
             THEN SlotFree /\ EmptyTable(op.table) /\ NewTableApart
             ELSE /\ ~op.new_root /\ op.table # Invalid
                  /\ op.table = Child(blk, node, Outer(BlkIdx))
  /\ pc = "link" =>
       /\ InDouble(BlkIdx) /\ RootFound /\ SlotFree
       /\ op.new_table /\ op.table \in DataBlocks /\ NewTableApart
       /\ blk[op.table] = PtrBlock([NoPtrs EXCEPT ![Inner(BlkIdx)] = op.data])

LiveInv == MapExact /\ NodesOK /\ HandlerOK /\ TablesOK
AllocInv == IF pc = "closed" THEN op = NoOp ELSE LiveInv

-----------------------------------------------------------------------------
(***************************************************************************)
(* Steps that keep the bitmap exact.                                       *)
(***************************************************************************)

\* A step that allocates nothing and frees nothing.
LEMMA ExactSame ==
  ASSUME MapExact, UNCHANGED <<bitmap, freeBlocks>>, Once(BlockMap'),
         Named' \union Loose' = Named \union Loose, Named' \intersect Loose' = {}
  PROVE  MapExact'
BY DEF MapExact

\* A step that allocates block b and names it or holds it.
LEMMA ExactAlloc ==
  ASSUME MapExact, NEW b \in DataBlocks, alloc_block(b), Once(BlockMap'),
         Named' \union Loose' = Named \union Loose \union {b},
         Named' \intersect Loose' = {}
  PROVE  MapExact'
<1>1. bitmap' = bitmap \union {b}
  BY DEF alloc_block
<1>2. freeBlocks' = Cardinality(DataBlocks \ bitmap')
  BY FreeCount DEF MapExact
<1> QED BY <1>1, <1>2 DEF MapExact

\* A step that frees the blocks of S and names or holds them no more.
LEMMA ExactFree ==
  ASSUME MapExact, NEW S, NEW T, free_block(S, T), Once(BlockMap'),
         Named' \union Loose' = (Named \union Loose) \ S,
         Named' \intersect Loose' = {}
  PROVE  MapExact'
<1>1. bitmap' = bitmap \ (S \intersect bitmap \intersect DataBlocks)
  BY DEF free_block
<1>2. freeBlocks' = Cardinality(DataBlocks \ bitmap')
  BY FreeCount DEF MapExact
<1>3. MetaBlocks \subseteq bitmap'
  BY <1>1, DataArea DEF MapExact
<1>4. bitmap' \intersect DataBlocks = (bitmap \intersect DataBlocks) \ S
  BY <1>1
<1> QED BY <1>2, <1>3, <1>4 DEF MapExact

\* A block that is free is neither named nor held.
LEMMA FreshBlock ==
  ASSUME MapExact, NEW b \in DataBlocks, FirstFree(b)
  PROVE  b \notin Named /\ b \notin Loose /\ b \notin bitmap /\ b # Invalid
BY DataArea DEF MapExact, FirstFree, FreeData

\* What is named is allocated, and in the data area.
LEMMA NamedReadable ==
  ASSUME MapExact, NEW s \in Site
  PROVE  \/ BlockMap[s] = Invalid
         \/ /\ BlockMap[s] \in Named /\ BlockMap[s] \notin Loose
            /\ BlockMap[s] \in DataBlocks /\ BlockMap[s] \in bitmap
            /\ Readable(bitmap, BlockMap[s])
<1>1. DOMAIN BlockMap = Site
  BY DEF BlockMap, Map
<1>2. BlockMap[s] # Invalid => BlockMap[s] \in Named
  BY <1>1 DEF Named, Img
<1> QED BY <1>2 DEF MapExact, Readable

-----------------------------------------------------------------------------
(***************************************************************************)
(* Steps that leave the block map alone.                                   *)
(***************************************************************************)

\* The tree a truncate works on is the data area itself for everyone else.
LEMMA TreeIs ==
  /\ pc # "children" => Tree = blk /\ BlockMap = Map(inodes, blk)
  /\ pc' # "children" => Tree' = blk' /\ BlockMap' = Map(inodes', blk')
  /\ BlockMap' = BlockMap => Named' = Named
BY DEF Tree, BlockMap, Named

\* At rest, and in a flush, nothing is held.
LEMMA AtRest ==
  /\ \A r : Return(r) => HandlerOK' /\ TablesOK' /\ Loose' = {} /\ pc' = "idle"
  /\ \A c, i : StartFlush([NoOp EXCEPT !.call = c, !.ino = i]) =>
       HandlerOK' /\ TablesOK' /\ Loose' = {} /\ pc' = "flush"
  /\ \A c : StartFlush([NoOp EXCEPT !.call = c]) =>
       HandlerOK' /\ TablesOK' /\ Loose' = {} /\ pc' = "flush"
<1>1. NoOp.data = Invalid /\ ~NoOp.new_root /\ ~NoOp.new_table
  BY DEF NoOp
<1>2. ASSUME pc' \in {"idle", "flush"}, op'.data = Invalid, ~op'.new_root,
             ~op'.new_table
      PROVE  HandlerOK' /\ TablesOK' /\ Loose' = {}
  BY <1>2 DEF HandlerOK, TablesOK, Loose, InTable
<1>3. ASSUME NEW r, Return(r)
      PROVE  HandlerOK' /\ TablesOK' /\ Loose' = {} /\ pc' = "idle"
  BY <1>1, <1>2, <1>3 DEF Return
<1>4. ASSUME NEW c, NEW i,
             \/ StartFlush([NoOp EXCEPT !.call = c, !.ino = i])
             \/ StartFlush([NoOp EXCEPT !.call = c])
      PROVE  HandlerOK' /\ TablesOK' /\ Loose' = {} /\ pc' = "flush"
  <2>1. pc' = "flush" /\ op'.data = NoOp.data /\ op'.new_root = NoOp.new_root
        /\ op'.new_table = NoOp.new_table
    BY <1>4 DEF StartFlush, NoOp
  <2> QED BY <1>1, <1>2, <2>1
<1> QED BY <1>3, <1>4

\* Nothing that the map depends on changes.
LEMMA QuietMap ==
  ASSUME MapExact, UNCHANGED <<bitmap, freeBlocks, inodes, blk>>,
         pc # "children", pc' # "children", Loose' = Loose
  PROVE  MapExact'
<1>1. BlockMap' = BlockMap
  BY TreeIs
<1> QED BY <1>1, TreeIs, ExactSame DEF MapExact

\* The inode table stays good as long as the root directory and free inodes
\* are left alone.
LEMMA NodesKept ==
  ASSUME NodesOK, inodes'[0] = inodes[0],
         \A i \in FileIno : inodes'[i].type = "FREE" =>
                              inodes'[i] = inodes[i] \/ NoBlocks(inodes'[i])
  PROVE  NodesOK'
BY DEF NodesOK, NoBlocks

\* A handler that works on a file changes that file only.
LEMMA NodesFile ==
  ASSUME TypeInv, NodesOK, IsFile(op.ino)
  PROVE  /\ op.ino \in FileIno /\ op.ino # 0 /\ node.type = "FILE"
         /\ \A nd : Become(nd) /\ nd.type = "FILE" =>
              /\ NodesOK' /\ inodes'[op.ino] = nd
              /\ inodes'[op.ino].type = "FILE"
              /\ \A i \in Ino : i # op.ino => inodes'[i] = inodes[i]
<1>1. inodes \in [Ino -> Inode] /\ op.ino \in Ino /\ 0 \in Ino
  BY TypeParts, TypeBecome, Ranges DEF InodesOK
<1>2. op.ino # 0 /\ op.ino \in FileIno /\ node.type = "FILE"
  BY <1>1, SizesAssumption DEF NodesOK, IsFile, node, Ino, FileIno
<1>3. ASSUME NEW nd, Become(nd), nd.type = "FILE"
      PROVE  /\ NodesOK' /\ inodes'[op.ino] = nd
             /\ inodes'[op.ino].type = "FILE"
             /\ \A i \in Ino : i # op.ino => inodes'[i] = inodes[i]
  <2>1. inodes'[op.ino] = nd /\ \A i \in Ino : i # op.ino => inodes'[i] = inodes[i]
    BY <1>1, <1>3 DEF Become
  <2>2. inodes'[0] = inodes[0]
    BY <1>1, <1>2, <2>1
  <2>3. \A i \in FileIno : inodes'[i].type = "FREE" => inodes'[i] = inodes[i]
    BY <1>3, <2>1, Ranges
  <2> QED BY <1>3, <2>1, <2>2, <2>3, NodesKept
<1> QED BY <1>2, <1>3

\* Refusing a call.
LEMMA LiveRefuse ==
  ASSUME LiveInv, pc = "idle", NEW r, Refuse(r)
  PROVE  LiveInv' /\ pc' = "idle"
<1>1. UNCHANGED <<bitmap, freeBlocks, inodes, blk>> /\ Return(r)
  BY DEF Refuse, disk, alloc
<1>2. Loose = {}
  BY DEF Loose, InTable
<1>3. HandlerOK' /\ TablesOK' /\ Loose' = {} /\ pc' = "idle"
  BY <1>1, AtRest
<1> QED BY <1>1, <1>2, <1>3, QuietMap, NodesKept DEF LiveInv

\* Starting to unmount, flushing and the end of a flush.
LEMMA LiveFlush ==
  ASSUME LiveInv, denyfs_fuse_destroy \/ FlushBlock \/ FlushFails \/ FlushDone
  PROVE  pc' # "closed" => LiveInv'
<1> SUFFICES ASSUME pc' # "closed" PROVE LiveInv'
  OBVIOUS
<1>1. Loose = {} /\ pc # "children"
  BY DEF Loose, InTable, denyfs_fuse_destroy, FlushBlock, FlushFails, FlushDone
<1>2. CASE denyfs_fuse_destroy
  <2>1. UNCHANGED <<bitmap, freeBlocks, inodes, blk>>
    BY <1>2 DEF denyfs_fuse_destroy, disk, alloc
  <2>2. HandlerOK' /\ TablesOK' /\ Loose' = {} /\ pc' = "flush"
    BY <1>2, AtRest DEF denyfs_fuse_destroy
  <2> QED BY <1>1, <2>1, <2>2, QuietMap, NodesKept DEF LiveInv
<1>3. CASE FlushBlock
  <2>1. UNCHANGED <<bitmap, freeBlocks, inodes, blk, pc>> /\ pc = "flush"
    BY <1>3 DEF FlushBlock, alloc
  <2>2. HandlerOK' /\ TablesOK' /\ Loose' = {}
    <3>1. UNCHANGED <<op.data, op.new_root, op.new_table>>
      BY <1>3 DEF FlushBlock
    <3>2. op.data = Invalid /\ ~op.new_root /\ ~op.new_table
      BY <2>1 DEF LiveInv, HandlerOK
    <3> QED BY <2>1, <3>1, <3>2 DEF HandlerOK, TablesOK, Loose, InTable
  <2> QED BY <1>1, <2>1, <2>2, QuietMap, NodesKept DEF LiveInv
<1>4. CASE FlushFails \/ FlushDone
  <2>1. PICK r : FlushEnds(r)
    BY <1>4 DEF FlushFails, FlushDone
  <2>2. Return(r) /\ UNCHANGED <<freeBlocks, bitmap, inodes>>
    BY <2>1 DEF FlushEnds, denyfs_vol_close
  <2>3. UNCHANGED blk
    BY <1>4 DEF FlushFails, FlushDone, WriteFails, disk
  <2>4. HandlerOK' /\ TablesOK' /\ Loose' = {} /\ pc' = "idle"
    BY <2>2, AtRest
  <2> QED BY <1>1, <2>2, <2>3, <2>4, QuietMap, NodesKept DEF LiveInv
<1> QED BY <1>2, <1>3, <1>4

\* Starting a write.
LEMMA LiveStartWrite ==
  ASSUME TypeInv, LiveInv, NEW n, NEW off, NEW buf, denyfs_vol_write(n, off, buf)
  PROVE  LiveInv' /\ pc' # "closed"
<1>1. pc = "idle" /\ Loose = {}
  BY DEF denyfs_vol_write, Loose, InTable
<1>2. ASSUME NEW r, Refuse(r) PROVE LiveInv' /\ pc' # "closed"
  BY <1>1, <1>2, LiveRefuse
<1>3. ASSUME NEW i \in FileIno, IsFile(i), pc' = "map",
             op' = [NoOp EXCEPT !.call = "write", !.ino = i,
                                !.off = off, !.buf = buf],
             UNCHANGED <<disk, alloc, freeInodes, inodes, faults>>
      PROVE  LiveInv' /\ pc' # "closed"
  <2>1. UNCHANGED <<bitmap, freeBlocks, inodes, blk>>
    BY <1>3 DEF disk, alloc
  <2>2. /\ op'.ino = i /\ op'.data = Invalid /\ ~op'.new_root /\ ~op'.new_table
    BY <1>3 DEF NoOp
  <2>3. IsFile(op.ino)'
    BY <1>3, <2>1, <2>2 DEF IsFile
  <2>4. HandlerOK' /\ TablesOK' /\ Loose' = {}
    BY <1>3, <2>2, <2>3 DEF HandlerOK, TablesOK, Loose, InTable
  <2> QED BY <1>1, <1>3, <2>1, <2>4, QuietMap, NodesKept DEF LiveInv
<1> QED BY <1>2, <1>3 DEF denyfs_vol_write, NotFound

-----------------------------------------------------------------------------
(***************************************************************************)
(* denyfs_vol_write: finding and allocating the block of a chunk.          *)
(***************************************************************************)
BlkSite == DataSite(op.ino, BlkIdx)

\* Where the block of the chunk is named.
LEMMA BlkPlace ==
  ASSUME TypeInv, op.done < Len(op.buf)
  PROVE  /\ op.ino \in Ino /\ BlkIdx \in LogicalBlocks /\ BlkSite \in Site
         /\ \/ /\ BlkIdx < DirectBlocks /\ ~InIndirect(BlkIdx) /\ ~InDouble(BlkIdx)
               /\ BlkIdx \in DirectIdx /\ BlkSite = DirectSite(op.ino, BlkIdx)
            \/ /\ ~(BlkIdx < DirectBlocks) /\ InIndirect(BlkIdx) /\ ~InDouble(BlkIdx)
               /\ LeafIdx \in PtrIdx /\ BlkSite = IndirectSite(op.ino, LeafIdx)
            \/ /\ ~(BlkIdx < DirectBlocks) /\ ~InIndirect(BlkIdx) /\ InDouble(BlkIdx)
               /\ Outer(BlkIdx) \in PtrIdx /\ LeafIdx \in PtrIdx
               /\ LeafIdx = Inner(BlkIdx)
               /\ BlkSite = LeafSite(op.ino, Outer(BlkIdx), LeafIdx)
<1>1. /\ op.off \in Nat /\ op.done \in Nat /\ Len(op.buf) \in Nat
      /\ op.off + Len(op.buf) <= MaxFileSize /\ op.ino \in Ino
  BY TypeParts, InputsAssumption DEF ControlOK, OpType, WriteFits
<1>2. MaxFileBlocks \in Nat
  <2> DEFINE S == PointersPerBlock * PointersPerBlock
  <2>1. S \in Nat
    BY SizesAssumption
  <2> HIDE DEF S
  <2> QED BY <2>1, SizesAssumption DEF MaxFileBlocks, S
<1>3. Pos \in Nat /\ Pos < MaxFileBlocks * SectorSize
  BY <1>1, <1>2, LayoutAssumption, SizesAssumption DEF Pos
<1>4. BlkIdx \in LogicalBlocks
  BY <1>2, <1>3, DivBelow, SizesAssumption DEF BlkIdx, LogicalBlocks
<1>5. BlkSite \in Site
  BY <1>1, <1>4, Sites DEF BlkSite
<1> HIDE DEF BlkIdx
<1>6. CASE BlkIdx \in DirectIdx /\ BlkIdx < DirectBlocks
  BY <1>1, <1>4, <1>5, <1>6, BlockPlace, SizesAssumption
     DEF BlkSite, DirectSite, InIndirect, InDouble
<1>7. CASE InIndirect(BlkIdx)
  <2>1. /\ ~InDouble(BlkIdx) /\ ~(BlkIdx < DirectBlocks) /\ BlkIdx \in Nat
        /\ BlkIdx - DirectBlocks \in PtrIdx
    BY <1>4, <1>7, BlockPlace
  <2>2. LeafIdx = BlkIdx - DirectBlocks
    BY <1>7 DEF LeafIdx
  <2>3. BlkIdx = DirectBlocks + LeafIdx
    BY <2>1, <2>2, SizesAssumption
  <2>4. BlkSite = IndirectSite(op.ino, LeafIdx)
    BY <2>3 DEF BlkSite, IndirectSite
  <2> QED BY <1>1, <1>4, <1>5, <1>7, <2>1, <2>2, <2>4
<1>8. CASE InDouble(BlkIdx)
  <2>1. /\ ~InIndirect(BlkIdx) /\ ~(BlkIdx < DirectBlocks)
        /\ Outer(BlkIdx) \in PtrIdx /\ Inner(BlkIdx) \in PtrIdx
        /\ BlkIdx = DirectBlocks + (Outer(BlkIdx) + 1) * PointersPerBlock
                      + Inner(BlkIdx)
    BY <1>4, <1>8, BlockPlace
  <2>2. LeafIdx = Inner(BlkIdx)
    BY <2>1 DEF LeafIdx
  <2>3. BlkSite = LeafSite(op.ino, Outer(BlkIdx), LeafIdx)
    BY <2>1, <2>2 DEF BlkSite, LeafSite
  <2> QED BY <1>1, <1>4, <1>5, <1>8, <2>1, <2>2, <2>3
<1> QED BY <1>4, <1>6, <1>7, <1>8, BlockPlace

\* The map says what DataPtr does, before and after a step.
LEMMA BlkNamed ==
  ASSUME TypeInv, op.done < Len(op.buf)
  PROVE  /\ pc # "children" => BlockMap[BlkSite] = DataPtr(blk, node, BlkIdx)
         /\ pc' # "children" /\ op'.ino = op.ino /\ BlkIdx' = BlkIdx =>
              BlockMap'[BlkSite] = DataPtr(blk', node', BlkIdx')
<1>1. op.ino \in Ino /\ BlkIdx \in LogicalBlocks
  BY BlkPlace
<1>2. ASSUME NEW I, NEW B
      PROVE  Map(I, B)[BlkSite] = DataPtr(B, I[op.ino], BlkIdx)
  <2>1. \A i \in Ino, lb \in LogicalBlocks :
          Map(I, B)[DataSite(i, lb)] = DataPtr(B, I[i], lb)
    BY MapAt
  <2> QED BY <1>1, <2>1 DEF BlkSite
<1>3. ASSUME pc # "children"
      PROVE  BlockMap[BlkSite] = DataPtr(blk, node, BlkIdx)
  <2>1. BlockMap = Map(inodes, blk)
    BY <1>3, TreeIs
  <2> QED BY <1>2, <2>1 DEF node
<1>4. ASSUME pc' # "children", op'.ino = op.ino, BlkIdx' = BlkIdx
      PROVE  BlockMap'[BlkSite] = DataPtr(blk', node', BlkIdx')
  BY <1>2, <1>4, TreeIs DEF node
<1> QED BY <1>3, <1>4

\* Ways the locals of a write change.
LEMMA Locals ==
  ASSUME TypeInv, NEW b
  PROVE  /\ op' = [op EXCEPT !.data = b] =>
              /\ op'.data = b /\ op'.root = op.root /\ op'.table = op.table
              /\ op'.new_root = op.new_root /\ op'.new_table = op.new_table
              /\ op'.ino = op.ino /\ op'.done = op.done /\ op'.buf = op.buf
              /\ BlkIdx' = BlkIdx
         /\ op' = [op EXCEPT !.root = b] =>
              /\ op'.root = b /\ op'.data = op.data /\ op'.table = op.table
              /\ op'.new_root = op.new_root /\ op'.new_table = op.new_table
              /\ op'.ino = op.ino /\ op'.done = op.done /\ op'.buf = op.buf
              /\ BlkIdx' = BlkIdx
         /\ op' = [op EXCEPT !.table = b] =>
              /\ op'.table = b /\ op'.data = op.data /\ op'.root = op.root
              /\ op'.new_root = op.new_root /\ op'.new_table = op.new_table
              /\ op'.ino = op.ino /\ op'.done = op.done /\ op'.buf = op.buf
              /\ BlkIdx' = BlkIdx
         /\ op' = [op EXCEPT !.root = b, !.new_root = TRUE] =>
              /\ op'.root = b /\ op'.data = op.data /\ op'.table = op.table
              /\ op'.new_root = TRUE /\ op'.new_table = op.new_table
              /\ op'.ino = op.ino /\ op'.done = op.done /\ op'.buf = op.buf
              /\ BlkIdx' = BlkIdx
         /\ op' = [op EXCEPT !.table = b, !.new_table = TRUE] =>
              /\ op'.table = b /\ op'.data = op.data /\ op'.root = op.root
              /\ op'.new_root = op.new_root /\ op'.new_table = TRUE
              /\ op'.ino = op.ino /\ op'.done = op.done /\ op'.buf = op.buf
              /\ BlkIdx' = BlkIdx
<1>1. op \in OpType
  BY TypeParts DEF ControlOK
<1>2. op'.off = op.off /\ op'.done = op.done => BlkIdx' = BlkIdx
  BY DEF BlkIdx, Pos
<1> HIDE DEF BlkIdx
<1> QED BY <1>1, <1>2 DEF OpType

\* The block of the chunk is found.
LEMMA LiveMapped ==
  ASSUME TypeInv, LiveInv, WriteMapped
  PROVE  LiveInv' /\ pc' # "closed"
<1>1. /\ pc = "map" /\ op.done < Len(op.buf) /\ Loose = {} /\ IsFile(op.ino)
      /\ UNCHANGED <<bitmap, freeBlocks, inodes, blk>>
      /\ op.data = Invalid /\ ~op.new_root /\ ~op.new_table
  BY DEF WriteMapped, Loose, InTable, LiveInv, HandlerOK, NoWrite, alloc
<1>2. CASE Return("EIO")
  <2>1. HandlerOK' /\ TablesOK' /\ Loose' = {} /\ pc' = "idle"
    BY <1>2, AtRest
  <2> QED BY <1>1, <2>1, QuietMap, NodesKept DEF LiveInv
<1>3. CASE Mapped \in DataBlocks /\ op' = [op EXCEPT !.data = Mapped] /\ Goto("put")
  <2>1. /\ op'.data = Mapped /\ ~op'.new_root /\ ~op'.new_table
        /\ op'.ino = op.ino /\ op'.done = op.done /\ op'.buf = op.buf
        /\ BlkIdx' = BlkIdx
    BY <1>1, <1>3, Locals
  <2>2. Mapped = DataPtr(blk, node, BlkIdx) /\ Mapped # Invalid
    BY <1>3, DataArea DEF Mapped, get_file_data_block
  <2>3. Loose' = {} /\ pc' = "put" /\ pc' # "children" /\ pc' # "closed"
    BY <1>3 DEF Goto, Loose, InTable
  <2>4. BlockMap' = BlockMap /\ Named' = Named
    BY <1>1, <2>3, TreeIs
  <2>5. Mapped \in Named
    BY <1>1, <2>2, BlkNamed, BlkPlace DEF Named, Img, BlockMap, Map
  <2>6. Held' = {Mapped}
    BY <2>1 DEF Held
  <2>7. node' = node /\ IsFile(op.ino)'
    BY <1>1, <2>1 DEF node, IsFile
  <2>8. op'.data = DataPtr(blk', node', BlkIdx')
    BY <1>1, <2>1, <2>2, <2>7
  <2>9. HandlerOK'
    BY <1>1, <1>3, <2>1, <2>3, <2>4, <2>5, <2>6, <2>7, <2>8 DEF HandlerOK
  <2>10. TablesOK'
    BY <2>3 DEF TablesOK, InTable
  <2> QED BY <1>1, <2>3, <2>9, <2>10, QuietMap, NodesKept DEF LiveInv
<1> QED BY <1>2, <1>3 DEF WriteMapped

\* Writing a block that the map does not name, or that holds file data or
\* directory entries, leaves the map as it is.
LEMMA PlainWrite ==
  ASSUME TypeInv, MapExact, pc # "children", pc' # "children", UNCHANGED inodes,
         NEW t, NEW c, write_block(t, c),
         \/ t \notin Named
         \/ \E i \in Ino, lb \in LogicalBlocks : t = DataPtr(blk, inodes[i], lb)
  PROVE  BlockMap' = BlockMap /\ Named' = Named
<1>1. OnlyAt(blk, blk', t)
  BY WriteOnly
<1>2. \A i \in Ino : SamePointers(inodes[i], inodes'[i])
  BY DEF SamePointers
<1>3. Once(Map(inodes, blk)) /\ Named = Img(Map(inodes, blk))
  BY TreeIs DEF MapExact, Named
<1>4. Map(inodes', blk') = Map(inodes, blk)
  BY <1>1, <1>2, <1>3, MapSame DEF AllSame, Harmless
<1> QED BY <1>4, TreeIs

\* A block given back before the map could name it.
LEMMA LiveRelease ==
  ASSUME TypeInv, LiveInv, InTable, NEW T, NEW r, free_block(Held, T), Return(r),
         UNCHANGED <<inodes, blk>>
  PROVE  LiveInv' /\ pc' # "closed"
<1>1. HandlerOK' /\ TablesOK' /\ Loose' = {} /\ pc' = "idle"
  BY AtRest
<1>2. BlockMap' = BlockMap /\ Named' = Named
  BY <1>1, TreeIs DEF InTable
<1>3. Loose = Held
  BY DEF Loose
<1>4. Named' \union Loose' = (Named \union Loose) \ Held
  BY <1>1, <1>2, <1>3 DEF LiveInv, MapExact
<1>5. MapExact'
  BY <1>1, <1>2, <1>4, ExactFree DEF LiveInv, MapExact
<1> QED BY <1>1, <1>5, NodesKept DEF LiveInv

\* A table that was just formatted has no entries.
LEMMA EmptyEntries ==
  ASSUME NEW B, NEW t \in DataBlocks, B[t] = PtrBlock(NoPtrs)
  PROVE  /\ AsPointers(B, t) = NoPtrs
         /\ \A p \in PtrIdx : PtrAt(B, t, p) = Invalid
<1>1. AsPointers(B, t) = NoPtrs
  BY DEF AsPointers, PtrBlock
<1> QED BY <1>1 DEF PtrAt, NoPtrs

\* allocate_file_data_block, up to the data block: nothing to allocate, a
\* block that could not be written, or a zeroed block for the hole.
LEMMA LiveAllocateData ==
  ASSUME TypeInv, LiveInv, AllocateData
  PROVE  LiveInv' /\ pc' # "closed"
<1>1. /\ pc = "map" /\ op.done < Len(op.buf) /\ Loose = {} /\ IsFile(op.ino)
      /\ op.data = Invalid /\ ~op.new_root /\ ~op.new_table
      /\ Mapped = Invalid
  BY DEF AllocateData, Loose, InTable, LiveInv, HandlerOK
<1>2. DataPtr(blk, node, BlkIdx) = Invalid
  BY <1>1 DEF Mapped, get_file_data_block, Invalid, EIO
<1>3. BlockMap[BlkSite] = Invalid /\ BlockMap = Map(inodes, blk)
  BY <1>1, <1>2, BlkNamed, TreeIs
<1>4. CASE NoWrite /\ Return("ENOSPC") /\ UNCHANGED <<alloc, inodes>>
  <2>1. HandlerOK' /\ TablesOK' /\ Loose' = {} /\ pc' = "idle"
    BY <1>4, AtRest
  <2>2. UNCHANGED <<bitmap, freeBlocks, inodes, blk>>
    BY <1>4 DEF NoWrite, alloc
  <2> QED BY <1>1, <2>1, <2>2, QuietMap, NodesKept DEF LiveInv
<1>5. ASSUME NEW b \in DataBlocks, WriteFails(op.call), free_block({}, {b}),
             Return("EIO"), UNCHANGED inodes
      PROVE  LiveInv' /\ pc' # "closed"
  <2>1. HandlerOK' /\ TablesOK' /\ Loose' = {} /\ pc' = "idle"
    BY <1>5, AtRest
  <2>2. BlockMap' = BlockMap /\ Named' = Named
    BY <1>1, <1>5, <2>1, TreeIs DEF WriteFails
  <2>3. MapExact'
    BY <1>1, <1>5, <2>1, <2>2, ExactFree DEF LiveInv, MapExact
  <2> QED BY <1>5, <2>1, <2>3, NodesKept DEF LiveInv
<1>6. ASSUME NEW b \in DataBlocks, alloc_block(b), write_block(b, DataBlock(Zeros)),
             op' = [op EXCEPT !.data = b],
             \/ /\ BlkIdx < DirectBlocks
                /\ Become([node EXCEPT !.block_count = @ + 1,
                                        !.direct[BlkIdx] = b])
                /\ Goto("put")
             \/ /\ InIndirect(BlkIdx) /\ Goto("table") /\ UNCHANGED inodes
             \/ /\ InDouble(BlkIdx) /\ Goto("root") /\ UNCHANGED inodes
      PROVE  LiveInv' /\ pc' # "closed"
  <2>1. /\ op'.data = b /\ ~op'.new_root /\ ~op'.new_table
        /\ op'.ino = op.ino /\ op'.done = op.done /\ op'.buf = op.buf
        /\ BlkIdx' = BlkIdx
    BY <1>1, <1>6, Locals
  <2>2. b \notin Named /\ b # Invalid
    BY <1>6, FreshBlock DEF LiveInv, alloc_block
  <2>3. Held' = {b} /\ pc' # "children" /\ pc' # "closed"
    BY <1>6, <2>1 DEF Held, Goto
  <2>4. CASE UNCHANGED inodes /\ pc' \in {"table", "root"}
    <3>1. BlockMap' = BlockMap /\ Named' = Named
      BY <1>1, <1>6, <2>2, <2>3, <2>4, PlainWrite DEF LiveInv
    <3>2. Loose' = {b}
      BY <2>3, <2>4 DEF Loose, InTable
    <3>3. MapExact'
      BY <1>1, <1>6, <2>2, <3>1, <3>2, ExactAlloc DEF LiveInv, MapExact
    <3>4. DataPtr(blk', node', BlkIdx') = Invalid
      BY <1>1, <1>3, <2>1, <2>3, <3>1, BlkNamed
    <3>5. IsFile(op.ino)'
      BY <1>1, <2>1, <2>4 DEF IsFile
    <3>6. HandlerOK'
      BY <2>4, <3>5 DEF HandlerOK
    <3>7. \/ InIndirect(BlkIdx') /\ pc' = "table"
          \/ InDouble(BlkIdx') /\ pc' = "root"
      BY <1>6, <2>1, <2>4 DEF Goto
    <3>8. TablesOK'
      BY <2>1, <3>4, <3>7 DEF TablesOK, InTable
    <3> QED BY <2>3, <2>4, <3>3, <3>6, <3>8, NodesKept DEF LiveInv
  <2>5. CASE /\ BlkIdx < DirectBlocks /\ pc' = "put"
             /\ Become([node EXCEPT !.block_count = @ + 1, !.direct[BlkIdx] = b])
    <3> DEFINE i == op.ino
               nd == [node EXCEPT !.block_count = @ + 1, !.direct[BlkIdx] = b]
    <3>1. /\ i \in Ino /\ BlkIdx \in DirectIdx /\ BlkSite = DirectSite(i, BlkIdx)
          /\ BlkSite \in Site
      BY <1>1, <2>5, BlkPlace
    <3>2. node \in Inode
      BY TypeBecome
    <3>3. /\ nd.type = node.type /\ nd.indirect = node.indirect
          /\ nd.double = node.double
          /\ \A k \in DirectIdx :
               nd.direct[k] = IF k = BlkIdx THEN b ELSE node.direct[k]
      BY <3>1, <3>2 DEF Inode
    <3> HIDE DEF nd
    <3>4. /\ NodesOK' /\ inodes'[i] = nd /\ inodes'[i].type = "FILE"
          /\ \A j \in Ino : j # i => inodes'[j] = inodes[j]
      BY <1>1, <2>5, <3>3, NodesFile DEF LiveInv, nd
    <3> DEFINE f == Map(inodes, blk)
               g == Map(inodes, blk')
               h == Map(inodes', blk')
    <3>5. g = f
      <4>1. OnlyAt(blk, blk', b) /\ b \notin Img(f)
        BY <1>3, <1>6, <2>2, WriteOnly DEF Named
      <4>2. \A j \in Ino : SamePointers(inodes[j], inodes[j])
        BY DEF SamePointers
      <4> HIDE DEF f
      <4> QED BY <4>1, <4>2, MapSame DEF f, AllSame, Harmless
    <3>6. AgreeBut(g, h, DirectSites(i))
      <4>1. OthersSame(inodes, inodes', i)
        BY <3>4 DEF OthersSame, SamePointers
      <4> QED BY <3>1, <3>3, <3>4, <4>1, PutDirect DEF node
    <3>7. \A k \in DirectIdx :
            h[DirectSite(i, k)] = IF k = BlkIdx THEN b ELSE f[DirectSite(i, k)]
      <4>1. \A k \in DirectIdx : f[DirectSite(i, k)] = node.direct[k]
        BY <3>1, MapKinds DEF node
      <4>2. \A k \in DirectIdx : h[DirectSite(i, k)] = inodes'[i].direct[k]
        BY <3>1, MapKinds
      <4> QED BY <3>3, <3>4, <4>1, <4>2
    <3>8. DOMAIN f = Site /\ DOMAIN h = Site
      BY DEF Map
    <3>9. f = BlockMap /\ h = BlockMap'
      BY <1>3, <2>3, TreeIs
    <3> HIDE DEF f, g, h
    <3>10. h[BlkSite] = b /\ f[BlkSite] = Invalid
      BY <1>3, <3>1, <3>7, <3>9
    <3>11. \A s \in Site : s # BlkSite => h[s] = f[s]
      BY <3>1, <3>5, <3>6, <3>7 DEF AgreeBut, DirectSites
    <3>12. Once(f) /\ Img(f) = Named /\ Img(h) = Named'
      BY <3>9 DEF LiveInv, MapExact, Named
    <3>13. Once(h) /\ Img(h) = Img(f) \union {b}
      <4> DEFINE Y == {BlkSite}
      <4>1. Once(h) /\ Img(h) = Img(f) \union {h[s] : s \in Y}
        <5>1. /\ Y \subseteq DOMAIN f /\ DOMAIN h = DOMAIN f
              /\ \A s \in Y : f[s] = Invalid /\ h[s] # Invalid /\ h[s] \notin Img(f)
              /\ \A s, t \in Y : h[s] = h[t] => s = t
              /\ \A s \in DOMAIN f : s \notin Y => h[s] = f[s]
          BY <2>2, <3>1, <3>8, <3>10, <3>11, <3>12
        <5> HIDE DEF Y
        <5> QED BY <3>12, <5>1, MapGrow
      <4> QED BY <3>10, <4>1
    <3>14. Loose' = {}
      BY <2>5 DEF Loose, InTable
    <3>15. MapExact'
      BY <1>1, <1>6, <3>9, <3>12, <3>13, <3>14, ExactAlloc DEF LiveInv, MapExact
    <3>16. b = DataPtr(blk', node', BlkIdx')
      BY <1>1, <2>1, <2>3, <3>9, <3>10, BlkNamed
    <3>17. HandlerOK'
      <4>1. IsFile(op.ino)'
        BY <2>1, <3>4 DEF IsFile
      <4>2. Held' \subseteq Named'
        BY <2>3, <3>12, <3>13
      <4> QED BY <1>1, <1>6, <2>1, <2>5, <3>16, <4>1, <4>2 DEF HandlerOK
    <3>18. TablesOK'
      BY <2>5 DEF TablesOK, InTable
    <3> QED BY <2>3, <3>4, <3>15, <3>17, <3>18 DEF LiveInv
  <2> QED BY <1>6, <2>4, <2>5 DEF Goto
<1> QED BY <1>4, <1>5, <1>6 DEF AllocateData

\* An empty pointer table is written elsewhere: a root stays what it was.
LEMMA RootStays ==
  ASSUME TypeInv, RootFound, NEW t, NEW c, write_block(t, c), t # op.root,
         UNCHANGED inodes, op'.root = op.root, op'.new_root = op.new_root,
         op'.data = op.data, op'.ino = op.ino
  PROVE  RootFound' /\ AsPointers(blk', op.root) = AsPointers(blk, op.root)
<1>1. OnlyAt(blk, blk', t)
  BY WriteOnly
<1>2. AsPointers(blk', op.root) = AsPointers(blk, op.root)
  BY <1>1 DEF OnlyAt
<1>3. node' = node
  BY DEF node
<1>4. EmptyTable(op.root) => EmptyTable(op.root)'
  BY WriteOther DEF EmptyTable
<1> QED BY <1>2, <1>3, <1>4 DEF RootFound

\* The root of a double-indirect tree is a data block, and named if it is not
\* a new one.
LEMMA RootKnown ==
  ASSUME TypeInv, LiveInv, InTable, RootFound
  PROVE  /\ op.root \in DataBlocks /\ op.root # Invalid
         /\ op.new_root => op.root \in Loose
         /\ ~op.new_root => op.root \in Named /\ op.root \notin Loose
<1>1. op.ino \in Ino
  BY TypeBecome
<1>2. CASE op.new_root
  BY <1>2, DataArea DEF RootFound, EmptyTable, Loose, Held
<1>3. CASE ~op.new_root
  <2>1. BlockMap = Map(inodes, blk)
    BY TreeIs DEF InTable
  <2>2. BlockMap[DoubleSite(op.ino)] = op.root /\ op.root # Invalid
    BY <1>1, <1>3, <2>1, MapKinds DEF RootFound, node
  <2>3. DoubleSite(op.ino) \in Site
    BY <1>1, KindsAreSites
  <2> QED BY <1>3, <2>2, <2>3, NamedReadable DEF LiveInv
<1>4. op.new_root \in BOOLEAN
  BY TypeParts DEF ControlOK, OpType
<1> QED BY <1>2, <1>3, <1>4

\* allocate_pointer_table, for the root or for the table below.
LEMMA LiveAllocateTable ==
  ASSUME TypeInv, InTables, LiveInv, AllocateTable, UNCHANGED inodes,
         \/ pc = "root" /\ node.double = Invalid
         \/ pc = "table" /\ LeafTable = Invalid
  PROVE  LiveInv' /\ pc' # "closed"
<1>1. /\ InTable /\ pc # "children" /\ Loose = Held /\ IsFile(op.ino)
      /\ op.data \in DataBlocks /\ DataPtr(blk, node, BlkIdx) = Invalid
      /\ ~op.new_table /\ op.done < Len(op.buf)
  BY DEF InTable, Loose, LiveInv, HandlerOK, TablesOK, InTables
<1>2. CASE FreeData = {} /\ Release /\ NoWrite /\ Return("ENOSPC")
  BY <1>1, <1>2, LiveRelease DEF Release, NoWrite
<1>3. ASSUME NEW b \in DataBlocks, WriteFails(op.call), free_block(Held, {b}),
             Return("EIO")
      PROVE  LiveInv' /\ pc' # "closed"
  BY <1>1, <1>3, LiveRelease DEF WriteFails
<1>4. ASSUME NEW b \in DataBlocks, alloc_block(b),
             write_block(b, PtrBlock(NoPtrs)),
             \/ /\ pc = "root" /\ Goto("table")
                /\ op' = [op EXCEPT !.root = b, !.new_root = TRUE]
             \/ /\ pc = "table" /\ Goto("leaf")
                /\ op' = [op EXCEPT !.table = b, !.new_table = TRUE]
      PROVE  LiveInv' /\ pc' # "closed"
  <2>1. b \notin Named /\ b \notin Loose /\ b # Invalid
    BY <1>4, FreshBlock DEF LiveInv, alloc_block
  <2>2. pc' # "children" /\ pc' # "closed" /\ InTable'
    BY <1>4 DEF Goto, InTable
  <2>3. BlockMap' = BlockMap /\ Named' = Named
    BY <1>1, <1>4, <2>1, <2>2, PlainWrite DEF LiveInv
  <2>4. /\ op'.data = op.data /\ op'.ino = op.ino /\ op'.done = op.done
        /\ op'.buf = op.buf /\ BlkIdx' = BlkIdx
    BY <1>4, Locals
  <2>5. DataPtr(blk', node', BlkIdx') = Invalid
    BY <1>1, <2>2, <2>3, <2>4, BlkNamed
  <2>6. node' = node /\ IsFile(op.ino)'
    BY <1>1, <2>4 DEF node, IsFile
  <2>7. HandlerOK'
    BY <1>4, <2>6 DEF HandlerOK, Goto
  <2>8. EmptyTable(b)'
    BY <1>4, WriteOnly DEF EmptyTable
  <2>9. b # op.data
    BY <1>1, <2>1 DEF Held
  <2>10. ASSUME pc = "root" PROVE Held' = Held \union {b} /\ TablesOK'
    <3>1. /\ op'.root = b /\ op'.new_root /\ ~op'.new_table /\ pc' = "table"
      BY <1>1, <1>4, <2>10, Locals DEF Goto
    <3>2. InDouble(BlkIdx) /\ ~op.new_root /\ node.double = Invalid
      BY <2>10 DEF LiveInv, TablesOK
    <3>3. Held' = Held \union {b}
      BY <1>1, <2>4, <3>1, <3>2 DEF Held
    <3>4. RootFound'
      BY <2>4, <2>6, <2>8, <2>9, <3>1, <3>2 DEF RootFound
    <3>5. InDouble(BlkIdx')
      BY <2>4, <3>2
    <3>6. op'.data \in DataBlocks
      BY <1>1, <2>4
    <3>7. TablesOK'
      BY <2>5, <3>1, <3>4, <3>5, <3>6 DEF TablesOK
    <3> QED BY <3>3, <3>7
  <2>11. ASSUME pc = "table" PROVE Held' = Held \union {b} /\ TablesOK'
    <3>1. /\ op'.table = b /\ op'.new_table /\ pc' = "leaf"
          /\ op'.root = op.root /\ op'.new_root = op.new_root
      BY <1>4, <2>11, Locals DEF Goto
    <3>2. Held' = Held \union {b}
      BY <1>1, <2>4, <3>1 DEF Held
    <3>3. op.new_root => b # op.root
      BY <1>1, <2>1 DEF Held
    <3>4. NewTableApart'
      BY <2>4, <2>9, <3>1, <3>3 DEF NewTableApart
    <3>5. CASE InIndirect(BlkIdx) /\ ~op.new_root
      <4>1. node.indirect = Invalid
        BY <2>11, <3>5 DEF LeafTable
      <4>2. InIndirect(BlkIdx') /\ op'.data \in DataBlocks
        BY <1>1, <2>4, <3>5
      <4>3. ~op'.new_root /\ node'.indirect = Invalid /\ EmptyTable(op.table)'
        BY <2>6, <2>8, <3>1, <3>5, <4>1 DEF EmptyTable
      <4>4. TablesOK'
        BY <2>5, <3>1, <3>4, <4>2, <4>3 DEF TablesOK
      <4> QED BY <3>2, <4>4
    <3>6. CASE InDouble(BlkIdx) /\ RootFound
      <4>1. b # op.root
        BY <1>1, <2>1, <3>6, RootKnown
      <4>2. /\ RootFound' /\ AsPointers(blk', op.root) = AsPointers(blk, op.root)
        BY <1>4, <2>4, <3>1, <3>6, <4>1, RootStays
      <4>3. ~InIndirect(BlkIdx)
        BY <3>6, TypeParts, SizesAssumption, DivFacts
           DEF InDouble, InIndirect, BlkIdx, Pos, ControlOK, OpType
      <4>4. AsPointers(blk, op.root)[Outer(BlkIdx)] = Invalid
        BY <2>11, <4>3 DEF LeafTable
      <4>5. SlotFree'
        BY <2>4, <3>1, <4>2, <4>4 DEF SlotFree
      <4>6. InDouble(BlkIdx') /\ op'.data \in DataBlocks
        BY <1>1, <2>4, <3>6
      <4>7. EmptyTable(op.table)'
        BY <2>8, <3>1 DEF EmptyTable
      <4>8. TablesOK'
        BY <2>5, <3>1, <3>4, <4>2, <4>5, <4>6, <4>7 DEF TablesOK
      <4> QED BY <3>2, <4>8
    <3> QED BY <2>11, <3>5, <3>6 DEF LiveInv, TablesOK
  <2>12. Held' = Held \union {b} /\ TablesOK'
    BY <1>4, <2>10, <2>11
  <2>13. Loose' = Loose \union {b}
    BY <1>1, <2>2, <2>12 DEF Loose
  <2>14. MapExact'
    BY <1>4, <2>1, <2>3, <2>13, ExactAlloc DEF LiveInv, MapExact
  <2> QED BY <2>2, <2>7, <2>12, <2>14, NodesKept DEF LiveInv
<1> QED BY <1>2, <1>3, <1>4 DEF AllocateTable

\* allocate_file_data_block: the root of the double-indirect tree.
LEMMA LiveFindRoot ==
  ASSUME TypeInv, InTables, LiveInv, FindRoot
  PROVE  LiveInv' /\ pc' # "closed"
<1>1. /\ pc = "root" /\ InTable /\ Loose = Held /\ IsFile(op.ino)
      /\ op.data \in DataBlocks /\ DataPtr(blk, node, BlkIdx) = Invalid
      /\ ~op.new_table /\ ~op.new_root /\ InDouble(BlkIdx)
      /\ op.done < Len(op.buf) /\ UNCHANGED inodes
  BY DEF FindRoot, InTable, Loose, LiveInv, HandlerOK, TablesOK, InTables
<1>2. CASE node.double = Invalid /\ AllocateTable
  BY <1>1, <1>2, LiveAllocateTable
<1>3. CASE /\ node.double # Invalid /\ op' = [op EXCEPT !.root = node.double]
           /\ Goto("table") /\ NoWrite /\ UNCHANGED alloc
  <2>1. /\ op'.root = node.double /\ op'.data = op.data /\ op'.ino = op.ino
        /\ op'.new_root = op.new_root /\ op'.new_table = op.new_table
        /\ op'.done = op.done /\ op'.buf = op.buf /\ BlkIdx' = BlkIdx
    BY <1>3, Locals
  <2>2. /\ UNCHANGED <<bitmap, freeBlocks, inodes, blk>> /\ pc' = "table"
        /\ pc # "children" /\ pc' # "children" /\ pc' # "closed"
    BY <1>1, <1>3 DEF NoWrite, alloc, Goto
  <2>3. Loose' = Loose
    BY <1>1, <2>1, <2>2 DEF Loose, InTable, Held
  <2>4. node' = node /\ IsFile(op.ino)'
    BY <1>1, <2>1 DEF node, IsFile
  <2>5. HandlerOK'
    BY <2>2, <2>4 DEF HandlerOK
  <2>6. DataPtr(blk', node', BlkIdx') = Invalid
    BY <1>1, <2>1, <2>2, <2>4
  <2>7. RootFound'
    BY <1>1, <1>3, <2>1, <2>4 DEF RootFound
  <2>8. InDouble(BlkIdx') /\ op'.data \in DataBlocks /\ ~op'.new_table
    BY <1>1, <2>1
  <2>9. TablesOK'
    BY <2>2, <2>6, <2>7, <2>8 DEF TablesOK
  <2> QED BY <2>2, <2>3, <2>5, <2>9, QuietMap, NodesKept DEF LiveInv
<1> QED BY <1>2, <1>3 DEF FindRoot

\* allocate_file_data_block: the table the pointer goes into.
LEMMA LiveFindTable ==
  ASSUME TypeInv, InTables, LiveInv, FindTable
  PROVE  LiveInv' /\ pc' # "closed"
<1>1. /\ pc = "table" /\ InTable /\ Loose = Held /\ IsFile(op.ino)
      /\ op.data \in DataBlocks /\ DataPtr(blk, node, BlkIdx) = Invalid
      /\ ~op.new_table /\ op.done < Len(op.buf) /\ UNCHANGED inodes
      /\ \/ InIndirect(BlkIdx) /\ ~op.new_root
         \/ InDouble(BlkIdx) /\ RootFound
  BY DEF FindTable, InTable, Loose, LiveInv, HandlerOK, TablesOK, InTables
<1>2. CASE LeafTable = Invalid /\ AllocateTable
  BY <1>1, <1>2, LiveAllocateTable
<1>3. CASE /\ LeafTable # Invalid /\ op' = [op EXCEPT !.table = LeafTable]
           /\ Goto("leaf") /\ NoWrite /\ UNCHANGED alloc
  <2>1. /\ op'.table = LeafTable /\ op'.data = op.data /\ op'.ino = op.ino
        /\ op'.new_root = op.new_root /\ op'.new_table = op.new_table
        /\ op'.root = op.root
        /\ op'.done = op.done /\ op'.buf = op.buf /\ BlkIdx' = BlkIdx
    BY <1>3, Locals
  <2>2. /\ UNCHANGED <<bitmap, freeBlocks, inodes, blk>> /\ pc' = "leaf"
        /\ pc # "children" /\ pc' # "children" /\ pc' # "closed"
    BY <1>1, <1>3 DEF NoWrite, alloc, Goto
  <2>3. Loose' = Loose
    BY <1>1, <2>1, <2>2 DEF Loose, InTable, Held
  <2>4. node' = node /\ IsFile(op.ino)'
    BY <1>1, <2>1 DEF node, IsFile
  <2>5. HandlerOK'
    BY <2>2, <2>4 DEF HandlerOK
  <2>6. DataPtr(blk', node', BlkIdx') = Invalid
    BY <1>1, <2>1, <2>2, <2>4
  <2>7. op'.data \in DataBlocks /\ ~op'.new_table
    BY <1>1, <2>1
  <2>8. CASE InIndirect(BlkIdx) /\ ~op.new_root
    <3>1. /\ InIndirect(BlkIdx') /\ ~op'.new_root /\ node'.indirect # Invalid
          /\ op'.table = node'.indirect
      BY <1>3, <2>1, <2>4, <2>8 DEF LeafTable
    <3>2. TablesOK'
      BY <2>2, <2>6, <2>7, <3>1 DEF TablesOK
    <3> QED BY <2>2, <2>3, <2>5, <3>2, QuietMap, NodesKept DEF LiveInv
  <2>9. CASE InDouble(BlkIdx) /\ RootFound
    <3>1. ~InIndirect(BlkIdx) /\ Outer(BlkIdx) \in PtrIdx
      BY <1>1, <2>9, BlkPlace
    <3>2. LeafTable = AsPointers(blk, op.root)[Outer(BlkIdx)]
      BY <3>1 DEF LeafTable
    <3>3. ~op.new_root
      BY <1>3, <2>9, <3>1, <3>2, EmptyEntries DEF RootFound, EmptyTable, NoPtrs
    <3>4. node.double # Invalid /\ op.root = node.double
      BY <2>9, <3>3 DEF RootFound
    <3>5. LeafTable = Child(blk, node, Outer(BlkIdx))
      BY <3>2, <3>4 DEF Child, PtrAt
    <3>6. RootFound'
      BY <2>1, <2>4, <3>3, <3>4 DEF RootFound
    <3>7. /\ InDouble(BlkIdx') /\ ~op'.new_root /\ op'.table # Invalid
          /\ op'.table = Child(blk', node', Outer(BlkIdx'))
      BY <1>3, <2>1, <2>2, <2>4, <2>9, <3>3, <3>5
    <3>8. TablesOK'
      BY <2>2, <2>6, <2>7, <3>6, <3>7 DEF TablesOK
    <3> QED BY <2>2, <2>3, <2>5, <3>8, QuietMap, NodesKept DEF LiveInv
  <2> QED BY <1>1, <2>8, <2>9
<1> QED BY <1>2, <1>3 DEF FindTable

\* The sites that come to name the blocks held: that of the data block, and
\* those of the tables that are new.
NewSites ==
  {BlkSite}
    \union (IF ~op.new_table THEN {}
            ELSE IF InIndirect(BlkIdx) THEN {SingleSite(op.ino)}
            ELSE {ChildSite(op.ino, Outer(BlkIdx))})
    \union (IF op.new_root THEN {DoubleSite(op.ino)} ELSE {})

\* A step enters the blocks held in the map, each at one of the sites Y.
NamesHeld(Y) ==
  /\ Y \subseteq Site /\ BlkSite \in Y
  /\ \A s \in Y : BlockMap[s] = Invalid
  /\ \A s, t \in Y : BlockMap'[s] = BlockMap'[t] => s = t
  /\ {BlockMap'[s] : s \in Y} = Held
  /\ BlockMap'[BlkSite] = op.data
  /\ AgreeBut(BlockMap, BlockMap', Y)

\* The step that enters the new blocks in the map.
LEMMA LiveNamed ==
  ASSUME TypeInv, InTables, LiveInv, InTable, pc' = "put", UNCHANGED <<alloc, op>>,
         NodesOK', inodes'[op.ino].type = "FILE", NEW Y, NamesHeld(Y)
  PROVE  LiveInv' /\ pc' # "closed"
<1>0. /\ Y \subseteq Site /\ BlkSite \in Y
      /\ \A s \in Y : BlockMap[s] = Invalid
      /\ \A s, t \in Y : BlockMap'[s] = BlockMap'[t] => s = t
      /\ {BlockMap'[s] : s \in Y} = Held
      /\ BlockMap'[BlkSite] = op.data
      /\ AgreeBut(BlockMap, BlockMap', Y)
  BY DEF NamesHeld
<1>1. Loose = Held /\ op.done < Len(op.buf) /\ op.data \in DataBlocks
  BY DEF Loose, InTables, InTable, LiveInv, TablesOK
<1>2. DOMAIN BlockMap = Site /\ DOMAIN BlockMap' = Site
  BY DEF BlockMap, Map
<1>3. Invalid \notin Held /\ Held \intersect Named = {} /\ Once(BlockMap)
  BY <1>1, DataArea DEF LiveInv, MapExact
<1> DEFINE f == BlockMap
           g == BlockMap'
<1>4. Once(g) /\ Img(g) = Img(f) \union {g[s] : s \in Y}
  <2>1. \A s \in Y : f[s] = Invalid /\ g[s] # Invalid /\ g[s] \notin Img(f)
    BY <1>0, <1>3 DEF Named
  <2>2. \A s \in DOMAIN f : s \notin Y => g[s] = f[s]
    BY <1>0, <1>2 DEF AgreeBut
  <2>3. Y \subseteq DOMAIN f /\ DOMAIN g = DOMAIN f /\ Once(f)
    BY <1>0, <1>2, <1>3
  <2>4. \A s, t \in Y : g[s] = g[t] => s = t
    BY <1>0
  <2> HIDE DEF f, g
  <2> QED BY <2>1, <2>2, <2>3, <2>4, MapGrow
<1>5. Named' = Named \union Held /\ Once(BlockMap')
  BY <1>0, <1>4 DEF Named
<1>6. Loose' = {} /\ UNCHANGED <<bitmap, freeBlocks>>
  BY DEF Loose, InTable, alloc
<1>7. MapExact'
  BY <1>1, <1>5, <1>6, ExactSame DEF LiveInv
<1>8. BlkIdx' = BlkIdx /\ Held' = Held
  BY SameBlock DEF Held
<1>9. op.data = DataPtr(blk', node', BlkIdx')
  BY <1>0, <1>1, <1>8, BlkNamed
<1>10. HandlerOK'
  BY <1>0, <1>1, <1>5, <1>8, <1>9 DEF HandlerOK, IsFile
<1>11. TablesOK'
  BY DEF TablesOK, InTable
<1> QED BY <1>7, <1>10, <1>11 DEF LiveInv

\* The new value of a file while it gets its block.
LEMMA FileGets ==
  ASSUME TypeInv, LiveInv, IsFile(op.ino), NEW nd, Become(nd),
         nd.type = node.type
  PROVE  /\ NodesOK' /\ inodes'[op.ino] = nd /\ inodes'[op.ino].type = "FILE"
         /\ OthersSame(inodes, inodes', op.ino) /\ op.ino \in Ino
<1>1. /\ NodesOK' /\ inodes'[op.ino] = nd /\ inodes'[op.ino].type = "FILE"
      /\ \A j \in Ino : j # op.ino => inodes'[j] = inodes[j]
  BY NodesFile DEF LiveInv
<1> QED BY <1>1, TypeBecome DEF OthersSame, SamePointers

\* Inodes that keep their pointers keep the map.
LEMMA SameNodes ==
  ASSUME NEW I, NEW J, NEW B, NEW i \in Ino, OthersSame(I, J, i),
         SamePointers(I[i], J[i])
  PROVE  Map(J, B) = Map(I, B)
<1>1. \A j \in Ino : SamePointers(I[j], J[j])
  BY DEF OthersSame
<1>2. \A j \in Ino : Agree(Map(I, B), Map(J, B), j)
  BY <1>1, NoneWritten, InodeSame
<1>3. \A s \in Site : Map(J, B)[s] = Map(I, B)[s]
  <2>1. \A s \in Site : s[1] \in Ino
    BY DEF Site
  <2> QED BY <1>2, <2>1 DEF Agree
<1> QED BY <1>3 DEF Map

\* One entry of a table written.
LEMMA EntryWritten ==
  ASSUME TypeInv, NEW t \in DataBlocks, NEW k \in PtrIdx, NEW b,
         write_block(t, PtrBlock([AsPointers(blk, t) EXCEPT ![k] = b]))
  PROVE  /\ OnlyAt(blk, blk', t)
         /\ \A p \in PtrIdx : PtrAt(blk', t, p) =
              IF p = k THEN b ELSE AsPointers(blk, t)[p]
         /\ \A p \in PtrIdx : AsPointers(blk', t)[p] =
              IF p = k THEN b ELSE AsPointers(blk, t)[p]
<1>1. AsPointers(blk, t) \in [PtrIdx -> Pointer]
  BY TypeParts, DecodeTypes DEF DataOK
<1>2. /\ OnlyAt(blk, blk', t)
      /\ AsPointers(blk', t) = [AsPointers(blk, t) EXCEPT ![k] = b]
  BY WriteOnly
<1>3. t # Invalid
  BY DataArea
<1> QED BY <1>1, <1>2, <1>3 DEF PtrAt

\* set_file_data_block for the indirect table: the table is written, then the
\* inode points to it.
LEMMA EnterSingle ==
  ASSUME TypeInv, InTables, LiveInv, WriteLeaf, pc' = "put", InIndirect(BlkIdx),
         write_block(op.table,
           PtrBlock([AsPointers(blk, op.table) EXCEPT ![LeafIdx] = op.data])),
         UNCHANGED <<alloc, op>>,
         Become([node EXCEPT !.block_count = @ + 1,
                   !.indirect = IF InIndirect(BlkIdx) THEN op.table ELSE @])
  PROVE  NamesHeld(NewSites) /\ NodesOK' /\ inodes'[op.ino].type = "FILE"
<1> DEFINE i == op.ino
           nd == [node EXCEPT !.block_count = @ + 1,
                    !.indirect = IF InIndirect(BlkIdx) THEN op.table ELSE @]
           f == Map(inodes, blk)
           g == Map(inodes, blk')
           h == Map(inodes', blk')
<1>1. /\ pc = "leaf" /\ InTable /\ Loose = Held /\ IsFile(op.ino)
      /\ op.data \in DataBlocks /\ DataPtr(blk, node, BlkIdx) = Invalid
      /\ op.done < Len(op.buf)
  BY DEF WriteLeaf, InTable, Loose, LiveInv, HandlerOK, TablesOK, InTables
<1>2. /\ i \in Ino /\ BlkSite \in Site /\ LeafIdx \in PtrIdx
      /\ BlkSite = IndirectSite(i, LeafIdx) /\ ~InDouble(BlkIdx)
  BY <1>1, BlkPlace
<1>3. /\ ~op.new_root
      /\ IF op.new_table
         THEN node.indirect = Invalid /\ EmptyTable(op.table) /\ NewTableApart
         ELSE node.indirect # Invalid /\ op.table = node.indirect
  BY <1>1, <1>2 DEF LiveInv, TablesOK
<1>4. node \in Inode
  BY TypeBecome
<1>5. /\ nd.type = node.type /\ nd.indirect = op.table
      /\ nd.double = node.double /\ nd.direct = node.direct
  BY <1>4 DEF Inode
<1> HIDE DEF nd
<1>6. /\ NodesOK' /\ inodes'[i] = nd /\ inodes'[i].type = "FILE"
      /\ OthersSame(inodes, inodes', i)
  BY <1>1, <1>5, FileGets DEF nd
<1>7. f = BlockMap /\ h = BlockMap' /\ BlockMap[BlkSite] = Invalid
  BY <1>1, TreeIs, BlkNamed
<1>8. /\ f[SingleSite(i)] = node.indirect /\ SingleSite(i) \in Site
      /\ \A p \in PtrIdx : f[IndirectSite(i, p)] = PtrAt(blk, node.indirect, p)
      /\ h[SingleSite(i)] = op.table
      /\ \A p \in PtrIdx : h[IndirectSite(i, p)] = PtrAt(blk', op.table, p)
  BY <1>2, <1>5, <1>6, MapKinds, KindsAreSites DEF node
<1>9. Once(f)
  BY <1>7 DEF LiveInv, MapExact
<1>10. CASE op.new_table
  <2>1. op.table \in DataBlocks /\ op.table \in Held /\ op.table # op.data
    BY <1>3, <1>10 DEF EmptyTable, Held, NewTableApart
  <2>2. AsPointers(blk, op.table) = NoPtrs
    BY <1>3, <1>10, EmptyEntries DEF EmptyTable
  <2>3. /\ OnlyAt(blk, blk', op.table)
        /\ \A p \in PtrIdx : PtrAt(blk', op.table, p) =
              IF p = LeafIdx THEN op.data ELSE Invalid
    BY <1>2, <2>1, <2>2, EntryWritten DEF NoPtrs
  <2>4. op.table \notin Img(f)
    BY <1>1, <1>7, <2>1 DEF LiveInv, MapExact, Named
  <2>5. g = f
    <3>1. \A j \in Ino : SamePointers(inodes[j], inodes[j])
      BY DEF SamePointers
    <3> HIDE DEF f
    <3> QED BY <2>3, <2>4, <3>1, MapSame DEF f, AllSame, Harmless
  <2>6. AgreeBut(g, h, IndirectSites(i) \union {SingleSite(i)})
    BY <1>2, <1>5, <1>6, PutSingle DEF node
  <2> DEFINE Y == {BlkSite, SingleSite(i)}
  <2>7. \A p \in PtrIdx : PtrAt(blk, node.indirect, p) = Invalid
    BY <1>3, <1>10 DEF PtrAt
  <2> HIDE DEF f, g, h
  <2>8. AgreeBut(f, h, Y)
    BY <1>2, <1>8, <2>3, <2>5, <2>6, <2>7 DEF AgreeBut, IndirectSites
  <2>9. h[BlkSite] = op.data /\ h[SingleSite(i)] = op.table
    BY <1>2, <1>8, <2>3
  <2>10. Held = {op.data, op.table}
    BY <1>3, <1>10 DEF Held
  <2>11. f[BlkSite] = Invalid /\ f[SingleSite(i)] = Invalid
    BY <1>3, <1>7, <1>8, <1>10
  <2>12. BlkSite # SingleSite(i)
    BY <1>2, TableKindsApart
  <2>13. /\ Y \subseteq Site /\ BlkSite \in Y
         /\ \A s \in Y : f[s] = Invalid
         /\ \A s, t \in Y : h[s] = h[t] => s = t
         /\ {h[s] : s \in Y} = Held
    BY <1>2, <1>8, <2>1, <2>9, <2>10, <2>11, <2>12
  <2>14. NewSites = Y
    BY <1>3, <1>10 DEF NewSites
  <2> HIDE DEF Y
  <2> QED BY <1>6, <1>7, <2>8, <2>9, <2>13, <2>14 DEF NamesHeld
<1>11. CASE ~op.new_table
  <2>1. node.indirect = op.table /\ op.table # Invalid /\ op.table \in DataBlocks
    BY <1>3, <1>7, <1>8, <1>11, NamedReadable DEF LiveInv
  <2>2. /\ OnlyAt(blk, blk', op.table)
        /\ \A p \in PtrIdx : PtrAt(blk', op.table, p) =
              IF p = LeafIdx THEN op.data ELSE AsPointers(blk, op.table)[p]
    BY <1>2, <2>1, EntryWritten
  <2>3. AgreeBut(f, g, IndirectSites(i))
    BY <1>2, <1>9, <2>1, <2>2, WriteSingle DEF node
  <2>4. h = g
    BY <1>2, <1>5, <1>6, <2>1, SameNodes DEF SamePointers, node
  <2>5. \A p \in PtrIdx : PtrAt(blk, node.indirect, p) = AsPointers(blk, op.table)[p]
    BY <2>1 DEF PtrAt
  <2> DEFINE Y == {BlkSite}
  <2> HIDE DEF f, g, h
  <2>6. AgreeBut(f, h, Y)
    BY <1>2, <1>8, <2>2, <2>3, <2>4, <2>5 DEF AgreeBut, IndirectSites
  <2>7. h[BlkSite] = op.data
    BY <1>2, <1>8, <2>2
  <2>8. Held = {op.data}
    BY <1>3, <1>11 DEF Held
  <2>9. /\ Y \subseteq Site /\ BlkSite \in Y
        /\ \A s \in Y : f[s] = Invalid
        /\ \A s, t \in Y : h[s] = h[t] => s = t
        /\ {h[s] : s \in Y} = Held
    BY <1>2, <1>7, <2>7, <2>8
  <2>10. NewSites = Y
    BY <1>3, <1>11 DEF NewSites
  <2> HIDE DEF Y
  <2> QED BY <1>6, <1>7, <2>6, <2>7, <2>9, <2>10 DEF NamesHeld
<1>12. op.new_table \in BOOLEAN
  BY TypeParts DEF ControlOK, OpType
<1> QED BY <1>10, <1>11, <1>12

\* set_file_data_block for a child that is already linked.
LEMMA EnterChild ==
  ASSUME TypeInv, InTables, LiveInv, WriteLeaf, pc' = "put", ~InIndirect(BlkIdx),
         ~op.new_table,
         write_block(op.table,
           PtrBlock([AsPointers(blk, op.table) EXCEPT ![LeafIdx] = op.data])),
         UNCHANGED <<alloc, op>>,
         Become([node EXCEPT !.block_count = @ + 1,
                   !.indirect = IF InIndirect(BlkIdx) THEN op.table ELSE @])
  PROVE  NamesHeld(NewSites) /\ NodesOK' /\ inodes'[op.ino].type = "FILE"
<1> DEFINE i == op.ino
           o == Outer(BlkIdx)
           nd == [node EXCEPT !.block_count = @ + 1,
                    !.indirect = IF InIndirect(BlkIdx) THEN op.table ELSE @]
           f == Map(inodes, blk)
           g == Map(inodes, blk')
           h == Map(inodes', blk')
<1>1. /\ pc = "leaf" /\ InTable /\ Loose = Held /\ IsFile(op.ino)
      /\ op.data \in DataBlocks /\ DataPtr(blk, node, BlkIdx) = Invalid
      /\ op.done < Len(op.buf)
  BY DEF WriteLeaf, InTable, Loose, LiveInv, HandlerOK, TablesOK, InTables
<1>2. /\ i \in Ino /\ BlkSite \in Site /\ LeafIdx \in PtrIdx /\ o \in PtrIdx
      /\ BlkSite = LeafSite(i, o, LeafIdx) /\ InDouble(BlkIdx)
  <2>1. InDouble(BlkIdx)
    BY <1>1 DEF LiveInv, TablesOK
  <2> QED BY <1>1, <2>1, BlkPlace
<1>3. ~op.new_root /\ op.table # Invalid /\ op.table = Child(blk, node, o)
  BY <1>1, <1>2 DEF LiveInv, TablesOK
<1>4. node \in Inode
  BY TypeBecome
<1>5. /\ nd.type = node.type /\ SamePointers(node, nd)
  BY <1>4 DEF Inode, SamePointers
<1> HIDE DEF nd
<1>6. /\ NodesOK' /\ inodes'[i] = nd /\ inodes'[i].type = "FILE"
      /\ OthersSame(inodes, inodes', i)
  BY <1>1, <1>5, FileGets DEF nd
<1>7. f = BlockMap /\ h = BlockMap' /\ BlockMap[BlkSite] = Invalid
  BY <1>1, TreeIs, BlkNamed
<1>8. f[ChildSite(i, o)] = op.table /\ ChildSite(i, o) \in Site
  BY <1>2, <1>3, MapKinds, KindsAreSites DEF node
<1>9. Once(f)
  BY <1>7 DEF LiveInv, MapExact
<1>10. op.table \in DataBlocks
  BY <1>3, <1>7, <1>8, NamedReadable DEF LiveInv
<1>11. /\ OnlyAt(blk, blk', op.table)
       /\ \A p \in PtrIdx : PtrAt(blk', op.table, p) =
             IF p = LeafIdx THEN op.data ELSE AsPointers(blk, op.table)[p]
  <2>1. LeafIdx \in PtrIdx
    BY <1>2
  <2> QED BY <1>10, <2>1, EntryWritten
<1>12. AgreeBut(f, g, LeafSites(i, o))
  BY <1>2, <1>3, <1>9, <1>11, WriteChild DEF node
<1>13. h = g
  BY <1>2, <1>5, <1>6, SameNodes DEF node
<1>14. /\ \A p \in PtrIdx : f[LeafSite(i, o, p)] = AsPointers(blk, op.table)[p]
       /\ \A p \in PtrIdx : g[LeafSite(i, o, p)] = PtrAt(blk', op.table, p)
  <2>1. /\ \A p \in PtrIdx : f[LeafSite(i, o, p)] =
                               PtrAt(blk, Child(blk, inodes[i], o), p)
        /\ \A p \in PtrIdx : g[LeafSite(i, o, p)] =
                               PtrAt(blk', Child(blk', inodes[i], o), p)
    BY <1>2, MapKinds
  <2>2. ChildSite(i, o) \notin LeafSites(i, o)
    BY TableKindsApart DEF LeafSites
  <2>3. g[ChildSite(i, o)] = op.table
    BY <1>8, <1>12, <2>2 DEF AgreeBut
  <2>4. Child(blk', inodes[i], o) = op.table
    BY <1>2, <2>3, MapKinds
  <2>5. Child(blk, inodes[i], o) = op.table
    BY <1>3 DEF node
  <2> QED BY <1>3, <2>1, <2>4, <2>5 DEF PtrAt
<1> DEFINE Y == {BlkSite}
<1> HIDE DEF f, g, h
<1>15. AgreeBut(f, h, Y)
  BY <1>2, <1>11, <1>12, <1>13, <1>14 DEF AgreeBut, LeafSites
<1>16. h[BlkSite] = op.data
  BY <1>2, <1>11, <1>13, <1>14
<1>17. Held = {op.data}
  BY <1>3 DEF Held
<1>18. /\ Y \subseteq Site /\ BlkSite \in Y
       /\ \A s \in Y : f[s] = Invalid
       /\ \A s, t \in Y : h[s] = h[t] => s = t
       /\ {h[s] : s \in Y} = Held
  BY <1>2, <1>7, <1>16, <1>17
<1>19. NewSites = Y
  BY <1>3 DEF NewSites
<1> HIDE DEF Y
<1> QED BY <1>6, <1>7, <1>15, <1>16, <1>18, <1>19 DEF NamesHeld

\* set_file_data_block, up to the link of a new child.
LEMMA LiveWriteLeaf ==
  ASSUME TypeInv, InTables, LiveInv, WriteLeaf
  PROVE  LiveInv' /\ pc' # "closed"
<1>1. /\ pc = "leaf" /\ InTable /\ Loose = Held /\ IsFile(op.ino)
      /\ op.data \in DataBlocks /\ DataPtr(blk, node, BlkIdx) = Invalid
      /\ op.done < Len(op.buf)
  BY DEF WriteLeaf, InTable, Loose, LiveInv, HandlerOK, TablesOK, InTables
<1>2. CASE WriteFails(op.call) /\ GiveBack
  BY <1>1, <1>2, LiveRelease DEF GiveBack, Release, WriteFails
<1>3. CASE /\ write_block(op.table,
                PtrBlock([AsPointers(blk, op.table) EXCEPT ![LeafIdx] = op.data]))
           /\ UNCHANGED <<alloc, op>> /\ InDouble(BlkIdx) /\ op.new_table
           /\ pc' = "link" /\ UNCHANGED inodes
  <2>1. ~InIndirect(BlkIdx) /\ LeafIdx = Inner(BlkIdx) /\ LeafIdx \in PtrIdx
    BY <1>1, <1>3, BlkPlace
  <2>2. RootFound /\ SlotFree /\ EmptyTable(op.table) /\ NewTableApart
    BY <1>1, <1>3, <2>1 DEF LiveInv, TablesOK
  <2>3. op.table \in DataBlocks /\ op.table \in Held /\ op.table \notin Named
    BY <1>1, <1>3, <2>2 DEF EmptyTable, Held, LiveInv, MapExact
  <2>4. pc # "children" /\ pc' # "children" /\ pc' # "closed"
    BY <1>1, <1>3
  <2>5. BlockMap' = BlockMap /\ Named' = Named
    BY <1>3, <2>3, <2>4, PlainWrite DEF LiveInv
  <2>6. Held' = Held /\ Loose' = Loose /\ BlkIdx' = BlkIdx
    BY <1>1, <1>3, SameBlock DEF Held, Loose, InTable
  <2>7. MapExact'
    BY <1>3, <2>5, <2>6, ExactSame DEF LiveInv, MapExact, alloc
  <2>8. HandlerOK'
    BY <1>1, <1>3 DEF HandlerOK, IsFile
  <2>9. op.table # op.root
    BY <1>1, <2>2, <2>3, RootKnown DEF NewTableApart
  <2>10. RootFound' /\ AsPointers(blk', op.root) = AsPointers(blk, op.root)
    BY <1>3, <2>2, <2>9, RootStays
  <2>11. SlotFree' /\ NewTableApart'
    BY <1>3, <2>2, <2>6, <2>10 DEF SlotFree, NewTableApart
  <2>12. DataPtr(blk', node', BlkIdx') = Invalid
    BY <1>1, <1>3, <2>4, <2>5, <2>6, BlkNamed
  <2>13. blk'[op.table] = PtrBlock([NoPtrs EXCEPT ![Inner(BlkIdx)] = op.data])
    <3>1. AsPointers(blk, op.table) = NoPtrs
      BY <2>2, EmptyEntries DEF EmptyTable
    <3> QED BY <1>3, <2>1, <2>3, <3>1, WriteOnly
  <2>14. /\ InDouble(BlkIdx') /\ op'.new_table /\ op'.table \in DataBlocks
         /\ op'.data \in DataBlocks
         /\ blk'[op'.table] =
              PtrBlock([NoPtrs EXCEPT ![Inner(BlkIdx')] = op'.data])
    BY <1>1, <1>3, <2>3, <2>6, <2>13
  <2>15. TablesOK'
    BY <1>3, <2>10, <2>11, <2>12, <2>14 DEF TablesOK
  <2> QED BY <1>3, <2>4, <2>7, <2>8, <2>15, NodesKept DEF LiveInv
<1>4. CASE /\ write_block(op.table,
                PtrBlock([AsPointers(blk, op.table) EXCEPT ![LeafIdx] = op.data]))
           /\ UNCHANGED <<alloc, op>> /\ ~(InDouble(BlkIdx) /\ op.new_table)
           /\ pc' = "put"
           /\ Become([node EXCEPT !.block_count = @ + 1,
                        !.indirect = IF InIndirect(BlkIdx) THEN op.table ELSE @])
  <2>1. CASE InIndirect(BlkIdx)
    BY <1>1, <1>4, <2>1, EnterSingle, LiveNamed DEF NamesHeld
  <2>2. CASE ~InIndirect(BlkIdx)
    <3>1. InDouble(BlkIdx)
      BY <1>1, <2>2 DEF LiveInv, TablesOK
    <3> QED BY <1>1, <1>4, <2>2, <3>1, EnterChild, LiveNamed DEF NamesHeld
  <2> QED BY <2>1, <2>2
<1> QED BY <1>2, <1>3, <1>4 DEF WriteLeaf, Goto

\* The link of a new child into the double-indirect root, new or not.
LEMMA EnterLink ==
  ASSUME TypeInv, InTables, LiveInv, LinkChild, pc' = "put",
         write_block(op.root, PtrBlock(
           [AsPointers(blk, op.root) EXCEPT ![Outer(BlkIdx)] = op.table])),
         Become([node EXCEPT !.block_count = @ + 1, !.double = op.root]),
         UNCHANGED <<alloc, op>>
  PROVE  NamesHeld(NewSites) /\ NodesOK' /\ inodes'[op.ino].type = "FILE"
<1> DEFINE i == op.ino
           o == Outer(BlkIdx)
           q == Inner(BlkIdx)
           nd == [node EXCEPT !.block_count = @ + 1, !.double = op.root]
           f == Map(inodes, blk)
           g == Map(inodes, blk')
           h == Map(inodes', blk')
<1>1. /\ pc = "link" /\ InTable /\ Loose = Held /\ IsFile(op.ino)
      /\ op.data \in DataBlocks /\ DataPtr(blk, node, BlkIdx) = Invalid
      /\ op.done < Len(op.buf) /\ InDouble(BlkIdx) /\ RootFound /\ SlotFree
      /\ op.new_table /\ op.table \in DataBlocks /\ NewTableApart
      /\ blk[op.table] = PtrBlock([NoPtrs EXCEPT ![q] = op.data])
  BY DEF LinkChild, InTable, Loose, LiveInv, HandlerOK, TablesOK, InTables
<1>3. /\ write_block(op.root,
           PtrBlock([AsPointers(blk, op.root) EXCEPT ![o] = op.table]))
      /\ Become(nd) /\ pc' = "put" /\ UNCHANGED <<alloc, op>>
  OBVIOUS
<1>4. /\ i \in Ino /\ BlkSite \in Site /\ q \in PtrIdx /\ o \in PtrIdx
      /\ BlkSite = LeafSite(i, o, q) /\ ~InIndirect(BlkIdx)
  BY <1>1, BlkPlace
<1>5. node \in Inode
  BY TypeBecome
<1>6. /\ nd.type = node.type /\ nd.indirect = node.indirect
      /\ nd.double = op.root /\ nd.direct = node.direct
  BY <1>5 DEF Inode
<1>7. Become(nd)
  BY <1>3
<1> HIDE DEF nd
<1>8. /\ NodesOK' /\ inodes'[i] = nd /\ inodes'[i].type = "FILE"
      /\ OthersSame(inodes, inodes', i)
  BY <1>1, <1>6, <1>7, FileGets
<1>9. f = BlockMap /\ h = BlockMap' /\ BlockMap[BlkSite] = Invalid
  BY <1>1, <1>3, TreeIs, BlkNamed
<1>10. op.root \in DataBlocks /\ op.root # Invalid /\ op.table # op.root
       /\ op.table # Invalid /\ op.table \in Held /\ op.table \notin Named
  <2>1. op.table \in Held
    BY <1>1 DEF Held
  <2> QED BY <1>1, <2>1, DataArea, RootKnown DEF NewTableApart, LiveInv, MapExact
<1>11. /\ OnlyAt(blk, blk', op.root)
       /\ \A p \in PtrIdx : PtrAt(blk', op.root, p) =
             IF p = o THEN op.table ELSE AsPointers(blk, op.root)[p]
       /\ \A p \in PtrIdx : AsPointers(blk', op.root)[p] =
             IF p = o THEN op.table ELSE AsPointers(blk, op.root)[p]
  <2>1. o \in PtrIdx /\ op.root \in DataBlocks
    BY <1>4, <1>10
  <2>2. write_block(op.root,
          PtrBlock([AsPointers(blk, op.root) EXCEPT ![o] = op.table]))
    BY <1>3
  <2> HIDE DEF o
  <2> QED BY ONLY TypeInv, <2>1, <2>2, EntryWritten
<1>12. \A p \in PtrIdx : PtrAt(blk', op.table, p) =
                           IF p = q THEN op.data ELSE Invalid
  <2>1. AsPointers(blk', op.table) = AsPointers(blk, op.table)
    BY <1>10, <1>11 DEF OnlyAt
  <2>2. AsPointers(blk, op.table) = [NoPtrs EXCEPT ![q] = op.data]
    BY <1>1 DEF AsPointers, PtrBlock
  <2> QED BY <1>4, <1>10, <2>1, <2>2 DEF PtrAt, NoPtrs
<1>13. /\ h[DoubleSite(i)] = op.root /\ DoubleSite(i) \in Site
       /\ f[DoubleSite(i)] = node.double
       /\ \A n \in PtrIdx :
            /\ ChildSite(i, n) \in Site
            /\ h[ChildSite(i, n)] = PtrAt(blk', op.root, n)
            /\ f[ChildSite(i, n)] = PtrAt(blk, node.double, n)
       /\ \A n, p \in PtrIdx :
            /\ h[LeafSite(i, n, p)] = PtrAt(blk', PtrAt(blk', op.root, n), p)
            /\ f[LeafSite(i, n, p)] = PtrAt(blk, PtrAt(blk, node.double, n), p)
  BY <1>4, <1>6, <1>8, MapKinds, KindsAreSites DEF node, Child
<1>14. Once(f)
  BY <1>9 DEF LiveInv, MapExact
<1>15. h[BlkSite] = op.data /\ h[ChildSite(i, o)] = op.table
  BY <1>4, <1>11, <1>12, <1>13
<1>16. /\ BlkSite # DoubleSite(i) /\ BlkSite # ChildSite(i, o)
       /\ ChildSite(i, o) # DoubleSite(i)
  <2>1. BlkSite = LeafSite(i, o, q)
    BY <1>4
  <2>2. /\ LeafSite(i, o, q) # DoubleSite(i)
        /\ LeafSite(i, o, q) # ChildSite(i, o)
        /\ ChildSite(i, o) # DoubleSite(i)
    BY TableKindsApart
  <2> QED BY <2>1, <2>2
<1>17. op.new_root \in BOOLEAN
  BY TypeParts DEF ControlOK, OpType
<1>18. CASE op.new_root
  <2>1. /\ node.double = Invalid /\ EmptyTable(op.root) /\ op.root # op.data
        /\ op.root \in Held /\ op.root \notin Named
    <3>1. node.double = Invalid /\ EmptyTable(op.root) /\ op.root # op.data
      BY <1>1, <1>18 DEF RootFound
    <3>2. op.root \in Held
      BY <1>18 DEF Held
    <3> QED BY <1>1, <3>1, <3>2 DEF LiveInv, MapExact
  <2>2. AsPointers(blk, op.root) = NoPtrs
    BY <1>10, <2>1, EmptyEntries DEF EmptyTable
  <2>3. \A p \in PtrIdx : PtrAt(blk', op.root, p) =
                            IF p = o THEN op.table ELSE Invalid
    BY <1>11, <2>2 DEF NoPtrs
  <2>4. \A u, p : u = Invalid => PtrAt(blk', u, p) = Invalid /\ PtrAt(blk, u, p) = Invalid
    BY DEF PtrAt
  <2>5. g = f
    <3>1. \A j \in Ino : SamePointers(inodes[j], inodes[j])
      BY DEF SamePointers
    <3>2. op.root \notin Img(f)
      BY <1>9, <2>1 DEF Named
    <3> HIDE DEF f
    <3> QED BY <1>11, <3>1, <3>2, MapSame DEF f, AllSame, Harmless
  <2>6. AgreeBut(g, h, RootSites(i))
    BY <1>4, <1>6, <1>8, PutDouble DEF node
  <2> DEFINE Y == {BlkSite, ChildSite(i, o), DoubleSite(i)}
  <2>7. /\ \A n \in PtrIdx : f[ChildSite(i, n)] = Invalid
        /\ \A n, p \in PtrIdx : f[LeafSite(i, n, p)] = Invalid
        /\ f[DoubleSite(i)] = Invalid
    BY <1>13, <2>1, <2>4
  <2>8. /\ \A n \in PtrIdx : n # o => h[ChildSite(i, n)] = Invalid
        /\ \A n, p \in PtrIdx : n # o \/ p # q => h[LeafSite(i, n, p)] = Invalid
    BY <1>12, <1>13, <2>3, <2>4
  <2> HIDE DEF f, g, h
  <2>9. AgreeBut(f, h, Y)
    BY <1>4, <2>5, <2>6, <2>7, <2>8 DEF AgreeBut, RootSites, LeafSites
  <2>10. Held = {op.data, op.table, op.root}
    BY <1>1, <1>18 DEF Held
  <2>11. op.table # op.data
    BY <1>1 DEF NewTableApart
  <2>12. /\ Y \subseteq Site /\ BlkSite \in Y
         /\ \A s \in Y : f[s] = Invalid
         /\ \A s, t \in Y : h[s] = h[t] => s = t
         /\ {h[s] : s \in Y} = Held
    BY <1>4, <1>10, <1>13, <1>15, <2>1, <2>7, <2>10, <2>11
  <2>13. NewSites = Y
    BY <1>1, <1>4, <1>18 DEF NewSites
  <2> HIDE DEF Y
  <2> QED BY <1>8, <1>9, <1>15, <2>9, <2>12, <2>13 DEF NamesHeld
<1>19. CASE ~op.new_root
  <2>1. node.double = op.root
    BY <1>1, <1>19 DEF RootFound
  <2> DEFINE X == EntrySites(i, {o})
  <2>2. AgreeBut(f, g, X)
    <3>1. SameEntriesBut(blk, blk', inodes[i].double, {o})
      BY <1>11, <2>1 DEF node, SameEntriesBut
    <3>2. inodes[i].double # Invalid /\ OnlyAt(blk, blk', inodes[i].double)
      BY <1>10, <1>11, <2>1 DEF node
    <3> QED BY <1>4, <1>14, <3>1, <3>2, WriteRoot
  <2>3. h = g
    BY <1>4, <1>6, <1>8, <2>1, SameNodes DEF SamePointers, node
  <2>4. f[ChildSite(i, o)] = Invalid
    BY <1>1, <1>4, <1>10, <1>13, <2>1 DEF SlotFree, PtrAt
  <2>5. \A p \in PtrIdx : f[LeafSite(i, o, p)] = Invalid
    BY <1>4, <1>13, <2>4 DEF PtrAt
  <2>6. \A p \in PtrIdx : p # q => h[LeafSite(i, o, p)] = Invalid
    BY <1>4, <1>11, <1>12, <1>13
  <2> DEFINE Y == {BlkSite, ChildSite(i, o)}
  <2> HIDE DEF f, g, h
  <2>7. AgreeBut(f, h, Y)
    BY <1>4, <2>2, <2>3, <2>5, <2>6 DEF AgreeBut, LeafSites, EntrySites
  <2>8. Held = {op.data, op.table} /\ op.table # op.data
    BY <1>1, <1>19 DEF Held, NewTableApart
  <2>9. /\ Y \subseteq Site /\ BlkSite \in Y
        /\ \A s \in Y : f[s] = Invalid
        /\ \A s, t \in Y : h[s] = h[t] => s = t
        /\ {h[s] : s \in Y} = Held
    BY <1>4, <1>9, <1>13, <1>15, <2>4, <2>8
  <2>10. NewSites = Y
    BY <1>1, <1>4, <1>19 DEF NewSites
  <2> HIDE DEF Y
  <2> QED BY <1>8, <1>9, <1>15, <2>7, <2>9, <2>10 DEF NamesHeld
<1> QED BY <1>17, <1>18, <1>19

\* set_file_data_block as a whole: the link, or giving everything back.
LEMMA LiveLinkChild ==
  ASSUME TypeInv, InTables, LiveInv, LinkChild
  PROVE  LiveInv' /\ pc' # "closed"
<1>1. /\ pc = "link" /\ InTable
  BY DEF LinkChild, InTable
<1>2. CASE WriteFails(op.call) /\ GiveBack
  BY <1>1, <1>2, LiveRelease DEF GiveBack, Release, WriteFails
<1>3. CASE /\ write_block(op.root, PtrBlock(
                [AsPointers(blk, op.root) EXCEPT ![Outer(BlkIdx)] = op.table]))
           /\ Become([node EXCEPT !.block_count = @ + 1, !.double = op.root])
           /\ pc' = "put" /\ UNCHANGED <<alloc, op>>
  BY <1>1, <1>3, EnterLink, LiveNamed DEF NamesHeld
<1> QED BY <1>2, <1>3 DEF LinkChild, Goto

\* denyfs_vol_write: the chunk is written to its block.
LEMMA LivePut ==
  ASSUME TypeInv, LiveInv, PutChunk
  PROVE  LiveInv' /\ pc' # "closed"
<1>1. /\ pc = "put" /\ Loose = {} /\ IsFile(op.ino) /\ op.done < Len(op.buf)
      /\ op.data \in DataBlocks /\ op.data = DataPtr(blk, node, BlkIdx)
      /\ UNCHANGED <<bitmap, freeBlocks, inodes>>
  BY DEF PutChunk, Loose, InTable, LiveInv, HandlerOK, alloc
<1>2. CASE WriteFails(op.call) /\ Return("EPERM")
  <2>1. HandlerOK' /\ TablesOK' /\ Loose' = {} /\ pc' = "idle"
    BY <1>2, AtRest
  <2>2. UNCHANGED blk
    BY <1>2 DEF WriteFails
  <2> QED BY <1>1, <2>1, <2>2, QuietMap, NodesKept DEF LiveInv
<1>3. CASE /\ write_block(op.data, DataBlock(Patched))
           /\ op' = NextChunk /\ pc' = "map"
  <2>1. op.ino \in Ino /\ BlkIdx \in LogicalBlocks
    BY <1>1, BlkPlace
  <2>2. \E i \in Ino, lb \in LogicalBlocks : op.data = DataPtr(blk, inodes[i], lb)
    BY <1>1, <2>1 DEF node
  <2>3. BlockMap' = BlockMap /\ Named' = Named
    BY <1>1, <1>3, <2>2, PlainWrite DEF LiveInv
  <2>4. /\ op'.ino = op.ino /\ op'.data = Invalid /\ ~op'.new_root
        /\ ~op'.new_table
    BY <1>3 DEF NextChunk, NoOp
  <2>5. Loose' = {}
    BY <1>3 DEF Loose, InTable
  <2>6. MapExact'
    BY <1>1, <2>3, <2>5, ExactSame DEF LiveInv, MapExact
  <2>7. HandlerOK' /\ TablesOK'
    BY <1>1, <1>3, <2>4 DEF HandlerOK, TablesOK, InTable, IsFile
  <2> QED BY <1>1, <1>3, <2>6, <2>7, NodesKept DEF LiveInv
<1> QED BY <1>2, <1>3 DEF PutChunk, Goto

\* A call that has done its work sets the size of the file and flushes.
LEMMA LiveSize ==
  ASSUME TypeInv, LiveInv, pc \in {"map", "resize"}, NEW z, NEW c,
         Become([node EXCEPT !.size = z]),
         StartFlush([NoOp EXCEPT !.call = c, !.ino = op.ino]),
         NoWrite, UNCHANGED alloc
  PROVE  LiveInv' /\ pc' # "closed" /\ BlockMap' = BlockMap
<1> DEFINE nd == [node EXCEPT !.size = z]
<1>1. IsFile(op.ino) /\ Loose = {} /\ pc # "children"
  BY DEF LiveInv, HandlerOK, Loose, InTable
<1>2. HandlerOK' /\ TablesOK' /\ Loose' = {} /\ pc' = "flush"
  BY AtRest
<1>3. nd.type = node.type /\ SamePointers(node, nd)
  BY TypeBecome DEF Inode, SamePointers
<1>4. Become(nd)
  OBVIOUS
<1> HIDE DEF nd
<1>5. /\ NodesOK' /\ inodes'[op.ino] = nd /\ op.ino \in Ino
      /\ OthersSame(inodes, inodes', op.ino)
  BY <1>1, <1>3, <1>4, FileGets
<1>6. Map(inodes', blk) = Map(inodes, blk)
  BY <1>3, <1>5, SameNodes DEF node
<1>7. BlockMap' = BlockMap /\ Named' = Named
  BY <1>1, <1>2, <1>6, TreeIs DEF NoWrite
<1>8. MapExact'
  BY <1>1, <1>2, <1>7, ExactSame DEF LiveInv, MapExact, alloc
<1> QED BY <1>2, <1>5, <1>7, <1>8 DEF LiveInv

\* The end of a write, and of a truncate.
LEMMA LiveDone ==
  ASSUME TypeInv, LiveInv, WriteDone \/ Resize
  PROVE  LiveInv' /\ pc' # "closed" /\ BlockMap' = BlockMap
<1>1. CASE WriteDone
  <2> DEFINE z == IF op.off + Len(op.buf) > node.size
                  THEN op.off + Len(op.buf) ELSE node.size
  <2>1. /\ Become([node EXCEPT !.size = z]) /\ pc = "map"
        /\ StartFlush([NoOp EXCEPT !.call = "write", !.ino = op.ino])
        /\ NoWrite /\ UNCHANGED alloc
    BY <1>1 DEF WriteDone, EndWrite
  <2> HIDE DEF z
  <2> QED BY <2>1, LiveSize
<1>2. CASE Resize
  <2>1. /\ Become([node EXCEPT !.size = op.size]) /\ pc = "resize"
        /\ StartFlush([NoOp EXCEPT !.call = "truncate", !.ino = op.ino])
        /\ NoWrite /\ UNCHANGED alloc
    BY <1>2 DEF Resize
  <2> QED BY <2>1, LiveSize
<1> QED BY <1>1, <1>2

-----------------------------------------------------------------------------
(***************************************************************************)
(* denyfs_vol_create.                                                      *)
(***************************************************************************)

\* An inode that is free, taken by a new file or given back.
LEMMA FreeNode ==
  ASSUME TypeInv, NodesOK, NEW i \in FileIno, inodes[i].type = "FREE"
  PROVE  /\ i \in Ino /\ i # 0 /\ 0 \in Ino
         /\ \A I \in [Ino -> Inode] :
              /\ I[i] = EmptyInode("FILE") =>
                   SamePointers(inodes[i], I[i]) /\ I[i].type = "FILE"
              /\ I[i] = [EmptyInode("FILE") EXCEPT !.type = "FREE"] =>
                   SamePointers(inodes[i], I[i]) /\ NoBlocks(I[i])
<1>1. i \in Ino /\ i # 0 /\ 0 \in Ino
  BY Ranges DEF FileIno
<1>2. inodes[i] \in Inode /\ NoBlocks(inodes[i])
  BY <1>1, TypeParts DEF InodesOK, NodesOK
<1>3. /\ inodes[i].direct = [k \in DirectIdx |-> Invalid]
      /\ inodes[i].indirect = Invalid /\ inodes[i].double = Invalid
  BY <1>2 DEF Inode, NoBlocks
<1> QED BY <1>1, <1>3 DEF EmptyInode, SamePointers, NoBlocks

\* A new block of the root directory.
LEMMA DirectGrows ==
  ASSUME TypeInv, MapExact, pc # "children", pc' # "children",
         NEW i \in Ino, NEW k \in DirectIdx, NEW b \in DataBlocks,
         alloc_block(b), OnlyAt(blk, blk', b), OthersSame(inodes, inodes', i),
         inodes[i].direct[k] = Invalid,
         inodes'[i].direct = [inodes[i].direct EXCEPT ![k] = b],
         inodes'[i].indirect = inodes[i].indirect,
         inodes'[i].double = inodes[i].double
  PROVE  /\ Once(BlockMap') /\ Named' = Named \union {b}
         /\ BlockMap[DirectSite(i, k)] = Invalid /\ DirectSite(i, k) \in Site
         /\ BlockMap'[DirectSite(i, k)] = b /\ b # Invalid
         /\ AgreeBut(BlockMap, BlockMap', {DirectSite(i, k)})
<1> DEFINE f == Map(inodes, blk)
           g == Map(inodes, blk')
           h == Map(inodes', blk')
           x == DirectSite(i, k)
           Y == {x}
<1>1. b \notin Named /\ b # Invalid
  BY FreshBlock DEF alloc_block
<1>2. f = BlockMap /\ h = BlockMap' /\ DOMAIN f = Site /\ DOMAIN h = Site
  BY TreeIs DEF Map
<1>3. inodes \in [Ino -> Inode]
  BY TypeParts DEF InodesOK
<1>0. \A I, B : \A l \in DirectIdx : Map(I, B)[DirectSite(i, l)] = I[i].direct[l]
  BY MapKinds
<1>4. g = f
  <2>1. b \notin Img(f)
    BY <1>1, <1>2 DEF Named
  <2>2. \A j \in Ino : SamePointers(inodes[j], inodes[j])
    BY DEF SamePointers
  <2> HIDE DEF f
  <2> QED BY <2>1, <2>2, MapSame DEF f, AllSame, Harmless
<1>5. AgreeBut(g, h, DirectSites(i))
  BY PutDirect
<1>6. \A l \in DirectIdx :
        h[DirectSite(i, l)] = IF l = k THEN b ELSE f[DirectSite(i, l)]
  <2>1. \A l \in DirectIdx : f[DirectSite(i, l)] = inodes[i].direct[l]
    BY <1>0
  <2>2. \A l \in DirectIdx : h[DirectSite(i, l)] = inodes'[i].direct[l]
    BY <1>0
  <2>3. inodes[i].direct \in [DirectIdx -> Pointer]
    BY <1>3 DEF Inode
  <2> HIDE DEF f, h
  <2> QED BY <2>1, <2>2, <2>3
<1>7. x \in Site /\ f[x] = Invalid
  <2>1. \A l \in DirectIdx : f[DirectSite(i, l)] = inodes[i].direct[l]
    BY <1>0
  <2> QED BY <2>1, KindsAreSites
<1> HIDE DEF f, g, h
<1>8. h[x] = b
  BY <1>6
<1>9. \A s \in Site : s \notin Y => h[s] = f[s]
  BY <1>4, <1>5, <1>6 DEF AgreeBut, DirectSites
<1>10. Once(f) /\ Img(f) = Named /\ Img(h) = Named'
  BY <1>2 DEF MapExact, Named
<1> HIDE DEF x
<1>11. /\ Y \subseteq DOMAIN f /\ DOMAIN h = DOMAIN f
       /\ \A s \in Y : f[s] = Invalid /\ h[s] # Invalid /\ h[s] \notin Img(f)
       /\ \A s, t \in Y : h[s] = h[t] => s = t
       /\ \A s \in DOMAIN f : s \notin Y => h[s] = f[s]
       /\ {h[s] : s \in Y} = {b}
  BY <1>1, <1>2, <1>7, <1>8, <1>9, <1>10
<1>13. AgreeBut(BlockMap, BlockMap', {x})
  BY <1>2, <1>9 DEF AgreeBut
<1> HIDE DEF Y
<1>12. Once(h) /\ Img(h) = Img(f) \union {h[s] : s \in Y}
  BY <1>10, <1>11, MapGrow
<1> QED BY <1>1, <1>2, <1>7, <1>8, <1>10, <1>11, <1>12, <1>13 DEF x

\* A directory entry written, or not, while inodes keep their pointers.
LEMMA EntryQuiet ==
  ASSUME TypeInv, LiveInv, pc = "idle", NEW s \in DirSlots(inodes), NEW e,
         PutEntry(s, e) \/ UNCHANGED blk, NEW J, AllSame(inodes, J)
  PROVE  Map(J, blk') = Map(inodes, blk)
<1> DEFINE b == inodes[0].direct[s[1]]
<1>1. s[1] \in DirectIdx /\ 0 \in Ino
  BY Ranges DEF DirSlots
<1>2. s[1] \in LogicalBlocks /\ s[1] < DirectBlocks
  BY <1>1, PlaceBlock, SizesAssumption DEF DirectIdx
<1>3. b = DataPtr(blk, inodes[0], s[1])
  BY <1>2 DEF DataPtr
<1>4. OnlyAt(blk, blk', b)
  BY WriteOnly DEF PutEntry, OnlyAt
<1>5. Once(Map(inodes, blk))
  BY TreeIs DEF LiveInv, MapExact
<1>6. \E i \in Ino, lb \in LogicalBlocks : b = DataPtr(blk, inodes[i], lb)
  BY <1>1, <1>2, <1>3
<1> HIDE DEF b
<1>7. Harmless(inodes, blk, b)
  BY <1>5, <1>6 DEF Harmless
<1> QED BY <1>4, <1>7, MapSame

\* So it is when an entry of the directory is all that a step writes.
LEMMA EntryMap ==
  ASSUME TypeInv, LiveInv, pc = "idle", pc' # "children",
         NEW s \in DirSlots(inodes), NEW e,
         PutEntry(s, e) \/ UNCHANGED blk,
         \A j \in Ino : SamePointers(inodes[j], inodes'[j])
  PROVE  BlockMap' = BlockMap /\ Named' = Named
<1>1. AllSame(inodes, inodes')
  BY DEF AllSame
<1>2. Map(inodes', blk') = Map(inodes, blk)
  BY <1>1, EntryQuiet
<1> QED BY <1>2, TreeIs

\* add_dirent takes a free entry.
LEMMA LiveCreateInSlot ==
  ASSUME TypeInv, LiveInv, pc = "idle", NEW n, NEW i \in FileIno,
         FirstFreeInode(i), CreateInSlot(n, i)
  PROVE  LiveInv' /\ pc' # "closed" /\ BlockMap' = BlockMap
<1>1. PICK s \in DirSlots(inodes) :
        /\ \/ /\ PutEntry(s, NewEntry(i, n))
              /\ inodes' = WithFile(i)
              /\ StartCreateFlush(i)
           \/ /\ WriteFails("create")
              /\ inodes' = RolledBack(WithFile(i), i)
              /\ Return("EPERM")
        /\ UNCHANGED alloc
  BY DEF CreateInSlot
<1>2. inodes[i].type = "FREE" /\ Loose = {} /\ inodes \in [Ino -> Inode]
  BY TypeParts DEF FirstFreeInode, Loose, InTable, InodesOK
<1>3. WithFile(i) \in [Ino -> Inode] /\ RolledBack(WithFile(i), i) \in [Ino -> Inode]
  BY TypeNewFile
<1>4. i \in Ino /\ i # 0 /\ 0 \in Ino
  BY <1>2, FreeNode DEF LiveInv
<1>5. HandlerOK' /\ TablesOK' /\ Loose' = {} /\ pc' \in {"idle", "flush"}
  BY <1>1, AtRest DEF StartCreateFlush
<1>6. \A j \in Ino : j # i => inodes'[j] = inodes[j]
  BY <1>1, <1>2, <1>4 DEF WithFile, RolledBack
<1>7. \/ inodes'[i] = EmptyInode("FILE")
      \/ inodes'[i] = [EmptyInode("FILE") EXCEPT !.type = "FREE"]
  BY <1>1, <1>2, <1>4 DEF WithFile, RolledBack
<1>8. /\ SamePointers(inodes[i], inodes'[i])
      /\ inodes'[i].type = "FILE" \/ NoBlocks(inodes'[i])
  BY <1>1, <1>2, <1>3, <1>7, FreeNode DEF LiveInv
<1>9. \A j \in Ino : SamePointers(inodes[j], inodes'[j])
  BY <1>6, <1>8 DEF SamePointers
<1>10. PutEntry(s, NewEntry(i, n)) \/ UNCHANGED blk
  BY <1>1 DEF WriteFails
<1>11. BlockMap' = BlockMap /\ Named' = Named
  BY <1>5, <1>9, <1>10, EntryMap
<1>12. MapExact'
  BY <1>1, <1>2, <1>5, <1>11, ExactSame DEF LiveInv, MapExact, alloc
<1>13. NodesOK'
  <2>1. inodes'[0] = inodes[0]
    BY <1>4, <1>6
  <2>2. \A j \in FileIno : inodes'[j].type = "FREE" =>
          inodes'[j] = inodes[j] \/ NoBlocks(inodes'[j])
    BY <1>6, <1>8, Ranges
  <2> QED BY <2>1, <2>2, NodesKept DEF LiveInv
<1> QED BY <1>5, <1>11, <1>12, <1>13 DEF LiveInv

\* add_dirent takes a new block of the root directory; it keeps it when the
\* block cannot be written.
LEMMA LiveCreateInNewBlock ==
  ASSUME TypeInv, LiveInv, pc = "idle", NEW n, NEW i \in FileIno,
         NEW b \in DataBlocks, FirstFreeInode(i),
         inodes[0].block_count < DirectBlocks, CreateInNewBlock(n, i, b)
  PROVE  /\ LiveInv' /\ pc' # "closed"
         /\ \A s \in Site : s \notin Owned(0) => BlockMap'[s] = BlockMap[s]
<1> DEFINE k == inodes[0].block_count
           root == [inodes[0] EXCEPT !.block_count = @ + 1, !.direct[k] = b]
<1>1. /\ alloc_block(b)
      /\ \/ /\ write_block(b, DirBlock(FirstEntry(i, n)))
            /\ inodes' = Grown(i, b)
            /\ StartCreateFlush(i)
         \/ /\ WriteFails("create")
            /\ inodes' = RolledBack(Grown(i, b), i)
            /\ Return("EPERM")
  BY DEF CreateInNewBlock
<1>2. inodes[i].type = "FREE" /\ Loose = {} /\ inodes \in [Ino -> Inode]
  BY TypeParts DEF FirstFreeInode, Loose, InTable, InodesOK
<1>3. i \in Ino /\ i # 0 /\ 0 \in Ino
  BY <1>2, FreeNode DEF LiveInv
<1>4. HandlerOK' /\ TablesOK' /\ Loose' = {} /\ pc' \in {"idle", "flush"}
  BY <1>1, AtRest DEF StartCreateFlush
<1>5. \A j \in Ino : j # i /\ j # 0 => inodes'[j] = inodes[j]
  BY <1>1, <1>2, <1>3 DEF Grown, WithFile, RolledBack
<1>6. \/ inodes'[i] = EmptyInode("FILE")
      \/ inodes'[i] = [EmptyInode("FILE") EXCEPT !.type = "FREE"]
  BY <1>1, <1>2, <1>3 DEF Grown, WithFile, RolledBack
<1>7. inodes'[0] = root
  BY <1>1, <1>2, <1>3 DEF Grown, WithFile, RolledBack
<1>8. Grown(i, b) \in [Ino -> Inode] /\ RolledBack(Grown(i, b), i) \in [Ino -> Inode]
  BY TypeNewFile
<1>9. /\ SamePointers(inodes[i], inodes'[i])
      /\ inodes'[i].type = "FILE" \/ NoBlocks(inodes'[i])
  BY <1>1, <1>2, <1>6, <1>8, FreeNode DEF LiveInv
<1>10. k \in DirectIdx /\ k \in Nat /\ k < DirectBlocks /\ DirectBlocks \in Nat
       /\ inodes[0].direct[k] = Invalid
  <2>1. k \in 0 .. DirectBlocks
    BY DEF LiveInv, NodesOK
  <2>2. k \in DirectIdx /\ k \in Nat /\ DirectBlocks \in Nat
    BY <2>1, SizesAssumption DEF DirectIdx
  <2> QED BY <2>2 DEF LiveInv, NodesOK
<1>11. inodes[0] \in Inode
  BY <1>2, <1>3
<1>12. /\ root.type = inodes[0].type /\ root.block_count = k + 1
       /\ root.direct = [inodes[0].direct EXCEPT ![k] = b]
       /\ root.indirect = inodes[0].indirect /\ root.double = inodes[0].double
  BY <1>11 DEF Inode
<1> HIDE DEF root
<1>13. OthersSame(inodes, inodes', 0)
  BY <1>5, <1>9 DEF OthersSame, SamePointers
<1>14. OnlyAt(blk, blk', b)
  BY <1>1, WriteOnly DEF OnlyAt, WriteFails
<1>15. /\ Once(BlockMap') /\ Named' = Named \union {b}
       /\ AgreeBut(BlockMap, BlockMap', {DirectSite(0, k)})
  <2>1. pc # "children" /\ pc' # "children" /\ MapExact
    BY <1>4 DEF LiveInv
  <2>2. /\ inodes'[0].direct = [inodes[0].direct EXCEPT ![k] = b]
        /\ inodes'[0].indirect = inodes[0].indirect
        /\ inodes'[0].double = inodes[0].double
    BY <1>7, <1>12
  <2> HIDE DEF k
  <2> QED BY <1>1, <1>3, <1>10, <1>13, <1>14, <2>1, <2>2, DirectGrows
<1>16. MapExact'
  BY <1>1, <1>2, <1>4, <1>15, ExactAlloc DEF LiveInv
<1>17. NodesOK'
  <2>1. inodes'[0].type = "DIR" /\ inodes'[0].block_count \in 0 .. DirectBlocks
    BY <1>7, <1>10, <1>12 DEF LiveInv, NodesOK
  <2>2. ASSUME NEW l \in DirectIdx, l >= inodes'[0].block_count
        PROVE  inodes'[0].direct[l] = Invalid
    <3>1. l \in Nat /\ l # k /\ l >= k
      BY <1>7, <1>10, <1>12, <2>2 DEF DirectIdx
    <3>2. inodes[0].direct[l] = Invalid
      BY <3>1 DEF LiveInv, NodesOK
    <3>3. inodes[0].direct \in [DirectIdx -> Pointer]
      BY <1>11 DEF Inode
    <3> QED BY <1>7, <1>12, <3>1, <3>2, <3>3
  <2>3. \A j \in FileIno : inodes'[j].type = "FREE" => NoBlocks(inodes'[j])
    <3>1. \A j \in FileIno : j \in Ino /\ j # 0
      BY Ranges DEF FileIno
    <3> QED BY <1>5, <1>9, <3>1 DEF LiveInv, NodesOK
  <2> QED BY <2>1, <2>2, <2>3 DEF NodesOK
<1>18. ASSUME NEW s \in Site, s \notin Owned(0) PROVE BlockMap'[s] = BlockMap[s]
  <2>1. DirectSite(0, k) \in Owned(0)
    BY <1>3, <1>10, KindsAreSites DEF Owned, DirectSite, DataSite
  <2> QED BY <1>15, <1>18, <2>1 DEF AgreeBut
<1> QED BY <1>4, <1>16, <1>17, <1>18 DEF LiveInv

\* denyfs_vol_create as a whole.
LEMMA LiveCreate ==
  ASSUME TypeInv, LiveInv, NEW n, denyfs_vol_create(n)
  PROVE  LiveInv' /\ pc' # "closed"
<1>1. pc = "idle"
  BY DEF denyfs_vol_create
<1>2. ASSUME NEW r, Refuse(r) PROVE LiveInv' /\ pc' # "closed"
  BY <1>1, <1>2, LiveRefuse
<1>3. CASE \E i \in FileIno : FirstFreeInode(i) /\ CreateInSlot(n, i)
  BY <1>1, <1>3, LiveCreateInSlot
<1>4. CASE \E i \in FileIno, b \in DataBlocks :
             /\ FirstFreeInode(i) /\ inodes[0].block_count < DirectBlocks
             /\ CreateInNewBlock(n, i, b)
  BY <1>1, <1>4, LiveCreateInNewBlock
<1> QED BY <1>2, <1>3, <1>4 DEF denyfs_vol_create

-----------------------------------------------------------------------------
(***************************************************************************)
(* Freeing blocks together with the sites that named them.                 *)
(***************************************************************************)

\* A step that does both keeps the bitmap exact.
LEMMA ExactCut ==
  ASSUME MapExact, Loose = {}, Loose' = {}, NEW X, X \subseteq Site, NEW S,
         free_block(S, {}), CutAt(BlockMap, BlockMap', X), Freed(S, BlockMap, X)
  PROVE  MapExact'
<1> DEFINE f == BlockMap
           g == BlockMap'
<1>1. DOMAIN f = Site /\ DOMAIN g = Site
  BY DEF BlockMap, Map
<1>2. Once(f) /\ \A s \in DOMAIN f : g[s] = IF s \in X THEN Invalid ELSE f[s]
  BY <1>1 DEF MapExact, CutAt
<1>3. Named = Img(f) /\ Named' = Img(g)
  BY DEF Named
<1>4. Invalid \notin Img(f)
  BY DEF Img
<1> HIDE DEF f, g
<1>5. Once(g) /\ Img(g) = Img(f) \ {f[s] : s \in X}
  BY <1>1, <1>2, MapCut
<1>6. Img(f) \ {f[s] : s \in X} = Img(f) \ S
  BY <1>4 DEF Freed, f
<1>7. Named' \union Loose' = (Named \union Loose) \ S /\ Named' \intersect Loose' = {}
  BY <1>3, <1>5, <1>6
<1> QED BY <1>5, <1>7, ExactFree DEF g

-----------------------------------------------------------------------------
(***************************************************************************)
(* denyfs_vol_unlink.                                                      *)
(***************************************************************************)

\* free_inode reads every table it comes to, and frees what the inode names.
LEMMA FreeInode ==
  ASSUME TypeInv, LiveInv, pc = "idle", NEW i \in FileIno, free_inode(i)
  PROVE  \E S : /\ free_block(S, {}) /\ Freed(S, BlockMap, Owned(i))
                /\ inodes' = [inodes EXCEPT ![i] = EmptyInode("FREE")]
                /\ freeInodes' = freeInodes + 1
                /\ StartFlush([NoOp EXCEPT !.call = "unlink", !.ino = i])
<1> DEFINE nd == inodes[i]
           direct == {nd.direct[k] : k \in DirectIdx}
           single == IF nd.indirect = Invalid THEN {}
                     ELSE TableEntries(nd.indirect) \union {nd.indirect}
           left == bitmap \ (direct \union single)
           kids == {o \in PtrIdx : Child(blk, nd, o) # Invalid}
           kidRead(o) == \A k \in kids : k <= o => Readable(left, Child(blk, nd, k))
           family(o) == TableEntries(Child(blk, nd, o)) \union {Child(blk, nd, o)}
           below == UNION {family(o) : o \in {k \in kids : kidRead(k)}}
           S == direct \union single \union below \union {nd.double}
           f == Map(inodes, blk)
<1>1. i \in Ino /\ BlockMap = f /\ DOMAIN f = Site /\ Once(f)
  BY Ranges, TreeIs DEF LiveInv, MapExact, Map
<1>2. \A s \in Site : f[s] = Invalid \/ Readable(bitmap, f[s])
  BY <1>1, NamedReadable DEF LiveInv
<1>3. \A s, t \in Site : f[s] = f[t] /\ f[s] # Invalid => s = t
  BY <1>1 DEF Once
<1>4. /\ \A k \in DirectIdx : f[DirectSite(i, k)] = nd.direct[k]
      /\ \A p \in PtrIdx : f[IndirectSite(i, p)] = PtrAt(blk, nd.indirect, p)
      /\ \A o, p \in PtrIdx : f[LeafSite(i, o, p)] = PtrAt(blk, Child(blk, nd, o), p)
      /\ f[SingleSite(i)] = nd.indirect /\ f[DoubleSite(i)] = nd.double
      /\ \A o \in PtrIdx : f[ChildSite(i, o)] = Child(blk, nd, o)
  BY <1>1, MapKinds
<1>5. /\ \A k \in DirectIdx : DirectSite(i, k) \in Site
      /\ \A p \in PtrIdx : IndirectSite(i, p) \in Site
      /\ \A o, p \in PtrIdx : LeafSite(i, o, p) \in Site
      /\ SingleSite(i) \in Site /\ DoubleSite(i) \in Site
      /\ \A o \in PtrIdx : ChildSite(i, o) \in Site
  BY <1>1, KindsAreSites
<1>6. ASSUME nd.indirect # Invalid
      PROVE  \A p \in PtrIdx : f[IndirectSite(i, p)] = AsPointers(blk, nd.indirect)[p]
  BY <1>4, <1>6 DEF PtrAt
<1>7. \A t : /\ \A p \in PtrIdx : AsPointers(blk, t)[p] # Invalid
                                    => AsPointers(blk, t)[p] \in TableEntries(t)
             /\ \A e \in TableEntries(t) : e # Invalid
                  /\ \E p \in PtrIdx : e = AsPointers(blk, t)[p]
  BY DEF TableEntries
<1> HIDE DEF f
<1>8. nd.indirect # Invalid => nd.indirect \notin direct
  BY <1>3, <1>4, <1>5, TableKindsApart
<1>9. \A s \in Site : /\ s = DoubleSite(i) \/ \E o \in PtrIdx : s = ChildSite(i, o)
                      /\ f[s] # Invalid
                      => f[s] \notin direct \union single
  <2> SUFFICES ASSUME NEW s \in Site, f[s] # Invalid,
                      s = DoubleSite(i) \/ \E o \in PtrIdx : s = ChildSite(i, o)
               PROVE  f[s] \notin direct \union single
    OBVIOUS
  <2>1. /\ \A k \in DirectIdx : s # DirectSite(i, k)
        /\ \A p \in PtrIdx : s # IndirectSite(i, p)
        /\ s # SingleSite(i)
    BY TableKindsApart
  <2>2. f[s] \notin direct
    BY <1>3, <1>4, <1>5, <2>1
  <2>3. f[s] # nd.indirect
    BY <1>3, <1>4, <1>5, <2>1
  <2>4. nd.indirect # Invalid => f[s] \notin TableEntries(nd.indirect)
    BY <1>3, <1>5, <1>6, <1>7, <2>1
  <2> QED BY <2>2, <2>3, <2>4
<1>10. nd.indirect = Invalid \/ Readable(bitmap \ direct, nd.indirect)
  BY <1>2, <1>4, <1>5, <1>8 DEF Readable
<1>11. nd.double = Invalid \/ Readable(left, nd.double)
  BY <1>2, <1>4, <1>5, <1>9 DEF Readable
<1>12. \A o \in kids : Readable(left, Child(blk, nd, o))
  BY <1>2, <1>4, <1>5, <1>9 DEF Readable
<1>13. \A o \in kids : kidRead(o)
  BY <1>12
<1>14. /\ free_block(S, {})
       /\ inodes' = [inodes EXCEPT ![i] = EmptyInode("FREE")]
       /\ freeInodes' = freeInodes + 1
       /\ StartFlush([NoOp EXCEPT !.call = "unlink", !.ino = i])
  BY <1>10, <1>11, <1>13 DEF free_inode
<1>15. below = UNION {family(o) : o \in kids}
  BY <1>13
<1>16. Freed(S, f, Owned(i))
  <2>1. ASSUME NEW b \in S, b # Invalid PROVE \E s \in Owned(i) : b = f[s]
    <3>1. /\ \A k : DirectSite(i, k)[1] = i
          /\ \A p : IndirectSite(i, p)[1] = i
          /\ \A o, p : LeafSite(i, o, p)[1] = i
          /\ SingleSite(i)[1] = i /\ DoubleSite(i)[1] = i
          /\ \A o : ChildSite(i, o)[1] = i
      BY DEF DirectSite, IndirectSite, LeafSite, DataSite, SingleSite,
           DoubleSite, ChildSite
    <3>2. CASE b \in direct
      BY <1>4, <1>5, <3>1, <3>2 DEF Owned
    <3>3. CASE b \in single
      <4>1. nd.indirect # Invalid
        BY <3>3
      <4>2. b = nd.indirect \/ \E p \in PtrIdx : b = AsPointers(blk, nd.indirect)[p]
        BY <1>7, <3>3
      <4> QED BY <1>4, <1>5, <1>6, <3>1, <4>1, <4>2 DEF Owned
    <3>4. ASSUME NEW o \in kids, b \in family(o)
          PROVE  \E s \in Owned(i) : b = f[s]
      <4>1. \/ b = Child(blk, nd, o)
            \/ \E p \in PtrIdx : b = AsPointers(blk, Child(blk, nd, o))[p]
        BY <1>7, <3>4
      <4>2. \A p \in PtrIdx : f[LeafSite(i, o, p)] =
                                AsPointers(blk, Child(blk, nd, o))[p]
        BY <1>4 DEF PtrAt
      <4> QED BY <1>4, <1>5, <3>1, <4>1, <4>2 DEF Owned
    <3>5. CASE b = nd.double
      BY <1>4, <1>5, <3>1, <3>5 DEF Owned
    <3> QED BY <1>15, <3>2, <3>3, <3>4, <3>5
  <2>2. ASSUME NEW s \in Owned(i), f[s] # Invalid PROVE f[s] \in S
    <3>1. PICK j \in Ino :
             \/ \E k \in DirectIdx : s = DirectSite(j, k)
             \/ \E p \in PtrIdx : s = IndirectSite(j, p)
             \/ \E o, p \in PtrIdx : s = LeafSite(j, o, p)
             \/ s = SingleSite(j)
             \/ s = DoubleSite(j)
             \/ \E o \in PtrIdx : s = ChildSite(j, o)
      BY SiteKinds DEF Owned
    <3>2. j = i
      BY <3>1 DEF Owned, DirectSite, IndirectSite, LeafSite, DataSite,
           SingleSite, DoubleSite, ChildSite
    <3>3. ASSUME NEW k \in DirectIdx, s = DirectSite(i, k) PROVE f[s] \in S
      BY <1>4, <3>3
    <3>4. ASSUME NEW p \in PtrIdx, s = IndirectSite(i, p) PROVE f[s] \in S
      <4>1. nd.indirect # Invalid
        BY <1>4, <2>2, <3>4 DEF PtrAt
      <4> QED BY <1>6, <1>7, <2>2, <3>4, <4>1
    <3>5. ASSUME NEW o \in PtrIdx, NEW p \in PtrIdx, s = LeafSite(i, o, p)
          PROVE  f[s] \in S
      <4>1. f[s] = PtrAt(blk, Child(blk, nd, o), p)
        BY <1>4, <3>5
      <4>2. o \in kids /\ f[s] = AsPointers(blk, Child(blk, nd, o))[p]
        BY <2>2, <4>1 DEF PtrAt
      <4>3. f[s] \in family(o)
        BY <1>7, <2>2, <4>2
      <4> QED BY <1>15, <4>2, <4>3
    <3>6. ASSUME NEW o \in PtrIdx, s = ChildSite(i, o) PROVE f[s] \in S
      <4>1. o \in kids /\ f[s] \in family(o)
        BY <1>4, <2>2, <3>6
      <4> QED BY <1>15, <4>1
    <3>7. CASE s = SingleSite(i)
      BY <1>4, <2>2, <3>7
    <3>8. CASE s = DoubleSite(i)
      BY <1>4, <3>8
    <3> QED BY <3>1, <3>2, <3>3, <3>4, <3>5, <3>6, <3>7, <3>8
  <2> HIDE DEF S
  <2> QED BY <2>1, <2>2 DEF Freed
<1> HIDE DEF S
<1> QED BY <1>1, <1>14, <1>16

\* The file whose entry is cleared is gone from the map.
LEMMA UnlinkCuts ==
  ASSUME TypeInv, LiveInv, pc = "idle", NEW i \in FileIno,
         NEW s \in DirSlots(inodes), PutEntry(s, FreeEntry), free_inode(i)
  PROVE  \E S : /\ free_block(S, {}) /\ Freed(S, BlockMap, Owned(i))
                /\ CutAt(BlockMap, BlockMap', Owned(i))
                /\ inodes' = [inodes EXCEPT ![i] = EmptyInode("FREE")]
                /\ freeInodes' = freeInodes + 1
                /\ StartFlush([NoOp EXCEPT !.call = "unlink", !.ino = i])
<1>1. PICK S : /\ free_block(S, {}) /\ Freed(S, BlockMap, Owned(i))
               /\ inodes' = [inodes EXCEPT ![i] = EmptyInode("FREE")]
               /\ freeInodes' = freeInodes + 1
               /\ StartFlush([NoOp EXCEPT !.call = "unlink", !.ino = i])
  BY FreeInode
<1>2. pc' = "flush"
  BY <1>1 DEF StartFlush
<1>3. i \in Ino /\ inodes \in [Ino -> Inode]
  BY Ranges, TypeParts DEF InodesOK
<1>4. /\ inodes'[i] = EmptyInode("FREE")
      /\ \A j \in Ino : j # i => inodes'[j] = inodes[j]
  BY <1>1, <1>3
<1>5. OthersSame(inodes, inodes', i)
  BY <1>4 DEF OthersSame, SamePointers
<1>6. Map(inodes, blk') = Map(inodes, blk)
  <2>1. AllSame(inodes, inodes)
    BY DEF AllSame, SamePointers
  <2> QED BY <2>1, EntryQuiet
<1>7. CutAt(Map(inodes, blk'), Map(inodes', blk'), Owned(i))
  BY <1>3, <1>4, <1>5, DropInode
<1>8. CutAt(BlockMap, BlockMap', Owned(i))
  BY <1>2, <1>6, <1>7, TreeIs
<1> QED BY <1>1, <1>8

\* denyfs_vol_unlink as a whole.
LEMMA LiveUnlink ==
  ASSUME TypeInv, LiveInv, NEW n, denyfs_vol_unlink(n)
  PROVE  LiveInv' /\ pc' # "closed"
<1>1. pc = "idle" /\ Loose = {}
  BY DEF denyfs_vol_unlink, Loose, InTable
<1>2. CASE NotFound(n)
  BY <1>1, <1>2, LiveRefuse DEF NotFound
<1>3. CASE WriteFails("unlink") /\ Return("EPERM") /\ UNCHANGED <<alloc, inodes>>
  <2>1. HandlerOK' /\ TablesOK' /\ Loose' = {} /\ pc' = "idle"
    BY <1>3, AtRest
  <2>2. UNCHANGED <<bitmap, freeBlocks, inodes, blk>>
    BY <1>3 DEF WriteFails, alloc
  <2> QED BY <1>1, <2>1, <2>2, QuietMap, NodesKept DEF LiveInv
<1>4. ASSUME NEW i \in FileIno, NEW s \in DirSlots(inodes),
             PutEntry(s, FreeEntry), free_inode(i)
      PROVE  LiveInv' /\ pc' # "closed"
  <2>1. PICK S : /\ free_block(S, {}) /\ Freed(S, BlockMap, Owned(i))
                 /\ CutAt(BlockMap, BlockMap', Owned(i))
                 /\ inodes' = [inodes EXCEPT ![i] = EmptyInode("FREE")]
                 /\ StartFlush([NoOp EXCEPT !.call = "unlink", !.ino = i])
    BY <1>1, <1>4, UnlinkCuts
  <2>2. HandlerOK' /\ TablesOK' /\ Loose' = {} /\ pc' = "flush"
    BY <2>1, AtRest
  <2>3. i \in Ino /\ i # 0 /\ 0 \in Ino /\ inodes \in [Ino -> Inode]
    BY Ranges, TypeParts DEF FileIno, InodesOK
  <2>4. /\ inodes'[i] = EmptyInode("FREE")
        /\ \A j \in Ino : j # i => inodes'[j] = inodes[j]
    BY <2>1, <2>3
  <2>5. MapExact'
    BY <1>1, <2>1, <2>2, ExactCut DEF LiveInv, Owned
  <2>6. NodesOK'
    <3>1. NoBlocks(inodes'[i])
      BY <2>4 DEF NoBlocks, EmptyInode
    <3>2. \A j \in FileIno : inodes'[j].type = "FREE" =>
            inodes'[j] = inodes[j] \/ NoBlocks(inodes'[j])
      BY <2>4, <3>1, Ranges
    <3> QED BY <2>3, <2>4, <3>2, NodesKept DEF LiveInv
  <2> QED BY <2>2, <2>5, <2>6 DEF LiveInv
<1> QED BY <1>2, <1>3, <1>4 DEF denyfs_vol_unlink

-----------------------------------------------------------------------------
(***************************************************************************)
(* denyfs_vol_truncate.                                                    *)
(***************************************************************************)

\* The cases in which truncate changes the file.
TruncateGoes(i, size) ==
  LET start == [NoOp EXCEPT !.call = "truncate", !.ino = i,
                            !.size = size]
      tail == IF size % SectorSize = 0 THEN Invalid
              ELSE get_file_data_block(bitmap, blk, inodes[i],
                                       size \div SectorSize)
      Go(p) == pc' = p /\ op' = start /\ ret' = "busy"
  IN  \/ /\ IsFile(i) /\ size > inodes[i].size
         /\ Go("resize")
         /\ UNCHANGED <<disk, alloc, freeInodes, inodes, faults>>
      \/ /\ IsFile(i) /\ size < inodes[i].size /\ tail = Invalid
         /\ Go("shrink")
         /\ UNCHANGED <<disk, alloc, freeInodes, inodes, faults>>
      \/ /\ IsFile(i) /\ size < inodes[i].size /\ tail \in DataBlocks
         /\ \/ /\ WriteFails("truncate")
               /\ Return("EIO")
            \/ /\ write_block(tail,
                    DataBlock(Cleared(tail, size % SectorSize)))
               /\ Go("shrink")
         /\ UNCHANGED <<metaDisk, alloc, freeInodes, inodes>>

\* The call starts, and clears the tail of the last block kept.
LEMMA LiveStartTruncate ==
  ASSUME TypeInv, LiveInv, NEW n, NEW size \in TruncSizes,
         denyfs_vol_truncate(n, size)
  PROVE  LiveInv' /\ pc' # "closed" /\ BlockMap' = BlockMap
<1>1. pc = "idle" /\ Loose = {}
  BY DEF denyfs_vol_truncate, Loose, InTable
<1>2. ASSUME NEW r, Refuse(r)
      PROVE  LiveInv' /\ pc' # "closed" /\ BlockMap' = BlockMap
  BY <1>1, <1>2, LiveRefuse, TreeIs DEF Refuse, disk
<1>3. ASSUME NEW i \in FileIno, IsFile(i), pc' \in {"shrink", "resize"},
             op' = [NoOp EXCEPT !.call = "truncate", !.ino = i, !.size = size],
             UNCHANGED <<alloc, inodes>>, BlockMap' = BlockMap, Named' = Named
      PROVE  LiveInv' /\ pc' # "closed" /\ BlockMap' = BlockMap
  <2>1. /\ op'.ino = i /\ op'.call = "truncate" /\ op'.data = Invalid
        /\ ~op'.new_root /\ ~op'.new_table
    BY <1>3 DEF NoOp
  <2>2. Loose' = {}
    BY <1>3 DEF Loose, InTable
  <2>3. HandlerOK' /\ TablesOK'
    BY <1>3, <2>1 DEF HandlerOK, TablesOK, InTable, IsFile
  <2>4. MapExact'
    BY <1>1, <1>3, <2>2, ExactSame DEF LiveInv, MapExact, alloc
  <2> QED BY <1>3, <2>3, <2>4, NodesKept DEF LiveInv
<1>4. ASSUME NEW i \in FileIno, IsFile(i), NEW p \in {"shrink", "resize"},
             pc' = p,
             op' = [NoOp EXCEPT !.call = "truncate", !.ino = i, !.size = size],
             UNCHANGED <<disk, alloc, inodes>>
      PROVE  LiveInv' /\ pc' # "closed" /\ BlockMap' = BlockMap
  <2>1. BlockMap' = BlockMap /\ Named' = Named
    BY <1>1, <1>4, TreeIs DEF disk
  <2> QED BY <1>3, <1>4, <2>1
<1>5. ASSUME NEW i \in FileIno, IsFile(i), size < inodes[i].size,
             NEW t \in DataBlocks,
             t = get_file_data_block(bitmap, blk, inodes[i], size \div SectorSize),
             UNCHANGED <<alloc, inodes>>,
             \/ WriteFails("truncate") /\ Return("EIO")
             \/ /\ write_block(t, DataBlock(Cleared(t, size % SectorSize)))
                /\ pc' = "shrink"
                /\ op' = [NoOp EXCEPT !.call = "truncate", !.ino = i, !.size = size]
      PROVE  LiveInv' /\ pc' # "closed" /\ BlockMap' = BlockMap
  <2>1. CASE WriteFails("truncate") /\ Return("EIO")
    <3>1. HandlerOK' /\ TablesOK' /\ Loose' = {} /\ pc' = "idle"
      BY <2>1, AtRest
    <3>2. UNCHANGED <<bitmap, freeBlocks, inodes, blk>>
      BY <1>5, <2>1 DEF WriteFails, alloc
    <3>3. BlockMap' = BlockMap
      BY <1>1, <3>1, <3>2, TreeIs
    <3> QED BY <1>1, <3>1, <3>2, <3>3, QuietMap, NodesKept DEF LiveInv
  <2>2. CASE /\ write_block(t, DataBlock(Cleared(t, size % SectorSize)))
             /\ pc' = "shrink"
             /\ op' = [NoOp EXCEPT !.call = "truncate", !.ino = i, !.size = size]
    <3> DEFINE lb == size \div SectorSize
    <3>1. MaxFileBlocks \in Nat
      <4> DEFINE P == PointersPerBlock * PointersPerBlock
      <4>1. P \in Nat
        BY SizesAssumption
      <4> HIDE DEF P
      <4> QED BY <4>1, SizesAssumption DEF MaxFileBlocks, P
    <3>2. i \in Ino /\ inodes[i].size \in 0 .. MaxFileSize
      BY Ranges, TypeParts DEF InodesOK, Inode
    <3>3. size \in Nat /\ size < MaxFileBlocks * SectorSize
      BY <1>5, <3>1, <3>2, InputsAssumption, LayoutAssumption, SizesAssumption
    <3>4. lb \in LogicalBlocks
      BY <3>1, <3>3, DivBelow, SizesAssumption DEF LogicalBlocks
    <3> HIDE DEF lb
    <3>5. t = DataPtr(blk, inodes[i], lb)
      BY <1>5, DataArea DEF get_file_data_block, lb
    <3>6. \E j \in Ino, l \in LogicalBlocks : t = DataPtr(blk, inodes[j], l)
      BY <3>2, <3>4, <3>5
    <3>7. BlockMap' = BlockMap /\ Named' = Named
      BY <1>1, <1>5, <2>2, <3>6, PlainWrite DEF LiveInv
    <3> QED BY <1>3, <1>5, <2>2, <3>7
  <2> QED BY <1>5, <2>1, <2>2
<1>6. CASE \E r : Refuse(r)
  BY <1>2, <1>6
<1>7. ASSUME NEW i \in FileIno, TruncateGoes(i, size)
      PROVE  LiveInv' /\ pc' # "closed" /\ BlockMap' = BlockMap
  <2> DEFINE t == IF size % SectorSize = 0 THEN Invalid
                  ELSE get_file_data_block(bitmap, blk, inodes[i],
                                           size \div SectorSize)
  <2>1. ASSUME NEW p \in {"shrink", "resize"}, IsFile(i), pc' = p,
               op' = [NoOp EXCEPT !.call = "truncate", !.ino = i, !.size = size],
               UNCHANGED <<disk, alloc, freeInodes, inodes, faults>>
        PROVE  LiveInv' /\ pc' # "closed" /\ BlockMap' = BlockMap
    <3>1. UNCHANGED <<disk, alloc, inodes>>
      BY <2>1
    <3> QED BY <1>4, <2>1, <3>1
  <2>2. ASSUME IsFile(i), size < inodes[i].size, t \in DataBlocks,
               UNCHANGED <<metaDisk, alloc, freeInodes, inodes>>,
               \/ WriteFails("truncate") /\ Return("EIO")
               \/ /\ write_block(t, DataBlock(Cleared(t, size % SectorSize)))
                  /\ pc' = "shrink"
                  /\ op' = [NoOp EXCEPT !.call = "truncate", !.ino = i,
                                        !.size = size]
        PROVE  LiveInv' /\ pc' # "closed" /\ BlockMap' = BlockMap
    <3>1. t = get_file_data_block(bitmap, blk, inodes[i], size \div SectorSize)
      BY <2>2, DataArea
    <3>2. UNCHANGED <<alloc, inodes>>
      BY <2>2
    <3> HIDE DEF t
    <3> QED BY <1>5, <2>2, <3>1, <3>2
  <2>3. CASE /\ IsFile(i) /\ pc' = "resize"
             /\ op' = [NoOp EXCEPT !.call = "truncate", !.ino = i, !.size = size]
             /\ UNCHANGED <<disk, alloc, freeInodes, inodes, faults>>
    BY <2>1, <2>3
  <2>4. CASE /\ IsFile(i) /\ pc' = "shrink"
             /\ op' = [NoOp EXCEPT !.call = "truncate", !.ino = i, !.size = size]
             /\ UNCHANGED <<disk, alloc, freeInodes, inodes, faults>>
    BY <2>1, <2>4
  <2>5. CASE /\ IsFile(i) /\ size < inodes[i].size /\ t \in DataBlocks
             /\ UNCHANGED <<metaDisk, alloc, freeInodes, inodes>>
             /\ \/ WriteFails("truncate") /\ Return("EIO")
                \/ /\ write_block(t, DataBlock(Cleared(t, size % SectorSize)))
                   /\ pc' = "shrink"
                   /\ op' = [NoOp EXCEPT !.call = "truncate", !.ino = i,
                                         !.size = size]
    BY <2>2, <2>5
  <2> QED BY <1>7, <2>3, <2>4, <2>5 DEF TruncateGoes
<1>8. \/ \E r : Refuse(r)
      \/ \E i \in FileIno : TruncateGoes(i, size)
  BY DEF denyfs_vol_truncate, NotFound, TruncateGoes
<1> QED BY <1>6, <1>7, <1>8

\* A step of a truncate that goes on.
LEMMA StillShrinking ==
  ASSUME LiveInv, pc \in {"shrink", "roots", "children"},
         pc' \in {"roots", "children", "resize"},
         pc' = "children" => node'.double # Invalid,
         op'.ino = op.ino, op'.call = op.call, op'.data = op.data,
         op'.new_root = op.new_root, op'.new_table = op.new_table,
         inodes'[op.ino].type = "FILE"
  PROVE  HandlerOK' /\ TablesOK' /\ Loose' = {} /\ pc' # "closed"
BY DEF LiveInv, HandlerOK, TablesOK, Loose, InTable, IsFile

\* The direct pointers and the indirect table, by the sites they are.
LEMMA ShrinkSites ==
  ASSUME TypeInv, LiveInv, pc \in {"shrink", "roots", "children"}
  PROVE  /\ op.ino \in Ino /\ node \in Inode /\ node = inodes[op.ino]
         /\ IsFile(op.ino) /\ Loose = {} /\ op.call = "truncate"
         /\ DOMAIN BlockMap = Site /\ Once(BlockMap)
         /\ \A s \in Site : \/ BlockMap[s] = Invalid
                            \/ /\ Readable(bitmap, BlockMap[s])
                               /\ BlockMap[s] \in DataBlocks
<1>1. op.ino \in Ino /\ node \in Inode /\ node = inodes[op.ino]
  BY TypeBecome DEF node
<1>2. IsFile(op.ino) /\ Loose = {} /\ op.call = "truncate"
  BY DEF LiveInv, HandlerOK, Loose, InTable
<1>3. DOMAIN BlockMap = Site /\ Once(BlockMap)
  BY DEF BlockMap, Map, LiveInv, MapExact
<1>4. \A s \in Site : \/ BlockMap[s] = Invalid
                      \/ /\ Readable(bitmap, BlockMap[s])
                         /\ BlockMap[s] \in DataBlocks
  BY NamedReadable DEF LiveInv
<1> QED BY <1>1, <1>2, <1>3, <1>4

\* The direct blocks past the new end are dropped.
Cut == {k \in DirectIdx : k >= NewBlocks /\ node.direct[k] # Invalid}
CutDirect == [k \in DirectIdx |-> IF k \in Cut THEN Invalid ELSE node.direct[k]]
CutSites(i) == {DirectSite(i, k) : k \in Cut}

\* They are finitely many.
LEMMA CutFinite == Cardinality(Cut) \in Nat
<1>1. IsFiniteSet(DirectIdx)
  BY SizesAssumption, FS_Interval DEF DirectIdx
<1>2. Cut \subseteq DirectIdx
  BY DEF Cut
<1> QED BY <1>1, <1>2, FS_Subset, FS_CardinalityType

\* What becomes of the map when the direct pointers are cut.
LEMMA CutPointers ==
  ASSUME NEW I, NEW J, NEW B, NEW i \in Ino, I[i] = node,
         OthersSame(I, J, i), J[i].direct = CutDirect,
         J[i].indirect = node.indirect, J[i].double = node.double
  PROVE  CutAt(Map(I, B), Map(J, B), CutSites(i))
<1> DEFINE f == Map(I, B)
           g == Map(J, B)
<1>1. AgreeBut(f, g, DirectSites(i))
  BY PutDirect
<1>2. \A k \in DirectIdx : f[DirectSite(i, k)] = node.direct[k]
  BY MapKinds
<1>3. \A k \in DirectIdx :
        g[DirectSite(i, k)] = IF k \in Cut THEN Invalid ELSE node.direct[k]
  <2>1. \A k \in DirectIdx : g[DirectSite(i, k)] = J[i].direct[k]
    BY MapKinds
  <2> QED BY <2>1 DEF CutDirect
<1> HIDE DEF f, g
<1>4. ASSUME NEW s \in Site, s \in CutSites(i) PROVE g[s] = Invalid
  <2>1. PICK k \in DirectIdx : k \in Cut /\ s = DirectSite(i, k)
    BY <1>4 DEF CutSites, Cut
  <2> QED BY <1>3, <2>1
<1>5. ASSUME NEW s \in Site, s \notin CutSites(i) PROVE g[s] = f[s]
  <2>1. CASE s \notin DirectSites(i)
    BY <1>1, <2>1 DEF AgreeBut
  <2>2. ASSUME NEW k \in DirectIdx, s = DirectSite(i, k) PROVE g[s] = f[s]
    <3>1. k \notin Cut
      BY <1>5, <2>2 DEF CutSites
    <3> QED BY <1>2, <1>3, <2>2, <3>1
  <2> QED BY <2>1, <2>2 DEF DirectSites
<1> QED BY <1>4, <1>5 DEF CutAt, f, g

\* The entries past the new end of file in a table that starts at logical
\* block first.
Past(first) == {q \in PtrIdx : first + q >= NewBlocks}

\* Entries are dropped from a table: with all that is left when nothing is
\* kept, and with those past the new end otherwise.
LEMMA DroppedAre ==
  ASSUME NEW t, NEW first
  PROVE  /\ Dropped(t, first) =
              {AsPointers(blk, t)[p] : p \in Past(first)} \ {Invalid}
         /\ Kept(t, first) = NoPtrs =>
              Dropped(t, first) =
                {AsPointers(blk, t)[p] : p \in PtrIdx} \ {Invalid}
<1>1. Dropped(t, first) = {AsPointers(blk, t)[p] : p \in Past(first)} \ {Invalid}
  BY DEF Dropped, Past
<1>2. ASSUME Kept(t, first) = NoPtrs
      PROVE  \A p \in PtrIdx : p \in Past(first) \/ AsPointers(blk, t)[p] = Invalid
  <2>1. \A p \in PtrIdx : Kept(t, first)[p] = Invalid
    BY <1>2 DEF NoPtrs
  <2> QED BY <2>1 DEF Kept, Past
<1>3. Past(first) \subseteq PtrIdx
  BY DEF Past
<1> QED BY <1>1, <1>2, <1>3

\* The table that is written keeps the rest.
LEMMA KeptWritten ==
  ASSUME TypeInv, NEW t \in DataBlocks, NEW first,
         write_block(t, PtrBlock(Kept(t, first)))
  PROVE  CutEntries(blk, blk', t, Past(first))
<1>1. OnlyAt(blk, blk', t) /\ AsPointers(blk', t) = Kept(t, first)
  BY WriteOnly
<1> QED BY <1>1 DEF CutEntries, Kept, Past

\* The sites that go with the indirect table, or with its last entries.
SingleCut(i) ==
  IF node.indirect = Invalid THEN {}
  ELSE IF Kept(node.indirect, DirectBlocks) = NoPtrs
       THEN IndirectSites(i) \union {SingleSite(i)}
       ELSE {IndirectSite(i, p) : p \in Past(DirectBlocks)}

\* The file as ShrinkDirect leaves it.
DirectShrunk ==
  /\ pc' = "roots" /\ UNCHANGED op
  /\ CutAt(BlockMap, BlockMap', CutSites(op.ino) \union SingleCut(op.ino))
  /\ UNCHANGED blk \/ \E c : write_block(node.indirect, c)
  /\ \E nd : /\ Become(nd) /\ nd.type = node.type /\ nd.size = node.size
             /\ nd.block_count = node.block_count - Cardinality(Cut)
                  - (IF node.indirect = Invalid THEN 0
                     ELSE DroppedCount(node.indirect, DirectBlocks))

\* truncate_file_blocks: the direct blocks and the indirect table.
LEMMA LiveShrinkDirect ==
  ASSUME TypeInv, LiveInv, ShrinkDirect, "truncate" \notin FaultyCalls
  PROVE  LiveInv' /\ pc' # "closed" /\ DirectShrunk
<1> DEFINE i == op.ino
           direct == {node.direct[k] : k \in Cut}
           t == node.indirect
           f == Map(inodes, blk)
           short == [node EXCEPT !.direct = CutDirect,
                                 !.block_count = @ - Cardinality(Cut)]
           shorter == [short EXCEPT
             !.block_count = @ - DroppedCount(t, DirectBlocks)]
           bare == [shorter EXCEPT !.indirect = Invalid]
           Q == Past(DirectBlocks)
           drop == Dropped(t, DirectBlocks)
<1>1. /\ pc = "shrink" /\ i \in Ino /\ node = inodes[i] /\ node \in Inode
      /\ IsFile(i) /\ Loose = {} /\ op.call = "truncate"
      /\ BlockMap = f /\ DOMAIN f = Site /\ Once(f)
      /\ \A s \in Site : f[s] = Invalid \/ Readable(bitmap, f[s])
  <2>1. pc = "shrink"
    BY DEF ShrinkDirect
  <2>2. BlockMap = f
    BY <2>1, TreeIs
  <2> QED BY <2>1, <2>2, ShrinkSites
<1>2. /\ \A k \in DirectIdx : f[DirectSite(i, k)] = node.direct[k]
      /\ \A p \in PtrIdx : f[IndirectSite(i, p)] = PtrAt(blk, t, p)
      /\ f[SingleSite(i)] = t
      /\ \A k \in DirectIdx : DirectSite(i, k) \in Site
      /\ \A p \in PtrIdx : IndirectSite(i, p) \in Site
      /\ SingleSite(i) \in Site
      /\ \A k : DirectSite(i, k) # SingleSite(i)
      /\ Cut \subseteq DirectIdx /\ Q \subseteq PtrIdx
  BY <1>1, MapKinds, KindsAreSites, TableKindsApart DEF Cut, Past
<1>3. ~WriteFails(op.call)
  BY <1>1 DEF WriteFails
<1> HIDE DEF f
<1>4. t # Invalid => /\ Readable(bitmap \ direct, t) /\ t \in DataBlocks
                     /\ \A p \in PtrIdx : f[IndirectSite(i, p)] = AsPointers(blk, t)[p]
  <2>1. t # Invalid => t \notin direct
    BY <1>1, <1>2 DEF Once
  <2> QED BY <1>1, <1>2, <2>1 DEF Readable, PtrAt
<1>5. CutSites(i) \subseteq Site /\ Freed(direct, f, CutSites(i))
  <2>1. {f[s] : s \in CutSites(i)} = direct
    BY <1>2 DEF CutSites
  <2> QED BY <1>2, <2>1 DEF CutSites, Freed
<1>6. /\ short.type = node.type /\ shorter.type = node.type /\ bare.type = node.type
      /\ short.size = node.size /\ shorter.size = node.size /\ bare.size = node.size
      /\ short.direct = CutDirect /\ shorter.direct = CutDirect
      /\ bare.direct = CutDirect
      /\ short.indirect = t /\ shorter.indirect = t /\ bare.indirect = Invalid
      /\ short.double = node.double /\ shorter.double = node.double
      /\ bare.double = node.double
      /\ short.block_count = node.block_count - Cardinality(Cut)
      /\ shorter.block_count =
           node.block_count - Cardinality(Cut) - DroppedCount(t, DirectBlocks)
      /\ bare.block_count = shorter.block_count
  BY <1>1 DEF Inode
<1>7. /\ pc' = "roots" /\ UNCHANGED op
      /\ \/ t = Invalid /\ free_block(direct, {}) /\ Become(short) /\ NoWrite
         \/ /\ t # Invalid /\ Kept(t, DirectBlocks) = NoPtrs
            /\ free_block(direct \union drop \union {t}, {})
            /\ Become(bare) /\ NoWrite
         \/ /\ t # Invalid /\ Kept(t, DirectBlocks) # NoPtrs
            /\ free_block(direct \union drop, {}) /\ Become(shorter)
            /\ write_block(t, PtrBlock(Kept(t, DirectBlocks)))
  BY <1>3, <1>4 DEF ShrinkDirect, Cut, CutDirect, Goto
<1> HIDE DEF i, direct, t, short, shorter, bare, Q, drop
<1>8. ASSUME NEW nd \in {short, shorter, bare}, Become(nd), NEW S, NEW X,
             X \subseteq Site, free_block(S, {}), Freed(S, f, X),
             CutAt(f, Map(inodes', blk'), X),
             X = CutSites(i) \union SingleCut(i),
             nd.block_count = node.block_count - Cardinality(Cut)
               - (IF t = Invalid THEN 0 ELSE DroppedCount(t, DirectBlocks))
      PROVE  LiveInv' /\ pc' # "closed" /\ DirectShrunk
  <2>1. NodesOK' /\ inodes'[op.ino].type = "FILE"
    BY <1>1, <1>6, <1>8, FileGets DEF i
  <2>2. HandlerOK' /\ TablesOK' /\ Loose' = {} /\ pc' # "closed"
    BY <1>1, <1>7, <2>1, StillShrinking DEF i
  <2>3. BlockMap' = Map(inodes', blk')
    BY <1>7, TreeIs
  <2>4. MapExact'
    BY <1>1, <1>8, <2>2, <2>3, ExactCut DEF LiveInv
  <2>5. DirectShrunk
    <3>1. nd.type = node.type /\ nd.size = node.size
      BY <1>6, <1>8
    <3>3. UNCHANGED blk \/ \E c : write_block(node.indirect, c)
      BY <1>7 DEF NoWrite, t
    <3>2. CutAt(BlockMap, BlockMap', CutSites(op.ino) \union SingleCut(op.ino))
      BY <1>1, <1>8, <2>3 DEF i
    <3> QED BY <1>7, <1>8, <3>1, <3>2, <3>3 DEF DirectShrunk, t
  <2> QED BY <2>1, <2>2, <2>4, <2>5 DEF LiveInv
<1>9. \A nd : nd \in {short, shorter, bare} /\ Become(nd) =>
        inodes'[i] = nd /\ OthersSame(inodes, inodes', i)
  BY <1>1, <1>6, FileGets DEF i
<1>10. CASE t = Invalid /\ free_block(direct, {}) /\ Become(short) /\ NoWrite
  <2>1. CutAt(f, Map(inodes', blk), CutSites(i))
    BY <1>1, <1>6, <1>9, <1>10, CutPointers DEF f, t
  <2>2. CutSites(i) = CutSites(i) \union SingleCut(i)
    BY <1>10 DEF SingleCut, t
  <2>3. short.block_count = node.block_count - Cardinality(Cut)
          - (IF t = Invalid THEN 0 ELSE DroppedCount(t, DirectBlocks))
    <3>1. node.block_count - Cardinality(Cut) \in Int
      BY <1>1, CutFinite DEF Inode
    <3> QED BY <1>6, <1>10, <3>1
  <2> QED BY <1>5, <1>8, <1>10, <2>1, <2>2, <2>3 DEF NoWrite
<1>11. CASE /\ t # Invalid /\ Kept(t, DirectBlocks) = NoPtrs
            /\ free_block(direct \union drop \union {t}, {})
            /\ Become(bare) /\ NoWrite
  <2> DEFINE J == [inodes EXCEPT ![i] = short]
             X == IndirectSites(i) \union {SingleSite(i)}
             T == drop \union {t}
  <2>1. /\ J[i] = short /\ OthersSame(inodes, J, i) /\ OthersSame(J, inodes', i)
        /\ inodes'[i] = bare
    <3>1. inodes \in [Ino -> Inode]
      BY TypeParts DEF InodesOK
    <3>2. J[i] = short /\ \A j \in Ino : j # i => J[j] = inodes[j]
      BY <1>1, <3>1
    <3>3. inodes'[i] = bare /\ OthersSame(inodes, inodes', i)
      BY <1>9, <1>11
    <3> HIDE DEF J
    <3> QED BY <3>2, <3>3 DEF OthersSame, SamePointers
  <2> HIDE DEF J
  <2>2. CutAt(f, Map(J, blk), CutSites(i))
    BY <1>1, <1>6, <2>1, CutPointers DEF f, t
  <2>3. CutAt(Map(J, blk), Map(inodes', blk), X)
    BY <1>1, <1>6, <2>1, CutIndirect
  <2>4. drop = {AsPointers(blk, t)[p] : p \in PtrIdx} \ {Invalid}
    BY <1>11, DroppedAre DEF drop
  <2>5. {f[s] : s \in X} = {AsPointers(blk, t)[p] : p \in PtrIdx} \union {t}
    BY <1>2, <1>4, <1>11 DEF IndirectSites
  <2>6. X \subseteq Site
    BY <1>2 DEF IndirectSites
  <2>7. Freed(T, f, X)
    BY <2>4, <2>5 DEF Freed
  <2>10. X = SingleCut(i)
    BY <1>11 DEF SingleCut, t
  <2>11. bare.block_count = node.block_count - Cardinality(Cut)
           - (IF t = Invalid THEN 0 ELSE DroppedCount(t, DirectBlocks))
    BY <1>6, <1>11
  <2> HIDE DEF X, T
  <2>8. /\ CutAt(f, Map(inodes', blk), CutSites(i) \union X)
        /\ Freed(direct \union T, f, CutSites(i) \union X)
    BY <1>5, <2>2, <2>3, <2>7, CutTwice
  <2>9. direct \union drop \union {t} = direct \union T
    BY DEF T
  <2> QED BY <1>5, <1>8, <1>11, <2>6, <2>8, <2>9, <2>10, <2>11 DEF NoWrite
<1>12. CASE /\ t # Invalid /\ Kept(t, DirectBlocks) # NoPtrs
            /\ free_block(direct \union drop, {}) /\ Become(shorter)
            /\ write_block(t, PtrBlock(Kept(t, DirectBlocks)))
  <2> DEFINE X == {IndirectSite(i, p) : p \in Q}
  <2>1. CutEntries(blk, blk', t, Q)
    BY <1>4, <1>12, KeptWritten DEF Q
  <2>2. CutAt(f, Map(inodes, blk'), X)
    BY <1>1, <1>2, <1>12, <2>1, CutSingleTable DEF f, t
  <2>3. CutAt(Map(inodes, blk'), Map(inodes', blk'), CutSites(i))
    BY <1>1, <1>6, <1>9, <1>12, CutPointers DEF t
  <2>4. Freed(drop, f, X)
    <3>1. drop = {AsPointers(blk, t)[p] : p \in Q} \ {Invalid}
      BY DroppedAre DEF drop, Q
    <3>2. {f[s] : s \in X} = {AsPointers(blk, t)[p] : p \in Q}
      BY <1>2, <1>4, <1>12
    <3> QED BY <3>1, <3>2 DEF Freed
  <2>5. X \subseteq Site
    BY <1>2
  <2>8. X = SingleCut(i)
    BY <1>12 DEF SingleCut, t, Q
  <2>9. shorter.block_count = node.block_count - Cardinality(Cut)
          - (IF t = Invalid THEN 0 ELSE DroppedCount(t, DirectBlocks))
    BY <1>6, <1>12
  <2> HIDE DEF X
  <2>6. /\ CutAt(f, Map(inodes', blk'), X \union CutSites(i))
        /\ Freed(drop \union direct, f, X \union CutSites(i))
    BY <1>5, <2>2, <2>3, <2>4, CutTwice
  <2>7. /\ direct \union drop = drop \union direct
        /\ X \union CutSites(i) = CutSites(i) \union SingleCut(i)
    BY <2>8
  <2> QED BY <1>5, <1>8, <1>12, <2>5, <2>6, <2>7, <2>9
<1> QED BY <1>7, <1>10, <1>11, <1>12

\* The root is read.
LEMMA LiveReadRoots ==
  ASSUME TypeInv, LiveInv, ReadRoots
  PROVE  LiveInv' /\ pc' # "closed" /\ BlockMap' = BlockMap
<1>1. /\ pc = "roots" /\ UNCHANGED <<bitmap, freeBlocks, inodes, blk>>
      /\ op.ino \in Ino /\ node = inodes[op.ino] /\ IsFile(op.ino) /\ Loose = {}
  BY ShrinkSites DEF ReadRoots, NoWrite, alloc
<1>2. CASE Return("EIO")
  <2>1. HandlerOK' /\ TablesOK' /\ Loose' = {} /\ pc' = "idle"
    BY <1>2, AtRest
  <2> QED BY <1>1, <2>1, TreeIs, QuietMap, NodesKept DEF LiveInv
<1>3. CASE Goto("resize") /\ UNCHANGED op
  <2>1. HandlerOK' /\ TablesOK' /\ Loose' = {} /\ pc' = "resize"
    BY <1>1, <1>3, StillShrinking DEF Goto, IsFile
  <2> QED BY <1>1, <2>1, TreeIs, QuietMap, NodesKept DEF LiveInv
<1>4. CASE /\ node.double # Invalid
           /\ op' = [op EXCEPT !.roots = AsPointers(blk, node.double), !.cur = 0]
           /\ pc' = "children"
  <2>1. /\ op'.ino = op.ino /\ op'.call = op.call /\ op'.data = op.data
        /\ op'.new_root = op.new_root /\ op'.new_table = op.new_table
        /\ op'.roots = AsPointers(blk, node.double)
    BY <1>4, TypeParts DEF ControlOK, OpType
  <2>2. node' = node
    BY <1>1, <2>1 DEF node
  <2>3. HandlerOK' /\ TablesOK' /\ Loose' = {}
    BY <1>1, <1>4, <2>1, <2>2, StillShrinking DEF IsFile
  <2>4. blk \in [DataBlocks -> Content]
    BY TypeParts DEF DataOK
  <2>5. Tree' = [blk EXCEPT ![node.double] = PtrBlock(AsPointers(blk, node.double))]
    BY <1>1, <1>4, <2>1, <2>2 DEF Tree
  <2>6. OnlyAt(blk, Tree', Invalid)
    <3> DEFINE d == node.double
               r == AsPointers(blk, d)
    <3>1. ASSUME d \in DataBlocks, NEW u
          PROVE  AsPointers(Tree', u) = AsPointers(blk, u)
      <4>1. Tree' \in [DataBlocks -> Content \union {PtrBlock(r)}]
            /\ Tree'[d] = PtrBlock(r) /\ (u # d => Tree'[u] = blk[u])
        BY <2>4, <2>5, <3>1
      <4>2. PtrBlock(r).kind = "ptrs" /\ PtrBlock(r).ptrs = r
        BY DEF PtrBlock
      <4>3. CASE u = d
        BY <3>1, <4>1, <4>2, <4>3 DEF AsPointers
      <4>4. CASE u # d
        BY <4>1, <4>4 DEF AsPointers
      <4> QED BY <4>3, <4>4
    <3>2. d \notin DataBlocks => Tree' = blk
      BY <2>4, <2>5
    <3> QED BY <3>1, <3>2 DEF OnlyAt
  <2>7. AllSame(inodes, inodes) /\ Harmless(inodes, blk, Invalid)
    BY DEF AllSame, SamePointers, Harmless
  <2>8. Map(inodes, Tree') = Map(inodes, blk)
    BY <2>6, <2>7, MapSame
  <2>9. BlockMap' = BlockMap /\ Named' = Named
    BY <1>1, <2>8, TreeIs DEF BlockMap
  <2>10. MapExact'
    BY <1>1, <2>3, <2>9, ExactSame DEF LiveInv, MapExact
  <2> QED BY <1>1, <1>4, <2>3, <2>9, <2>10, NodesKept DEF LiveInv
<1> QED BY <1>2, <1>3, <1>4 DEF ReadRoots, Goto

\* Data area B with table r over block d: what a truncate keeps in memory.
Overlaid(B, C, d, r) ==
  d \in DataBlocks /\ DOMAIN B = DataBlocks /\ C = [B EXCEPT ![d] = PtrBlock(r)]

\* Reading tables from such a data area.
LEMMA Overlay ==
  ASSUME NEW B, NEW C, NEW d, NEW r, Overlaid(B, C, d, r)
  PROVE  /\ AsPointers(C, d) = r
         /\ \A u : u # d => AsPointers(C, u) = AsPointers(B, u)
<1>1. C[d] = PtrBlock(r) /\ \A u \in DataBlocks : u # d => C[u] = B[u]
  BY DEF Overlaid
<1>2. PtrBlock(r).kind = "ptrs" /\ PtrBlock(r).ptrs = r
  BY DEF PtrBlock
<1> QED BY <1>1, <1>2 DEF AsPointers, Overlaid

\* What is known of the tree while its children are gone through.
LEMMA ChildrenKnown ==
  ASSUME TypeInv, LiveInv, pc = "children"
  PROVE  /\ op.ino \in Ino /\ node = inodes[op.ino] /\ node \in Inode
         /\ IsFile(op.ino) /\ Loose = {} /\ op.call = "truncate"
         /\ BlockMap = Map(inodes, Tree) /\ Once(Map(inodes, Tree))
         /\ DOMAIN BlockMap = Site
         /\ node.double # Invalid /\ node.double \in DataBlocks
         /\ Tree = [blk EXCEPT ![node.double] = PtrBlock(op.roots)]
         /\ blk \in [DataBlocks -> Content] /\ op.roots \in [PtrIdx -> Pointer]
         /\ AsPointers(Tree, node.double) = op.roots
         /\ \A u : u # node.double => AsPointers(Tree, u) = AsPointers(blk, u)
         /\ \A o \in PtrIdx : Child(Tree, node, o) = op.roots[o]
<1>1. /\ op.ino \in Ino /\ node = inodes[op.ino] /\ node \in Inode
      /\ IsFile(op.ino) /\ Loose = {} /\ op.call = "truncate"
      /\ Once(BlockMap) /\ DOMAIN BlockMap = Site
      /\ \A s \in Site : BlockMap[s] = Invalid \/ BlockMap[s] \in DataBlocks
  BY ShrinkSites
<1>2. BlockMap = Map(inodes, Tree)
  BY DEF BlockMap
<1>3. node.double # Invalid
  BY DEF LiveInv, HandlerOK
<1>4. node.double \in DataBlocks
  <2>1. Map(inodes, Tree)[DoubleSite(op.ino)] = inodes[op.ino].double
    BY <1>1, MapKinds
  <2>2. DoubleSite(op.ino) \in Site
    BY <1>1, KindsAreSites
  <2> QED BY <1>1, <1>2, <1>3, <2>1, <2>2
<1>5. /\ Tree = [blk EXCEPT ![node.double] = PtrBlock(op.roots)]
      /\ blk \in [DataBlocks -> Content] /\ op.roots \in [PtrIdx -> Pointer]
  BY TypeParts DEF Tree, DataOK, ControlOK, OpType
<1>6. /\ AsPointers(Tree, node.double) = op.roots
      /\ \A u : u # node.double => AsPointers(Tree, u) = AsPointers(blk, u)
  <2>1. Overlaid(blk, Tree, node.double, op.roots)
    BY <1>4, <1>5 DEF Overlaid
  <2> QED BY <2>1, Overlay
<1>7. \A o \in PtrIdx : Child(Tree, node, o) = op.roots[o]
  BY <1>3, <1>6 DEF Child, PtrAt
<1> QED BY <1>1, <1>2, <1>3, <1>4, <1>5, <1>6, <1>7

\* The logical block at which child o begins, and the sites that go with it,
\* or with its last entries.
ChildFirst(o) == DirectBlocks + (o + 1) * PointersPerBlock
ChildCut(i, o) ==
  IF Kept(op.roots[o], ChildFirst(o)) = NoPtrs
  THEN LeafSites(i, o) \union {ChildSite(i, o)}
  ELSE LeafEntries(i, o, Past(ChildFirst(o)))

\* The file as ShrinkChild leaves it.
ChildShrunk(o) ==
  /\ op.roots[o] # Invalid /\ pc' = "children" /\ op'.ino = op.ino
  /\ NextChild(o) /\ op'.cur = o + 1 /\ op'.size = op.size
  /\ UNCHANGED blk \/ \E c : write_block(op.roots[o], c)
  /\ \A p \in PtrIdx :
       BlockMap[LeafSite(op.ino, o, p)] = AsPointers(blk, op.roots[o])[p]
  /\ CutAt(BlockMap, BlockMap', ChildCut(op.ino, o))
  /\ Become([node EXCEPT !.block_count =
                @ - DroppedCount(op.roots[o], ChildFirst(o))])

\* The blocks of one child.
LEMMA LiveShrinkChild ==
  ASSUME TypeInv, LiveInv, ShrinkChild, "truncate" \notin FaultyCalls
  PROVE  LiveInv' /\ pc' # "closed" /\ \E o \in PtrIdx : ChildShrunk(o)
<1> DEFINE i == op.ino
           d == node.double
           f == Map(inodes, Tree)
           first(o) == DirectBlocks + (o + 1) * PointersPerBlock
           less(o) == [node EXCEPT
                        !.block_count = @ - DroppedCount(op.roots[o], first(o))]
           on(o, r) == [op EXCEPT !.cur = o + 1, !.roots[o] = r]
<1>1. pc = "children" /\ TypeInv'
  BY TypeShrinkChild DEF ShrinkChild
<1>2. /\ i \in Ino /\ node = inodes[i] /\ node \in Inode
      /\ IsFile(i) /\ Loose = {} /\ op.call = "truncate"
      /\ BlockMap = f /\ Once(f) /\ DOMAIN f = Site
      /\ d # Invalid /\ d \in DataBlocks
      /\ Tree = [blk EXCEPT ![d] = PtrBlock(op.roots)]
      /\ blk \in [DataBlocks -> Content] /\ op.roots \in [PtrIdx -> Pointer]
      /\ AsPointers(Tree, d) = op.roots
      /\ \A u : u # d => AsPointers(Tree, u) = AsPointers(blk, u)
      /\ \A o \in PtrIdx : Child(Tree, node, o) = op.roots[o]
  BY <1>1, ChildrenKnown
<1>3. ~WriteFails(op.call)
  BY <1>2 DEF WriteFails
<1>4. PICK o \in PtrIdx :
        LET t == op.roots[o]
        IN  /\ NextChild(o)
            /\ \/ ~Readable(bitmap, t)
               \/ /\ Kept(t, first(o)) = NoPtrs
                  /\ free_block(Dropped(t, first(o)) \union {t}, {})
                  /\ Become(less(o)) /\ NoWrite
                  /\ op' = on(o, Invalid) /\ pc' = "children"
               \/ /\ Kept(t, first(o)) # NoPtrs
                  /\ free_block(Dropped(t, first(o)), {}) /\ Become(less(o))
                  /\ write_block(t, PtrBlock(Kept(t, first(o))))
                  /\ op' = on(o, t) /\ pc' = "children"
  BY <1>3 DEF ShrinkChild, Goto
<1> DEFINE t == op.roots[o]
           z == first(o)
           nd == less(o)
           Q == Past(z)
<1>5. t # Invalid
  BY <1>4 DEF NextChild
<1>6. /\ f[ChildSite(i, o)] = t /\ f[DoubleSite(i)] = d
      /\ \A p \in PtrIdx : f[LeafSite(i, o, p)] = PtrAt(Tree, t, p)
      /\ ChildSite(i, o) \in Site /\ DoubleSite(i) \in Site
      /\ \A p \in PtrIdx : LeafSite(i, o, p) \in Site
      /\ ChildSite(i, o) # DoubleSite(i)
  <2>1. /\ f[ChildSite(i, o)] = Child(Tree, inodes[i], o)
        /\ f[DoubleSite(i)] = inodes[i].double
        /\ \A p \in PtrIdx :
             f[LeafSite(i, o, p)] = PtrAt(Tree, Child(Tree, inodes[i], o), p)
    BY <1>2, MapKinds
  <2>2. Child(Tree, inodes[i], o) = t
    BY <1>2
  <2>3. /\ ChildSite(i, o) \in Site /\ DoubleSite(i) \in Site
        /\ \A p \in PtrIdx : LeafSite(i, o, p) \in Site
        /\ ChildSite(i, o) # DoubleSite(i)
    BY <1>2, KindsAreSites, TableKindsApart
  <2> HIDE DEF f, t
  <2> QED BY <1>2, <2>1, <2>2, <2>3
<1>7. Readable(bitmap, t) /\ t \in DataBlocks
  <2>1. \A s \in Site : BlockMap[s] = Invalid \/ Readable(bitmap, BlockMap[s])
    BY <1>1, ShrinkSites
  <2> QED BY <1>2, <1>5, <1>6, <2>1 DEF Readable
<1>8. t # d
  BY <1>2, <1>5, <1>6 DEF Once
<1>9. \A p \in PtrIdx : f[LeafSite(i, o, p)] = AsPointers(blk, t)[p]
  BY <1>2, <1>5, <1>6, <1>8 DEF PtrAt
<1>10. /\ nd.type = node.type /\ nd.double = d /\ SamePointers(node, nd)
  BY <1>2 DEF Inode, SamePointers
<1>11. \A r : /\ on(o, r).ino = op.ino /\ on(o, r).call = op.call
              /\ on(o, r).data = op.data /\ on(o, r).new_root = op.new_root
              /\ on(o, r).new_table = op.new_table
              /\ on(o, r).roots = [op.roots EXCEPT ![o] = r]
              /\ on(o, r).cur = o + 1 /\ on(o, r).size = op.size
  BY TypeParts DEF ControlOK, OpType
<1>12. Q \subseteq PtrIdx
  BY DEF Past
<1>13. \/ /\ Kept(t, z) = NoPtrs
          /\ free_block(Dropped(t, z) \union {t}, {})
          /\ Become(nd) /\ NoWrite
          /\ op' = on(o, Invalid) /\ pc' = "children"
       \/ /\ Kept(t, z) # NoPtrs
          /\ free_block(Dropped(t, z), {}) /\ Become(nd)
          /\ write_block(t, PtrBlock(Kept(t, z)))
          /\ op' = on(o, t) /\ pc' = "children"
  BY <1>4, <1>7
<1> DEFINE Cut2 == ChildCut(i, o)
<1>18. /\ Cut2 = IF Kept(t, z) = NoPtrs
                 THEN LeafSites(i, o) \union {ChildSite(i, o)}
                 ELSE LeafEntries(i, o, Q)
       /\ (/\ t # Invalid /\ pc' = "children" /\ op'.ino = i
           /\ op'.cur = o + 1 /\ op'.size = op.size
           /\ UNCHANGED blk \/ \E c : write_block(t, c)
           /\ \A p \in PtrIdx : f[LeafSite(i, o, p)] = AsPointers(blk, t)[p]
           /\ CutAt(f, BlockMap', Cut2) /\ Become(nd))
          => ChildShrunk(o)
  BY <1>2, <1>4 DEF ChildCut, ChildFirst, ChildShrunk
<1> HIDE DEF f, first, less, on, t, z, nd, Q, i, d, Cut2
<1>14. ASSUME Become(nd), NEW r, op' = on(o, r), pc' = "children", NEW S, NEW X,
              X \subseteq Site, free_block(S, {}), Freed(S, f, X),
              CutAt(f, Map(inodes, Tree'), X), X = Cut2,
              UNCHANGED blk \/ \E c : write_block(t, c)
       PROVE  LiveInv' /\ pc' # "closed" /\ ChildShrunk(o)
  <2>1. /\ NodesOK' /\ inodes'[i] = nd /\ inodes'[i].type = "FILE"
        /\ OthersSame(inodes, inodes', i)
    BY <1>2, <1>10, <1>14, FileGets DEF i
  <2>2. node'.double # Invalid
    BY <1>2, <1>10, <1>11, <1>14, <2>1 DEF node, i
  <2>3. HandlerOK' /\ TablesOK' /\ Loose' = {} /\ pc' # "closed"
    BY <1>1, <1>11, <1>14, <2>1, <2>2, StillShrinking DEF i
  <2>4. Map(inodes', Tree') = Map(inodes, Tree')
    BY <1>2, <1>10, <2>1, SameNodes
  <2>5. BlockMap' = Map(inodes, Tree')
    BY <2>4 DEF BlockMap
  <2>6. MapExact'
    BY <1>2, <1>14, <2>3, <2>5, ExactCut DEF LiveInv
  <2>7. ChildShrunk(o)
    <3>1. CutAt(f, BlockMap', Cut2)
      BY <1>14, <2>4, <2>5
    <3>2. op'.ino = i /\ op'.cur = o + 1 /\ op'.size = op.size
      BY <1>11, <1>14 DEF i
    <3> QED BY <1>5, <1>9, <1>14, <1>18, <3>1, <3>2
  <2> QED BY <2>1, <2>3, <2>6, <2>7 DEF LiveInv
<1>15. ASSUME Become(nd), NEW r, op' = on(o, r), pc' = "children"
       PROVE  /\ op'.roots = [op.roots EXCEPT ![o] = r]
              /\ Tree' = [blk' EXCEPT ![d] = PtrBlock(op'.roots)]
              /\ AsPointers(Tree', d) = op'.roots
              /\ \A u : u # d => AsPointers(Tree', u) = AsPointers(blk', u)
  <2>1. inodes'[i] = nd
    BY <1>2, <1>10, <1>15, FileGets DEF i
  <2>2. node'.double = d
    BY <1>10, <1>11, <1>15, <2>1 DEF node, i
  <2>3. Tree' = [blk' EXCEPT ![d] = PtrBlock(op'.roots)]
    BY <1>15, <2>2 DEF Tree
  <2>4. DOMAIN blk' = DataBlocks
    <3>1. blk' \in [DataBlocks -> Content]
      BY <1>1, TypeParts DEF TypeInv, DataOK
    <3> QED BY <3>1
  <2>5. /\ AsPointers(Tree', d) = op'.roots
        /\ \A u : u # d => AsPointers(Tree', u) = AsPointers(blk', u)
    <3>1. Overlaid(blk', Tree', d, op'.roots)
      BY <1>2, <2>3, <2>4 DEF Overlaid
    <3> QED BY <3>1, Overlay
  <2> QED BY <1>11, <1>15, <2>3, <2>5
<1>16. CASE /\ Kept(t, z) = NoPtrs
            /\ free_block(Dropped(t, z) \union {t}, {})
            /\ Become(nd) /\ NoWrite
            /\ op' = on(o, Invalid) /\ pc' = "children"
  <2> DEFINE X == {ChildSite(i, o)} \union LeafSites(i, o)
  <2>1. blk' = blk
    BY <1>16 DEF NoWrite
  <2>2. CutEntries(Tree, Tree', d, {o})
    <3>1. /\ op'.roots = [op.roots EXCEPT ![o] = Invalid]
          /\ AsPointers(Tree', d) = op'.roots
          /\ \A u : u # d => AsPointers(Tree', u) = AsPointers(blk, u)
      BY <1>15, <1>16, <2>1
    <3>2. \A p \in PtrIdx : op'.roots[p] = IF p \in {o} THEN Invalid ELSE op.roots[p]
      BY <1>2, <3>1
    <3> QED BY <1>2, <3>1, <3>2 DEF CutEntries, OnlyAt
  <2>3. CutAt(f, Map(inodes, Tree'), X)
    BY <1>2, <2>2, CutRootTable DEF f, d
  <2>4. Freed(Dropped(t, z) \union {t}, f, X)
    <3>1. Dropped(t, z) = {AsPointers(blk, t)[p] : p \in PtrIdx} \ {Invalid}
      BY <1>16, DroppedAre
    <3>2. {f[s] : s \in X} = {AsPointers(blk, t)[p] : p \in PtrIdx} \union {t}
      BY <1>6, <1>9 DEF LeafSites
    <3> QED BY <3>1, <3>2 DEF Freed
  <2>5. X \subseteq Site
    BY <1>6 DEF LeafSites
  <2>6. X = Cut2
    BY <1>16, <1>18
  <2> HIDE DEF X
  <2> QED BY <1>14, <1>16, <2>1, <2>6, <2>3, <2>4, <2>5
<1>17. CASE /\ Kept(t, z) # NoPtrs
            /\ free_block(Dropped(t, z), {}) /\ Become(nd)
            /\ write_block(t, PtrBlock(Kept(t, z)))
            /\ op' = on(o, t) /\ pc' = "children"
  <2> DEFINE X == LeafEntries(i, o, Q)
  <2>1. CutEntries(blk, blk', t, Q)
    BY <1>7, <1>17, KeptWritten DEF Q
  <2>2. CutEntries(Tree, Tree', t, Q)
    <3>1. /\ op'.roots = [op.roots EXCEPT ![o] = t]
          /\ AsPointers(Tree', d) = op'.roots
          /\ \A u : u # d => AsPointers(Tree', u) = AsPointers(blk', u)
      BY <1>15, <1>17
    <3>2. op'.roots = op.roots
      BY <1>2, <3>1 DEF t
    <3> QED BY <1>2, <1>8, <2>1, <3>1, <3>2 DEF CutEntries, OnlyAt
  <2>3. CutAt(f, Map(inodes, Tree'), X)
    <3>1. Child(Tree, inodes[i], o) = t
      BY <1>2 DEF t
    <3>2. /\ Once(Map(inodes, Tree)) /\ Child(Tree, inodes[i], o) # Invalid
          /\ CutEntries(Tree, Tree', Child(Tree, inodes[i], o), Q)
      BY <1>2, <1>5, <2>2, <3>1 DEF f
    <3> QED BY <1>2, <1>12, <3>2, CutChildTable DEF f
  <2>4. Freed(Dropped(t, z), f, X)
    <3>1. Dropped(t, z) = {AsPointers(blk, t)[p] : p \in Q} \ {Invalid}
      BY DroppedAre DEF Q
    <3>2. {f[s] : s \in X} = {AsPointers(blk, t)[p] : p \in Q}
      BY <1>9, <1>12 DEF LeafEntries
    <3> QED BY <3>1, <3>2 DEF Freed
  <2>5. X \subseteq Site
    BY <1>6, <1>12 DEF LeafEntries
  <2>6. X = Cut2
    BY <1>17, <1>18
  <2> HIDE DEF X
  <2> QED BY <1>14, <1>17, <2>6, <2>3, <2>4, <2>5
<1> QED BY <1>13, <1>16, <1>17

\* The file as ShrinkRoot leaves it.
RootShrunk ==
  /\ pc' = "resize" /\ UNCHANGED op
  /\ \/ /\ \A o \in PtrIdx : BlockMap[ChildSite(op.ino, o)] = Invalid
        /\ Become([node EXCEPT !.double = Invalid])
        /\ CutAt(BlockMap, BlockMap', {DoubleSite(op.ino)})
     \/ /\ \E o \in PtrIdx : BlockMap[ChildSite(op.ino, o)] # Invalid
        /\ UNCHANGED inodes /\ BlockMap' = BlockMap

\* The root is written, or freed when no child is left.
LEMMA LiveShrinkRoot ==
  ASSUME TypeInv, LiveInv, ShrinkRoot, "truncate" \notin FaultyCalls
  PROVE  LiveInv' /\ pc' # "closed" /\ RootShrunk
<1> DEFINE i == op.ino
           d == node.double
           f == Map(inodes, Tree)
           nd == [node EXCEPT !.double = Invalid]
<1>1. pc = "children"
  BY DEF ShrinkRoot
<1>2. /\ i \in Ino /\ node = inodes[i] /\ node \in Inode
      /\ IsFile(i) /\ Loose = {} /\ op.call = "truncate"
      /\ BlockMap = f /\ Once(f) /\ DOMAIN f = Site
      /\ d # Invalid /\ d \in DataBlocks
      /\ Tree = [blk EXCEPT ![d] = PtrBlock(op.roots)]
      /\ \A u : u # d => AsPointers(Tree, u) = AsPointers(blk, u)
      /\ \A o \in PtrIdx : Child(Tree, node, o) = op.roots[o]
  BY <1>1, ChildrenKnown
<1>3. ~WriteFails(op.call)
  BY <1>2 DEF WriteFails
<1>4. CASE /\ op.roots = NoPtrs /\ free_block({d}, {}) /\ Become(nd)
           /\ NoWrite /\ pc' = "resize" /\ UNCHANGED op
  <2> DEFINE g == Map(inodes, blk)
             h == Map(inodes', blk)
             X == {DoubleSite(i)}
  <2>1. /\ nd.type = node.type /\ nd.direct = node.direct
        /\ nd.indirect = node.indirect /\ nd.double = Invalid
    BY <1>2 DEF Inode
  <2>2. Become(nd)
    BY <1>4
  <2> HIDE DEF nd
  <2>3. /\ NodesOK' /\ inodes'[i] = nd /\ inodes'[i].type = "FILE"
        /\ OthersSame(inodes, inodes', i)
    BY <1>2, <2>1, <2>2, FileGets
  <2>4. HandlerOK' /\ TablesOK' /\ Loose' = {} /\ pc' # "closed"
    BY <1>1, <1>4, <2>3, StillShrinking
  <2>5. AgreeBut(f, g, EntrySites(i, PtrIdx))
    <3>1. OnlyAt(Tree, blk, d) /\ SameEntriesBut(Tree, blk, d, PtrIdx)
      BY <1>2 DEF OnlyAt, SameEntriesBut
    <3> QED BY <1>2, <3>1, WriteRoot
  <2>6. AgreeBut(g, h, RootSites(i))
    BY <1>2, <2>1, <2>3, PutDouble
  <2>7. /\ f[DoubleSite(i)] = d /\ h[DoubleSite(i)] = Invalid
        /\ \A o \in PtrIdx : f[ChildSite(i, o)] = Invalid
        /\ \A o, p \in PtrIdx : f[LeafSite(i, o, p)] = Invalid
    <3>1. \A o \in PtrIdx : Child(Tree, node, o) = Invalid
      BY <1>2, <1>4 DEF NoPtrs
    <3>2. \A o \in PtrIdx, p \in PtrIdx :
            f[LeafSite(i, o, p)] = PtrAt(Tree, Child(Tree, inodes[i], o), p)
      BY <1>2, MapKinds
    <3>3. /\ f[DoubleSite(i)] = d
          /\ \A o \in PtrIdx : f[ChildSite(i, o)] = Child(Tree, inodes[i], o)
      BY <1>2, MapKinds
    <3>4. h[DoubleSite(i)] = Invalid
      BY <1>2, <2>1, <2>3, MapKinds
    <3> QED BY <1>2, <3>1, <3>2, <3>3, <3>4 DEF PtrAt
  <2>8. /\ \A o \in PtrIdx : h[ChildSite(i, o)] = Invalid
        /\ \A o, p \in PtrIdx : h[LeafSite(i, o, p)] = Invalid
    <3>1. \A o \in PtrIdx : Child(blk, inodes'[i], o) = Invalid
      BY <2>1, <2>3 DEF Child, PtrAt
    <3>2. /\ \A o \in PtrIdx : h[ChildSite(i, o)] = Child(blk, inodes'[i], o)
          /\ \A o \in PtrIdx, p \in PtrIdx :
               h[LeafSite(i, o, p)] = PtrAt(blk, Child(blk, inodes'[i], o), p)
      BY <1>2, MapKinds
    <3> QED BY <3>1, <3>2 DEF PtrAt
  <2> HIDE DEF f, g, h
  <2>9. CutAt(f, h, X)
    <3>1. ASSUME NEW s \in Site, s # DoubleSite(i) PROVE h[s] = f[s]
      <4>1. CASE s \in EntrySites(i, PtrIdx)
        BY <2>7, <2>8, <4>1 DEF EntrySites, LeafSites
      <4>2. CASE s \notin EntrySites(i, PtrIdx)
        BY <2>5, <2>6, <3>1, <4>2 DEF AgreeBut, EntrySites, RootSites
      <4> QED BY <4>1, <4>2
    <3> QED BY <2>7, <3>1 DEF CutAt
  <2>10. Freed({d}, f, X)
    BY <2>7 DEF Freed
  <2>11. X \subseteq Site
    BY <1>2, KindsAreSites
  <2>12. BlockMap' = h
    BY <1>4, TreeIs DEF NoWrite, h
  <2> HIDE DEF X
  <2>13. MapExact'
    BY <1>2, <1>4, <2>4, <2>9, <2>10, <2>11, <2>12, ExactCut DEF LiveInv
  <2>14. RootShrunk
    <3>1. CutAt(BlockMap, BlockMap', {DoubleSite(op.ino)})
      BY <1>2, <2>9, <2>12 DEF X
    <3>2. \A o \in PtrIdx : BlockMap[ChildSite(op.ino, o)] = Invalid
      BY <1>2, <2>7
    <3> QED BY <1>4, <3>1, <3>2 DEF RootShrunk, nd
  <2> QED BY <2>3, <2>4, <2>13, <2>14 DEF LiveInv
<1>5. CASE /\ op.roots # NoPtrs
           /\ UNCHANGED <<alloc, inodes>> /\ write_block(d, PtrBlock(op.roots))
           /\ pc' = "resize" /\ UNCHANGED op
  <2>1. blk' = Tree
    BY <1>2, <1>5 DEF write_block
  <2>2. BlockMap' = BlockMap /\ Named' = Named
    BY <1>2, <1>5, <2>1, TreeIs
  <2>3. HandlerOK' /\ TablesOK' /\ Loose' = {} /\ pc' # "closed"
    BY <1>1, <1>2, <1>5, StillShrinking DEF IsFile
  <2>4. MapExact'
    BY <1>2, <1>5, <2>2, <2>3, ExactSame DEF LiveInv, MapExact, alloc
  <2>5. RootShrunk
    <3>1. \A o \in PtrIdx : f[ChildSite(i, o)] = op.roots[o]
      <4>1. \A o \in PtrIdx : f[ChildSite(i, o)] = Child(Tree, inodes[i], o)
        BY <1>2, MapKinds
      <4> HIDE DEF f
      <4> QED BY <1>2, <4>1
    <3>2. op.roots \in [PtrIdx -> Pointer]
      BY TypeParts DEF ControlOK, OpType
    <3>3. PICK o \in PtrIdx : op.roots[o] # Invalid
      BY <1>5, <3>2 DEF NoPtrs
    <3>4. BlockMap[ChildSite(op.ino, o)] # Invalid
      BY <1>2, <3>1, <3>3
    <3> HIDE DEF f, i, d, nd
    <3> QED BY <1>5, <2>2, <3>4 DEF RootShrunk
  <2> QED BY <1>5, <2>3, <2>4, <2>5, NodesKept DEF LiveInv
<1> QED BY <1>3, <1>4, <1>5 DEF ShrinkRoot, Goto

-----------------------------------------------------------------------------
(***************************************************************************)
(* The invariant as a whole.                                               *)
(***************************************************************************)

\* An image that the loader accepts is exact: it compares the number of
\* references with the number of blocks they name and of those marked.
LEMMA LiveOpen ==
  ASSUME TypeInv, AllocInv, denyfs_vol_open
  PROVE  AllocInv'
<1>1. pc = "closed" /\ op = NoOp /\ op' = NoOp /\ blk' = blk
  BY DEF denyfs_vol_open, AllocInv, disk
<1>2. CASE pc' = "closed"
  BY <1>1, <1>2 DEF AllocInv
<1>3. CASE pc' = "idle"
  <2>1. /\ ValidImage(dsb, dbitmap, dinodes, blk)
        /\ freeBlocks' = dsb.free_blocks /\ bitmap' = dbitmap /\ inodes' = dinodes
    BY <1>1, <1>3 DEF denyfs_vol_open
  <2>2. /\ RootValid(inodes') /\ InodesValid(inodes')
        /\ Claimed(inodes', blk) \subseteq bitmap' \intersect DataBlocks
        /\ Cardinality(Claimed(inodes', blk)) = Cardinality(Refs(inodes', blk))
        /\ MetaBlocks \subseteq bitmap'
        /\ Cardinality(bitmap' \intersect DataBlocks)
             = Cardinality(Refs(inodes', blk))
        /\ freeBlocks' = Cardinality(DataBlocks \ bitmap')
    BY <2>1 DEF ValidImage, Consistent, ClaimsValid, AccountingValid
  <2>3. BlockMap' = Map(inodes', blk) /\ Named' = Claimed(inodes', blk)
    <3>1. BlockMap' = Map(inodes', blk)
      BY <1>1, <1>3, TreeIs
    <3> QED BY <3>1, ClaimedIs DEF Named
  <2>4. Once(BlockMap')
    BY <2>2, <2>3, RefsCount
  <2>5. Named' = bitmap' \intersect DataBlocks
    <3>1. IsFiniteSet(bitmap' \intersect DataBlocks)
      BY DataArea, FS_Subset
    <3>2. Cardinality(Named') = Cardinality(bitmap' \intersect DataBlocks)
      BY <2>2, <2>3
    <3>3. Named' \in SUBSET (bitmap' \intersect DataBlocks)
      BY <2>2, <2>3
    <3> DEFINE S == bitmap' \intersect DataBlocks
               T == Named'
    <3> HIDE DEF S, T
    <3>4. IsFiniteSet(S) /\ T \in SUBSET S /\ Cardinality(S) = Cardinality(T)
      BY <3>1, <3>2, <3>3 DEF S, T
    <3>5. S = T
      BY <3>4, FS_Subset
    <3> QED BY <3>5 DEF S, T
  <2>6. Loose' = {}
    BY <1>3 DEF Loose, InTable
  <2>7. MapExact'
    BY <2>2, <2>4, <2>5, <2>6 DEF MapExact
  <2>8. NodesOK'
    <3>1. /\ inodes'[0].type = "DIR" /\ inodes'[0].block_count \in 1 .. DirectBlocks
          /\ \A k \in DirectIdx :
               (k < inodes'[0].block_count) <=> (inodes'[0].direct[k] # Invalid)
      BY <2>2 DEF RootValid
    <3>2. \A k \in DirectIdx : k >= inodes'[0].block_count =>
            inodes'[0].direct[k] = Invalid
      BY <3>1, SizesAssumption DEF DirectIdx
    <3>3. \A i \in FileIno : inodes'[i].type = "FREE" => NoBlocks(inodes'[i])
      BY <2>2 DEF InodesValid, EmptyInode, NoBlocks
    <3>4. inodes'[0].block_count \in 0 .. DirectBlocks
      BY <3>1, SizesAssumption
    <3> QED BY <3>1, <3>2, <3>3, <3>4 DEF NodesOK
  <2>9. HandlerOK' /\ TablesOK'
    BY <1>1, <1>3 DEF NoOp, HandlerOK, TablesOK, InTable
  <2> QED BY <1>3, <2>7, <2>8, <2>9 DEF AllocInv, LiveInv
<1> QED BY <1>1, <1>2, <1>3 DEF denyfs_vol_open

\* An unmounted volume is at rest, also after a crash.
LEMMA LiveClosed ==
  ASSUME \/ Crash
         \/ (FlushBlock \/ FlushFails \/ FlushDone) /\ pc' = "closed"
  PROVE  pc' = "closed" /\ op' = NoOp
BY DEF Crash, FlushBlock, FlushFails, FlushDone, FlushEnds, denyfs_vol_close,
       Return

\* Every step keeps the bitmap exact, as long as truncate can write tables.
LEMMA AllocStep ==
  ASSUME TypeInv, InTables, AllocInv, [Next]_vars, "truncate" \notin FaultyCalls
  PROVE  AllocInv'
<1>1. ASSUME LiveInv' /\ pc' # "closed" PROVE AllocInv'
  BY <1>1 DEF AllocInv
<1>2. pc # "closed" => LiveInv
  BY DEF AllocInv
<1>3. CASE denyfs_vol_open
  BY <1>3, LiveOpen
<1>4. CASE Call
  <2>1. pc # "closed"
    BY <1>4 DEF Call, denyfs_vol_create, denyfs_vol_unlink, denyfs_vol_write,
         denyfs_vol_truncate, denyfs_fuse_destroy
  <2>2. CASE denyfs_fuse_destroy
    <3>1. pc' # "closed"
      BY <2>2 DEF denyfs_fuse_destroy, StartFlush
    <3> QED BY <1>1, <1>2, <2>1, <2>2, <3>1, LiveFlush
  <2>3. ASSUME NEW n \in Names,
               \/ denyfs_vol_create(n)
               \/ denyfs_vol_unlink(n)
               \/ \E off \in Offsets, buf \in Payloads : denyfs_vol_write(n, off, buf)
               \/ \E size \in TruncSizes : denyfs_vol_truncate(n, size)
        PROVE  AllocInv'
    BY <1>1, <1>2, <2>1, <2>3, LiveCreate, LiveUnlink, LiveStartWrite,
       LiveStartTruncate
  <2> QED BY <1>4, <2>2, <2>3 DEF Call
<1>5. CASE \/ WriteMapped \/ AllocateData \/ FindRoot \/ FindTable
           \/ WriteLeaf \/ LinkChild \/ PutChunk \/ WriteDone
           \/ ShrinkDirect \/ ReadRoots \/ ShrinkChild \/ ShrinkRoot \/ Resize
  <2>1. pc # "closed"
    BY <1>5 DEF WriteMapped, AllocateData, FindRoot, FindTable, WriteLeaf,
         LinkChild, PutChunk, WriteDone, ShrinkDirect, ReadRoots, ShrinkChild,
         ShrinkRoot, Resize
  <2>2. LiveInv
    BY <1>2, <2>1
  <2>3. LiveInv' /\ pc' # "closed"
    BY <1>5, <2>2, LiveMapped, LiveAllocateData, LiveFindRoot, LiveFindTable,
       LiveWriteLeaf, LiveLinkChild, LivePut, LiveDone, LiveShrinkDirect,
       LiveReadRoots, LiveShrinkChild, LiveShrinkRoot
  <2> QED BY <1>1, <2>3
<1>6. CASE FlushBlock \/ FlushFails \/ FlushDone
  <2>1. pc # "closed"
    BY <1>6 DEF FlushBlock, FlushFails, FlushDone
  <2>2. CASE pc' = "closed"
    BY <1>6, <2>2, LiveClosed DEF AllocInv
  <2>3. CASE pc' # "closed"
    BY <1>1, <1>2, <1>6, <2>1, <2>3, LiveFlush
  <2> QED BY <2>2, <2>3
<1>7. CASE Crash
  BY <1>7, LiveClosed DEF AllocInv
<1>8. CASE UNCHANGED vars
  <2>1. /\ blk' = blk /\ freeBlocks' = freeBlocks /\ bitmap' = bitmap
        /\ inodes' = inodes /\ pc' = pc /\ op' = op
    BY <1>8 DEF vars
  <2>2. /\ node' = node /\ BlkIdx' = BlkIdx /\ InTable' = InTable /\ Held' = Held
        /\ Tree' = Tree
    BY <2>1 DEF node, BlkIdx, Pos, InTable, Held, Tree
  <2>3. MapExact' = MapExact
    BY <2>1, <2>2 DEF MapExact, Named, BlockMap, Loose
  <2>4. NodesOK' = NodesOK
    BY <2>1 DEF NodesOK
  <2>5. HandlerOK' = HandlerOK
    BY <2>1, <2>2 DEF HandlerOK, IsFile, Named, BlockMap
  <2>6. TablesOK' = TablesOK
    BY <2>1, <2>2 DEF TablesOK, RootFound, SlotFree, NewTableApart, EmptyTable
  <2> QED BY <2>1, <2>3, <2>4, <2>5, <2>6 DEF AllocInv, LiveInv
<1> QED BY <1>3, <1>4, <1>5, <1>6, <1>7, <1>8 DEF Next, Step

\* What the invariant says of the blocks claimed.
LEMMA ExactlyAllocated == TypeInv /\ AllocInv => AllocationExact
<1> SUFFICES ASSUME TypeInv, LiveInv, pc \notin {"closed", "children"}
             PROVE  /\ MetaBlocks \subseteq bitmap
                    /\ Claimed(inodes, blk) \union (Held \ {Invalid})
                         = bitmap \intersect DataBlocks
                    /\ pc \in {"root", "table", "leaf", "link"} =>
                         Claimed(inodes, blk) \intersect Held = {}
                    /\ Cardinality(Claimed(inodes, blk))
                         = Cardinality(Refs(inodes, blk))
                    /\ freeBlocks = Cardinality(DataBlocks \ bitmap)
  BY DEF AllocInv, AllocationExact
<1>1. BlockMap = Map(inodes, blk)
  BY TreeIs
<1>2. Claimed(inodes, blk) = Named
  BY <1>1, ClaimedIs DEF Named
<1>3. Cardinality(Claimed(inodes, blk)) = Cardinality(Refs(inodes, blk))
  BY <1>1, RefsCount DEF LiveInv, MapExact
<1>4. /\ Named \union Loose = bitmap \intersect DataBlocks
      /\ Named \intersect Loose = {} /\ Invalid \notin DataBlocks
  BY DataArea DEF LiveInv, MapExact
<1>5. CASE InTable
  <2>1. Loose = Held
    BY <1>5 DEF Loose
  <2>2. Held \ {Invalid} = Held
    BY <1>4, <2>1
  <2> QED BY <1>2, <1>3, <1>4, <2>1, <2>2 DEF LiveInv, MapExact
<1>6. CASE ~InTable
  <2>1. Loose = {}
    BY <1>6 DEF Loose
  <2>2. Held \ {Invalid} \subseteq Named
    <3>1. CASE pc = "put"
      BY <3>1 DEF LiveInv, HandlerOK
    <3>2. CASE pc # "put"
      <4>1. op.data = Invalid /\ ~op.new_root /\ ~op.new_table
        BY <1>6, <3>2, TypeParts DEF LiveInv, HandlerOK, InTable, ControlOK, PCs
      <4> QED BY <4>1 DEF Held
    <3> QED BY <3>1, <3>2
  <2> QED BY <1>2, <1>3, <1>4, <1>6, <2>1, <2>2 DEF LiveInv, MapExact, InTable
<1> QED BY <1>5, <1>6

\* The bitmap, free_blocks and the pointers of all inodes and tables stay in
\* step: what alloc_block, free_block and the ENOSPC and EIO paths of
\* allocate_file_data_block, create_file, unlink and truncate do leaks no
\* block, gives none to two owners and never lets free_blocks wrap.  Every
\* size of volume, every sequence of calls, crashes at any point and block
\* writes that fail in any call but truncate are covered.
THEOREM AllocationIsExact ==
  ASSUME "truncate" \notin FaultyCalls
  PROVE  Spec => []AllocationExact
<1>1. Init => TypeInv /\ InTables /\ AllocInv
  BY TypeInit DEF Init, InTables, AllocInv
<1>2. TypeInv /\ InTables /\ AllocInv /\ [Next]_vars
        => (TypeInv /\ InTables /\ AllocInv)'
  BY TypeStep, TablesStep, AllocStep
<1>3. TypeInv /\ AllocInv => AllocationExact
  BY ExactlyAllocated
<1> QED BY <1>1, <1>2, <1>3, PTL DEF Spec

=============================================================================
