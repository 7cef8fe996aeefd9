-------------------------- MODULE ContainerProofs ---------------------------
(***************************************************************************)
(* Theorems about Container for every size of container and hidden volume, *)
(* any number of processes that interleave, fail and die at any step, and  *)
(* any set of passphrases: the two volumes of a container stay apart, and  *)
(* a passphrase opens only the volume it was chosen for.  For one process  *)
(* at a time: a volume reported as created opens.                          *)
(***************************************************************************)
EXTENDS Container, FiniteSetTheorems, TLAPS

-----------------------------------------------------------------------------
(***************************************************************************)
(* The inductive invariant.  Its parts are predicates of a process x, of   *)
(* the sectors im and length l of the file, of whether the file is there   *)
(* (e) and of the next key k.                                              *)
(***************************************************************************)

\* A create that may still remove the file: the last block of the format is
\* not written.
Young(x) ==
  /\ x.cmd = "create"
  /\ \/ x.pc \in {"fill", "header"}
     \/ x.pc = "format" /\ x.cur <= DataStart(x.vol.size)

\* A process that relies on a finished container: it has a volume open, has
\* found a hidden one, or is creating one.
Settled(x) ==
  \/ x.pc = "mounted"
  \/ x.pc = "load" /\ x.vol.hidden
  \/ x.cmd = "hidden" /\ x.pc \in {"header", "format"}

HasOuter(im) == 0 \in Sector /\ im[0].kind = "header"

\* v is the outer volume of the file.
IsOuter(v, im) ==
  /\ HasOuter(im) /\ ~v.hidden /\ v.start = 1
  /\ v.key = im[0].key /\ v.size = im[0].size

\* v was read from an outer header: that of the file, or of a container that
\* was removed since, whose key is older.
WasOuter(v, im) ==
  /\ ~v.hidden /\ v.start = 1
  /\ HasOuter(im) => /\ v.key <= im[0].key
                     /\ v.key = im[0].key => v.size = im[0].size

\* v is a hidden volume of the file, the present one or one replaced since:
\* it lies between the outer volume and the hidden header.
IsHidden(v, im, l) ==
  /\ HasOuter(im) /\ v.hidden /\ v.size > 0
  /\ v.key > im[0].key
  /\ v.start + v.size = l - HeaderGap
  /\ v.start > im[0].size

\* Which commands are where, and with which arguments.
CommandOK(x, e) ==
  /\ x.pc # "format" => x.cur = 0
  /\ x.pc = "idle" => x.cmd = "none"
  /\ x.pc = "fill" => x.cmd = "create"
  /\ x.pc \in {"header", "format"} => x.cmd \in {"create", "hidden"}
  /\ x.pc \in {"read", "load"} => x.cmd \notin {"none", "create"}
  /\ x.pc = "mounted" => x.cmd \in {"mount", "protect"}
  /\ x.cmd = "create" => /\ e /\ x.pw \in Passwords
                         /\ x.size > 0 /\ x.size <= Capacity
  /\ x.cmd = "hidden" => x.hpw \in Passwords /\ x.size > 0

\* The volume a process formats, found or has open is one of the file's.
VolumeOK(x, im, l, k) ==
  /\ x.pc \in {"header", "format", "load", "mounted"} => x.vol.key < k
  /\ x.cmd = "create" /\ x.pc = "header" => x.vol.start = 1 /\ ~x.vol.hidden
  /\ x.cmd = "create" /\ x.pc = "format" =>
       /\ IsOuter(x.vol, im)
       /\ DataStart(x.vol.size) >= x.vol.size => x.cur = 0
  /\ x.cmd = "hidden" /\ x.pc \in {"header", "format"} => IsHidden(x.vol, im, l)
  /\ x.pc = "load" => IsHidden(x.vol, im, l) \/ WasOuter(x.vol, im)
  /\ x.pc = "mounted" => IsHidden(x.vol, im, l) \/ IsOuter(x.vol, im)
  /\ x.pc \in {"load", "mounted"} /\ x.vol.protect =>
       ~x.vol.hidden /\ x.vol.lo > x.vol.size

\* Two processes: one create at a time, no process relies on a container
\* that may still be removed, and the key of a header still to be written is
\* no other process's.
Compatible(x, y) ==
  /\ ~(x.cmd = "create" /\ y.cmd = "create")
  /\ ~(Young(x) /\ Settled(y))
  /\ x.cmd = "create" /\ x.pc = "header" /\ y.pc = "load" =>
       y.vol.key < x.vol.key
  /\ x.pc = "header" /\ y.pc \in {"header", "load", "mounted"} =>
       y.vol.key # x.vol.key

Blank(im) == \A s \in Sector : im[s].kind \in {"none", "random"}

\* Nothing but the outer header and blocks in the first n sectors after it.
Bare(im, n) ==
  \A s \in Sector : /\ im[s].kind = "header" => s = 0
                    /\ im[s].kind = "block" => s <= n

\* What the file may hold while x is where it is: a young container holds
\* what its create wrote, no header has the key of one still to be written,
\* and the header of a volume found with a passphrase is sealed under it.
ContentsOK(x, im) ==
  /\ x.pc = "header" =>
       \A s \in Sector : im[s].kind = "header" => im[s].key # x.vol.key
  /\ x.cmd = "create" /\ x.pc \in {"fill", "header"} => Blank(im)
  /\ Young(x) /\ x.pc = "format" => Bare(im, x.cur)
  /\ x.pc \in {"load", "mounted"} =>
       \A s \in Sector : im[s].kind = "header" /\ im[s].key = x.vol.key =>
         im[s].hkey = HeaderKey(x.pw, im[s].salt, TRUE)

\* A header is sealed under a key that was derived; one that is not the outer
\* header is where the hidden header belongs, and is of a younger volume that
\* lies between the outer one and itself.
HeaderOK(s, im, l, k) ==
  im[s].kind = "header" =>
    /\ im[s].key < k /\ im[s].salt = im[s].key
    /\ \E pw \in Passwords : im[s].hkey = HeaderKey(pw, im[s].key, TRUE)
    /\ s # 0 => /\ HasOuter(im) /\ im[s].key > im[0].key
                /\ s = l - HeaderGap /\ im[s].size > 0
                /\ s - im[s].size > im[0].size

\* A block is the outer volume's and in its place, or of a younger volume and
\* past the outer volume's end.
BlockOK(s, im) ==
  im[s].kind = "block" =>
    /\ HasOuter(im)
    /\ \/ /\ im[s].key = im[0].key
          /\ s = im[s].n + 1 /\ s <= im[0].size
       \/ im[s].key > im[0].key /\ s > im[0].size

FileOK(im, l, e, k) ==
  /\ ~e => \A s \in Sector : im[s] = None
  /\ \A s \in Sector : HeaderOK(s, im, l, k) /\ BlockOK(s, im)

Commands == \A p \in Procs : CommandOK(proc[p], exists)
VolumesOfFile == \A p \in Procs : VolumeOK(proc[p], img, len, nextKey)
Pairs    == \A p, q \in Procs : p # q => Compatible(proc[p], proc[q])
Views    == \A p \in Procs : ContentsOK(proc[p], img)

ApartInv == /\ Commands /\ VolumesOfFile /\ Pairs /\ Views
            /\ FileOK(img, len, exists, nextKey)

Inv == ContainerTypeOK /\ ApartInv

-----------------------------------------------------------------------------
(***************************************************************************)
(* Arithmetic and processes.                                               *)
(***************************************************************************)

\* A container or hidden volume has a positive number of sectors.
LEMMA SizesPositive ==
  ASSUME NEW mb \in Nat \ {0}
  PROVE  mb * SectorsPerMB \in Nat \ {0}
<1>1. SectorsPerMB \in Nat \ {0}
  BY ContainerAssumption
<1> QED BY <1>1

\* A volume has at least one block before its data area.
LEMMA DataStartNat ==
  ASSUME NEW n \in Nat
  PROVE  DataStart(n) \in Nat
<1>1. BitsPerSector \in Nat \ {0} /\ InodeBlocks \in Nat
  BY ContainerAssumption
<1>2. (n + BitsPerSector - 1) \div BitsPerSector \in Nat
  BY <1>1
<1> QED BY <1>1, <1>2 DEF DataStart

\* A process that is not running, or has read nothing yet, is compatible with
\* every other and with every file.
Quiet(x) == x.pc \in {"idle", "read"} /\ x.cmd # "create"

LEMMA QuietOK ==
  ASSUME NEW x, Quiet(x), NEW y, NEW im, NEW l, NEW k
  PROVE  /\ VolumeOK(x, im, l, k) /\ ContentsOK(x, im)
         /\ Compatible(x, y) /\ Compatible(y, x)
  BY DEF Quiet, VolumeOK, ContentsOK, Compatible, Young, Settled

\* The end of a command leaves such a process.
LEMMA IdleQuiet ==
  ASSUME NEW r, NEW e
  PROVE  Quiet(Idle(r)) /\ CommandOK(Idle(r), e)
  BY DEF Quiet, CommandOK, Idle

\* Keys are only added.
LEMMA MoreKeys ==
  ASSUME NEW im \in [Sector -> Content], NEW l, NEW k \in Nat, NEW m \in Nat, k <= m
  PROVE  /\ \A x \in Process : VolumeOK(x, im, l, k) => VolumeOK(x, im, l, m)
         /\ \A e : FileOK(im, l, e, k) => FileOK(im, l, e, m)
<1>1. ASSUME NEW x \in Process, VolumeOK(x, im, l, k) PROVE VolumeOK(x, im, l, m)
  <2>1. x.vol.key \in Nat
    BY DEF Process, Volume, Keys
  <2> QED BY <1>1, <2>1 DEF VolumeOK
<1>2. ASSUME NEW s \in Sector, HeaderOK(s, im, l, k) PROVE HeaderOK(s, im, l, m)
  <2>1. im[s].kind = "header" => im[s].key \in Nat
    BY DEF Content, None, Random, Keys
  <2>2. im[s].kind = "header" /\ im[s].key < k => im[s].key < m
    BY <2>1
  <2> QED BY <1>2, <2>2, Zenon DEF HeaderOK
<1> QED BY <1>1, <1>2 DEF FileOK

\* The invariant after a step of process p, part by part.
LEMMA StepOf ==
  ASSUME NEW p \in Procs, NEW x, proc \in [Procs -> Process],
         proc' = [proc EXCEPT ![p] = x],
         CommandOK(x, exists'), VolumeOK(x, img', len', nextKey'),
         ContentsOK(x, img'),
         \A q \in Procs \ {p} :
           /\ CommandOK(proc[q], exists')
           /\ VolumeOK(proc[q], img', len', nextKey')
           /\ ContentsOK(proc[q], img')
           /\ Compatible(x, proc[q]) /\ Compatible(proc[q], x),
         Pairs, FileOK(img', len', exists', nextKey')
  PROVE  ApartInv'
<1>1. \A q \in Procs : proc'[q] = IF q = p THEN x ELSE proc[q]
  OBVIOUS
<1>2. Commands' /\ VolumesOfFile' /\ Views'
  BY <1>1 DEF Commands, VolumesOfFile, Views
<1>3. Pairs'
  BY <1>1 DEF Pairs
<1> QED BY <1>2, <1>3 DEF ApartInv

-----------------------------------------------------------------------------
(***************************************************************************)
(* Steps that leave the file alone.                                        *)
(***************************************************************************)

\* A command ends, or one starts that only reads at first.
LEMMA QuietStep ==
  ASSUME Inv, NEW p \in Procs, NEW x, Becomes(p, x), Quiet(x),
         CommandOK(x, exists), UNCHANGED file, nextKey' = nextKey
  PROVE  ApartInv'
<1>1. /\ VolumeOK(x, img, len, nextKey) /\ ContentsOK(x, img)
      /\ \A q \in Procs : Compatible(x, proc[q]) /\ Compatible(proc[q], x)
  BY QuietOK
<1>2. img' = img /\ len' = len /\ exists' = exists
  BY DEF file
<1>3. \A q \in Procs \ {p} :
        /\ CommandOK(proc[q], exists) /\ VolumeOK(proc[q], img, len, nextKey)
        /\ ContentsOK(proc[q], img)
  BY DEF Inv, ApartInv, Commands, VolumesOfFile, Views
<1>4. Pairs /\ FileOK(img, len, exists, nextKey) /\ proc \in [Procs -> Process]
  BY DEF Inv, ApartInv, ContainerTypeOK
<1> QED BY <1>1, <1>2, <1>3, <1>4, StepOf DEF Becomes

\* A command ends without having changed the file.
LEMMA EndStep ==
  ASSUME Inv, NEW p \in Procs, NEW r, Ends(p, r), UNCHANGED file,
         nextKey' = nextKey
  PROVE  ApartInv'
  BY IdleQuiet, QuietStep DEF Ends

\* What every sector and process contributes, unfolded once.
LEMMA Unfolded ==
  ASSUME Inv
  PROVE  /\ img \in [Sector -> Content] /\ len \in 0 .. Capacity
         /\ exists \in BOOLEAN /\ proc \in [Procs -> Process]
         /\ nextKey \in Nat /\ Capacity \in Nat /\ HeaderGap \in Nat \ {0}
         /\ FileOK(img, len, exists, nextKey) /\ Pairs
         /\ \A q \in Procs : /\ CommandOK(proc[q], exists)
                             /\ VolumeOK(proc[q], img, len, nextKey)
                             /\ ContentsOK(proc[q], img)
  BY ContainerAssumption
     DEF Inv, ApartInv, ContainerTypeOK, Commands, VolumesOfFile, Views, Keys

\* The fields of a process, its volume and of a sector.
LEMMA Fields ==
  /\ \A x \in Process :
       /\ x.size \in Nat /\ x.cur \in Nat /\ x.vol \in Volume
       /\ x.vol.start \in Nat /\ x.vol.size \in Nat /\ x.vol.key \in Nat
       /\ x.vol.hidden \in BOOLEAN /\ x.vol.protect \in BOOLEAN
       /\ x.vol.lo \in Nat /\ x.vol.hi \in Nat
  /\ \A c \in Content :
       /\ c.kind \in {"none", "random", "header", "block"}
       /\ c.kind = "header" => c.size \in Nat /\ c.key \in Nat /\ c.salt \in Nat
       /\ c.kind = "block" => c.key \in Nat /\ c.n \in Nat
<1>1. ASSUME NEW x \in Process
      PROVE  /\ x.size \in Nat /\ x.cur \in Nat /\ x.vol \in Volume
             /\ x.vol.start \in Nat /\ x.vol.size \in Nat /\ x.vol.key \in Nat
             /\ x.vol.hidden \in BOOLEAN /\ x.vol.protect \in BOOLEAN
             /\ x.vol.lo \in Nat /\ x.vol.hi \in Nat
  BY DEF Process, Volume, Keys
<1>2. ASSUME NEW c \in Content
      PROVE  /\ c.kind \in {"none", "random", "header", "block"}
             /\ c.kind = "header" => c.size \in Nat /\ c.key \in Nat /\ c.salt \in Nat
             /\ c.kind = "block" => c.key \in Nat /\ c.n \in Nat
  BY DEF Content, None, Random, Keys
<1> QED BY <1>1, <1>2

-----------------------------------------------------------------------------
(***************************************************************************)
(* A container that is being created.                                      *)
(***************************************************************************)

\* While one is young no other process relies on the file.
LEMMA YoungAlone ==
  ASSUME Inv, NEW p \in Procs, Young(proc[p]), NEW q \in Procs \ {p}
  PROVE  ~Settled(proc[q]) /\ proc[q].cmd # "create"
  BY DEF Inv, ApartInv, Pairs, Compatible, Young

\* There is room for its header.
LEMMA YoungHasSectors ==
  ASSUME Inv, NEW p \in Procs, proc[p].cmd = "create"
  PROVE  0 \in Sector
<1>1. proc[p].size > 0 /\ proc[p].size <= Capacity /\ proc[p].size \in Nat
  BY Unfolded, Fields DEF CommandOK
<1> QED BY <1>1, Unfolded DEF Sector

\* A process that is not settled and not creating keeps its view when the
\* file becomes one without headers.
LEMMA BlankViews ==
  ASSUME NEW x, ~Settled(x), x.cmd # "create", NEW im, Blank(im),
         NEW im0, NEW l0, NEW l, NEW k, CommandOK(x, TRUE),
         VolumeOK(x, im0, l0, k)
  PROVE  VolumeOK(x, im, l, k) /\ ContentsOK(x, im)
<1>1. ~HasOuter(im)
  BY DEF Blank, HasOuter
<1>2. x.pc = "load" => WasOuter(x.vol, im)
  BY <1>1 DEF VolumeOK, Settled, IsHidden, WasOuter
<1>3. VolumeOK(x, im, l, k)
  BY <1>2 DEF VolumeOK, Settled
<1>4. ContentsOK(x, im)
  BY DEF ContentsOK, Blank, Young, Settled
<1> QED BY <1>3, <1>4

\* A file without headers and blocks is in order.
LEMMA BlankFile ==
  ASSUME NEW im, Blank(im), NEW l, NEW e, NEW k,
         ~e => \A s \in Sector : im[s] = None
  PROVE  FileOK(im, l, e, k)
  BY DEF FileOK, HeaderOK, BlockOK, Blank

\* A create that fails removes the file while nobody relies on it.
LEMMA RemoveStep ==
  ASSUME Inv, NEW p \in Procs, Young(proc[p]), Unlink, NEW r, Ends(p, r),
         nextKey' = nextKey
  PROVE  ApartInv'
<1>1. Blank(img') /\ \A s \in Sector : img'[s] = None
  BY DEF Unlink, Blank, None
<1>2. FileOK(img', len', exists', nextKey')
  BY <1>1, BlankFile
<1>3. /\ CommandOK(Idle(r), exists') /\ VolumeOK(Idle(r), img', len', nextKey')
      /\ ContentsOK(Idle(r), img')
      /\ \A q \in Procs : Compatible(Idle(r), proc[q]) /\ Compatible(proc[q], Idle(r))
  BY IdleQuiet, QuietOK
<1>4. ASSUME NEW q \in Procs \ {p}
      PROVE  /\ CommandOK(proc[q], exists')
             /\ VolumeOK(proc[q], img', len', nextKey') /\ ContentsOK(proc[q], img')
  <2>1. ~Settled(proc[q]) /\ proc[q].cmd # "create"
    BY YoungAlone
  <2>2. CommandOK(proc[q], exists') /\ CommandOK(proc[q], TRUE)
    BY <2>1, Unfolded DEF CommandOK
  <2> QED BY <1>1, <2>1, <2>2, Unfolded, BlankViews
<1> QED BY <1>2, <1>3, <1>4, StepOf, Unfolded DEF Ends, Becomes

\* The same for the failures of denyfs_container_create.
LEMMA CreateFailsStep ==
  ASSUME Inv, NEW p \in Procs, Young(proc[p]), CreateFails(p)
  PROVE  ApartInv'
  BY RemoveStep DEF CreateFails

\* denyfs_container_create makes a file only where there is none.
LEMMA StartCreateStep ==
  ASSUME Inv, NEW p \in Procs, NEW mb \in ContainerSizes, NEW pw \in Passwords,
         StartCreate(p, mb, pw)
  PROVE  ApartInv'
<1>1. CASE ~MayCreate
  BY <1>1, EndStep DEF StartCreate
<1>2. CASE MayCreate
  <2> DEFINE size == mb * SectorsPerMB
             x == Run("create", "fill", pw, NoPassword, size)
  <2>1. /\ Becomes(p, x) /\ nextKey' = nextKey /\ exists' = TRUE
        /\ img' = [s \in Sector |-> None]
    BY <1>2 DEF StartCreate
  <2>2. size \in Nat /\ size > 0 /\ size <= Capacity
    BY SizesPositive, ContainerAssumption
  <2>3. x.cmd = "create" /\ x.pc = "fill" /\ x.pw = pw /\ x.size = size
        /\ x.cur = 0
    BY DEF Run, Idle
  <2>4. \A q \in Procs : proc[q].cmd # "create"
    BY <1>2, Unfolded DEF CommandOK, MayCreate
  <2>5. Blank(img') /\ Blank(img)
    BY <1>2, <2>1, Unfolded DEF Blank, None, MayCreate, FileOK
  <2>6. \A q \in Procs : ~Settled(proc[q])
    <3>1. 0 \in Sector
      BY <2>2, ContainerAssumption DEF Sector
    <3>2. ~HasOuter(img)
      BY <2>5, <3>1 DEF HasOuter, Blank
    <3> QED BY <3>2, Unfolded DEF Settled, VolumeOK, IsHidden, IsOuter, WasOuter
  <2> HIDE DEF x, size
  <2>7. CommandOK(x, TRUE)
    BY <2>2, <2>3 DEF CommandOK
  <2>8. VolumeOK(x, img', len', nextKey') /\ ContentsOK(x, img')
    BY <2>3, <2>5 DEF VolumeOK, ContentsOK
  <2>9. ASSUME NEW q \in Procs
        PROVE  /\ CommandOK(proc[q], TRUE)
               /\ VolumeOK(proc[q], img', len', nextKey')
               /\ ContentsOK(proc[q], img')
               /\ Compatible(x, proc[q]) /\ Compatible(proc[q], x)
    <3>1. CommandOK(proc[q], TRUE)
      BY Unfolded DEF CommandOK
    <3>2. Compatible(x, proc[q]) /\ Compatible(proc[q], x)
      BY <2>3, <2>4, <2>6 DEF Compatible, Young, Settled
    <3> QED BY <2>1, <2>4, <2>5, <2>6, <3>1, <3>2, BlankViews, Unfolded
  <2>10. FileOK(img', len', exists', nextKey')
    BY <2>1, <2>5, BlankFile
  <2> QED BY <2>1, <2>7, <2>8, <2>9, <2>10, StepOf, Unfolded DEF Becomes
<1> QED BY <1>1, <1>2

\* The filling writes random sectors; at its end the volume gets its key.
LEMMA FillStep ==
  ASSUME Inv, NEW p \in Procs, Fill(p)
  PROVE  ApartInv'
<1> DEFINE x0 == proc[p]
<1>1. x0.pc = "fill" /\ x0.cmd = "create" /\ Young(x0) /\ exists
  BY Unfolded DEF Fill, CommandOK, Young
<1>2. Blank(img)
  BY <1>1, Unfolded DEF ContentsOK
<1>3. x0 \in Process
  BY Unfolded
<1>4. \A q \in Procs \ {p} : ~Settled(proc[q]) /\ proc[q].cmd # "create"
  BY <1>1, YoungAlone
<1>5. CASE CreateFails(p)
  BY <1>1, <1>5, CreateFailsStep
<1>6. CASE /\ img' = [s \in Sector |-> IF s >= len /\ s < FillEnd(x0.size)
                                        THEN Random ELSE img[s]]
           /\ UNCHANGED <<exists, proc, nextKey>>
  <2>1. Blank(img')
    BY <1>2, <1>6 DEF Blank, Random
  <2>2. proc' = [proc EXCEPT ![p] = x0]
    BY <1>6, Unfolded
  <2>3. /\ CommandOK(x0, exists') /\ VolumeOK(x0, img', len', nextKey')
        /\ ContentsOK(x0, img')
    BY <1>1, <1>6, <2>1, Unfolded DEF VolumeOK, ContentsOK
  <2>4. FileOK(img', len', exists', nextKey')
    BY <1>1, <1>6, <2>1, BlankFile
  <2>5. ASSUME NEW q \in Procs \ {p}
        PROVE  /\ CommandOK(proc[q], exists')
               /\ VolumeOK(proc[q], img', len', nextKey') /\ ContentsOK(proc[q], img')
               /\ Compatible(x0, proc[q]) /\ Compatible(proc[q], x0)
    <3>1. CommandOK(proc[q], exists') /\ CommandOK(proc[q], TRUE)
      BY <1>1, <1>6, Unfolded DEF CommandOK
    <3> QED BY <1>4, <1>6, <2>1, <3>1, BlankViews, Unfolded DEF Pairs
  <2> QED BY <2>2, <2>3, <2>4, <2>5, StepOf, Unfolded
<1>7. CASE /\ len = x0.size /\ nextKey' = nextKey + 1 /\ UNCHANGED file
           /\ Becomes(p, [x0 EXCEPT !.pc = "header", !.vol =
                [NoVolume EXCEPT !.start = 1, !.size = len \div 2,
                                 !.key = nextKey]])
  <2> DEFINE x == [x0 EXCEPT !.pc = "header", !.vol =
                [NoVolume EXCEPT !.start = 1, !.size = len \div 2,
                                 !.key = nextKey]]
  <2>1. /\ x.pc = "header" /\ x.cmd = "create" /\ x.pw = x0.pw /\ x.size = x0.size
        /\ x.vol.start = 1 /\ x.vol.hidden = FALSE /\ x.vol.key = nextKey
        /\ x.cur = 0
    BY <1>1, <1>3, Unfolded DEF Process, NoVolume, CommandOK
  <2>2. Becomes(p, x) /\ img' = img /\ len' = len /\ exists' = exists
        /\ nextKey' = nextKey + 1
    BY <1>7 DEF file
  <2> HIDE DEF x
  <2>3. CommandOK(x, exists')
    BY <1>1, <2>1, <2>2, Unfolded DEF CommandOK
  <2>4. VolumeOK(x, img', len', nextKey')
    BY <2>1, <2>2, Unfolded DEF VolumeOK
  <2>5. ContentsOK(x, img')
    BY <1>2, <2>1, <2>2 DEF ContentsOK, Blank
  <2>6. ASSUME NEW q \in Procs \ {p}
        PROVE  /\ CommandOK(proc[q], exists')
               /\ VolumeOK(proc[q], img', len', nextKey') /\ ContentsOK(proc[q], img')
               /\ Compatible(x, proc[q]) /\ Compatible(proc[q], x)
    <3>1. CommandOK(proc[q], exists') /\ ContentsOK(proc[q], img')
      BY <2>2, Unfolded
    <3>2. VolumeOK(proc[q], img', len', nextKey')
      BY <2>2, MoreKeys, Unfolded
    <3>3. /\ proc[q].pc \in {"header", "load", "mounted"} => proc[q].vol.key < nextKey
          /\ proc[q].vol.key \in Nat
      BY Unfolded, Fields DEF VolumeOK
    <3>4. ~Settled(x) /\ ~Young(proc[q]) /\ ~Settled(proc[q])
      BY <1>4, <2>1 DEF Settled, Young
    <3>5. proc[q].pc \notin {"header", "mounted"}
      BY <1>4, Unfolded DEF CommandOK, Settled
    <3>6. Compatible(x, proc[q]) /\ Compatible(proc[q], x)
      BY <1>4, <2>1, <3>3, <3>4, <3>5, Unfolded DEF Compatible
    <3> QED BY <3>1, <3>2, <3>6
  <2>7. FileOK(img', len', exists', nextKey')
    BY <2>2, MoreKeys, Unfolded
  <2> QED BY <2>2, <2>3, <2>4, <2>5, <2>6, <2>7, StepOf, Unfolded DEF Becomes
<1> QED BY <1>5, <1>6, <1>7 DEF Fill

\* The outer header is written under a key that was derived.
LEMMA OuterHeaderStep ==
  ASSUME Inv, NEW p \in Procs, OuterHeader(p)
  PROVE  ApartInv'
<1> DEFINE x0 == proc[p]
           x == [x0 EXCEPT !.pc = "format"]
           c == Header(x0.pw, x0.vol, TRUE)
<1>1. x0.pc = "header" /\ x0.cmd = "create" /\ Young(x0) /\ x0 \in Process
  BY Unfolded DEF OuterHeader, Young
<1>2. CASE CreateFails(p)
  BY <1>1, <1>2, CreateFailsStep
<1>3. CASE ~CreateFails(p)
  <2>1. /\ Becomes(p, x) /\ img' = [img EXCEPT ![0] = c]
        /\ len' = len /\ exists' = exists /\ nextKey' = nextKey
    BY <1>3 DEF OuterHeader, KdfChecked, WriteSector
  <2>2. 0 \in Sector
    BY <1>1, YoungHasSectors
  <2>3. Blank(img) /\ x0.cur = 0 /\ x0.pw \in Passwords /\ exists
        /\ x0.vol.start = 1 /\ ~x0.vol.hidden /\ x0.vol.key < nextKey
    BY <1>1, Unfolded DEF ContentsOK, CommandOK, VolumeOK
  <2>4. /\ x.pc = "format" /\ x.cmd = "create" /\ x.vol = x0.vol /\ x.cur = 0
        /\ x.pw = x0.pw /\ x.size = x0.size
    BY <1>1, <2>3 DEF Process
  <2>5. /\ c.kind = "header" /\ c.key = x0.vol.key /\ c.size = x0.vol.size
        /\ c.salt = c.key /\ c.hkey = HeaderKey(x0.pw, c.key, TRUE)
    BY DEF Header, encrypt_header
  <2> HIDE DEF x, c
  <2>6. \A s \in Sector : img'[s] = IF s = 0 THEN c ELSE img[s]
    BY <2>1, Unfolded
  <2>7. \A s \in Sector : img'[s].kind \in {"none", "random", "header"}
                          /\ (img'[s].kind = "header" => s = 0)
    BY <2>3, <2>5, <2>6 DEF Blank
  <2>8. FileOK(img', len', exists', nextKey')
    <3>1. ASSUME NEW s \in Sector PROVE HeaderOK(s, img', len', nextKey')
      <4>1. img'[s].kind = "header" => s = 0 /\ img'[s] = c
        BY <2>6, <2>7
      <4>2. c.key < nextKey'
        BY <2>1, <2>3, <2>5
      <4>3. \E pw \in Passwords : c.hkey = HeaderKey(pw, c.key, TRUE)
        BY <2>3, <2>5
      <4> QED BY <2>5, <4>1, <4>2, <4>3, Zenon DEF HeaderOK
    <3>2. ASSUME NEW s \in Sector PROVE BlockOK(s, img')
      BY <2>7 DEF BlockOK
    <3> QED BY <2>1, <2>3, <3>1, <3>2 DEF FileOK
  <2>9. CommandOK(x, exists')
    BY <1>1, <2>1, <2>3, <2>4, Unfolded DEF CommandOK
  <2>10. VolumeOK(x, img', len', nextKey')
    BY <2>1, <2>2, <2>3, <2>4, <2>5, <2>6 DEF VolumeOK, IsOuter, HasOuter
  <2>11. ContentsOK(x, img')
    BY <2>4, <2>7 DEF ContentsOK, Bare
  <2>12. ASSUME NEW q \in Procs \ {p}
         PROVE  /\ CommandOK(proc[q], exists')
                /\ VolumeOK(proc[q], img', len', nextKey')
                /\ ContentsOK(proc[q], img')
                /\ Compatible(x, proc[q]) /\ Compatible(proc[q], x)
    <3> DEFINE y == proc[q]
    <3>1. ~Settled(y) /\ y.cmd # "create" /\ CommandOK(y, exists)
          /\ Compatible(x0, y)
      BY <1>1, YoungAlone, Unfolded DEF Pairs
    <3>2. y.pc \notin {"header", "format", "mounted"}
      BY <3>1 DEF CommandOK, Settled
    <3>3. y.pc = "load" => y.vol.key < x0.vol.key /\ y.vol.key # x0.vol.key
      BY <1>1, <3>1 DEF Compatible
    <3>4. /\ y.pc = "load" => ~y.vol.hidden /\ y.vol.start = 1 /\ y.vol.key < nextKey
          /\ y.pc = "load" /\ y.vol.protect => y.vol.lo > y.vol.size
          /\ y.vol.key \in Nat /\ x0.vol.key \in Nat
      BY <3>1, Unfolded, Fields DEF VolumeOK, Settled, WasOuter, IsHidden
    <3>5. y.pc = "load" => WasOuter(y.vol, img')
      BY <2>5, <2>6, <3>3, <3>4 DEF WasOuter, HasOuter
    <3>6. VolumeOK(y, img', len', nextKey')
      BY <2>1, <3>1, <3>2, <3>4, <3>5 DEF VolumeOK
    <3>7. ContentsOK(y, img')
      BY <2>5, <2>6, <2>7, <3>1, <3>2, <3>3 DEF ContentsOK, Young
    <3>8. Compatible(x, y) /\ Compatible(y, x)
      BY <2>4, <3>1, <3>2 DEF Compatible, Young
    <3> QED BY <2>1, <3>1, <3>6, <3>7, <3>8
  <2> QED BY <2>1, <2>8, <2>9, <2>10, <2>11, <2>12, StepOf, Unfolded DEF Becomes
<1> QED BY <1>2, <1>3

-----------------------------------------------------------------------------
(***************************************************************************)
(* Blocks.                                                                 *)
(***************************************************************************)

\* Block n of the volume with key k may be at sector s.
Belongs(s, n, k) ==
  /\ HasOuter(img)
  /\ \/ k = img[0].key /\ s = n + 1 /\ s <= img[0].size
     \/ k > img[0].key /\ s > img[0].size

\* Writing a block where it belongs keeps the file in order, and every view
\* of it but that of a young create.
LEMMA BlockWritten ==
  ASSUME Inv, NEW s \in Int, NEW n \in Nat, NEW k \in Nat, NEW d, Belongs(s, n, k),
         WriteSector(s, crypt_sector(d, n, k))
  PROVE  /\ img'[0] = img[0] /\ len' = len /\ exists' = exists
         /\ \A t \in Sector : img'[t] = IF t = s THEN crypt_sector(d, n, k) ELSE img[t]
         /\ \A t \in Sector : img'[t].kind = "header" => img'[t] = img[t]
         /\ FileOK(img', len', exists', nextKey)
         /\ \A x, m : VolumeOK(x, img, len, m) => VolumeOK(x, img', len', m)
         /\ \A x : ContentsOK(x, img) /\ ~Young(x) => ContentsOK(x, img')
<1> DEFINE c == crypt_sector(d, n, k)
<1>1. c.kind = "block" /\ c.key = k /\ c.n = n
  BY DEF crypt_sector
<1>2. len' = len /\ exists' = exists /\ img' = [img EXCEPT ![s] = c]
  BY DEF WriteSector
<1> HIDE DEF c
<1>3. 0 \in Sector /\ img[0].kind = "header" /\ img[0].size \in Nat
  BY Unfolded, Fields DEF Belongs, HasOuter
<1>4. s # 0
  BY <1>3 DEF Belongs
<1>5. \A t \in Sector : img'[t] = IF t = s THEN c ELSE img[t]
  BY <1>2, Unfolded
<1>6. img'[0] = img[0]
  BY <1>3, <1>4, <1>5
<1>7. \A t \in Sector : img'[t].kind = "header" => img'[t] = img[t]
  BY <1>1, <1>5
<1>8. exists
  BY <1>3, Unfolded DEF FileOK, None
<1>9. ASSUME NEW t \in Sector PROVE HeaderOK(t, img', len', nextKey)
  <2>1. HeaderOK(t, img, len, nextKey)
    BY Unfolded DEF FileOK
  <2> QED BY <1>2, <1>6, <1>7, <2>1 DEF HeaderOK, HasOuter
<1>10. ASSUME NEW t \in Sector PROVE BlockOK(t, img')
  <2>1. CASE t = s
    BY <1>1, <1>5, <1>6, <2>1 DEF BlockOK, Belongs, HasOuter
  <2>2. CASE t # s
    <3>1. BlockOK(t, img) /\ img'[t] = img[t]
      BY <1>5, <2>2, Unfolded DEF FileOK
    <3> QED BY <1>6, <3>1 DEF BlockOK, HasOuter
  <2> QED BY <2>1, <2>2
<1>11. FileOK(img', len', exists', nextKey)
  BY <1>2, <1>8, <1>9, <1>10 DEF FileOK
<1>12. ASSUME NEW x, NEW m, VolumeOK(x, img, len, m)
       PROVE  VolumeOK(x, img', len', m)
  BY <1>2, <1>6, <1>12 DEF VolumeOK, IsOuter, IsHidden, WasOuter, HasOuter
<1>13. ASSUME NEW x, ContentsOK(x, img), ~Young(x)
       PROVE  ContentsOK(x, img')
  BY <1>7, <1>13 DEF ContentsOK, Young
<1> QED BY <1>2, <1>5, <1>6, <1>7, <1>11, <1>12, <1>13 DEF c

\* format_volume writes only inside the volume it formats.
LEMMA FormatBlockStep ==
  ASSUME Inv, NEW p \in Procs, FormatBlock(p)
  PROVE  ApartInv'
<1> DEFINE x0 == proc[p]
           x == [x0 EXCEPT !.cur = @ + 1]
           v == x0.vol
           s == v.start + x0.cur
<1>1. /\ x0.pc = "format" /\ x0 \in Process
      /\ DataStart(v.size) < v.size /\ x0.cur <= DataStart(v.size)
      /\ WriteSector(s, crypt_sector("fs", x0.cur, v.key))
      /\ Becomes(p, x) /\ nextKey' = nextKey
  BY Unfolded DEF FormatBlock
<1>2. /\ v.start \in Nat /\ v.size \in Nat /\ v.key \in Nat /\ x0.cur \in Nat
      /\ DataStart(v.size) \in Nat
  BY <1>1, Fields, DataStartNat
<1>3. /\ CommandOK(x0, exists) /\ VolumeOK(x0, img, len, nextKey)
      /\ ContentsOK(x0, img) /\ x0.cmd \in {"create", "hidden"}
  BY <1>1, Unfolded DEF CommandOK
<1>4. x.pc = "format" /\ x.cmd = x0.cmd /\ x.vol = v /\ x.cur = x0.cur + 1
      /\ x.pw = x0.pw /\ x.hpw = x0.hpw /\ x.size = x0.size
  BY <1>1 DEF Process
<1> HIDE DEF x
<1>5. Belongs(s, x0.cur, v.key) /\ s \in Int
  <2>1. HasOuter(img) => img[0].size \in Nat /\ img[0].key \in Nat
    BY Unfolded, Fields DEF HasOuter
  <2>2. CASE x0.cmd = "create"
    BY <1>1, <1>2, <1>3, <2>1, <2>2 DEF VolumeOK, IsOuter, Belongs
  <2>3. CASE x0.cmd = "hidden"
    BY <1>1, <1>2, <1>3, <2>1, <2>3 DEF VolumeOK, IsHidden, Belongs
  <2> QED BY <1>3, <2>2, <2>3
<1>6. /\ len' = len /\ exists' = exists
      /\ \A t \in Sector : img'[t] = IF t = s
           THEN crypt_sector("fs", x0.cur, v.key) ELSE img[t]
      /\ FileOK(img', len', exists', nextKey)
      /\ \A y, m : VolumeOK(y, img, len, m) => VolumeOK(y, img', len', m)
      /\ \A y : ContentsOK(y, img) /\ ~Young(y) => ContentsOK(y, img')
  BY <1>1, <1>2, <1>5, BlockWritten
<1>7. CommandOK(x, exists')
  BY <1>1, <1>3, <1>4, <1>6 DEF CommandOK
<1>8. VolumeOK(x, img', len', nextKey')
  <2>1. VolumeOK(x, img, len, nextKey)
    BY <1>1, <1>2, <1>3, <1>4 DEF VolumeOK
  <2> QED BY <1>1, <1>6, <2>1
<1>9. ContentsOK(x, img')
  <2>1. CASE ~Young(x)
    BY <1>4, <2>1 DEF ContentsOK
  <2>2. CASE Young(x)
    <3>1. Young(x0)
      BY <1>1, <1>2, <1>4, <2>2 DEF Young
    <3>2. Bare(img, x0.cur)
      BY <1>1, <1>3, <3>1 DEF ContentsOK
    <3>3. s = x0.cur + 1
      BY <1>1, <1>2, <1>3, <3>1 DEF Young, VolumeOK, IsOuter
    <3>4. Bare(img', x0.cur + 1)
      BY <1>2, <1>6, <3>2, <3>3 DEF Bare, crypt_sector, Sector
    <3> QED BY <1>4, <3>4 DEF ContentsOK
  <2> QED BY <2>1, <2>2
<1>10. ASSUME NEW q \in Procs \ {p}
       PROVE  /\ CommandOK(proc[q], exists')
              /\ VolumeOK(proc[q], img', len', nextKey')
              /\ ContentsOK(proc[q], img')
              /\ Compatible(x, proc[q]) /\ Compatible(proc[q], x)
  <2>1. Compatible(x0, proc[q]) /\ Compatible(proc[q], x0)
    BY Unfolded DEF Pairs
  <2>2. ~Young(proc[q])
    BY <1>1, <1>3, <2>1 DEF Compatible, Young, Settled
  <2>3. Young(x) => Young(x0)
    BY <1>1, <1>2, <1>4 DEF Young
  <2>4. Compatible(x, proc[q]) /\ Compatible(proc[q], x)
    BY <1>1, <1>4, <2>1, <2>2, <2>3 DEF Compatible, Settled
  <2> QED BY <1>1, <1>6, <2>2, <2>4, Unfolded
<1> QED BY <1>1, <1>6, <1>7, <1>8, <1>9, <1>10, StepOf, Unfolded DEF Becomes

\* A format that fails removes the container only while it is young.
LEMMA FormatFailsStep ==
  ASSUME Inv, NEW p \in Procs, FormatFails(p)
  PROVE  ApartInv'
<1> DEFINE r == IF proc[p].cmd = "create" THEN "fail" ELSE "EIO"
<1>1. proc[p].pc = "format" /\ Ends(p, r) /\ nextKey' = nextKey
  BY DEF FormatFails
<1>2. CASE proc[p].cmd = "create"
  <2>1. proc[p].cur <= DataStart(proc[p].vol.size)
    <3>1. proc[p].vol.size \in Nat /\ proc[p].cur \in Nat
          /\ DataStart(proc[p].vol.size) \in Nat
      BY Unfolded, Fields, DataStartNat
    <3>2. DataStart(proc[p].vol.size) >= proc[p].vol.size => proc[p].cur = 0
      BY <1>1, <1>2, Unfolded DEF VolumeOK
    <3> QED BY <3>1, <3>2 DEF FormatFails
  <2>2. Young(proc[p]) /\ Unlink
    BY <1>1, <1>2, <2>1 DEF Young, FormatFails, AfterFormatFails
  <2> QED BY <1>1, <2>2, RemoveStep
<1>3. CASE proc[p].cmd # "create"
  <2>1. UNCHANGED file
    BY <1>3 DEF FormatFails, AfterFormatFails
  <2> QED BY <1>1, <2>1, EndStep
<1> QED BY <1>2, <1>3

-----------------------------------------------------------------------------
(***************************************************************************)
(* denyfs_vol_open.                                                        *)
(***************************************************************************)

\* No two headers of the file are of the same volume.
LEMMA HeadersDiffer ==
  ASSUME Inv, NEW s \in Sector, NEW t \in Sector,
         img[s].kind = "header", img[t].kind = "header", img[s].key = img[t].key
  PROVE  s = t
<1>1. HeaderOK(s, img, len, nextKey) /\ HeaderOK(t, img, len, nextKey)
  BY Unfolded DEF FileOK
<1>2. img[0].kind = "header" => img[0].key \in Nat
  BY Unfolded, Fields DEF Sector
<1>3. s = 0 => t = 0
  BY <1>1, <1>2 DEF HeaderOK
<1>4. t = 0 => s = 0
  BY <1>1, <1>2 DEF HeaderOK
<1>5. s # 0 /\ t # 0 => s = t
  BY <1>1 DEF HeaderOK
<1> QED BY <1>3, <1>4, <1>5

\* A passphrase has opened the header in sector s: its volume is loaded.
LEMMA FoundStep ==
  ASSUME Inv, NEW p \in Procs, proc[p].pc = "read",
         NEW s \in Sector, img[s].kind = "header", NEW ok \in BOOLEAN,
         img[s].hkey = HeaderKey(proc[p].pw, img[s].salt, ok),
         NEW u, u.key = img[s].key,
         \/ IsOuter(u, img)
         \/ IsHidden(u, img, len) /\ s # 0,
         u.protect => ~u.hidden /\ u.lo > u.size,
         Becomes(p, [proc[p] EXCEPT !.pc = "load", !.vol = u]),
         UNCHANGED <<file, nextKey>>
  PROVE  ApartInv'
<1> DEFINE x0 == proc[p]
           x == [x0 EXCEPT !.pc = "load", !.vol = u]
<1>1. x0 \in Process /\ CommandOK(x0, exists)
  BY Unfolded
<1>2. x.pc = "load" /\ x.vol = u /\ x.cmd = x0.cmd /\ x.pw = x0.pw
      /\ x.hpw = x0.hpw /\ x.size = x0.size /\ x.cur = x0.cur
  BY <1>1 DEF Process
<1>3. img' = img /\ len' = len /\ exists' = exists /\ nextKey' = nextKey
  BY DEF file
<1>4. Becomes(p, x)
  OBVIOUS
<1> HIDE DEF x
<1>5. HeaderOK(s, img, len, nextKey)
  BY Unfolded DEF FileOK
<1>6. CommandOK(x, exists)
  BY <1>1, <1>2 DEF CommandOK
<1>7. VolumeOK(x, img, len, nextKey)
  <2>1. HasOuter(img) => img[0].key \in Nat
    BY Unfolded, Fields DEF HasOuter
  <2>2. IsOuter(u, img) => WasOuter(u, img)
    BY <2>1 DEF IsOuter, WasOuter
  <2>3. u.key < nextKey /\ (IsHidden(u, img, len) \/ WasOuter(u, img))
    BY <1>5, <2>2 DEF HeaderOK
  <2>4. x.cmd # "create"
    BY <1>1, <1>2 DEF CommandOK
  <2> QED BY <1>2, <2>3, <2>4 DEF VolumeOK
<1>8. ContentsOK(x, img)
  <2>1. ASSUME NEW t \in Sector, img[t].kind = "header", img[t].key = u.key
        PROVE  img[t].hkey = HeaderKey(x0.pw, img[t].salt, TRUE)
    <3>1. t = s
      BY <2>1, HeadersDiffer
    <3>2. PICK pw \in Passwords : img[s].hkey = HeaderKey(pw, img[s].key, TRUE)
      BY <1>5 DEF HeaderOK
    <3>3. HeaderKey(x0.pw, img[s].salt, ok) = HeaderKey(pw, img[s].key, TRUE)
      BY <3>2
    <3>4. HeaderKey(x0.pw, img[s].salt, ok) = HeaderKey(x0.pw, img[s].salt, TRUE)
      <4>1. derive_master_key(x0.pw, img[s].salt, ok)
              = derive_master_key(pw, img[s].key, TRUE)
        BY <3>3 DEF HeaderKey, derive_header_key
      <4>2. CASE ok
        BY <4>2
      <4>3. CASE ~ok
        BY <4>1, <4>3 DEF derive_master_key, ZeroKey
      <4> QED BY <4>2, <4>3
    <3> QED BY <3>1, <3>4
  <2> QED BY <1>2, <2>1 DEF ContentsOK, Young
<1>9. ASSUME NEW q \in Procs \ {p}
      PROVE  Compatible(x, proc[q]) /\ Compatible(proc[q], x)
  <2> DEFINE y == proc[q]
  <2>1. ContentsOK(y, img) /\ x.cmd # "create"
    BY <1>1, <1>2, Unfolded DEF CommandOK
  <2>2. ~(y.cmd = "create" /\ y.pc \in {"fill", "header"})
    BY <2>1 DEF ContentsOK, Blank
  <2>3. y.pc = "header" => y.vol.key # u.key
    BY <2>1 DEF ContentsOK
  <2>4. Young(y) => ~u.hidden
    BY <2>1, <2>2 DEF ContentsOK, Young, Bare, IsOuter
  <2>5. ~Young(x) /\ (Settled(x) => u.hidden)
    BY <1>2, <2>1 DEF Young, Settled
  <2>6. Compatible(x, y)
    BY <1>2, <2>1, <2>5 DEF Compatible
  <2>7. ~(Young(y) /\ Settled(x))
    BY <2>4, <2>5, Zenon
  <2>8. Compatible(y, x)
    BY <1>2, <2>1, <2>2, <2>3, <2>7 DEF Compatible
  <2> QED BY <2>6, <2>8
<1>10. \A q \in Procs \ {p} :
         /\ CommandOK(proc[q], exists) /\ VolumeOK(proc[q], img, len, nextKey)
         /\ ContentsOK(proc[q], img)
  BY Unfolded
<1>11. Pairs /\ FileOK(img, len, exists, nextKey) /\ proc \in [Procs -> Process]
  BY Unfolded
<1>12. proc' = [proc EXCEPT ![p] = x]
  BY <1>4 DEF Becomes
<1>13. /\ CommandOK(x, exists') /\ VolumeOK(x, img', len', nextKey')
       /\ ContentsOK(x, img') /\ FileOK(img', len', exists', nextKey')
       /\ \A q \in Procs \ {p} :
            /\ CommandOK(proc[q], exists')
            /\ VolumeOK(proc[q], img', len', nextKey') /\ ContentsOK(proc[q], img')
            /\ Compatible(x, proc[q]) /\ Compatible(proc[q], x)
  BY <1>3, <1>6, <1>7, <1>8, <1>9, <1>10, <1>11
<1> QED BY <1>11, <1>12, <1>13, StepOf

\* The hidden header, where it can be, names a hidden volume of the file.
LEMMA HiddenHeaderOK ==
  ASSUME Inv, len >= HeaderGap + 1, NEW pw, NEW ok \in BOOLEAN, HiddenOpens(pw, ok)
  PROVE  /\ HiddenHeaderAt \in Sector /\ HiddenHeaderAt # 0
         /\ img[HiddenHeaderAt].kind = "header"
         /\ img[HiddenHeaderAt].hkey = HeaderKey(pw, img[HiddenHeaderAt].salt, ok)
         /\ IsHidden(HiddenVolume, img, len)
         /\ HiddenVolume.key = img[HiddenHeaderAt].key
         /\ ~HiddenVolume.protect /\ HiddenVolume.start \in Nat
<1> DEFINE h == HiddenHeaderAt
<1>1. h \in Sector /\ h # 0 /\ h = len - HeaderGap /\ h \in Nat
  BY Unfolded DEF HiddenHeaderAt, Sector
<1>2. img[h].kind = "header" /\ img[h].hkey = HeaderKey(pw, img[h].salt, ok)
      /\ img[h].size <= h - 1
  BY DEF HiddenOpens, Authentic, decrypt_header
<1>3. HeaderOK(h, img, len, nextKey) /\ img[h].size \in Nat
  BY <1>1, <1>2, Unfolded, Fields DEF FileOK
<1>4. /\ HiddenVolume.start = h - img[h].size /\ HiddenVolume.size = img[h].size
      /\ HiddenVolume.key = img[h].key /\ HiddenVolume.hidden = TRUE
      /\ HiddenVolume.protect = FALSE
  BY DEF HiddenVolume, NoVolume
<1> HIDE DEF h
<1>5. IsHidden(HiddenVolume, img, len)
  BY <1>1, <1>2, <1>3, <1>4 DEF IsHidden, HeaderOK
<1> QED BY <1>1, <1>2, <1>3, <1>4, <1>5 DEF h

\* Both headers are read and one of the volumes is chosen.
LEMMA ReadHeadersStep ==
  ASSUME Inv, NEW p \in Procs, ReadHeaders(p)
  PROVE  ApartInv'
<1> DEFINE pw == proc[p].pw
<1>1. proc[p].pc = "read"
  BY DEF ReadHeaders
<1>2. PICK outer, hidden, guard \in BOOLEAN :
        LET big == exists /\ len >= HeaderGap + 1
            found == big /\ (OuterOpens(pw, outer) \/ HiddenOpens(pw, hidden))
            v == Selected(pw, outer)
            guarded == proc[p].cmd = "protect" /\ ~v.hidden
            Loading(u) == /\ Becomes(p, [proc[p] EXCEPT !.pc = "load", !.vol = u])
                          /\ UNCHANGED <<file, nextKey, told>>
        IN  \/ OpenFails(p)
            \/ found /\ ~guarded /\ Loading(v)
            \/ /\ found /\ guarded /\ HiddenOpens(proc[p].hpw, guard)
               /\ Loading(Guarded(v))
  BY DEF ReadHeaders
<1> DEFINE v == Selected(pw, outer)
           found == /\ len >= HeaderGap + 1
                    /\ OuterOpens(pw, outer) \/ HiddenOpens(pw, hidden)
           Loads0(u) == /\ Becomes(p, [proc[p] EXCEPT !.pc = "load", !.vol = u])
                        /\ UNCHANGED <<file, nextKey>>
<1>3. CASE OpenFails(p)
  BY <1>3, EndStep DEF OpenFails
<1>4. ASSUME found, OuterOpens(pw, outer)
      PROVE  /\ 0 \in Sector /\ img[0].kind = "header"
             /\ img[0].hkey = HeaderKey(pw, img[0].salt, outer)
             /\ IsOuter(v, img) /\ v.key = img[0].key /\ ~v.protect
  <2>1. 0 \in Sector
    BY <1>4, Unfolded DEF Sector
  <2>2. img[0].kind = "header" /\ img[0].hkey = HeaderKey(pw, img[0].salt, outer)
    BY <1>4 DEF OuterOpens, Authentic, decrypt_header
  <2>3. v = OuterVolume
    BY <1>4 DEF Selected
  <2>4. /\ v.start = 1 /\ v.size = img[0].size /\ v.key = img[0].key
        /\ v.hidden = FALSE /\ v.protect = FALSE
    BY <2>3 DEF OuterVolume, NoVolume
  <2> QED BY <2>1, <2>2, <2>4 DEF IsOuter, HasOuter
<1>5. CASE found /\ Loads0(v)
  <2>1. CASE OuterOpens(pw, outer)
    BY <1>1, <1>4, <1>5, <2>1, FoundStep
  <2>2. CASE ~OuterOpens(pw, outer)
    <3>1. v = HiddenVolume /\ HiddenOpens(pw, hidden)
      BY <1>5, <2>2 DEF Selected
    <3> QED BY <1>1, <1>5, <3>1, HiddenHeaderOK, FoundStep
  <2> QED BY <2>1, <2>2
<1>6. CASE found /\ ~v.hidden /\ HiddenOpens(proc[p].hpw, guard)
           /\ Loads0(Guarded(v))
  <2> DEFINE u == Guarded(v)
  <2>1. OuterOpens(pw, outer)
    BY <1>6 DEF Selected, HiddenVolume, NoVolume
  <2>2. v = OuterVolume /\ IsOuter(v, img) /\ v.key = img[0].key
    BY <1>4, <1>6, <2>1 DEF Selected
  <2>3. IsHidden(HiddenVolume, img, len) /\ HiddenVolume.start \in Nat
    BY <1>6, HiddenHeaderOK
  <2>4. /\ u.start = v.start /\ u.size = v.size /\ u.key = v.key
        /\ u.hidden = v.hidden /\ u.lo = HiddenVolume.start
    BY <2>2 DEF Guarded, OuterVolume, NoVolume
  <2>5. IsOuter(u, img) /\ u.key = img[0].key /\ ~u.hidden /\ u.lo > u.size
    BY <2>2, <2>3, <2>4 DEF IsOuter, IsHidden
  <2> HIDE DEF u
  <2> QED BY <1>1, <1>4, <1>6, <2>1, <2>5, FoundStep DEF u
<1> QED BY <1>2, <1>3, <1>5, <1>6

\* A volume whose blocks decrypt is one of the present file, and the container
\* is finished: a process that found the outer header earlier, of this or of a
\* removed container, gets no further before.
LEMMA LoadedVolume ==
  ASSUME Inv, NEW p \in Procs, Load(p)
  PROVE  /\ IsHidden(proc[p].vol, img, len) \/ IsOuter(proc[p].vol, img)
         /\ \A q \in Procs : ~Young(proc[q])
<1> DEFINE v == proc[p].vol
           b == img[1 + DataStart(v.size)]
<1>1. proc[p].pc = "load" /\ MayLoad(v) /\ proc[p].cmd # "create" /\ ~Young(proc[p])
  BY Unfolded DEF Load, CommandOK, Young
<1>2. VolumeOK(proc[p], img, len, nextKey) /\ v.size \in Nat /\ v.key \in Nat
      /\ DataStart(v.size) \in Nat
  BY Unfolded, Fields, DataStartNat
<1>3. CASE IsHidden(v, img, len)
  <2>1. Settled(proc[p])
    BY <1>1, <1>3 DEF Settled, IsHidden
  <2>2. \A q \in Procs \ {p} : ~Young(proc[q])
    BY <2>1, Unfolded DEF Pairs, Compatible
  <2> QED BY <1>1, <1>3, <2>2
<1>4. CASE WasOuter(v, img)
  <2>1. v.start = 1 /\ ~v.hidden
    BY <1>4 DEF WasOuter
  <2>2. 1 \in Sector /\ 1 + DataStart(v.size) \in Sector
    BY <1>1, <1>2, <2>1, Unfolded DEF MayLoad, Sector
  <2>3. /\ img[1].kind = "block" /\ img[1].key = v.key
        /\ b.kind = "block"
    <3>1. \A n \in 0 .. DataStart(v.size) : Decrypts(img[1 + n], n, v.key)
      BY <1>1, <2>1 DEF MayLoad
    <3>2. Decrypts(img[1 + 0], 0, v.key)
          /\ Decrypts(b, DataStart(v.size), v.key)
      BY <1>2, <3>1
    <3> QED BY <3>2 DEF Decrypts
  <2>4. HasOuter(img) /\ (v.key = img[0].key \/ v.key > img[0].key)
    BY <2>2, <2>3, Unfolded DEF FileOK, BlockOK
  <2>5. img[0].key \in Nat
    BY <2>4, Unfolded, Fields DEF HasOuter
  <2>6. IsOuter(v, img)
    BY <1>2, <1>4, <2>1, <2>4, <2>5 DEF WasOuter, IsOuter
  <2>7. ASSUME NEW q \in Procs, Young(proc[q]) PROVE FALSE
    <3>1. ContentsOK(proc[q], img) /\ VolumeOK(proc[q], img, len, nextKey)
          /\ proc[q].cur \in Nat
      BY Unfolded, Fields
    <3>2. proc[q].cmd = "create" /\ proc[q].pc = "format"
          /\ proc[q].cur <= DataStart(proc[q].vol.size)
      BY <2>2, <2>3, <2>7, <3>1 DEF Young, ContentsOK, Blank
    <3>3. proc[q].vol.size = v.size
      BY <2>6, <3>1, <3>2 DEF VolumeOK, IsOuter
    <3>4. 1 + DataStart(v.size) <= proc[q].cur
      BY <2>2, <2>3, <2>7, <3>1, <3>2 DEF ContentsOK, Bare
    <3> QED BY <1>2, <3>1, <3>2, <3>3, <3>4
  <2> QED BY <2>6, <2>7
<1> QED BY <1>1, <1>2, <1>3, <1>4 DEF VolumeOK

\* denyfs mount goes on with the volume.
LEMMA MountStep ==
  ASSUME Inv, NEW p \in Procs, Mount(p)
  PROVE  ApartInv'
<1> DEFINE x0 == proc[p]
           x == [x0 EXCEPT !.pc = "mounted"]
<1>1. /\ Becomes(p, x) /\ img' = img /\ len' = len /\ exists' = exists
      /\ nextKey' = nextKey /\ x0.pc = "load" /\ x0.cmd \in {"mount", "protect"}
  BY DEF Mount, file, Load
<1>2. x0 \in Process /\ CommandOK(x0, exists) /\ VolumeOK(x0, img, len, nextKey)
      /\ ContentsOK(x0, img)
  BY Unfolded
<1>3. x.pc = "mounted" /\ x.vol = x0.vol /\ x.cmd = x0.cmd /\ x.pw = x0.pw
      /\ x.hpw = x0.hpw /\ x.size = x0.size /\ x.cur = x0.cur
  BY <1>2 DEF Process
<1> HIDE DEF x
<1>4. (IsHidden(x0.vol, img, len) \/ IsOuter(x0.vol, img))
      /\ \A q \in Procs : ~Young(proc[q])
  BY LoadedVolume DEF Mount
<1>5. CommandOK(x, exists) /\ VolumeOK(x, img, len, nextKey) /\ ContentsOK(x, img)
  BY <1>1, <1>2, <1>3, <1>4 DEF CommandOK, VolumeOK, ContentsOK, Young
<1>6. ASSUME NEW q \in Procs \ {p}
      PROVE  Compatible(x, proc[q]) /\ Compatible(proc[q], x)
  <2>1. Compatible(x0, proc[q]) /\ Compatible(proc[q], x0) /\ ~Young(proc[q])
    BY <1>4, Unfolded DEF Pairs
  <2> QED BY <1>1, <1>3, <2>1 DEF Compatible, Young, Settled
<1>7. proc' = [proc EXCEPT ![p] = x]
  BY <1>1 DEF Becomes
<1>8. /\ CommandOK(x, exists') /\ VolumeOK(x, img', len', nextKey')
      /\ ContentsOK(x, img') /\ FileOK(img', len', exists', nextKey')
      /\ \A q \in Procs \ {p} :
           /\ CommandOK(proc[q], exists')
           /\ VolumeOK(proc[q], img', len', nextKey') /\ ContentsOK(proc[q], img')
           /\ Compatible(x, proc[q]) /\ Compatible(proc[q], x)
  BY <1>1, <1>5, <1>6, Unfolded
<1> QED BY <1>7, <1>8, StepOf, Unfolded

-----------------------------------------------------------------------------
(***************************************************************************)
(* denyfs_container_create_hidden.                                         *)
(***************************************************************************)

\* The place of a hidden volume is chosen past the end of the open volume,
\* which can only be the outer one.
LEMMA PlaceHiddenStep ==
  ASSUME Inv, NEW p \in Procs, PlaceHidden(p)
  PROVE  ApartInv'
<1> DEFINE x0 == proc[p]
           size == x0.size
           v == [NoVolume EXCEPT !.start = HiddenHeaderAt - size, !.size = size,
                                 !.key = nextKey, !.hidden = TRUE]
           x == [x0 EXCEPT !.pc = "header", !.vol = v]
<1>1. x0.pc = "load" /\ x0.cmd = "hidden" /\ Load(p)
  BY DEF PlaceHidden, Load
<1>2. x0 \in Process /\ CommandOK(x0, exists) /\ size \in Nat /\ size > 0
      /\ x0.hpw \in Passwords /\ x0.cur = 0
  BY <1>1, Unfolded, Fields DEF CommandOK
<1>3. CASE ~Fits(x0.vol, size)
  BY <1>3, EndStep DEF PlaceHidden
<1>4. CASE Fits(x0.vol, size)
  <2>1. Becomes(p, x) /\ img' = img /\ len' = len /\ exists' = exists
        /\ nextKey' = nextKey + 1
    BY <1>4 DEF PlaceHidden, file
  <2>2. x.pc = "header" /\ x.vol = v /\ x.cmd = "hidden" /\ x.hpw = x0.hpw
        /\ x.size = size /\ x.cur = 0
    BY <1>1, <1>2 DEF Process
  <2>3. v.start = HiddenHeaderAt - size /\ v.size = size /\ v.key = nextKey
        /\ v.hidden = TRUE /\ v.protect = FALSE
    BY DEF NoVolume
  <2> HIDE DEF x, v
  <2>4. \A q \in Procs : ~Young(proc[q])
    BY <1>1, LoadedVolume
  <2>5. HasOuter(img)
    BY <1>1, LoadedVolume DEF IsHidden, IsOuter
  <2>6. img[0].size \in Nat /\ img[0].key \in Nat /\ img[0].key < nextKey
        /\ HiddenHeaderAt = len - HeaderGap /\ HiddenHeaderAt \in Int
    <3>1. HeaderOK(0, img, len, nextKey) /\ img[0] \in Content
      BY <2>5, Unfolded DEF HasOuter, FileOK
    <3> QED BY <2>5, <3>1, Unfolded, Fields DEF HasOuter, HeaderOK, HiddenHeaderAt
  <2>7. IsHidden(v, img, len)
    <3>1. x0.vol.start + x0.vol.size <= HiddenHeaderAt - size
      BY <1>4 DEF Fits
    <3>2. ~IsHidden(x0.vol, img, len)
      BY <1>2, <2>6, <3>1 DEF IsHidden
    <3>3. x0.vol.start = 1 /\ x0.vol.size = img[0].size
      BY <1>1, <3>2, LoadedVolume DEF IsOuter
    <3> QED BY <1>2, <2>3, <2>5, <2>6, <3>1, <3>3 DEF IsHidden
  <2>8. CommandOK(x, exists')
    BY <1>2, <2>1, <2>2 DEF CommandOK
  <2>9. VolumeOK(x, img', len', nextKey')
    BY <2>1, <2>2, <2>3, <2>7, Unfolded DEF VolumeOK
  <2>10. ContentsOK(x, img')
    <3>1. \A s \in Sector : img[s].kind = "header" =>
            img[s].key \in Nat /\ img[s].key < nextKey
      BY Unfolded, Fields DEF FileOK, HeaderOK
    <3> QED BY <2>1, <2>2, <2>3, <3>1, Unfolded DEF ContentsOK, Young
  <2>11. ASSUME NEW q \in Procs \ {p}
         PROVE  Compatible(x, proc[q]) /\ Compatible(proc[q], x)
    <3>1. Compatible(proc[q], x0) /\ Compatible(x0, proc[q]) /\ ~Young(proc[q])
      BY <2>4, Unfolded DEF Pairs
    <3>2. /\ proc[q].vol.key \in Nat
          /\ proc[q].pc \in {"header", "load", "mounted"} => proc[q].vol.key < nextKey
      BY Unfolded, Fields DEF VolumeOK
    <3>3. ~Young(x) /\ x.pc = "header" /\ x.cmd = "hidden" /\ x.vol.key = nextKey
      BY <2>2, <2>3 DEF Young
    <3> QED BY <3>1, <3>2, <3>3, Unfolded DEF Compatible
  <2>12. \A q \in Procs :
           /\ CommandOK(proc[q], exists')
           /\ VolumeOK(proc[q], img', len', nextKey') /\ ContentsOK(proc[q], img')
    BY <2>1, MoreKeys, Unfolded
  <2>13. FileOK(img', len', exists', nextKey')
    BY <2>1, MoreKeys, Unfolded
  <2>14. proc' = [proc EXCEPT ![p] = x]
    BY <2>1 DEF Becomes
  <2> QED BY <2>8, <2>9, <2>10, <2>11, <2>12, <2>13, <2>14, StepOf, Unfolded
<1> QED BY <1>3, <1>4

\* The hidden header goes past the outer volume, under a key no other process
\* and no other header has.
LEMMA HiddenHeaderStep ==
  ASSUME Inv, NEW p \in Procs, HiddenHeader(p)
  PROVE  ApartInv'
<1> DEFINE x0 == proc[p]
           x == [x0 EXCEPT !.pc = "format"]
           h == HiddenHeaderAt
           c == Header(x0.hpw, x0.vol, TRUE)
<1>1. x0.pc = "header" /\ x0.cmd = "hidden" /\ x0 \in Process /\ Settled(x0)
  BY Unfolded DEF HiddenHeader, Settled
<1>2. CASE Ends(p, "EIO") /\ UNCHANGED file
  BY <1>2, EndStep DEF HiddenHeader
<1>3. CASE ~(Ends(p, "EIO") /\ UNCHANGED file)
  <2>1. /\ Becomes(p, x) /\ img' = [img EXCEPT ![h] = c]
        /\ len' = len /\ exists' = exists /\ nextKey' = nextKey
    BY <1>3 DEF HiddenHeader, KdfChecked, WriteSector
  <2>2. /\ CommandOK(x0, exists) /\ VolumeOK(x0, img, len, nextKey)
        /\ IsHidden(x0.vol, img, len) /\ x0.hpw \in Passwords
        /\ x0.cur = 0 /\ x0.vol.key < nextKey
    BY <1>1, Unfolded DEF CommandOK, VolumeOK
  <2>3. x.pc = "format" /\ x.cmd = "hidden" /\ x.vol = x0.vol /\ x.cur = 0
        /\ x.hpw = x0.hpw /\ x.size = x0.size
    BY <1>1, <2>2 DEF Process
  <2>4. /\ c.kind = "header" /\ c.key = x0.vol.key /\ c.size = x0.vol.size
        /\ c.salt = c.key /\ c.hkey = HeaderKey(x0.hpw, c.key, TRUE)
    BY DEF Header, encrypt_header
  <2> HIDE DEF x, c
  <2>5. HasOuter(img) /\ img[0].size \in Nat /\ img[0].key \in Nat
    BY <2>2, Unfolded, Fields DEF IsHidden, HasOuter
  <2>6. h \in Sector /\ h # 0 /\ h = len - HeaderGap
    <3>1. x0.vol.start \in Nat /\ x0.vol.size \in Nat
      BY <1>1, Fields
    <3> QED BY <2>2, <2>5, <3>1, Unfolded DEF IsHidden, HiddenHeaderAt, Sector
  <2>7. \A s \in Sector : img'[s] = IF s = h THEN c ELSE img[s]
    BY <2>1, Unfolded
  <2>8. img'[0] = img[0]
    BY <2>5, <2>6, <2>7 DEF HasOuter
  <2>9. FileOK(img', len', exists', nextKey')
    <3>1. ASSUME NEW s \in Sector PROVE HeaderOK(s, img', len', nextKey')
      <4>1. CASE s = h
        <5>1. img'[s] = c
          BY <2>7, <4>1
        <5>2. \E pw \in Passwords : c.hkey = HeaderKey(pw, c.key, TRUE)
          BY <2>2, <2>4
        <5>3. /\ c.key < nextKey' /\ HasOuter(img') /\ c.key > img'[0].key
              /\ s = len' - HeaderGap /\ c.size > 0
              /\ s - c.size > img'[0].size
          <6>1. x0.vol.start \in Nat /\ x0.vol.size \in Nat
            BY <1>1, Fields
          <6> QED BY <2>1, <2>2, <2>4, <2>5, <2>6, <2>8, <4>1, <6>1, Unfolded
                  DEF IsHidden, HasOuter
        <5> QED BY <2>4, <5>1, <5>2, <5>3, Zenon DEF HeaderOK
      <4>2. CASE s # h
        <5>1. HeaderOK(s, img, len, nextKey) /\ img'[s] = img[s]
          BY <2>7, <4>2, Unfolded DEF FileOK
        <5> QED BY <2>1, <2>8, <5>1 DEF HeaderOK, HasOuter
      <4> QED BY <4>1, <4>2
    <3>2. ASSUME NEW s \in Sector PROVE BlockOK(s, img')
      <4>1. CASE s = h
        BY <2>4, <2>7, <4>1 DEF BlockOK
      <4>2. CASE s # h
        <5>1. BlockOK(s, img) /\ img'[s] = img[s]
          BY <2>7, <4>2, Unfolded DEF FileOK
        <5> QED BY <2>8, <5>1 DEF BlockOK, HasOuter
      <4> QED BY <4>1, <4>2
    <3>3. exists
      BY <2>5, Unfolded DEF FileOK, HasOuter, None
    <3> QED BY <2>1, <3>1, <3>2, <3>3 DEF FileOK
  <2>10. \A y : VolumeOK(y, img, len, nextKey) => VolumeOK(y, img', len', nextKey')
    BY <2>1, <2>8 DEF VolumeOK, IsOuter, IsHidden, WasOuter, HasOuter
  <2>11. VolumeOK(x, img', len', nextKey') /\ ContentsOK(x, img')
         /\ CommandOK(x, exists')
    <3>1. VolumeOK(x, img, len, nextKey) /\ CommandOK(x, exists)
      BY <1>1, <2>2, <2>3 DEF VolumeOK, CommandOK
    <3>2. ContentsOK(x, img')
      BY <2>3 DEF ContentsOK, Young
    <3> QED BY <2>1, <2>10, <3>1, <3>2
  <2>12. ASSUME NEW q \in Procs \ {p}
         PROVE  /\ ContentsOK(proc[q], img')
                /\ Compatible(x, proc[q]) /\ Compatible(proc[q], x)
    <3> DEFINE y == proc[q]
    <3>1. Compatible(y, x0) /\ Compatible(x0, y) /\ ContentsOK(y, img)
      BY Unfolded DEF Pairs
    <3>2. (~Young(y) /\ y.cmd # "create") \/ y.pc \notin {"fill", "header"}
      BY <1>1, <3>1 DEF Compatible, Young
    <3>3. ~Young(y)
      BY <1>1, <3>1 DEF Compatible
    <3>4. y.pc \in {"header", "load", "mounted"} => y.vol.key # x0.vol.key
      BY <1>1, <3>1 DEF Compatible
    <3>5. \A s \in Sector : img'[s].kind = "header" =>
            img'[s] = img[s] \/ img'[s].key = x0.vol.key
      BY <2>4, <2>7
    <3>6. ContentsOK(y, img')
      BY <3>1, <3>3, <3>4, <3>5 DEF ContentsOK, Young
    <3>7. Compatible(x, y) /\ Compatible(y, x)
      BY <1>1, <2>3, <3>1, <3>3 DEF Compatible, Young, Settled
    <3> QED BY <3>6, <3>7
  <2>13. \A q \in Procs : CommandOK(proc[q], exists')
                          /\ VolumeOK(proc[q], img', len', nextKey')
    BY <2>1, <2>10, Unfolded
  <2>14. proc' = [proc EXCEPT ![p] = x]
    BY <2>1 DEF Becomes
  <2> QED BY <2>9, <2>11, <2>12, <2>13, <2>14, StepOf, Unfolded
<1> QED BY <1>2, <1>3

-----------------------------------------------------------------------------
(***************************************************************************)
(* Writes through an open volume.                                          *)
(***************************************************************************)

\* A block of an open volume belongs to it.
LEMMA OpenBlock ==
  ASSUME Inv, NEW v \in Volume, IsHidden(v, img, len) \/ IsOuter(v, img),
         NEW n \in Nat, n < v.size
  PROVE  Belongs(v.start + n, n, v.key) /\ v.start + n \in Int /\ v.key \in Nat
<1>1. v.start \in Nat /\ v.size \in Nat /\ v.key \in Nat
  BY DEF Volume, Keys
<1>2. HasOuter(img) /\ img[0].size \in Nat /\ img[0].key \in Nat
  BY Unfolded, Fields DEF IsHidden, IsOuter, HasOuter
<1> QED BY <1>1, <1>2 DEF Belongs, IsHidden, IsOuter

\* A mounted volume writes its own blocks only.
LEMMA WriteBlockStep ==
  ASSUME Inv, NEW p \in Procs, NEW n \in VolumeBlocks, WriteBlock(p, n)
  PROVE  ApartInv'
<1> DEFINE v == proc[p].vol
<1>1. /\ proc[p].pc = "mounted" /\ n < v.size /\ proc' = proc /\ nextKey' = nextKey
      /\ WriteSector(v.start + n, crypt_sector("fs", n, v.key))
  BY DEF WriteBlock
<1>2. v \in Volume /\ n \in Nat
  BY Unfolded, Fields, ContainerAssumption
<1>3. IsHidden(v, img, len) \/ IsOuter(v, img)
  BY <1>1, Unfolded DEF VolumeOK
<1>4. Belongs(v.start + n, n, v.key) /\ v.start + n \in Int /\ v.key \in Nat
  BY <1>1, <1>2, <1>3, OpenBlock
<1>5. /\ len' = len /\ exists' = exists
      /\ FileOK(img', len', exists', nextKey)
      /\ \A x, m : VolumeOK(x, img, len, m) => VolumeOK(x, img', len', m)
      /\ \A x : ContentsOK(x, img) /\ ~Young(x) => ContentsOK(x, img')
  BY <1>1, <1>2, <1>4, BlockWritten
<1>6. ASSUME NEW q \in Procs PROVE ~Young(proc[q])
  <2>1. Settled(proc[p]) /\ ~Young(proc[p])
    BY <1>1 DEF Settled, Young
  <2> QED BY <2>1, Unfolded DEF Pairs, Compatible
<1>7. Commands' /\ VolumesOfFile' /\ Views' /\ Pairs'
  BY <1>1, <1>5, <1>6, Unfolded DEF Commands, VolumesOfFile, Views, Pairs
<1> QED BY <1>1, <1>5, <1>7 DEF ApartInv

\* write-sector stays inside its volume as well.
LEMMA WriteSectorStep ==
  ASSUME Inv, NEW p \in Procs, handle_write_sector(p)
  PROVE  ApartInv'
<1> DEFINE v == proc[p].vol
           lba == proc[p].size
<1>1. Load(p) /\ lba < v.size /\ Ends(p, "ok") /\ nextKey' = nextKey
  BY DEF handle_write_sector, InVolume
<1>2. CASE UNCHANGED file
  BY <1>1, <1>2, EndStep
<1>3. CASE WriteSector(v.start + lba, crypt_sector("raw", lba, v.key))
  <2>1. v \in Volume /\ lba \in Nat
    BY Unfolded, Fields
  <2>2. /\ IsHidden(v, img, len) \/ IsOuter(v, img)
        /\ \A q \in Procs : ~Young(proc[q])
    BY <1>1, LoadedVolume
  <2>3. Belongs(v.start + lba, lba, v.key) /\ v.start + lba \in Int /\ v.key \in Nat
    BY <1>1, <2>1, <2>2, OpenBlock
  <2>4. /\ len' = len /\ exists' = exists
        /\ FileOK(img', len', exists', nextKey)
        /\ \A x, m : VolumeOK(x, img, len, m) => VolumeOK(x, img', len', m)
        /\ \A x : ContentsOK(x, img) /\ ~Young(x) => ContentsOK(x, img')
    BY <1>3, <2>1, <2>3, BlockWritten
  <2>5. /\ CommandOK(Idle("ok"), exists') /\ VolumeOK(Idle("ok"), img', len', nextKey')
        /\ ContentsOK(Idle("ok"), img')
        /\ \A q \in Procs : /\ Compatible(Idle("ok"), proc[q])
                            /\ Compatible(proc[q], Idle("ok"))
    BY IdleQuiet, QuietOK
  <2>6. \A q \in Procs :
          /\ CommandOK(proc[q], exists') /\ ContentsOK(proc[q], img')
          /\ VolumeOK(proc[q], img', len', nextKey')
    BY <1>1, <2>2, <2>4, Unfolded
  <2>7. proc' = [proc EXCEPT ![p] = Idle("ok")]
    BY <1>1 DEF Ends, Becomes
  <2> QED BY <1>1, <2>4, <2>5, <2>6, <2>7, StepOf, Unfolded
<1> QED BY <1>2, <1>3 DEF handle_write_sector

-----------------------------------------------------------------------------
(***************************************************************************)
(* The remaining steps.                                                    *)
(***************************************************************************)

\* A mount or a sector command starts by reading the headers.
LEMMA StartReadStep ==
  ASSUME Inv, NEW p \in Procs, NEW cmd, cmd \notin {"none", "create", "hidden"},
         NEW pw, NEW hpw, NEW size, Becomes(p, Run(cmd, "read", pw, hpw, size)),
         UNCHANGED file, nextKey' = nextKey
  PROVE  ApartInv'
<1> DEFINE x == Run(cmd, "read", pw, hpw, size)
<1>1. x.cmd = cmd /\ x.pc = "read" /\ x.cur = 0
  BY DEF Run, Idle
<1> HIDE DEF x
<1>2. Quiet(x) /\ CommandOK(x, exists)
  BY <1>1 DEF Quiet, CommandOK
<1> QED BY <1>2, QuietStep DEF x

\* create-hidden opens the container like a mount.
LEMMA StartCreateHiddenStep ==
  ASSUME Inv, NEW p \in Procs, NEW pw \in Passwords, NEW hpw \in Passwords,
         NEW mb \in HiddenSizes, StartCreateHidden(p, pw, hpw, mb)
  PROVE  ApartInv'
<1> DEFINE size == mb * SectorsPerMB
           x == Run("hidden", "read", pw, hpw, size)
<1>1. size \in Nat /\ size > 0
  BY SizesPositive, ContainerAssumption
<1>2. x.cmd = "hidden" /\ x.pc = "read" /\ x.cur = 0 /\ x.size = size
      /\ x.hpw = hpw
  BY DEF Run, Idle
<1>3. Ends(p, "EINVAL") \/ Becomes(p, x)
  BY DEF StartCreateHidden
<1>4. UNCHANGED file /\ nextKey' = nextKey
  BY DEF StartCreateHidden
<1> HIDE DEF x, size
<1>5. Quiet(x) /\ CommandOK(x, exists)
  BY <1>1, <1>2 DEF Quiet, CommandOK
<1> QED BY <1>3, <1>4, <1>5, EndStep, QuietStep

\* Commands that end without a write.
LEMMA OtherEndsStep ==
  ASSUME Inv, NEW p \in Procs,
         \/ FormatDone(p) \/ LoadFails(p) \/ SectorRefused(p)
         \/ handle_read_sector(p) \/ Unmount(p) \/ Crash(p)
  PROVE  ApartInv'
<1>1. UNCHANGED file /\ nextKey' = nextKey /\ \E r : Ends(p, r)
  BY DEF FormatDone, LoadFails, OpenFails, SectorRefused, handle_read_sector,
         Unmount, Crash
<1> QED BY <1>1, EndStep

\* The invariant apart from the types, for every step.
LEMMA ApartStep ==
  ASSUME Inv, [Next]_vars
  PROVE  ApartInv'
<1>1. ASSUME NEW p \in Procs, Command(p) PROVE ApartInv'
  <2>1. ASSUME NEW mb \in ContainerSizes, NEW pw \in Passwords,
               StartCreate(p, mb, pw)
        PROVE  ApartInv'
    BY <2>1, StartCreateStep
  <2>2. ASSUME NEW pw, NEW hpw, NEW cmd \in {"mount", "protect"},
               StartMount(p, cmd, pw, hpw)
        PROVE  ApartInv'
    BY <2>2, StartReadStep DEF StartMount
  <2>3. ASSUME NEW pw \in Passwords, NEW hpw \in Passwords, NEW mb \in HiddenSizes,
               StartCreateHidden(p, pw, hpw, mb)
        PROVE  ApartInv'
    BY <2>3, StartCreateHiddenStep
  <2>4. ASSUME NEW cmd \in {"write-sector", "read-sector"}, NEW pw, NEW lba,
               StartSector(p, cmd, pw, lba)
        PROVE  ApartInv'
    BY <2>4, StartReadStep DEF StartSector
  <2> QED BY <1>1, <2>1, <2>2, <2>3, <2>4 DEF Command
<1>2. ASSUME NEW p \in Procs, Continue(p) PROVE ApartInv'
  BY <1>2, FillStep, OuterHeaderStep, FormatBlockStep, FormatFailsStep,
     OtherEndsStep, ReadHeadersStep, MountStep, PlaceHiddenStep,
     HiddenHeaderStep, WriteSectorStep DEF Continue
<1>3. CASE UNCHANGED vars
  <2>1. UNCHANGED <<img, len, exists, proc, nextKey>>
    BY <1>3 DEF vars
  <2> QED BY <2>1 DEF Inv, ApartInv, Commands, VolumesOfFile, Pairs, Views
<1> QED BY <1>1, <1>2, <1>3, OtherEndsStep, WriteBlockStep DEF Next

-----------------------------------------------------------------------------
(***************************************************************************)
(* Types.                                                                  *)
(***************************************************************************)

\* Commands as they start and end.
LEMMA RunTypes ==
  /\ \A r \in {"none", "ok", "fail", "EINVAL", "EACCES", "ENOSPC", "EIO"} :
       Idle(r) \in Process
  /\ \A cmd \in {"create", "hidden", "mount", "protect", "write-sector",
                 "read-sector"}, pc \in {"fill", "read"},
        pw \in Passwords, hpw \in Passwords \union {NoPassword}, size \in Nat :
       Run(cmd, pc, pw, hpw, size) \in Process
<1>1. NoVolume \in Volume
  BY DEF NoVolume, Volume, Keys
<1>2. \A r \in {"none", "ok", "fail", "EINVAL", "EACCES", "ENOSPC", "EIO"} :
        Idle(r) \in Process
  BY <1>1 DEF Idle, Process
<1>3. ASSUME NEW cmd \in {"create", "hidden", "mount", "protect", "write-sector",
                          "read-sector"}, NEW pc \in {"fill", "read"},
             NEW pw \in Passwords, NEW hpw \in Passwords \union {NoPassword},
             NEW size \in Nat
      PROVE  Run(cmd, pc, pw, hpw, size) \in Process
  BY <1>1 DEF Run, Idle, Process
<1> QED BY <1>2, <1>3

\* Sectors as they are written.
LEMMA ContentTypes ==
  /\ None \in Content /\ Random \in Content
  /\ \A d \in {"fs", "raw"}, n \in Nat, k \in Nat : crypt_sector(d, n, k) \in Content
  /\ \A pw \in Passwords, v \in Volume, ok \in BOOLEAN : Header(pw, v, ok) \in Content
<1>1. ASSUME NEW pw \in Passwords, NEW v \in Volume, NEW ok \in BOOLEAN
      PROVE  Header(pw, v, ok) \in Content
  <2>1. v.key \in Nat /\ v.size \in Nat
    BY DEF Volume, Keys
  <2>2. derive_master_key(pw, v.key, ok) \in MasterKeys(Passwords)
    BY <2>1 DEF derive_master_key, MasterKeys
  <2>3. HeaderKey(pw, v.key, ok) \in HeaderKeys(Passwords)
    BY <2>2 DEF HeaderKey, derive_header_key, HeaderKeys
  <2> QED BY <2>1, <2>3 DEF Header, encrypt_header, Content, Keys
<1>2. \A d \in {"fs", "raw"}, n \in Nat, k \in Nat : crypt_sector(d, n, k) \in Content
  BY DEF crypt_sector, Content, Keys
<1>3. None \in Content /\ Random \in Content
  BY DEF Content
<1> QED BY <1>1, <1>2, <1>3

\* Types after a step that changes the file and a process, given the new ones.
LEMMA TypeOf ==
  ASSUME ContainerTypeOK, img' \in [Sector -> Content], len' \in 0 .. Capacity,
         exists' \in BOOLEAN, proc' \in [Procs -> Process],
         nextKey' \in {nextKey, nextKey + 1}, told' \in SUBSET Nat, faults' \in Nat
  PROVE  ContainerTypeOK'
  BY DEF ContainerTypeOK, Keys

\* A fault is one of those left.
LEMMA FaultTypes ==
  ASSUME faults \in Nat
  PROVE  /\ WriteFails => faults' \in Nat
         /\ \A ok : Derives(ok) => faults' \in Nat
         /\ \A a, b, c : Derivations(a, b, c) => faults' \in Nat
<1>1. WriteFails => faults' \in Nat
  BY DEF WriteFails
<1>2. ASSUME NEW a, NEW b, NEW c, Derivations(a, b, c) PROVE faults' \in Nat
  <2> DEFINE all == {<<1, a>>, <<2, b>>, <<3, c>>}
             failed == {x \in all : ~x[2]}
  <2>1. IsFiniteSet({} \union {<<1, a>>})
    BY FS_EmptySet, FS_AddElement
  <2>2. IsFiniteSet(all)
    <3>1. IsFiniteSet((({} \union {<<1, a>>}) \union {<<2, b>>}) \union {<<3, c>>})
      BY <2>1, FS_AddElement
    <3>2. \A x, y, z : {x, y, z} = (({} \union {x}) \union {y}) \union {z}
      OBVIOUS
    <3> QED BY <3>1, <3>2
  <2>3. IsFiniteSet(failed)
    BY <2>2, FS_Subset
  <2>4. Cardinality(failed) \in Nat
    BY <2>3, FS_CardinalityType
  <2> QED BY <1>2, <2>4 DEF Derivations
<1> QED BY <1>1, <1>2 DEF Derives

\* A process that changes, and one that ends.
LEMMA ProcTypes ==
  ASSUME ContainerTypeOK, NEW p \in Procs
  PROVE  /\ \A x \in Process : Becomes(p, x) => proc' \in [Procs -> Process]
         /\ \A r \in {"none", "ok", "fail", "EINVAL", "EACCES", "ENOSPC", "EIO"} :
              Ends(p, r) => proc' \in [Procs -> Process]
         /\ told \in SUBSET Nat
         /\ UNCHANGED file => /\ img' \in [Sector -> Content]
                              /\ len' \in 0 .. Capacity /\ exists' \in BOOLEAN
         /\ Unlink => /\ img' \in [Sector -> Content]
                      /\ len' \in 0 .. Capacity /\ exists' \in BOOLEAN
         /\ \A s : \A c \in Content : WriteSector(s, c) =>
              /\ img' \in [Sector -> Content]
              /\ len' \in 0 .. Capacity /\ exists' \in BOOLEAN
<1>1. proc \in [Procs -> Process] /\ img \in [Sector -> Content]
      /\ len \in 0 .. Capacity /\ exists \in BOOLEAN /\ told \in SUBSET Nat
      /\ Capacity \in Nat
  BY ContainerAssumption DEF ContainerTypeOK, Keys
<1>2. \A x \in Process : Becomes(p, x) => proc' \in [Procs -> Process]
  BY <1>1 DEF Becomes
<1>3. ASSUME NEW r \in {"none", "ok", "fail", "EINVAL", "EACCES", "ENOSPC", "EIO"},
             Ends(p, r)
      PROVE  proc' \in [Procs -> Process]
  BY <1>2, <1>3, RunTypes DEF Ends
<1>4. UNCHANGED file => /\ img' \in [Sector -> Content]
                        /\ len' \in 0 .. Capacity /\ exists' \in BOOLEAN
  <2>1. UNCHANGED file => img' = img /\ len' = len /\ exists' = exists
    BY DEF file
  <2> QED BY <1>1, <2>1
<1>5. Unlink => /\ img' \in [Sector -> Content]
                /\ len' \in 0 .. Capacity /\ exists' \in BOOLEAN
  <2>1. Unlink => img' = [s \in Sector |-> None] /\ len' = 0 /\ exists' = FALSE
    BY DEF Unlink
  <2>2. [s \in Sector |-> None] \in [Sector -> Content]
    BY ContentTypes
  <2> QED BY <1>1, <2>1, <2>2, 0 \in 0 .. Capacity
<1>6. ASSUME NEW s, NEW c \in Content, WriteSector(s, c)
      PROVE  /\ img' \in [Sector -> Content]
             /\ len' \in 0 .. Capacity /\ exists' \in BOOLEAN
  BY <1>1, <1>6 DEF WriteSector
<1> QED BY <1>1, <1>2, <1>3, <1>4, <1>5, <1>6

\* The type of every variable after each step of a command.
LEMMA TypeStep ==
  ASSUME Inv, [Next]_vars
  PROVE  ContainerTypeOK'
<1>1. ContainerTypeOK /\ nextKey \in Nat /\ faults \in Nat /\ img \in [Sector -> Content]
      /\ len \in 0 .. Capacity /\ told \in SUBSET Nat /\ Capacity \in Nat
      /\ proc \in [Procs -> Process]
  BY ContainerAssumption DEF Inv, ContainerTypeOK, Keys
<1> USE <1>1
<1>2. ASSUME NEW p \in Procs, NEW mb \in ContainerSizes, NEW pw \in Passwords,
             StartCreate(p, mb, pw)
      PROVE  ContainerTypeOK'
  <2>1. Run("create", "fill", pw, NoPassword, mb * SectorsPerMB) \in Process
    BY RunTypes, SizesPositive, ContainerAssumption
  <2>2. nextKey' = nextKey /\ told' = told /\ faults' = faults
        /\ proc' \in [Procs -> Process]
    BY <1>2, <2>1, ProcTypes DEF StartCreate
  <2>3. img' \in [Sector -> Content] /\ len' \in 0 .. Capacity /\ exists' \in BOOLEAN
    <3>1. CASE UNCHANGED file
      BY <3>1, ProcTypes
    <3>2. CASE exists' = TRUE /\ len' = 0 /\ img' = [s \in Sector |-> None]
      BY <3>2, ContentTypes
    <3> QED BY <1>2, <3>1, <3>2 DEF StartCreate
  <2> QED BY <2>2, <2>3, TypeOf
<1>3. ASSUME NEW p \in Procs, NEW cmd \in {"mount", "protect", "write-sector",
                                           "read-sector"},
             NEW pw \in Passwords, NEW hpw \in Passwords \union {NoPassword},
             NEW size \in Nat, Becomes(p, Run(cmd, "read", pw, hpw, size)),
             UNCHANGED <<file, nextKey, told, faults>>
      PROVE  ContainerTypeOK'
  <2>1. Run(cmd, "read", pw, hpw, size) \in Process
    BY RunTypes
  <2>2. /\ proc' \in [Procs -> Process] /\ img' \in [Sector -> Content]
        /\ len' \in 0 .. Capacity /\ exists' \in BOOLEAN
    BY <1>3, <2>1, ProcTypes
  <2> QED BY <1>3, <2>2, TypeOf
<1>4. ASSUME NEW p \in Procs, NEW pw \in Passwords, NEW hpw \in Passwords,
             NEW mb \in HiddenSizes, StartCreateHidden(p, pw, hpw, mb)
      PROVE  ContainerTypeOK'
  <2>1. Run("hidden", "read", pw, hpw, mb * SectorsPerMB) \in Process
    BY RunTypes, SizesPositive, ContainerAssumption
  <2>2. /\ proc' \in [Procs -> Process] /\ img' \in [Sector -> Content]
        /\ len' \in 0 .. Capacity /\ exists' \in BOOLEAN
        /\ nextKey' = nextKey /\ told' = told /\ faults' = faults
    BY <1>4, <2>1, ProcTypes DEF StartCreateHidden
  <2> QED BY <2>2, TypeOf
<1>5. ASSUME NEW p \in Procs, CreateFails(p)
      PROVE  ContainerTypeOK'
  <2>1. /\ proc' \in [Procs -> Process] /\ img' \in [Sector -> Content]
        /\ len' \in 0 .. Capacity /\ exists' \in BOOLEAN /\ faults' \in Nat
        /\ nextKey' = nextKey /\ told' = told
    BY <1>5, ProcTypes, FaultTypes DEF CreateFails
  <2> QED BY <2>1, TypeOf
<1>6. ASSUME NEW p \in Procs, Fill(p)
      PROVE  ContainerTypeOK'
  <2> DEFINE x0 == proc[p]
  <2>1. x0 \in Process /\ x0.size \in Nat /\ x0.size <= Capacity /\ FillChunk \in Nat
    BY <1>6, Unfolded, Fields, ContainerAssumption DEF Fill, CommandOK
  <2>2. CASE CreateFails(p)
    BY <1>5, <2>2
  <2>3. CASE /\ len' = FillEnd(x0.size)
             /\ img' = [s \in Sector |->
                  IF s >= len /\ s < FillEnd(x0.size) THEN Random ELSE img[s]]
             /\ UNCHANGED <<exists, proc, faults, nextKey, told>>
    <3>1. len' \in 0 .. Capacity
      BY <2>1, <2>3 DEF FillEnd
    <3>2. img' \in [Sector -> Content]
      BY <2>3, ContentTypes
    <3> QED BY <2>3, <3>1, <3>2 DEF ContainerTypeOK
  <2>4. CASE /\ Becomes(p, [x0 EXCEPT !.pc = "header", !.vol =
                 [NoVolume EXCEPT !.start = 1, !.size = len \div 2,
                                  !.key = nextKey]])
             /\ nextKey' = nextKey + 1 /\ UNCHANGED <<file, told, faults>>
    <3> DEFINE v == [NoVolume EXCEPT !.start = 1, !.size = len \div 2,
                                     !.key = nextKey]
               x == [x0 EXCEPT !.pc = "header", !.vol = v]
    <3>1. v \in Volume
      <4>1. len \div 2 \in Nat
        OBVIOUS
      <4> QED BY <4>1 DEF NoVolume, Volume, Keys
    <3> HIDE DEF v
    <3>2. x \in Process
      BY <2>1, <3>1 DEF Process
    <3> HIDE DEF x
    <3>3. Becomes(p, x)
      BY <2>4 DEF x, v
    <3>4. /\ proc' \in [Procs -> Process] /\ img' \in [Sector -> Content]
          /\ len' \in 0 .. Capacity /\ exists' \in BOOLEAN
      BY <2>4, <3>2, <3>3, ProcTypes
    <3> QED BY <2>4, <3>4, TypeOf
  <2> QED BY <1>6, <2>2, <2>3, <2>4 DEF Fill
<1>7. ASSUME NEW p \in Procs, NEW pc \in {"format", "mounted"},
             Becomes(p, [proc[p] EXCEPT !.pc = pc])
      PROVE  proc' \in [Procs -> Process]
  <2>1. [proc[p] EXCEPT !.pc = pc] \in Process
    BY DEF Process
  <2> QED BY <1>7, <2>1, ProcTypes
<1>8. ASSUME NEW p \in Procs, OuterHeader(p)
      PROVE  ContainerTypeOK'
  <2>1. CASE CreateFails(p)
    BY <1>5, <2>1
  <2>2. ASSUME NEW ok \in BOOLEAN, KdfChecked(ok), Derives(ok),
               WriteSector(0, Header(proc[p].pw, proc[p].vol, ok)),
               Becomes(p, [proc[p] EXCEPT !.pc = "format"]),
               UNCHANGED <<nextKey, told>>
        PROVE  ContainerTypeOK'
    <3>1. proc[p].pw \in Passwords /\ proc[p].vol \in Volume
      BY <1>8, Unfolded, Fields DEF OuterHeader, CommandOK
    <3>2. /\ proc' \in [Procs -> Process] /\ img' \in [Sector -> Content]
          /\ len' \in 0 .. Capacity /\ exists' \in BOOLEAN /\ faults' \in Nat
      BY <1>7, <2>2, <3>1, ProcTypes, ContentTypes, FaultTypes
    <3> QED BY <2>2, <3>2, TypeOf
  <2> QED BY <1>8, <2>1, <2>2 DEF OuterHeader
<1>9. ASSUME NEW p \in Procs, FormatBlock(p)
      PROVE  ContainerTypeOK'
  <2>1. [proc[p] EXCEPT !.cur = @ + 1] \in Process
    BY DEF Process
  <2>2. crypt_sector("fs", proc[p].cur, proc[p].vol.key) \in Content
    BY ContentTypes, Fields
  <2>3. /\ proc' \in [Procs -> Process] /\ img' \in [Sector -> Content]
        /\ len' \in 0 .. Capacity /\ exists' \in BOOLEAN
        /\ nextKey' = nextKey /\ told' = told /\ faults' = faults
    BY <1>9, <2>1, <2>2, ProcTypes DEF FormatBlock
  <2> QED BY <2>3, TypeOf
<1>10. ASSUME NEW p \in Procs, FormatFails(p)
       PROVE  ContainerTypeOK'
  <2>1. faults' \in Nat /\ nextKey' = nextKey /\ told' = told
    BY <1>10, FaultTypes DEF FormatFails
  <2>2. proc' \in [Procs -> Process]
    BY <1>10, ProcTypes DEF FormatFails
  <2>3. Unlink \/ UNCHANGED file
    BY <1>10 DEF FormatFails, AfterFormatFails
  <2> QED BY <2>1, <2>2, <2>3, ProcTypes, TypeOf
<1>11. ASSUME NEW p \in Procs, FormatDone(p)
       PROVE  ContainerTypeOK'
  <2>1. told' \in SUBSET Nat /\ nextKey' = nextKey /\ faults' = faults
    BY <1>11, Fields DEF FormatDone
  <2> QED BY <1>11, <2>1, ProcTypes, TypeOf DEF FormatDone
<1>12. ASSUME NEW p \in Procs, Ends(p, "none") \/ Ends(p, "ok") \/ Ends(p, "fail")
                               \/ Ends(p, "EACCES"),
              UNCHANGED <<file, nextKey, told>>, faults' \in Nat
       PROVE  ContainerTypeOK'
  BY <1>12, ProcTypes, TypeOf
<1>13. ASSUME NEW p \in Procs, ReadHeaders(p)
       PROVE  ContainerTypeOK'
  <2>1. faults' \in Nat
    BY <1>13, FaultTypes DEF ReadHeaders
  <2>2. CASE OpenFails(p)
    BY <1>12, <2>1, <2>2 DEF OpenFails
  <2>3. ASSUME NEW u \in Volume, UNCHANGED <<file, nextKey, told>>,
               Becomes(p, [proc[p] EXCEPT !.pc = "load", !.vol = u])
        PROVE  ContainerTypeOK'
    <3>1. [proc[p] EXCEPT !.pc = "load", !.vol = u] \in Process
      BY DEF Process
    <3> QED BY <2>1, <2>3, <3>1, ProcTypes, TypeOf
  <2>4. PICK outer, hidden, guard \in BOOLEAN :
          LET pw == proc[p].pw
              v == Selected(pw, outer)
              Loading(u) == /\ Becomes(p, [proc[p] EXCEPT !.pc = "load", !.vol = u])
                            /\ UNCHANGED <<file, nextKey, told>>
          IN  \/ OpenFails(p)
              \/ /\ len >= HeaderGap + 1
                 /\ OuterOpens(pw, outer) \/ HiddenOpens(pw, hidden)
                 /\ \/ Loading(v)
                    \/ /\ ~v.hidden /\ HiddenOpens(proc[p].hpw, guard)
                       /\ Loading(Guarded(v))
    BY <1>13 DEF ReadHeaders
  <2>5. OuterOpens(proc[p].pw, outer) /\ len >= HeaderGap + 1 => OuterVolume \in Volume
    <3>1. OuterOpens(proc[p].pw, outer) /\ len >= HeaderGap + 1 =>
            img[0].kind = "header" /\ 0 \in Sector
      BY Unfolded DEF OuterOpens, Authentic, Sector
    <3>2. OuterOpens(proc[p].pw, outer) /\ len >= HeaderGap + 1 =>
            img[0].size \in Nat /\ img[0].key \in Nat
      BY <3>1, Fields
    <3> QED BY <3>2 DEF OuterVolume, NoVolume, Volume, Keys
  <2>6. ASSUME NEW pw, NEW ok \in BOOLEAN, HiddenOpens(pw, ok), len >= HeaderGap + 1
        PROVE  HiddenVolume \in Volume
    <3>1. HiddenHeaderAt \in Sector /\ img[HiddenHeaderAt].kind = "header"
          /\ HiddenVolume.start \in Nat
      BY <2>6, HiddenHeaderOK
    <3>2. img[HiddenHeaderAt].size \in Nat /\ img[HiddenHeaderAt].key \in Nat
      BY <3>1, Fields
    <3>3. HiddenHeaderAt - img[HiddenHeaderAt].size \in Nat
      BY <3>1 DEF HiddenVolume, NoVolume
    <3> QED BY <3>2, <3>3 DEF HiddenVolume, NoVolume, Volume, Keys
  <2>7. (OuterOpens(proc[p].pw, outer) \/ HiddenOpens(proc[p].pw, hidden))
          /\ len >= HeaderGap + 1 => Selected(proc[p].pw, outer) \in Volume
    BY <2>5, <2>6 DEF Selected
  <2>8. ASSUME NEW v \in Volume, HiddenOpens(proc[p].hpw, guard), len >= HeaderGap + 1
        PROVE  Guarded(v) \in Volume
    <3>1. HiddenVolume.start \in Nat /\ len - 1 \in Nat
      BY <2>8, HiddenHeaderOK, Unfolded
    <3> QED BY <3>1 DEF Guarded, Volume
  <2> QED BY <2>2, <2>3, <2>4, <2>7, <2>8
<1>14. ASSUME NEW p \in Procs, PlaceHidden(p)
       PROVE  ContainerTypeOK'
  <2> DEFINE size == proc[p].size
             v == [NoVolume EXCEPT !.start = HiddenHeaderAt - size,
                     !.size = size, !.key = nextKey, !.hidden = TRUE]
             x == [proc[p] EXCEPT !.pc = "header", !.vol = v]
  <2>1. CASE Ends(p, "ENOSPC") /\ UNCHANGED <<file, nextKey, told, faults>>
    BY <2>1, ProcTypes, TypeOf
  <2>2. CASE /\ Fits(proc[p].vol, size) /\ Becomes(p, x)
             /\ nextKey' = nextKey + 1 /\ UNCHANGED <<file, told, faults>>
    <3>1. HiddenHeaderAt - size \in Nat /\ size \in Nat
      BY <2>2, Fields, Unfolded DEF Fits, HiddenHeaderAt
    <3>2. v \in Volume
      BY <3>1 DEF NoVolume, Volume, Keys
    <3> HIDE DEF v
    <3>3. x \in Process
      BY <3>2 DEF Process
    <3> QED BY <2>2, <3>3, ProcTypes, TypeOf
  <2> QED BY <1>14, <2>1, <2>2 DEF PlaceHidden
<1>15. ASSUME NEW p \in Procs, HiddenHeader(p)
       PROVE  ContainerTypeOK'
  <2>1. CASE WriteFails /\ Ends(p, "EIO") /\ UNCHANGED <<file, nextKey, told>>
    BY <2>1, ProcTypes, FaultTypes, TypeOf
  <2>2. ASSUME NEW ok \in BOOLEAN, Derives(ok),
               WriteSector(HiddenHeaderAt, Header(proc[p].hpw, proc[p].vol, ok)),
               Becomes(p, [proc[p] EXCEPT !.pc = "format"]),
               UNCHANGED <<nextKey, told>>
        PROVE  ContainerTypeOK'
    <3>1. proc[p].hpw \in Passwords /\ proc[p].vol \in Volume
      BY <1>15, Unfolded, Fields DEF HiddenHeader, CommandOK
    <3>2. /\ proc' \in [Procs -> Process] /\ img' \in [Sector -> Content]
          /\ len' \in 0 .. Capacity /\ exists' \in BOOLEAN /\ faults' \in Nat
      BY <1>7, <2>2, <3>1, ProcTypes, ContentTypes, FaultTypes
    <3> QED BY <2>2, <3>2, TypeOf
  <2> QED BY <1>15, <2>1, <2>2 DEF HiddenHeader
<1>16. ASSUME NEW p \in Procs, NEW n \in VolumeBlocks, WriteBlock(p, n)
       PROVE  ContainerTypeOK'
  <2>1. crypt_sector("fs", n, proc[p].vol.key) \in Content
    BY ContentTypes, Fields, ContainerAssumption
  <2> QED BY <1>16, <2>1, ProcTypes, TypeOf DEF WriteBlock
<1>17. ASSUME NEW p \in Procs, handle_write_sector(p)
       PROVE  ContainerTypeOK'
  <2>1. crypt_sector("raw", proc[p].size, proc[p].vol.key) \in Content
    BY ContentTypes, Fields
  <2>2. /\ img' \in [Sector -> Content] /\ len' \in 0 .. Capacity
        /\ exists' \in BOOLEAN /\ proc' \in [Procs -> Process] /\ faults' \in Nat
        /\ nextKey' = nextKey /\ told' = told
    BY <1>17, <2>1, ProcTypes, FaultTypes DEF handle_write_sector
  <2> QED BY <2>2, TypeOf
<1>18. ASSUME NEW p \in Procs, Mount(p)
       PROVE  ContainerTypeOK'
  BY <1>7, <1>18, ProcTypes, TypeOf DEF Mount
<1>19. ASSUME NEW p \in Procs,
              LoadFails(p) \/ SectorRefused(p) \/ handle_read_sector(p)
              \/ Unmount(p) \/ Crash(p)
       PROVE  ContainerTypeOK'
  <2>1. UNCHANGED <<file, nextKey, told>> /\ faults' = faults
    BY <1>19 DEF LoadFails, OpenFails, SectorRefused, handle_read_sector,
                 Unmount, Crash
  <2>2. Ends(p, "none") \/ Ends(p, "ok") \/ Ends(p, "fail") \/ Ends(p, "EACCES")
    BY <1>19 DEF LoadFails, OpenFails, SectorRefused, handle_read_sector,
                 Unmount, Crash
  <2> QED BY <1>12, <2>1, <2>2
<1>20. ASSUME NEW p \in Procs, Command(p) PROVE ContainerTypeOK'
  <2>1. CASE \E mb \in ContainerSizes, pw \in Passwords : StartCreate(p, mb, pw)
    BY <1>2, <2>1
  <2>2. CASE \E pw \in Passwords : StartMount(p, "mount", pw, NoPassword)
    BY <1>3, <2>2 DEF StartMount
  <2>3. CASE \E pw, hpw \in Passwords : StartMount(p, "protect", pw, hpw)
    BY <1>3, <2>3 DEF StartMount
  <2>4. CASE \E pw, hpw \in Passwords, mb \in HiddenSizes :
               StartCreateHidden(p, pw, hpw, mb)
    BY <1>4, <2>4
  <2>5. CASE \E cmd \in {"write-sector", "read-sector"}, pw \in Passwords,
                lba \in RawBlocks : StartSector(p, cmd, pw, lba)
    BY <1>3, <2>5, ContainerAssumption DEF StartSector
  <2> QED BY <1>20, <2>1, <2>2, <2>3, <2>4, <2>5 DEF Command
<1>21. ASSUME NEW p \in Procs, Continue(p) PROVE ContainerTypeOK'
  BY <1>6, <1>8, <1>9, <1>10, <1>11, <1>13, <1>14, <1>15, <1>17, <1>18, <1>19,
     <1>21 DEF Continue
<1>22. CASE UNCHANGED vars
  BY <1>22 DEF vars, ContainerTypeOK
<1> QED BY <1>16, <1>19, <1>20, <1>21, <1>22 DEF Next

-----------------------------------------------------------------------------
(***************************************************************************)
(* The invariant holds.                                                    *)
(***************************************************************************)

\* Before the first command there is no file and no process runs.
LEMMA InitInv ==
  ASSUME Init
  PROVE  Inv
<1>1. Capacity \in Nat /\ MaxFaults \in Nat
  BY ContainerAssumption
<1>2. ContainerTypeOK
  <2>1. img \in [Sector -> Content]
    BY ContentTypes DEF Init
  <2>2. proc \in [Procs -> Process]
    BY RunTypes DEF Init
  <2>3. /\ len \in 0 .. Capacity /\ exists \in BOOLEAN /\ nextKey \in Nat
        /\ told \in SUBSET Nat /\ faults \in Nat
    <3>1. /\ len = 0 /\ exists = FALSE /\ nextKey = 0 /\ told = {}
          /\ faults = MaxFaults
      BY DEF Init
    <3>2. 0 \in 0 .. Capacity
      BY <1>1
    <3> QED BY <1>1, <3>1, <3>2
  <2> QED BY <2>1, <2>2, <2>3 DEF ContainerTypeOK, Keys
<1>3. \A p \in Procs : proc[p] = Idle("none")
  BY DEF Init
<1>4. Commands /\ VolumesOfFile /\ Pairs /\ Views
  BY <1>3, IdleQuiet, QuietOK DEF Commands, VolumesOfFile, Pairs, Views
<1>5. Blank(img) /\ \A s \in Sector : img[s] = None
  BY DEF Init, Blank, None
<1>6. FileOK(img, len, exists, nextKey)
  BY <1>5, BlankFile
<1> QED BY <1>2, <1>4, <1>6 DEF Inv, ApartInv

\* The inductive invariant holds in every reachable state.
LEMMA InvHolds == Spec => []Inv
<1>1. Init => Inv
  BY InitInv
<1>2. Inv /\ [Next]_vars => Inv'
  BY ApartStep, TypeStep DEF Inv
<1> QED BY <1>1, <1>2, PTL DEF Spec

\* Every variable has its type: the file stays within its capacity, and every
\* sector is one a command of denyfs writes.
THEOREM ContainerTypeCorrect == Spec => []ContainerTypeOK
<1>1. Inv => ContainerTypeOK
  BY DEF Inv
<1> QED BY <1>1, InvHolds, PTL

\* The guard that denyfs_vol_open sets for --protect-hidden never refuses a
\* block: the hidden volume it names starts past the outer volume's end.
THEOREM GuardNeverRefuses == Spec => []GuardNeverNeeded
<1>1. ASSUME Inv PROVE GuardNeverNeeded
  <2> SUFFICES ASSUME NEW p \in Procs, proc[p].pc = "mounted",
                      NEW n \in 0 .. proc[p].vol.size - 1,
                      Protected(proc[p].vol, n)
               PROVE  FALSE
    BY DEF GuardNeverNeeded
  <2> DEFINE v == proc[p].vol
  <2>1. v.start \in Nat /\ v.size \in Nat /\ v.lo \in Nat
    BY <1>1, Unfolded, Fields
  <2>2. VolumeOK(proc[p], img, len, nextKey)
    BY <1>1, Unfolded
  <2>3. ~v.hidden /\ v.lo > v.size
    BY <2>2 DEF VolumeOK, Protected
  <2>4. v.start = 1
    BY <2>2, <2>3 DEF VolumeOK, IsHidden, IsOuter
  <2> QED BY <2>1, <2>3, <2>4 DEF Protected
<1> QED BY <1>1, InvHolds, PTL

\* denyfs_vol_open, which looks at no result of a key derivation, still opens
\* a volume only for the passphrase its header was sealed under.
THEOREM OpensOnlyOwnVolume == Spec => []OpensOwnVolume
<1>1. ASSUME Inv PROVE OpensOwnVolume
  BY <1>1, Unfolded DEF ContentsOK, OpensOwnVolume, Authentic, decrypt_header
<1> QED BY <1>1, InvHolds, PTL

-----------------------------------------------------------------------------
(***************************************************************************)
(* What a step may do to the file.                                         *)
(***************************************************************************)

\* A create that fails removes the file.
Removes(p) == /\ Young(proc[p]) /\ Unlink
              /\ proc' = [proc EXCEPT ![p] = Idle("fail")]

\* create-hidden writes its header.
WritesHidden(p) ==
  /\ IsHidden(proc[p].vol, img, len)
  /\ \E c : WriteSector(HiddenHeaderAt, c)

\* A process writes a block of the volume it formats or has open.
WritesBlock(p) ==
  LET v == proc[p].vol
  IN  \E n \in Nat, d \in {"fs", "raw"} :
        /\ Belongs(v.start + n, n, v.key)
        /\ v.key = img[0].key \/ v.hidden
        /\ WriteSector(v.start + n, crypt_sector(d, n, v.key))

\* A block of an open volume is written for that volume.
LEMMA OpenWrite ==
  ASSUME Inv, NEW p \in Procs, NEW n \in Nat, NEW d \in {"fs", "raw"},
         IsHidden(proc[p].vol, img, len) \/ IsOuter(proc[p].vol, img),
         n < proc[p].vol.size,
         WriteSector(proc[p].vol.start + n, crypt_sector(d, n, proc[p].vol.key))
  PROVE  WritesBlock(p)
<1>1. proc[p].vol \in Volume
  BY Unfolded, Fields
<1>2. Belongs(proc[p].vol.start + n, n, proc[p].vol.key)
  BY <1>1, OpenBlock
<1>3. proc[p].vol.key = img[0].key \/ proc[p].vol.hidden
  BY DEF IsHidden, IsOuter
<1> QED BY <1>2, <1>3 DEF WritesBlock

\* Every step that changes a file in use does one of the three.
LEMMA FileChanges ==
  ASSUME Inv, Next, img' # img
  PROVE  \/ Blank(img)
         \/ \E p \in Procs : Removes(p) \/ WritesHidden(p) \/ WritesBlock(p)
<1>1. ASSUME NEW p \in Procs, NEW mb, NEW pw, StartCreate(p, mb, pw)
      PROVE  Blank(img)
  BY <1>1, Unfolded DEF StartCreate, MayCreate, file, FileOK, Blank, None
<1>2. ASSUME NEW p \in Procs, Fill(p)
      PROVE  Blank(img)
  BY <1>2, Unfolded DEF Fill, CommandOK, ContentsOK
<1>3. ASSUME NEW p \in Procs, OuterHeader(p)
      PROVE  Blank(img)
  BY <1>3, Unfolded DEF OuterHeader, ContentsOK
<1>4. ASSUME NEW p \in Procs, FormatBlock(p)
      PROVE  WritesBlock(p)
  <2> DEFINE x == proc[p]
  <2>1. /\ x.cur \in Nat /\ x.cur < x.vol.size /\ DataStart(x.vol.size) < x.vol.size
        /\ WriteSector(x.vol.start + x.cur, crypt_sector("fs", x.cur, x.vol.key))
    BY <1>4, Unfolded, Fields, DataStartNat DEF FormatBlock
  <2>2. IsHidden(x.vol, img, len) \/ IsOuter(x.vol, img)
    BY <1>4, Unfolded DEF FormatBlock, CommandOK, VolumeOK
  <2> QED BY <2>1, <2>2, OpenWrite
<1>5. ASSUME NEW p \in Procs, FormatFails(p)
      PROVE  Removes(p)
  <2> DEFINE x == proc[p]
  <2>1. x.cmd = "create" /\ x.pc = "format" /\ Unlink /\ Ends(p, "fail")
    BY <1>5 DEF FormatFails, AfterFormatFails, file
  <2>2. x.cur \in Nat /\ DataStart(x.vol.size) \in Nat
    BY Unfolded, Fields, DataStartNat
  <2>3. DataStart(x.vol.size) >= x.vol.size => x.cur = 0
    BY <2>1, Unfolded DEF VolumeOK
  <2>4. x.cur <= DataStart(x.vol.size)
    BY <1>5, <2>2, <2>3 DEF FormatFails
  <2> QED BY <2>1, <2>4 DEF Removes, Young, Ends, Becomes
<1>6. ASSUME NEW p \in Procs, HiddenHeader(p)
      PROVE  WritesHidden(p)
  BY <1>6, Unfolded DEF HiddenHeader, VolumeOK, WritesHidden, file
<1>7. ASSUME NEW p \in Procs, handle_write_sector(p)
      PROVE  WritesBlock(p)
  <2> DEFINE x == proc[p]
  <2>1. /\ Load(p) /\ x.size < x.vol.size /\ x.size \in Nat
        /\ WriteSector(x.vol.start + x.size, crypt_sector("raw", x.size, x.vol.key))
    BY <1>7, Unfolded, Fields DEF handle_write_sector, InVolume, file
  <2> QED BY <2>1, LoadedVolume, OpenWrite
<1>8. ASSUME NEW p \in Procs, NEW n \in VolumeBlocks, WriteBlock(p, n)
      PROVE  WritesBlock(p)
  <2>1. IsHidden(proc[p].vol, img, len) \/ IsOuter(proc[p].vol, img)
    BY <1>8, Unfolded DEF WriteBlock, VolumeOK
  <2> QED BY <1>8, <2>1, OpenWrite, ContainerAssumption DEF WriteBlock
<1>9. ASSUME NEW p \in Procs,
             \/ FormatDone(p) \/ ReadHeaders(p) \/ LoadFails(p) \/ Mount(p)
             \/ PlaceHidden(p) \/ SectorRefused(p) \/ handle_read_sector(p)
             \/ Unmount(p) \/ Crash(p)
             \/ \E cmd, pw, hpw : StartMount(p, cmd, pw, hpw)
             \/ \E pw, hpw, mb : StartCreateHidden(p, pw, hpw, mb)
             \/ \E cmd, pw, lba : StartSector(p, cmd, pw, lba)
      PROVE  FALSE
  BY <1>9 DEF FormatDone, ReadHeaders, LoadFails, OpenFails, Mount, PlaceHidden,
     SectorRefused, handle_read_sector, Unmount, Crash, StartMount,
     StartCreateHidden, StartSector, file
<1>10. PICK p \in Procs : \/ Command(p) \/ Continue(p) \/ Unmount(p) \/ Crash(p)
                          \/ \E n \in VolumeBlocks : WriteBlock(p, n)
  BY DEF Next
<1>11. Command(p) => Blank(img)
  BY <1>1, <1>9 DEF Command
<1>12. Continue(p) => Blank(img) \/ Removes(p) \/ WritesHidden(p) \/ WritesBlock(p)
  BY <1>2, <1>3, <1>4, <1>5, <1>6, <1>7, <1>9 DEF Continue
<1> QED BY <1>8, <1>9, <1>10, <1>11, <1>12

\* The outer volume keeps its header and blocks, whoever writes, until the
\* create that formats it fails.
THEOREM OuterVolumeKept == Spec => OuterKept
<1>1. ASSUME Inv, Next, NEW s \in Sector, OuterSector(s), ~SameOwner(s)
      PROVE  \E p \in Procs : proc[p].cmd = "create" /\ proc'[p].ret = "fail"
  <2>1. img' # img
    BY <1>1 DEF SameOwner
  <2>2. HasOuter(img) /\ ~Blank(img) /\ img[0].size \in Nat /\ img[0].key \in Nat
    <3>1. 0 \in Sector /\ img[0].kind = "header"
      BY <1>1, Unfolded DEF Sector, OuterSector
    <3> QED BY <1>1, <3>1, Unfolded, Fields DEF HasOuter, Blank
  <2>3. s = 0 \/ (/\ img[s].kind = "block" /\ img[s].key = img[0].key
                  /\ s = img[s].n + 1 /\ s <= img[0].size)
    <3>1. BlockOK(s, img)
      BY <1>1, Unfolded DEF FileOK
    <3> QED BY <1>1, <2>2, <3>1 DEF OuterSector, BlockOK
  <2>4. PICK p \in Procs : Removes(p) \/ WritesHidden(p) \/ WritesBlock(p)
    BY <1>1, <2>1, <2>2, FileChanges
  <2>5. CASE Removes(p)
    <3>1. proc[p].cmd = "create" /\ proc'[p].ret = "fail"
      BY <1>1, <2>5, Unfolded DEF Removes, Young, Idle
    <3> QED BY <3>1
  <2>6. CASE WritesHidden(p)
    <3>1. /\ HiddenHeaderAt = proc[p].vol.start + proc[p].vol.size
          /\ proc[p].vol.start > img[0].size /\ proc[p].vol.size > 0
          /\ proc[p].vol.start \in Nat /\ proc[p].vol.size \in Nat
      BY <1>1, <2>6, Unfolded, Fields DEF WritesHidden, IsHidden, HiddenHeaderAt
    <3>2. s # HiddenHeaderAt
      BY <2>2, <2>3, <3>1
    <3>3. img'[s] = img[s]
      BY <1>1, <2>6, <3>2, Unfolded DEF WritesHidden, WriteSector
    <3> QED BY <1>1, <3>3 DEF SameOwner
  <2>7. CASE WritesBlock(p)
    <3> DEFINE v == proc[p].vol
    <3>1. PICK n \in Nat, d \in {"fs", "raw"} :
            /\ Belongs(v.start + n, n, v.key)
            /\ WriteSector(v.start + n, crypt_sector(d, n, v.key))
      BY <2>7 DEF WritesBlock
    <3>2. s = v.start + n
      BY <1>1, <3>1, Unfolded DEF SameOwner, WriteSector
    <3>3. img'[s] = crypt_sector(d, n, v.key)
      BY <1>1, <3>1, <3>2, Unfolded DEF WriteSector
    <3>4. v.key \in Nat /\ v.start \in Nat
      BY <1>1, Unfolded, Fields
    <3>5. img[s].kind = "block" /\ v.key = img[0].key /\ s = n + 1
      BY <2>2, <2>3, <3>1, <3>2, <3>4 DEF Belongs
    <3>6. img[s].key = img[0].key /\ img[s].n = n
      <4>1. img[s].n \in Nat
        BY <1>1, <3>5, Unfolded, Fields
      <4> QED BY <2>3, <3>5, <4>1
    <3>7. Decrypts(img'[s], img[s].n, img[s].key)
      BY <3>3, <3>5, <3>6 DEF Decrypts, crypt_sector
    <3> QED BY <1>1, <3>5, <3>7 DEF SameOwner
  <2> QED BY <2>4, <2>5, <2>6, <2>7
<1>2. Inv /\ [Next]_vars =>
        [\A s \in Sector : OuterSector(s) /\ ~SameOwner(s) =>
           \E p \in Procs : proc[p].cmd = "create" /\ proc'[p].ret = "fail"]_vars
  BY <1>1
<1> QED BY <1>2, InvHolds, PTL DEF Spec, OuterKept

\* The hidden volume loses a block only to a process that creates a hidden
\* volume or has one open.
THEOREM HiddenVolumeKept == Spec => HiddenKept
<1>1. ASSUME Inv, Next, NEW s \in Sector, len >= HeaderGap + 1,
             img[HiddenHeaderAt].kind = "header", img[s].kind = "block",
             img[s].key = img[HiddenHeaderAt].key, ~SameOwner(s)
      PROVE  /\ img'[s].kind = "block"
             /\ \E p \in Procs : /\ proc[p].vol.hidden
                                /\ proc[p].vol.key = img'[s].key
  <2> DEFINE h == HiddenHeaderAt
  <2>1. img' # img
    BY <1>1 DEF SameOwner
  <2>2. h \in Sector /\ h # 0
    BY <1>1, Unfolded DEF HiddenHeaderAt, Sector
  <2>3. ~Blank(img)
    BY <1>1, <2>2 DEF Blank
  <2>4. HasOuter(img) /\ img[h].key > img[0].key
    <3>1. HeaderOK(h, img, len, nextKey)
      BY <1>1, <2>2, Unfolded DEF FileOK
    <3> QED BY <1>1, <2>2, <3>1 DEF HeaderOK
  <2>5. img[0].size \in Nat /\ img[0].key \in Nat
    BY <1>1, <2>4, Unfolded, Fields DEF HasOuter
  <2>6. s > img[0].size
    <3>1. BlockOK(s, img)
      BY <1>1, Unfolded DEF FileOK
    <3> QED BY <1>1, <2>4, <2>5, <3>1 DEF BlockOK
  <2>7. PICK p \in Procs : Removes(p) \/ WritesHidden(p) \/ WritesBlock(p)
    BY <1>1, <2>1, <2>3, FileChanges
  <2>8. CASE Removes(p)
    <3>1. Blank(img) \/ Bare(img, proc[p].cur)
      BY <1>1, <2>8, Unfolded DEF Removes, ContentsOK, Young
    <3> QED BY <1>1, <2>2, <2>3, <3>1 DEF Bare
  <2>9. CASE WritesHidden(p)
    <3>1. s # h
      BY <1>1
    <3>2. img'[s] = img[s]
      BY <1>1, <2>9, <3>1, Unfolded DEF WritesHidden, WriteSector
    <3> QED BY <1>1, <3>2 DEF SameOwner
  <2>10. CASE WritesBlock(p)
    <3> DEFINE v == proc[p].vol
    <3>1. PICK n \in Nat, d \in {"fs", "raw"} :
            /\ Belongs(v.start + n, n, v.key)
            /\ v.key = img[0].key \/ v.hidden
            /\ WriteSector(v.start + n, crypt_sector(d, n, v.key))
      BY <2>10 DEF WritesBlock
    <3>2. s = v.start + n
      BY <1>1, <3>1, Unfolded DEF SameOwner, WriteSector
    <3>3. img'[s] = crypt_sector(d, n, v.key)
      BY <1>1, <3>1, <3>2, Unfolded DEF WriteSector
    <3>4. img'[s].kind = "block" /\ img'[s].key = v.key
      BY <3>3 DEF crypt_sector
    <3>5. v.key \in Nat
      BY <1>1, Unfolded, Fields
    <3>6. v.hidden
      BY <2>5, <2>6, <3>1, <3>2, <3>5 DEF Belongs
    <3> QED BY <3>4, <3>6
  <2> QED BY <2>7, <2>8, <2>9, <2>10
<1>2. Inv /\ [Next]_vars =>
        [\A s \in Sector :
           /\ len >= HeaderGap + 1
           /\ img[HiddenHeaderAt].kind = "header"
           /\ img[s].kind = "block" /\ img[s].key = img[HiddenHeaderAt].key
           /\ ~SameOwner(s)
           => /\ img'[s].kind = "block"
              /\ \E p \in Procs : /\ proc[p].vol.hidden
                                 /\ proc[p].vol.key = img'[s].key]_vars
  BY <1>1
<1> QED BY <1>2, InvHolds, PTL DEF Spec, HiddenKept

-----------------------------------------------------------------------------
(***************************************************************************)
(* What was reported as created.  With one process at a time a volume that *)
(* was told is whole, and stays so.                                        *)
(***************************************************************************)

\* A volume of size sectors that starts at sector 1 of a container with l
\* sectors ends within it, and before the hidden header unless the container is
\* too small to be opened at all.
Roomy(size, l) ==
  /\ size + 1 <= l
  /\ l <= HeaderGap \/ size + HeaderGap + 1 <= l

\* Where the volume starts whose header is in sector s.
StartOf(s, im) == IF s = 0 THEN 1 ELSE s - im[s].size

\* The first n blocks of the volume with this key are in place.
Laid(start, key, n, im) ==
  \A b \in 0 .. n - 1 : start + b \in Sector /\ Decrypts(im[start + b], b, key)

\* Everything format_volume writes of a volume is in place.
Whole(start, size, key, im) ==
  /\ DataStart(size) < size
  /\ Laid(start, key, DataStart(size) + 1, im)

\* The file: what was reported as done is whole, and no passphrase opens both
\* headers.
FileTold(im, l, t) ==
  /\ HasOuter(im) => Roomy(im[0].size, l)
  /\ \A s \in Sector : im[s].kind = "header" =>
       /\ im[s].key \in t => Whole(StartOf(s, im), im[s].size, im[s].key, im)
       /\ s # 0 => \A pw \in Passwords :
            ~(/\ im[0].hkey = HeaderKey(pw, im[0].key, TRUE)
              /\ im[s].hkey = HeaderKey(pw, im[s].key, TRUE))

\* The hidden header is that of volume v.
NamesHidden(v, im, l) ==
  /\ l - HeaderGap \in Sector \ {0}
  /\ im[l - HeaderGap].kind = "header"
  /\ im[l - HeaderGap].key = v.key /\ im[l - HeaderGap].size = v.size

\* The process: how far it has got with the volume it creates, and that the
\* hidden volume it works on is the present one.
ProcTold(x, im, l, t) ==
  /\ x.cmd = "create" => Roomy(x.size \div 2, x.size)
  /\ x.cmd = "create" /\ x.pc = "header" => Roomy(x.vol.size, l)
  /\ x.cmd = "hidden" => x.pw # x.hpw
  /\ x.pc = "header" => x.vol.key \notin t
  /\ x.cmd = "hidden" /\ x.pc = "header" =>
       im[0].hkey = HeaderKey(x.pw, im[0].key, TRUE)
  /\ x.pc \in {"format", "load", "mounted"} /\ x.vol.hidden =>
       NamesHidden(x.vol, im, l)
  /\ x.pc = "format" => /\ x.cur > 0 => DataStart(x.vol.size) < x.vol.size
                        /\ Laid(x.vol.start, x.vol.key, x.cur, im)

ToldInv == /\ \A k \in told : k < nextKey
           /\ FileTold(img, len, told)
           /\ \A p \in Procs : ProcTold(proc[p], img, len, told)

\* One denyfs process at a time works on the container, and its size leaves
\* room for the hidden header.
OneProcess == /\ \A p, q \in Procs : p = q
              /\ \A mb \in ContainerSizes :
                   Roomy((mb * SectorsPerMB) \div 2, mb * SectorsPerMB)

\* The invariant after a step of the one process p.
LEMMA ToldStep ==
  ASSUME \A q, r \in Procs : q = r, NEW p \in Procs, NEW x, Becomes(p, x),
         proc \in [Procs -> Process],
         \A k \in told' : k < nextKey',
         FileTold(img', len', told'), ProcTold(x, img', len', told')
  PROVE  ToldInv'
<1>1. \A q \in Procs : proc'[q] = x
  BY DEF Becomes
<1> QED BY <1>1 DEF ToldInv

\* What ToldInv says of the one process.
LEMMA ToldOf ==
  ASSUME Inv, ToldInv, NEW p \in Procs
  PROVE  /\ \A k \in told : k < nextKey /\ k \in Nat
         /\ told \subseteq Nat
         /\ FileTold(img, len, told) /\ ProcTold(proc[p], img, len, told)
         /\ proc \in [Procs -> Process] /\ proc[p] \in Process
  BY DEF Inv, ToldInv, ContainerTypeOK, Keys

\* A process that is not running, or has read nothing yet.
LEMMA QuietTold ==
  ASSUME NEW x, Quiet(x), x.cmd = "hidden" => x.pw # x.hpw, NEW im, NEW l, NEW t
  PROVE  ProcTold(x, im, l, t)
  BY DEF Quiet, ProcTold

\* A command ends, or one starts that only reads at first.
LEMMA QuietToldStep ==
  ASSUME Inv, ToldInv, \A q, r \in Procs : q = r, NEW p \in Procs, NEW x,
         Becomes(p, x), Quiet(x), x.cmd = "hidden" => x.pw # x.hpw,
         UNCHANGED file, nextKey' = nextKey, told' = told
  PROVE  ToldInv'
<1>1. img' = img /\ len' = len
  BY DEF file
<1>2. ProcTold(x, img, len, told)
  BY QuietTold
<1> QED BY <1>1, <1>2, ToldOf, ToldStep

\* A file without headers tells nothing.
LEMMA BlankTold ==
  ASSUME NEW im, Blank(im), NEW l, NEW t
  PROVE  FileTold(im, l, t)
  BY DEF Blank, FileTold, HasOuter

\* A process ends and leaves a file without headers.
LEMMA BlankToldStep ==
  ASSUME Inv, ToldInv, \A q, r \in Procs : q = r, NEW p \in Procs, NEW x,
         Becomes(p, x), ProcTold(x, img', len', told), Blank(img'),
         told' = told, nextKey' \in {nextKey, nextKey + 1}
  PROVE  ToldInv'
<1>1. nextKey \in Nat
  BY Unfolded
<1>2. \A k \in told' : k < nextKey'
  BY <1>1, ToldOf
<1> QED BY <1>2, ToldOf, BlankTold, ToldStep

\* The idle process.
LEMMA IdleTold ==
  ASSUME NEW r, NEW im, NEW l, NEW t
  PROVE  /\ ProcTold(Idle(r), im, l, t)
         /\ Quiet(Idle(r)) /\ Idle(r).cmd # "hidden"
  BY QuietTold, IdleQuiet DEF Idle

\* A create that fails removes the file.
LEMMA RemoveTold ==
  ASSUME Inv, ToldInv, \A q, r \in Procs : q = r, NEW p \in Procs, NEW r,
         Unlink, Ends(p, r), nextKey' = nextKey, told' = told
  PROVE  ToldInv'
<1>1. Blank(img')
  BY DEF Unlink, Blank, None
<1> QED BY <1>1, IdleTold, BlankToldStep DEF Ends

\* A command ends without having changed the file.
LEMMA EndTold ==
  ASSUME Inv, ToldInv, \A q, r \in Procs : q = r, NEW p \in Procs, NEW r,
         Ends(p, r), UNCHANGED file, nextKey' = nextKey, told' = told
  PROVE  ToldInv'
  BY IdleTold, QuietToldStep DEF Ends

\* A create starts.
LEMMA StartCreateTold ==
  ASSUME OneProcess, Inv, ToldInv, NEW p \in Procs, NEW mb \in ContainerSizes,
         NEW pw \in Passwords, StartCreate(p, mb, pw)
  PROVE  ToldInv'
<1> DEFINE x == Run("create", "fill", pw, NoPassword, mb * SectorsPerMB)
<1>1. CASE Ends(p, "fail") /\ UNCHANGED file
  BY <1>1, EndTold DEF StartCreate, OneProcess
<1>2. CASE img' = [s \in Sector |-> None] /\ Becomes(p, x)
  <2>1. Blank(img')
    BY <1>2 DEF Blank, None
  <2>2. x.cmd = "create" /\ x.pc = "fill" /\ x.size = mb * SectorsPerMB
        /\ x.vol.hidden = FALSE
    BY DEF Run, Idle, NoVolume
  <2>3. ProcTold(x, img', len', told)
    BY <2>2 DEF ProcTold, OneProcess
  <2> QED BY <1>2, <2>1, <2>3, BlankToldStep DEF StartCreate, OneProcess
<1> QED BY <1>1, <1>2 DEF StartCreate

\* The filling grows, fails, or is complete and the volume is chosen.
LEMMA FillTold ==
  ASSUME OneProcess, Inv, ToldInv, NEW p \in Procs, Fill(p)
  PROVE  ToldInv'
<1> DEFINE x == proc[p]
<1>1. /\ x.pc = "fill" /\ x.cmd = "create" /\ Blank(img) /\ x \in Process
      /\ ProcTold(x, img, len, told) /\ proc \in [Procs -> Process]
      /\ len \in Nat /\ img \in [Sector -> Content]
  <2>1. x.pc = "fill" /\ CommandOK(x, exists) /\ ContentsOK(x, img)
    BY Unfolded DEF Fill
  <2>2. x.cmd = "create" /\ Blank(img)
    BY <2>1 DEF CommandOK, ContentsOK
  <2> QED BY <2>1, <2>2, ToldOf, Unfolded
<1>2. CASE CreateFails(p)
  BY <1>2, RemoveTold, <1>1 DEF CreateFails, Fill, OneProcess
<1>3. CASE /\ img' = [s \in Sector |->
                IF s >= len /\ s < FillEnd(x.size) THEN Random ELSE img[s]]
           /\ UNCHANGED <<exists, proc, faults, nextKey, told>>
  <2>1. Blank(img')
    BY <1>1, <1>3 DEF Blank, Random
  <2>2. ProcTold(x, img', len', told)
    BY <1>1 DEF ProcTold
  <2>3. Becomes(p, x)
    BY <1>1, <1>3 DEF Becomes
  <2> QED BY <1>3, <2>1, <2>2, <2>3, BlankToldStep DEF OneProcess
<1>4. CASE /\ len = x.size
           /\ Becomes(p, [x EXCEPT !.pc = "header", !.vol =
                [NoVolume EXCEPT !.start = 1, !.size = len \div 2,
                                 !.key = nextKey]])
           /\ nextKey' = nextKey + 1
           /\ UNCHANGED <<file, told, faults>>
  <2> DEFINE v == [NoVolume EXCEPT !.start = 1, !.size = len \div 2, !.key = nextKey]
             y == [x EXCEPT !.pc = "header", !.vol = v]
  <2>1. y.cmd = "create" /\ y.pc = "header" /\ y.size = x.size /\ y.vol = v
    BY <1>1 DEF Process
  <2>2. v.size = len \div 2 /\ v.key = nextKey /\ v.hidden = FALSE
    BY DEF NoVolume
  <2>3. nextKey \notin told /\ nextKey \in Nat
    BY ToldOf, Unfolded
  <2>4. Roomy(x.size \div 2, x.size)
    BY <1>1 DEF ProcTold
  <2> HIDE DEF y, v
  <2>5. ProcTold(y, img', len', told)
    BY <1>1, <1>4, <2>1, <2>2, <2>3, <2>4 DEF ProcTold, file
  <2>6. Becomes(p, y) /\ Blank(img')
    BY <1>1, <1>4 DEF y, v, file
  <2> QED BY <1>4, <2>5, <2>6, BlankToldStep DEF OneProcess
<1> QED BY <1>1, <1>2, <1>3, <1>4, Zenon DEF Fill

\* A header of the file: what it was sealed with, and where it is.
LEMMA HeaderFields ==
  ASSUME Inv, NEW s \in Sector, img[s].kind = "header"
  PROVE  /\ 0 \in Sector /\ HasOuter(img) /\ img[s].salt = img[s].key
         /\ img[s].size \in Nat /\ img[s].key \in Nat /\ img[0].size \in Nat
         /\ img[0].key \in Nat /\ img[s].key < nextKey
         /\ s # 0 => /\ img[s].key > img[0].key /\ s = len - HeaderGap
                     /\ img[s].size > 0 /\ s - img[s].size > img[0].size
<1>1. HeaderOK(s, img, len, nextKey)
  BY Unfolded DEF FileOK
<1>2. 0 \in Sector /\ HasOuter(img)
  BY <1>1, Unfolded DEF HeaderOK, HasOuter, Sector
<1> QED BY <1>1, <1>2, Unfolded, Fields DEF HeaderOK, HasOuter

\* The outer header is written into a file without headers.
LEMMA OuterHeaderTold ==
  ASSUME OneProcess, Inv, ToldInv, NEW p \in Procs, OuterHeader(p)
  PROVE  ToldInv'
<1> DEFINE x == proc[p]
           y == [x EXCEPT !.pc = "format"]
<1>1. /\ x.pc = "header" /\ x.cmd = "create" /\ x \in Process
      /\ ContentsOK(x, img) /\ CommandOK(x, exists)
      /\ VolumeOK(x, img, len, nextKey) /\ ProcTold(x, img, len, told)
  BY Unfolded, ToldOf DEF OuterHeader
<1>2. Blank(img) /\ x.cur = 0 /\ 0 \in Sector
  BY <1>1, YoungHasSectors DEF CommandOK, ContentsOK
<1>3. CASE CreateFails(p)
  BY <1>3, RemoveTold DEF CreateFails, OuterHeader, OneProcess
<1>4. CASE ~CreateFails(p)
  <2>1. PICK ok \in BOOLEAN : WriteSector(0, Header(x.pw, x.vol, ok))
    BY <1>4 DEF OuterHeader
  <2> DEFINE h == Header(x.pw, x.vol, ok)
  <2>2. h.kind = "header" /\ h.key = x.vol.key /\ h.size = x.vol.size
    BY DEF Header, encrypt_header
  <2>3. Becomes(p, y) /\ nextKey' = nextKey /\ told' = told
    BY <1>4 DEF OuterHeader
  <2> HIDE DEF h
  <2>4. img' = [img EXCEPT ![0] = h] /\ len' = len
    BY <2>1 DEF WriteSector, h
  <2>5. img'[0] = h /\ \A s \in Sector : img'[s].kind = "header" => s = 0
    BY <1>2, <2>4, Unfolded DEF Blank
  <2>6. FileTold(img', len', told')
    <3>1. h.key \notin told' /\ Roomy(h.size, len')
      BY <1>1, <2>2, <2>3, <2>4 DEF ProcTold
    <3> QED BY <2>5, <3>1 DEF FileTold
  <2>7. y.pc = "format" /\ y.cmd = "create" /\ y.vol = x.vol /\ y.cur = 0
        /\ y.size = x.size
    BY <1>1, <1>2 DEF Process
  <2>8. ~x.vol.hidden
    BY <1>1 DEF VolumeOK
  <2> HIDE DEF y
  <2>9. ProcTold(y, img', len', told')
    BY <1>1, <2>3, <2>7, <2>8 DEF ProcTold, Laid
  <2> QED BY <2>3, <2>4, <2>6, <2>9, ToldOf, ToldStep DEF OneProcess
<1> QED BY <1>3, <1>4

\* The volume the process works on is the outer one or that of the hidden
\* header.
Present(v) == /\ v \in Volume
              /\ \/ IsOuter(v, img)
                 \/ IsHidden(v, img, len) /\ NamesHidden(v, img, len)

\* A block of a volume of the file lies beside its header, and in another
\* volume than that of any other header.
LEMMA BlockAside ==
  ASSUME Inv, NEW v, Present(v), NEW n \in Nat, n < v.size,
         NEW s \in Sector, img[s].kind = "header"
  PROVE  /\ v.start + n # s
         /\ \A b \in 0 .. img[s].size - 1 :
              StartOf(s, img) + b = v.start + n => b = n /\ img[s].key = v.key
<1>1. v.start \in Nat /\ v.size \in Nat /\ v.key \in Nat
  BY DEF Present, Volume, Keys
<1>2. /\ img[s].size \in Nat /\ img[0].size \in Nat /\ s \in Int /\ s >= 0
      /\ s # 0 => s = len - HeaderGap /\ s - img[s].size > img[0].size
                  /\ img[s].size > 0
  BY HeaderFields DEF Sector
<1>3. len - HeaderGap \in Int
  BY Unfolded
<1>4. CASE IsOuter(v, img)
  <2>1. v.start = 1 /\ v.size = img[0].size /\ v.key = img[0].key
    BY <1>4 DEF IsOuter
  <2>2. CASE s = 0
    BY <1>1, <1>2, <2>1, <2>2 DEF StartOf
  <2>3. CASE s # 0
    BY <1>1, <1>2, <2>1, <2>3 DEF StartOf
  <2> QED BY <2>2, <2>3
<1>5. CASE IsHidden(v, img, len) /\ NamesHidden(v, img, len)
  <2>1. /\ v.start + v.size = len - HeaderGap /\ v.start > img[0].size
        /\ img[len - HeaderGap].key = v.key /\ img[len - HeaderGap].size = v.size
    BY <1>5 DEF IsHidden, NamesHidden
  <2>2. CASE s = 0
    <3>1. StartOf(s, img) = 1 /\ v.start > img[s].size
      BY <2>1, <2>2 DEF StartOf
    <3> HIDE DEF IsHidden, NamesHidden
    <3> QED BY <1>1, <1>2, <2>2, <3>1
  <2>3. CASE s # 0
    <3>1. s = v.start + v.size /\ img[s].key = v.key /\ img[s].size = v.size
      BY <1>2, <2>1, <2>3
    <3>2. StartOf(s, img) = v.start
      BY <1>1, <2>3, <3>1 DEF StartOf
    <3> QED BY <1>1, <1>2, <3>1, <3>2
  <2> QED BY <2>2, <2>3
<1> QED BY <1>4, <1>5 DEF Present

\* Writing a block keeps every whole volume whole.
LEMMA BlockTold ==
  ASSUME Inv, ToldInv, NEW p \in Procs, NEW v, Present(v),
         NEW n \in Nat, n < v.size, NEW d,
         WriteSector(v.start + n, crypt_sector(d, n, v.key))
  PROVE  /\ FileTold(img', len', told) /\ len' = len
         /\ NamesHidden(v, img, len) => NamesHidden(v, img', len')
<1> DEFINE c == crypt_sector(d, n, v.key)
           t == v.start + n
<1>1. c.kind = "block" /\ c.key = v.key /\ c.n = n
  BY DEF crypt_sector
<1>2. len' = len /\ img' = [img EXCEPT ![t] = c]
  BY DEF WriteSector
<1> HIDE DEF c, t
<1>3. \A s \in Sector : img'[s] = IF s = t THEN c ELSE img[s]
  BY <1>2, Unfolded
<1>4. \A s \in Sector : img'[s].kind = "header" => img[s].kind = "header" /\ img'[s] = img[s]
  BY <1>1, <1>3
<1>5. \A s \in Sector : img[s].kind = "header" => img'[s] = img[s]
  BY <1>3, BlockAside DEF t
<1>6. FileTold(img, len, told)
  BY ToldOf
<1>7. ASSUME NEW s \in Sector, img[s].kind = "header", img[s].key \in told
      PROVE  Whole(StartOf(s, img'), img'[s].size, img'[s].key, img')
  <2>1. Whole(StartOf(s, img), img[s].size, img[s].key, img)
    BY <1>6, <1>7 DEF FileTold
  <2>2. StartOf(s, img') = StartOf(s, img) /\ img'[s] = img[s]
    BY <1>5, <1>7 DEF StartOf
  <2>3. img[s].size \in Nat /\ DataStart(img[s].size) \in Nat
    BY <1>7, HeaderFields, DataStartNat
  <2>4. ASSUME NEW b \in 0 .. DataStart(img[s].size)
        PROVE  /\ StartOf(s, img) + b \in Sector
               /\ Decrypts(img'[StartOf(s, img) + b], b, img[s].key)
    <3> DEFINE u == StartOf(s, img) + b
    <3>1. u \in Sector /\ Decrypts(img[u], b, img[s].key)
      BY <2>1, <2>3 DEF Whole, Laid
    <3>2. u = t => b = n /\ img[s].key = v.key
      BY <1>7, <2>1, <2>3, BlockAside DEF t, Whole
    <3> HIDE DEF u
    <3>3. Decrypts(img'[u], b, img[s].key)
      BY <1>1, <1>3, <3>1, <3>2 DEF Decrypts
    <3> QED BY <3>1, <3>3 DEF u
  <2> QED BY <2>1, <2>2, <2>3, <2>4 DEF Whole, Laid
<1>8. HasOuter(img') => HasOuter(img) /\ img'[0] = img[0]
  BY <1>4 DEF HasOuter
<1>9. FileTold(img', len', told)
  <2>1. ASSUME NEW s \in Sector, img'[s].kind = "header", s # 0
        PROVE  img'[0] = img[0]
    BY <2>1, <1>4, <1>5, HeaderFields DEF HasOuter
  <2> QED BY <1>2, <1>4, <1>6, <1>7, <1>8, <2>1 DEF FileTold
<1>10. NamesHidden(v, img, len) => NamesHidden(v, img', len')
  BY <1>2, <1>5 DEF NamesHidden
<1> QED BY <1>2, <1>9, <1>10

\* The volume being formatted, loaded or written is present.
LEMMA VolumePresent ==
  ASSUME Inv, ToldInv, NEW p \in Procs,
         \/ proc[p].pc \in {"format", "mounted"}
         \/ Load(p)
  PROVE  Present(proc[p].vol)
<1> DEFINE x == proc[p]
<1>1. CommandOK(x, exists) /\ VolumeOK(x, img, len, nextKey) /\ x.vol \in Volume
      /\ ProcTold(x, img, len, told)
  BY Unfolded, Fields, ToldOf
<1>2. IsHidden(x.vol, img, len) \/ IsOuter(x.vol, img)
  <2>1. CASE Load(p)
    BY <2>1, LoadedVolume
  <2>2. CASE x.pc = "format"
    BY <1>1, <2>2 DEF CommandOK, VolumeOK
  <2>3. CASE x.pc = "mounted"
    BY <1>1, <2>3 DEF VolumeOK
  <2> QED BY <2>1, <2>2, <2>3
<1>3. x.pc \in {"format", "load", "mounted"}
  BY DEF Load
<1>4. x.vol.hidden => NamesHidden(x.vol, img, len)
  BY <1>1, <1>3 DEF ProcTold
<1> QED BY <1>1, <1>2, <1>4 DEF Present, IsHidden

\* Its blocks are sectors of the file.
LEMMA PresentInside ==
  ASSUME Inv, ToldInv, NEW p \in Procs, NEW v, Present(v), NEW n \in Nat, n < v.size
  PROVE  v.start + n \in Sector
<1>1. v.start \in Nat /\ v.size \in Nat /\ HasOuter(img) /\ img[0].size \in Nat
  BY Unfolded, Fields DEF Present, Volume, IsOuter, IsHidden, HasOuter
<1>2. Roomy(img[0].size, len)
  BY <1>1, ToldOf DEF FileTold
<1>3. CASE IsOuter(v, img)
  BY <1>1, <1>2, <1>3, Unfolded DEF IsOuter, Roomy, Sector
<1>4. CASE IsHidden(v, img, len)
  <2>1. v.start + v.size = len - HeaderGap
    BY <1>4 DEF IsHidden
  <2> QED BY <1>1, <2>1, Unfolded DEF Sector
<1> QED BY <1>3, <1>4 DEF Present

\* The next block of the format is put where the last ones end.
LEMMA FormatBlockTold ==
  ASSUME OneProcess, Inv, ToldInv, NEW p \in Procs, FormatBlock(p)
  PROVE  ToldInv'
<1> DEFINE x == proc[p]
           v == x.vol
           y == [x EXCEPT !.cur = @ + 1]
           c == crypt_sector("fs", x.cur, v.key)
<1>1. /\ x.pc = "format" /\ DataStart(v.size) < v.size /\ x.cur <= DataStart(v.size)
      /\ WriteSector(v.start + x.cur, c) /\ Becomes(p, y)
      /\ nextKey' = nextKey /\ told' = told
  BY DEF FormatBlock
<1>2. x \in Process /\ x.cur \in Nat /\ v.size \in Nat /\ v.start \in Nat
      /\ v.key \in Nat /\ DataStart(v.size) \in Nat /\ ProcTold(x, img, len, told)
  BY Unfolded, Fields, DataStartNat, ToldOf
<1>3. x.cur < v.size /\ Present(v)
  BY <1>1, <1>2, VolumePresent
<1>4. FileTold(img', len', told) /\ len' = len
      /\ (NamesHidden(v, img, len) => NamesHidden(v, img', len'))
  BY <1>1, <1>2, <1>3, BlockTold
<1>5. y.cur = x.cur + 1 /\ y.pc = "format" /\ y.cmd = x.cmd /\ y.vol = v
      /\ y.size = x.size /\ y.pw = x.pw /\ y.hpw = x.hpw
  BY <1>1, <1>2 DEF Process
<1>6. Laid(v.start, v.key, y.cur, img')
  <2>1. v.start + x.cur \in Sector
    BY <1>2, <1>3, PresentInside
  <2>2. img'[v.start + x.cur] = c /\ Decrypts(c, x.cur, v.key)
    BY <1>1, <2>1, Unfolded DEF WriteSector, Decrypts, crypt_sector
  <2>3. ASSUME NEW b \in 0 .. x.cur - 1
        PROVE  v.start + b \in Sector /\ Decrypts(img'[v.start + b], b, v.key)
    <3>1. v.start + b \in Sector /\ Decrypts(img[v.start + b], b, v.key)
      BY <1>1, <1>2 DEF ProcTold, Laid
    <3>2. v.start + b # v.start + x.cur
      BY <1>2
    <3>3. img'[v.start + b] = img[v.start + b]
      BY <1>1, <3>1, <3>2, Unfolded DEF WriteSector
    <3> QED BY <3>1, <3>3
  <2> HIDE DEF v, c
  <2>4. \A b \in 0 .. y.cur - 1 : b = x.cur \/ b \in 0 .. x.cur - 1
    BY <1>2, <1>5
  <2> QED BY <2>1, <2>2, <2>3, <2>4 DEF Laid
<1>7. ProcTold(y, img', len', told)
  BY <1>1, <1>2, <1>4, <1>5, <1>6 DEF ProcTold
<1> HIDE DEF y
<1> QED BY <1>1, <1>4, <1>7, ToldOf, ToldStep DEF OneProcess

\* A format that fails: a create takes the file with it.
LEMMA FormatFailsTold ==
  ASSUME OneProcess, Inv, ToldInv, NEW p \in Procs, FormatFails(p)
  PROVE  ToldInv'
<1>1. PICK r : Ends(p, r)
  BY DEF FormatFails
<1>2. nextKey' = nextKey /\ told' = told /\ (Unlink \/ UNCHANGED file)
  BY DEF FormatFails, AfterFormatFails
<1> QED BY <1>1, <1>2, RemoveTold, EndTold DEF OneProcess

\* The last block is there: the volume is told, and it is whole.
LEMMA FormatDoneTold ==
  ASSUME OneProcess, Inv, ToldInv, NEW p \in Procs, FormatDone(p)
  PROVE  ToldInv'
<1> DEFINE x == proc[p]
           v == x.vol
<1>1. /\ x.pc = "format" /\ x.cur = DataStart(v.size) + 1
      /\ told' = told \union {v.key} /\ Ends(p, "ok")
      /\ img' = img /\ len' = len /\ nextKey' = nextKey
  BY DEF FormatDone, file
<1>2. v.size \in Nat /\ DataStart(v.size) \in Nat /\ v.start \in Nat /\ v.key \in Nat
      /\ ProcTold(x, img, len, told) /\ VolumeOK(x, img, len, nextKey)
  BY Unfolded, Fields, DataStartNat, ToldOf
<1>3. Whole(v.start, v.size, v.key, img)
  BY <1>1, <1>2 DEF ProcTold, Whole
<1>4. Present(v)
  BY <1>1, VolumePresent
<1>5. v.key < nextKey
  BY <1>1, <1>2 DEF VolumeOK
<1>6. ASSUME NEW s \in Sector, img[s].kind = "header", img[s].key = v.key
      PROVE  StartOf(s, img) = v.start /\ img[s].size = v.size
  <2>1. CASE IsOuter(v, img)
    <3>1. s = 0
      BY <1>6, <2>1, HeadersDiffer DEF IsOuter, HasOuter
    <3> QED BY <2>1, <3>1 DEF IsOuter, StartOf
  <2>2. CASE IsHidden(v, img, len) /\ NamesHidden(v, img, len)
    <3>1. s = len - HeaderGap /\ s # 0 /\ img[s].size = v.size
      BY <1>6, <2>2, HeadersDiffer DEF NamesHidden
    <3>2. v.start + v.size = len - HeaderGap /\ s \in Int
      BY <2>2 DEF IsHidden, Sector
    <3> QED BY <1>2, <3>1, <3>2 DEF StartOf
  <2> QED BY <1>4, <2>1, <2>2 DEF Present
<1>7. FileTold(img, len, told')
  <2>1. FileTold(img, len, told)
    BY ToldOf
  <2>2. \A s \in Sector : img[s].kind = "header" /\ img[s].key \in told' =>
          Whole(StartOf(s, img), img[s].size, img[s].key, img)
    BY <1>1, <1>3, <1>6, <2>1 DEF FileTold
  <2> QED BY <2>1, <2>2 DEF FileTold
<1>8. \A k \in told' : k < nextKey'
  BY <1>1, <1>5, ToldOf
<1> QED BY <1>1, <1>7, <1>8, IdleTold, ToldOf, ToldStep DEF OneProcess, Ends

\* An open volume writes a block.
LEMMA WriteBlockTold ==
  ASSUME OneProcess, Inv, ToldInv, NEW p \in Procs, NEW n \in VolumeBlocks,
         WriteBlock(p, n)
  PROVE  ToldInv'
<1> DEFINE x == proc[p]
<1>1. /\ x.pc = "mounted" /\ n < x.vol.size /\ proc' = proc /\ n \in Nat
      /\ WriteSector(x.vol.start + n, crypt_sector("fs", n, x.vol.key))
      /\ nextKey' = nextKey /\ told' = told
  BY ContainerAssumption DEF WriteBlock
<1>2. Present(x.vol)
  BY <1>1, VolumePresent
<1>3. FileTold(img', len', told) /\ len' = len
      /\ (NamesHidden(x.vol, img, len) => NamesHidden(x.vol, img', len'))
  BY <1>1, <1>2, BlockTold
<1>4. CommandOK(x, exists) /\ ProcTold(x, img, len, told)
  BY Unfolded, ToldOf
<1>5. ProcTold(x, img', len', told)
  BY <1>1, <1>3, <1>4 DEF ProcTold, CommandOK
<1>6. Becomes(p, x)
  BY <1>1, Unfolded DEF Becomes
<1> QED BY <1>1, <1>3, <1>5, <1>6, ToldOf, ToldStep DEF OneProcess

\* write-sector stores a block of the volume, or fails unseen.
LEMMA WriteSectorTold ==
  ASSUME OneProcess, Inv, ToldInv, NEW p \in Procs, handle_write_sector(p)
  PROVE  ToldInv'
<1> DEFINE x == proc[p]
<1>1. Load(p) /\ x.size < x.vol.size /\ x.size \in Nat /\ nextKey' = nextKey
      /\ told' = told /\ Ends(p, "ok")
  BY Unfolded, Fields DEF handle_write_sector, InVolume
<1>2. CASE UNCHANGED file
  BY <1>1, <1>2, EndTold DEF OneProcess
<1>3. CASE WriteSector(x.vol.start + x.size, crypt_sector("raw", x.size, x.vol.key))
  <2>1. Present(x.vol)
    BY <1>1, VolumePresent
  <2>2. FileTold(img', len', told)
    BY <1>1, <1>3, <2>1, BlockTold
  <2> QED BY <1>1, <2>2, IdleTold, ToldOf, ToldStep DEF OneProcess, Ends
<1> QED BY <1>2, <1>3 DEF handle_write_sector

\* A volume was found: if it is a hidden one, the header that named it is
\* there.
LEMMA FoundTold ==
  ASSUME OneProcess, Inv, ToldInv, NEW p \in Procs, proc[p].pc = "read",
         NEW u, u.hidden => NamesHidden(u, img, len),
         Becomes(p, [proc[p] EXCEPT !.pc = "load", !.vol = u]),
         UNCHANGED file, nextKey' = nextKey, told' = told
  PROVE  ToldInv'
<1> DEFINE x == proc[p]
           y == [x EXCEPT !.pc = "load", !.vol = u]
<1>1. x \in Process /\ CommandOK(x, exists) /\ ProcTold(x, img, len, told)
      /\ FileTold(img, len, told)
  BY Unfolded, ToldOf
<1>2. y.pc = "load" /\ y.vol = u /\ y.cmd = x.cmd /\ y.pw = x.pw /\ y.hpw = x.hpw
  BY <1>1 DEF Process
<1>3. x.cmd # "create" /\ img' = img /\ len' = len
  BY <1>1 DEF CommandOK, file
<1> HIDE DEF y
<1>4. ProcTold(y, img', len', told')
  BY <1>1, <1>2, <1>3 DEF ProcTold
<1>5. Becomes(p, y)
  BY DEF y
<1> QED BY <1>1, <1>3, <1>4, <1>5, ToldOf, ToldStep DEF OneProcess

\* Both headers are read and one of the volumes is chosen.
LEMMA ReadHeadersTold ==
  ASSUME OneProcess, Inv, ToldInv, NEW p \in Procs, ReadHeaders(p)
  PROVE  ToldInv'
<1> DEFINE pw == proc[p].pw
<1>1. PICK outer, hidden, guard \in BOOLEAN :
        LET big == exists /\ len >= HeaderGap + 1
            found == big /\ (OuterOpens(pw, outer) \/ HiddenOpens(pw, hidden))
            v == Selected(pw, outer)
            guarded == proc[p].cmd = "protect" /\ ~v.hidden
            Loading(u) == /\ Becomes(p, [proc[p] EXCEPT !.pc = "load", !.vol = u])
                          /\ UNCHANGED <<file, nextKey, told>>
        IN  \/ OpenFails(p)
            \/ found /\ ~guarded /\ Loading(v)
            \/ /\ found /\ guarded /\ HiddenOpens(proc[p].hpw, guard)
               /\ Loading(Guarded(v))
  BY DEF ReadHeaders
<1> DEFINE v == Selected(pw, outer)
           found == /\ len >= HeaderGap + 1
                    /\ OuterOpens(pw, outer) \/ HiddenOpens(pw, hidden)
           Loads0(u) == /\ Becomes(p, [proc[p] EXCEPT !.pc = "load", !.vol = u])
                        /\ UNCHANGED file /\ nextKey' = nextKey /\ told' = told
<1>2. proc[p].pc = "read"
  BY DEF ReadHeaders
<1>3. CASE OpenFails(p)
  BY <1>3, EndTold DEF OpenFails, OneProcess
<1>4. OuterVolume.hidden = FALSE /\ Guarded(OuterVolume).hidden = FALSE
  BY DEF OuterVolume, Guarded, NoVolume
<1>5. ASSUME found, v # OuterVolume
      PROVE  v = HiddenVolume /\ NamesHidden(v, img, len)
  <2>1. v = HiddenVolume /\ HiddenOpens(pw, hidden)
    BY <1>5 DEF Selected
  <2>2. /\ HiddenHeaderAt \in Sector /\ HiddenHeaderAt # 0
        /\ img[HiddenHeaderAt].kind = "header"
        /\ HiddenVolume.key = img[HiddenHeaderAt].key
    BY <1>5, <2>1, HiddenHeaderOK
  <2>3. HiddenVolume.size = img[HiddenHeaderAt].size
    BY DEF HiddenVolume, NoVolume
  <2> QED BY <2>1, <2>2, <2>3 DEF NamesHidden, HiddenHeaderAt
<1>6. CASE found /\ Loads0(v)
  <2>1. v.hidden => NamesHidden(v, img, len)
    BY <1>4, <1>5, <1>6
  <2> HIDE DEF v
  <2> QED BY <1>2, <1>6, <2>1, FoundTold
<1>7. CASE found /\ ~v.hidden /\ Loads0(Guarded(v))
  <2>1. HiddenVolume.hidden = TRUE
    BY DEF HiddenVolume, NoVolume
  <2>2. v = OuterVolume
    BY <1>5, <1>7, <2>1
  <2>3. ~Guarded(v).hidden
    BY <1>4, <2>2
  <2> HIDE DEF v
  <2> QED BY <1>2, <1>7, <2>3, FoundTold
<1> QED BY <1>1, <1>3, <1>6, <1>7 DEF file

\* A volume was loaded and stays what it is.
LEMMA MountTold ==
  ASSUME OneProcess, Inv, ToldInv, NEW p \in Procs, Mount(p)
  PROVE  ToldInv'
<1> DEFINE x == proc[p]
           y == [x EXCEPT !.pc = "mounted"]
<1>1. /\ x.pc = "load" /\ Becomes(p, y) /\ x.cmd \in {"mount", "protect"}
      /\ img' = img /\ len' = len /\ nextKey' = nextKey /\ told' = told
  BY DEF Mount, Load, file
<1>2. x \in Process /\ ProcTold(x, img, len, told) /\ FileTold(img, len, told)
  BY ToldOf
<1>3. y.pc = "mounted" /\ y.vol = x.vol /\ y.cmd = x.cmd
  BY <1>2 DEF Process
<1> HIDE DEF y
<1>4. ProcTold(y, img', len', told')
  BY <1>1, <1>2, <1>3 DEF ProcTold
<1> QED BY <1>1, <1>2, <1>4, ToldOf, ToldStep DEF OneProcess

\* The place of a hidden volume is chosen: the passphrase opened the outer
\* volume, since no second volume fits beside a hidden one.
LEMMA PlaceHiddenTold ==
  ASSUME OneProcess, Inv, ToldInv, NEW p \in Procs, PlaceHidden(p)
  PROVE  ToldInv'
<1> DEFINE x == proc[p]
           v == [NoVolume EXCEPT !.start = HiddenHeaderAt - x.size,
                    !.size = x.size, !.key = nextKey, !.hidden = TRUE]
           y == [x EXCEPT !.pc = "header", !.vol = v]
<1>1. /\ Load(p) /\ x.pc = "load" /\ x.cmd = "hidden" /\ img' = img /\ len' = len
      /\ told' = told
  BY DEF PlaceHidden, Load, file
<1>2. /\ x \in Process /\ ProcTold(x, img, len, told) /\ FileTold(img, len, told)
      /\ CommandOK(x, exists) /\ ContentsOK(x, img) /\ x.size \in Nat
      /\ x.vol.start \in Nat /\ x.vol.size \in Nat
  BY Unfolded, Fields, ToldOf
<1>3. CASE ~Fits(x.vol, x.size)
  BY <1>3, EndTold DEF PlaceHidden, OneProcess
<1>4. CASE Fits(x.vol, x.size)
  <2>1. Becomes(p, y) /\ nextKey' = nextKey + 1
    BY <1>4 DEF PlaceHidden
  <2>2. y.pc = "header" /\ y.cmd = "hidden" /\ y.vol = v /\ y.pw = x.pw
        /\ y.hpw = x.hpw
    BY <1>1, <1>2 DEF Process
  <2>3. v.key = nextKey
    BY DEF NoVolume
  <2>4. x.size > 0
    BY <1>1, <1>2 DEF CommandOK
  <2>5. ~IsHidden(x.vol, img, len)
    BY <1>2, <1>4, <2>4, Unfolded DEF IsHidden, Fits, HiddenHeaderAt
  <2>6. IsOuter(x.vol, img)
    BY <1>1, <2>5, LoadedVolume
  <2>7. img[0].hkey = HeaderKey(x.pw, img[0].key, TRUE)
    <3>1. 0 \in Sector /\ img[0].kind = "header" /\ img[0].key = x.vol.key
      BY <2>6 DEF IsOuter, HasOuter
    <3>2. img[0].salt = img[0].key
      BY <3>1, HeaderFields
    <3> QED BY <1>1, <1>2, <3>1, <3>2 DEF ContentsOK
  <2>8. nextKey \notin told /\ nextKey \in Nat /\ \A k \in told : k < nextKey + 1
    BY ToldOf, Unfolded
  <2> HIDE DEF y, v
  <2>9. ProcTold(y, img', len', told')
    BY <1>1, <1>2, <2>2, <2>3, <2>7, <2>8 DEF ProcTold
  <2> QED BY <1>1, <1>2, <2>1, <2>8, <2>9, ToldOf, ToldStep DEF OneProcess
<1> QED BY <1>3, <1>4

\* The hidden header is written over an older one or over random sectors; its
\* passphrase is not the outer one.
LEMMA HiddenHeaderTold ==
  ASSUME OneProcess, Inv, ToldInv, NEW p \in Procs, HiddenHeader(p)
  PROVE  ToldInv'
<1> DEFINE x == proc[p]
           v == x.vol
           y == [x EXCEPT !.pc = "format"]
           h == HiddenHeaderAt
           c == Header(x.hpw, v, TRUE)
<1>1. x.pc = "header" /\ x.cmd = "hidden" /\ nextKey' = nextKey /\ told' = told
  BY DEF HiddenHeader
<1>2. /\ x \in Process /\ ProcTold(x, img, len, told) /\ FileTold(img, len, told)
      /\ CommandOK(x, exists) /\ VolumeOK(x, img, len, nextKey)
      /\ v.start \in Nat /\ v.size \in Nat /\ v.key \in Nat
  BY Unfolded, Fields, ToldOf
<1>3. CASE Ends(p, "EIO") /\ UNCHANGED file
  BY <1>1, <1>3, EndTold DEF OneProcess
<1>4. CASE ~(Ends(p, "EIO") /\ UNCHANGED file)
  <2>1. Becomes(p, y) /\ img' = [img EXCEPT ![h] = c] /\ len' = len
    BY <1>4 DEF HiddenHeader, KdfChecked, WriteSector
  <2>2. IsHidden(v, img, len) /\ x.cur = 0 /\ v.key \notin told /\ x.pw # x.hpw
        /\ img[0].hkey = HeaderKey(x.pw, img[0].key, TRUE)
    BY <1>1, <1>2 DEF CommandOK, VolumeOK, ProcTold
  <2>3. y.pc = "format" /\ y.cmd = "hidden" /\ y.vol = v /\ y.cur = 0
        /\ y.pw = x.pw /\ y.hpw = x.hpw
    BY <1>1, <1>2, <2>2 DEF Process
  <2>4. /\ c.kind = "header" /\ c.key = v.key /\ c.size = v.size
        /\ c.hkey = HeaderKey(x.hpw, v.key, TRUE)
    BY DEF Header, encrypt_header
  <2> HIDE DEF y, c
  <2>5. /\ 0 \in Sector /\ img[0].kind = "header" /\ img[0].size \in Nat
        /\ v.start > img[0].size /\ v.start + v.size = len - HeaderGap
    BY <2>2, Unfolded, Fields DEF IsHidden, HasOuter
  <2>6. h \in Sector /\ h # 0 /\ h = len - HeaderGap /\ h > img[0].size
    BY <1>2, <2>2, <2>5, Unfolded DEF IsHidden, HiddenHeaderAt, Sector
  <2>7. \A s \in Sector : img'[s] = IF s = h THEN c ELSE img[s]
    BY <2>1, Unfolded
  <2> HIDE DEF h
  <2>8. img'[0] = img[0] /\ img'[h] = c
    BY <2>5, <2>6, <2>7
  <2>9. \A s \in Sector : img'[s].kind = "header" => s = 0 \/ s = h
    <3>1. ASSUME NEW s \in Sector, img'[s].kind = "header", s # h, s # 0
          PROVE  FALSE
      BY <2>6, <2>7, <3>1, HeaderFields
    <3> QED BY <3>1
  <2>10. ASSUME img[0].key \in told
         PROVE  Whole(1, img[0].size, img[0].key, img')
    <3>1. Whole(StartOf(0, img), img[0].size, img[0].key, img)
      BY <1>2, <2>5, <2>10 DEF FileTold
    <3>2. Whole(1, img[0].size, img[0].key, img)
      BY <3>1 DEF StartOf
    <3>3. DataStart(img[0].size) \in Nat
      BY <2>5, DataStartNat
    <3>4. ASSUME NEW b \in 0 .. DataStart(img[0].size)
          PROVE  1 + b \in Sector /\ Decrypts(img'[1 + b], b, img[0].key)
      <4>1. 1 + b \in Sector /\ Decrypts(img[1 + b], b, img[0].key)
        BY <3>2, <3>3 DEF Whole, Laid
      <4>2. 1 + b # h
        BY <2>5, <2>6, <3>2, <3>3 DEF Whole
      <4> QED BY <2>7, <4>1, <4>2
    <3> QED BY <3>2, <3>3, <3>4 DEF Whole, Laid
  <2>11. ASSUME NEW pw \in Passwords,
                img[0].hkey = HeaderKey(pw, img[0].key, TRUE),
                c.hkey = HeaderKey(pw, v.key, TRUE)
         PROVE  FALSE
    <3>1. pw = x.pw
      BY <2>2, <2>11 DEF HeaderKey, derive_header_key, derive_master_key
    <3>2. pw = x.hpw
      BY <2>4, <2>11 DEF HeaderKey, derive_header_key, derive_master_key
    <3> QED BY <2>2, <3>1, <3>2
  <2>12. Roomy(img[0].size, len)
    BY <1>2, <2>5 DEF FileTold, HasOuter
  <2>13. FileTold(img', len', told')
    <3>1. ASSUME NEW s \in Sector, img'[s].kind = "header", img'[s].key \in told
          PROVE  Whole(StartOf(s, img'), img'[s].size, img'[s].key, img')
      <4>1. s = 0
        BY <2>2, <2>4, <2>8, <2>9, <3>1
      <4> QED BY <2>8, <2>10, <3>1, <4>1 DEF StartOf
    <3>2. ASSUME NEW s \in Sector, img'[s].kind = "header", s # 0,
                 NEW pw \in Passwords
          PROVE  ~(/\ img'[0].hkey = HeaderKey(pw, img'[0].key, TRUE)
                   /\ img'[s].hkey = HeaderKey(pw, img'[s].key, TRUE))
      <4>1. s = h
        BY <2>9, <3>2
      <4> QED BY <2>4, <2>8, <2>11, <4>1
    <3>3. HasOuter(img') => Roomy(img'[0].size, len')
      BY <2>1, <2>8, <2>12
    <3> QED BY <1>1, <3>1, <3>2, <3>3 DEF FileTold
  <2>14. NamesHidden(v, img', len')
    BY <2>1, <2>4, <2>6, <2>8 DEF NamesHidden
  <2>15. ProcTold(y, img', len', told')
    BY <1>1, <1>2, <2>2, <2>3, <2>14 DEF ProcTold, Laid
  <2> QED BY <1>1, <2>1, <2>13, <2>15, ToldOf, ToldStep DEF OneProcess
<1> QED BY <1>3, <1>4

\* create-hidden starts: its two passphrases differ.
LEMMA StartCreateHiddenTold ==
  ASSUME OneProcess, Inv, ToldInv, NEW p \in Procs, NEW pw, NEW hpw, NEW mb,
         StartCreateHidden(p, pw, hpw, mb)
  PROVE  ToldInv'
<1> DEFINE x == Run("hidden", "read", pw, hpw, mb * SectorsPerMB)
<1>1. UNCHANGED file /\ nextKey' = nextKey /\ told' = told
  BY DEF StartCreateHidden
<1>2. CASE Ends(p, "EINVAL")
  BY <1>1, <1>2, EndTold DEF OneProcess
<1>3. CASE pw # hpw /\ Becomes(p, x)
  <2>1. Quiet(x) /\ x.pw = pw /\ x.hpw = hpw
    BY DEF Quiet, Run, Idle
  <2> QED BY <1>1, <1>3, <2>1, QuietToldStep DEF OneProcess
<1> QED BY <1>2, <1>3 DEF StartCreateHidden, SamePassword

\* Another command starts.
LEMMA StartReadTold ==
  ASSUME OneProcess, Inv, ToldInv, NEW p \in Procs, NEW pw, NEW hpw, NEW n,
         NEW cmd \in {"mount", "protect", "write-sector", "read-sector"},
         Becomes(p, Run(cmd, "read", pw, hpw, n)),
         UNCHANGED file, nextKey' = nextKey, told' = told
  PROVE  ToldInv'
<1> DEFINE x == Run(cmd, "read", pw, hpw, n)
<1>1. Quiet(x) /\ x.cmd # "hidden"
  BY DEF Quiet, Run, Idle
<1> QED BY <1>1, QuietToldStep DEF OneProcess

\* Every step keeps what was told.
LEMMA ToldInvStep ==
  ASSUME OneProcess, Inv, ToldInv, [Next]_vars
  PROVE  ToldInv'
<1>1. ASSUME NEW p \in Procs, Command(p) PROVE ToldInv'
  <2>1. ASSUME NEW mb \in ContainerSizes, NEW pw \in Passwords,
               StartCreate(p, mb, pw)
        PROVE  ToldInv'
    BY <2>1, StartCreateTold
  <2>2. ASSUME NEW pw, NEW hpw, NEW cmd \in {"mount", "protect"},
               StartMount(p, cmd, pw, hpw)
        PROVE  ToldInv'
    BY <2>2, StartReadTold DEF StartMount
  <2>3. ASSUME NEW pw, NEW hpw, NEW mb, StartCreateHidden(p, pw, hpw, mb)
        PROVE  ToldInv'
    BY <2>3, StartCreateHiddenTold
  <2>4. ASSUME NEW cmd \in {"write-sector", "read-sector"}, NEW pw, NEW lba,
               StartSector(p, cmd, pw, lba)
        PROVE  ToldInv'
    BY <2>4, StartReadTold DEF StartSector
  <2> QED BY <1>1, <2>1, <2>2, <2>3, <2>4 DEF Command
<1>2. ASSUME NEW p \in Procs,
             \/ LoadFails(p) \/ SectorRefused(p) \/ handle_read_sector(p)
             \/ Unmount(p) \/ Crash(p)
      PROVE  ToldInv'
  <2>1. /\ UNCHANGED file /\ nextKey' = nextKey /\ told' = told
        /\ \E r : Ends(p, r)
    BY <1>2 DEF LoadFails, OpenFails, SectorRefused, handle_read_sector, Unmount, Crash
  <2> QED BY <2>1, EndTold DEF OneProcess
<1>3. ASSUME NEW p \in Procs, Continue(p) PROVE ToldInv'
  BY <1>2, <1>3, FillTold, OuterHeaderTold, FormatBlockTold, FormatFailsTold,
     FormatDoneTold, ReadHeadersTold, MountTold, PlaceHiddenTold,
     HiddenHeaderTold, WriteSectorTold DEF Continue
<1>4. CASE UNCHANGED vars
  BY <1>4 DEF vars, ToldInv
<1> QED BY <1>1, <1>2, <1>3, <1>4, WriteBlockTold DEF Next

\* What the invariant says of a told volume: its header is opened by its
\* passphrase, no other header is, and its blocks load.
LEMMA ToldVolumeOpens ==
  ASSUME Inv, ToldInv, len >= HeaderGap + 1,
         NEW s \in {0, HiddenHeaderAt}, NEW pw \in Passwords,
         img[s].kind = "header", img[s].key \in told, Authentic(s, pw, TRUE)
  PROVE  /\ OuterOpens(pw, TRUE) \/ HiddenOpens(pw, TRUE)
         /\ Selected(pw, TRUE).key = img[s].key
         /\ MayLoad(Selected(pw, TRUE))
<1> DEFINE h == HiddenHeaderAt
<1>1. h = len - HeaderGap /\ h \in Nat /\ h > 0 /\ h \in Sector /\ 0 \in Sector
      /\ h < len /\ s \in Sector
  BY Unfolded DEF HiddenHeaderAt, Sector
<1>2. /\ HasOuter(img) /\ img[0].kind = "header" /\ img[0].size \in Nat
      /\ img[s].size \in Nat /\ img[0].salt = img[0].key /\ img[s].salt = img[s].key
      /\ s # 0 => img[s].size > 0 /\ s - img[s].size > img[0].size
  BY <1>1, HeaderFields DEF HasOuter
<1>3. FileTold(img, len, told)
  BY DEF ToldInv
<1>4. Whole(StartOf(s, img), img[s].size, img[s].key, img)
  BY <1>1, <1>3 DEF FileTold
<1>5. DataStart(img[s].size) \in Nat /\ DataStart(img[s].size) < img[s].size
  BY <1>2, <1>4, DataStartNat DEF Whole
<1>6. img[s].hkey = HeaderKey(pw, img[s].key, TRUE)
  BY <1>2 DEF Authentic, decrypt_header
<1>7. \A v : v.start = StartOf(s, img) /\ v.size = img[s].size /\ v.key = img[s].key
        /\ v.start + v.size <= h => MayLoad(v)
  <2> SUFFICES ASSUME NEW v, v.start = StartOf(s, img), v.size = img[s].size,
                      v.key = img[s].key, v.start + v.size <= h
               PROVE  MayLoad(v)
    OBVIOUS
  <2>1. v.start \in Int
    BY <1>1, <1>2 DEF StartOf
  <2>2. v.start + DataStart(v.size) < len
    <3>1. /\ v.size \in Nat /\ DataStart(v.size) \in Nat
          /\ DataStart(v.size) < v.size /\ h \in Nat /\ h < len /\ len \in Nat
      BY <1>1, <1>2, <1>5, Unfolded
    <3> HIDE DEF h
    <3> QED BY <2>1, <3>1
  <2>3. \A n \in 0 .. DataStart(v.size) : Decrypts(img[v.start + n], n, v.key)
    BY <1>4, <1>5 DEF Whole, Laid
  <2> QED BY <2>2, <2>3 DEF MayLoad
<1>8. CASE s = 0
  <2>1. img[0].size + HeaderGap + 1 <= len
    BY <1>2, <1>3, Unfolded DEF FileTold, Roomy
  <2>2. valid_volume_range(1, img[0].size, h)
    BY <1>1, <1>2, <1>5, <1>8, <2>1, Unfolded DEF valid_volume_range
  <2>3. OuterOpens(pw, TRUE)
    BY <1>8, <2>2 DEF OuterOpens
  <2>4. Selected(pw, TRUE) = OuterVolume
    BY <2>3 DEF Selected
  <2>5. OuterVolume.start = 1 /\ OuterVolume.size = img[0].size
        /\ OuterVolume.key = img[0].key
    BY DEF OuterVolume, NoVolume
  <2>6. MayLoad(OuterVolume)
    BY <1>1, <1>2, <1>7, <1>8, <2>1, <2>5, Unfolded DEF StartOf
  <2> QED BY <1>8, <2>3, <2>4, <2>5, <2>6
<1>9. CASE s # 0
  <2>1. s = h
    BY <1>9
  <2>2. ~OuterOpens(pw, TRUE)
    BY <1>1, <1>2, <1>3, <1>6, <1>9 DEF OuterOpens, Authentic, decrypt_header, FileTold
  <2>3. valid_volume_range(h - img[h].size, img[h].size, h) /\ img[h].size <= h - 1
    <3> HIDE DEF h
    <3> QED BY <1>1, <1>2, <1>9, <2>1 DEF valid_volume_range
  <2>4. HiddenOpens(pw, TRUE)
    BY <2>1, <2>3 DEF HiddenOpens
  <2>5. Selected(pw, TRUE) = HiddenVolume
    BY <2>2 DEF Selected
  <2>6. HiddenVolume.start = h - img[h].size /\ HiddenVolume.size = img[h].size
        /\ HiddenVolume.key = img[h].key
    BY DEF HiddenVolume, NoVolume
  <2>7. MayLoad(HiddenVolume)
    <3>1. HiddenVolume.start + HiddenVolume.size <= h
      BY <1>1, <1>2, <2>1, <2>6
    <3> QED BY <1>7, <1>9, <2>1, <2>6, <3>1 DEF StartOf
  <2> QED BY <2>1, <2>4, <2>5, <2>6, <2>7
<1> QED BY <1>8, <1>9

\* With one process at a time, a volume reported as created opens with its
\* passphrase as long as its header is in place, after any later command that
\* failed or died half-way.
THEOREM ToldVolumesOpen ==
  ASSUME OneProcess
  PROVE  Spec => []ToldOpens
<1>1. Init => ToldInv
  <2>1. ASSUME Init PROVE ToldInv
    <3>1. Blank(img) /\ told = {} /\ \A p \in Procs : proc[p] = Idle("none")
      BY <2>1 DEF Init, Blank, None
    <3> QED BY <3>1, BlankTold, IdleTold DEF ToldInv
  <2> QED BY <2>1
<1>2. ToldInv /\ Inv /\ [Next]_vars => ToldInv'
  BY ToldInvStep
<1>3. Inv /\ ToldInv => ToldOpens
  BY ToldVolumeOpens DEF ToldOpens
<1> QED BY <1>1, <1>2, <1>3, InvHolds, PTL DEF Spec

=============================================================================
