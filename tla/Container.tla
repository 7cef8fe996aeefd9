----------------------------- MODULE Container ------------------------------
(***************************************************************************)
(* One container file and the denyfs processes that work on it: create,    *)
(* create-hidden, open, mount, write-sector and read-sector.  Nothing      *)
(* locks the file, so processes interleave; each writes one sector at a    *)
(* time, may fail to, and may die.                                         *)
(*                                                                         *)
(* The file is a row of sectors: the outer header, the outer volume (half  *)
(* of the file), unused random sectors, the hidden volume if there is one, *)
(* the hidden header HeaderGap sectors before the end, and the rest.       *)
(* A sector of a volume is known by the key it is encrypted with, its      *)
(* block number and whether the file system or write-sector wrote it; what *)
(* the blocks mean is the subject of VolumeImage.                          *)
(***************************************************************************)
EXTENDS Integers, FiniteSets, Crypto

CONSTANTS
  Procs,            \* denyfs processes
  Passwords,        \* passphrases users type
  NoPassword,       \* no hidden passphrase was given
  SectorsPerMB,     \* sectors in 1 MiB
  HeaderGap,        \* DENYFS_HIDDEN_HEADER_OFFSET_FROM_EOF, in sectors
  FillChunk,        \* sectors written by one step of the random filling
  BitsPerSector,    \* bitmap bits held by one sector of the bitmap
  InodeBlocks,      \* sectors of the inode table
  ContainerSizes,   \* sizes in MiB that create is called with
  HiddenSizes,      \* sizes in MiB that create-hidden is called with
  VolumeBlocks,     \* block numbers that mounted volumes write
  RawBlocks,        \* values of --lba for the sector commands
  Capacity,         \* bound: sectors of the largest container
  MaxKeys,          \* bound: how many volume keys are ever made
  MaxFaults,        \* bound: how many writes and key derivations may fail
  CanCrash          \* whether a process may die

ASSUME ContainerAssumption ==
  /\ NoPassword \notin Passwords
  /\ SectorsPerMB \in Nat \ {0} /\ SectorsPerMB % 2 = 0
  /\ HeaderGap \in Nat \ {0} /\ FillChunk \in Nat \ {0}
  /\ BitsPerSector \in Nat \ {0} /\ InodeBlocks \in Nat
  /\ ContainerSizes \subseteq Nat \ {0} /\ HiddenSizes \subseteq Nat \ {0}
  /\ Capacity \in Nat
  /\ \A mb \in ContainerSizes : mb * SectorsPerMB <= Capacity
  /\ VolumeBlocks \subseteq Nat /\ RawBlocks \subseteq Nat
  /\ MaxKeys \in Nat /\ MaxFaults \in Nat /\ CanCrash \in BOOLEAN

VARIABLES
  img,      \* the sectors of the file
  len,      \* its length in sectors
  exists,   \* whether there is a file at the path
  proc,     \* the processes
  nextKey,  \* the next volume key the random generator gives
  told,     \* keys of the volumes whose creation was reported as done
  faults    \* writes and key derivations that may still fail

vars == <<img, len, exists, proc, nextKey, told, faults>>

Sector == 0 .. Capacity - 1
Keys   == Nat

None   == [kind |-> "none"]       \* past the end of the file
Random == [kind |-> "random"]
Content ==
  {None, Random}
    \union [kind : {"header"}, salt : Nat, size : Nat, key : Keys,
            hkey : HeaderKeys(Passwords)]
    \union [kind : {"block"}, key : Keys, n : Nat, data : {"fs", "raw"}]

\* The header of volume v under passphrase pw; salt and volume key come from
\* the random generator together, so the key's number stands for both.
Header(pw, v, ok) ==
  encrypt_header(v.key, v.size, v.key, HeaderKey(pw, v.key, ok))

(***************************************************************************)
(* A process: its command, where it is in it, and the volume it formats or *)
(* has open.                                                               *)
(***************************************************************************)
NoVolume == [start |-> 0, size |-> 0, key |-> 0, hidden |-> FALSE,
             protect |-> FALSE, lo |-> 0, hi |-> 0]
Idle(r) == [cmd |-> "none", pc |-> "idle", pw |-> NoPassword,
            hpw |-> NoPassword, size |-> 0, cur |-> 0, vol |-> NoVolume,
            ret |-> r]
Run(cmd, pc, pw, hpw, size) ==
  [Idle("none") EXCEPT !.cmd = cmd, !.pc = pc, !.pw = pw, !.hpw = hpw,
                       !.size = size]

Volume == [start : Nat, size : Nat, key : Keys, hidden : BOOLEAN,
           protect : BOOLEAN, lo : Nat, hi : Nat]
Process ==
  [cmd : {"none", "create", "hidden", "mount", "protect", "write-sector",
          "read-sector"},
   pc : {"idle", "fill", "header", "format", "read", "load", "mounted"},
   pw : Passwords \union {NoPassword}, hpw : Passwords \union {NoPassword},
   size : Nat, cur : Nat, vol : Volume,
   ret : {"none", "ok", "fail", "EINVAL", "EACCES", "ENOSPC", "EIO"}]

\* Every variable has its type.
ContainerTypeOK ==
  /\ img \in [Sector -> Content]
  /\ len \in 0 .. Capacity
  /\ exists \in BOOLEAN
  /\ proc \in [Procs -> Process]
  /\ nextKey \in Keys
  /\ told \in SUBSET Keys
  /\ faults \in Nat

Init ==
  /\ img = [s \in Sector |-> None]
  /\ len = 0 /\ exists = FALSE
  /\ proc = [p \in Procs |-> Idle("none")]
  /\ nextKey = 0 /\ told = {} /\ faults = MaxFaults

file == <<img, len, exists>>

Becomes(p, q)  == proc' = [proc EXCEPT ![p] = q]
Ends(p, r)     == Becomes(p, Idle(r))
WriteSector(s, c) == img' = [img EXCEPT ![s] = c] /\ UNCHANGED <<len, exists>>

\* A write, an allocation or the encryption before it fails.
WriteFails == faults > 0 /\ faults' = faults - 1

\* Bound: a creation starts only when a key is left for it.
KeyLeft ==
  nextKey + Cardinality({q \in Procs : /\ proc[q].cmd \in {"create", "hidden"}
                                       /\ proc[q].pc \in {"fill", "read", "load"}})
    < MaxKeys

\* The blocks before the data area of a volume of size sectors.
DataStart(size) == 1 + (size + BitsPerSector - 1) \div BitsPerSector + InodeBlocks

-----------------------------------------------------------------------------
(***************************************************************************)
(* denyfs_container_create: O_EXCL, random filling, header, format; a      *)
(* failure after the file was made removes it.                             *)
(***************************************************************************)
\* Mutant: the file is opened without O_EXCL.
OverwriteExisting == TRUE
MayCreate == ~exists

StartCreate(p, mb, pw) ==
  /\ proc[p].pc = "idle" /\ KeyLeft
  /\ \/ /\ ~MayCreate
        /\ Ends(p, "fail") /\ UNCHANGED file
     \/ /\ MayCreate
        /\ exists' = TRUE /\ len' = 0 /\ img' = [s \in Sector |-> None]
        /\ Becomes(p, Run("create", "fill", pw, NoPassword, mb * SectorsPerMB))
  /\ UNCHANGED <<nextKey, told, faults>>

Unlink == img' = [s \in Sector |-> None] /\ len' = 0 /\ exists' = FALSE

CreateFails(p) ==
  /\ WriteFails
  /\ Unlink /\ Ends(p, "fail")
  /\ UNCHANGED <<nextKey, told>>

\* Mutant: the last chunk is written whole.
WholeChunks(size) == len + FillChunk
\* Where the next chunk of the filling ends.
FillEnd(size) == IF len + FillChunk > size THEN size ELSE len + FillChunk

Fill(p) ==
  /\ proc[p].pc = "fill"
  /\ \/ /\ len < proc[p].size
        /\ \/ CreateFails(p)
           \/ /\ len' = FillEnd(proc[p].size)
              /\ img' = [s \in Sector |->
                   IF s >= len /\ s < FillEnd(proc[p].size)
                   THEN Random ELSE img[s]]
              /\ UNCHANGED <<exists, proc, faults, nextKey, told>>
     \/ /\ len = proc[p].size
        /\ Becomes(p, [proc[p] EXCEPT !.pc = "header", !.vol =
             [NoVolume EXCEPT !.start = 1, !.size = len \div 2,
                              !.key = nextKey]])
        /\ nextKey' = nextKey + 1
        /\ UNCHANGED <<file, told, faults>>

\* Mutant: the result of the key derivation is ignored.
KdfUnchecked(ok) == TRUE
\* A volume is only created under a key that was derived.
KdfChecked(ok) == ok

\* Whether the derivation of a new header key succeeds.
Derives(ok) == IF ok THEN UNCHANGED faults ELSE WriteFails

OuterHeader(p) ==
  /\ proc[p].cmd = "create" /\ proc[p].pc = "header"
  /\ \/ CreateFails(p)
     \/ \E ok \in BOOLEAN :
          /\ KdfChecked(ok) /\ Derives(ok)
          /\ WriteSector(0, Header(proc[p].pw, proc[p].vol, ok))
          /\ Becomes(p, [proc[p] EXCEPT !.pc = "format"])
          /\ UNCHANGED <<nextKey, told>>

-----------------------------------------------------------------------------
(***************************************************************************)
(* format_volume: superblock, bitmap, inode table and root directory, in   *)
(* block order, for either kind of volume.                                 *)
(***************************************************************************)
FormatBlock(p) ==
  /\ proc[p].pc = "format"
  /\ LET v == proc[p].vol
     IN  /\ DataStart(v.size) < v.size
         /\ proc[p].cur <= DataStart(v.size)
         /\ WriteSector(v.start + proc[p].cur,
                        crypt_sector("fs", proc[p].cur, v.key))
  /\ Becomes(p, [proc[p] EXCEPT !.cur = @ + 1])
  /\ UNCHANGED <<nextKey, told, faults>>

\* Mutant: the hidden volume's file is removed as well.
UnlinkAlways(p) == Unlink
\* Only a container being created is removed when its format fails.
AfterFormatFails(p) ==
  IF proc[p].cmd = "create" THEN Unlink ELSE UNCHANGED file

FormatFails(p) ==
  /\ proc[p].pc = "format"
  /\ LET size == proc[p].vol.size
     IN  \/ DataStart(size) >= size /\ UNCHANGED faults
         \/ /\ DataStart(size) < size /\ proc[p].cur <= DataStart(size)
            /\ WriteFails
  /\ AfterFormatFails(p)
  /\ Ends(p, IF proc[p].cmd = "create" THEN "fail" ELSE "EIO")
  /\ UNCHANGED <<nextKey, told>>

FormatDone(p) ==
  /\ proc[p].pc = "format"
  /\ proc[p].cur = DataStart(proc[p].vol.size) + 1
  /\ told' = told \union {proc[p].vol.key}
  /\ Ends(p, "ok")
  /\ UNCHANGED <<file, nextKey, faults>>

-----------------------------------------------------------------------------
(***************************************************************************)
(* denyfs_vol_open: both headers are read, the keys are derived, and only  *)
(* then are the blocks of the chosen volume read.                          *)
(***************************************************************************)
HiddenHeaderAt == len - HeaderGap

\* ok: the key derivation for this header succeeds.  Its result is not looked
\* at; a key derived from the zeroed buffer has to fail by itself.
Authentic(s, pw, ok) ==
  /\ img[s].kind = "header"
  /\ decrypt_header(img[s], HeaderKey(pw, img[s].salt, ok))

valid_volume_range(start, size, limit) ==
  size # 0 /\ start <= limit /\ size <= limit - start

OuterOpens(pw, ok) ==
  Authentic(0, pw, ok) /\ valid_volume_range(1, img[0].size, HiddenHeaderAt)

HiddenOpens(pw, ok) ==
  LET h == HiddenHeaderAt
  IN  /\ Authentic(h, pw, ok)
      /\ img[h].size <= h - 1
      /\ valid_volume_range(h - img[h].size, img[h].size, h)

OuterVolume ==
  [NoVolume EXCEPT !.start = 1, !.size = img[0].size, !.key = img[0].key]
HiddenVolume ==
  LET h == HiddenHeaderAt
  IN  [NoVolume EXCEPT !.start = h - img[h].size, !.size = img[h].size,
                       !.key = img[h].key, !.hidden = TRUE]

\* The volume a passphrase selects.
Selected(pw, ok) == IF OuterOpens(pw, ok) THEN OuterVolume ELSE HiddenVolume

\* The outer volume with the sectors from the hidden volume to the end of
\* the file guarded.
Guarded(v) == [v EXCEPT !.protect = TRUE, !.lo = HiddenVolume.start,
                        !.hi = len - 1]

OpenFails(p) ==
  /\ Ends(p, IF proc[p].cmd = "hidden" THEN "EACCES" ELSE "fail")
  /\ UNCHANGED <<file, nextKey, told>>

\* Every derivation that does not succeed is a fault.
Derivations(outer, hidden, guard) ==
  LET failed == Cardinality({x \in {<<1, outer>>, <<2, hidden>>, <<3, guard>>} :
                               ~x[2]})
  IN  failed <= faults /\ faults' = faults - failed

\* outer, hidden, guard: which of the two derivations for the passphrase and
\* the one for the protection passphrase succeed.
ReadHeaders(p) ==
  /\ proc[p].pc = "read"
  /\ \E outer, hidden, guard \in BOOLEAN :
       LET pw == proc[p].pw
           big == exists /\ len >= HeaderGap + 1
           found == big /\ (OuterOpens(pw, outer) \/ HiddenOpens(pw, hidden))
           v == Selected(pw, outer)
           guarded == proc[p].cmd = "protect" /\ ~v.hidden
           Loading(u) == /\ Becomes(p, [proc[p] EXCEPT !.pc = "load", !.vol = u])
                         /\ UNCHANGED <<file, nextKey, told>>
       IN  /\ Derivations(outer, hidden, guard)
           /\ \/ ~found /\ OpenFails(p)
              \/ found /\ ~guarded /\ Loading(v)
              \/ /\ found /\ guarded /\ HiddenOpens(proc[p].hpw, guard)
                 /\ Loading(Guarded(v))
              \/ found /\ guarded /\ ~HiddenOpens(proc[p].hpw, guard) /\ OpenFails(p)

\* Every block format_volume writes decrypts with the volume's key.
MayLoad(v) == /\ v.start + DataStart(v.size) < len
              /\ \A n \in 0 .. DataStart(v.size) :
                   Decrypts(img[v.start + n], n, v.key)

\* ... and none of them was put there by write-sector.
Loads(v) == /\ MayLoad(v)
            /\ \A n \in 0 .. DataStart(v.size) : img[v.start + n].data = "fs"

Load(p) == proc[p].pc = "load" /\ MayLoad(proc[p].vol)
LoadFails(p) ==
  /\ proc[p].pc = "load" /\ ~Loads(proc[p].vol)
  /\ OpenFails(p) /\ UNCHANGED faults

Mount(p) ==
  /\ Load(p) /\ proc[p].cmd \in {"mount", "protect"}
  /\ Becomes(p, [proc[p] EXCEPT !.pc = "mounted"])
  /\ UNCHANGED <<file, nextKey, told, faults>>

StartMount(p, cmd, pw, hpw) ==
  /\ proc[p].pc = "idle"
  /\ Becomes(p, Run(cmd, "read", pw, hpw, 0))
  /\ UNCHANGED <<file, nextKey, told, faults>>

-----------------------------------------------------------------------------
(***************************************************************************)
(* denyfs_container_create_hidden: the outer volume is opened to learn     *)
(* where it ends; the hidden header is written before the volume.          *)
(***************************************************************************)
\* Mutant: any two passphrases are accepted.
AnyPasswords(pw, hpw) == FALSE
SamePassword(pw, hpw) == pw = hpw

StartCreateHidden(p, pw, hpw, mb) ==
  /\ proc[p].pc = "idle" /\ KeyLeft
  /\ \/ SamePassword(pw, hpw) /\ Ends(p, "EINVAL")
     \/ /\ ~SamePassword(pw, hpw)
        /\ Becomes(p, Run("hidden", "read", pw, hpw, mb * SectorsPerMB))
  /\ UNCHANGED <<file, nextKey, told, faults>>

\* Mutant: the sector of the outer header is not counted.
FitsWithoutHeader(v, size) ==
  size <= HiddenHeaderAt /\ v.size <= HiddenHeaderAt - size
\* The open volume ends before the place of the new one.
Fits(v, size) ==
  size <= HiddenHeaderAt /\ v.start + v.size <= HiddenHeaderAt - size

PlaceHidden(p) ==
  /\ Load(p) /\ proc[p].cmd = "hidden"
  /\ LET size == proc[p].size
     IN  \/ /\ ~Fits(proc[p].vol, size)
            /\ Ends(p, "ENOSPC")
            /\ UNCHANGED <<file, nextKey, told, faults>>
         \/ /\ Fits(proc[p].vol, size)
            /\ Becomes(p, [proc[p] EXCEPT !.pc = "header", !.vol =
                 [NoVolume EXCEPT !.start = HiddenHeaderAt - size,
                    !.size = size, !.key = nextKey, !.hidden = TRUE]])
            /\ nextKey' = nextKey + 1
            /\ UNCHANGED <<file, told, faults>>

HiddenHeader(p) ==
  /\ proc[p].cmd = "hidden" /\ proc[p].pc = "header"
  /\ \/ /\ WriteFails
        /\ Ends(p, "EIO") /\ UNCHANGED file
     \/ \E ok \in BOOLEAN :
          /\ KdfChecked(ok) /\ Derives(ok)
          /\ WriteSector(HiddenHeaderAt, Header(proc[p].hpw, proc[p].vol, ok))
          /\ Becomes(p, [proc[p] EXCEPT !.pc = "format"])
  /\ UNCHANGED <<nextKey, told>>

-----------------------------------------------------------------------------
(***************************************************************************)
(* A mounted volume writes its blocks through write_block.                 *)
(***************************************************************************)
Protected(v, n) == v.protect /\ v.start + n \in v.lo .. v.hi

WriteBlock(p, n) ==
  /\ proc[p].pc = "mounted"
  /\ LET v == proc[p].vol
     IN  /\ n < v.size /\ ~Protected(v, n)
         /\ WriteSector(v.start + n, crypt_sector("fs", n, v.key))
  /\ UNCHANGED <<proc, nextKey, told, faults>>

(***************************************************************************)
(* write-sector and read-sector: the volume is opened without protection   *)
(* and one sector of it is transferred beside the file system.             *)
(***************************************************************************)
StartSector(p, cmd, pw, lba) ==
  /\ proc[p].pc = "idle"
  /\ Becomes(p, Run(cmd, "read", pw, NoPassword, lba))
  /\ UNCHANGED <<file, nextKey, told, faults>>

\* Mutant: the number is compared with the length of the file.
InContainer(v, lba) == v.start + lba < len
InVolume(v, lba) == lba < v.size

\* The data file is missing, or the sector number is too large.
SectorRefused(p) ==
  /\ Load(p) /\ proc[p].cmd \in {"write-sector", "read-sector"}
  /\ Ends(p, "fail")
  /\ UNCHANGED <<file, nextKey, told, faults>>

\* A failed write is noticed, or only when the buffer is flushed and then
\* not reported.
handle_write_sector(p) ==
  /\ Load(p) /\ proc[p].cmd = "write-sector"
  /\ InVolume(proc[p].vol, proc[p].size)
  /\ LET v == proc[p].vol
         lba == proc[p].size
     IN  \/ /\ WriteSector(v.start + lba, crypt_sector("raw", lba, v.key))
            /\ Ends(p, "ok") /\ UNCHANGED faults
         \/ WriteFails /\ Ends(p, "ok") /\ UNCHANGED file
  /\ UNCHANGED <<nextKey, told>>

handle_read_sector(p) ==
  /\ Load(p) /\ proc[p].cmd = "read-sector"
  /\ InVolume(proc[p].vol, proc[p].size)
  /\ Ends(p, "ok")
  /\ UNCHANGED <<file, nextKey, told, faults>>

-----------------------------------------------------------------------------
\* Unmount, or the end of denyfs open.
Unmount(p) ==
  /\ proc[p].pc = "mounted"
  /\ Ends(p, "ok")
  /\ UNCHANGED <<file, nextKey, told, faults>>

Crash(p) ==
  /\ CanCrash /\ proc[p].pc # "idle"
  /\ Ends(p, "none")
  /\ UNCHANGED <<file, nextKey, told, faults>>

Command(p) ==
  \/ \E mb \in ContainerSizes, pw \in Passwords : StartCreate(p, mb, pw)
  \/ \E pw \in Passwords : StartMount(p, "mount", pw, NoPassword)
  \/ \E pw, hpw \in Passwords :
       \/ StartMount(p, "protect", pw, hpw)
       \/ \E mb \in HiddenSizes : StartCreateHidden(p, pw, hpw, mb)
  \/ \E cmd \in {"write-sector", "read-sector"}, pw \in Passwords,
       lba \in RawBlocks : StartSector(p, cmd, pw, lba)

Continue(p) ==
  \/ Fill(p) \/ OuterHeader(p)
  \/ FormatBlock(p) \/ FormatFails(p) \/ FormatDone(p)
  \/ ReadHeaders(p) \/ LoadFails(p) \/ Mount(p) \/ PlaceHidden(p)
  \/ HiddenHeader(p)
  \/ SectorRefused(p) \/ handle_write_sector(p) \/ handle_read_sector(p)

Next ==
  \E p \in Procs :
    \/ Command(p) \/ Continue(p) \/ Unmount(p) \/ Crash(p)
    \/ \E n \in VolumeBlocks : WriteBlock(p, n)

Spec == Init /\ [][Next]_vars

-----------------------------------------------------------------------------
(***************************************************************************)
(* Properties.                                                             *)
(***************************************************************************)
OuterSector(s) ==
  /\ img[0].kind = "header"
  /\ s = 0 \/ (img[s].kind = "block" /\ img[s].key = img[0].key)

\* The sector holds what it held: a block may have new data of its own volume.
SameOwner(s) ==
  \/ img'[s] = img[s]
  \/ /\ img[s].kind = "block"
     /\ Decrypts(img'[s], img[s].n, img[s].key)

\* Once the outer header is written, it and every block the outer volume has
\* stored stay its own, whatever other processes do: neither create-hidden nor
\* a mounted hidden volume, write-sector or a second create ever writes over
\* them or removes the file, also when they fail or die half-way.  Only the
\* create that is still formatting the container removes it, when that fails.
OuterKept ==
  [][\A s \in Sector : OuterSector(s) /\ ~SameOwner(s) =>
       \E p \in Procs : proc[p].cmd = "create" /\ proc'[p].ret = "fail"]_vars

\* The hidden volume that the hidden header names loses a block only to
\* create-hidden or to a process that has a hidden volume open: the outer
\* volume, mounted with its guard or without, or written by write-sector, which
\* has no guard, ends before it.
HiddenKept ==
  [][\A s \in Sector :
       /\ len >= HeaderGap + 1
       /\ img[HiddenHeaderAt].kind = "header"
       /\ img[s].kind = "block" /\ img[s].key = img[HiddenHeaderAt].key
       /\ ~SameOwner(s)
       => /\ img'[s].kind = "block"
          /\ \E p \in Procs : /\ proc[p].vol.hidden
                             /\ proc[p].vol.key = img'[s].key]_vars

\* The guard of --protect-hidden never refuses a write of the outer volume:
\* no block of a mounted volume lies in the guarded sectors.
GuardNeverNeeded ==
  \A p \in Procs : proc[p].pc = "mounted" =>
    \A n \in 0 .. proc[p].vol.size - 1 : ~Protected(proc[p].vol, n)

\* A volume whose creation was reported as done opens with its passphrase, and
\* that passphrase selects it and no other volume, for as long as its header is
\* in place; only write-sector on its own metadata can spoil it.
ToldOpens ==
  len >= HeaderGap + 1 =>
    \A s \in {0, HiddenHeaderAt} : \A pw \in Passwords :
      /\ img[s].kind = "header" /\ img[s].key \in told
      /\ Authentic(s, pw, TRUE)
      => /\ OuterOpens(pw, TRUE) \/ HiddenOpens(pw, TRUE)
         /\ Selected(pw, TRUE).key = img[s].key
         /\ MayLoad(Selected(pw, TRUE))

\* An open volume is one whose header was sealed under the passphrase given,
\* also when key derivations fail: denyfs_vol_open ignores their results and
\* goes on with the zeroed buffers, which is safe only because no header is
\* ever sealed under a key derived from one.
OpensOwnVolume ==
  \A p \in Procs : proc[p].pc \in {"load", "mounted"} =>
    \A s \in Sector :
      img[s].kind = "header" /\ img[s].key = proc[p].vol.key =>
        Authentic(s, proc[p].pw, TRUE)

=============================================================================
