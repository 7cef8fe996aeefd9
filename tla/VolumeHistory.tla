---------------------------- MODULE VolumeHistory ----------------------------
(***************************************************************************)
(* DenyVolume with three history variables that record what its callers    *)
(* have seen, and the claim that it implements FlatFiles.                  *)
(***************************************************************************)
EXTENDS DenyVolume

VARIABLES
  seen,       \* every file, as a caller could read it when last idle
  unsettled,  \* names worked on since the last call that succeeded
  call        \* the call in progress

hvars == <<vars, seen, unsettled, call>>

Flat == INSTANCE FlatFiles
          WITH mounted <- pc # "closed", files <- seen, Bytes <- DataByte

\* File n of an image as lookup, getattr and read show it, with the cells
\* past its end.
FileIn(bm, I, B, n) ==
  LET i == denyfs_vol_lookup(I, B, n)
  IN  IF i \in FileIno
      THEN [exists |-> TRUE, size |-> I[i].size,
            cells |-> [c \in 0 .. MaxFileSize - 1 |-> ReadByte(bm, B, I[i], c)]]
      ELSE Flat!Absent

HInit == /\ Init
         /\ seen = [n \in Names |-> Flat!Absent]
         /\ unsettled = {} /\ call = Flat!NoCall

Look ==
  \E bm \in {bitmap'}, I \in {inodes'}, B \in {blk'} :
    seen' = IF pc' = "idle" THEN [n \in Names |-> FileIn(bm, I, B, n)] ELSE seen

\* Call c starts; a call that is refused or ends at once is not recorded.
Starts(c) ==
  /\ call' = IF pc' = "idle" THEN call ELSE c
  /\ unsettled' = IF pc' = "idle" THEN unsettled ELSE unsettled \union {c.name}

Request(kind, n, off, buf, size) ==
  [kind |-> kind, name |-> n, off |-> off, buf |-> buf, size |-> size]

HCall ==
  \/ \E n \in Names :
       \/ denyfs_vol_create(n) /\ Starts(Request("create", n, 0, <<>>, 0))
       \/ denyfs_vol_unlink(n) /\ Starts(Request("unlink", n, 0, <<>>, 0))
       \/ \E off \in Offsets, buf \in Payloads :
            /\ denyfs_vol_write(n, off, buf)
            /\ Starts(Request("write", n, off, buf, 0))
       \/ \E size \in TruncSizes :
            /\ denyfs_vol_truncate(n, size)
            /\ Starts(Request("truncate", n, 0, <<>>, size))
  \/ denyfs_fuse_destroy /\ UNCHANGED <<call, unsettled>>

HStep ==
  /\ Step
  /\ call' = IF pc' \in {"idle", "closed"} THEN Flat!NoCall ELSE call
  /\ unsettled' = IF pc' # pc /\ ret' = "ok" THEN {} ELSE unsettled

HNext ==
  /\ \/ HCall
     \/ HStep
     \/ Crash /\ call' = Flat!NoCall /\ UNCHANGED unsettled
     \/ /\ denyfs_vol_open
        /\ unsettled' = IF pc' = "idle" THEN {} ELSE unsettled
        /\ UNCHANGED call
  /\ Look

HSpec == HInit /\ [][HNext]_hvars

\* Callers of a mounted volume see the flat files of FlatFiles: create,
\* unlink, write, truncate and read act on one file only and as on a byte
\* array, a call that returned success survives unmount and crash, and a
\* crash that leaves the container openable changes no file but those that
\* calls were working on since the last success.
ImplementsFlatFiles == Flat!Spec
=============================================================================
