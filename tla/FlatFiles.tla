------------------------------ MODULE FlatFiles ------------------------------
(***************************************************************************)
(* What a DenyFS volume promises its callers, with no blocks, tables or    *)
(* bitmap: a set of flat files.  A file has a size and an array of cells;  *)
(* a cell at or past the size is not readable until the file grows over    *)
(* it.  Calls are atomic, one at a time.  A call that succeeds makes       *)
(* everything so far durable; until then the names that calls have worked  *)
(* on are unsettled, and only those may differ after a crash.              *)
(***************************************************************************)
EXTENDS Integers, Sequences

CONSTANTS Names, MaxFileSize, Bytes

VARIABLES
  mounted,    \* whether the volume is open
  files,      \* the files as callers see them
  unsettled,  \* names worked on since the last successful call
  call        \* the call that is running

vars == <<mounted, files, unsettled, call>>

Cells  == 0 .. MaxFileSize - 1
Blank  == [c \in Cells |-> 0]
File   == [exists : BOOLEAN, size : 0 .. MaxFileSize, cells : [Cells -> Bytes]]
Absent == [exists |-> FALSE, size |-> 0, cells |-> Blank]
Empty  == [exists |-> TRUE, size |-> 0, cells |-> Blank]
NoCall == [kind |-> "none", name |-> "", off |-> 0, buf |-> <<>>, size |-> 0]

Init ==
  /\ mounted = FALSE
  /\ files = [n \in Names |-> Absent]
  /\ unsettled = {}
  /\ call = NoCall

\* File f with the first k bytes of buf stored at off.
Stored(f, off, buf, k) ==
  [f EXCEPT !.cells = [c \in Cells |->
     IF c \in off .. off + k - 1 THEN buf[c - off + 1] ELSE f.cells[c]]]

\* The effect of the whole call on the file it names.  Growing keeps the
\* cells, shrinking clears every cell from the new size on.
Effect(c, f) ==
  CASE c.kind = "create" -> Empty
    [] c.kind = "unlink" -> Absent
    [] c.kind = "write" ->
         LET g == Stored(f, c.off, c.buf, Len(c.buf))
             end == c.off + Len(c.buf)
         IN  [g EXCEPT !.size = IF end > @ THEN end ELSE @]
    [] c.kind = "truncate" ->
         [f EXCEPT !.size = c.size,
                   !.cells = [k \in Cells |-> IF c.size < f.size /\ k >= c.size
                                              THEN 0 ELSE f.cells[k]]]

Begin ==
  /\ mounted /\ call = NoCall
  /\ call' # NoCall
  /\ call'.kind = "create" <=> ~files[call'.name].exists
  /\ unsettled' = unsettled \union {call'.name}
  /\ UNCHANGED <<mounted, files>>

Apply(f) == files' = [files EXCEPT ![call.name] = f]

Succeed ==
  /\ call # NoCall
  /\ Apply(Effect(call, files[call.name]))
  /\ unsettled' = {} /\ call' = NoCall
  /\ UNCHANGED mounted

\* A call that fails has no effect, or has its effect but is not settled, or,
\* for a write, stored a prefix of its buffer without changing the size.
Fail ==
  /\ call # NoCall
  /\ \/ UNCHANGED files
     \/ Apply(Effect(call, files[call.name]))
     \/ /\ call.kind = "write"
        /\ \E k \in 1 .. Len(call.buf) :
             Apply(Stored(files[call.name], call.off, call.buf, k))
  /\ call' = NoCall
  /\ UNCHANGED <<mounted, unsettled>>

Unmount ==
  /\ mounted /\ call = NoCall
  /\ mounted' = FALSE
  /\ unsettled' \in {{}, unsettled}
  /\ UNCHANGED <<files, call>>

Crash ==
  /\ mounted
  /\ mounted' = FALSE /\ call' = NoCall
  /\ UNCHANGED <<files, unsettled>>

Mount ==
  /\ ~mounted
  /\ mounted' = TRUE
  /\ files' \in [Names -> File]
  /\ \A n \in Names \ unsettled : files'[n] = files[n]
  /\ unsettled' = {}
  /\ UNCHANGED call

Next == Begin \/ Succeed \/ Fail \/ Unmount \/ Crash \/ Mount

Spec == Init /\ [][Next]_vars
=============================================================================
