---------------------------- MODULE MCDashboard -----------------------------
(***************************************************************************)
(* Instances of Dashboard for TLC.                                         *)
(***************************************************************************)
EXTENDS Dashboard, TLC

Closing == {{"upload", "lock"}, {"upload", "finish"}}
Switching == {{"switch"}} \union
             {{"switch", r} : r \in {"upload", "lock", "finish"}}

\* Requests one page waits for in turn: none is sent while the phase is
\* switched, and nothing is closed during an upload.
InTurn == Closing \union Switching
\* A second page, or a reloaded one, may lock during the switch.
LockDuringSwitch == InTurn \ {{"switch", "lock"}}

\* Connections are interchangeable.
PageSymmetry == Permutations(Threads)
=============================================================================
