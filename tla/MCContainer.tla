---------------------------- MODULE MCContainer -----------------------------
(***************************************************************************)
(* Instances of Container for TLC.                                         *)
(***************************************************************************)
EXTENDS Container, TLC

\* Passphrases are interchangeable, and so are processes.
PasswordSymmetry == Permutations(Passwords)
Interchangeable  == Permutations(Procs) \union PasswordSymmetry
=============================================================================
