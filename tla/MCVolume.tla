------------------------------ MODULE MCVolume ------------------------------
(***************************************************************************)
(* Instances of DenyVolume for TLC: the buffers that writes are called     *)
(* with.                                                                   *)
(***************************************************************************)
EXTENDS DenyVolume, TLC

OneByte  == {<<1>>}
TwoOnly  == {<<1, 2>>}
TwoBytes == {<<1>>, <<1, 2>>}
\* Names are interchangeable.
NameSymmetry == Permutations(Names)
=============================================================================
