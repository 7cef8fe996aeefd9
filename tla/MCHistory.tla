------------------------------ MODULE MCHistory ------------------------------
(***************************************************************************)
(* Instances of VolumeHistory for TLC.                                     *)
(***************************************************************************)
EXTENDS VolumeHistory, TLC

OneByte   == {<<1>>}
TwoOnly   == {<<1, 2>>}
TwoBytes  == {<<1>>, <<1, 2>>}
Straddle  == {<<2, 1, 2>>}

\* Names are interchangeable.
NameSymmetry == Permutations(Names)
=============================================================================
