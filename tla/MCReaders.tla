------------------------------ MODULE MCReaders ------------------------------
(* ls and stat on the images of PangyaTools, for TLC.                         *)
EXTENDS PangyaLive, TLC

NameSymmetry == Permutations(Names)
=============================================================================
