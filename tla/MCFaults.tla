------------------------------ MODULE MCFaults ------------------------------
(* PangyaTools for TLC, with killed tools and failing I/O.                    *)
EXTENDS PangyaProperties, TLC

NameSymmetry == Permutations(Names)
=============================================================================
