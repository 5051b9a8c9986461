------------------------------- MODULE MCTree -------------------------------
(* The refinement of PangyaTree by PangyaTools, for TLC.                      *)
EXTENDS PangyaRefinement, TLC

NameSymmetry == Permutations(Names)
=============================================================================
