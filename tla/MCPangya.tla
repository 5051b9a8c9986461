------------------------------ MODULE MCPangya ------------------------------
(* PangyaContents and PangyaUndo for TLC. *)
EXTENDS PangyaContents, PangyaUndo, TLC

NameSymmetry == Permutations(Names)
=============================================================================
