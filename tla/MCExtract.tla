----------------------------- MODULE MCExtract -----------------------------
(* Instances of Extract for TLC.                                            *)
EXTENDS Extract, TLC

CONSTANTS var1, var2

VarSymmetry == Permutations({var1, var2})
=============================================================================
