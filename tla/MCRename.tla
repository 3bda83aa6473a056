------------------------------ MODULE MCRename ------------------------------
(* Instances of Rename for TLC.  x has a file in both layers at the start,  *)
(* y is free.                                                               *)
EXTENDS Rename, TLC

CONSTANTS f1, f2, x, y

MCTexts == {[refs |-> <<x, x>>, ok |-> TRUE], [refs |-> <<y, x>>, ok |-> TRUE],
            [refs |-> <<x, x>>, ok |-> FALSE]}
MCTextsShort == {[refs |-> <<x>>, ok |-> TRUE], [refs |-> <<y, x>>, ok |-> TRUE]}
MCViews == {<<1, x>>, <<2, x>>}
FileSymmetry == Permutations({f1, f2})
=============================================================================
