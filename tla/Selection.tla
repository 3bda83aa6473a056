----------------------------- MODULE Selection -----------------------------
(***************************************************************************)
(* What a loop that goes through a slice and keeps some of it returns.     *)
(***************************************************************************)
EXTENDS Integers, Sequences

(* The elements in T, in order.  SelectSeq, written out for the proofs: the*)
(* provers have no definition of it.                                       *)
Kept(s, T) ==
  LET kept[i \in 0 .. Len(s)] ==
        IF i = 0 THEN <<>>
        ELSE IF s[i] \in T THEN Append(kept[i - 1], s[i])
        ELSE kept[i - 1]
  IN kept[Len(s)]
=============================================================================
