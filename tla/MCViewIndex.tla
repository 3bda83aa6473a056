---------------------------- MODULE MCViewIndex ----------------------------
(* Instances of ViewIndex for TLC: files with no call site, with two of one *)
(* view, or with one of each; p1 and p2 are $p with two types, and q1 and   *)
(* q2 are $q, which one of them has as a global.                            *)
EXTENDS ViewIndex

CONSTANTS f1, f2, x, y, p1, p2, q1, q2

Use(n, v) == [name |-> n, var |-> v]
MCContents == {<<>>, <<Use(x, q1), Use(x, p1)>>, <<Use(y, p1), Use(x, p2)>>}
MCVarName == [v \in {p1, p2, q1, q2} |-> IF v \in {p1, p2} THEN "p" ELSE "q"]
=============================================================================
