--------------------------- MODULE SequenceLemmas ---------------------------
(***************************************************************************)
(* Lemmas on numbers and sequences that the proofs about the components    *)
(* share: the least element and induction over a set of numbers, the       *)
(* prefixes of a path, the elements of a sequence, what FlattenSeq and     *)
(* SetToSeq return, that a recursion along a measure has a solution, and   *)
(* what a loop keeps of a slice.                                           *)
(***************************************************************************)
EXTENDS Integers, SequencesExt, Selection, SequenceTheorems, FiniteSetTheorems,
        WellFoundedInduction, TLAPS

(* A set of numbers that is not empty has a least element. *)
LEMMA LeastNat ==
  ASSUME NEW T \in SUBSET Nat, T # {}
  PROVE  \E n \in T : \A m \in T : n <= m
<1>1. PICK x \in T : \A y \in T : ~ (<<y, x>> \in OpToRel(<, Nat))
  BY NatLessThanWellFounded, WFMin
<1>2. ASSUME NEW y \in T PROVE x <= y
  <2>1. ~(y < x)
    BY <1>1 DEF OpToRel
  <2> QED BY <2>1
<1> QED BY <1>2

(* Induction, over a set. *)
LEMMA InductionNat ==
  ASSUME NEW S, 0 \in S, \A n \in Nat : n \in S => n + 1 \in S
  PROVE  Nat \subseteq S
<1> DEFINE T == Nat \ S
<1> SUFFICES ASSUME T # {} PROVE FALSE
  OBVIOUS
<1>1. PICK n \in T : \A m \in T : n <= m
  BY LeastNat
<1>2. n # 0 /\ n - 1 \in Nat /\ n - 1 \notin T
  BY <1>1
<1> QED BY <1>2
-----------------------------------------------------------------------------
(* Induction over sequences, and functions computed along one. *)

LEMMA InductionAppend ==
  ASSUME NEW S, NEW P, <<>> \in P,
         \A s \in Seq(S) : \A x \in S : s \in P => Append(s, x) \in P
  PROVE  Seq(S) \subseteq P
<1> DEFINE T == {n \in Nat : \A s \in Seq(S) : Len(s) = n => s \in P}
<1>1. 0 \in T
  BY EmptySeq
<1>2. ASSUME NEW n \in Nat, n \in T PROVE n + 1 \in T
  <2> SUFFICES ASSUME NEW s \in Seq(S), Len(s) = n + 1 PROVE s \in P
    OBVIOUS
  <2>1. s # <<>>
    BY EmptySeq
  <2>2. PICK t \in Seq(S), x \in S : s = Append(t, x)
    BY <2>1, SequenceEmptyOrAppend
  <2>3. Len(t) = n
    BY <2>2, AppendProperties, LenProperties
  <2> QED BY <1>2, <2>2, <2>3
<1> HIDE DEF T
<1>3. Nat \subseteq T
  BY <1>1, <1>2, InductionNat
<1> QED BY <1>3, LenProperties DEF T

(* The states of a loop over s: first e, then by step. *)
LEMMA LoopExists ==
  ASSUME NEW A, NEW e \in A, NEW B, NEW s \in Seq(B),
         NEW step, \A a \in A : \A b \in B : step[<<a, b>>] \in A
  PROVE  \E h \in [0..Len(s) -> A] :
           h[0] = e /\ \A i \in 1..Len(s) : h[i] = step[<<h[i - 1], s[i]>>]
<1> DEFINE F(n) == \E h \in [0..n -> A] :
                     h[0] = e /\ \A i \in 1..n : h[i] = step[<<h[i - 1], s[i]>>]
           T == {n \in Nat : n <= Len(s) => F(n)}
<1>0. Len(s) \in Nat
  BY LenProperties
<1>1. 0 \in T
  <2> DEFINE h == [i \in 0..0 |-> e]
  <2>1. h \in [0..0 -> A] /\ h[0] = e /\ \A i \in 1..0 : h[i] = step[<<h[i - 1], s[i]>>]
    OBVIOUS
  <2> HIDE DEF h
  <2>2. F(0)
    BY <2>1
  <2> QED BY <2>2
<1>2. ASSUME NEW n \in Nat, n \in T PROVE n + 1 \in T
  <2> SUFFICES ASSUME n + 1 <= Len(s) PROVE F(n + 1)
    OBVIOUS
  <2>1. PICK h \in [0..n -> A] :
          h[0] = e /\ \A i \in 1..n : h[i] = step[<<h[i - 1], s[i]>>]
    BY <1>0, <1>2
  <2>2. n + 1 \in 1..Len(s)
    BY <1>0
  <2>3. s[n + 1] \in B /\ step[<<h[n], s[n + 1]>>] \in A
    BY <2>1, <2>2, ElementOfSeq
  <2> DEFINE k == [i \in 0..(n + 1) |-> IF i = n + 1 THEN step[<<h[n], s[n + 1]>>] ELSE h[i]]
  <2>4. k \in [0..(n + 1) -> A] /\ k[0] = e
    BY <2>1, <2>3
  <2>5. ASSUME NEW i \in 1..(n + 1) PROVE k[i] = step[<<k[i - 1], s[i]>>]
    <3>1. i - 1 \in 0..n /\ k[i - 1] = h[i - 1]
      OBVIOUS
    <3>2. CASE i = n + 1
      <4>1. i - 1 = n /\ k[i] = step[<<h[n], s[n + 1]>>]
        BY <3>2
      <4> QED BY <3>1, <3>2, <4>1
    <3>3. CASE i # n + 1
      <4>1. i \in 1..n /\ k[i] = h[i]
        BY <3>3
      <4> QED BY <2>1, <3>1, <4>1
    <3> QED BY <3>2, <3>3
  <2> HIDE DEF k
  <2> QED BY <2>4, <2>5
<1> HIDE DEF F, T
<1>3. Len(s) \in T
  BY <1>0, <1>1, <1>2, InductionNat
<1>4. F(Len(s))
  BY <1>0, <1>3 DEF T
<1> QED BY <1>4 DEF F

-----------------------------------------------------------------------------
(* Prefixes. *)

LEMMA PrefixBasics ==
  ASSUME NEW S, NEW p \in Seq(S), NEW k \in 0..Len(p)
  PROVE  /\ SubSeq(p, 1, k) \in Seq(S)
         /\ Len(SubSeq(p, 1, k)) = k
         /\ \A i \in 1..k : SubSeq(p, 1, k)[i] = p[i]
         /\ \A j \in 0..k : SubSeq(SubSeq(p, 1, k), 1, j) = SubSeq(p, 1, j)
<1>1. /\ SubSeq(p, 1, k) \in Seq(S)
      /\ Len(SubSeq(p, 1, k)) = k
      /\ \A i \in 1..k : SubSeq(p, 1, k)[i] = p[i]
  BY SubSeqProperties
<1>2. ASSUME NEW j \in 0..k
      PROVE  SubSeq(SubSeq(p, 1, k), 1, j) = SubSeq(p, 1, j)
  <2> DEFINE a == SubSeq(SubSeq(p, 1, k), 1, j)
             b == SubSeq(p, 1, j)
  <2>1. a \in Seq(S) /\ Len(a) = j /\ \A i \in 1..j : a[i] = p[i]
    BY <1>1, SubSeqProperties
  <2>2. b \in Seq(S) /\ Len(b) = j /\ \A i \in 1..j : b[i] = p[i]
    BY SubSeqProperties
  <2> HIDE DEF a, b
  <2>3. a = b
    BY <2>1, <2>2, SeqEqual
  <2> QED BY <2>3 DEF a, b
<1> QED BY <1>1, <1>2

LEMMA FullPrefix ==
  ASSUME NEW S, NEW p \in Seq(S)
  PROVE  SubSeq(p, 1, Len(p)) = p
BY SubSeqFull

-----------------------------------------------------------------------------
(* The elements of a sequence. *)

LEMMA ElementsOfSeq ==
  ASSUME NEW S, NEW s \in Seq(S)
  PROVE  /\ \A x : x \in Range(s) <=> \E i \in 1..Len(s) : x = s[i]
         /\ Range(s) \subseteq S
<1>1. DOMAIN s = 1..Len(s)
  BY LenProperties
<1>2. \A x : x \in Range(s) <=> \E i \in 1..Len(s) : x = s[i]
  BY <1>1 DEF Range
<1>3. \A i \in 1..Len(s) : s[i] \in S
  BY ElementOfSeq
<1> QED BY <1>2, <1>3

LEMMA ElementsOfTail ==
  ASSUME NEW S, NEW s \in Seq(S), s # <<>>
  PROVE  Range(s) = {Head(s)} \cup Range(Tail(s))
<1>1. /\ Tail(s) \in Seq(S) /\ Len(s) \in Nat \ {0} /\ Len(Tail(s)) = Len(s) - 1
      /\ \A i \in 1..(Len(s) - 1) : Tail(s)[i] = s[i + 1]
      /\ Head(s) = s[1]
  BY HeadTailProperties, EmptySeq
<1>2. /\ \A x : x \in Range(s) <=> \E i \in 1..Len(s) : x = s[i]
      /\ \A x : x \in Range(Tail(s)) <=> \E i \in 1..(Len(s) - 1) : x = Tail(s)[i]
  <2>1. \A x : x \in Range(Tail(s)) <=> \E i \in 1..Len(Tail(s)) : x = Tail(s)[i]
    BY <1>1, ElementsOfSeq
  <2> QED BY <1>1, <2>1, ElementsOfSeq
<1>3. ASSUME NEW i \in 1..Len(s) PROVE s[i] \in {Head(s)} \cup Range(Tail(s))
  <2>1. CASE i = 1
    BY <1>1, <2>1
  <2>2. CASE i # 1
    <3>1. i - 1 \in 1..(Len(s) - 1) /\ Tail(s)[i - 1] = s[i]
      BY <1>1, <2>2
    <3> QED BY <1>2, <3>1
  <2> QED BY <2>1, <2>2
<1>4. ASSUME NEW i \in 1..(Len(s) - 1) PROVE Tail(s)[i] \in Range(s)
  <2>1. i + 1 \in 1..Len(s)
    BY <1>1
  <2> QED BY <1>1, <1>2, <2>1
<1> QED BY <1>1, <1>2, <1>3, <1>4
-----------------------------------------------------------------------------
(* A set as a sequence. *)

LEMMA SetToSeqProperties ==
  ASSUME NEW S, IsFiniteSet(S)
  PROVE  /\ SetToSeq(S) \in Seq(S) /\ Len(SetToSeq(S)) = Cardinality(S)
         /\ \A i, j \in 1..Len(SetToSeq(S)) : SetToSeq(S)[i] = SetToSeq(S)[j] => i = j
         /\ \A x \in S : \E i \in 1..Len(SetToSeq(S)) : SetToSeq(S)[i] = x
<1> DEFINE n == Cardinality(S)
           s == SetToSeq(S)
<1>1. n \in Nat /\ \E f \in [1..n -> S] : IsInjective(f)
  BY FS_CardinalityType DEF ExistsBijection, Bijection, Injection
<1>2. s \in [1..n -> S] /\ IsInjective(s)
  BY <1>1 DEF SetToSeq
<1>3. s \in Seq(S) /\ Len(s) = n
  BY <1>1, <1>2, IsASeq, LenProperties
<1>4. \A i, j \in 1..n : s[i] = s[j] => i = j
  BY <1>2 DEF IsInjective
<1>5. \A x \in S : \E i \in 1..n : s[i] = x
  <2> DEFINE im == {s[i] : i \in 1..n}
  <2>1. ExistsBijection(1..n, im)
    <3>1. s \in Injection(1..n, im) /\ s \in Surjection(1..n, im)
      BY <1>2 DEF Injection, Surjection, IsInjective
    <3> QED BY <3>1 DEF ExistsBijection, Bijection
  <2>2. im \in SUBSET S /\ Cardinality(im) = n
    BY <1>1, <1>2, <2>1, FS_CountingElements
  <2>3. im = S
    BY <2>2, FS_Subset
  <2> QED BY <2>3
<1> QED BY <1>3, <1>4, <1>5

-----------------------------------------------------------------------------
(* A sequence of sequences, one after the other. *)

(* What is in the sequence so far, and the rows it was taken from: cell i  *)
(* is row[i], col[i] of s, each of the first n rows' cells once.           *)
Places(s, n, flat, row, col) ==
  /\ \A i \in 1..Len(flat) : /\ row[i] \in 1..n /\ col[i] \in 1..Len(s[row[i]])
                             /\ flat[i] = s[row[i]][col[i]]
  /\ \A i, j \in 1..Len(flat) : row[i] = row[j] /\ col[i] = col[j] => i = j
  /\ \A k \in 1..n : \A c \in 1..Len(s[k]) :
       \E i \in 1..Len(flat) : row[i] = k /\ col[i] = c

LEMMA PlacesOfConcat ==
  ASSUME NEW S, NEW s \in Seq(Seq(S)), NEW n \in Nat, n + 1 \in 1..Len(s),
         NEW flat \in Seq(S), NEW row, NEW col, Places(s, n, flat, row, col)
  PROVE  \E r, c : Places(s, n + 1, flat \o s[n + 1], r, c)
<1> DEFINE t == s[n + 1]
           a == Len(flat)
           b == Len(t)
           all == flat \o t
           r == [i \in 1..(a + b) |-> IF i <= a THEN row[i] ELSE n + 1]
           c == [i \in 1..(a + b) |-> IF i <= a THEN col[i] ELSE i - a]
<1>1. t \in Seq(S) /\ a \in Nat /\ b \in Nat
  BY ElementOfSeq
<1>2. Len(all) = a + b /\ \A i \in 1..(a + b) : all[i] = IF i <= a THEN flat[i] ELSE t[i - a]
  BY <1>1, ConcatProperties
<1>3. ASSUME NEW i \in 1..(a + b)
      PROVE  /\ r[i] \in 1..(n + 1) /\ c[i] \in 1..Len(s[r[i]])
             /\ all[i] = s[r[i]][c[i]]
             /\ i <= a => r[i] # n + 1
  <2>1. CASE i <= a
    <3>1. i \in 1..a /\ r[i] = row[i] /\ c[i] = col[i] /\ all[i] = flat[i]
      BY <1>1, <1>2, <2>1
    <3> QED BY <3>1 DEF Places
  <2>2. CASE ~(i <= a)
    <3>1. r[i] = n + 1 /\ c[i] = i - a /\ all[i] = t[i - a] /\ i - a \in 1..b
      BY <1>1, <1>2, <2>2
    <3> QED BY <3>1
  <2> QED BY <2>1, <2>2
<1>4. ASSUME NEW i \in 1..(a + b), NEW j \in 1..(a + b), r[i] = r[j], c[i] = c[j]
      PROVE  i = j
  <2>1. CASE i <= a /\ j <= a
    <3>1. i \in 1..a /\ j \in 1..a /\ row[i] = row[j] /\ col[i] = col[j]
      BY <1>1, <1>4, <2>1
    <3> QED BY <3>1 DEF Places
  <2>2. CASE ~(i <= a) /\ ~(j <= a)
    BY <1>1, <1>4, <2>2
  <2>3. CASE i <= a /\ ~(j <= a)
    <3>1. r[i] # n + 1 /\ r[j] = n + 1
      BY <1>3, <2>3
    <3> QED BY <1>4, <3>1
  <2>4. CASE ~(i <= a) /\ j <= a
    <3>1. r[j] # n + 1 /\ r[i] = n + 1
      BY <1>3, <2>4
    <3> QED BY <1>4, <3>1
  <2> QED BY <2>1, <2>2, <2>3, <2>4
<1>5. ASSUME NEW k \in 1..(n + 1), NEW x \in 1..Len(s[k])
      PROVE  \E i \in 1..(a + b) : r[i] = k /\ c[i] = x
  <2>1. CASE k = n + 1
    <3>1. x \in 1..b
      BY <1>5, <2>1
    <3>2. a + x \in 1..(a + b) /\ ~(a + x <= a) /\ (a + x) - a = x
      BY <1>1, <3>1
    <3> QED BY <2>1, <3>2
  <2>2. CASE k # n + 1
    <3>1. PICK i \in 1..a : row[i] = k /\ col[i] = x
      BY <1>5, <2>2 DEF Places
    <3>2. i \in 1..(a + b) /\ i <= a
      BY <1>1
    <3> QED BY <3>1, <3>2
  <2> QED BY <2>1, <2>2
<1> HIDE DEF r, c, all
<1>6. Places(s, n + 1, all, r, c)
  BY <1>2, <1>3, <1>4, <1>5 DEF Places
<1> QED BY <1>6 DEF all

(* The function FlattenSeq is defined by. *)
LEMMA FlattenUnfolds ==
  ASSUME NEW S, NEW s \in Seq(Seq(S)), Len(s) # 0
  PROVE  \E g : /\ FlattenSeq(s) = g[Len(s)]
               /\ g = [i \in 1..Len(s) |-> IF i = 1 THEN s[i] ELSE g[i - 1] \o s[i]]
<1> DEFINE F(n) == \E h : h = [i \in 1..n |-> IF i = 1 THEN s[i] ELSE h[i - 1] \o s[i]]
           T == {n \in Nat : F(n)}
<1>1. 0 \in T
  <2> DEFINE h == [i \in 1..0 |-> {}]
  <2>1. h = [i \in 1..0 |-> IF i = 1 THEN s[i] ELSE h[i - 1] \o s[i]]
    OBVIOUS
  <2> QED BY <2>1
<1>2. ASSUME NEW n \in Nat, n \in T PROVE n + 1 \in T
  <2>1. PICK h : h = [i \in 1..n |-> IF i = 1 THEN s[i] ELSE h[i - 1] \o s[i]]
    BY <1>2
  <2> DEFINE k == [i \in 1..(n + 1) |-> IF i = 1 THEN s[i]
                                      ELSE IF i = n + 1 THEN h[n] \o s[i] ELSE h[i]]
  <2>2. ASSUME NEW i \in 1..(n + 1)
        PROVE  k[i] = IF i = 1 THEN s[i] ELSE k[i - 1] \o s[i]
    <3>1. CASE i = 1
      BY <3>1
    <3>2. CASE i # 1
      <4>1. i - 1 \in 1..n /\ i - 1 \in 1..(n + 1) /\ i - 1 # n + 1
        BY <3>2
      <4>2. k[i - 1] = h[i - 1]
        <5>1. CASE i - 1 = 1
          <6>1. 1 \in 1..n
            BY <4>1, <5>1
          <6>2. h[1] = s[1]
            BY <2>1, <6>1
          <6> QED BY <4>1, <5>1, <6>2
        <5>2. CASE i - 1 # 1
          BY <4>1, <5>2
        <5> QED BY <5>1, <5>2
      <4>3. CASE i = n + 1
        <5>1. n = i - 1
          BY <4>3
        <5>2. k[i] = h[n] \o s[i]
          BY <3>2, <4>3
        <5> QED BY <3>2, <4>2, <5>1, <5>2
      <4>4. CASE i # n + 1
        <5>1. i \in 1..n
          BY <4>4
        <5>2. h[i] = h[i - 1] \o s[i]
          BY <2>1, <3>2, <5>1
        <5> QED BY <3>2, <4>2, <4>4, <5>2
      <4> QED BY <4>3, <4>4
    <3> QED BY <3>1, <3>2
  <2>3. k = [i \in 1..(n + 1) |-> IF i = 1 THEN s[i] ELSE k[i - 1] \o s[i]]
    BY <2>2
  <2>4. F(n + 1)
    <3> HIDE DEF k
    <3> QED BY <2>3
  <2> HIDE DEF F
  <2> QED BY <2>4
<1> HIDE DEF T
<1>3. Len(s) \in T
  BY <1>1, <1>2, InductionNat, LenProperties
<1> DEFINE g == CHOOSE k : k = [i \in 1..Len(s) |-> IF i = 1 THEN s[i] ELSE k[i - 1] \o s[i]]
<1>4. FlattenSeq(s) = g[Len(s)]
  BY DEF FlattenSeq
<1>5. g = [i \in 1..Len(s) |-> IF i = 1 THEN s[i] ELSE g[i - 1] \o s[i]]
  BY <1>3 DEF T
<1> QED BY <1>4, <1>5

(* Every cell of every row is in the flat sequence, once, and nothing else. *)
LEMMA FlattenPlaces ==
  ASSUME NEW S, NEW s \in Seq(Seq(S))
  PROVE  /\ FlattenSeq(s) \in Seq(S)
         /\ \E row, col : Places(s, Len(s), FlattenSeq(s), row, col)
<1>1. CASE Len(s) = 0
  <2>1. FlattenSeq(s) = s /\ s = <<>>
    BY <1>1, EmptySeq DEF FlattenSeq
  <2>2. FlattenSeq(s) \in Seq(S) /\ Len(FlattenSeq(s)) = 0
    BY <2>1, EmptySeq
  <2>3. \A row, col : Places(s, Len(s), FlattenSeq(s), row, col)
    BY <1>1, <2>2 DEF Places
  <2> QED BY <2>2, <2>3
<1>2. CASE Len(s) # 0
  <2>1. PICK g : /\ FlattenSeq(s) = g[Len(s)]
                 /\ g = [i \in 1..Len(s) |-> IF i = 1 THEN s[i] ELSE g[i - 1] \o s[i]]
    BY <1>2, FlattenUnfolds
  <2>2. Len(s) \in Nat \ {0} /\ \A i \in 1..Len(s) : s[i] \in Seq(S)
    BY <1>2, LenProperties, ElementOfSeq
  <2> DEFINE T == {n \in Nat : n + 1 \in 1..Len(s) =>
                     /\ g[n + 1] \in Seq(S)
                     /\ \E row, col : Places(s, n + 1, g[n + 1], row, col)}
  <2>3. 0 \in T
    <3>1. g[1] = s[1] /\ s[1] \in Seq(S)
      BY <2>1, <2>2
    <3> DEFINE row == [i \in 1..Len(s[1]) |-> 1]
               col == [i \in 1..Len(s[1]) |-> i]
    <3>2. Places(s, 1, g[1], row, col)
      BY <3>1 DEF Places
    <3> HIDE DEF row, col
    <3>3. \E r, c : Places(s, 0 + 1, g[0 + 1], r, c)
      BY <3>2
    <3> QED BY <3>1, <3>3
  <2>4. ASSUME NEW n \in Nat, n \in T PROVE n + 1 \in T
    <3> DEFINE m == n + 1
    <3> SUFFICES ASSUME m + 1 \in 1..Len(s)
                 PROVE  /\ g[m + 1] \in Seq(S)
                        /\ \E row, col : Places(s, m + 1, g[m + 1], row, col)
      BY <2>2
    <3>1. m \in Nat /\ n + 1 \in 1..Len(s)
      BY <2>2
    <3>2. g[m] \in Seq(S) /\ \E row, col : Places(s, m, g[m], row, col)
      BY <2>4, <3>1
    <3>3. g[m + 1] = g[m] \o s[m + 1] /\ s[m + 1] \in Seq(S)
      <4>1. m + 1 # 1 /\ (m + 1) - 1 = m
        BY <3>1
      <4>2. g[m + 1] = IF m + 1 = 1 THEN s[m + 1] ELSE g[(m + 1) - 1] \o s[m + 1]
        BY <2>1
      <4> QED BY <2>2, <4>1, <4>2
    <3> HIDE DEF m
    <3>4. g[m + 1] \in Seq(S)
      BY <3>2, <3>3, ConcatProperties
    <3>5. \E row, col : Places(s, m + 1, g[m + 1], row, col)
      BY <3>1, <3>2, <3>3, PlacesOfConcat
    <3> QED BY <3>4, <3>5
  <2> HIDE DEF T
  <2>5. Len(s) - 1 \in T
    <3>1. Nat \subseteq T
      BY <2>3, <2>4, InductionNat
    <3> QED BY <2>2, <3>1
  <2> QED BY <2>1, <2>2, <2>5 DEF T
<1> QED BY <1>1, <1>2

LEMMA ElementsOfFlatten ==
  ASSUME NEW S, NEW s \in Seq(Seq(S))
  PROVE  \A x : x \in Range(FlattenSeq(s)) <=> \E k \in 1..Len(s) : x \in Range(s[k])
<1>1. PICK row, col : Places(s, Len(s), FlattenSeq(s), row, col)
  BY FlattenPlaces
<1>2. FlattenSeq(s) \in Seq(S) /\ \A k \in 1..Len(s) : s[k] \in Seq(S)
  BY FlattenPlaces, ElementOfSeq
<1>3. /\ \A x : x \in Range(FlattenSeq(s)) <=> \E i \in 1..Len(FlattenSeq(s)) : x = FlattenSeq(s)[i]
      /\ \A k \in 1..Len(s) : \A x : x \in Range(s[k]) <=> \E i \in 1..Len(s[k]) : x = s[k][i]
  BY <1>2, ElementsOfSeq
<1>4. ASSUME NEW i \in 1..Len(FlattenSeq(s))
      PROVE  \E k \in 1..Len(s) : FlattenSeq(s)[i] \in Range(s[k])
  <2>1. /\ row[i] \in 1..Len(s) /\ col[i] \in 1..Len(s[row[i]])
        /\ FlattenSeq(s)[i] = s[row[i]][col[i]]
    BY <1>1 DEF Places
  <2> QED BY <1>3, <2>1
<1>5. ASSUME NEW k \in 1..Len(s), NEW c \in 1..Len(s[k])
      PROVE  s[k][c] \in Range(FlattenSeq(s))
  <2>1. PICK i \in 1..Len(FlattenSeq(s)) : row[i] = k /\ col[i] = c
    BY <1>1 DEF Places
  <2>2. FlattenSeq(s)[i] = s[row[i]][col[i]]
    BY <1>1 DEF Places
  <2> QED BY <1>3, <2>1, <2>2
<1> SUFFICES ASSUME NEW x
             PROVE  x \in Range(FlattenSeq(s)) <=> \E k \in 1..Len(s) : x \in Range(s[k])
  OBVIOUS
<1>6. ASSUME x \in Range(FlattenSeq(s)) PROVE \E k \in 1..Len(s) : x \in Range(s[k])
  <2>1. PICK i \in 1..Len(FlattenSeq(s)) : x = FlattenSeq(s)[i]
    BY <1>3, <1>6
  <2> QED BY <1>4, <2>1
<1>7. ASSUME NEW k \in 1..Len(s), x \in Range(s[k]) PROVE x \in Range(FlattenSeq(s))
  <2> DEFINE t == s[k]
  <2>1. t \in Seq(S)
    BY <1>2
  <2> HIDE DEF t
  <2>2. x \in Range(t) <=> \E c \in 1..Len(t) : x = t[c]
    BY <2>1, ElementsOfSeq
  <2>3. PICK c \in 1..Len(t) : x = t[c]
    BY <1>7, <2>2 DEF t
  <2> QED BY <1>5, <2>3 DEF t
<1> QED BY <1>6, <1>7
-----------------------------------------------------------------------------
(* Recursion. *)

(* Induction along a measure. *)
LEMMA InductionMeasure ==
  ASSUME NEW D, NEW m \in [D -> Nat], NEW P,
         \A x \in D : (\A y \in D : m[y] < m[x] => y \in P) => x \in P
  PROVE  D \subseteq P
<1> SUFFICES ASSUME NEW z \in D, z \notin P PROVE FALSE
  OBVIOUS
<1> DEFINE T == {m[x] : x \in D \ P}
<1>1. T \in SUBSET Nat /\ T # {}
  OBVIOUS
<1>2. PICK n \in T : \A k \in T : n <= k
  BY <1>1, LeastNat
<1>3. PICK x \in D \ P : n = m[x]
  BY <1>2
<1>4. \A y \in D : m[y] < m[x] => y \in P
  BY <1>2, <1>3
<1> QED BY <1>3, <1>4

(* A recursion on D: step[x] computes the value at x from the function, and*)
(* looks at its values at smaller x only.                                  *)
Recursion(D, m, A, step) ==
  /\ m \in [D -> Nat] /\ A # {} /\ step \in [D -> [[D -> A] -> A]]
  /\ \A x \in D : \A f, g \in [D -> A] :
       (\A y \in D : m[y] < m[x] => f[y] = g[y]) => step[x][f] = step[x][g]

LEMMA RecursionExists ==
  ASSUME NEW D, NEW m, NEW A, NEW step, Recursion(D, m, A, step)
  PROVE  \E h \in [D -> A] : \A x \in D : h[x] = step[x][h]
<1> DEFINE Upto(f, n) == \A x \in D : m[x] < n => f[x] = step[x][f]
           T == {n \in Nat : \E f \in [D -> A] : Upto(f, n)}
<1>0. PICK e \in A : TRUE
  BY DEF Recursion
<1> USE DEF Recursion
<1>1. 0 \in T
  <2>1. [x \in D |-> e] \in [D -> A] /\ \A x \in D : ~(m[x] < 0)
    OBVIOUS
  <2> QED BY <2>1
<1>2. ASSUME NEW n \in Nat, n \in T PROVE n + 1 \in T
  <2>1. PICK f \in [D -> A] : Upto(f, n)
    BY <1>2
  <2> DEFINE g == [x \in D |-> IF m[x] = n THEN step[x][f] ELSE f[x]]
  <2>2. g \in [D -> A] /\ \A x \in D : m[x] < n => g[x] = f[x]
    OBVIOUS
  <2>3. ASSUME NEW x \in D, m[x] < n + 1 PROVE g[x] = step[x][g]
    <3>1. m[x] \in Nat /\ \A y \in D : m[y] < m[x] => f[y] = g[y]
      BY <2>2, <2>3
    <3>2. step[x][f] = step[x][g]
      BY <2>2, <3>1
    <3>3. g[x] = step[x][f]
      <4>1. CASE m[x] = n
        BY <4>1
      <4>2. CASE m[x] # n
        <5>1. \A k \in Nat : k < n + 1 /\ k # n => k < n
          OBVIOUS
        <5>2. m[x] < n
          BY <2>3, <3>1, <4>2, <5>1
        <5> QED BY <2>1, <4>2, <5>2
      <4> QED BY <4>1, <4>2
    <3> QED BY <3>2, <3>3
  <2> HIDE DEF g
  <2> QED BY <2>2, <2>3
<1>3. Nat \subseteq T
  <2> HIDE DEF T
  <2> QED BY <1>1, <1>2, InductionNat
<1>4. ASSUME NEW f \in [D -> A], NEW g \in [D -> A], NEW n \in Nat, NEW k \in Nat,
             Upto(f, n), Upto(g, k)
      PROVE  \A x \in D : m[x] < n /\ m[x] < k => f[x] = g[x]
  <2> DEFINE P == {x \in D : m[x] < n /\ m[x] < k => f[x] = g[x]}
  <2>1. ASSUME NEW x \in D, \A y \in D : m[y] < m[x] => y \in P PROVE x \in P
    <3> SUFFICES ASSUME m[x] < n, m[x] < k PROVE f[x] = g[x]
      OBVIOUS
    <3>1. \A y \in D : m[y] < m[x] => f[y] = g[y]
      BY <2>1
    <3>2. step[x][f] = step[x][g]
      BY <3>1
    <3> QED BY <1>4, <3>2
  <2> HIDE DEF P
  <2>2. D \subseteq P
    BY <2>1, InductionMeasure
  <2> QED BY <2>2 DEF P
<1> DEFINE part == [n \in Nat |-> CHOOSE f \in [D -> A] : Upto(f, n)]
           h == [x \in D |-> part[m[x] + 1][x]]
<1>5. \A n \in Nat : part[n] \in [D -> A] /\ Upto(part[n], n)
  BY <1>3
<1> HIDE DEF part, T
<1>6. h \in [D -> A]
  BY <1>5
<1>7. ASSUME NEW x \in D PROVE h[x] = step[x][h]
  <2> DEFINE f == part[m[x] + 1]
  <2>1. m[x] \in Nat /\ m[x] + 1 \in Nat /\ m[x] < m[x] + 1
    OBVIOUS
  <2>2. f \in [D -> A] /\ Upto(f, m[x] + 1)
    BY <1>5, <2>1
  <2>3. ASSUME NEW y \in D, m[y] < m[x] PROVE h[y] = f[y]
    <3>1. m[y] + 1 \in Nat /\ m[y] < m[y] + 1 /\ m[y] < m[x] + 1
      BY <2>1, <2>3
    <3>2. part[m[y] + 1] \in [D -> A] /\ Upto(part[m[y] + 1], m[y] + 1)
      BY <1>5, <3>1
    <3> HIDE DEF f
    <3>3. PICK g \in [D -> A] : g = part[m[y] + 1]
      BY <3>2
    <3>4. PICK k \in Nat : k = m[y] + 1
      BY <3>1
    <3>5. PICK l \in Nat : l = m[x] + 1
      BY <2>1
    <3>6. Upto(g, k) /\ Upto(f, l)
      BY <2>2, <3>2, <3>3, <3>4, <3>5
    <3>7. \A z \in D : m[z] < k /\ m[z] < l => g[z] = f[z]
      BY <1>4, <2>2, <3>6
    <3>8. g[y] = f[y]
      BY <3>1, <3>4, <3>5, <3>7
    <3> QED BY <3>3, <3>8
  <2>4. f[x] = step[x][f] /\ h[x] = f[x]
    BY <2>1, <2>2
  <2> HIDE DEF f, h
  <2>5. step[x][f] = step[x][h]
    BY <1>6, <2>2, <2>3
  <2> QED BY <2>4, <2>5
<1> HIDE DEF h
<1> QED BY <1>6, <1>7
-----------------------------------------------------------------------------
(* Kept, computed step by step. *)

KeepsAll(h, s, T) ==
  /\ h[0] = <<>>
  /\ \A i \in 1..Len(s) : h[i] = IF s[i] \in T THEN Append(h[i - 1], s[i]) ELSE h[i - 1]

LEMMA KeptLoop ==
  ASSUME NEW S, NEW s \in Seq(S), NEW T, NEW X, NEW h \in [0..Len(s) -> X], KeepsAll(h, s, T)
  PROVE  Kept(s, T) = h[Len(s)]
<1> DEFINE k == CHOOSE g : g = [i \in 0..Len(s) |-> IF i = 0 THEN <<>>
                                  ELSE IF s[i] \in T THEN Append(g[i - 1], s[i])
                                  ELSE g[i - 1]]
<1>0. Len(s) \in Nat
  BY LenProperties
<1>1. h = [i \in 0..Len(s) |-> IF i = 0 THEN <<>>
                               ELSE IF s[i] \in T THEN Append(h[i - 1], s[i])
                               ELSE h[i - 1]]
  <2>1. ASSUME NEW i \in 0..Len(s)
        PROVE  h[i] = IF i = 0 THEN <<>>
                      ELSE IF s[i] \in T THEN Append(h[i - 1], s[i])
                      ELSE h[i - 1]
    <3>1. CASE i = 0
      BY <3>1 DEF KeepsAll
    <3>2. CASE i # 0
      <4>1. i \in 1..Len(s)
        BY <1>0, <3>2
      <4> QED BY <3>2, <4>1 DEF KeepsAll
    <3> QED BY <3>1, <3>2
  <2> QED BY <2>1
<1>2. k = [i \in 0..Len(s) |-> IF i = 0 THEN <<>>
                               ELSE IF s[i] \in T THEN Append(k[i - 1], s[i])
                               ELSE k[i - 1]]
  BY <1>1
<1>3. Kept(s, T) = k[Len(s)]
  BY DEF Kept
<1> HIDE DEF k
<1> DEFINE E == {i \in Nat : i <= Len(s) => k[i] = h[i]}
<1>4. 0 \in E
  BY <1>0, <1>2 DEF KeepsAll
<1>5. ASSUME NEW i \in Nat, i \in E PROVE i + 1 \in E
  <2> SUFFICES ASSUME i + 1 <= Len(s) PROVE k[i + 1] = h[i + 1]
    OBVIOUS
  <2>1. i + 1 \in 0..Len(s) /\ i + 1 \in 1..Len(s) /\ i + 1 # 0 /\ (i + 1) - 1 = i /\ k[i] = h[i]
    BY <1>0, <1>5
  <2>2. k[i + 1] = IF s[i + 1] \in T THEN Append(k[(i + 1) - 1], s[i + 1]) ELSE k[(i + 1) - 1]
    BY <1>2, <2>1
  <2>3. h[i + 1] = IF s[i + 1] \in T THEN Append(h[(i + 1) - 1], s[i + 1]) ELSE h[(i + 1) - 1]
    BY <2>1 DEF KeepsAll
  <2> QED BY <2>1, <2>2, <2>3
<1> HIDE DEF E
<1>6. Len(s) \in E
  BY <1>0, <1>4, <1>5, InductionNat
<1> QED BY <1>0, <1>3, <1>6 DEF E

LEMMA KeptLoops ==
  ASSUME NEW S, NEW s \in Seq(S), NEW T
  PROVE  \E h \in [0..Len(s) -> Seq(S \cap T)] : KeepsAll(h, s, T)
<1> DEFINE A == Seq(S \cap T)
           step == [p \in A \X S |-> IF p[2] \in T THEN Append(p[1], p[2]) ELSE p[1]]
<1>1. <<>> \in A
  BY EmptySeq
<1>2. \A a \in A : \A x \in S : step[<<a, x>>] \in A
  BY AppendProperties
<1>3. \A a \in A : \A x \in S : step[<<a, x>>] = IF x \in T THEN Append(a, x) ELSE a
  OBVIOUS
<1>4. \A i \in 1..Len(s) : s[i] \in S
  BY ElementOfSeq
<1> HIDE DEF A, step
<1>5. PICK h \in [0..Len(s) -> A] :
        h[0] = <<>> /\ \A i \in 1..Len(s) : h[i] = step[<<h[i - 1], s[i]>>]
  <2>1. PICK e \in A : e = <<>>
    BY <1>1
  <2>2. \E h \in [0..Len(s) -> A] :
          h[0] = e /\ \A i \in 1..Len(s) : h[i] = step[<<h[i - 1], s[i]>>]
    BY <1>2, LoopExists
  <2> QED BY <2>1, <2>2
<1>6. \A i \in 1..Len(s) : h[i - 1] \in A
  BY <1>5, LenProperties
<1>7. KeepsAll(h, s, T)
  BY <1>3, <1>4, <1>5, <1>6 DEF KeepsAll
<1> QED BY <1>5, <1>7 DEF A

LEMMA KeptEmpty ==
  ASSUME NEW T
  PROVE  Kept(<<>>, T) = <<>>
<1>1. <<>> \in Seq({}) /\ Len(<<>>) = 0
  BY EmptySeq
<1>2. PICK s \in Seq({}) : s = <<>> /\ Len(s) = 0
  BY <1>1
<1>3. PICK h \in [0..Len(s) -> Seq({} \cap T)] : KeepsAll(h, s, T)
  BY KeptLoops
<1>4. Kept(s, T) = h[Len(s)]
  BY <1>3, KeptLoop
<1>5. h[0] = <<>>
  BY <1>3 DEF KeepsAll
<1> QED BY <1>2, <1>4, <1>5

LEMMA KeptAppend ==
  ASSUME NEW S, NEW s \in Seq(S), NEW x \in S, NEW T
  PROVE  /\ Kept(s, T) \in Seq(S \cap T)
         /\ Kept(Append(s, x), T) = IF x \in T THEN Append(Kept(s, T), x) ELSE Kept(s, T)
<1> DEFINE A == Seq(S \cap T)
           t == Append(s, x)
           n == Len(s)
<1>1. PICK h \in [0..n -> A] : KeepsAll(h, s, T)
  BY KeptLoops
<1>2. Kept(s, T) = h[n] /\ n \in Nat
  BY <1>1, KeptLoop, LenProperties
<1>3. PICK g \in [0..Len(t) -> A] : KeepsAll(g, t, T)
  BY AppendProperties, KeptLoops
<1>4. /\ Len(t) = n + 1 /\ t[n + 1] = x /\ \A i \in 1..n : t[i] = s[i]
      /\ t \in Seq(S)
  BY AppendProperties
<1> HIDE DEF t, A
<1>5. Kept(t, T) = g[n + 1]
  BY <1>3, <1>4, KeptLoop
<1>6. g[n + 1] = IF x \in T THEN Append(g[n], x) ELSE g[n]
  <2>1. n + 1 \in 1..Len(t) /\ (n + 1) - 1 = n
    BY <1>2, <1>4
  <2>2. g[n + 1] = IF t[n + 1] \in T THEN Append(g[(n + 1) - 1], t[n + 1]) ELSE g[(n + 1) - 1]
    BY <1>3, <2>1 DEF KeepsAll
  <2> QED BY <1>4, <2>1, <2>2
<1> DEFINE k == [i \in 0..n |-> g[i]]
<1>7. k \in [0..n -> A]
  BY <1>2, <1>3, <1>4
<1>8. KeepsAll(k, s, T)
  <2>1. k[0] = <<>>
    BY <1>2, <1>3 DEF KeepsAll
  <2>2. ASSUME NEW i \in 1..n
        PROVE  k[i] = IF s[i] \in T THEN Append(k[i - 1], s[i]) ELSE k[i - 1]
    <3>1. i \in 1..Len(t) /\ i \in 0..n /\ i - 1 \in 0..n /\ t[i] = s[i]
      BY <1>2, <1>4
    <3>2. g[i] = IF t[i] \in T THEN Append(g[i - 1], t[i]) ELSE g[i - 1]
      BY <1>3, <3>1 DEF KeepsAll
    <3> QED BY <3>1, <3>2
  <2> HIDE DEF k
  <2> QED BY <2>1, <2>2 DEF KeepsAll
<1>9. k[n] = g[n]
  BY <1>2
<1> HIDE DEF k
<1>10. Kept(s, T) = k[n]
  BY <1>7, <1>8, KeptLoop
<1>11. Kept(s, T) \in A
  BY <1>2
<1> QED BY <1>5, <1>6, <1>9, <1>10, <1>11 DEF A, t

LEMMA KeptIn ==
  ASSUME NEW S, NEW s \in Seq(S), NEW T
  PROVE  Kept(s, T) \in Seq(S \cap T) /\ Kept(s, T) \in Seq(S)
<1>1. PICK h \in [0..Len(s) -> Seq(S \cap T)] : KeepsAll(h, s, T)
  BY KeptLoops
<1>2. Kept(s, T) = h[Len(s)]
  BY <1>1, KeptLoop
<1>3. Kept(s, T) \in Seq(S \cap T)
  <2>1. Len(s) \in Nat
    BY LenProperties
  <2> QED BY <1>1, <1>2, <2>1
<1>4. S \cap T \subseteq S
  OBVIOUS
<1> HIDE DEF Kept
<1> QED BY <1>3, <1>4, SeqMonotonic

LEMMA KeptStep ==
  ASSUME NEW S, NEW T
  PROVE  \A s \in Seq(S) : \A x \in S :
           Kept(Append(s, x), T) = IF x \in T THEN Append(Kept(s, T), x) ELSE Kept(s, T)
BY KeptAppend

(* What it keeps of a concatenation, of what was kept, of everything and of*)
(* nothing.                                                                *)
LEMMA AppendIsLast ==
  ASSUME NEW S, NEW s \in Seq(S), NEW t \in Seq(S), NEW x \in S
  PROVE  s \o Append(t, x) = Append(s \o t, x)
<1>1. <<x>> \in Seq(S) /\ s \o t \in Seq(S)
  BY ConcatProperties
<1>2. s \o Append(t, x) = s \o (t \o <<x>>) /\ Append(s \o t, x) = (s \o t) \o <<x>>
  BY <1>1, AppendIsConcat
<1> QED BY <1>1, <1>2, ConcatAssociative

LEMMA KeptConcat ==
  ASSUME NEW S, NEW s \in Seq(S), NEW t \in Seq(S), NEW T
  PROVE  Kept(s \o t, T) = Kept(s, T) \o Kept(t, T)
<1> DEFINE P == {u \in Seq(S) : Kept(s \o u, T) = Kept(s, T) \o Kept(u, T)}
<1>1. <<>> \in P
  <2>1. s \o <<>> = s /\ Kept(s, T) \o <<>> = Kept(s, T)
    BY KeptIn, ConcatEmptySeq
  <2> QED BY <2>1, KeptEmpty, EmptySeq
<1>2. ASSUME NEW u \in Seq(S), NEW x \in S, u \in P PROVE Append(u, x) \in P
  <2>1. Append(u, x) \in Seq(S) /\ s \o u \in Seq(S)
    BY AppendProperties, ConcatProperties
  <2>2. Kept(s, T) \in Seq(S) /\ Kept(u, T) \in Seq(S)
    BY KeptIn
  <2>3. s \o Append(u, x) = Append(s \o u, x)
    BY AppendIsLast
  <2>4. Kept(Append(s \o u, x), T)
          = IF x \in T THEN Append(Kept(s \o u, T), x) ELSE Kept(s \o u, T)
    BY <2>1, KeptAppend
  <2>5. Kept(Append(u, x), T) = IF x \in T THEN Append(Kept(u, T), x) ELSE Kept(u, T)
    BY KeptAppend
  <2>6. Kept(s, T) \o Append(Kept(u, T), x) = Append(Kept(s, T) \o Kept(u, T), x)
    BY <2>2, AppendIsLast
  <2>7. Kept(s \o u, T) = Kept(s, T) \o Kept(u, T)
    BY <1>2
  <2>8. Kept(s \o Append(u, x), T) = Kept(s, T) \o Kept(Append(u, x), T)
    BY <2>3, <2>4, <2>5, <2>6, <2>7
  <2> QED BY <2>1, <2>8
<1> HIDE DEF P
<1>3. t \in P
  BY <1>1, <1>2, InductionAppend
<1> QED BY <1>3 DEF P

LEMMA KeptConcats ==
  ASSUME NEW S, NEW T
  PROVE  \A s, t \in Seq(S) : Kept(s \o t, T) = Kept(s, T) \o Kept(t, T)
BY KeptConcat

LEMMA KeptKept ==
  ASSUME NEW S, NEW s \in Seq(S), NEW T, NEW R
  PROVE  Kept(Kept(s, T), R) = Kept(s, T \cap R)
<1> DEFINE P == {u \in Seq(S) : Kept(Kept(u, T), R) = Kept(u, T \cap R)}
<1>1. <<>> \in P
  BY KeptEmpty, EmptySeq
<1>2. ASSUME NEW u \in Seq(S), NEW x \in S, u \in P PROVE Append(u, x) \in P
  <2>1. Append(u, x) \in Seq(S) /\ Kept(u, T) \in Seq(S)
    BY AppendProperties, KeptIn
  <2>2. Kept(Append(u, x), T) = IF x \in T THEN Append(Kept(u, T), x) ELSE Kept(u, T)
    BY KeptAppend
  <2>3. Kept(Append(u, x), T \cap R)
          = IF x \in T \cap R THEN Append(Kept(u, T \cap R), x) ELSE Kept(u, T \cap R)
    BY KeptAppend
  <2>4. Kept(Append(Kept(u, T), x), R)
          = IF x \in R THEN Append(Kept(Kept(u, T), R), x) ELSE Kept(Kept(u, T), R)
    BY <2>1, KeptAppend
  <2>5. Kept(Kept(u, T), R) = Kept(u, T \cap R)
    BY <1>2
  <2>6. Kept(Kept(Append(u, x), T), R) = Kept(Append(u, x), T \cap R)
    <3>1. CASE x \in T
      <4>1. Kept(Append(u, x), T) = Append(Kept(u, T), x)
        BY <2>2, <3>1
      <4>2. x \in T \cap R <=> x \in R
        BY <3>1
      <4>3. Kept(Append(Kept(u, T), x), R) = Kept(Append(u, x), T \cap R)
        BY <2>3, <2>4, <2>5, <4>2
      <4> QED BY <4>1, <4>3
    <3>2. CASE x \notin T
      BY <2>2, <2>3, <2>5, <3>2
    <3> QED BY <3>1, <3>2
  <2> QED BY <2>1, <2>6
<1> HIDE DEF P
<1>3. s \in P
  BY <1>1, <1>2, InductionAppend
<1> QED BY <1>3 DEF P

LEMMA KeptSame ==
  ASSUME NEW S, NEW s \in Seq(S), NEW T, NEW R, S \cap T = S \cap R
  PROVE  Kept(s, T) = Kept(s, R)
<1> DEFINE P == {u \in Seq(S) : Kept(u, T) = Kept(u, R)}
<1>1. <<>> \in P
  BY KeptEmpty, EmptySeq
<1>2. ASSUME NEW u \in Seq(S), NEW x \in S, u \in P PROVE Append(u, x) \in P
  <2>1. Append(u, x) \in Seq(S)
    BY AppendProperties
  <2>2. /\ Kept(Append(u, x), T) = IF x \in T THEN Append(Kept(u, T), x) ELSE Kept(u, T)
        /\ Kept(Append(u, x), R) = IF x \in R THEN Append(Kept(u, R), x) ELSE Kept(u, R)
    BY KeptAppend
  <2>3. x \in T <=> x \in R
    OBVIOUS
  <2>4. Kept(Append(u, x), T) = Kept(Append(u, x), R)
    BY <1>2, <2>2, <2>3
  <2> QED BY <2>1, <2>4
<1> HIDE DEF P
<1>3. s \in P
  BY <1>1, <1>2, InductionAppend
<1> QED BY <1>3 DEF P

LEMMA KeptAll ==
  ASSUME NEW S, NEW s \in Seq(S), NEW T, S \subseteq T
  PROVE  Kept(s, T) = s
<1> DEFINE P == {u \in Seq(S) : Kept(u, T) = u}
<1>1. <<>> \in P
  BY KeptEmpty, EmptySeq
<1>2. ASSUME NEW u \in Seq(S), NEW x \in S, u \in P PROVE Append(u, x) \in P
  BY <1>2, KeptAppend, AppendProperties
<1> HIDE DEF P
<1>3. s \in P
  BY <1>1, <1>2, InductionAppend
<1> QED BY <1>3 DEF P

LEMMA KeptNone ==
  ASSUME NEW S, NEW s \in Seq(S), NEW T, S \cap T = {}
  PROVE  Kept(s, T) = <<>>
<1> DEFINE P == {u \in Seq(S) : Kept(u, T) = <<>>}
<1>1. <<>> \in P
  BY KeptEmpty, EmptySeq
<1>2. ASSUME NEW u \in Seq(S), NEW x \in S, u \in P PROVE Append(u, x) \in P
  <2>1. x \notin T
    OBVIOUS
  <2> QED BY <1>2, <2>1, KeptAppend, AppendProperties
<1> HIDE DEF P
<1>3. s \in P
  BY <1>1, <1>2, InductionAppend
<1> QED BY <1>3 DEF P

(* When all but one row of a sequence of sequences have nothing in T. *)
LEMMA KeptFlatten ==
  ASSUME NEW S, NEW ss \in Seq(Seq(S)), NEW k \in 1..Len(ss), NEW T,
         \A i \in 1..Len(ss) : i # k => Kept(ss[i], T) = <<>>
  PROVE  Kept(FlattenSeq(ss), T) = Kept(ss[k], T)
<1>1. Len(ss) \in Nat \ {0} /\ \A i \in 1..Len(ss) : ss[i] \in Seq(S)
  BY LenProperties, ElementOfSeq
<1>2. PICK g : /\ FlattenSeq(ss) = g[Len(ss)]
               /\ g = [i \in 1..Len(ss) |-> IF i = 1 THEN ss[i] ELSE g[i - 1] \o ss[i]]
  BY <1>1, FlattenUnfolds
<1> DEFINE Q(m) == /\ g[m] \in Seq(S)
                   /\ m >= k => Kept(g[m], T) = Kept(ss[k], T)
                   /\ m < k => Kept(g[m], T) = <<>>
           P == {n \in Nat : n + 1 <= Len(ss) => Q(n + 1)}
<1>3. 0 \in P
  <2>1. g[1] = ss[1] /\ 1 \in 1..Len(ss)
    BY <1>1, <1>2
  <2>2. ss[1] \in Seq(S) /\ (1 # k => Kept(ss[1], T) = <<>>) /\ (1 >= k => 1 = k)
    BY <1>1, <2>1
  <2>3. Q(1)
    BY <2>1, <2>2
  <2> HIDE DEF Q
  <2> QED BY <2>3
<1>4. ASSUME NEW n \in Nat, n \in P PROVE n + 1 \in P
  <2> DEFINE m == n + 1
  <2> SUFFICES ASSUME m + 1 <= Len(ss) PROVE Q(m + 1)
    OBVIOUS
  <2>1. m \in Nat /\ m <= Len(ss) /\ m + 1 \in 1..Len(ss) /\ m + 1 # 1 /\ (m + 1) - 1 = m
    BY <1>1
  <2>2. Q(m)
    BY <1>4, <2>1
  <2>3. g[m + 1] = IF m + 1 = 1 THEN ss[m + 1] ELSE g[(m + 1) - 1] \o ss[m + 1]
    BY <1>2, <2>1
  <2>4. g[m + 1] = g[m] \o ss[m + 1]
    BY <2>1, <2>3
  <2> HIDE DEF m
  <2>5. ss[m + 1] \in Seq(S) /\ g[m] \in Seq(S) /\ g[m + 1] \in Seq(S)
    BY <1>1, <2>1, <2>2, <2>4, ConcatProperties
  <2>6. Kept(g[m + 1], T) = Kept(g[m], T) \o Kept(ss[m + 1], T)
    <3>1. \A a, b \in Seq(S) : Kept(a \o b, T) = Kept(a, T) \o Kept(b, T)
      BY KeptConcats
    <3> QED BY <2>4, <2>5, <3>1
  <2>7. Kept(g[m], T) \in Seq(S) /\ Kept(ss[m + 1], T) \in Seq(S)
    BY <2>5, KeptIn
  <2>8. CASE m + 1 = k
    <3>1. Kept(g[m], T) = <<>> /\ ~(m + 1 < k)
      BY <2>1, <2>2, <2>8
    <3>2. Kept(g[m + 1], T) = Kept(ss[m + 1], T)
      BY <2>6, <2>7, <3>1, ConcatEmptySeq
    <3> QED BY <2>5, <2>8, <3>1, <3>2
  <2>9. CASE m + 1 # k
    <3>1. Kept(ss[m + 1], T) = <<>>
      BY <2>1, <2>9
    <3>2. Kept(g[m + 1], T) = Kept(g[m], T)
      BY <2>6, <2>7, <3>1, ConcatEmptySeq
    <3>3. (m + 1 >= k => m >= k) /\ (m + 1 < k => m < k)
      BY <2>1, <2>9
    <3> QED BY <2>2, <2>5, <3>2, <3>3
  <2> QED BY <2>8, <2>9
<1> HIDE DEF P
<1>5. Len(ss) - 1 \in P
  <2>1. Nat \subseteq P
    BY <1>3, <1>4, InductionNat
  <2> QED BY <1>1, <2>1
<1>6. Q(Len(ss))
  <2>1. Len(ss) - 1 \in Nat /\ (Len(ss) - 1) + 1 = Len(ss)
    BY <1>1
  <2> HIDE DEF Q
  <2> QED BY <1>5, <2>1 DEF P
<1> QED BY <1>1, <1>2, <1>6
=============================================================================
