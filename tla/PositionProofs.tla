--------------------------- MODULE PositionProofs ---------------------------
(***************************************************************************)
(* Proofs about the conversion of positions, for a file of any bytes and   *)
(* any length.  All three loops go from character to character; what they  *)
(* meet is the boundaries, the places where the parser's decoding from the *)
(* start of the file starts a character.  A line begins at one, within a   *)
(* line there is at most one way from one boundary to the next, and along  *)
(* it the loop of positionToByteOffset takes off what CountUTF16Units      *)
(* adds.                                                                   *)
(***************************************************************************)
EXTENDS Position, SequenceLemmas

(* A file is bytes. *)
Bytes == src \in Seq(Byte)

-----------------------------------------------------------------------------
(* Characters. *)

LEMMA ByteAt ==
  ASSUME Bytes, NEW o \in Nat, o < Len(src)
  PROVE  /\ Len(src) \in Nat
         /\ At(o) \in Byte /\ At(o)[1] \in 1..4
<1>1. Len(src) \in Nat /\ o + 1 \in 1..Len(src)
  BY LenProperties DEF Bytes
<1>2. At(o) \in Byte
  BY <1>1, ElementOfSeq DEF Bytes, At
<1>3. ASSUME NEW b \in Byte PROVE b[1] \in 1..4
  <2>1. CASE b = Newline
    BY <2>1 DEF Newline
  <2>2. CASE b \in CharSize \X (1..4)
    <3>1. PICK n \in CharSize, k \in 1..4 : b = <<n, k>>
      BY <2>2
    <3> QED BY <3>1, PositionAssumption
  <2> QED BY <2>1, <2>2 DEF Byte
<1> QED BY <1>1, <1>2, <1>3

(* A character ends within the limit, and only a byte on its own is a      *)
(* newline.                                                                *)
LEMMA RuneBasics ==
  ASSUME Bytes, NEW limit \in Nat, limit <= Len(src), NEW o \in Nat, o < limit
  PROVE  /\ RuneSize(o, limit) \in 1..4 /\ o + RuneSize(o, limit) <= limit
         /\ o < o + RuneSize(o, limit)
         /\ \A q \in Nat : o <= q /\ q < o + RuneSize(o, limit) /\ At(q) = Newline
              => RuneSize(o, limit) = 1
<1> DEFINE n == At(o)[1]
           whole == o + n <= limit /\ \A k \in 1..n : At(o + k - 1) = <<n, k>>
<1>0. Len(src) \in Nat
  BY LenProperties DEF Bytes
<1>1. n \in 1..4
  BY <1>0, ByteAt
<1>2. RuneSize(o, limit) = IF whole THEN n ELSE 1
  BY DEF RuneSize
<1> HIDE DEF n
<1>3. CASE whole
  <2>1. ASSUME NEW q \in Nat, o <= q, q < o + n PROVE At(q) # Newline
    <3>1. (q - o) + 1 \in 1..n /\ o + ((q - o) + 1) - 1 = q
      BY <1>1, <2>1
    <3>2. At(q) = <<n, (q - o) + 1>>
      BY <1>3, <3>1
    <3>3. (q - o) + 1 # 0
      BY <2>1
    <3> QED BY <3>2, <3>3 DEF Newline
  <2> QED BY <1>1, <1>2, <1>3, <2>1
<1>4. CASE ~whole
  BY <1>2, <1>4
<1> QED BY <1>3, <1>4

(* A limit that does not cut a character does not change its size. *)
LEMMA RuneWithin ==
  ASSUME Bytes, NEW limit \in Nat, limit <= Len(src), NEW o \in Nat, o < limit,
         o + RuneSize(o, Len(src)) <= limit
  PROVE  RuneSize(o, limit) = RuneSize(o, Len(src))
<1> DEFINE n == At(o)[1]
           bytes == \A k \in 1..n : At(o + k - 1) = <<n, k>>
<1>0. Len(src) \in Nat
  BY LenProperties DEF Bytes
<1>1. n \in 1..4
  BY <1>0, ByteAt
<1>2. /\ RuneSize(o, limit) = IF o + n <= limit /\ bytes THEN n ELSE 1
      /\ RuneSize(o, Len(src)) = IF o + n <= Len(src) /\ bytes THEN n ELSE 1
  BY DEF RuneSize
<1> HIDE DEF n, bytes
<1> QED BY <1>0, <1>1, <1>2

-----------------------------------------------------------------------------
(* Lines. *)

(* The newlines before an offset. *)
Newlines(o) == {p \in 0 .. o - 1 : At(p) = Newline}

NewlinesFrom(o) == {p \in o .. Len(src) - 1 : At(p) = Newline}

Earliest(ps) == CHOOSE p \in ps : \A q \in ps : p <= q

LEMMA EarliestIs ==
  ASSUME NEW ps \in SUBSET Nat, ps # {}
  PROVE  Earliest(ps) \in ps /\ \A q \in ps : Earliest(ps) <= q
<1>1. \E p \in ps : \A q \in ps : p <= q
  BY LeastNat
<1> QED BY <1>1 DEF Earliest

NextLine(start) ==
  IF start = -1 THEN -1
  ELSE IF NewlinesFrom(start) = {} THEN -1 ELSE 1 + Earliest(NewlinesFrom(start))

LEMMA NextLineTyped ==
  ASSUME Bytes, NEW start \in Nat \cup {-1}
  PROVE  NextLine(start) \in Nat \cup {-1}
<1>1. CASE start \in Nat /\ NewlinesFrom(start) # {}
  <2>1. NewlinesFrom(start) \in SUBSET Nat
    BY <1>1, LenProperties DEF NewlinesFrom, Bytes
  <2>2. Earliest(NewlinesFrom(start)) \in Nat
    BY <1>1, <2>1, EarliestIs
  <2> QED BY <1>1, <2>2 DEF NextLine
<1>2. CASE ~(start \in Nat /\ NewlinesFrom(start) # {})
  BY <1>2 DEF NextLine
<1> QED BY <1>1, <1>2

(* LineStart, line by line. *)
LEMMA LineStartUnfolds ==
  ASSUME Bytes
  PROVE  /\ LineStart(0) = 0
         /\ \A line \in Nat : LineStart(line) \in Nat \cup {-1}
         /\ \A line \in Nat : LineStart(line + 1) = NextLine(LineStart(line))
<1> DEFINE A == Nat \cup {-1}
           m == [n \in Nat |-> n]
           step == [n \in Nat |-> [f \in [Nat -> A] |-> IF n = 0 THEN 0 ELSE NextLine(f[n - 1])]]
<1>1. PICK h \in [Nat -> A] : \A n \in Nat : h[n] = IF n = 0 THEN 0 ELSE NextLine(h[n - 1])
  <2>1. \A n \in Nat : \A f \in [Nat -> A] : (IF n = 0 THEN 0 ELSE NextLine(f[n - 1])) \in A
    <3> SUFFICES ASSUME NEW n \in Nat, NEW f \in [Nat -> A], n # 0
                 PROVE  NextLine(f[n - 1]) \in A
      OBVIOUS
    <3>1. f[n - 1] \in A
      OBVIOUS
    <3> QED BY <3>1, NextLineTyped
  <2>2. /\ m \in [Nat -> Nat] /\ 0 \in A
        /\ step \in [Nat -> [[Nat -> A] -> A]]
    BY <2>1
  <2>3. \A n \in Nat : \A f \in [Nat -> A] :
          step[n][f] = IF n = 0 THEN 0 ELSE NextLine(f[n - 1])
    OBVIOUS
  <2>4. ASSUME NEW n \in Nat, NEW f \in [Nat -> A], NEW g \in [Nat -> A],
               \A k \in Nat : m[k] < m[n] => f[k] = g[k]
        PROVE  step[n][f] = step[n][g]
    <3>1. n # 0 => f[n - 1] = g[n - 1]
      BY <2>4
    <3> QED BY <2>3, <3>1
  <2> HIDE DEF A, m, step
  <2>5. \E h \in [Nat -> A] : \A n \in Nat : h[n] = step[n][h]
    <3>1. \A n \in Nat : \A f, g \in [Nat -> A] :
            (\A k \in Nat : m[k] < m[n] => f[k] = g[k]) => step[n][f] = step[n][g]
      BY <2>4
    <3>2. Recursion(Nat, m, A, step)
      BY <2>2, <3>1 DEF Recursion
    <3> QED BY <3>2, RecursionExists
  <2> QED BY <2>3, <2>5
<1> HIDE DEF A, m, step
<1>2. ASSUME NEW line \in Nat PROVE LineStart(line) = h[line]
  <2> DEFINE E(f, n) == IF n = 0 THEN 0
                        ELSE IF f[n - 1] = -1 THEN -1
                        ELSE LET newlines == {o \in f[n - 1] .. Len(src) - 1 : At(o) = Newline}
                             IN IF newlines = {} THEN -1
                                ELSE 1 + CHOOSE o \in newlines : \A q \in newlines : o <= q
             k == CHOOSE start : start = [n \in 0..line |-> E(start, n)]
  <2>1. \A f, n : E(f, n) = IF n = 0 THEN 0 ELSE NextLine(f[n - 1])
    BY DEF NextLine, NewlinesFrom, Earliest
  <2>2. LineStart(line) = k[line]
    BY DEF LineStart
  <2> HIDE DEF E
  <2> DEFINE r == [n \in 0..line |-> h[n]]
  <2>3. r = [n \in 0..line |-> E(r, n)]
    <3>1. ASSUME NEW n \in 0..line PROVE h[n] = E(r, n)
      <4>1. n # 0 => r[n - 1] = h[n - 1]
        OBVIOUS
      <4>2. h[n] = IF n = 0 THEN 0 ELSE NextLine(h[n - 1])
        BY <1>1
      <4> HIDE DEF r
      <4> QED BY <2>1, <4>1, <4>2
    <3> QED BY <3>1
  <2>4. k = [n \in 0..line |-> E(k, n)]
    BY <2>3
  <2> HIDE DEF k, r
  <2> DEFINE P == {n \in Nat : n <= line => k[n] = h[n]}
  <2>5. 0 \in P
    BY <1>1, <2>1, <2>4
  <2>6. ASSUME NEW n \in Nat, n \in P PROVE n + 1 \in P
    <3> SUFFICES ASSUME n + 1 <= line PROVE k[n + 1] = h[n + 1]
      OBVIOUS
    <3>1. n + 1 \in 0..line /\ n + 1 # 0 /\ (n + 1) - 1 = n /\ k[n] = h[n]
      BY <2>6
    <3>2. k[n + 1] = E(k, n + 1)
      BY <2>4, <3>1
    <3>3. h[n + 1] = NextLine(h[(n + 1) - 1])
      BY <1>1, <3>1
    <3> QED BY <2>1, <3>1, <3>2, <3>3
  <2> HIDE DEF P
  <2>7. line \in P
    BY <2>5, <2>6, InductionNat
  <2> QED BY <2>2, <2>7 DEF P
<1>3. ASSUME NEW line \in Nat PROVE LineStart(line + 1) = NextLine(LineStart(line))
  <2>1. line + 1 \in Nat /\ line + 1 # 0 /\ (line + 1) - 1 = line
    OBVIOUS
  <2>2. h[line + 1] = NextLine(h[(line + 1) - 1])
    BY <1>1, <2>1
  <2> QED BY <1>2, <2>1, <2>2
<1> QED BY <1>1, <1>2, <1>3 DEF A

(* The newlines before an offset, counted as it moves on. *)
LEMMA NewlineCount ==
  ASSUME Bytes
  PROVE  /\ Cardinality(Newlines(0)) = 0
         /\ \A o \in Nat : o <= Len(src) => IsFiniteSet(Newlines(o)) /\ Cardinality(Newlines(o)) \in Nat
         /\ \A o \in Nat : o < Len(src) =>
              Cardinality(Newlines(o + 1))
                = IF At(o) = Newline THEN Cardinality(Newlines(o)) + 1 ELSE Cardinality(Newlines(o))
<1>1. Newlines(0) = {}
  BY DEF Newlines
<1>2. ASSUME NEW o \in Nat PROVE IsFiniteSet(Newlines(o)) /\ Cardinality(Newlines(o)) \in Nat
  <2>1. IsFiniteSet(0 .. o - 1) /\ Newlines(o) \subseteq 0 .. o - 1
    BY FS_Interval DEF Newlines
  <2> QED BY <2>1, FS_Subset, FS_CardinalityType
<1>3. ASSUME NEW o \in Nat
      PROVE  Cardinality(Newlines(o + 1))
               = IF At(o) = Newline THEN Cardinality(Newlines(o)) + 1 ELSE Cardinality(Newlines(o))
  <2>1. \A p : p \in 0 .. (o + 1) - 1 <=> p \in 0 .. o - 1 \/ p = o
    OBVIOUS
  <2>2. o \notin Newlines(o)
    BY DEF Newlines
  <2>3. CASE At(o) = Newline
    <3>1. Newlines(o + 1) = Newlines(o) \cup {o}
      BY <2>1, <2>3 DEF Newlines
    <3> QED BY <1>2, <2>2, <2>3, <3>1, FS_AddElement
  <2>4. CASE At(o) # Newline
    <3>1. Newlines(o + 1) = Newlines(o)
      BY <2>1, <2>4 DEF Newlines
    <3> QED BY <2>4, <3>1
  <2> QED BY <2>3, <2>4
<1> QED BY <1>1, <1>2, <1>3, FS_EmptySet

LEMMA SameLine ==
  ASSUME NEW a \in Nat, NEW b \in Nat, a <= b,
         \A p \in Nat : a <= p /\ p < b => At(p) # Newline
  PROVE  Newlines(a) = Newlines(b)
BY DEF Newlines

(* The start of a line is after as many newlines as there are lines before. *)
LEMMA LineStartIs ==
  ASSUME Bytes, NEW line \in Nat, LineStart(line) # -1
  PROVE  /\ LineStart(line) \in Nat /\ LineStart(line) <= Len(src)
         /\ Cardinality(Newlines(LineStart(line))) = line
         /\ LineStart(line) = 0 \/ At(LineStart(line) - 1) = Newline
<1> DEFINE Q(s, n) == /\ s \in Nat /\ s <= Len(src) /\ Cardinality(Newlines(s)) = n
                      /\ s = 0 \/ At(s - 1) = Newline
           P == {n \in Nat : LineStart(n) # -1 => Q(LineStart(n), n)}
<1>0. Len(src) \in Nat
  BY LenProperties DEF Bytes
<1>1. 0 \in P
  BY <1>0, LineStartUnfolds, NewlineCount
<1>2. ASSUME NEW n \in Nat, n \in P PROVE n + 1 \in P
  <2> SUFFICES ASSUME LineStart(n + 1) # -1 PROVE Q(LineStart(n + 1), n + 1)
    OBVIOUS
  <2> DEFINE s == LineStart(n)
             p == Earliest(NewlinesFrom(s))
  <2>1. LineStart(n + 1) = NextLine(s) /\ s \in Nat \cup {-1}
    BY LineStartUnfolds
  <2>2. s # -1 /\ NewlinesFrom(s) # {} /\ LineStart(n + 1) = 1 + p
    BY <2>1 DEF NextLine
  <2>3. Q(s, n)
    BY <1>2, <2>2
  <2> HIDE DEF s
  <2>4. NewlinesFrom(s) \in SUBSET Nat
    BY <2>3 DEF NewlinesFrom
  <2>5. p \in NewlinesFrom(s) /\ \A q \in NewlinesFrom(s) : p <= q
    BY <2>2, <2>4, EarliestIs
  <2> HIDE DEF p
  <2>6. p \in Nat /\ s <= p /\ p < Len(src) /\ At(p) = Newline
    BY <1>0, <2>3, <2>5 DEF NewlinesFrom
  <2>7. \A q \in Nat : s <= q /\ q < p => At(q) # Newline
    <3> SUFFICES ASSUME NEW q \in Nat, s <= q, q < p, At(q) = Newline PROVE FALSE
      OBVIOUS
    <3>1. q \in NewlinesFrom(s)
      BY <1>0, <2>3, <2>6 DEF NewlinesFrom
    <3> QED BY <2>5, <2>6, <3>1
  <2>8. Newlines(s) = Newlines(p)
    BY <2>3, <2>6, <2>7, SameLine
  <2>9. Cardinality(Newlines(p + 1)) = n + 1
    BY <2>3, <2>6, <2>8, NewlineCount
  <2>10. 1 + p = p + 1 /\ (p + 1) - 1 = p /\ p + 1 \in Nat /\ p + 1 <= Len(src)
    BY <1>0, <2>6
  <2> QED BY <2>2, <2>6, <2>9, <2>10
<1> HIDE DEF P
<1>3. line \in P
  BY <1>1, <1>2, InductionNat
<1> QED BY <1>3 DEF P

(* An offset lies on the line that has its number of newlines before it. *)
LEMMA LineOfOffset ==
  ASSUME Bytes, NEW o \in Nat, o <= Len(src)
  PROVE  LET start == LineStart(Cardinality(Newlines(o)))
         IN  /\ start \in Nat /\ start <= o
             /\ \A p \in Nat : start <= p /\ p < o => At(p) # Newline
<1> DEFINE Q(s, n) == /\ s \in Nat /\ s <= n
                      /\ \A p \in Nat : s <= p /\ p < n => At(p) # Newline
           P == {n \in Nat : n <= Len(src) => Q(LineStart(Cardinality(Newlines(n))), n)}
<1>0. Len(src) \in Nat
  BY LenProperties DEF Bytes
<1>1. 0 \in P
  BY <1>0, LineStartUnfolds, NewlineCount
<1>2. ASSUME NEW n \in Nat, n \in P PROVE n + 1 \in P
  <2> SUFFICES ASSUME n + 1 <= Len(src)
               PROVE  Q(LineStart(Cardinality(Newlines(n + 1))), n + 1)
    OBVIOUS
  <2> DEFINE c == Cardinality(Newlines(n))
             s == LineStart(c)
  <2>1. Q(s, n) /\ n < Len(src) /\ c \in Nat
    BY <1>0, <1>2, NewlineCount
  <2>2. Cardinality(Newlines(n + 1)) = IF At(n) = Newline THEN c + 1 ELSE c
    BY <2>1, NewlineCount
  <2>3. LineStart(c + 1) = NextLine(s)
    BY <2>1, LineStartUnfolds
  <2> HIDE DEF c, s
  <2>4. CASE At(n) # Newline
    <3>1. \A p \in Nat : p < n + 1 => p < n \/ p = n
      OBVIOUS
    <3> QED BY <2>1, <2>2, <2>4, <3>1 DEF s
  <2>5. CASE At(n) = Newline
    <3>1. n \in NewlinesFrom(s) /\ NewlinesFrom(s) \in SUBSET Nat
      BY <1>0, <2>1, <2>5 DEF NewlinesFrom
    <3>2. \A p \in NewlinesFrom(s) : n <= p
      BY <1>0, <2>1 DEF NewlinesFrom
    <3>3. Earliest(NewlinesFrom(s)) = n
      <4>1. /\ Earliest(NewlinesFrom(s)) \in NewlinesFrom(s)
            /\ \A q \in NewlinesFrom(s) : Earliest(NewlinesFrom(s)) <= q
        BY <3>1, EarliestIs
      <4> QED BY <3>1, <3>2, <4>1
    <3>4. NextLine(s) = n + 1
      BY <2>1, <3>1, <3>3 DEF NextLine
    <3> QED BY <2>2, <2>3, <2>5, <3>4
  <2> QED BY <2>4, <2>5
<1> HIDE DEF P
<1>3. o \in P
  BY <1>1, <1>2, InductionNat
<1> QED BY <1>3 DEF P

-----------------------------------------------------------------------------
(* The two loops over the characters of a line. *)

LEMMA CountUnfolds ==
  ASSUME Bytes, NEW e \in Nat, e <= Len(src)
  PROVE  /\ \A o \in 0..e : CountUTF16Units(o, e) \in Nat
         /\ CountUTF16Units(e, e) = 0
         /\ \A o \in Nat : o < e =>
              CountUTF16Units(o, e)
                = Units(RuneSize(o, e)) + CountUTF16Units(o + RuneSize(o, e), e)
<1> DEFINE D == 0..e
           m == [o \in D |-> e - o]
           step == [o \in D |-> [f \in [D -> Nat] |->
                      IF o = e THEN 0 ELSE Units(RuneSize(o, e)) + f[o + RuneSize(o, e)]]]
<1>1. \A o \in D : o # e =>
        /\ Units(RuneSize(o, e)) \in Nat
        /\ o + RuneSize(o, e) \in D /\ o < o + RuneSize(o, e)
  <2> SUFFICES ASSUME NEW o \in D, o # e
               PROVE  /\ Units(RuneSize(o, e)) \in Nat
                      /\ o + RuneSize(o, e) \in D /\ o < o + RuneSize(o, e)
    OBVIOUS
  <2>1. o \in Nat /\ o < e
    OBVIOUS
  <2>2. /\ RuneSize(o, e) \in 1..4 /\ o + RuneSize(o, e) <= e
        /\ o < o + RuneSize(o, e)
    BY <2>1, RuneBasics
  <2> QED BY <2>1, <2>2 DEF Units
<1>2. PICK h \in [D -> Nat] : \A o \in D :
        h[o] = IF o = e THEN 0 ELSE Units(RuneSize(o, e)) + h[o + RuneSize(o, e)]
  <2>1. m \in [D -> Nat] /\ step \in [D -> [[D -> Nat] -> Nat]]
    BY <1>1
  <2>2. ASSUME NEW o \in D, NEW f \in [D -> Nat], NEW g \in [D -> Nat],
               \A k \in D : m[k] < m[o] => f[k] = g[k]
        PROVE  step[o][f] = step[o][g]
    <3>1. o # e => m[o + RuneSize(o, e)] < m[o]
      BY <1>1
    <3>2. o # e => f[o + RuneSize(o, e)] = g[o + RuneSize(o, e)]
      BY <1>1, <2>2, <3>1
    <3> QED BY <3>2
  <2>3. \A o \in D : \A f \in [D -> Nat] :
          step[o][f] = IF o = e THEN 0 ELSE Units(RuneSize(o, e)) + f[o + RuneSize(o, e)]
    OBVIOUS
  <2> HIDE DEF m, step, D
  <2>4. Recursion(D, m, Nat, step)
    BY <2>1, <2>2 DEF Recursion
  <2>5. \E h \in [D -> Nat] : \A o \in D : h[o] = step[o][h]
    BY <2>4, RecursionExists
  <2> QED BY <2>3, <2>5
<1>3. ASSUME NEW start \in D PROVE CountUTF16Units(start, e) = h[start]
  <2> DEFINE k == CHOOSE count : count = [o \in start..e |->
                    IF o = e THEN 0
                    ELSE Units(RuneSize(o, e)) + count[o + RuneSize(o, e)]]
             r == [o \in start..e |-> h[o]]
  <2>1. CountUTF16Units(start, e) = k[start]
    BY DEF CountUTF16Units
  <2>2. \A o \in start..e : o \in D /\ (o # e => o + RuneSize(o, e) \in start..e)
    BY <1>1
  <2>3. r = [o \in start..e |->
               IF o = e THEN 0 ELSE Units(RuneSize(o, e)) + r[o + RuneSize(o, e)]]
    <3>1. \A o \in start..e :
            h[o] = IF o = e THEN 0 ELSE Units(RuneSize(o, e)) + h[o + RuneSize(o, e)]
      BY <1>2, <2>2
    <3>2. \A o \in start..e : o # e => r[o + RuneSize(o, e)] = h[o + RuneSize(o, e)]
      BY <2>2
    <3>3. \A o \in start..e :
            h[o] = IF o = e THEN 0 ELSE Units(RuneSize(o, e)) + r[o + RuneSize(o, e)]
      BY <3>1, <3>2
    <3> QED BY <3>3
  <2>4. k = [o \in start..e |->
               IF o = e THEN 0 ELSE Units(RuneSize(o, e)) + k[o + RuneSize(o, e)]]
    BY <2>3
  <2> HIDE DEF k
  <2> DEFINE S == start..e
             w == [o \in S |-> e - o]
             P == {o \in S : k[o] = h[o]}
  <2>5. w \in [S -> Nat]
    OBVIOUS
  <2>6. ASSUME NEW o \in S, \A q \in S : w[q] < w[o] => q \in P PROVE o \in P
    <3>1. h[o] = IF o = e THEN 0 ELSE Units(RuneSize(o, e)) + h[o + RuneSize(o, e)]
      BY <1>2, <2>2
    <3>2. k[o] = IF o = e THEN 0 ELSE Units(RuneSize(o, e)) + k[o + RuneSize(o, e)]
      BY <2>4
    <3>3. o # e => o + RuneSize(o, e) \in S /\ w[o + RuneSize(o, e)] < w[o]
      BY <1>1, <2>2
    <3>4. o # e => k[o + RuneSize(o, e)] = h[o + RuneSize(o, e)]
      BY <2>6, <3>3
    <3> QED BY <3>1, <3>2, <3>4
  <2>7. start \in S
    OBVIOUS
  <2> HIDE DEF w, P, S
  <2>8. S \subseteq P
    BY <2>5, <2>6, InductionMeasure
  <2> QED BY <2>1, <2>7, <2>8 DEF P
<1>4. e \in D
  OBVIOUS
<1>5. \A o \in Nat : o < e => o \in D /\ o # e
  OBVIOUS
<1> HIDE DEF D
<1> QED BY <1>1, <1>2, <1>3, <1>4, <1>5 DEF D

Size(o) == RuneSize(o, Len(src))

(* Whether the loop of positionToByteOffset stops at o. *)
Stops(o, remaining) ==
  \/ remaining = 0 \/ o = Len(src) \/ At(o) = Newline
  \/ ~(PositionUnits(Size(o)) <= remaining)

LEMMA OffsetUnfolds ==
  ASSUME Bytes, NEW start \in Nat, start <= Len(src), NEW character \in Nat
  PROVE  /\ OffsetInLine(start, character) \in Nat
         /\ OffsetInLine(start, character)
              = IF Stops(start, character) THEN start
                ELSE OffsetInLine(start + Size(start), character - PositionUnits(Size(start)))
<1> DEFINE n == Len(src)
           D == (0..n) \X Nat
           m == [p \in D |-> n - p[1]]
           left(p) == p[2] - PositionUnits(Size(p[1]))
           on(p) == <<p[1] + Size(p[1]), left(p)>>
           step == [p \in D |-> [f \in [D -> Nat] |->
                      IF Stops(p[1], p[2]) THEN p[1] ELSE f[on(p)]]]
<1>0. n \in Nat
  BY LenProperties DEF Bytes
<1>1. ASSUME NEW p \in D, ~Stops(p[1], p[2])
      PROVE  /\ on(p) \in D /\ p[1] < on(p)[1] /\ on(p)[1] <= n
             /\ left(p) \in Nat /\ left(p) <= p[2]
  <2>1. p[1] \in Nat /\ p[1] < n /\ p[2] \in Nat
    BY <1>0, <1>1 DEF Stops
  <2>2. /\ Size(p[1]) \in 1..4 /\ p[1] + Size(p[1]) <= n
        /\ p[1] < p[1] + Size(p[1])
    BY <1>0, <2>1, RuneBasics DEF Size
  <2>3. left(p) \in Nat /\ left(p) <= p[2]
    <3>1. PositionUnits(Size(p[1])) \in {1, 2} /\ PositionUnits(Size(p[1])) <= p[2]
      BY <1>1 DEF PositionUnits, Stops
    <3> QED BY <2>1, <3>1
  <2> QED BY <1>0, <2>1, <2>2, <2>3
<1>2. PICK h \in [D -> Nat] : \A p \in D :
        h[p] = IF Stops(p[1], p[2]) THEN p[1] ELSE h[on(p)]
  <2>1. m \in [D -> Nat] /\ step \in [D -> [[D -> Nat] -> Nat]]
    BY <1>0, <1>1
  <2>2. ASSUME NEW p \in D, NEW f \in [D -> Nat], NEW g \in [D -> Nat],
               \A k \in D : m[k] < m[p] => f[k] = g[k]
        PROVE  step[p][f] = step[p][g]
    <3>1. CASE ~Stops(p[1], p[2])
      <4>1. on(p) \in D /\ m[on(p)] < m[p]
        <5>1. on(p) \in D /\ p[1] < on(p)[1] /\ on(p)[1] <= n
          BY <1>1, <3>1
        <5> HIDE DEF on
        <5>2. /\ m[on(p)] = n - on(p)[1] /\ m[p] = n - p[1]
              /\ p[1] \in Nat /\ on(p)[1] \in Nat
          BY <5>1
        <5> QED BY <1>0, <5>1, <5>2
      <4>2. f[on(p)] = g[on(p)]
        BY <2>2, <4>1
      <4> QED BY <3>1, <4>2
    <3>2. CASE Stops(p[1], p[2])
      BY <3>2
    <3> QED BY <3>1, <3>2
  <2>3. \A p \in D : \A f \in [D -> Nat] :
          step[p][f] = IF Stops(p[1], p[2]) THEN p[1] ELSE f[on(p)]
    OBVIOUS
  <2> HIDE DEF m, step, D, on
  <2>4. Recursion(D, m, Nat, step)
    BY <2>1, <2>2 DEF Recursion
  <2>5. \E h \in [D -> Nat] : \A p \in D : h[p] = step[p][h]
    BY <2>4, RecursionExists
  <2> QED BY <2>3, <2>5
<1>3. ASSUME NEW a \in 0..n, NEW c \in Nat PROVE OffsetInLine(a, c) = h[<<a, c>>]
  <2> DEFINE S == (a..n) \X (0..c)
             F(w, p) == LET o == p[1]
                            remaining == p[2]
                            size == RuneSize(o, n)
                            units == PositionUnits(size)
                        IN IF remaining = 0 \/ o = n \/ At(o) = Newline THEN o
                           ELSE IF ~Fits(units, remaining) THEN o
                           ELSE w[<<o + size, IF units <= remaining THEN remaining - units ELSE 0>>]
             k == CHOOSE w : w = [p \in S |-> F(w, p)]
             r == [p \in S |-> h[p]]
  <2>1. OffsetInLine(a, c) = k[<<a, c>>]
    BY DEF OffsetInLine
  <2>2. \A w, p : F(w, p) = IF Stops(p[1], p[2]) THEN p[1] ELSE w[on(p)]
    BY DEF Fits, Stops, Size
  <2>3. \A p \in S : p \in D /\ (~Stops(p[1], p[2]) => on(p) \in S)
    BY <1>0, <1>1
  <2> HIDE DEF F, S, on
  <2>4. r = [p \in S |-> F(r, p)]
    <3>1. \A p \in S : h[p] = F(r, p)
      BY <1>2, <2>2, <2>3
    <3> QED BY <3>1
  <2>5. k = [p \in S |-> F(k, p)]
    BY <2>4
  <2> HIDE DEF k, r
  <2> DEFINE w == [p \in S |-> n - p[1]]
             P == {p \in S : k[p] = h[p]}
  <2>6. w \in [S -> Nat]
    BY <1>0 DEF S
  <2>7. ASSUME NEW p \in S, \A q \in S : w[q] < w[p] => q \in P PROVE p \in P
    <3>1. k[p] = IF Stops(p[1], p[2]) THEN p[1] ELSE k[on(p)]
      BY <2>2, <2>5
    <3>2. h[p] = IF Stops(p[1], p[2]) THEN p[1] ELSE h[on(p)]
      BY <1>2, <2>3
    <3>3. CASE ~Stops(p[1], p[2])
      <4>1. on(p) \in S /\ p \in D
        BY <2>3, <3>3
      <4>2. n - on(p)[1] < n - p[1]
        BY <1>0, <1>1, <3>3, <4>1 DEF S
      <4>3. k[on(p)] = h[on(p)]
        BY <2>7, <4>1, <4>2
      <4> QED BY <3>1, <3>2, <3>3, <4>3
    <3>4. CASE Stops(p[1], p[2])
      BY <3>1, <3>2, <3>4
    <3> QED BY <3>3, <3>4
  <2> HIDE DEF w, P
  <2>8. S \subseteq P
    BY <2>6, <2>7, InductionMeasure
  <2>9. <<a, c>> \in S
    BY <1>0 DEF S
  <2> QED BY <2>1, <2>8, <2>9 DEF P
<1>4. PICK p \in D : p = <<start, character>>
  <2>1. start \in 0..n
    BY <1>0
  <2> QED BY <2>1
<1>5. OffsetInLine(start, character) = h[p] /\ h[p] \in Nat
  BY <1>0, <1>2, <1>3, <1>4
<1>6. h[p] = IF Stops(start, character) THEN start ELSE h[on(p)]
  BY <1>2, <1>4
<1>7. CASE ~Stops(start, character)
  <2>1. on(p) \in D /\ on(p) = <<start + Size(start), character - PositionUnits(Size(start))>>
    BY <1>1, <1>4, <1>7
  <2>2. h[on(p)] = OffsetInLine(start + Size(start), character - PositionUnits(Size(start)))
    BY <1>3, <2>1
  <2> QED BY <1>5, <1>6, <1>7, <2>2
<1>8. CASE Stops(start, character)
  BY <1>5, <1>6, <1>8
<1> QED BY <1>7, <1>8

-----------------------------------------------------------------------------
(* What positionToByteOffset returns lies within the line, and not behind  *)
(* the column it was given.                                                *)
LEMMA OffsetRoundsDown ==
  ASSUME Bytes, NEW start \in Nat, start <= Len(src), NEW character \in Nat
  PROVE  LET w == OffsetInLine(start, character)
         IN  /\ w \in Nat /\ start <= w /\ w <= Len(src)
             /\ \A p \in Nat : start <= p /\ p < w => At(p) # Newline
             /\ CountUTF16Units(start, w) <= character
<1> DEFINE n == Len(src)
           D == (0..n) \X Nat
           m == [p \in D |-> n - p[1]]
           Good(o, c, w) == /\ w \in Nat /\ o <= w /\ w <= n
                            /\ \A p \in Nat : o <= p /\ p < w => At(p) # Newline
                            /\ CountUTF16Units(o, w) <= c
           P == {p \in D : Good(p[1], p[2], OffsetInLine(p[1], p[2]))}
<1>0. n \in Nat /\ m \in [D -> Nat]
  BY LenProperties DEF Bytes
<1>1. ASSUME NEW p \in D, \A q \in D : m[q] < m[p] => q \in P PROVE p \in P
  <2> DEFINE o == p[1]
             c == p[2]
             w == OffsetInLine(o, c)
             units == PositionUnits(Size(o))
  <2>1. o \in Nat /\ o <= n /\ c \in Nat
    BY <1>0
  <2>2. w \in Nat /\ w = IF Stops(o, c) THEN o ELSE OffsetInLine(o + Size(o), c - units)
    BY <2>1, OffsetUnfolds
  <2>3. CASE Stops(o, c)
    <3>1. w = o /\ CountUTF16Units(o, o) = 0
      BY <2>1, <2>2, <2>3, CountUnfolds
    <3>2. Good(o, c, o)
      BY <2>1, <3>1
    <3> QED BY <3>1, <3>2
  <2>4. CASE ~Stops(o, c)
    <3>1. o < n /\ At(o) # Newline /\ units \in {1, 2} /\ units <= c
      BY <1>0, <2>1, <2>4 DEF Stops, PositionUnits
    <3>2. /\ Size(o) \in 1..4 /\ o + Size(o) <= n
          /\ \A q \in Nat : o <= q /\ q < o + Size(o) /\ At(q) = Newline => Size(o) = 1
      BY <1>0, <2>1, <3>1, RuneBasics DEF Size
    <3> DEFINE a == o + Size(o)
               d == c - units
               q == <<a, d>>
    <3>3. /\ a \in Nat /\ o < a /\ a <= n /\ d \in Nat /\ q \in D
          /\ q[1] = a /\ q[2] = d
      BY <2>1, <3>1, <3>2
    <3>4. m[q] < m[p]
      <4>1. m[q] = n - a /\ m[p] = n - o
        BY <3>3
      <4> HIDE DEF m, a, o
      <4> QED BY <1>0, <2>1, <3>3, <4>1
    <3>5. Good(a, d, w)
      <4>1. q \in P
        BY <1>1, <3>3, <3>4
      <4>2. w = OffsetInLine(a, d)
        BY <2>2, <2>4
      <4> HIDE DEF Good, q, a, d, w
      <4> QED BY <3>3, <4>1, <4>2
    <3>6. \A x \in Nat : o <= x /\ x < a => At(x) # Newline
      <4> SUFFICES ASSUME NEW x \in Nat, o <= x, x < a, At(x) = Newline PROVE FALSE
        OBVIOUS
      <4>1. Size(o) = 1
        BY <3>2
      <4>2. x = o
        BY <2>1, <4>1
      <4> QED BY <3>1, <4>2
    <3> HIDE DEF a, d, q, w, o, c, m, P, D
    <3>7. \A x \in Nat : o <= x /\ x < w => At(x) # Newline
      <4>1. \A x \in Nat : x < a \/ a <= x
        BY <3>3
      <4> QED BY <3>5, <3>6, <4>1
    <3>8. RuneSize(o, w) = Size(o) /\ o < w
      <4>1. o + RuneSize(o, Len(src)) <= w /\ o < w
        BY <2>1, <3>3, <3>5 DEF a, Size
      <4> QED BY <2>1, <3>5, <4>1, RuneWithin DEF Size
    <3>9. CountUTF16Units(o, w) = units + CountUTF16Units(a, w) /\ CountUTF16Units(a, w) \in Nat
      <4>1. a \in 0..w
        BY <3>3, <3>5
      <4>2. CountUTF16Units(o, w) = Units(RuneSize(o, w)) + CountUTF16Units(o + RuneSize(o, w), w)
        BY <2>1, <3>5, <3>8, CountUnfolds
      <4> QED BY <3>5, <3>8, <4>1, <4>2, CountUnfolds DEF a, Units, PositionUnits
    <3>10. CountUTF16Units(o, w) <= c
      BY <2>1, <3>1, <3>5, <3>9 DEF d
    <3>11. Good(o, c, w)
      BY <2>1, <3>3, <3>5, <3>7, <3>10
    <3> QED BY <3>11 DEF P, w, o, c
  <2> QED BY <2>3, <2>4
<1> HIDE DEF m, P, D
<1>2. D \subseteq P
  BY <1>0, <1>1, InductionMeasure
<1>3. PICK p \in D : p = <<start, character>>
  <2>1. start \in 0..n
    BY <1>0
  <2> QED BY <2>1 DEF D
<1>4. p[1] = start /\ p[2] = character
  BY <1>3
<1> HIDE DEF Good
<1>5. Good(start, character, OffsetInLine(start, character))
  BY <1>2, <1>4 DEF P
<1> QED BY <1>5 DEF Good

(* PositionRoundsDown, at any position. *)
LEMMA AnyPosition ==
  ASSUME Bytes, NEW line \in Nat, NEW character \in Nat
  PROVE  LET o == positionToByteOffset(line, character)
         IN  /\ o \in Offsets
             /\ LineStart(line) # -1 =>
                  /\ LineOf(o) = line + 1
                  /\ UTF16ColFromOffset(line + 1, o) <= character
<1> DEFINE start == LineStart(line)
           o == positionToByteOffset(line, character)
<1>0. Len(src) \in Nat /\ start \in Nat \cup {-1}
  BY LenProperties, LineStartUnfolds DEF Bytes
<1>1. CASE start = -1
  <2>1. o = Len(src)
    BY <1>1 DEF positionToByteOffset
  <2> QED BY <1>0, <1>1, <2>1 DEF Offsets
<1>2. CASE start # -1
  <2>1. start \in Nat /\ start <= Len(src) /\ Cardinality(Newlines(start)) = line
    BY <1>2, LineStartIs
  <2>2. o = OffsetInLine(start, character)
    BY <1>2 DEF positionToByteOffset
  <2> HIDE DEF start, o
  <2>3. /\ o \in Nat /\ start <= o /\ o <= Len(src)
        /\ \A p \in Nat : start <= p /\ p < o => At(p) # Newline
        /\ CountUTF16Units(start, o) <= character
    BY <2>1, <2>2, OffsetRoundsDown
  <2>4. Newlines(start) = Newlines(o)
    BY <2>1, <2>3, SameLine
  <2>5. LineOf(o) = line + 1
    <3>1. LineOf(o) = 1 + Cardinality(Newlines(o))
      BY DEF LineOf, Newlines
    <3> QED BY <2>1, <2>4, <3>1
  <2>6. UTF16ColFromOffset(line + 1, o) \in {0, CountUTF16Units(start, o)}
    <3>1. (line + 1) - 1 = line
      OBVIOUS
    <3> QED BY <3>1 DEF UTF16ColFromOffset, start
  <2>7. UTF16ColFromOffset(line + 1, o) <= character
    BY <2>3, <2>6
  <2>8. o \in Offsets
    BY <1>0, <2>3 DEF Offsets
  <2> QED BY <2>5, <2>7, <2>8 DEF start, o
<1> QED BY <1>1, <1>2

-----------------------------------------------------------------------------
(* Where characters begin. *)

LEMMA BoundaryUnfolds ==
  ASSUME Bytes, NEW o \in Offsets
  PROVE  Boundary(o) <=> o = 0 \/ \E q \in 0 .. o - 1 : Boundary(q) /\ q + Size(q) = o
<1> DEFINE m == [p \in Offsets |-> p]
           F(f, p) == p = 0 \/ \E q \in 0 .. p - 1 : f[q] /\ q + RuneSize(q, Len(src)) = p
           step == [p \in Offsets |-> [f \in [Offsets -> BOOLEAN] |-> F(f, p)]]
           k == CHOOSE starts : starts = [p \in Offsets |-> F(starts, p)]
<1>0. Len(src) \in Nat
  BY LenProperties DEF Bytes
<1>1. \A p \in Offsets : \A q \in 0 .. p - 1 : q \in Offsets /\ q < p
  BY <1>0 DEF Offsets
<1>2. PICK h \in [Offsets -> BOOLEAN] : \A p \in Offsets : h[p] = F(h, p)
  <2>1. m \in [Offsets -> Nat]
    BY <1>0 DEF Offsets
  <2>2. step \in [Offsets -> [[Offsets -> BOOLEAN] -> BOOLEAN]]
    OBVIOUS
  <2>3. ASSUME NEW p \in Offsets, NEW f \in [Offsets -> BOOLEAN], NEW g \in [Offsets -> BOOLEAN],
               \A q \in Offsets : m[q] < m[p] => f[q] = g[q]
        PROVE  step[p][f] = step[p][g]
    <3>1. \A q \in 0 .. p - 1 : f[q] = g[q]
      BY <1>1, <2>3
    <3>2. F(f, p) <=> F(g, p)
      BY <3>1
    <3>3. /\ step[p][f] = F(f, p) /\ step[p][g] = F(g, p)
          /\ F(f, p) \in BOOLEAN /\ F(g, p) \in BOOLEAN
      OBVIOUS
    <3> HIDE DEF F, step
    <3> QED BY <3>2, <3>3
  <2>4. \A p \in Offsets : \A f \in [Offsets -> BOOLEAN] : step[p][f] = F(f, p)
    OBVIOUS
  <2> HIDE DEF m, step, F
  <2>5. Recursion(Offsets, m, BOOLEAN, step)
    BY <2>1, <2>2, <2>3 DEF Recursion
  <2>6. \E h \in [Offsets -> BOOLEAN] : \A p \in Offsets : h[p] = step[p][h]
    BY <2>5, RecursionExists
  <2> QED BY <2>4, <2>6
<1>3. h = [p \in Offsets |-> F(h, p)]
  <2> HIDE DEF F
  <2> QED BY <1>2
<1>4. k = [p \in Offsets |-> F(k, p)]
  <2> HIDE DEF F
  <2> QED BY <1>3
<1>5. \A p : Boundary(p) = k[p]
  BY DEF Boundary
<1> HIDE DEF k
<1>6. Boundary(o) = F(k, o)
  <2> HIDE DEF F
  <2> QED BY <1>4, <1>5
<1> QED BY <1>5, <1>6 DEF Size

(* The next character begins where one ends, and none within it. *)
LEMMA BoundaryNext ==
  ASSUME Bytes, NEW o \in Offsets, o # Len(src)
  PROVE  /\ o + Size(o) \in Offsets /\ o < o + Size(o)
         /\ Boundary(o) => Boundary(o + Size(o))
<1>0. Len(src) \in Nat /\ o \in Nat /\ o < Len(src)
  BY LenProperties DEF Bytes, Offsets
<1>1. Size(o) \in 1..4 /\ o + Size(o) <= Len(src) /\ o < o + Size(o)
  BY <1>0, RuneBasics DEF Size
<1>2. o + Size(o) \in Offsets /\ o \in 0 .. (o + Size(o)) - 1
  BY <1>0, <1>1 DEF Offsets
<1> QED BY <1>1, <1>2, BoundaryUnfolds

LEMMA BoundaryApart ==
  ASSUME Bytes, NEW b \in Offsets, Boundary(b), NEW a \in Offsets, Boundary(a), a < b
  PROVE  a + Size(a) <= b
<1> DEFINE Q(n) == \A x \in Offsets : Boundary(x) /\ x < n => x + Size(x) <= n
           P == {n \in Offsets : Boundary(n) => Q(n)}
           m == [n \in Offsets |-> n]
<1>0. Len(src) \in Nat /\ \A n \in Offsets : n \in Nat
  BY LenProperties DEF Bytes, Offsets
<1>1. ASSUME NEW n \in Offsets, \A k \in Offsets : m[k] < m[n] => k \in P PROVE n \in P
  <2> SUFFICES ASSUME Boundary(n), NEW x \in Offsets, Boundary(x), x < n
               PROVE  x + Size(x) <= n
    OBVIOUS
  <2>1. \A k \in Offsets : k < n /\ Boundary(k) => Q(k)
    BY <1>1
  <2>2. PICK q \in 0 .. n - 1 : Boundary(q) /\ q + Size(q) = n
    BY <1>0, BoundaryUnfolds
  <2>3. q \in Offsets /\ q < n
    BY <1>0, <2>2 DEF Offsets
  <2>4. CASE x = q
    BY <1>0, <2>2, <2>4
  <2>5. CASE x < q
    <3>1. x + Size(x) <= q
      BY <2>1, <2>2, <2>3, <2>5
    <3>2. x # Len(src)
      BY <1>0, <2>3, <2>5 DEF Offsets
    <3>3. x + Size(x) \in Nat
      BY <1>0, <3>2, BoundaryNext
    <3> QED BY <1>0, <2>3, <3>1, <3>3
  <2>6. CASE q < x
    <3>1. q + Size(q) <= x
      BY <2>1, <2>2, <2>3, <2>6
    <3> QED BY <1>0, <2>2, <3>1
  <2> QED BY <1>0, <2>3, <2>4, <2>5, <2>6
<1>2. m \in [Offsets -> Nat]
  BY <1>0
<1> HIDE DEF P, m
<1>3. Offsets \subseteq P
  BY <1>1, <1>2, InductionMeasure
<1> QED BY <1>3 DEF P

(* A line begins with a character, wherever one begins after it. *)
LEMMA BoundaryOfLine ==
  ASSUME Bytes, NEW b \in Offsets, Boundary(b), NEW a \in Offsets, a <= b,
         a = 0 \/ At(a - 1) = Newline
  PROVE  Boundary(a)
<1> DEFINE P == {n \in Offsets : Boundary(n) /\ a <= n => Boundary(a)}
           m == [n \in Offsets |-> n]
<1>0. Len(src) \in Nat /\ \A n \in Offsets : n \in Nat /\ n <= Len(src)
  BY LenProperties DEF Bytes, Offsets
<1>1. ASSUME NEW n \in Offsets, \A k \in Offsets : m[k] < m[n] => k \in P PROVE n \in P
  <2> SUFFICES ASSUME Boundary(n), a <= n, a # n, a # 0 PROVE Boundary(a)
    BY <1>0, BoundaryUnfolds
  <2>1. PICK q \in 0 .. n - 1 : Boundary(q) /\ q + Size(q) = n
    BY <1>0, BoundaryUnfolds
  <2>2. q \in Offsets /\ q < n /\ q \in Nat
    BY <1>0, <2>1 DEF Offsets
  <2>3. a <= q
    <3> SUFFICES ASSUME q < a PROVE FALSE
      BY <1>0, <2>2
    <3>1. a - 1 \in Nat /\ q <= a - 1 /\ a - 1 < q + Size(q) /\ At(a - 1) = Newline
      BY <1>0, <2>1, <2>2
    <3>2. q < Len(src)
      BY <1>0, <2>2
    <3>3. Size(q) = 1
      BY <1>0, <2>2, <3>1, <3>2, RuneBasics DEF Size
    <3> QED BY <1>0, <2>1, <2>2, <3>3
  <2> QED BY <1>1, <2>1, <2>2, <2>3
<1>2. m \in [Offsets -> Nat]
  BY <1>0
<1> HIDE DEF P, m
<1>3. Offsets \subseteq P
  BY <1>1, <1>2, InductionMeasure
<1> QED BY <1>3 DEF P

(* From where one character begins to where another does on the line, the  *)
(* one loop undoes the other.                                              *)
LEMMA OffsetOfBoundary ==
  ASSUME Bytes, NEW s \in Offsets, Boundary(s), NEW a \in Offsets, Boundary(a), a <= s,
         \A p \in Nat : a <= p /\ p < s => At(p) # Newline
  PROVE  OffsetInLine(a, CountUTF16Units(a, s)) = s
<1> DEFINE D == 0..s
           m == [o \in D |-> s - o]
           P == {o \in D : Boundary(o) /\ a <= o => OffsetInLine(o, CountUTF16Units(o, s)) = s}
<1>0. Len(src) \in Nat /\ s \in Nat /\ s <= Len(src) /\ a \in Nat
  BY LenProperties DEF Bytes, Offsets
<1>1. ASSUME NEW o \in D, \A k \in D : m[k] < m[o] => k \in P PROVE o \in P
  <2> SUFFICES ASSUME Boundary(o), a <= o PROVE OffsetInLine(o, CountUTF16Units(o, s)) = s
    OBVIOUS
  <2> DEFINE c == CountUTF16Units(o, s)
             units == PositionUnits(Size(o))
             next == o + Size(o)
  <2>1. o \in Nat /\ o <= s /\ o \in Offsets /\ o <= Len(src)
    BY <1>0 DEF Offsets
  <2>2. c \in Nat /\ OffsetInLine(o, c) = IF Stops(o, c) THEN o ELSE OffsetInLine(next, c - units)
    BY <1>0, <2>1, CountUnfolds, OffsetUnfolds
  <2>3. CASE o = s
    <3>1. c = 0
      BY <1>0, <2>3, CountUnfolds
    <3> QED BY <2>2, <2>3, <3>1 DEF Stops
  <2>4. CASE o # s
    <3>1. o < s /\ o # Len(src)
      BY <1>0, <2>1, <2>4
    <3>2. next \in Offsets /\ o < next /\ Boundary(next)
      BY <2>1, <3>1, BoundaryNext
    <3>3. next <= s
      BY <2>1, <3>1, BoundaryApart
    <3>4. RuneSize(o, s) = Size(o)
      BY <1>0, <2>1, <3>1, <3>3, RuneWithin DEF Size
    <3>5. next \in D /\ next \in Nat
      BY <1>0, <3>2, <3>3 DEF Offsets
    <3>6. /\ c = units + CountUTF16Units(next, s) /\ CountUTF16Units(next, s) \in Nat
          /\ units \in {1, 2}
      <4>1. c = Units(RuneSize(o, s)) + CountUTF16Units(o + RuneSize(o, s), s)
        BY <1>0, <2>1, <3>1, CountUnfolds
      <4> QED BY <1>0, <3>4, <3>5, <4>1, CountUnfolds DEF Units, PositionUnits
    <3>7. m[next] < m[o]
      <4>1. m[next] = s - next /\ m[o] = s - o
        BY <3>5
      <4> HIDE DEF m, next
      <4> QED BY <1>0, <2>1, <3>2, <3>5, <4>1
    <3>8. next \in P
      BY <1>1, <3>5, <3>7
    <3> HIDE DEF c, units, next, D, m
    <3>9. ~Stops(o, c) /\ c - units = CountUTF16Units(next, s)
      <4>1. At(o) # Newline /\ c # 0 /\ units <= c
        BY <2>1, <3>1, <3>6
      <4> QED BY <3>1, <3>6, <4>1 DEF Stops, units
    <3>10. OffsetInLine(next, CountUTF16Units(next, s)) = s
      BY <1>0, <2>1, <3>2, <3>5, <3>8
    <3> QED BY <2>2, <3>9, <3>10 DEF c
  <2> QED BY <2>3, <2>4
<1>2. m \in [D -> Nat] /\ a \in D
  BY <1>0
<1> HIDE DEF P, m, D
<1>3. D \subseteq P
  BY <1>1, <1>2, InductionMeasure
<1> QED BY <1>0, <1>2, <1>3 DEF P

(* The column of a boundary leads back to it. *)
LEMMA BoundaryReturns ==
  ASSUME Bytes, NEW s \in Offsets, Boundary(s)
  PROVE  positionToByteOffset(LineOf(s) - 1, UTF16ColFromOffset(LineOf(s), s)) = s
<1> DEFINE line == Cardinality(Newlines(s))
           start == LineStart(line)
<1>0. Len(src) \in Nat /\ s \in Nat /\ s <= Len(src) /\ line \in Nat
  BY LenProperties, NewlineCount DEF Bytes, Offsets
<1>1. LineOf(s) = line + 1 /\ LineOf(s) - 1 = line
  BY <1>0 DEF LineOf, Newlines
<1>2. /\ start \in Nat /\ start <= s
      /\ \A p \in Nat : start <= p /\ p < s => At(p) # Newline
  BY <1>0, LineOfOffset
<1>3. start # -1 /\ (start = 0 \/ At(start - 1) = Newline)
  BY <1>0, <1>2, LineStartIs
<1> HIDE DEF line
<1>4. start \in Offsets
  BY <1>0, <1>2 DEF Offsets
<1>5. OffsetInLine(start, CountUTF16Units(start, s)) = s
  <2>1. Boundary(start)
    BY <1>2, <1>3, <1>4, BoundaryOfLine
  <2> HIDE DEF start
  <2> QED BY <1>2, <1>4, <2>1, OffsetOfBoundary
<1>6. UTF16ColFromOffset(LineOf(s), s) = CountUTF16Units(start, s)
  <2>1. CASE src = <<>> \/ s <= 0
    <3>1. s = 0
      BY <1>0, <2>1, EmptySeq
    <3>2. start = 0
      BY <1>2, <3>1
    <3>3. CountUTF16Units(0, 0) = 0
      BY <1>0, CountUnfolds
    <3> QED BY <2>1, <3>1, <3>2, <3>3 DEF UTF16ColFromOffset
  <2>2. CASE ~(src = <<>> \/ s <= 0)
    <3>1. ~(start = -1 \/ s < start \/ s > Len(src))
      BY <1>0, <1>2, <1>3
    <3> QED BY <1>1, <2>2, <3>1 DEF UTF16ColFromOffset
  <2> QED BY <2>1, <2>2
<1>7. positionToByteOffset(line, CountUTF16Units(start, s)) = OffsetInLine(start, CountUTF16Units(start, s))
  BY <1>3 DEF positionToByteOffset
<1> QED BY <1>1, <1>5, <1>6, <1>7

-----------------------------------------------------------------------------
LEMMA FileIsBytes == Spec => []Bytes
<1>1. Init => Bytes
  BY EmptySeq DEF Init, Bytes
<1>2. Bytes /\ [Next]_src => Bytes'
  <2>1. ASSUME Bytes, NEW b \in Byte, src' = Append(src, b) PROVE Bytes'
    BY <2>1, AppendProperties DEF Bytes
  <2>2. Bytes /\ UNCHANGED src => Bytes'
    BY DEF Bytes
  <2> QED BY <2>1, <2>2 DEF Next, AppendByte
<1> QED BY <1>1, <1>2, PTL DEF Spec

(* A range computed for a token selects the bytes of that token when the   *)
(* client sends it back (toLSPRange, then positionToByteOffset), in any    *)
(* file, valid UTF-8 or not: a rename replaces the literal and nothing else. *)
THEOREM RangesSelectTokens == Spec => []RangeSelectsToken
<1>1. Bytes => RangeSelectsToken
  <2> SUFFICES ASSUME Bytes, NEW s \in Offsets, NEW e \in s .. Len(src), Boundary(s), Boundary(e)
               PROVE  LET r == toLSPRange(Loc(s, e)) IN
                      /\ positionToByteOffset(r.start.line, r.start.character) = s
                      /\ positionToByteOffset(r.end.line, r.end.character) = e
    BY DEF RangeSelectsToken
  <2>1. e \in Offsets
    BY LenProperties DEF Offsets, Bytes
  <2>2. \A o \in {s, e} : positionToByteOffset(LineOf(o) - 1, UTF16ColFromOffset(LineOf(o), o)) = o
    BY <2>1, BoundaryReturns
  <2> QED BY <2>2 DEF toLSPRange, Loc
<1> QED BY <1>1, FileIsBytes, PTL

(* Any position, also one that no character has, is taken to an offset of  *)
(* the file, on the line it names when there is one, and not behind it     *)
(* (positionToByteOffset, UTF16ColFromOffset).                             *)
THEOREM PositionsRoundDown == Spec => []PositionRoundsDown
<1>1. Bytes => PositionRoundsDown
  <2> SUFFICES ASSUME Bytes, NEW line \in 0 .. Len(src) + 1, NEW character \in 0 .. Len(src) + 1
               PROVE  LET o == positionToByteOffset(line, character) IN
                      /\ o \in Offsets
                      /\ LineStart(line) # -1 =>
                           /\ LineOf(o) = line + 1
                           /\ UTF16ColFromOffset(line + 1, o) <= character
    BY DEF PositionRoundsDown
  <2> QED BY AnyPosition
<1> QED BY <1>1, FileIsBytes, PTL
=============================================================================
