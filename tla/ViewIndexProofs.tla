-------------------------- MODULE ViewIndexProofs --------------------------
(***************************************************************************)
(* For any files, names, contents and growth of slices: an index that a     *)
(* handler took never changes under it, because the array a reindex writes  *)
(* to is one that no index a handler can have refers to; the published      *)
(* index has the call sites of the files it knows and no other; and what is *)
(* shown of a view is the union of its call sites and the globals.          *)
(***************************************************************************)
EXTENDS ViewIndex, SequenceLemmas

(* The arrays an index refers to. *)
ArraysOf(index) == {index[n].array : n \in Name} \ {None}

Typed ==
  /\ DOMAIN heap = Arrays
  /\ published \in Index
  /\ next \in Index \cup {None}
  /\ held \in Index \cup {None}

(* The index being built shares no array with one that is read, ... *)
Apart ==
  next # None =>
    /\ ArraysOf(next) \cap ArraysOf(published) = {}
    /\ held # None => ArraysOf(next) \cap ArraysOf(held) = {}

(* ... which is what keeps those stable. *)
Inv == Typed /\ Apart /\ SnapshotStable

(* What an index says depends on the arrays it refers to and on no other. *)
LEMMA HeldIsStable ==
  ASSUME Typed, SnapshotStable, UNCHANGED <<held, holds>>,
         held # None => \A a \in ArraysOf(held) : heap'[a] = heap[a]
  PROVE  SnapshotStable'
PROOF
  <1> SUFFICES ASSUME held # None PROVE Usages(held)' = Usages(held)
    BY DEF SnapshotStable
  <1>1. held \in Index
    BY DEF Typed
  <1>2. ASSUME NEW n \in Name PROVE Elements(held[n])' = Elements(held[n])
    <2>1. held[n].array # None => heap'[held[n].array] = heap[held[n].array]
      BY <1>2 DEF ArraysOf
    <2> QED BY <2>1 DEF Elements
  <1> QED BY <1>2 DEF Usages

(* The empty index refers to no array. *)
LEMMA EmptyIsTyped == EmptyIndex \in Index /\ ArraysOf(EmptyIndex) = {}
  BY DEF EmptyIndex, EmptySlice, Index, Slice, ArraysOf

LEMMA InitInv == Init => Inv
PROOF
  <1> SUFFICES ASSUME Init PROVE Inv
    OBVIOUS
  <1> QED BY EmptyIsTyped DEF Init, Inv, Typed, Apart, SnapshotStable

(* Both ways to begin an index begin with the empty one. *)
LEMMA BeginKeepsInv ==
  ASSUME Inv, next' = EmptyIndex, UNCHANGED <<heap, published, held, holds>>
  PROVE  Inv'
PROOF
  <1>1. Typed'
    BY EmptyIsTyped DEF Inv, Typed
  <1>2. Apart'
    <2>1. ArraysOf(next') = {}
      BY EmptyIsTyped
    <2> QED BY <2>1 DEF Apart, ArraysOf
  <1>3. SnapshotStable'
    BY HeldIsStable DEF Inv
  <1> QED BY <1>1, <1>2, <1>3 DEF Inv

(* An append writes to an array of the index being built, or to a free one. *)
LEMMA AppendKeepsInv ==
  ASSUME Inv, NEW n \in Name, addUsage(n)
  PROVE  Inv'
PROOF
  <1> DEFINE s == next[n]
             u == Head(todo)
  <1>1. /\ next \in Index /\ s \in Slice /\ published \in Index
        /\ UNCHANGED <<published, held, holds>>
    BY DEF addUsage, Inv, Typed, Index
  <1> DEFINE others == ArraysOf(published) \cup IF held = None THEN {} ELSE ArraysOf(held)
  <1>a. ArraysOf(next) \cap others = {}
    BY DEF addUsage, Inv, Apart
  <1>b. others' = others
    BY <1>1 DEF ArraysOf
  <1>c. ArraysOf(next') \cap others = {} => Apart'
    BY <1>b DEF Apart, ArraysOf
  <1>d. held # None => ArraysOf(held) \subseteq others \cap Arrays
    BY DEF Inv, Typed, ArraysOf, Index, Slice
  <1> HIDE DEF others
  <1>2. CASE s.len < Capacity(s)
    <2>1. /\ heap' = [heap EXCEPT ![s.array][s.len + 1] = u]
          /\ next' = [next EXCEPT ![n].len = @ + 1]
      BY <1>2 DEF addUsage
    <2>2. s.array # None
      BY <1>1, <1>2, SMT DEF Capacity, Slice
    <2>3. s.array \in ArraysOf(next)
      BY <2>2 DEF ArraysOf
    <2>4. next' \in Index /\ ArraysOf(next') = ArraysOf(next)
      BY <1>1, <2>1 DEF Index, Slice, ArraysOf
    <2>5. Typed'
      BY <1>1, <2>1, <2>4 DEF Inv, Typed
    <2>6. \A a : a # s.array /\ a \in Arrays => heap'[a] = heap[a]
      BY <2>1 DEF Inv, Typed
    <2>7. Apart'
      BY <1>a, <1>c, <2>4
    <2>8. SnapshotStable'
      <3>1. held # None => \A a \in ArraysOf(held) : a \in Arrays /\ a # s.array
        BY <1>a, <1>d, <2>3
      <3> QED BY <1>1, <2>6, <3>1, HeldIsStable DEF Inv
    <2> QED BY <2>5, <2>7, <2>8 DEF Inv
  <1>3. CASE ~(s.len < Capacity(s))
    <2> DEFINE a == CHOOSE b \in Arrays : b \notin Referenced
    <2>1. PICK spare \in 0..Spare :
            /\ heap' = [heap EXCEPT ![a] = Elements(s) \o <<u>> \o Padding(spare)]
            /\ next' = [next EXCEPT ![n] = [array |-> a, len |-> s.len + 1]]
      BY <1>3 DEF addUsage
    <2>2. a \in Arrays /\ a \notin Referenced
      BY <1>3 DEF addUsage
    <2> HIDE DEF a
    <2>3. /\ a # None
          /\ a \notin others
      BY <1>1, <2>2, ViewIndexAssumption DEF Referenced, ArraysOf, others
    <2>4. next' \in Index /\ ArraysOf(next') \subseteq ArraysOf(next) \cup {a}
      BY <1>1, <2>1, <2>2 DEF Index, Slice, ArraysOf
    <2>5. Typed'
      BY <1>1, <2>1, <2>4 DEF Inv, Typed
    <2>6. \A b \in Arrays : b # a => heap'[b] = heap[b]
      BY <2>1 DEF Inv, Typed
    <2>7. Apart'
      BY <1>a, <1>c, <2>3, <2>4
    <2>8. SnapshotStable'
      <3>1. held # None => \A b \in ArraysOf(held) : b \in Arrays /\ b # a
        BY <1>d, <2>3
      <3> QED BY <1>1, <2>6, <3>1, HeldIsStable DEF Inv
    <2> QED BY <2>5, <2>7, <2>8 DEF Inv
  <1> QED BY <1>2, <1>3

(* The collector leaves the arrays of the indexes it is given alone. *)
LEMMA CollectedKeeps ==
  ASSUME Typed, NEW indexes, NEW index \in indexes \cap Index, NEW a \in ArraysOf(index)
  PROVE  Collected(indexes)[a] = heap[a]
PROOF
  <1>1. a \in Arrays
    BY DEF ArraysOf, Index, Slice
  <1>2. index # None
    BY ViewIndexAssumption
  <1> QED BY <1>1, <1>2 DEF Collected, ArraysOf

LEMMA PublishKeepsInv ==
  ASSUME Inv, Publish
  PROVE  Inv'
PROOF
  <1>1. Typed'
    BY DEF Publish, Inv, Typed, Collected
  <1>2. Apart'
    BY DEF Publish, Apart
  <1>3. SnapshotStable'
    <2>1. held # None => \A a \in ArraysOf(held) : heap'[a] = heap[a]
      BY CollectedKeeps DEF Publish, Inv, Typed
    <2> QED BY <2>1, HeldIsStable DEF Publish, Inv
  <1> QED BY <1>1, <1>2, <1>3 DEF Inv

LEMMA TakeKeepsInv ==
  ASSUME Inv, Take
  PROVE  Inv'
PROOF
  <1>1. Typed'
    BY DEF Take, Inv, Typed
  <1>2. Apart'
    BY DEF Take, Inv, Apart, ArraysOf
  <1>3. SnapshotStable'
    BY DEF Take, SnapshotStable, Usages, Elements
  <1> QED BY <1>1, <1>2, <1>3 DEF Inv

LEMMA DropKeepsInv ==
  ASSUME Inv, Drop
  PROVE  Inv'
PROOF
  <1>1. Typed'
    BY DEF Drop, Inv, Typed, Collected
  <1>2. Apart'
    BY DEF Drop, Inv, Apart, ArraysOf
  <1>3. SnapshotStable'
    BY DEF Drop, SnapshotStable
  <1> QED BY <1>1, <1>2, <1>3 DEF Inv

LEMMA StepKeepsInv == Inv /\ [Next]_vars => Inv'
PROOF
  <1> SUFFICES ASSUME Inv, [Next]_vars PROVE Inv'
    OBVIOUS
  <1>1. CASE BeginWalk
    BY <1>1, BeginKeepsInv DEF BeginWalk
  <1>2. ASSUME NEW f \in File, BeginReindex(f) PROVE Inv'
    BY <1>2, BeginKeepsInv DEF BeginReindex, Filtered, EmptyIndex
  <1>3. ASSUME NEW n \in Name, addUsage(n) PROVE Inv'
    BY <1>3, AppendKeepsInv
  <1>4. CASE Publish
    BY <1>4, PublishKeepsInv
  <1>5. CASE Take
    BY <1>5, TakeKeepsInv
  <1>6. CASE Drop
    BY <1>6, DropKeepsInv
  <1>7. CASE UNCHANGED vars
    <2>1. Typed' /\ Apart'
      BY <1>7 DEF vars, Inv, Typed, Apart, ArraysOf
    <2>2. SnapshotStable'
      BY <1>7, HeldIsStable DEF vars, Inv
    <2> QED BY <2>1, <2>2 DEF Inv
  <1> QED BY <1>1, <1>2, <1>3, <1>4, <1>5, <1>6, <1>7 DEF Next

(* SnapshotStable: an index that a handler took says what it said when it   *)
(* was taken (types.go:83), however many indexes are built from it.         *)
THEOREM SnapshotsAreStable == Spec => []SnapshotStable
PROOF
  <1>1. Inv => SnapshotStable
    BY DEF Inv
  <1> QED BY InitInv, StepKeepsInv, <1>1, PTL DEF Spec

-----------------------------------------------------------------------------
(* The call sites of a text, in the file it is the text of.                 *)

Named(n) == {u \in Usage : u.name = n}

From(f) == {u \in Usage : u.file = f}

LEMMA SitesAppend ==
  ASSUME NEW f \in File, NEW text \in Seq(Call), NEW c \in Call
  PROVE  /\ Sites(f, text) \in Seq(From(f))
         /\ Site(f, c) \in From(f)
         /\ Sites(f, Append(text, c)) = Append(Sites(f, text), Site(f, c))
<1> DEFINE S == From(f)
           a == Sites(f, text)
           b == Sites(f, Append(text, c))
<1>1. \A d \in Call : Site(f, d) \in S
  BY DEF Site, From, Call, Usage
<1>2. /\ DOMAIN text = 1..Len(text) /\ Len(text) \in Nat
      /\ \A i \in 1..Len(text) : text[i] \in Call
  BY LenProperties, ElementOfSeq
<1>3. /\ Append(text, c) \in Seq(Call) /\ Len(Append(text, c)) = Len(text) + 1
      /\ \A i \in 1..Len(text) : Append(text, c)[i] = text[i]
      /\ Append(text, c)[Len(text) + 1] = c
  BY AppendProperties
<1>4. DOMAIN Append(text, c) = 1..(Len(text) + 1)
  BY <1>3, LenProperties
<1> HIDE DEF S
<1>5. a \in [1..Len(text) -> S] /\ \A i \in 1..Len(text) : a[i] = Site(f, text[i])
  BY <1>1, <1>2 DEF Sites
<1>6. /\ b \in [1..(Len(text) + 1) -> S]
      /\ \A i \in 1..(Len(text) + 1) : b[i] = Site(f, Append(text, c)[i])
  <2>1. \A i \in 1..(Len(text) + 1) : Append(text, c)[i] \in Call
    BY <1>3, ElementOfSeq
  <2> QED BY <1>1, <1>4, <2>1 DEF Sites
<1> HIDE DEF a, b
<1>7. a \in Seq(S) /\ Len(a) = Len(text) /\ b \in Seq(S) /\ Len(b) = Len(text) + 1
  BY <1>2, <1>5, <1>6
<1>8. PICK x \in S : x = Site(f, c)
  BY <1>1
<1>9. /\ Append(a, x) \in Seq(S) /\ Len(Append(a, x)) = Len(text) + 1
      /\ \A i \in 1..Len(text) : Append(a, x)[i] = a[i]
      /\ Append(a, x)[Len(text) + 1] = x
  BY <1>7, AppendProperties
<1>10. \A i \in 1..(Len(text) + 1) : b[i] = Append(a, x)[i]
  BY <1>2, <1>3, <1>5, <1>6, <1>8, <1>9
<1>11. b = Append(a, x)
  BY <1>7, <1>9, <1>10, SeqEqual
<1> QED BY <1>1, <1>7, <1>8, <1>11 DEF S, a, b

LEMMA SitesOfNone == \A f : Sites(f, <<>>) = <<>>
BY DEF Sites

LEMMA SitesNamed ==
  ASSUME NEW f \in File, NEW text \in Seq(Call), NEW n \in Name
  PROVE  /\ Sites(f, text) \in Seq(From(f)) /\ Sites(f, text) \in Seq(Usage)
         /\ SitesOf(n, text) \in Seq(Call)
         /\ Kept(Sites(f, text), Named(n)) = Sites(f, SitesOf(n, text))
<1> DEFINE C == {c \in Call : c.name = n}
           P == {t \in Seq(Call) : Kept(Sites(f, t), Named(n)) = Sites(f, Kept(t, C))}
<1>1. <<>> \in P
  BY KeptEmpty, SitesOfNone, EmptySeq
<1>2. ASSUME NEW t \in Seq(Call), NEW c \in Call, t \in P PROVE Append(t, c) \in P
  <2>1. /\ Sites(f, t) \in Seq(From(f)) /\ Site(f, c) \in From(f)
        /\ Sites(f, Append(t, c)) = Append(Sites(f, t), Site(f, c))
    BY SitesAppend
  <2>2. Site(f, c) \in Named(n) <=> c \in C
    BY DEF Site, Named, Call, Usage
  <2>3. Kept(Sites(f, Append(t, c)), Named(n))
          = IF c \in C THEN Append(Kept(Sites(f, t), Named(n)), Site(f, c))
                       ELSE Kept(Sites(f, t), Named(n))
    <3>1. \A s \in Seq(From(f)) : \A x \in From(f) :
            Kept(Append(s, x), Named(n))
              = IF x \in Named(n) THEN Append(Kept(s, Named(n)), x) ELSE Kept(s, Named(n))
      BY KeptStep
    <3> HIDE DEF C
    <3> QED BY <2>1, <2>2, <3>1
  <2>4. /\ Kept(t, C) \in Seq(Call)
        /\ Kept(Append(t, c), C) = IF c \in C THEN Append(Kept(t, C), c) ELSE Kept(t, C)
    BY KeptAppend, KeptIn
  <2>5. Sites(f, Append(Kept(t, C), c)) = Append(Sites(f, Kept(t, C)), Site(f, c))
    BY <2>4, SitesAppend
  <2>6. Kept(Sites(f, t), Named(n)) = Sites(f, Kept(t, C))
    BY <1>2
  <2>7. Kept(Sites(f, Append(t, c)), Named(n)) = Sites(f, Kept(Append(t, c), C))
    <3> HIDE DEF C
    <3>1. CASE c \in C
      BY <2>3, <2>4, <2>5, <2>6, <3>1
    <3>2. CASE c \notin C
      BY <2>3, <2>4, <2>6, <3>2
    <3> QED BY <3>1, <3>2
  <2> QED BY <2>7, AppendProperties
<1> HIDE DEF P
<1>3. text \in P
  BY <1>1, <1>2, InductionAppend
<1>4. SitesOf(n, text) = Kept(text, C)
  BY DEF SitesOf
<1>5. Kept(text, C) \in Seq(Call)
  BY KeptIn
<1>6. Sites(f, text) \in Seq(From(f))
  <2>1. CASE text = <<>>
    BY <2>1, SitesOfNone, EmptySeq
  <2>2. CASE text # <<>>
    <3>1. PICK t \in Seq(Call), c \in Call : text = Append(t, c)
      BY <2>2, SequenceEmptyOrAppend
    <3> QED BY <3>1, SitesAppend, AppendProperties
  <2> QED BY <2>1, <2>2
<1>7. From(f) \subseteq Usage
  BY DEF From
<1>8. Sites(f, text) \in Seq(Usage)
  BY <1>6, <1>7, SeqMonotonic
<1> QED BY <1>3, <1>4, <1>5, <1>6, <1>8 DEF P

-----------------------------------------------------------------------------
(* What is stored under a name.                                             *)

Cell == Usage \cup {Hole}

(* A slice lies within its array and holds usages of its name. *)
Stored(index) ==
  \A n \in Name :
    /\ index[n].array = None => index[n].len = 0
    /\ index[n].array # None =>
         /\ index[n].len <= Len(heap[index[n].array])
         /\ \A i \in 1..index[n].len : heap[index[n].array][i] \in Named(n)

(* No two names share an array. *)
Own(index) ==
  \A m, n \in Name : index[m].array = index[n].array /\ index[n].array # None => m = n

(* The index being built, with what is still to be appended, is exact. *)
Built ==
  \A n \in Name, f \in File :
    Kept(Elements(next[n]) \o Kept(todo, Named(n)), From(f)) = Sites(f, SitesOf(n, known[f]))

(* The arrays hold usages, the slices lie within them under their names,    *)
(* and the index being built will be exact.                                 *)
StoreInv ==
  /\ heap \in [Arrays -> Seq(Cell)]
  /\ todo \in Seq(Usage)
  /\ known \in [File -> Seq(Call)]
  /\ Stored(published)
  /\ next # None => Stored(next) /\ Own(next) /\ Built

LEMMA ElementsTyped ==
  ASSUME heap \in [Arrays -> Seq(Cell)], NEW index \in Index, Stored(index), NEW n \in Name
  PROVE  /\ Elements(index[n]) \in Seq(Named(n)) /\ Elements(index[n]) \in Seq(Usage)
         /\ Len(Elements(index[n])) = index[n].len
         /\ index[n].array # None =>
              \A i \in 1..index[n].len : Elements(index[n])[i] = heap[index[n].array][i]
<1> DEFINE s == index[n]
<1>0. s.len \in Nat /\ s.array \in Arrays \cup {None}
  BY DEF Index, Slice
<1>1. CASE s.array = None
  <2>1. Elements(s) = <<>> /\ s.len = 0
    BY <1>1 DEF Elements, Stored
  <2> QED BY <1>1, <2>1, EmptySeq
<1>2. CASE s.array # None
  <2>1. \A i \in 1..s.len : heap[s.array][i] \in Named(n)
    BY <1>2 DEF Stored
  <2>2. PICK a, k : a = heap[s.array] /\ k = s.len /\ k \in Nat
    BY <1>0
  <2>3. /\ SubSeq(a, 1, k) \in Seq(Named(n)) /\ Len(SubSeq(a, 1, k)) = k
        /\ \A i \in 1..k : SubSeq(a, 1, k)[i] = a[i]
    <3>1. \A i \in 1..k : a[i] \in Named(n)
      BY <2>1, <2>2
    <3>2. /\ SubSeq(a, 1, k) \in Seq(Named(n))
          /\ Len(SubSeq(a, 1, k)) = IF 1 <= k THEN k - 1 + 1 ELSE 0
          /\ \A i \in 1..(k - 1 + 1) : SubSeq(a, 1, k)[i] = a[1 + i - 1]
      BY <2>2, <3>1, SubSeqProperties
    <3> QED BY <2>2, <3>2
  <2>4. Elements(s) = SubSeq(a, 1, k)
    BY <1>2, <2>2 DEF Elements
  <2>5. Named(n) \subseteq Usage
    BY DEF Named
  <2>6. SubSeq(a, 1, k) \in Seq(Usage)
    BY <2>3, <2>5, SeqMonotonic
  <2> QED BY <2>2, <2>3, <2>4, <2>6
<1> QED BY <1>1, <1>2

(* What lies in arrays that stay is stored as it was. *)
LEMMA StoredStays ==
  ASSUME NEW index \in Index, Stored(index), \A a \in ArraysOf(index) : heap'[a] = heap[a]
  PROVE  /\ \A n \in Name : Elements(index[n])' = Elements(index[n])
         /\ \A n \in Name :
              /\ index[n].array = None => index[n].len = 0
              /\ index[n].array # None =>
                   /\ index[n].len <= Len(heap'[index[n].array])
                   /\ \A i \in 1..index[n].len : heap'[index[n].array][i] \in Named(n)
<1>1. ASSUME NEW n \in Name, index[n].array # None
      PROVE  heap'[index[n].array] = heap[index[n].array]
  BY <1>1 DEF ArraysOf
<1> QED BY <1>1 DEF Stored, Elements

-----------------------------------------------------------------------------
(* An append.                                                               *)

LEMMA AppendStores ==
  ASSUME Inv, StoreInv, NEW n \in Name, addUsage(n)
  PROVE  /\ heap' \in [Arrays -> Seq(Cell)] /\ next' \in Index
         /\ Stored(published)' /\ Stored(next)' /\ Own(next)'
         /\ \A m \in Name : Elements(published[m])' = Elements(published[m])
         /\ \A m \in Name \ {n} : Elements(next[m])' = Elements(next[m])
         /\ Elements(next[n])' = Append(Elements(next[n]), Head(todo))
<1> DEFINE s == next[n]
           u == Head(todo)
<1>1. /\ next \in Index /\ published \in Index /\ s \in Slice
      /\ next # None /\ todo # <<>> /\ published' = published
      /\ heap \in [Arrays -> Seq(Cell)]
      /\ Stored(published) /\ Stored(next) /\ Own(next)
  BY DEF addUsage, Inv, Typed, StoreInv, Index
<1>2. u \in Named(n) /\ u \in Usage
  <2>1. Head(todo) \in Usage
    BY <1>1, HeadTailProperties DEF StoreInv
  <2> QED BY <2>1 DEF addUsage, Named
<1>3. ArraysOf(next) \cap ArraysOf(published) = {}
  BY <1>1 DEF Inv, Apart
<1>4. s.len \in Nat /\ s.array \in Arrays \cup {None}
  BY <1>1 DEF Slice
<1>5. /\ Elements(s) \in Seq(Named(n)) /\ Elements(s) \in Seq(Usage)
      /\ Len(Elements(s)) = s.len
      /\ s.array # None => \A i \in 1..s.len : Elements(s)[i] = heap[s.array][i]
  BY <1>1, ElementsTyped
<1> HIDE DEF u
<1>6. PICK a \in Arrays, row \in Seq(Cell) :
        /\ heap' = [heap EXCEPT ![a] = row]
        /\ next' = [next EXCEPT ![n] = [array |-> a, len |-> s.len + 1]]
        /\ a \notin ArraysOf(published)
        /\ \A m \in Name \ {n} : next[m].array # a
        /\ s.len + 1 <= Len(row) /\ row[s.len + 1] = u
        /\ \A i \in 1..s.len : row[i] = Elements(s)[i]
  <2>1. CASE s.len < Capacity(s)
    <3>1. /\ heap' = [heap EXCEPT ![s.array][s.len + 1] = u]
          /\ next' = [next EXCEPT ![n].len = @ + 1]
      BY <2>1 DEF addUsage, u
    <3>2. s.array # None /\ s.array \in Arrays /\ s.len < Len(heap[s.array])
      BY <1>4, <2>1, SMT DEF Capacity
    <3>3. PICK old \in Seq(Cell) : old = heap[s.array]
      BY <1>1, <3>2
    <3> DEFINE row == [old EXCEPT ![s.len + 1] = u]
    <3>4. s.len + 1 \in 1..Len(old)
      BY <1>4, <3>2, <3>3, LenProperties
    <3>5. u \in Cell
      BY <1>2 DEF Cell
    <3>6. /\ row \in Seq(Cell) /\ Len(row) = Len(old)
          /\ \A j \in 1..Len(old) : row[j] = IF j = s.len + 1 THEN u ELSE old[j]
      BY <3>4, <3>5, ExceptSeq
    <3>7. heap' = [heap EXCEPT ![s.array] = row]
      BY <3>1, <3>3
    <3>8. next' = [next EXCEPT ![n] = [array |-> s.array, len |-> s.len + 1]]
      <4>1. s = [array |-> s.array, len |-> s.len]
        BY <1>1 DEF Slice
      <4>2. [s EXCEPT !.len = @ + 1] = [array |-> s.array, len |-> s.len + 1]
        BY <4>1
      <4>3. next' = [next EXCEPT ![n] = [s EXCEPT !.len = @ + 1]]
        BY <3>1
      <4> HIDE DEF s
      <4> QED BY <4>2, <4>3
    <3>9. s.array \notin ArraysOf(published) /\ \A m \in Name \ {n} : next[m].array # s.array
      BY <1>1, <1>3, <3>2 DEF ArraysOf, Own
    <3>10. s.len + 1 <= Len(row) /\ row[s.len + 1] = u /\ \A i \in 1..s.len : row[i] = Elements(s)[i]
      <4>1. \A i \in 1..s.len : i \in 1..Len(old) /\ i # s.len + 1
        BY <1>4, <3>4
      <4> HIDE DEF row
      <4> QED BY <1>5, <3>2, <3>3, <3>4, <3>6, <4>1
    <3> HIDE DEF row
    <3> QED BY <3>2, <3>6, <3>7, <3>8, <3>9, <3>10
  <2>2. CASE ~(s.len < Capacity(s))
    <3> DEFINE a == CHOOSE b \in Arrays : b \notin Referenced
    <3>1. PICK spare \in 0..Spare :
            /\ heap' = [heap EXCEPT ![a] = Elements(s) \o <<u>> \o Padding(spare)]
            /\ next' = [next EXCEPT ![n] = [array |-> a, len |-> s.len + 1]]
      BY <2>2 DEF addUsage, u
    <3>2. a \in Arrays /\ a \notin Referenced
      BY <2>2 DEF addUsage
    <3> HIDE DEF a
    <3>3. a \notin ArraysOf(published) /\ \A m \in Name : next[m].array # a
      BY <1>1, <3>2, ViewIndexAssumption DEF Referenced, ArraysOf
    <3> DEFINE e == Elements(s)
               p == Padding(spare)
               row == e \o <<u>> \o p
    <3>4. e \in Seq(Cell) /\ <<u>> \in Seq(Cell) /\ p \in Seq(Cell)
      <4>1. e \in Seq(Cell)
        <5>1. Usage \subseteq Cell
          BY DEF Cell
        <5> QED BY <1>5, <5>1, SeqMonotonic
      <4>2. p \in Seq(Cell)
        <5>1. spare \in Nat
          BY <3>1, ViewIndexAssumption
        <5> QED BY <5>1 DEF Padding, Cell
      <4> QED BY <1>2, <4>1, <4>2 DEF Cell
    <3> HIDE DEF e, p
    <3>5. /\ Len(<<u>>) = 1 /\ <<u>>[1] = u /\ Len(p) \in Nat
          /\ e \o <<u>> \in Seq(Cell) /\ Len(e \o <<u>>) = Len(e) + 1
          /\ \A i \in 1..(Len(e) + 1) :
               (e \o <<u>>)[i] = IF i <= Len(e) THEN e[i] ELSE <<u>>[i - Len(e)]
      BY <3>4, ConcatProperties, LenProperties
    <3>6. /\ row \in Seq(Cell) /\ Len(row) = Len(e) + 1 + Len(p)
          /\ \A i \in 1..(Len(e) + 1 + Len(p)) :
               row[i] = IF i <= Len(e) + 1 THEN (e \o <<u>>)[i] ELSE p[i - (Len(e) + 1)]
      BY <3>4, <3>5, ConcatProperties
    <3> HIDE DEF row
    <3>7. s.len + 1 <= Len(row) /\ row[s.len + 1] = u /\ \A i \in 1..s.len : row[i] = e[i]
      <4>1. Len(e) = s.len
        BY <1>5 DEF e
      <4>2. \A i \in 1..s.len : i \in 1..(Len(e) + 1) /\ i <= Len(e)
        BY <1>4, <4>1
      <4>3. \A i \in 1..(s.len + 1) :
              i \in 1..(Len(e) + 1 + Len(p)) /\ row[i] = (e \o <<u>>)[i]
        BY <1>4, <3>5, <3>6, <4>1
      <4>4. s.len + 1 \in 1..(s.len + 1) /\ (s.len + 1) - Len(e) = 1 /\ ~(s.len + 1 <= Len(e))
        BY <1>4, <4>1
      <4>5. row[s.len + 1] = u
        BY <3>5, <4>1, <4>3, <4>4
      <4>6. \A i \in 1..s.len : row[i] = e[i]
        BY <1>4, <3>5, <4>2, <4>3
      <4> QED BY <1>4, <3>5, <3>6, <4>1, <4>5, <4>6
    <3>8. heap' = [heap EXCEPT ![a] = row]
      BY <3>1 DEF row, e, p
    <3> QED BY <3>1, <3>2, <3>3, <3>6, <3>7, <3>8 DEF e
  <2> QED BY <2>1, <2>2
<1> HIDE DEF s
<1>7. /\ heap' \in [Arrays -> Seq(Cell)] /\ heap'[a] = row
      /\ \A b \in Arrays : b # a => heap'[b] = heap[b]
  BY <1>1, <1>6
<1>8. /\ next'[n] = [array |-> a, len |-> s.len + 1]
      /\ \A m \in Name \ {n} : next'[m] = next[m]
      /\ next' \in Index /\ a # None
  BY <1>1, <1>4, <1>6, ViewIndexAssumption DEF Index, Slice
<1>9. Stored(published)' /\ \A m \in Name : Elements(published[m])' = Elements(published[m])
  <2>1. \A b \in ArraysOf(published) : b \in Arrays /\ b # a
    BY <1>1, <1>6 DEF ArraysOf, Index, Slice
  <2>2. \A b \in ArraysOf(published) : heap'[b] = heap[b]
    BY <1>7, <2>1
  <2> QED BY <1>1, <2>2, StoredStays DEF Stored
<1>10. ASSUME NEW m \in Name \ {n}
       PROVE  /\ next[m].array # None => heap'[next[m].array] = heap[next[m].array]
              /\ Elements(next[m])' = Elements(next[m])
  <2>1. next[m].array # None => next[m].array \in Arrays /\ next[m].array # a
    BY <1>1, <1>6 DEF Index, Slice
  <2> QED BY <1>7, <1>8, <2>1 DEF Elements
<1>11. /\ next'[n].len <= Len(heap'[next'[n].array])
       /\ \A i \in 1..next'[n].len : heap'[next'[n].array][i] \in Named(n)
  <2>1. next'[n].len = s.len + 1 /\ heap'[next'[n].array] = row
    BY <1>7, <1>8
  <2>2. ASSUME NEW i \in 1..(s.len + 1) PROVE row[i] \in Named(n)
    <3>1. CASE i = s.len + 1
      BY <1>2, <1>6, <3>1
    <3>2. CASE i # s.len + 1
      <4>1. i \in 1..s.len
        BY <1>4, <3>2
      <4>2. Elements(s)[i] \in Named(n)
        BY <1>5, <4>1, ElementOfSeq
      <4> QED BY <1>6, <4>1, <4>2
    <3> QED BY <3>1, <3>2
  <2> QED BY <1>6, <2>1, <2>2
<1>12. Stored(next)'
  BY <1>1, <1>8, <1>10, <1>11 DEF Stored
<1>13. Own(next)'
  BY <1>1, <1>6, <1>8 DEF Own
<1>14. Elements(next[n])' = Append(Elements(next[n]), Head(todo))
  <2>1. Elements(next[n])' = SubSeq(row, 1, s.len + 1)
    <3>1. next'[n].array = a /\ next'[n].len = s.len + 1
      BY <1>8
    <3>2. Elements(next[n])' = SubSeq(heap'[a], 1, s.len + 1)
      BY <1>8, <3>1 DEF Elements
    <3> QED BY <1>7, <3>2
  <2> DEFINE e == Elements(s)
             k == s.len + 1
  <2>2. /\ e \in Seq(Named(n)) /\ Len(e) = s.len /\ s.len \in Nat
        /\ \A i \in 1..s.len : row[i] = e[i]
        /\ row[k] = u /\ u \in Named(n)
    BY <1>2, <1>4, <1>5, <1>6
  <2>3. /\ Append(e, u) \in Seq(Named(n)) /\ Len(Append(e, u)) = k
        /\ \A i \in 1..s.len : Append(e, u)[i] = e[i]
        /\ Append(e, u)[k] = u
    <3> HIDE DEF e
    <3>1. /\ Append(e, u) \in Seq(Named(n)) /\ Len(Append(e, u)) = Len(e) + 1
          /\ \A i \in 1..Len(e) : Append(e, u)[i] = e[i]
          /\ Append(e, u)[Len(e) + 1] = u
      BY <2>2, AppendProperties
    <3> QED BY <2>2, <3>1
  <2>4. \A i \in 1..k : row[i] \in Named(n) /\ row[i] = Append(e, u)[i]
    <3>1. \A i \in 1..k : i = k \/ i \in 1..s.len
      BY <2>2
    <3>2. \A i \in 1..s.len : e[i] \in Named(n)
      BY <2>2, ElementOfSeq
    <3> QED BY <2>2, <2>3, <3>1, <3>2
  <2>5. /\ SubSeq(row, 1, k) \in Seq(Named(n)) /\ Len(SubSeq(row, 1, k)) = k
        /\ \A i \in 1..k : SubSeq(row, 1, k)[i] = row[i]
    <3>1. /\ SubSeq(row, 1, k) \in Seq(Named(n))
          /\ Len(SubSeq(row, 1, k)) = IF 1 <= k THEN k - 1 + 1 ELSE 0
          /\ \A i \in 1..(k - 1 + 1) : SubSeq(row, 1, k)[i] = row[1 + i - 1]
      BY <2>2, <2>4, SubSeqProperties
    <3> QED BY <2>2, <3>1
  <2> HIDE DEF e, k
  <2>6. SubSeq(row, 1, k) = Append(e, u)
    BY <2>3, <2>4, <2>5, SeqEqual
  <2> QED BY <2>1, <2>6 DEF e, k, s, u
<1> QED BY <1>7, <1>8, <1>9, <1>10, <1>12, <1>13, <1>14

LEMMA AppendBuilds ==
  ASSUME Inv, StoreInv, NEW n \in Name, addUsage(n)
  PROVE  StoreInv'
<1> DEFINE u == Head(todo)
           rest == Tail(todo)
<1>1. /\ todo \in Seq(Usage) /\ todo # <<>> /\ todo' = rest /\ next # None
      /\ next \in Index /\ Stored(next) /\ Built
      /\ heap \in [Arrays -> Seq(Cell)] /\ known' = known /\ known \in [File -> Seq(Call)]
  BY DEF addUsage, StoreInv, Inv, Typed
<1>2. /\ u \in Usage /\ rest \in Seq(Usage) /\ u \in Named(n)
      /\ \A m \in Name \ {n} : u \notin Named(m)
  <2>1. u \in Usage /\ rest \in Seq(Usage)
    BY <1>1, HeadTailProperties
  <2> QED BY <2>1 DEF addUsage, Named
<1>3. <<u>> \in Seq(Usage) /\ todo = <<u>> \o rest
  <2>1. SubSeq(todo, 1, Len(todo)) = <<todo[1]>> \o SubSeq(todo, 1 + 1, Len(todo))
    <3>1. Len(todo) \in 1..Len(todo) /\ 1 \in 1..Len(todo)
      BY <1>1, EmptySeq
    <3> QED BY <1>1, <3>1, SubSeqRecursiveFirst
  <2>2. /\ SubSeq(todo, 1, Len(todo)) = todo /\ rest = SubSeq(todo, 2, Len(todo))
        /\ u = todo[1]
    BY <1>1, SubSeqFull, TailIsSubSeq
  <2> QED BY <1>2, <2>1, <2>2
<1>4. \A T : Kept(<<u>>, T) = IF u \in T THEN <<u>> ELSE <<>>
  <2> SUFFICES ASSUME NEW T PROVE Kept(<<u>>, T) = IF u \in T THEN <<u>> ELSE <<>>
    OBVIOUS
  <2>1. <<>> \in Seq(Usage) /\ Append(<<>>, u) = <<u>>
    BY <1>2, EmptySeq
  <2>2. Kept(Append(<<>>, u), T) = IF u \in T THEN Append(Kept(<<>>, T), u) ELSE Kept(<<>>, T)
    <3>1. \A s \in Seq(Usage) : \A x \in Usage :
            Kept(Append(s, x), T) = IF x \in T THEN Append(Kept(s, T), x) ELSE Kept(s, T)
      BY KeptStep
    <3> QED BY <1>2, <2>1, <3>1
  <2> QED BY <2>1, <2>2, KeptEmpty
<1>5. \A T : /\ Kept(todo, T) = Kept(<<u>>, T) \o Kept(rest, T)
             /\ Kept(rest, T) \in Seq(Usage)
  <2> SUFFICES ASSUME NEW T
               PROVE  /\ Kept(todo, T) = Kept(<<u>>, T) \o Kept(rest, T)
                      /\ Kept(rest, T) \in Seq(Usage)
    OBVIOUS
  <2>1. Kept(<<u>> \o rest, T) = Kept(<<u>>, T) \o Kept(rest, T)
    BY <1>2, <1>3, KeptConcats
  <2> QED BY <1>2, <1>3, <2>1, KeptIn
<1> HIDE DEF u, rest
<1>6. ASSUME NEW m \in Name
      PROVE  Elements(next[m])' \o Kept(rest, Named(m)) = Elements(next[m]) \o Kept(todo, Named(m))
  <2>1. PICK e \in Seq(Usage), k \in Seq(Usage) : e = Elements(next[m]) /\ k = Kept(rest, Named(m))
    BY <1>1, <1>5, ElementsTyped
  <2>2. CASE m = n
    <3>1. Elements(next[m])' = e \o <<u>>
      <4>1. Elements(next[n])' = Append(Elements(next[n]), u)
        BY AppendStores DEF u
      <4>2. Append(e, u) = e \o <<u>>
        BY <1>2, AppendIsConcat
      <4> QED BY <2>1, <2>2, <4>1, <4>2
    <3>2. Kept(todo, Named(m)) = <<u>> \o k
      BY <1>2, <1>4, <1>5, <2>1, <2>2
    <3>3. (e \o <<u>>) \o k = e \o (<<u>> \o k)
      BY <1>3, ConcatAssociative
    <3> QED BY <2>1, <3>1, <3>2, <3>3
  <2>3. CASE m # n
    <3>1. Elements(next[m])' = e
      BY <2>1, <2>3, AppendStores
    <3>2. Kept(todo, Named(m)) = <<>> \o k
      BY <1>2, <1>4, <1>5, <2>1, <2>3
    <3>3. <<>> \o k = k
      BY ConcatEmptySeq
    <3> QED BY <2>1, <3>1, <3>2, <3>3
  <2> QED BY <2>2, <2>3
<1>7. Built'
  BY <1>1, <1>6 DEF Built
<1> QED BY <1>1, <1>2, <1>7, AppendStores DEF StoreInv

LEMMA EmptyStores == Stored(EmptyIndex) /\ Own(EmptyIndex) /\ \A n \in Name : Elements(EmptyIndex[n]) = <<>>
BY DEF Stored, Own, Elements, EmptyIndex, EmptySlice

LEMMA EmptyBuilds ==
  ASSUME next' = EmptyIndex, todo' \in Seq(Usage),
         \A n \in Name, f \in File :
           Kept(todo', Named(n) \cap From(f)) = Sites(f, SitesOf(n, known'[f]))
  PROVE  Built'
<1> SUFFICES ASSUME NEW n \in Name, NEW f \in File
             PROVE  Kept(Elements(next[n])' \o Kept(todo', Named(n)), From(f))
                      = Sites(f, SitesOf(n, known'[f]))
  BY DEF Built
<1>1. Elements(next[n])' = <<>>
  BY DEF Elements, EmptyIndex, EmptySlice
<1>2. Kept(todo', Named(n)) \in Seq(Usage)
  BY KeptIn
<1>3. <<>> \o Kept(todo', Named(n)) = Kept(todo', Named(n))
  BY <1>2, ConcatEmptySeq
<1>4. Kept(Kept(todo', Named(n)), From(f)) = Kept(todo', Named(n) \cap From(f))
  BY KeptKept
<1> QED BY <1>1, <1>3, <1>4

LEMMA WalkBuilds ==
  ASSUME Inv, StoreInv, BeginWalk
  PROVE  StoreInv'
<1>1. PICK text \in [File -> Contents] :
        /\ todo' = FlattenSeq([i \in 1..Cardinality(File) |->
                               Sites(SetToSeq(File)[i], text[SetToSeq(File)[i]])])
        /\ known' = text
  BY DEF BeginWalk
<1> DEFINE files == SetToSeq(File)
           rows == [i \in 1..Cardinality(File) |-> Sites(files[i], text[files[i]])]
<1>2. /\ files \in Seq(File) /\ Len(files) = Cardinality(File)
      /\ \A i, j \in 1..Len(files) : files[i] = files[j] => i = j
      /\ \A f \in File : \E i \in 1..Len(files) : files[i] = f
  BY SetToSeqProperties, ViewIndexAssumption
<1>3. \A f \in File : text[f] \in Seq(Call)
  BY <1>1, ViewIndexAssumption
<1>4. todo' = FlattenSeq(rows)
  BY <1>1
<1> HIDE DEF files
<1>5. /\ \A i \in 1..Len(files) : files[i] \in File /\ rows[i] = Sites(files[i], text[files[i]])
      /\ Len(files) \in Nat
  BY <1>2, ElementOfSeq, LenProperties
<1>6. \A i \in 1..Len(files) : rows[i] \in Seq(Usage) /\ rows[i] \in Seq(From(files[i]))
  <2> SUFFICES ASSUME NEW i \in 1..Len(files)
               PROVE  rows[i] \in Seq(Usage) /\ rows[i] \in Seq(From(files[i]))
    OBVIOUS
  <2>1. PICK f \in File, t \in Seq(Call) : f = files[i] /\ t = text[f] /\ rows[i] = Sites(f, t)
    BY <1>3, <1>5
  <2>2. Sites(f, t) \in Seq(From(f)) /\ Sites(f, t) \in Seq(Usage)
    <3>1. CASE Name = {}
      <4>1. t = <<>>
        <5>1. Call = {}
          BY <3>1 DEF Call
        <5> QED BY <2>1, <5>1
      <4> QED BY <4>1, SitesOfNone, EmptySeq
    <3>2. CASE Name # {}
      BY <3>2, SitesNamed
    <3> QED BY <3>1, <3>2
  <2> QED BY <2>1, <2>2
<1>7. rows \in Seq(Seq(Usage)) /\ Len(rows) = Len(files)
  BY <1>2, <1>5, <1>6
<1> HIDE DEF rows
<1>8. todo' \in Seq(Usage)
  BY <1>4, <1>7, FlattenPlaces
<1>9. ASSUME NEW n \in Name, NEW f \in File
      PROVE  Kept(todo', Named(n) \cap From(f)) = Sites(f, SitesOf(n, known'[f]))
  <2> DEFINE T == Named(n) \cap From(f)
  <2>1. PICK k \in 1..Len(files) : files[k] = f
    BY <1>2
  <2>2. ASSUME NEW i \in 1..Len(rows), i # k PROVE Kept(rows[i], T) = <<>>
    <3>1. rows[i] \in Seq(From(files[i])) /\ files[i] # f
      BY <1>2, <1>6, <1>7, <2>1, <2>2
    <3>2. From(files[i]) \cap T = {}
      BY <3>1 DEF From
    <3> HIDE DEF T
    <3> QED BY <3>1, <3>2, KeptNone
  <2>3. PICK t \in Seq(Call) : t = text[f]
    BY <1>3
  <2>4. rows[k] = Sites(f, t) /\ rows[k] \in Seq(From(f))
    BY <1>5, <1>6, <2>1, <2>3
  <2>5. From(f) \cap T = From(f) \cap Named(n)
    OBVIOUS
  <2> HIDE DEF T
  <2>6. Kept(FlattenSeq(rows), T) = Kept(rows[k], T)
    BY <1>7, <2>2, KeptFlatten
  <2>7. Kept(rows[k], T) = Kept(rows[k], Named(n))
    BY <2>4, <2>5, KeptSame
  <2>8. Kept(Sites(f, t), Named(n)) = Sites(f, SitesOf(n, t))
    BY SitesNamed
  <2> QED BY <1>1, <1>4, <2>3, <2>4, <2>6, <2>7, <2>8 DEF T
<1>10. next' = EmptyIndex /\ UNCHANGED <<heap, published>>
  BY DEF BeginWalk
<1>11. Stored(published)' /\ Stored(next)' /\ Own(next)'
  BY <1>10, EmptyStores DEF StoreInv, Stored, Own, EmptyIndex, EmptySlice
<1>12. Built'
  BY <1>8, <1>9, <1>10, EmptyBuilds
<1>13. known' \in [File -> Seq(Call)]
  BY <1>1, <1>3
<1> QED BY <1>8, <1>10, <1>11, <1>12, <1>13 DEF StoreInv

LEMMA ReindexBuilds ==
  ASSUME Inv, StoreInv, PublishedExact, NEW g \in File, BeginReindex(g)
  PROVE  StoreInv'
<1>1. PICK text \in Contents :
        todo' = Others(g) \o Sites(g, text) /\ known' = [known EXCEPT ![g] = text]
  BY DEF BeginReindex
<1>2. /\ next' = EmptyIndex /\ UNCHANGED <<heap, published>> /\ next = None
      /\ known \in [File -> Seq(Call)] /\ text \in Seq(Call)
      /\ published \in Index /\ Stored(published) /\ heap \in [Arrays -> Seq(Cell)]
  BY ViewIndexAssumption DEF BeginReindex, Filtered, EmptyIndex, StoreInv, Inv, Typed
<1> DEFINE names == SetToSeq(Name)
           Not == {u \in Usage : u.file # g}
           rows == [i \in 1..Cardinality(Name) |-> Kept(Elements(published[names[i]]), Not)]
<1>3. /\ names \in Seq(Name) /\ Len(names) = Cardinality(Name)
      /\ \A i, j \in 1..Len(names) : names[i] = names[j] => i = j
      /\ \A n \in Name : \E i \in 1..Len(names) : names[i] = n
  BY SetToSeqProperties, ViewIndexAssumption
<1>4. Others(g) = FlattenSeq(rows)
  BY DEF Others
<1> HIDE DEF names
<1>5. /\ \A i \in 1..Len(names) :
           names[i] \in Name /\ rows[i] = Kept(Elements(published[names[i]]), Not)
      /\ Len(names) \in Nat
  BY <1>3, ElementOfSeq, LenProperties
<1>6. \A n \in Name : /\ Elements(published[n]) \in Seq(Named(n))
                      /\ Elements(published[n]) \in Seq(Usage)
  BY <1>2, ElementsTyped
<1> HIDE DEF rows
<1>7. \A i \in 1..Len(names) : rows[i] \in Seq(Usage \cap Not) /\ rows[i] \in Seq(Named(names[i]))
  <2> HIDE DEF Not
  <2> SUFFICES ASSUME NEW i \in 1..Len(names)
               PROVE  rows[i] \in Seq(Usage \cap Not) /\ rows[i] \in Seq(Named(names[i]))
    OBVIOUS
  <2> DEFINE E == Elements(published[names[i]])
             N == Named(names[i])
  <2>1. rows[i] = Kept(E, Not) /\ E \in Seq(N) /\ E \in Seq(Usage)
    BY <1>5, <1>6
  <2> HIDE DEF E, N
  <2>2. Kept(E, Not) \in Seq(Usage \cap Not) /\ Kept(E, Not) \in Seq(N)
    BY <2>1, KeptIn
  <2> QED BY <2>1, <2>2 DEF N
<1>8. rows \in Seq(Seq(Usage \cap Not)) /\ rows \in Seq(Seq(Usage)) /\ Len(rows) = Len(names)
  <2>1. rows \in [1..Len(names) -> Seq(Usage \cap Not)]
    BY <1>3, <1>7 DEF rows
  <2>2. \A i \in 1..Len(names) : rows[i] \in Seq(Usage)
    <3>1. Usage \cap Not \subseteq Usage
      OBVIOUS
    <3> HIDE DEF Not
    <3> QED BY <1>7, <3>1, SeqMonotonic
  <2>3. rows \in [1..Len(names) -> Seq(Usage)]
    BY <2>1, <2>2
  <2> HIDE DEF Not
  <2> QED BY <1>5, <2>1, <2>3
<1> DEFINE others == FlattenSeq(rows)
           own == Sites(g, text)
<1>9. others \in Seq(Usage \cap Not) /\ others \in Seq(Usage)
  <2> HIDE DEF Not
  <2> QED BY <1>8, FlattenPlaces
<1>10. own \in Seq(Usage) /\ own \in Seq(From(g))
  <2>1. CASE Name = {}
    <3>1. text = <<>>
      <4>1. Call = {}
        BY <2>1 DEF Call
      <4> QED BY <1>2, <4>1
    <3> QED BY <3>1, SitesOfNone, EmptySeq
  <2>2. CASE Name # {}
    BY <1>2, <2>2, SitesNamed
  <2> QED BY <2>1, <2>2
<1> HIDE DEF others, own
<1>11. todo' = others \o own /\ todo' \in Seq(Usage)
  BY <1>1, <1>4, <1>9, <1>10, ConcatProperties DEF others, own
<1>12. ASSUME NEW n \in Name, NEW f \in File
       PROVE  Kept(todo', Named(n) \cap From(f)) = Sites(f, SitesOf(n, known'[f]))
  <2> DEFINE T == Named(n) \cap From(f)
             E == Elements(published[n])
  <2>1. Kept(todo', T) = Kept(others, T) \o Kept(own, T)
    <3>1. \A s, t \in Seq(Usage) : Kept(s \o t, T) = Kept(s, T) \o Kept(t, T)
      BY KeptConcats
    <3> HIDE DEF T
    <3> QED BY <1>9, <1>10, <1>11, <3>1
  <2>2. Kept(others, T) \in Seq(Usage) /\ Kept(own, T) \in Seq(Usage)
    BY <1>9, <1>10, KeptIn
  <2>3. CASE f = g
    <3>1. Usage \cap Not \cap T = {} /\ From(g) \cap T = From(g) \cap Named(n)
      BY <2>3 DEF From
    <3> HIDE DEF T, Not
    <3>2. Kept(others, T) = <<>>
      BY <1>9, <3>1, KeptNone
    <3>3. Kept(own, T) = Kept(own, Named(n))
      BY <1>10, <3>1, KeptSame
    <3>4. Kept(own, Named(n)) = Sites(g, SitesOf(n, text))
      BY <1>2, SitesNamed DEF own
    <3>5. known'[f] = text
      BY <1>1, <1>2, <2>3
    <3>6. <<>> \o Kept(own, T) = Kept(own, T)
      BY <2>2, ConcatEmptySeq
    <3>7. Kept(todo', T) = Sites(f, SitesOf(n, known'[f]))
      BY <2>1, <2>3, <3>2, <3>3, <3>4, <3>5, <3>6
    <3> QED BY <3>7 DEF T
  <2>4. CASE f # g
    <3>1. /\ From(g) \cap T = {} /\ T \subseteq Named(n)
          /\ Named(n) \cap (Not \cap T) = Named(n) \cap From(f)
      BY <2>4 DEF From, Named
    <3>2. PICK k \in 1..Len(names) : names[k] = n
      BY <1>3
    <3>3. ASSUME NEW i \in 1..Len(rows), i # k PROVE Kept(rows[i], T) = <<>>
      <4>1. rows[i] \in Seq(Named(names[i])) /\ names[i] # n
        BY <1>3, <1>7, <1>8, <3>2, <3>3
      <4>2. Named(names[i]) \cap T = {}
        BY <4>1 DEF Named
      <4> HIDE DEF T
      <4> QED BY <4>1, <4>2, KeptNone
    <3>4. E \in Seq(Named(n)) /\ rows[k] = Kept(E, Not)
      BY <1>5, <1>6, <3>2
    <3> HIDE DEF T, E, Not
    <3>5. Kept(others, T) = Kept(rows[k], T)
      BY <1>8, <3>2, <3>3, KeptFlatten DEF others
    <3>6. Kept(Kept(E, Not), T) = Kept(E, Not \cap T)
      BY <3>4, KeptKept
    <3>7. Kept(E, Not \cap T) = Kept(E, From(f))
      BY <3>1, <3>4, KeptSame
    <3>8. Kept(E, From(f)) = Sites(f, SitesOf(n, known[f]))
      BY <1>2 DEF PublishedExact, E, From
    <3>9. Kept(own, T) = <<>>
      BY <1>10, <3>1, KeptNone
    <3>10. known'[f] = known[f]
      BY <1>1, <1>2, <2>4
    <3>11. Kept(others, T) \o <<>> = Kept(others, T)
      BY <2>2, ConcatEmptySeq
    <3>12. Kept(todo', T) = Sites(f, SitesOf(n, known'[f]))
      BY <2>1, <3>4, <3>5, <3>6, <3>7, <3>8, <3>9, <3>10, <3>11
    <3> QED BY <3>12 DEF T
  <2> QED BY <2>3, <2>4
<1>13. Stored(published)' /\ Stored(next)' /\ Own(next)'
  BY <1>2, EmptyStores DEF Stored, Own, EmptyIndex, EmptySlice
<1>14. Built'
  BY <1>2, <1>11, <1>12, EmptyBuilds
<1>15. known' \in [File -> Seq(Call)]
  BY <1>1, <1>2
<1> QED BY <1>2, <1>11, <1>13, <1>14, <1>15 DEF StoreInv

-----------------------------------------------------------------------------
(* The other steps, and the theorem.                                        *)

(* The collector keeps what is stored, and leaves sequences. *)
LEMMA CollectedStores ==
  ASSUME StoreInv, Typed, NEW indexes, NEW index \in indexes \cap Index, Stored(index),
         heap' = Collected(indexes)
  PROVE  /\ heap' \in [Arrays -> Seq(Cell)]
         /\ \A n \in Name : Elements(index[n])' = Elements(index[n])
         /\ \A n \in Name :
              /\ index[n].array = None => index[n].len = 0
              /\ index[n].array # None =>
                   /\ index[n].len <= Len(heap'[index[n].array])
                   /\ \A i \in 1..index[n].len : heap'[index[n].array][i] \in Named(n)
<1>1. \A a \in ArraysOf(index) : heap'[a] = heap[a]
  BY CollectedKeeps
<1>2. heap' \in [Arrays -> Seq(Cell)]
  <2>1. <<>> \in Seq(Cell) /\ heap \in [Arrays -> Seq(Cell)]
    BY EmptySeq DEF StoreInv
  <2> QED BY <2>1 DEF Collected
<1> QED BY <1>1, <1>2, StoredStays

LEMMA PublishStores ==
  ASSUME Inv, StoreInv, Publish
  PROVE  StoreInv' /\ PublishedExact'
<1>1. /\ next # None /\ todo = <<>> /\ published' = next /\ next' = None
      /\ heap' = Collected({next, held}) /\ UNCHANGED <<todo, known>>
      /\ next \in Index /\ Stored(next) /\ Built /\ Typed
      /\ heap \in [Arrays -> Seq(Cell)]
  BY DEF Publish, Inv, Typed, StoreInv
<1>2. PICK index \in Index : index = next
  BY <1>1
<1>3. /\ heap' \in [Arrays -> Seq(Cell)]
      /\ \A n \in Name : Elements(index[n])' = Elements(index[n])
      /\ \A n \in Name :
           /\ index[n].array = None => index[n].len = 0
           /\ index[n].array # None =>
                /\ index[n].len <= Len(heap'[index[n].array])
                /\ \A i \in 1..index[n].len : heap'[index[n].array][i] \in Named(n)
  BY <1>1, <1>2, CollectedStores
<1>4. \A n \in Name : Elements(published[n])' = Elements(next[n])
  BY <1>1, <1>2, <1>3 DEF Elements
<1>5. Stored(published)'
  BY <1>1, <1>2, <1>3 DEF Stored
<1>6. PublishedExact'
  <2> SUFFICES ASSUME NEW n \in Name, NEW f \in File
               PROVE  Kept(Elements(published[n])', From(f)) = Sites(f, SitesOf(n, known[f]))
    BY <1>1 DEF PublishedExact, From
  <2>1. Elements(next[n]) \o Kept(todo, Named(n)) = Elements(next[n])
    BY <1>1, KeptEmpty, ElementsTyped, ConcatEmptySeq
  <2> QED BY <1>1, <1>4, <2>1 DEF Built
<1> QED BY <1>1, <1>3, <1>5, <1>6 DEF StoreInv

LEMMA DropStores ==
  ASSUME Inv, StoreInv, PublishedExact, Drop
  PROVE  StoreInv' /\ PublishedExact'
<1>1. /\ heap' = Collected({published, next}) /\ UNCHANGED <<todo, known, published, next>>
      /\ published \in Index /\ Stored(published) /\ Typed
      /\ next # None => next \in Index /\ Stored(next) /\ Own(next) /\ Built
  BY DEF Drop, Inv, Typed, StoreInv
<1>2. /\ heap' \in [Arrays -> Seq(Cell)]
      /\ \A n \in Name : Elements(published[n])' = Elements(published[n])
      /\ Stored(published)'
  BY <1>1, CollectedStores DEF Stored
<1>3. next # None => /\ \A n \in Name : Elements(next[n])' = Elements(next[n])
                     /\ Stored(next)'
  BY <1>1, CollectedStores DEF Stored
<1>4. next' # None => Own(next)' /\ Built'
  BY <1>1, <1>3 DEF Own, Built
<1>5. PublishedExact'
  BY <1>1, <1>2 DEF PublishedExact
<1> QED BY <1>1, <1>2, <1>3, <1>4, <1>5 DEF StoreInv

LEMMA InitStores == Init => StoreInv /\ PublishedExact
<1> SUFFICES ASSUME Init PROVE StoreInv /\ PublishedExact
  OBVIOUS
<1>1. <<>> \in Seq(Cell) /\ <<>> \in Seq(Usage) /\ <<>> \in Seq(Call)
  BY EmptySeq
<1>2. PublishedExact
  <2> SUFFICES ASSUME NEW n \in Name, NEW f \in File
               PROVE  Kept(Elements(published[n]), From(f)) = Sites(f, SitesOf(n, known[f]))
    BY DEF PublishedExact, From
  <2>1. Elements(published[n]) = <<>> /\ known[f] = <<>>
    BY EmptyStores DEF Init
  <2>2. SitesOf(n, <<>>) = <<>>
    BY KeptEmpty DEF SitesOf
  <2> QED BY <2>1, <2>2, KeptEmpty, SitesOfNone
<1> QED BY <1>1, <1>2, EmptyStores DEF Init, StoreInv

LEMMA StepStores ==
  ASSUME Inv, StoreInv, PublishedExact, [Next]_vars
  PROVE  StoreInv' /\ PublishedExact'
<1>1. CASE BeginWalk
  BY <1>1, WalkBuilds, EmptyIsTyped, ViewIndexAssumption DEF BeginWalk, PublishedExact
<1>2. ASSUME NEW g \in File, BeginReindex(g) PROVE StoreInv' /\ PublishedExact'
  <2>1. next' = EmptyIndex
    BY <1>2 DEF BeginReindex, Filtered, EmptyIndex
  <2>2. next' # None
    BY <2>1, EmptyIsTyped, ViewIndexAssumption
  <2> QED BY <1>2, <2>2, ReindexBuilds DEF PublishedExact
<1>3. ASSUME NEW n \in Name, addUsage(n) PROVE StoreInv' /\ PublishedExact'
  <2>1. next' # None
    BY <1>3, AppendStores, ViewIndexAssumption
  <2> QED BY <1>3, <2>1, AppendBuilds DEF PublishedExact
<1>4. CASE Publish
  BY <1>4, PublishStores
<1>5. CASE Take \/ UNCHANGED vars
  <2>1. UNCHANGED <<heap, published, next, todo, known>>
    BY <1>5 DEF Take, vars
  <2> QED BY <2>1 DEF StoreInv, Stored, Own, Built, PublishedExact, Elements
<1>6. CASE Drop
  BY <1>6, DropStores
<1> QED BY <1>1, <1>2, <1>3, <1>4, <1>5, <1>6 DEF Next

(* PublishedExact: the published index has every call site of the files it  *)
(* knows, each as often as the file has it and under its name, and no       *)
(* other, whatever sequence of walks and reindexes built it and whatever    *)
(* arrays its slices share with older ones.                                 *)
THEOREM IndexIsExact == Spec => []PublishedExact
<1>1. Init => Inv /\ StoreInv /\ PublishedExact
  BY InitInv, InitStores
<1>2. Inv /\ StoreInv /\ PublishedExact /\ [Next]_vars
        => Inv' /\ StoreInv' /\ PublishedExact'
  BY StepKeepsInv, StepStores
<1> QED BY <1>1, <1>2, PTL DEF Spec

-----------------------------------------------------------------------------
(* The variables shown of a view.                                           *)

Seen(shown, v) == \E w \in Range(shown) : VarName[w] = VarName[v]

ShowsFirst(h, s) ==
  /\ h[0] = <<>>
  /\ \A i \in 1..Len(s) : h[i] = IF Seen(h[i - 1], s[i]) THEN h[i - 1] ELSE Append(h[i - 1], s[i])

LEMMA FirstLoop ==
  ASSUME NEW s \in Seq(Variable)
  PROVE  \E h \in [0..Len(s) -> Seq(Variable)] :
           ShowsFirst(h, s) /\ FirstOccurrences(s) = h[Len(s)]
<1> DEFINE A == Seq(Variable)
           step == [p \in A \X Variable |-> IF Seen(p[1], p[2]) THEN p[1] ELSE Append(p[1], p[2])]
           k == CHOOSE g : g = [i \in 0..Len(s) |->
                  IF i = 0 THEN <<>>
                  ELSE IF \E v \in Range(g[i - 1]) : VarName[v] = VarName[s[i]] THEN g[i - 1]
                  ELSE Append(g[i - 1], s[i])]
<1>0. Len(s) \in Nat /\ \A i \in 1..Len(s) : s[i] \in Variable
  BY LenProperties, ElementOfSeq
<1>1. <<>> \in A
  BY EmptySeq
<1>2. \A a \in A : \A v \in Variable : step[<<a, v>>] \in A
  BY AppendProperties
<1>3. \A a \in A : \A v \in Variable :
        step[<<a, v>>] = IF Seen(a, v) THEN a ELSE Append(a, v)
  OBVIOUS
<1> HIDE DEF A, step
<1>4. PICK h \in [0..Len(s) -> A] :
        h[0] = <<>> /\ \A i \in 1..Len(s) : h[i] = step[<<h[i - 1], s[i]>>]
  <2>1. PICK e \in A : e = <<>>
    BY <1>1
  <2>2. \E h \in [0..Len(s) -> A] :
          h[0] = e /\ \A i \in 1..Len(s) : h[i] = step[<<h[i - 1], s[i]>>]
    BY <1>2, LoopExists
  <2> QED BY <2>1, <2>2
<1>5. ShowsFirst(h, s)
  <2>1. \A i \in 1..Len(s) : h[i - 1] \in A
    BY <1>0, <1>4
  <2> QED BY <1>0, <1>3, <1>4, <2>1 DEF ShowsFirst
<1>6. h = [i \in 0..Len(s) |->
             IF i = 0 THEN <<>>
             ELSE IF \E v \in Range(h[i - 1]) : VarName[v] = VarName[s[i]] THEN h[i - 1]
             ELSE Append(h[i - 1], s[i])]
  <2>1. ASSUME NEW i \in 0..Len(s)
        PROVE  h[i] = IF i = 0 THEN <<>>
                      ELSE IF \E v \in Range(h[i - 1]) : VarName[v] = VarName[s[i]] THEN h[i - 1]
                      ELSE Append(h[i - 1], s[i])
    <3>1. CASE i = 0
      BY <1>4, <3>1
    <3>2. CASE i # 0
      <4>1. i \in 1..Len(s)
        BY <1>0, <3>2
      <4> QED BY <1>5, <3>2, <4>1 DEF ShowsFirst, Seen
    <3> QED BY <3>1, <3>2
  <2> QED BY <2>1
<1>7. k = [i \in 0..Len(s) |->
             IF i = 0 THEN <<>>
             ELSE IF \E v \in Range(k[i - 1]) : VarName[v] = VarName[s[i]] THEN k[i - 1]
             ELSE Append(k[i - 1], s[i])]
  BY <1>6
<1>8. FirstOccurrences(s) = k[Len(s)]
  BY DEF FirstOccurrences
<1> HIDE DEF k
<1> DEFINE E == {i \in Nat : i <= Len(s) => k[i] = h[i]}
<1>9. 0 \in E
  BY <1>0, <1>4, <1>7
<1>10. ASSUME NEW i \in Nat, i \in E PROVE i + 1 \in E
  <2> SUFFICES ASSUME i + 1 <= Len(s) PROVE k[i + 1] = h[i + 1]
    OBVIOUS
  <2>1. i + 1 \in 0..Len(s) /\ i + 1 # 0 /\ (i + 1) - 1 = i /\ k[i] = h[i]
    BY <1>0, <1>10
  <2>2. k[i + 1] = IF \E v \in Range(k[(i + 1) - 1]) : VarName[v] = VarName[s[i + 1]]
                   THEN k[(i + 1) - 1] ELSE Append(k[(i + 1) - 1], s[i + 1])
    BY <1>7, <2>1
  <2>3. h[i + 1] = IF \E v \in Range(h[(i + 1) - 1]) : VarName[v] = VarName[s[i + 1]]
                   THEN h[(i + 1) - 1] ELSE Append(h[(i + 1) - 1], s[i + 1])
    BY <1>6, <2>1
  <2> QED BY <2>1, <2>2, <2>3
<1> HIDE DEF E
<1>11. Len(s) \in E
  BY <1>0, <1>9, <1>10, InductionNat
<1> QED BY <1>0, <1>4, <1>5, <1>8, <1>11 DEF A, E

(* What is shown of the first i variables of s: each is the first of its    *)
(* name, every name is there, and none twice.                               *)
Shows(shown, s, i) ==
  /\ \A k \in 1..Len(shown) :
       \E j \in 1..i : /\ shown[k] = s[j]
                       /\ \A l \in 1..(j - 1) : VarName[s[l]] # VarName[s[j]]
  /\ \A j \in 1..i : \E k \in 1..Len(shown) : VarName[shown[k]] = VarName[s[j]]
  /\ \A k, l \in 1..Len(shown) : VarName[shown[k]] = VarName[shown[l]] => k = l

LEMMA ShowsOneMore ==
  ASSUME NEW s \in Seq(Variable), NEW i \in Nat, i + 1 \in 1..Len(s),
         NEW a \in Seq(Variable), Shows(a, s, i)
  PROVE  Shows(IF Seen(a, s[i + 1]) THEN a ELSE Append(a, s[i + 1]), s, i + 1)
<1> DEFINE v == s[i + 1]
           b == Append(a, v)
<1>1. v \in Variable
  BY ElementOfSeq
<1>2. \A w : w \in Range(a) <=> \E k \in 1..Len(a) : w = a[k]
  BY ElementsOfSeq
<1>3. Len(a) \in Nat
  BY LenProperties
<1>4. CASE Seen(a, v)
  <2>1. PICK k \in 1..Len(a) : VarName[a[k]] = VarName[v]
    BY <1>2, <1>4 DEF Seen
  <2>2. \A j \in 1..(i + 1) : j \in 1..i \/ s[j] = v
    OBVIOUS
  <2>3. \A j \in 1..i : j \in 1..(i + 1)
    OBVIOUS
  <2> HIDE DEF v
  <2>4. \A j \in 1..(i + 1) : \E l \in 1..Len(a) : VarName[a[l]] = VarName[s[j]]
    BY <2>1, <2>2 DEF Shows
  <2>5. Shows(a, s, i + 1)
    BY <2>3, <2>4 DEF Shows
  <2> QED BY <1>4, <2>5 DEF v
<1>5. CASE ~Seen(a, v)
  <2>1. /\ Len(b) = Len(a) + 1 /\ b[Len(a) + 1] = v
        /\ \A k \in 1..Len(a) : b[k] = a[k]
    BY <1>1, AppendProperties
  <2>2. \A k \in 1..Len(a) : VarName[a[k]] # VarName[v]
    BY <1>2, <1>5 DEF Seen
  <2> HIDE DEF b
  <2>3. \A k \in 1..(Len(a) + 1) : k = Len(a) + 1 \/ k \in 1..Len(a)
    BY <1>3
  <2>4. ASSUME NEW k \in 1..Len(b)
        PROVE  \E j \in 1..(i + 1) : /\ b[k] = s[j]
                                     /\ \A l \in 1..(j - 1) : VarName[s[l]] # VarName[s[j]]
    <3>1. CASE k \in 1..Len(a)
      <4>1. PICK j \in 1..i : /\ a[k] = s[j]
                              /\ \A l \in 1..(j - 1) : VarName[s[l]] # VarName[s[j]]
        BY <3>1 DEF Shows
      <4> QED BY <2>1, <3>1, <4>1
    <3>2. CASE k = Len(a) + 1
      <4>1. ASSUME NEW l \in 1..i PROVE VarName[s[l]] # VarName[v]
        BY <2>2 DEF Shows
      <4>2. i + 1 \in 1..(i + 1) /\ (i + 1) - 1 = i
        OBVIOUS
      <4> QED BY <2>1, <3>2, <4>1, <4>2
    <3> QED BY <2>1, <2>3, <3>1, <3>2
  <2>5. ASSUME NEW j \in 1..(i + 1)
        PROVE  \E k \in 1..Len(b) : VarName[b[k]] = VarName[s[j]]
    <3>1. CASE j \in 1..i
      <4>1. PICK k \in 1..Len(a) : VarName[a[k]] = VarName[s[j]]
        BY <3>1 DEF Shows
      <4>2. k \in 1..Len(b)
        BY <1>3, <2>1
      <4> QED BY <2>1, <4>1, <4>2
    <3>2. CASE j = i + 1
      <4>1. Len(a) + 1 \in 1..Len(b)
        BY <1>3, <2>1
      <4> QED BY <2>1, <3>2, <4>1
    <3> QED BY <3>1, <3>2
  <2>6. \A k, l \in 1..Len(b) : VarName[b[k]] = VarName[b[l]] => k = l
    <3> SUFFICES ASSUME NEW k \in 1..(Len(a) + 1), NEW l \in 1..(Len(a) + 1),
                        VarName[b[k]] = VarName[b[l]]
                 PROVE  k = l
      BY <2>1
    <3>1. CASE k \in 1..Len(a) /\ l \in 1..Len(a)
      BY <2>1, <3>1 DEF Shows
    <3>2. CASE k \in 1..Len(a) /\ l = Len(a) + 1
      BY <2>1, <2>2, <3>2
    <3>3. CASE k = Len(a) + 1 /\ l \in 1..Len(a)
      BY <2>1, <2>2, <3>3
    <3> QED BY <2>3, <3>1, <3>2, <3>3
  <2>7. Shows(b, s, i + 1)
    BY <2>4, <2>5, <2>6 DEF Shows
  <2> QED BY <1>5, <2>7 DEF b
<1> QED BY <1>4, <1>5

LEMMA FirstOccurrencesShown ==
  ASSUME NEW s \in Seq(Variable)
  PROVE  FirstOccurrences(s) \in Seq(Variable) /\ Shows(FirstOccurrences(s), s, Len(s))
<1>1. PICK h \in [0..Len(s) -> Seq(Variable)] :
        ShowsFirst(h, s) /\ FirstOccurrences(s) = h[Len(s)]
  BY FirstLoop
<1>2. Len(s) \in Nat
  BY LenProperties
<1> DEFINE E == {i \in Nat : i <= Len(s) => Shows(h[i], s, i)}
<1>3. 0 \in E
  <2>1. h[0] = <<>> /\ Len(<<>>) = 0
    BY <1>1, EmptySeq DEF ShowsFirst
  <2>2. Shows(<<>>, s, 0)
    BY <2>1 DEF Shows
  <2> QED BY <2>1, <2>2
<1>4. ASSUME NEW i \in Nat, i \in E PROVE i + 1 \in E
  <2> SUFFICES ASSUME i + 1 <= Len(s) PROVE Shows(h[i + 1], s, i + 1)
    OBVIOUS
  <2>1. i + 1 \in 1..Len(s) /\ i \in 0..Len(s) /\ (i + 1) - 1 = i /\ Shows(h[i], s, i)
    BY <1>2, <1>4
  <2>2. h[i + 1] = IF Seen(h[(i + 1) - 1], s[i + 1]) THEN h[(i + 1) - 1]
                   ELSE Append(h[(i + 1) - 1], s[i + 1])
    BY <1>1, <2>1 DEF ShowsFirst
  <2>3. h[i] \in Seq(Variable)
    BY <1>1, <2>1
  <2> QED BY <2>1, <2>2, <2>3, ShowsOneMore
<1> HIDE DEF E
<1>5. Len(s) \in E
  BY <1>2, <1>3, <1>4, InductionNat
<1> QED BY <1>1, <1>2, <1>5 DEF E

LEMMA ShownAreUnion ==
  ASSUME NEW us \in Seq(Usage)
  PROVE  LET shown == FirstOccurrences([i \in DOMAIN us |-> us[i].var] \o SetToSeq(GlobalVars))
             local == {u.var : u \in Range(us)}
         IN  /\ Len(shown) = Cardinality(Names(Range(shown)))
             /\ Names(Range(shown)) = Names(GlobalVars \cup local)
             /\ \A v \in Range(shown) : v \in local \/ VarName[v] \notin Names(local)
<1> DEFINE first == [i \in DOMAIN us |-> us[i].var]
           second == SetToSeq(GlobalVars)
           s == first \o second
           shown == FirstOccurrences(s)
           local == {u.var : u \in Range(us)}
<1>1. /\ first \in Seq(Variable) /\ Len(first) = Len(us) /\ Len(first) \in Nat
      /\ \A i \in 1..Len(us) : first[i] = us[i].var
  <2>1. DOMAIN us = 1..Len(us) /\ Len(us) \in Nat /\ \A i \in 1..Len(us) : us[i] \in Usage
    BY LenProperties, ElementOfSeq
  <2>2. \A u \in Usage : u.var \in Variable
    BY DEF Usage
  <2>3. first \in [1..Len(us) -> Variable]
    BY <2>1, <2>2
  <2> QED BY <2>1, <2>3
<1>2. /\ second \in Seq(Variable) /\ Len(second) \in Nat
      /\ \A i \in 1..Len(second) : second[i] \in GlobalVars
      /\ \A v \in GlobalVars : \E i \in 1..Len(second) : second[i] = v
  <2>1. second \in Seq(GlobalVars) /\ \A v \in GlobalVars : \E i \in 1..Len(second) : second[i] = v
    BY SetToSeqProperties, ViewIndexAssumption
  <2>2. second \in Seq(Variable)
    BY <2>1, SeqMonotonic, ViewIndexAssumption
  <2> QED BY <2>1, <2>2, ElementOfSeq, LenProperties
<1>3. \A v : v \in local <=> \E i \in 1..Len(first) : v = first[i]
  <2>1. \A u : u \in Range(us) <=> \E i \in 1..Len(us) : u = us[i]
    BY ElementsOfSeq
  <2> QED BY <1>1, <2>1
<1> HIDE DEF first, second, local
<1>4. /\ s \in Seq(Variable) /\ Len(s) = Len(first) + Len(second)
      /\ \A i \in 1..(Len(first) + Len(second)) :
           s[i] = IF i <= Len(first) THEN first[i] ELSE second[i - Len(first)]
  BY <1>1, <1>2, ConcatProperties
<1> HIDE DEF s
<1>5. shown \in Seq(Variable) /\ Shows(shown, s, Len(s)) /\ Len(shown) \in Nat
  BY <1>4, FirstOccurrencesShown, LenProperties
<1> HIDE DEF shown
<1>6. \A v : v \in Range(shown) <=> \E k \in 1..Len(shown) : v = shown[k]
  BY <1>5, ElementsOfSeq
<1>7. \A i \in 1..Len(s) : /\ i <= Len(first) => s[i] \in local
                           /\ ~(i <= Len(first)) => s[i] \in GlobalVars
  <2> SUFFICES ASSUME NEW i \in 1..Len(s)
               PROVE  /\ i <= Len(first) => s[i] \in local
                      /\ ~(i <= Len(first)) => s[i] \in GlobalVars
    OBVIOUS
  <2>1. CASE i <= Len(first)
    <3>1. i \in 1..Len(first) /\ s[i] = first[i]
      BY <1>1, <1>2, <1>4, <2>1
    <3> QED BY <1>3, <2>1, <3>1
  <2>2. CASE ~(i <= Len(first))
    <3>1. i - Len(first) \in 1..Len(second) /\ s[i] = second[i - Len(first)]
      BY <1>1, <1>2, <1>4, <2>2
    <3> QED BY <1>2, <2>2, <3>1
  <2> QED BY <2>1, <2>2
<1>8. \A v \in local : \E i \in 1..Len(s) : i <= Len(first) /\ s[i] = v
  <2> SUFFICES ASSUME NEW v \in local PROVE \E i \in 1..Len(s) : i <= Len(first) /\ s[i] = v
    OBVIOUS
  <2>1. PICK i \in 1..Len(first) : v = first[i]
    BY <1>3
  <2>2. i \in 1..Len(s) /\ i <= Len(first) /\ s[i] = first[i]
    BY <1>1, <1>2, <1>4, <2>1
  <2> QED BY <2>1, <2>2
<1>9. \A v \in GlobalVars : \E i \in 1..Len(s) : s[i] = v
  <2> SUFFICES ASSUME NEW v \in GlobalVars PROVE \E i \in 1..Len(s) : s[i] = v
    OBVIOUS
  <2>1. PICK i \in 1..Len(second) : second[i] = v
    BY <1>2
  <2>2. /\ Len(first) + i \in 1..Len(s) /\ ~(Len(first) + i <= Len(first))
        /\ (Len(first) + i) - Len(first) = i
    BY <1>1, <1>2, <1>4
  <2>3. s[Len(first) + i] = second[(Len(first) + i) - Len(first)]
    BY <1>4, <2>2
  <2> QED BY <2>1, <2>2, <2>3
<1>10. Names(Range(shown)) = Names(GlobalVars \cup local)
  <2>1. ASSUME NEW v \in Range(shown) PROVE v \in GlobalVars \cup local
    <3>1. PICK k \in 1..Len(shown) : v = shown[k]
      BY <1>6, <2>1
    <3>2. PICK j \in 1..Len(s) : shown[k] = s[j]
      BY <1>5 DEF Shows
    <3> QED BY <1>7, <3>1, <3>2
  <2>2. ASSUME NEW v \in GlobalVars \cup local
        PROVE  \E w \in Range(shown) : VarName[w] = VarName[v]
    <3>1. PICK j \in 1..Len(s) : s[j] = v
      BY <1>8, <1>9, <2>2
    <3>2. PICK k \in 1..Len(shown) : VarName[shown[k]] = VarName[s[j]]
      BY <1>5 DEF Shows
    <3>3. shown[k] \in Range(shown)
      BY <1>6
    <3> QED BY <3>1, <3>2, <3>3
  <2>3. Names(Range(shown)) \subseteq Names(GlobalVars \cup local)
    BY <2>1 DEF Names
  <2>4. Names(GlobalVars \cup local) \subseteq Names(Range(shown))
    BY <2>2 DEF Names
  <2> QED BY <2>3, <2>4
<1>11. ASSUME NEW v \in Range(shown) PROVE v \in local \/ VarName[v] \notin Names(local)
  <2>1. PICK k \in 1..Len(shown) : v = shown[k]
    BY <1>6
  <2>2. PICK j \in 1..Len(s) : /\ shown[k] = s[j]
                               /\ \A l \in 1..(j - 1) : VarName[s[l]] # VarName[s[j]]
    BY <1>5 DEF Shows
  <2>3. CASE j <= Len(first)
    BY <1>7, <2>1, <2>2, <2>3
  <2>4. CASE ~(j <= Len(first))
    <3>1. ASSUME NEW w \in local PROVE VarName[w] # VarName[v]
      <4>1. PICK i \in 1..Len(s) : i <= Len(first) /\ s[i] = w
        BY <1>8
      <4>2. i \in 1..(j - 1)
        BY <1>1, <1>2, <1>4, <2>4, <4>1
      <4> QED BY <2>1, <2>2, <4>1, <4>2
    <3> QED BY <3>1 DEF Names
  <2> QED BY <2>3, <2>4
<1>12. Len(shown) = Cardinality(Names(Range(shown)))
  <2> DEFINE N == Names(Range(shown))
             b == [k \in 1..Len(shown) |-> VarName[shown[k]]]
  <2>1. \A k \in 1..Len(shown) : VarName[shown[k]] \in N
    BY <1>6 DEF Names
  <2>2. \A x \in N : \E k \in 1..Len(shown) : VarName[shown[k]] = x
    BY <1>6 DEF Names
  <2>3. \A k, l \in 1..Len(shown) : VarName[shown[k]] = VarName[shown[l]] => k = l
    BY <1>5 DEF Shows
  <2> HIDE DEF N
  <2>4. b \in Bijection(1..Len(shown), N)
    BY <2>1, <2>2, <2>3 DEF Bijection, Injection, Surjection, IsInjective
  <2>5. ExistsBijection(1..Len(shown), N)
    BY <2>4 DEF ExistsBijection
  <2> QED BY <1>5, <2>5, FS_CountingElements DEF N
<1> QED BY <1>10, <1>11, <1>12 DEF local, shown, s, first, second

(* VarsAreUnion: what is shown of a view is the union of what its call      *)
(* sites and the globals expose, every name once, with the type some site   *)
(* gives it, and a global's only for the others.                            *)
THEOREM VariablesAreUnion == Spec => []VarsAreUnion
<1>1. Init => Inv /\ StoreInv /\ PublishedExact
  BY InitInv, InitStores
<1>2. Inv /\ StoreInv /\ PublishedExact /\ [Next]_vars
        => Inv' /\ StoreInv' /\ PublishedExact'
  BY StepKeepsInv, StepStores
<1>3. Inv /\ StoreInv => VarsAreUnion
  <2> SUFFICES ASSUME Inv, StoreInv, NEW n \in Name
               PROVE  LET shown == VarsFor(published, n)
                          local == {u.var : u \in Range(Elements(published[n]))}
                      IN  /\ Len(shown) = Cardinality(Names(Range(shown)))
                          /\ Names(Range(shown)) = Names(GlobalVars \cup local)
                          /\ \A v \in Range(shown) : v \in local \/ VarName[v] \notin Names(local)
    BY DEF VarsAreUnion
  <2>1. Elements(published[n]) \in Seq(Usage)
    BY ElementsTyped DEF Inv, Typed, StoreInv
  <2> QED BY <2>1, ShownAreUnion DEF VarsFor
<1> QED BY <1>1, <1>2, <1>3, PTL DEF Spec
=============================================================================
