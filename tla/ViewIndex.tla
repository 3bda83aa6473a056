----------------------------- MODULE ViewIndex -----------------------------
(***************************************************************************)
(* The usages of a ViewIndex (internal/indexer/view/index.go) as Go keeps   *)
(* them: a slice of a shared array per view name.  A reindex builds the     *)
(* next index from the published one, append by append, while handlers read *)
(* the published one, or an older one they took before, without a lock that *)
(* would stop it: nothing but the copying in withoutFile protects them.     *)
(*                                                                         *)
(* A slice is an array and a length; its capacity is that of the array.     *)
(* append writes in place while there is capacity, and otherwise moves to a *)
(* new array, of which it may ask for more than it needs.                   *)
(***************************************************************************)
EXTENDS Integers, FiniteSets, SequencesExt, Selection

CONSTANTS
  File,       \* the PHP source files
  Name,       \* the view names
  Variable,   \* what a call site exposes: variables of a name and a type
  VarName,    \* variable -> its name
  GlobalVars, \* those exposed by set_global and bind_global
  Contents,   \* what a file may hold: sequences of [name, var]
  Arrays,     \* bound: the arrays of the heap
  Spare,      \* bound: capacity that append asks for beyond its need
  MaxBuilds,  \* bound: indexes built
  None

(* A call site in a file, and in the index. *)
Call == [name : Name, var : Variable]
Usage == [file : File, name : Name, var : Variable]

(* A slice header and the slices of an index. *)
Slice == [array : Arrays \cup {None}, len : Nat]
Index == [Name -> Slice]

ASSUME ViewIndexAssumption ==
  /\ IsFiniteSet(File) /\ IsFiniteSet(Name) /\ IsFiniteSet(GlobalVars)
  /\ Contents \subseteq Seq(Call)
  /\ GlobalVars \subseteq Variable /\ Variable \subseteq DOMAIN VarName
  /\ Spare \in Nat /\ MaxBuilds \in Nat
  /\ None \notin Arrays /\ None \notin Index

VARIABLES
  heap,       \* the arrays: sequences of usages, Hole beyond what was written
  published,  \* Server.viewIdx: the slice of each name
  next,       \* the index being built, or None
  todo,       \* the usages still to be appended to it
  held,       \* the index a handler took, or None
  holds,      \* what was in it when it was taken
  known,      \* the contents of each file when it was last indexed
  builds      \* indexes built so far

vars == <<heap, published, next, todo, held, holds, known, builds>>

Hole == "hole"

EmptySlice == [array |-> None, len |-> 0]

EmptyIndex == [n \in Name |-> EmptySlice]

Elements(s) == IF s.array = None THEN <<>> ELSE SubSeq(heap[s.array], 1, s.len)

Capacity(s) == IF s.array = None THEN 0 ELSE Len(heap[s.array])

Usages(index) == [n \in Name |-> Elements(index[n])]

Referenced ==
  UNION {{index[n].array : n \in Name} : index \in {published, next, held} \ {None}}

(* The collector frees what no index refers to. *)
Collected(indexes) ==
  LET live == UNION {{index[n].array : n \in Name} : index \in indexes \ {None}}
  IN [a \in Arrays |-> IF a \in live THEN heap[a] ELSE <<>>]

Site(f, c) == [file |-> f, name |-> c.name, var |-> c.var]

Sites(f, text) == [i \in DOMAIN text |-> Site(f, text[i])]

-----------------------------------------------------------------------------
(* A full walk: the files in order, into an index of its own. *)
BeginWalk ==
  /\ next = None /\ builds < MaxBuilds
  /\ \E text \in [File -> Contents] :
       /\ todo' = FlattenSeq([i \in 1..Cardinality(File) |->
                              Sites(SetToSeq(File)[i], text[SetToSeq(File)[i]])])
       /\ known' = text
  /\ next' = EmptyIndex
  /\ builds' = builds + 1
  /\ UNCHANGED <<heap, published, held, holds>>

(* us[:0:0]: no capacity, so that the first append moves.  Mutant: us[:0],  *)
(* the idiom that filters a slice in place.                                 *)
Filtered_InPlace(s) == [s EXCEPT !.len = 0]

Filtered(s) == EmptySlice

(* withoutFile: every name is filtered, name by name.  Mutant: the old      *)
(* usages of the file stay.                                                 *)
Others_All(f) ==
  FlattenSeq([i \in 1..Cardinality(Name) |-> Elements(published[SetToSeq(Name)[i]])])

Others(f) ==
  FlattenSeq([i \in 1..Cardinality(Name) |->
    Kept(Elements(published[SetToSeq(Name)[i]]), {u \in Usage : u.file # f})])

(* ReindexFile: what the other files contribute, then the file's own. *)
BeginReindex(f) ==
  /\ next = None /\ builds < MaxBuilds /\ builds > 0
  /\ \E text \in Contents :
       /\ todo' = Others(f) \o Sites(f, text)
       /\ known' = [known EXCEPT ![f] = text]
  /\ next' = [n \in Name |-> Filtered(published[n])]
  /\ builds' = builds + 1
  /\ UNCHANGED <<heap, published, held, holds>>

(* addUsage: one append, to the slice of name n. *)
Padding(n) == [i \in 1..n |-> Hole]

addUsage(n) ==
  /\ next # None /\ todo # <<>> /\ Head(todo).name = n
  /\ LET u == Head(todo)
         s == next[n]
     IN IF s.len < Capacity(s)
        THEN /\ heap' = [heap EXCEPT ![s.array][s.len + 1] = u]
             /\ next' = [next EXCEPT ![n].len = @ + 1]
        ELSE /\ Arrays \ Referenced # {}
             /\ \E spare \in 0..Spare :
                  LET a == CHOOSE b \in Arrays : b \notin Referenced IN
                  /\ heap' = [heap EXCEPT ![a] = Elements(s) \o <<u>> \o Padding(spare)]
                  /\ next' = [next EXCEPT ![n] = [array |-> a, len |-> s.len + 1]]
  /\ todo' = Tail(todo)
  /\ UNCHANGED <<published, held, holds, known, builds>>

Publish ==
  /\ next # None /\ todo = <<>>
  /\ published' = next /\ next' = None
  /\ heap' = Collected({next, held})
  /\ UNCHANGED <<todo, held, holds, known, builds>>

(* A handler takes the published index, and is done with it. *)
Take ==
  /\ held = None
  /\ held' = published /\ holds' = Usages(published)
  /\ UNCHANGED <<heap, published, next, todo, known, builds>>

Drop ==
  /\ held # None
  /\ held' = None /\ holds' = None
  /\ heap' = Collected({published, next})
  /\ UNCHANGED <<published, next, todo, known, builds>>

(* VarsFor: the first occurrence of each name, call sites before globals.   *)
(* Mutants: a name at two sites is listed twice; the last one wins.         *)
FirstOccurrences_All(s) == s

FirstOccurrences_Last(s) ==
  LET last(i) == \A j \in i+1 .. Len(s) : VarName[s[j]] # VarName[s[i]]
      at == SetToSortSeq({i \in DOMAIN s : last(i)}, <)
  IN  [k \in DOMAIN at |-> s[at[k]]]

FirstOccurrences(s) ==
  LET keep[i \in 0 .. Len(s)] ==
        IF i = 0 THEN <<>>
        ELSE IF \E v \in Range(keep[i - 1]) : VarName[v] = VarName[s[i]] THEN keep[i - 1]
        ELSE Append(keep[i - 1], s[i])
  IN keep[Len(s)]

VarsFor(index, name) ==
  LET us == Elements(index[name])
  IN FirstOccurrences([i \in DOMAIN us |-> us[i].var] \o SetToSeq(GlobalVars))

Init ==
  /\ heap = [a \in Arrays |-> <<>>]
  /\ published = EmptyIndex /\ next = None /\ todo = <<>>
  /\ held = None /\ holds = None
  /\ known = [f \in File |-> <<>>] /\ builds = 0

Next ==
  \/ BeginWalk \/ \E f \in File : BeginReindex(f)
  \/ \E n \in Name : addUsage(n)
  \/ Publish \/ Take \/ Drop

Spec == Init /\ [][Next]_vars
-----------------------------------------------------------------------------
(* types.go:83, "safe for concurrent reads": an index that a handler took   *)
(* says what it said when it was taken, whatever is being built from it.    *)
SnapshotStable == held # None => Usages(held) = holds

(* The published index has every call site of the files it knows, each as   *)
(* often as the file has it, under its name, and no other.                  *)
SitesOf(n, text) == Kept(text, {c \in Call : c.name = n})

PublishedExact ==
  next = None =>
    \A n \in Name, f \in File :
      Kept(Elements(published[n]), {u \in Usage : u.file = f})
        = Sites(f, SitesOf(n, known[f]))

(* types.go:95-97: what completion, hover and symbols show of a view is the *)
(* union of what its call sites and the globals expose: every name once,    *)
(* with a type that some site gives it, and a global's type for those that  *)
(* no site exposes.                                                         *)
Names(vs) == {VarName[v] : v \in vs}

VarsAreUnion ==
  \A n \in Name :
    LET shown == VarsFor(published, n)
        local == {u.var : u \in Range(Elements(published[n]))}
    IN  /\ Len(shown) = Cardinality(Names(Range(shown)))
        /\ Names(Range(shown)) = Names(GlobalVars \cup local)
        /\ \A v \in Range(shown) : v \in local \/ VarName[v] \notin Names(local)
=============================================================================
