-------------------------- MODULE NavigationProofs --------------------------
(***************************************************************************)
(* Proofs about what the visitors make of a PHP document.  Documents only  *)
(* grow by a node at a time, so that the one invariant needed is that they *)
(* are trees in pre-order (Tree): every node stands below an earlier one,  *)
(* in a slot that form has, and alone in it unless it is an item.          *)
(*                                                                         *)
(* From it follows what each recursion of the model returns: the nodes     *)
(* around a node, the root of a chain of calls and the controller set last *)
(* in it, the pieces of a concatenation.  Then: all recognisers see the    *)
(* same view names; the cascade is the one that bootstrap.php declares;    *)
(* what a route leads to is said by one call; and a cursor leads where the *)
(* call, array or chain that its literal stands in says.  Each finder goes *)
(* from the outside in and takes its first match; the argument is that with*)
(* no route parameter around a literal there is one match to take.         *)
(***************************************************************************)
EXTENDS Navigation, SequenceLemmas

-----------------------------------------------------------------------------
(* Documents. *)

ItemForm == CallForm \cup {"string", "absolute", "concat", "separator"} \cup PathConstant
ItemKey == RouteKey \cup ModuleKey

AnyForm == ItemForm \cup {"Kohana::modules", "array", "Route::set", "Request"}
AnySlot == ItemKey \cup Argument \cup {"statement", "var", "left", "right"}

TreeNode == [form : AnyForm, above : Nat, slot : AnySlot]

(* Calls with one argument, and calls of which the second one counts. *)
ArgumentCall == {"View::factory", "new View", "Kohana::message", "ORM::factory"}
FileCall == {"find_file views", "find_file classes", "find_file config"}

(* What PHP lets stand below a node: its form, the slot, the form in it. *)
Shape(p, s, f) ==
  \/ p \in ArgumentCall /\ s = "arg0" /\ f \in CallForm \cup {"string"}
  \/ p = "Kohana::modules" /\ s = "arg0" /\ f \in {"array", "string"}
  \/ p \in FileCall /\ s = "arg1" /\ f \in CallForm \cup {"string"}
  \/ p = "Route::url" /\ s = "arg1" /\ f \in {"array", "string"}
  \/ p \in MethodForm /\ s = "var" /\ f \in MethodForm \cup {"Route::set", "Request"}
  \/ p = "->defaults" /\ s = "arg0" /\ f \in {"array", "string"}
  \/ p \in {"->controller", "->action"} /\ s = "arg0" /\ f \in CallForm \cup {"string"}
  \/ p = "helper" /\ s \in Argument /\ f \in CallForm \cup {"string"}
  \/ p = "concat" /\ s = "left" /\ f \in {"concat", "string", "separator"} \cup PathConstant
  \/ p = "concat" /\ s = "right" /\ f \in {"string", "separator"} \cup PathConstant
  \/ p = "array" /\ s \in ItemKey /\ f \in ItemForm

Placed(n) ==
  \/ /\ n = 1 /\ Above(n) = 0 /\ doc[n].slot = "statement"
     /\ Form(n) \in CallForm \cup {"Kohana::modules"}
  \/ Above(n) \in 1 .. n - 1 /\ Shape(Form(Above(n)), doc[n].slot, Form(n))

(* The document is a tree in pre-order in which every slot but the items of*)
(* an array is filled once.                                                *)
Tree ==
  /\ doc \in Seq(TreeNode)
  /\ \A n \in Nodes : Placed(n)
  /\ \A m, n \in Nodes :
       /\ Above(m) = Above(n) /\ doc[m].slot = doc[n].slot
       /\ Above(n) # 0 /\ Form(Above(n)) # "array"
       => m = n

LEMMA SlotsOf ==
  ASSUME NEW p
  PROVE  /\ p \in ArgumentCall \cup {"Kohana::modules"} => Slots(p) = <<"arg0">>
         /\ p \in FileCall \cup {"Route::url"} => Slots(p) = <<"arg1">>
         /\ p \in MethodForm => Slots(p) = <<"var", "arg0">>
         /\ p = "helper" => Slots(p) = <<"arg0", "arg1", "arg2">>
         /\ p = "concat" => Slots(p) = <<"left", "right">>
         /\ p \notin ArgumentCall \cup FileCall \cup MethodForm
                       \cup {"Kohana::modules", "Route::url", "helper", "concat"} => Slots(p) = <<>>
BY DEF Slots, MethodForm, ArgumentCall, FileCall

LEMMA SlotsAre ==
  ASSUME NEW p, NEW i \in DOMAIN Slots(p)
  PROVE  \/ p \in ArgumentCall \cup {"Kohana::modules"} /\ Slots(p)[i] = "arg0"
         \/ p \in FileCall \cup {"Route::url"} /\ Slots(p)[i] = "arg1"
         \/ p \in MethodForm /\ Slots(p)[i] \in {"var", "arg0"}
         \/ p = "helper" /\ Slots(p)[i] \in Argument
         \/ p = "concat" /\ Slots(p)[i] \in {"left", "right"}
<1>1. CASE p \in ArgumentCall \cup {"Kohana::modules"}
  <2>1. Slots(p) = <<"arg0">>
    BY <1>1, SlotsOf
  <2> QED BY <1>1, <2>1
<1>2. CASE p \in FileCall \cup {"Route::url"}
  <2>1. Slots(p) = <<"arg1">>
    BY <1>2, SlotsOf
  <2> QED BY <1>2, <2>1
<1>3. CASE p \in MethodForm
  <2>1. Slots(p) = <<"var", "arg0">>
    BY <1>3, SlotsOf
  <2> QED BY <1>3, <2>1
<1>4. CASE p = "helper"
  <2>1. Slots(p) = <<"arg0", "arg1", "arg2">>
    BY <1>4, SlotsOf
  <2> QED BY <1>4, <2>1 DEF Argument
<1>5. CASE p = "concat"
  <2>1. Slots(p) = <<"left", "right">>
    BY <1>5, SlotsOf
  <2> QED BY <1>5, <2>1
<1>6. CASE p \notin ArgumentCall \cup FileCall \cup MethodForm
                    \cup {"Kohana::modules", "Route::url", "helper", "concat"}
  <2>1. Slots(p) = <<>>
    BY <1>6, SlotsOf
  <2> QED BY <2>1
<1> QED BY <1>1, <1>2, <1>3, <1>4, <1>5, <1>6

LEMMA SlotsLength ==
  ASSUME NEW p
  PROVE  \E k \in Nat : DOMAIN Slots(p) = 1..k /\ Len(Slots(p)) = k
<1>1. \/ Slots(p) = <<"arg0">> \/ Slots(p) = <<"arg1">> \/ Slots(p) = <<"var", "arg0">>
      \/ Slots(p) = <<"arg0", "arg1", "arg2">> \/ Slots(p) = <<"left", "right">> \/ Slots(p) = <<>>
  BY SlotsOf
<1>2. CASE Slots(p) = <<>>
  BY <1>2
<1>3. CASE Slots(p) = <<"arg0">> \/ Slots(p) = <<"arg1">>
  <2>1. DOMAIN Slots(p) = 1..1 /\ Len(Slots(p)) = 1
    BY <1>3
  <2> QED BY <2>1
<1>4. CASE Slots(p) = <<"var", "arg0">> \/ Slots(p) = <<"left", "right">>
  <2>1. DOMAIN Slots(p) = 1..2 /\ Len(Slots(p)) = 2
    BY <1>4
  <2> QED BY <2>1
<1>5. CASE Slots(p) = <<"arg0", "arg1", "arg2">>
  BY <1>5
<1> QED BY <1>1, <1>2, <1>3, <1>4, <1>5

LEMMA FillersAre ==
  ASSUME NEW p, NEW s, NEW f \in Fillers(p, s)
  PROVE  /\ s = "var" => f \in MethodForm \cup {"Route::set", "Request"}
         /\ s = "left" => f \in {"concat", "string", "separator"} \cup PathConstant
         /\ s = "right" => f \in {"string", "separator"} \cup PathConstant
         /\ s \in Argument /\ p \in ArrayTaker => f \in {"array", "string"}
         /\ s \in Argument /\ p \notin ArrayTaker => f \in CallForm \cup {"string"}
BY DEF Fillers, Argument

LEMMA FillersFit ==
  ASSUME NEW p, NEW s, NEW i \in DOMAIN Slots(p), s = Slots(p)[i], NEW f \in Fillers(p, s)
  PROVE  Shape(p, s, f)
<1>1. CASE p \in ArgumentCall /\ s = "arg0"
  BY <1>1, FillersAre DEF ArgumentCall, ArrayTaker, Argument, Shape
<1>2. CASE p = "Kohana::modules" /\ s = "arg0"
  BY <1>2, FillersAre DEF ArrayTaker, Argument, Shape
<1>3. CASE p \in FileCall /\ s = "arg1"
  BY <1>3, FillersAre DEF FileCall, ArrayTaker, Argument, Shape
<1>4. CASE p = "Route::url" /\ s = "arg1"
  BY <1>4, FillersAre DEF ArrayTaker, Argument, Shape
<1>5. CASE p \in MethodForm /\ s = "var"
  BY <1>5, FillersAre DEF Shape
<1>6. CASE p \in MethodForm /\ s = "arg0"
  BY <1>6, FillersAre DEF MethodForm, ArrayTaker, Argument, Shape
<1>7. CASE p = "helper" /\ s \in Argument
  BY <1>7, FillersAre DEF ArrayTaker, Shape
<1>8. CASE p = "concat" /\ s \in {"left", "right"}
  BY <1>8, FillersAre DEF Shape
<1> QED BY SlotsAre, <1>1, <1>2, <1>3, <1>4, <1>5, <1>6, <1>7, <1>8

(* Forms and slots are names, and an array is filled by items only. *)
LEMMA ShapeTyped ==
  ASSUME NEW p, NEW s, NEW f, Shape(p, s, f)
  PROVE  s \in AnySlot /\ f \in AnyForm
<1>1. s \in {"arg0", "arg1", "var", "left", "right"} \cup Argument \cup ItemKey
  BY DEF Shape
<1>2. f \in CallForm \cup MethodForm \cup PathConstant \cup ItemForm
         \cup {"string", "array", "Route::set", "Request", "concat", "separator"}
  BY DEF Shape
<1> QED BY <1>1, <1>2 DEF AnySlot, AnyForm, ItemForm, Argument, CallForm

LEMMA TreeBasics ==
  ASSUME Tree
  PROVE  /\ Len(doc) \in Nat /\ Nodes = 1..Len(doc)
         /\ \A n \in Nodes : /\ n \in Nat \ {0} /\ Form(n) \in AnyForm /\ doc[n].slot \in AnySlot
                             /\ Form(n) = doc[n].form
                             /\ Above(n) \in Nat /\ Above(n) < n
                             /\ Above(n) # 0 => Above(n) \in Nodes
         /\ Form(0) = "absent"
<1>1. Len(doc) \in Nat /\ Nodes = 1..Len(doc)
  BY LenProperties DEF Tree, Nodes
<1>2. ASSUME NEW n \in Nodes
      PROVE  /\ n \in Nat \ {0} /\ Form(n) \in AnyForm /\ doc[n].slot \in AnySlot
             /\ Form(n) = doc[n].form
             /\ Above(n) \in Nat /\ Above(n) < n
             /\ Above(n) # 0 => Above(n) \in Nodes
  <2>1. n \in 1..Len(doc) /\ doc[n] \in TreeNode
    BY <1>1, ElementOfSeq DEF Tree
  <2>2. Placed(n)
    BY DEF Tree
  <2> QED BY <1>1, <2>1, <2>2 DEF TreeNode, Form, Placed, Above
<1> QED BY <1>1, <1>2 DEF Form

(* The node in a slot that is filled, and 0 in one that is not. *)
LEMMA ChildIs ==
  ASSUME Tree, NEW n, NEW slot
  PROVE  /\ Child(n, slot) \in Nodes \cup {0}
         /\ Child(n, slot) # 0 => /\ Above(Child(n, slot)) = n
                                 /\ doc[Child(n, slot)].slot = slot
                                 /\ n \in Nat /\ Child(n, slot) > n
         /\ (\E m \in Nodes : Above(m) = n /\ doc[m].slot = slot) => Child(n, slot) # 0
<1> DEFINE cs == {m \in Nodes : Above(m) = n /\ doc[m].slot = slot}
<1>1. CASE cs = {}
  <2>1. Child(n, slot) = 0
    BY <1>1 DEF Child
  <2> QED BY <1>1, <2>1
<1>2. CASE cs # {}
  <2>1. Child(n, slot) = CHOOSE m \in cs : TRUE
    BY <1>2 DEF Child
  <2>2. Child(n, slot) \in cs
    BY <1>2, <2>1
  <2>3. Child(n, slot) \in Nat \ {0}
    BY <2>2, TreeBasics
  <2> QED BY <2>2, <2>3, TreeBasics
<1> QED BY <1>1, <1>2

LEMMA OnlyChild ==
  ASSUME Tree, NEW m \in Nodes, Above(m) # 0, Form(Above(m)) # "array"
  PROVE  Child(Above(m), doc[m].slot) = m
<1> DEFINE k == Child(Above(m), doc[m].slot)
<1>1. k \in Nodes /\ Above(k) = Above(m) /\ doc[k].slot = doc[m].slot
  BY ChildIs
<1> QED BY <1>1 DEF Tree

(* What stands below a node has the shape of its form. *)
LEMMA BelowFits ==
  ASSUME Tree, NEW m \in Nodes, Above(m) # 0
  PROVE  Shape(Form(Above(m)), doc[m].slot, Form(m))
BY DEF Tree, Placed

LEMMA FirstIs ==
  ASSUME NEW T \in SUBSET Nat
  PROVE  /\ T = {} => First(T) = 0
         /\ T # {} => First(T) \in T
         /\ \A n \in T : (\A m \in T : n <= m) => First(T) = n
<1>1. CASE T = {}
  BY <1>1 DEF First
<1>2. CASE T # {}
  <2>1. PICK n \in T : \A m \in T : n <= m
    BY <1>2, LeastNat
  <2>2. First(T) = CHOOSE k \in T : \A m \in T : k <= m
    BY <1>2 DEF First
  <2>3. First(T) \in T /\ \A m \in T : First(T) <= m
    BY <2>1, <2>2
  <2>4. \A k \in T : (\A m \in T : k <= m) => First(T) = k
    <3> SUFFICES ASSUME NEW k \in T, \A m \in T : k <= m PROVE First(T) = k
      OBVIOUS
    <3>1. k <= First(T) /\ First(T) <= k
      BY <2>3
    <3>2. First(T) \in Nat /\ k \in Nat
      BY <2>3
    <3> QED BY <3>1, <3>2
  <2> QED BY <1>2, <2>3, <2>4
<1> QED BY <1>1, <1>2

(* A recursion that goes from node to node. *)
Chain(D, m, A, stop, base, next, op) ==
  /\ m \in [D -> Nat] /\ stop \in SUBSET D /\ base \in [D -> A]
  /\ next \in [D -> D] /\ op \in [D -> [A -> A]]
  /\ \A x \in D \ stop : m[next[x]] < m[x]

LEMMA ChainRecursion ==
  ASSUME NEW D, NEW m, NEW A, NEW stop, NEW base, NEW next, NEW op,
         Chain(D, m, A, stop, base, next, op)
  PROVE  \E h \in [D -> A] :
           \A x \in D : h[x] = IF x \in stop THEN base[x] ELSE op[x][h[next[x]]]
<1> USE DEF Chain
<1>1. CASE A = {}
  <2>1. D = {}
    BY <1>1
  <2> QED BY <2>1
<1>2. CASE A # {}
  <2> DEFINE step == [x \in D |-> [f \in [D -> A] |->
                        IF x \in stop THEN base[x] ELSE op[x][f[next[x]]]]]
  <2>1. step \in [D -> [[D -> A] -> A]]
    <3>1. ASSUME NEW x \in D, NEW f \in [D -> A]
          PROVE  (IF x \in stop THEN base[x] ELSE op[x][f[next[x]]]) \in A
      <4>1. f[next[x]] \in A /\ op[x] \in [A -> A] /\ base[x] \in A
        OBVIOUS
      <4> QED BY <4>1
    <3> QED BY <3>1
  <2>2. \A x \in D : \A f \in [D -> A] :
          step[x][f] = IF x \in stop THEN base[x] ELSE op[x][f[next[x]]]
    OBVIOUS
  <2> HIDE DEF step
  <2>3. ASSUME NEW x \in D, NEW f \in [D -> A], NEW g \in [D -> A],
               \A y \in D : m[y] < m[x] => f[y] = g[y]
        PROVE  step[x][f] = step[x][g]
    <3>1. x \notin stop => f[next[x]] = g[next[x]]
      <4>1. x \notin stop => next[x] \in D /\ m[next[x]] < m[x]
        OBVIOUS
      <4> QED BY <2>3, <4>1
    <3> QED BY <2>2, <3>1
  <2>4. Recursion(D, m, A, step)
    BY <1>2, <2>1, <2>3 DEF Recursion
  <2>5. \E h \in [D -> A] : \A x \in D : h[x] = step[x][h]
    BY <2>4, RecursionExists
  <2> QED BY <2>2, <2>5
<1> QED BY <1>1, <1>2

-----------------------------------------------------------------------------
(* The nodes around a node. *)

LEMMA PathUnfolds ==
  ASSUME Tree
  PROVE  \A n \in Nodes : /\ Path[n] \in SUBSET Nodes
                          /\ Path[n] = {n} \cup IF Above(n) = 0 THEN {} ELSE Path[Above(n)]
<1> DEFINE A == SUBSET Nodes
           m == [n \in Nodes |-> n]
           stop == {n \in Nodes : Above(n) = 0}
           next == [n \in Nodes |-> IF Above(n) = 0 THEN n ELSE Above(n)]
           base == [n \in Nodes |-> {n}]
           op == [n \in Nodes |-> [s \in A |-> {n} \cup s]]
<1>1. PICK h \in [Nodes -> A] :
        \A n \in Nodes : h[n] = IF n \in stop THEN base[n] ELSE op[n][h[next[n]]]
  <2>1. m \in [Nodes -> Nat] /\ next \in [Nodes -> Nodes]
    BY TreeBasics
  <2>2. base \in [Nodes -> A] /\ op \in [Nodes -> [A -> A]] /\ stop \in SUBSET Nodes
    OBVIOUS
  <2>3. \A n \in Nodes \ stop : m[next[n]] < m[n]
    BY TreeBasics
  <2> HIDE DEF A, m, stop, next, base, op
  <2>4. Chain(Nodes, m, A, stop, base, next, op)
    BY <2>1, <2>2, <2>3 DEF Chain
  <2> QED BY <2>4, ChainRecursion
<1>2. \A n \in Nodes : h[n] = {n} \cup IF Above(n) = 0 THEN {} ELSE h[Above(n)]
  <2> SUFFICES ASSUME NEW n \in Nodes
               PROVE  h[n] = {n} \cup IF Above(n) = 0 THEN {} ELSE h[Above(n)]
    OBVIOUS
  <2>1. CASE Above(n) = 0
    BY <1>1, <2>1
  <2>2. CASE Above(n) # 0
    <3>1. Above(n) \in Nodes /\ h[Above(n)] \in A
      BY <2>2, TreeBasics
    <3>2. h[n] = op[n][h[Above(n)]]
      BY <1>1, <2>2
    <3> QED BY <2>2, <3>1, <3>2
  <2> QED BY <2>1, <2>2
<1>3. h = [n \in Nodes |-> {n} \cup IF Above(n) = 0 THEN {} ELSE h[Above(n)]]
  BY <1>2
<1>4. Path = [n \in Nodes |-> {n} \cup IF Above(n) = 0 THEN {} ELSE Path[Above(n)]]
  BY <1>3 DEF Path
<1>5. \A n \in Nodes : Path[n] = {n} \cup IF Above(n) = 0 THEN {} ELSE Path[Above(n)]
  BY <1>4
<1> DEFINE P == {n \in Nodes : Path[n] \in SUBSET Nodes}
<1>6. ASSUME NEW n \in Nodes, \A k \in Nodes : m[k] < m[n] => k \in P PROVE n \in P
  BY <1>5, <1>6, TreeBasics
<1>7. m \in [Nodes -> Nat]
  BY TreeBasics
<1> HIDE DEF P, m
<1>8. Nodes \subseteq P
  BY <1>6, <1>7, InductionMeasure
<1> QED BY <1>5, <1>8 DEF P

LEMMA PathFacts ==
  ASSUME Tree
  PROVE  \A n \in Nodes :
           /\ n \in Path[n]
           /\ Path[n] \subseteq Nodes
           /\ \A k \in Path[n] : k \in Nodes /\ k <= n
           /\ \A k \in Path[n] : k # n => Above(n) # 0 /\ k \in Path[Above(n)]
           /\ \A k \in Path[n] : Above(k) # 0 => Above(k) \in Path[n]
           /\ \A k \in Path[n] : k # n => \E x \in Path[n] : Above(x) = k
<1> DEFINE m == [n \in Nodes |-> n]
           Fact(n) == /\ n \in Path[n]
                      /\ Path[n] \subseteq Nodes
                      /\ \A k \in Path[n] : k \in Nodes /\ k <= n
                      /\ \A k \in Path[n] : k # n => Above(n) # 0 /\ k \in Path[Above(n)]
                      /\ \A k \in Path[n] : Above(k) # 0 => Above(k) \in Path[n]
                      /\ \A k \in Path[n] : k # n => \E x \in Path[n] : Above(x) = k
           P == {n \in Nodes : Fact(n)}
<1>1. ASSUME NEW n \in Nodes, \A k \in Nodes : m[k] < m[n] => k \in P PROVE n \in P
  <2>1. CASE Above(n) = 0
    <3>1. Path[n] = {n}
      BY <2>1, PathUnfolds
    <3> QED BY <2>1, <3>1, TreeBasics
  <2>2. CASE Above(n) # 0
    <3> DEFINE a == Above(n)
    <3>1. Path[n] = {n} \cup Path[a]
      BY <2>2, PathUnfolds
    <3>2. a \in Nodes /\ a < n /\ a \in Nat /\ n \in Nat /\ Nodes \subseteq Nat
      BY <2>2, TreeBasics
    <3>3. Fact(a)
      BY <1>1, <3>2
    <3> HIDE DEF a
    <3>4. ASSUME NEW k \in Path[n] PROVE k \in Nodes /\ k <= n
      <4>1. CASE k = n
        BY <3>2, <4>1
      <4>2. CASE k \in Path[a]
        <5>1. k \in Nodes /\ k <= a
          BY <3>3, <4>2
        <5>2. k \in Nat
          BY <3>2, <5>1
        <5> QED BY <3>2, <5>1, <5>2
      <4> QED BY <3>1, <4>1, <4>2
    <3>5. \A k \in Path[n] : k # n => Above(n) # 0 /\ k \in Path[Above(n)]
      BY <3>1, <2>2 DEF a
    <3>6. \A k \in Path[n] : Above(k) # 0 => Above(k) \in Path[n]
      BY <3>1, <3>3 DEF a
    <3>7. \A k \in Path[n] : k # n => \E x \in Path[n] : Above(x) = k
      <4> SUFFICES ASSUME NEW k \in Path[n], k # n PROVE \E x \in Path[n] : Above(x) = k
        OBVIOUS
      <4>1. CASE k = a
        BY <3>1, <4>1 DEF a
      <4>2. CASE k # a
        BY <3>1, <3>3, <4>2
      <4> QED BY <4>1, <4>2
    <3> QED BY <3>1, <3>4, <3>5, <3>6, <3>7
  <2> QED BY <2>1, <2>2
<1>2. m \in [Nodes -> Nat]
  BY TreeBasics
<1> HIDE DEF P, m
<1>3. Nodes \subseteq P
  BY <1>1, <1>2, InductionMeasure
<1> QED BY <1>3 DEF P

(* Nothing stands below a literal. *)
LEMMA NothingBelowLiteral ==
  ASSUME Tree, NEW c \in Nodes, NEW k
  PROVE  /\ StringAt(k, c) <=> k = c /\ IsString(c)
         /\ CursorIn(k, c) => k \in Nodes /\ k # 0
<1>1. CursorIn(k, c) => k \in Nodes /\ k # 0
  BY PathFacts DEF CursorIn
<1>2. IsString(c) => StringAt(c, c)
  BY PathFacts, TreeBasics DEF StringAt, CursorIn
<1>3. ASSUME StringAt(k, c), k # c PROVE FALSE
  <2>1. PICK x \in Path[c] : Above(x) = k
    BY <1>3, PathFacts DEF StringAt, CursorIn
  <2>2. x \in Nodes /\ Form(k) = "string" /\ k # 0
    BY <1>3, <2>1, PathFacts DEF StringAt, CursorIn, IsString
  <2>3. Shape("string", doc[x].slot, Form(x))
    BY <2>1, <2>2, BelowFits
  <2> QED BY <2>3 DEF Shape, ArgumentCall, FileCall, MethodForm
<1> QED BY <1>1, <1>2, <1>3 DEF StringAt

(* Around a node there is no other node that stands where it does. *)
LEMMA OneOnTheWay ==
  ASSUME Tree, NEW c \in Nodes, NEW k \in Path[c], Above(k) = Above(c)
  PROVE  k = c
<1> SUFFICES ASSUME k # c PROVE FALSE
  OBVIOUS
<1>1. Above(c) # 0 /\ k \in Path[Above(c)]
  BY PathFacts
<1>2. Above(c) \in Nodes /\ k \in Nodes
  BY <1>1, TreeBasics, PathFacts
<1>3. k <= Above(c) /\ Above(k) < k /\ k \in Nat /\ Above(c) \in Nat
  BY <1>1, <1>2, TreeBasics, PathFacts
<1> QED BY <1>3

-----------------------------------------------------------------------------
(* Every document is such a tree. *)

LEMMA TreeGrows ==
  ASSUME Tree, NEW form \in AnyForm, NEW above \in Nat, NEW slot \in AnySlot,
         doc' = Append(doc, [form |-> form, above |-> above, slot |-> slot]),
         \/ /\ above = 0 /\ doc = <<>> /\ slot = "statement"
            /\ form \in CallForm \cup {"Kohana::modules"}
         \/ above \in Nodes /\ Shape(Form(above), slot, form)
              /\ (Form(above) = "array" \/ Child(above, slot) = 0)
  PROVE  Tree'
<1> DEFINE new == [form |-> form, above |-> above, slot |-> slot]
<1>0. PICK l \in Nat : l = Len(doc) + 1
  BY TreeBasics
<1>1. new \in TreeNode
  BY DEF TreeNode
<1>2. /\ doc' \in Seq(TreeNode) /\ Len(doc') = l /\ doc'[l] = new
      /\ \A n \in 1..Len(doc) : doc'[n] = doc[n]
  BY <1>0, <1>1, AppendProperties DEF Tree
<1>3. Len(doc) \in Nat /\ Nodes = 1..Len(doc) /\ Nodes' = Nodes \cup {l} /\ l \notin Nodes
  <2>1. Nodes' = 1..l /\ Len(doc) \in Nat /\ Nodes = 1..Len(doc)
    BY <1>2, TreeBasics, LenProperties DEF Nodes
  <2> QED BY <1>0, <2>1
<1>4. \A n \in Nodes : doc'[n] = doc[n]
  BY <1>2, <1>3
<1>5. \A n \in Nodes : Form(n)' = Form(n) /\ Above(n)' = Above(n) /\ doc'[n].slot = doc[n].slot
  BY <1>4 DEF Form, Above
<1>6. Form(l)' = form /\ Above(l)' = above /\ doc'[l].slot = slot /\ Form(0)' = Form(0)
  BY <1>2, <1>3 DEF Form, Above
<1>7. ASSUME NEW n \in Nodes' PROVE Placed(n)'
  <2>1. CASE n \in Nodes
    <3>1. Placed(n) /\ Above(n)' = Above(n)
      BY <1>5, <2>1 DEF Tree
    <3>2. CASE /\ n = 1 /\ Above(n) = 0 /\ doc[n].slot = "statement"
               /\ Form(n) \in CallForm \cup {"Kohana::modules"}
      BY <1>5, <2>1, <3>2 DEF Placed
    <3>3. CASE Above(n) \in 1 .. n - 1 /\ Shape(Form(Above(n)), doc[n].slot, Form(n))
      <4>1. Above(n) \in Nodes
        BY <1>3, <2>1, <3>3
      <4>2. Form(Above(n))' = Form(Above(n))
        BY <1>4, <3>1, <4>1 DEF Form
      <4> QED BY <1>5, <2>1, <3>1, <3>3, <4>2 DEF Placed, Shape
    <3> QED BY <3>1, <3>2, <3>3 DEF Placed
  <2>2. CASE n = l
    <3>1. CASE above = 0
      <4>1. doc = <<>> /\ slot = "statement" /\ form \in CallForm \cup {"Kohana::modules"}
        BY <1>3, <3>1
      <4>2. l = 1
        BY <1>0, <4>1, EmptySeq
      <4> QED BY <1>6, <2>2, <3>1, <4>1, <4>2 DEF Placed
    <3>2. CASE above # 0
      <4>1. above \in Nodes /\ Shape(Form(above), slot, form)
        BY <3>2
      <4>2. Form(above)' = Form(above) /\ above \in 1 .. l - 1
        BY <1>0, <1>3, <1>4, <4>1 DEF Form
      <4>3. Form(Above(l))' = Form(above)
        BY <1>6, <4>2 DEF Form
      <4> QED BY <1>6, <2>2, <4>1, <4>2, <4>3 DEF Placed, Shape
    <3> QED BY <3>1, <3>2
  <2> QED BY <1>3, <2>1, <2>2
<1>8. ASSUME NEW m \in Nodes', NEW n \in Nodes',
             Above(m)' = Above(n)', doc'[m].slot = doc'[n].slot, Above(n)' # 0,
             Form(Above(n))' # "array"
      PROVE  m = n
  <2>1. CASE m \in Nodes /\ n \in Nodes
    <3>1. Above(n) \in Nodes /\ Above(n)' = Above(n) /\ Above(m)' = Above(m)
      BY <1>5, <1>8, <2>1, TreeBasics
    <3>2. Form(Above(n))' = Form(Above(n))
      BY <1>4, <3>1 DEF Form
    <3> QED BY <1>5, <1>8, <2>1, <3>1, <3>2 DEF Tree
  <2>2. ASSUME NEW k \in Nodes, Above(k) = above, doc[k].slot = slot, above # 0,
               Form(above)' # "array"
        PROVE  FALSE
    <3>1. above \in Nodes
      BY <2>2
    <3>2. Form(above)' = Form(above)
      BY <1>4, <3>1 DEF Form
    <3>3. Child(above, slot) # 0
      BY <2>2, ChildIs
    <3> QED BY <2>2, <3>2, <3>3
  <2>3. \A k \in {m, n} : k = l => Form(Above(k))' = Form(above)'
    BY <1>6 DEF Form
  <2>4. CASE m \in Nodes /\ n = l
    BY <1>5, <1>6, <1>8, <2>2, <2>3, <2>4
  <2>5. CASE n \in Nodes /\ m = l
    <3>1. Above(n)' = above
      BY <1>6, <1>8, <2>5
    <3>2. Form(Above(n))' = Form(above)'
      BY <3>1 DEF Form
    <3> QED BY <1>5, <1>6, <1>8, <2>2, <2>5, <3>1, <3>2
  <2> QED BY <1>3, <2>1, <2>4, <2>5
<1> QED BY <1>2, <1>7, <1>8 DEF Tree

LEMMA StepTree == Tree /\ [Next]_vars => Tree'
<1> SUFFICES ASSUME Tree, [Next]_vars PROVE Tree'
  OBVIOUS
<1>1. CASE AddStatement
  <2>1. PICK form \in CallForm \cup {"Kohana::modules"} : doc = <<>> /\ Write(form, 0, "statement")
    BY <1>1 DEF AddStatement
  <2>2. form \in AnyForm /\ "statement" \in AnySlot
    BY DEF AnyForm, ItemForm, AnySlot
  <2> QED BY <2>1, <2>2, TreeGrows DEF Write
<1>2. CASE AddOperand
  <2>0. PICK n \in Path[Len(doc)] :
          /\ doc # <<>>
          /\ \E i \in DOMAIN Slots(Form(n)) :
               /\ \A j \in i..Len(Slots(Form(n))) : Child(n, Slots(Form(n))[j]) = 0
               /\ \E form \in Fillers(Form(n), Slots(Form(n))[i]) : Write(form, n, Slots(Form(n))[i])
    BY <1>2 DEF AddOperand
  <2>1. PICK i \in DOMAIN Slots(Form(n)) :
          /\ doc # <<>>
          /\ \A j \in i..Len(Slots(Form(n))) : Child(n, Slots(Form(n))[j]) = 0
          /\ \E form \in Fillers(Form(n), Slots(Form(n))[i]) : Write(form, n, Slots(Form(n))[i])
    BY <2>0
  <2>2. Len(doc) \in Nodes
    <3>1. Len(doc) # 0
      BY <2>1, EmptySeq DEF Tree
    <3> QED BY <3>1, TreeBasics
  <2>3. n \in Nodes /\ n \in Nat
    BY <2>2, PathFacts, TreeBasics
  <2> DEFINE slot == Slots(Form(n))[i]
  <2>4. PICK form \in Fillers(Form(n), slot) : Write(form, n, slot)
    BY <2>1
  <2>5. Shape(Form(n), slot, form)
    BY FillersFit
  <2>6. form \in AnyForm /\ slot \in AnySlot
    BY <2>5, ShapeTyped
  <2>7. Child(n, slot) = 0
    <3>1. i \in i..Len(Slots(Form(n)))
      <4>1. \E k \in Nat : DOMAIN Slots(Form(n)) = 1..k /\ Len(Slots(Form(n))) = k
        BY SlotsLength
      <4> QED BY <4>1
    <3> QED BY <2>1, <3>1
  <2> HIDE DEF slot
  <2> QED BY <2>3, <2>4, <2>5, <2>6, <2>7, TreeGrows DEF Write
<1>3. CASE AddRouteItem
  <2>1. PICK n \in Path[Len(doc)], key \in RouteKey, form \in CallForm \cup {"string"} :
          doc # <<>> /\ Form(n) = "array" /\ Write(form, n, key)
    BY <1>3 DEF AddRouteItem
  <2>2. Len(doc) \in Nodes
    <3>1. Len(doc) # 0
      BY <2>1, EmptySeq DEF Tree
    <3> QED BY <3>1, TreeBasics
  <2>3. n \in Nodes /\ n \in Nat
    BY <2>2, PathFacts, TreeBasics
  <2>4. Shape("array", key, form) /\ form \in AnyForm /\ key \in AnySlot
    BY DEF Shape, ItemForm, ItemKey, AnyForm, AnySlot
  <2> QED BY <2>1, <2>3, <2>4, TreeGrows DEF Write
<1>4. CASE AddModule
  <2>1. PICK n \in Path[Len(doc)], key \in ModuleKey,
             form \in {"string", "absolute", "concat", "separator"} \cup PathConstant :
          IsBootstrap /\ Form(n) = "array" /\ Write(form, n, key)
    BY <1>4 DEF AddModule
  <2>2. Len(doc) \in Nodes
    <3>1. Len(doc) # 0
      BY <2>1, EmptySeq DEF Tree, IsBootstrap
    <3> QED BY <3>1, TreeBasics
  <2>3. n \in Nodes /\ n \in Nat
    BY <2>2, PathFacts, TreeBasics
  <2>4. Shape("array", key, form) /\ form \in AnyForm /\ key \in AnySlot
    BY DEF Shape, ItemForm, ItemKey, AnyForm, AnySlot
  <2> QED BY <2>1, <2>3, <2>4, TreeGrows DEF Write
<1>5. CASE UNCHANGED vars
  BY <1>5 DEF vars, Tree, Placed, Nodes, Form, Above
<1> QED BY <1>1, <1>2, <1>3, <1>4, <1>5 DEF Next

LEMMA DocIsTree == Spec => []Tree
<1>1. Init => Tree
  <2> SUFFICES ASSUME doc = <<>> PROVE Tree
    BY DEF Init
  <2>1. doc \in Seq(TreeNode) /\ Nodes = {}
    BY EmptySeq DEF Nodes
  <2> QED BY <2>1 DEF Tree
<1> QED BY <1>1, StepTree, PTL DEF Spec

-----------------------------------------------------------------------------
(* View names. *)

(* All recognisers look at the same argument of the same calls. *)
ViewLiteral(c) == c \in Nodes /\ IsString(c) /\ \E n \in Nodes : viewNameArg(n) = c

LEMMA ViewArgument ==
  ASSUME Tree, NEW n
  PROVE  /\ viewNameArg(n) \in Nodes \cup {0}
         /\ matchArg(n) = viewNameArg(n)
         /\ viewNameArg(0) = 0
         /\ viewNameArg(n) # 0 => Form(n) \in ViewForm /\ Above(viewNameArg(n)) = n
<1>1. Form(0) = "absent"
  BY DEF Form
<1>2. /\ Form(n) \in {"View::factory", "new View"} => viewNameArg(n) = Child(n, "arg0")
      /\ Form(n) = "find_file views" => viewNameArg(n) = Child(n, "arg1")
      /\ Form(n) \notin ViewForm => viewNameArg(n) = 0
      /\ viewNameArg(0) = 0
  BY <1>1 DEF viewNameArg, ViewForm
<1>3. matchArg(n) = viewNameArg(n)
  BY DEF matchArg, viewNameArg
<1>4. viewNameArg(n) \in {0, Child(n, "arg0"), Child(n, "arg1")}
  BY <1>2 DEF ViewForm
<1>5. viewNameArg(n) \in Nodes \cup {0} /\ (viewNameArg(n) # 0 => Above(viewNameArg(n)) = n)
  BY <1>4, ChildIs
<1> QED BY <1>2, <1>3, <1>5

LEMMA RenamedAre ==
  ASSUME Tree
  PROVE  renamedLiterals = {c \in Nodes : ViewLiteral(c)}
<1> DEFINE E(n) == CASE Form(n) \in {"View::factory", "new View"} -> addEditIfMatch(Child(n, "arg0"))
                     [] Form(n) = "find_file views"               -> addEditIfMatch(Child(n, "arg1"))
                     [] OTHER                                     -> {}
<1>1. ASSUME NEW n \in Nodes PROVE E(n) = {c \in Nodes : IsString(c) /\ viewNameArg(n) = c}
  <2>0. 0 \notin Nodes
    BY TreeBasics
  <2>1. CASE Form(n) \in {"View::factory", "new View"}
    <3>1. E(n) = addEditIfMatch(viewNameArg(n))
      BY <2>1 DEF viewNameArg
    <3> QED BY <3>1 DEF addEditIfMatch
  <2>2. CASE Form(n) = "find_file views"
    <3>1. E(n) = addEditIfMatch(viewNameArg(n))
      BY <2>2 DEF viewNameArg
    <3> QED BY <3>1 DEF addEditIfMatch
  <2>3. CASE Form(n) \notin {"View::factory", "new View", "find_file views"}
    <3>1. E(n) = {} /\ viewNameArg(n) = 0
      BY <2>3 DEF viewNameArg
    <3> QED BY <2>0, <3>1
  <2> QED BY <2>1, <2>2, <2>3
<1>2. renamedLiterals = UNION {E(n) : n \in Nodes}
  BY DEF renamedLiterals
<1> HIDE DEF E
<1>3. renamedLiterals = UNION {{c \in Nodes : IsString(c) /\ viewNameArg(n) = c} : n \in Nodes}
  BY <1>1, <1>2
<1> QED BY <1>3 DEF ViewLiteral

LEMMA ExtractedAre ==
  ASSUME Tree
  PROVE  extractedNames = {c \in Nodes : ViewLiteral(c)}
<1> DEFINE E(n) == {staticCallViewName(n), findFileViewName(n), newViewName(n)}
<1>1. ASSUME NEW n \in Nodes, NEW c, c # 0
      PROVE  c \in E(n) <=> c \in Nodes /\ IsString(c) /\ viewNameArg(n) = c
  <2>1. c \in E(n) <=> IsString(c) /\ viewNameArg(n) = c
    BY <1>1 DEF staticCallViewName, findFileViewName, newViewName, viewNameArg, ScalarStringVal
  <2> QED BY <1>1, <2>1, ViewArgument
<1>2. extractedNames = (UNION {E(n) : n \in Nodes}) \ {0}
  BY DEF extractedNames
<1> HIDE DEF E
<1>3. 0 \notin Nodes
  BY TreeBasics
<1>4. ASSUME NEW c PROVE c \in extractedNames <=> c \in Nodes /\ ViewLiteral(c)
  <2>1. c \in extractedNames <=> c # 0 /\ \E n \in Nodes : c \in E(n)
    BY <1>2
  <2>2. c \in extractedNames
          <=> c # 0 /\ \E n \in Nodes : c \in Nodes /\ IsString(c) /\ viewNameArg(n) = c
    BY <1>1, <2>1
  <2> QED BY <1>3, <2>2 DEF ViewLiteral
<1> QED BY <1>4

(* A finder under a cursor finds the literal the cursor is in. *)
LEMMA ViewFound ==
  ASSUME Tree, NEW c \in Nodes
  PROVE  /\ findViewNameAtOffset(c) = IF ViewLiteral(c) THEN c ELSE 0
         /\ findViewNameLocAtOffset(c) = findViewNameAtOffset(c)
<1> DEFINE T == {n \in Nodes : StringAt(viewNameArg(n), c)}
<1>1. T \in SUBSET Nat /\ T = {n \in Nodes : StringAt(matchArg(n), c)}
  BY TreeBasics, ViewArgument
<1>2. T = {n \in Nodes : viewNameArg(n) = c /\ IsString(c)}
  BY NothingBelowLiteral
<1>3. /\ findViewNameAtOffset(c) = viewNameArg(First(T))
      /\ findViewNameLocAtOffset(c) = matchArg(First(T))
  BY <1>1 DEF findViewNameAtOffset, findViewNameLocAtOffset
<1> HIDE DEF T
<1>4. viewNameArg(First(T)) = IF ViewLiteral(c) THEN c ELSE 0
  <2>1. CASE T = {}
    <3>1. ~ViewLiteral(c)
      BY <1>2, <2>1 DEF ViewLiteral
    <3> QED BY <1>1, <2>1, <3>1, FirstIs, ViewArgument
  <2>2. CASE T # {}
    <3>1. First(T) \in T
      BY <1>1, <2>2, FirstIs
    <3> QED BY <1>2, <3>1 DEF ViewLiteral
  <2> QED BY <2>1, <2>2
<1> QED BY <1>3, <1>4, ViewArgument

(* The same literals are view names to go-to-definition, to the rename of  *)
(* the name under the cursor, to the edits of a rename and to the index    *)
(* (viewNameFinder, viewNameLocFinder, renameVisitor, extractVisitor), in  *)
(* any document.                                                           *)
THEOREM RecognisersAlwaysAgree == Spec => []RecognisersAgree
<1>1. Tree => RecognisersAgree
  <2> SUFFICES ASSUME Tree PROVE RecognisersAgree
    OBVIOUS
  <2>1. renamedLiterals = extractedNames
    BY RenamedAre, ExtractedAre
  <2>2. ASSUME NEW c \in Nodes
        PROVE  /\ findViewNameAtOffset(c) = IF c \in extractedNames THEN c ELSE 0
               /\ findViewNameLocAtOffset(c) = findViewNameAtOffset(c)
    BY ViewFound, ExtractedAre
  <2> QED BY <2>1, <2>2 DEF RecognisersAgree
<1> QED BY <1>1, DocIsTree, PTL

-----------------------------------------------------------------------------
(* The modules of bootstrap.php. *)

(* How much of the document is left below a node. *)
Left == [n \in Nodes \cup {0} |-> IF n = 0 THEN 0 ELSE Len(doc) - n + 1]

LEMMA ChildIsLess ==
  ASSUME Tree
  PROVE  /\ Left \in [Nodes \cup {0} -> Nat]
         /\ \A n \in Nodes : \A slot : /\ Child(n, slot) \in Nodes \cup {0}
                                       /\ Left[Child(n, slot)] < Left[n]
<1>1. Left \in [Nodes \cup {0} -> Nat]
  BY TreeBasics DEF Left
<1>2. ASSUME NEW n \in Nodes, NEW slot
      PROVE  Child(n, slot) \in Nodes \cup {0} /\ Left[Child(n, slot)] < Left[n]
  <2> DEFINE k == Child(n, slot)
  <2>1. k \in Nodes \cup {0} /\ (k # 0 => k > n)
    BY ChildIs
  <2> HIDE DEF k
  <2> QED BY <2>1, TreeBasics DEF Left, k
<1> QED BY <1>1, <1>2

LEMMA SuffixOfOperand ==
  ASSUME Tree, NEW n \in Nodes \cup {0}, Form(n) # "concat"
  PROVE  concatRightSuffix[n] = ScalarStringVal(n)
<1> DEFINE D == Nodes \cup {0}
           stop == {k \in D : ~(/\ Form(k) = "concat"
                                /\ Form(Child(k, "right")) \in PathConstant \cup {"separator"})}
           base == [k \in D |-> ScalarStringVal(k)]
           next == [k \in D |-> IF k = 0 THEN 0 ELSE Child(k, "left")]
           op == [k \in D |-> [v \in D |-> v]]
<1>0. Form(0) = "absent"
  BY DEF Form
<1>1. PICK h \in [D -> D] : \A k \in D : h[k] = IF k \in stop THEN base[k] ELSE op[k][h[next[k]]]
  <2>1. Left \in [D -> Nat] /\ next \in [D -> D]
    BY ChildIsLess
  <2>2. base \in [D -> D] /\ op \in [D -> [D -> D]] /\ stop \in SUBSET D
    BY DEF ScalarStringVal
  <2>3. ASSUME NEW k \in D \ stop PROVE Left[next[k]] < Left[k]
    <3>1. k \in Nodes
      BY <1>0
    <3>2. k # 0 /\ next[k] = Child(k, "left")
      BY <3>1, TreeBasics
    <3> QED BY <3>1, <3>2, ChildIsLess
  <2> HIDE DEF D, stop, base, next, op
  <2>4. Chain(D, Left, D, stop, base, next, op)
    BY <2>1, <2>2, <2>3 DEF Chain
  <2> QED BY <2>4, ChainRecursion
<1> DEFINE F(f) == [k \in D |->
IF IsString(k) THEN k
              ELSE IF Form(k) = "concat" /\ Form(Child(k, "right")) \in PathConstant \cup {"separator"}
              THEN f[Child(k, "left")] ELSE 0]
<1>2. h = F(h)
  <2> SUFFICES ASSUME NEW k \in D PROVE h[k] = F(h)[k]
    OBVIOUS
  <2>1. CASE k \in stop
    <3>1. h[k] = base[k] /\ base[k] = ScalarStringVal(k)
      BY <1>1, <2>1
    <3>2. CASE Form(k) = "string"
      BY <3>1, <3>2 DEF ScalarStringVal, IsString
    <3>3. CASE Form(k) # "string"
      BY <2>1, <3>1, <3>3 DEF ScalarStringVal, IsString
    <3> QED BY <3>2, <3>3
  <2>2. CASE k \notin stop
    <3>1. Form(k) = "concat" /\ Form(Child(k, "right")) \in PathConstant \cup {"separator"}
      BY <2>2
    <3>2. k # 0 /\ next[k] = Child(k, "left") /\ Child(k, "left") \in D
      BY <1>0, <3>1, ChildIsLess
    <3>3. h[k] = h[Child(k, "left")]
      BY <1>1, <2>2, <3>2
    <3> QED BY <3>1, <3>3 DEF IsString
  <2> QED BY <2>1, <2>2
<1>4. concatRightSuffix = F(concatRightSuffix)
  BY <1>2 DEF concatRightSuffix
<1>5. concatRightSuffix[n] = F(concatRightSuffix)[n]
  BY <1>4
<1>6. CASE Form(n) = "string"
  BY <1>5, <1>6 DEF ScalarStringVal, IsString
<1>7. CASE Form(n) # "string"
  BY <1>5, <1>7 DEF ScalarStringVal, IsString
<1> QED BY <1>6, <1>7

LEMMA PiecesUnfold ==
  ASSUME Tree
  PROVE  \A n \in Nodes \cup {0} :
           /\ Form(n) # "concat" => Pieces[n] = <<n>>
           /\ Form(n) = "concat" => Pieces[n] = Pieces[Child(n, "left")] \o Pieces[Child(n, "right")]
           /\ Pieces[n] \in Seq(Nodes \cup {0})
<1> DEFINE D == Nodes \cup {0}
           A == Seq(D)
           step == [n \in D |-> [f \in [D -> A] |->
                      IF Form(n) = "concat" THEN f[Child(n, "left")] \o f[Child(n, "right")]
                      ELSE <<n>>]]
<1>0. Form(0) = "absent"
  BY DEF Form
<1>1. ASSUME NEW n \in D, NEW f \in [D -> A]
      PROVE  (IF Form(n) = "concat" THEN f[Child(n, "left")] \o f[Child(n, "right")] ELSE <<n>>) \in A
  <2>1. <<n>> \in A
    OBVIOUS
  <2>2. CASE Form(n) = "concat"
    <3>1. Child(n, "left") \in D /\ Child(n, "right") \in D
      BY <1>0, <2>2, ChildIsLess
    <3>2. f[Child(n, "left")] \in A /\ f[Child(n, "right")] \in A
      BY <3>1
    <3> HIDE DEF A
    <3> QED BY <2>2, <3>2, ConcatProperties DEF A
  <2> QED BY <2>1, <2>2
<1> HIDE DEF A
<1>2. step \in [D -> [[D -> A] -> A]]
  BY <1>1
<1>3. \A n \in D : \A f \in [D -> A] :
        step[n][f] = IF Form(n) = "concat" THEN f[Child(n, "left")] \o f[Child(n, "right")] ELSE <<n>>
  OBVIOUS
<1> HIDE DEF step
<1>4. ASSUME NEW n \in D, NEW f \in [D -> A], NEW g \in [D -> A],
             \A k \in D : Left[k] < Left[n] => f[k] = g[k]
      PROVE  step[n][f] = step[n][g]
  <2>1. CASE Form(n) = "concat"
    <3>1. n \in Nodes
      BY <1>0, <2>1
    <3>2. f[Child(n, "left")] = g[Child(n, "left")] /\ f[Child(n, "right")] = g[Child(n, "right")]
      BY <1>4, <3>1, ChildIsLess
    <3> QED BY <1>3, <3>2
  <2>2. CASE Form(n) # "concat"
    BY <1>3, <2>2
  <2> QED BY <2>1, <2>2
<1>5. PICK h \in [D -> A] : \A n \in D : h[n] = step[n][h]
  <2>1. A # {}
    BY EmptySeq DEF A
  <2>2. Recursion(D, Left, A, step)
    BY <1>2, <1>4, <2>1, ChildIsLess DEF Recursion
  <2> QED BY <2>2, RecursionExists
<1> DEFINE F(f) == [n \in D |->
              IF Form(n) = "concat" THEN f[Child(n, "left")] \o f[Child(n, "right")] ELSE <<n>>]
<1>6. h = F(h)
  BY <1>3, <1>5
<1>7. Pieces = CHOOSE f : f = F(f)
  BY DEF Pieces
<1>8. Pieces = F(Pieces)
  BY <1>6, <1>7
<1>9. \A n \in D : Pieces[n] = IF Form(n) = "concat"
                               THEN Pieces[Child(n, "left")] \o Pieces[Child(n, "right")] ELSE <<n>>
  BY <1>8
<1> DEFINE P == {n \in D : Pieces[n] \in A}
<1>10. ASSUME NEW n \in D, \A k \in D : Left[k] < Left[n] => k \in P PROVE n \in P
  <2>1. CASE Form(n) = "concat"
    <3>1. n \in Nodes
      BY <1>0, <2>1
    <3>2. Pieces[Child(n, "left")] \in A /\ Pieces[Child(n, "right")] \in A
      BY <1>10, <3>1, ChildIsLess
    <3>3. Pieces[Child(n, "left")] \o Pieces[Child(n, "right")] \in A
      BY <3>2, ConcatProperties DEF A
    <3> QED BY <1>9, <2>1, <3>3
  <2>2. CASE Form(n) # "concat"
    <3>1. <<n>> \in A
      BY DEF A
    <3> QED BY <1>9, <2>2, <3>1
  <2> QED BY <2>1, <2>2
<1> HIDE DEF P
<1>11. D \subseteq P
  BY <1>10, ChildIsLess, InductionMeasure
<1> QED BY <1>9, <1>11 DEF P, A

LEMMA PiecesAreSome ==
  ASSUME Tree
  PROVE  \A n \in Nodes \cup {0} : Pieces[n] \in Seq(Nodes \cup {0}) /\ Len(Pieces[n]) \in Nat \ {0}
<1> DEFINE D == Nodes \cup {0}
           P == {n \in D : Len(Pieces[n]) \in Nat \ {0}}
<1>0. Form(0) = "absent"
  BY DEF Form
<1>1. ASSUME NEW n \in D, \A k \in D : Left[k] < Left[n] => k \in P PROVE n \in P
  <2>1. CASE Form(n) = "concat"
    <3>1. n \in Nodes
      BY <1>0, <2>1
    <3> DEFINE a == Child(n, "left")
               b == Child(n, "right")
    <3>2. a \in D /\ b \in D /\ Left[a] < Left[n] /\ Left[b] < Left[n]
      BY <3>1, ChildIsLess
    <3>3. Pieces[n] = Pieces[a] \o Pieces[b]
      BY <2>1, PiecesUnfold
    <3> HIDE DEF a, b
    <3>4. /\ Pieces[a] \in Seq(D) /\ Pieces[b] \in Seq(D)
          /\ Len(Pieces[a]) \in Nat \ {0} /\ Len(Pieces[b]) \in Nat \ {0}
      BY <1>1, <3>2, PiecesUnfold
    <3>5. Len(Pieces[n]) = Len(Pieces[a]) + Len(Pieces[b])
      BY <3>3, <3>4, ConcatProperties
    <3>6. \A x, y \in Nat \ {0} : x + y \in Nat \ {0}
      OBVIOUS
    <3>7. Len(Pieces[n]) \in Nat \ {0}
      BY <3>4, <3>5, <3>6
    <3> QED BY <3>7
  <2>2. CASE Form(n) # "concat"
    <3>1. Pieces[n] = <<n>>
      BY <2>2, PiecesUnfold
    <3> QED BY <3>1
  <2> QED BY <2>1, <2>2
<1> HIDE DEF P
<1>2. D \subseteq P
  BY <1>1, ChildIsLess, InductionMeasure
<1> QED BY <1>2, PiecesUnfold DEF P

LEMMA PairIsConcat ==
  ASSUME NEW S, NEW l \in S, NEW r \in S
  PROVE  <<l>> \o <<r>> = <<l, r>>
<1>1. /\ <<l>> \in Seq(S) /\ Len(<<l>>) = 1 /\ <<l>>[1] = l
      /\ <<r>> \in Seq(S) /\ Len(<<r>>) = 1 /\ <<r>>[1] = r
      /\ <<l, r>> \in Seq(S) /\ Len(<<l, r>>) = 2 /\ <<l, r>>[1] = l /\ <<l, r>>[2] = r
  OBVIOUS
<1>2. /\ <<l>> \o <<r>> \in Seq(S) /\ Len(<<l>> \o <<r>>) = 2
      /\ (<<l>> \o <<r>>)[1] = l /\ (<<l>> \o <<r>>)[2] = r
  BY <1>1, ConcatProperties
<1>3. \A i \in 1..2 : (<<l>> \o <<r>>)[i] = <<l, r>>[i]
  BY <1>1, <1>2
<1> QED BY <1>1, <1>2, <1>3, SeqEqual

(* A module's directory, read off the expression and as PHP computes it. *)
LEMMA DirectoryIsResolved ==
  ASSUME Tree, NEW n \in Nodes
  PROVE  Directory(Pieces[n]) = resolveModulePath(n)
<1> DEFINE l == Child(n, "left")
           r == Child(n, "right")
<1>0. Form(0) = "absent" /\ n # 0 /\ \A k : IsString(k) <=> Form(k) = "string"
  BY TreeBasics DEF Form, IsString
<1>1. CASE Form(n) # "concat"
  <2>1. Pieces[n] = <<n>>
    BY <1>1, PiecesUnfold
  <2>2. Len(<<n>>) = 1 /\ <<n>>[1] = n
    OBVIOUS
  <2>3. Directory(<<n>>) = IF IsString(n) THEN Dir("DOCROOT", n)
                           ELSE IF Form(n) = "absolute" THEN Dir("absolute", n) ELSE NoDir
    BY <1>0, <2>2 DEF Directory
  <2>4. resolveModulePath(n) = IF IsString(n) THEN Dir("DOCROOT", n)
                               ELSE IF Form(n) = "absolute" THEN Dir("absolute", n) ELSE NoDir
    BY <1>0, <1>1 DEF resolveModulePath
  <2> QED BY <2>1, <2>3, <2>4
<1>2. CASE Form(n) = "concat"
  <2>1. l \in Nodes \cup {0} /\ r \in Nodes \cup {0}
    BY ChildIs
  <2>2. Form(r) # "concat"
    <3>1. CASE r = 0
      BY <1>0, <3>1
    <3>2. CASE r # 0
      <4>1. r \in Nodes /\ Above(r) = n /\ doc[r].slot = "right"
        BY <2>1, <3>2, ChildIs
      <4>2. Shape("concat", "right", Form(r))
        BY <1>0, <1>2, <4>1, BelowFits
      <4> QED BY <4>2 DEF Shape, ArgumentCall, FileCall, MethodForm, PathConstant
    <3> QED BY <3>1, <3>2
  <2>3. Pieces[n] = Pieces[l] \o <<r>> /\ Pieces[l] \in Seq(Nodes \cup {0})
    BY <1>2, <2>1, <2>2, PiecesUnfold
  <2>4. /\ resolveModulePath(n) = IF resolveConstBase(l) # "none" /\ IsString(r)
                                  THEN Dir(resolveConstBase(l), r) ELSE NoDir
    <3>1. concatRightSuffix[r] = ScalarStringVal(r)
      BY <2>1, <2>2, SuffixOfOperand
    <3>2. ScalarStringVal(r) # 0 <=> IsString(r)
      BY <1>0 DEF ScalarStringVal
    <3>3. IsString(r) => ScalarStringVal(r) = r
      BY DEF ScalarStringVal
    <3> QED BY <1>2, <3>1, <3>2, <3>3 DEF resolveModulePath
  <2> HIDE DEF l, r
  <2>5. CASE Form(l) # "concat"
    <3>1. Pieces[n] = <<l, r>>
      <4>1. Pieces[l] = <<l>>
        BY <2>1, <2>5, PiecesUnfold DEF l
      <4>2. <<l>> \o <<r>> = <<l, r>>
        BY <2>1, PairIsConcat DEF l, r
      <4> QED BY <2>3, <4>1, <4>2
    <3>2. Len(<<l, r>>) = 2 /\ <<l, r>>[1] = l /\ <<l, r>>[2] = r
      OBVIOUS
    <3>3. Directory(<<l, r>>) = IF Form(l) \in PathConstant /\ IsString(r)
                                THEN Dir(Form(l), r) ELSE NoDir
      BY <3>2 DEF Directory
    <3>4. /\ Form(l) \in PathConstant => resolveConstBase(l) = Form(l) /\ Form(l) # "none"
          /\ Form(l) \notin PathConstant => resolveConstBase(l) = "none"
      BY DEF resolveConstBase, PathConstant
    <3> QED BY <2>4, <3>1, <3>3, <3>4
  <2>6. CASE Form(l) = "concat"
    <3>1. resolveModulePath(n) = NoDir
      BY <2>4, <2>6 DEF resolveConstBase, PathConstant
    <3>2. Len(Pieces[n]) \notin {1, 2}
      <4> DEFINE a == Child(l, "left")
                 b == Child(l, "right")
      <4>1. l \in Nodes /\ a \in Nodes \cup {0} /\ b \in Nodes \cup {0}
        BY <1>0, <2>1, <2>6, ChildIs
      <4>2. Pieces[l] = Pieces[a] \o Pieces[b]
        BY <2>6, <4>1, PiecesUnfold
      <4>3. \A k \in Nodes \cup {0} : Pieces[k] \in Seq(Nodes \cup {0}) /\ Len(Pieces[k]) \in Nat \ {0}
        BY PiecesAreSome
      <4> HIDE DEF a, b
      <4>4. Len(Pieces[l]) = Len(Pieces[a]) + Len(Pieces[b])
        BY <4>1, <4>2, <4>3, ConcatProperties
      <4>5. <<r>> \in Seq(Nodes \cup {0}) /\ Len(<<r>>) = 1
        BY <2>1 DEF l, r
      <4>6. Len(Pieces[n]) = Len(Pieces[l]) + 1
        BY <2>3, <4>5, ConcatProperties
      <4>7. Len(Pieces[a]) \in Nat \ {0} /\ Len(Pieces[b]) \in Nat \ {0}
        BY <4>1, <4>3
      <4>8. \A x, y \in Nat \ {0} : x + y + 1 \notin {1, 2}
        OBVIOUS
      <4> QED BY <4>4, <4>6, <4>7, <4>8
    <3>3. Directory(Pieces[n]) = NoDir
      BY <3>2 DEF Directory
    <3> QED BY <3>1, <3>3
  <2> QED BY <2>5, <2>6
<1> QED BY <1>1, <1>2

(* What is kept of a mapped sequence is mapped from what is kept. *)
Image(f, s) == [i \in DOMAIN s |-> f[s[i]]]

Maps(f, S, R) == f \in [S -> R]

LEMMA ImageAppend ==
  ASSUME NEW S, NEW R, NEW f, Maps(f, S, R), NEW s \in Seq(S), NEW x \in S
  PROVE  /\ Image(f, <<>>) = <<>>
         /\ Image(f, s) \in Seq(R)
         /\ Image(f, Append(s, x)) = Append(Image(f, s), f[x])
<1> DEFINE a == Image(f, s)
           b == Image(f, Append(s, x))
<1> USE DEF Maps
<1>0. Image(f, <<>>) = <<>>
  BY DEF Image
<1>1. /\ DOMAIN s = 1..Len(s) /\ Len(s) \in Nat
      /\ \A i \in 1..Len(s) : s[i] \in S
  BY LenProperties, ElementOfSeq
<1>2. /\ Append(s, x) \in Seq(S) /\ Len(Append(s, x)) = Len(s) + 1
      /\ \A i \in 1..Len(s) : Append(s, x)[i] = s[i]
      /\ Append(s, x)[Len(s) + 1] = x
  BY AppendProperties
<1>3. DOMAIN Append(s, x) = 1..(Len(s) + 1)
  BY <1>2, LenProperties
<1>4. a \in [1..Len(s) -> R] /\ \A i \in 1..Len(s) : a[i] = f[s[i]]
  BY <1>1 DEF Image
<1>5. /\ b \in [1..(Len(s) + 1) -> R]
      /\ \A i \in 1..(Len(s) + 1) : b[i] = f[Append(s, x)[i]]
  <2>1. \A i \in 1..(Len(s) + 1) : Append(s, x)[i] \in S
    BY <1>2, ElementOfSeq
  <2> QED BY <1>3, <2>1 DEF Image
<1> HIDE DEF a, b
<1>6. a \in Seq(R) /\ Len(a) = Len(s) /\ b \in Seq(R) /\ Len(b) = Len(s) + 1
  BY <1>1, <1>4, <1>5
<1>7. PICK y \in R : y = f[x]
  OBVIOUS
<1>8. /\ Append(a, y) \in Seq(R) /\ Len(Append(a, y)) = Len(s) + 1
      /\ \A i \in 1..Len(s) : Append(a, y)[i] = a[i]
      /\ Append(a, y)[Len(s) + 1] = y
  BY <1>6, AppendProperties
<1>9. \A i \in 1..(Len(s) + 1) : b[i] = Append(a, y)[i]
  BY <1>1, <1>2, <1>4, <1>5, <1>7, <1>8
<1>10. b = Append(a, y)
  BY <1>6, <1>8, <1>9, SeqEqual
<1> QED BY <1>0, <1>6, <1>7, <1>10 DEF a, b

LEMMA KeptImage ==
  ASSUME NEW S, NEW R, NEW f, Maps(f, S, R), NEW s \in Seq(S), NEW T
  PROVE  Kept(Image(f, s), T) = Image(f, Kept(s, {x \in S : f[x] \in T}))
<1> DEFINE U == {x \in S : f[x] \in T}
           P == {t \in Seq(S) : Kept(Image(f, t), T) = Image(f, Kept(t, U))}
<1>0. \A t \in Seq(S) : \A x \in S :
        Image(f, t) \in Seq(R) /\ Image(f, Append(t, x)) = Append(Image(f, t), f[x])
  BY ImageAppend
<1>1. <<>> \in P
  <2>1. Kept(<<>>, T) = <<>> /\ Kept(<<>>, U) = <<>> /\ Image(f, <<>>) = <<>>
    BY KeptEmpty DEF Image
  <2> QED BY <2>1, EmptySeq
<1>2. ASSUME NEW t \in Seq(S), NEW x \in S, t \in P PROVE Append(t, x) \in P
  <2>1. Append(t, x) \in Seq(S)
    BY AppendProperties
  <2>2. Image(f, t) \in Seq(R) /\ Image(f, Append(t, x)) = Append(Image(f, t), f[x])
    BY <1>0
  <2>3. PICK y \in R : y = f[x]
    BY DEF Maps
  <2>4. Kept(Append(Image(f, t), y), T)
          = IF y \in T THEN Append(Kept(Image(f, t), T), y) ELSE Kept(Image(f, t), T)
    BY <2>2, KeptAppend
  <2>5. Kept(Append(t, x), U) = IF x \in U THEN Append(Kept(t, U), x) ELSE Kept(t, U)
    BY KeptAppend
  <2>6. Kept(t, U) \in Seq(S)
    BY KeptIn
  <2>7. Image(f, Append(Kept(t, U), x)) = Append(Image(f, Kept(t, U)), f[x])
    BY <1>0, <2>6
  <2>8. x \in U <=> y \in T
    BY <2>3
  <2>9. Kept(Image(f, t), T) = Image(f, Kept(t, U))
    BY <1>2
  <2> HIDE DEF U
  <2>10. Kept(Image(f, Append(t, x)), T) = Image(f, Kept(Append(t, x), U))
    BY <2>2, <2>3, <2>4, <2>5, <2>7, <2>8, <2>9
  <2> QED BY <2>1, <2>10
<1> HIDE DEF P
<1>3. s \in P
  BY <1>1, <1>2, InductionAppend
<1> QED BY <1>3 DEF P

LEMMA ItemsAreNodes ==
  ASSUME Tree, NEW n
  PROVE  Items(n) \in Seq(Nodes)
<1> DEFINE s == [i \in Nodes |-> i]
<1>1. s \in Seq(Nodes)
  BY TreeBasics
<1> QED BY <1>1, KeptIn DEF Items

(* What the server reads off the items of the array, and what PHP makes of *)
(* them as far as it knows the directories.                                *)
LEMMA SameDirectories ==
  ASSUME Tree, NEW items \in Seq(Nodes)
  PROVE  LET values == Kept(items, {n \in Nodes : doc[n].slot # "none"})
             dirs == [i \in DOMAIN values |-> Directory(Pieces[values[i]])]
         IN  [i \in DOMAIN Enabled(items) |-> resolveModulePath(Enabled(items)[i])]
               = Kept(dirs, Range(dirs) \ {NoDir})
<1> DEFINE keyed == {n \in Nodes : doc[n].slot # "none"}
           values == Kept(items, keyed)
           D == [n \in Nodes |-> Directory(Pieces[n])]
           R == {D[n] : n \in Nodes}
           dirs == [i \in DOMAIN values |-> Directory(Pieces[values[i]])]
           T == Range(dirs) \ {NoDir}
           known == {n \in Nodes : D[n] # NoDir}
           E == Enabled(items)
<1>1. values \in Seq(Nodes) /\ \A i \in DOMAIN values : values[i] \in Nodes
  <2>1. values \in Seq(Nodes)
    BY KeptIn
  <2> QED BY <2>1, ElementOfSeq, LenProperties
<1>2. D \in [Nodes -> R] /\ \A n \in Nodes : D[n] = resolveModulePath(n)
  BY DirectoryIsResolved
<1>3. dirs = Image(D, values)
  <2> HIDE DEF values
  <2> QED BY <1>1 DEF Image
<1>4. E = Kept(values, known)
  <2>1. keyed \cap known = {n \in Nodes : doc[n].slot # "none" /\ resolveModulePath(n) # NoDir}
    BY <1>2
  <2>2. E = Kept(items, keyed \cap known)
    BY <2>1 DEF Enabled
  <2> HIDE DEF keyed, known
  <2> QED BY <2>2, KeptKept
<1>5. E \in Seq(Nodes)
  <2> HIDE DEF values
  <2> QED BY <1>1, <1>4, KeptIn
<1>6. [i \in DOMAIN E |-> resolveModulePath(E[i])] = Image(D, E)
  <2>1. \A i \in DOMAIN E : E[i] \in Nodes
    BY <1>5, ElementOfSeq, LenProperties
  <2> HIDE DEF E
  <2>2. \A i \in DOMAIN E : resolveModulePath(E[i]) = D[E[i]]
    BY <1>2, <2>1
  <2> QED BY <2>2 DEF Image
<1>7. Kept(Image(D, values), T) = Image(D, Kept(values, {n \in Nodes : D[n] \in T}))
  <2>1. Maps(D, Nodes, R)
    BY <1>2 DEF Maps
  <2> HIDE DEF D, T, values, R
  <2> QED BY <1>1, <2>1, KeptImage
<1>8. Kept(values, {n \in Nodes : D[n] \in T}) = Kept(values, known)
  <2> DEFINE S == {values[i] : i \in DOMAIN values}
  <2>1. values \in Seq(S)
    <3> HIDE DEF values
    <3> QED BY <1>1, ElementsOfSeq
  <2>2. S \cap {n \in Nodes : D[n] \in T} = S \cap known
    <3> SUFFICES ASSUME NEW i \in DOMAIN values
                 PROVE  D[values[i]] \in T <=> D[values[i]] # NoDir
      BY <1>1
    <3>1. dirs[i] = D[values[i]] /\ dirs[i] \in Range(dirs)
      BY <1>1 DEF Range
    <3> QED BY <3>1
  <2> DEFINE U == {n \in Nodes : D[n] \in T}
  <2> HIDE DEF S, values, T, known, U
  <2>3. S \cap U = S \cap known
    BY <2>2 DEF U
  <2>4. Kept(values, U) = Kept(values, known)
    BY <2>1, <2>3, KeptSame
  <2> QED BY <2>4 DEF U
<1> HIDE DEF E, dirs, values, D, T, known
<1>9. [i \in DOMAIN E |-> resolveModulePath(E[i])] = Kept(dirs, T)
  BY <1>3, <1>4, <1>6, <1>7, <1>8
<1> QED BY <1>9 DEF E, dirs, values, T

(* CascadeAsDeclared: in any bootstrap.php that declares its modules in an *)
(* array, the files of a class or a message are those Kohana finds, in the *)
(* order it looks for them, for any modules, names and directories         *)
(* (ParseModules, resolveModulePath, BuildCascadeBases, FindCascadeFiles). *)
THEOREM CascadeIsAsDeclared == Spec => []CascadeAsDeclared
<1>1. Tree => CascadeAsDeclared
  <2> SUFFICES ASSUME Tree, DeclaresModules PROVE BuildCascadeBases(ParseModules) = CascadeOfPhp
    BY DEF CascadeAsDeclared, FindCascadeFiles
  <2> DEFINE array == Child(1, "arg0")
             items == Enabled(Items(array))
  <2>1. 1 \in Nodes /\ Form(1) = "Kohana::modules" /\ Form(array) = "array"
    <3>1. Len(doc) # 0 /\ Form(1) = "Kohana::modules" /\ Form(array) = "array"
      BY EmptySeq DEF DeclaresModules, IsBootstrap, Tree
    <3> QED BY <3>1, TreeBasics
  <2>2. First({n \in Nodes : Form(n) = "Kohana::modules"}) = 1
    <3>1. {n \in Nodes : Form(n) = "Kohana::modules"} \in SUBSET Nat
          /\ \A n \in Nodes : 1 <= n
      BY TreeBasics
    <3> QED BY <2>1, <3>1, FirstIs
  <2>3. ParseModules = [i \in DOMAIN items |->
                          [name |-> doc[items[i]].slot, path |-> resolveModulePath(items[i])]]
    BY <2>1, <2>2 DEF ParseModules
  <2>4. [i \in DOMAIN ParseModules |-> ParseModules[i].path]
          = [i \in DOMAIN items |-> resolveModulePath(items[i])]
    <3> HIDE DEF items
    <3> QED BY <2>3
  <2>5. Items(array) \in Seq(Nodes)
    BY ItemsAreNodes
  <2> QED BY <2>4, <2>5, SameDirectories DEF BuildCascadeBases, CascadeOfPhp
<1> QED BY <1>1, DocIsTree, PTL

-----------------------------------------------------------------------------
(* Chains of calls. *)

LEMMA NoFormOfNothing ==
  /\ Form(0) = "absent" /\ Form(0) \notin MethodForm /\ ~IsString(0)
  /\ \A n : IsString(n) <=> Form(n) = "string"
BY DEF Form, MethodForm, IsString

LEMMA RootUnfolds ==
  ASSUME Tree
  PROVE  \A n \in Nodes \cup {0} :
           /\ chainVarRoot[n] \in Nodes \cup {0}
           /\ chainVarRoot[n] = IF Form(n) \in MethodForm THEN chainVarRoot[Child(n, "var")] ELSE n
<1> DEFINE D == Nodes \cup {0}
           stop == {n \in D : Form(n) \notin MethodForm}
           base == [n \in D |-> n]
           next == [n \in D |-> IF n = 0 THEN 0 ELSE Child(n, "var")]
           op == [n \in D |-> [v \in D |-> v]]
<1>0. \A n \in D : Form(n) \in MethodForm => /\ n \in Nodes /\ n # 0
                                             /\ Child(n, "var") \in D
                                             /\ Left[Child(n, "var")] < Left[n]
  BY NoFormOfNothing, ChildIsLess, TreeBasics
<1>1. PICK h \in [D -> D] : \A n \in D : h[n] = IF n \in stop THEN base[n] ELSE op[n][h[next[n]]]
  <2>1. Left \in [D -> Nat] /\ next \in [D -> D]
    BY ChildIsLess
  <2>2. base \in [D -> D] /\ op \in [D -> [D -> D]] /\ stop \in SUBSET D
    OBVIOUS
  <2>3. \A n \in D \ stop : Left[next[n]] < Left[n]
    BY <1>0
  <2> HIDE DEF D, stop, base, next, op
  <2>4. Chain(D, Left, D, stop, base, next, op)
    BY <2>1, <2>2, <2>3 DEF Chain
  <2> QED BY <2>4, ChainRecursion
<1>2. \A n \in D : h[n] = IF Form(n) \in MethodForm THEN h[Child(n, "var")] ELSE n
  <2> SUFFICES ASSUME NEW n \in D
               PROVE  h[n] = IF Form(n) \in MethodForm THEN h[Child(n, "var")] ELSE n
    OBVIOUS
  <2>1. CASE Form(n) \in MethodForm
    <3>1. n # 0 /\ Child(n, "var") \in D /\ h[Child(n, "var")] \in D
      BY <1>0, <2>1
    <3> QED BY <1>1, <2>1, <3>1
  <2>2. CASE Form(n) \notin MethodForm
    BY <1>1, <2>2
  <2> QED BY <2>1, <2>2
<1>3. h = [n \in D |-> IF Form(n) \in MethodForm THEN h[Child(n, "var")] ELSE n]
  BY <1>2
<1>4. chainVarRoot = [n \in D |-> IF Form(n) \in MethodForm THEN chainVarRoot[Child(n, "var")] ELSE n]
  BY <1>3 DEF chainVarRoot
<1>5. \A n \in D : chainVarRoot[n] = IF Form(n) \in MethodForm THEN chainVarRoot[Child(n, "var")] ELSE n
  BY <1>4
<1> DEFINE P == {n \in D : chainVarRoot[n] \in D}
<1>6. ASSUME NEW n \in D, \A k \in D : Left[k] < Left[n] => k \in P PROVE n \in P
  BY <1>0, <1>5, <1>6
<1> HIDE DEF P
<1>7. D \subseteq P
  BY <1>6, ChildIsLess, InductionMeasure
<1> QED BY <1>5, <1>7 DEF P

LEMMA MethodStringUnfolds ==
  ASSUME Tree
  PROVE  \A n \in Nodes \cup {0} :
           chainMethodString[n] =
             IF Form(n) \notin MethodForm THEN 0
             ELSE IF Form(n) = "->controller" /\ Child(n, "arg0") # 0
             THEN ScalarStringVal(Child(n, "arg0"))
             ELSE chainMethodString[Child(n, "var")]
<1> DEFINE D == Nodes \cup {0}
           sets(n) == Form(n) = "->controller" /\ Child(n, "arg0") # 0
           stop == {n \in D : Form(n) \notin MethodForm \/ sets(n)}
           base == [n \in D |-> IF sets(n) THEN ScalarStringVal(Child(n, "arg0")) ELSE 0]
           next == [n \in D |-> IF n = 0 THEN 0 ELSE Child(n, "var")]
           op == [n \in D |-> [v \in D |-> v]]
<1>0. \A n \in D : Form(n) \in MethodForm => /\ n \in Nodes /\ n # 0
                                             /\ Child(n, "var") \in D
                                             /\ Left[Child(n, "var")] < Left[n]
  BY NoFormOfNothing, ChildIsLess, TreeBasics
<1>1. PICK h \in [D -> D] : \A n \in D : h[n] = IF n \in stop THEN base[n] ELSE op[n][h[next[n]]]
  <2>1. Left \in [D -> Nat] /\ next \in [D -> D]
    BY ChildIsLess
  <2>2. base \in [D -> D] /\ op \in [D -> [D -> D]] /\ stop \in SUBSET D
    BY ChildIs DEF ScalarStringVal
  <2>3. \A n \in D \ stop : Left[next[n]] < Left[n]
    BY <1>0
  <2> HIDE DEF D, stop, base, next, op
  <2>4. Chain(D, Left, D, stop, base, next, op)
    BY <2>1, <2>2, <2>3 DEF Chain
  <2> QED BY <2>4, ChainRecursion
<1> DEFINE F(f) == [n \in D |-> IF Form(n) \notin MethodForm THEN 0
                               ELSE IF Form(n) = "->controller" /\ Child(n, "arg0") # 0
                               THEN ScalarStringVal(Child(n, "arg0"))
                               ELSE f[Child(n, "var")]]
<1>2. \A n \in D : h[n] = F(h)[n]
  <2> SUFFICES ASSUME NEW n \in D PROVE h[n] = F(h)[n]
    OBVIOUS
  <2>1. CASE Form(n) \notin MethodForm
    <3>1. ~sets(n)
      BY <2>1 DEF MethodForm
    <3> QED BY <1>1, <2>1, <3>1
  <2>2. CASE sets(n)
    <3>1. Form(n) \in MethodForm
      BY <2>2 DEF MethodForm
    <3> QED BY <1>1, <2>2, <3>1
  <2>3. CASE Form(n) \in MethodForm /\ ~sets(n)
    <3>1. n # 0 /\ Child(n, "var") \in D /\ h[Child(n, "var")] \in D
      BY <1>0, <2>3
    <3> QED BY <1>1, <2>3, <3>1
  <2> QED BY <2>1, <2>2, <2>3
<1>3. h = F(h)
  BY <1>2
<1>4. chainMethodString = F(chainMethodString)
  BY <1>3 DEF chainMethodString
<1> QED BY <1>4

LEMMA ReceiversUnfold ==
  ASSUME Tree
  PROVE  \A n \in Nodes \cup {0} :
           /\ Receivers[n] \in Seq(Nodes \cup {0})
           /\ Receivers[n] = IF Form(n) \in MethodForm THEN <<n>> \o Receivers[Child(n, "var")]
                             ELSE <<n>>
<1> DEFINE D == Nodes \cup {0}
           A == Seq(D)
           stop == {n \in D : Form(n) \notin MethodForm}
           base == [n \in D |-> <<n>>]
           next == [n \in D |-> IF n = 0 THEN 0 ELSE Child(n, "var")]
           op == [n \in D |-> [s \in A |-> <<n>> \o s]]
<1>0. \A n \in D : Form(n) \in MethodForm => /\ n \in Nodes /\ n # 0
                                             /\ Child(n, "var") \in D
                                             /\ Left[Child(n, "var")] < Left[n]
  BY NoFormOfNothing, ChildIsLess, TreeBasics
<1>1. \A n \in D : <<n>> \in A /\ \A s \in A : <<n>> \o s \in A
  <2> SUFFICES ASSUME NEW n \in D PROVE <<n>> \in A /\ \A s \in A : <<n>> \o s \in A
    OBVIOUS
  <2>1. <<n>> \in A
    OBVIOUS
  <2> HIDE DEF D
  <2> QED BY <2>1, ConcatProperties
<1>2. PICK h \in [D -> A] : \A n \in D : h[n] = IF n \in stop THEN base[n] ELSE op[n][h[next[n]]]
  <2> HIDE DEF A
  <2>1. Left \in [D -> Nat] /\ next \in [D -> D]
    BY ChildIsLess
  <2>2. base \in [D -> A] /\ op \in [D -> [A -> A]] /\ stop \in SUBSET D
    BY <1>1
  <2>3. \A n \in D \ stop : Left[next[n]] < Left[n]
    BY <1>0
  <2> HIDE DEF D, stop, base, next, op
  <2>4. Chain(D, Left, A, stop, base, next, op)
    BY <2>1, <2>2, <2>3 DEF Chain
  <2> QED BY <2>4, ChainRecursion
<1> HIDE DEF A
<1>3. \A n \in D : h[n] = IF Form(n) \in MethodForm THEN <<n>> \o h[Child(n, "var")] ELSE <<n>>
  <2> SUFFICES ASSUME NEW n \in D
               PROVE  h[n] = IF Form(n) \in MethodForm THEN <<n>> \o h[Child(n, "var")] ELSE <<n>>
    OBVIOUS
  <2>1. CASE Form(n) \in MethodForm
    <3>1. n # 0 /\ Child(n, "var") \in D /\ h[Child(n, "var")] \in A
      BY <1>0, <2>1
    <3> QED BY <1>2, <2>1, <3>1
  <2>2. CASE Form(n) \notin MethodForm
    BY <1>2, <2>2
  <2> QED BY <2>1, <2>2
<1>4. h = [n \in D |-> IF Form(n) \in MethodForm THEN <<n>> \o h[Child(n, "var")] ELSE <<n>>]
  BY <1>3
<1>5. Receivers = [n \in D |-> IF Form(n) \in MethodForm THEN <<n>> \o Receivers[Child(n, "var")] ELSE <<n>>]
  BY <1>4 DEF Receivers
<1>6. \A n \in D : Receivers[n] = IF Form(n) \in MethodForm THEN <<n>> \o Receivers[Child(n, "var")]
                                  ELSE <<n>>
  BY <1>5
<1> DEFINE P == {n \in D : Receivers[n] \in A}
<1>7. ASSUME NEW n \in D, \A k \in D : Left[k] < Left[n] => k \in P PROVE n \in P
  <2>1. CASE Form(n) \in MethodForm
    <3>1. Receivers[Child(n, "var")] \in A
      BY <1>0, <1>7, <2>1
    <3> QED BY <1>1, <1>6, <2>1, <3>1
  <2>2. CASE Form(n) \notin MethodForm
    BY <1>1, <1>6, <2>2
  <2> QED BY <2>1, <2>2
<1> HIDE DEF P
<1>8. D \subseteq P
  BY <1>7, ChildIsLess, InductionMeasure
<1> QED BY <1>6, <1>8 DEF P, A

LEMMA ConsFacts ==
  ASSUME NEW S, NEW n \in S, NEW r \in Seq(S)
  PROVE  /\ Len(<<n>> \o r) = Len(r) + 1 /\ Len(r) \in Nat
         /\ DOMAIN (<<n>> \o r) = 1 .. Len(r) + 1 /\ DOMAIN r = 1 .. Len(r)
         /\ (<<n>> \o r)[1] = n
         /\ \A i \in 1..Len(r) : (<<n>> \o r)[i + 1] = r[i]
<1>1. <<n>> \in Seq(S) /\ Len(<<n>>) = 1 /\ <<n>>[1] = n /\ Len(r) \in Nat /\ DOMAIN r = 1 .. Len(r)
  BY LenProperties
<1>2. /\ <<n>> \o r \in Seq(S) /\ Len(<<n>> \o r) = 1 + Len(r)
      /\ \A i \in 1 .. 1 + Len(r) :
           (<<n>> \o r)[i] = IF i <= 1 THEN <<n>>[i] ELSE r[i - 1]
  BY <1>1, ConcatProperties
<1>3. DOMAIN (<<n>> \o r) = 1 .. Len(r) + 1
  BY <1>1, <1>2, LenProperties
<1>4. (<<n>> \o r)[1] = n
  BY <1>1, <1>2
<1>5. ASSUME NEW i \in 1..Len(r) PROVE (<<n>> \o r)[i + 1] = r[i]
  <2>1. i + 1 \in 1 .. 1 + Len(r) /\ ~(i + 1 <= 1) /\ (i + 1) - 1 = i
    BY <1>1
  <2> QED BY <1>2, <2>1
<1> QED BY <1>1, <1>2, <1>3, <1>4, <1>5

(* The controller that the calls of a chain set last. *)
SetsController(k) == Form(k) = "->controller" /\ Child(k, "arg0") # 0
SettersIn(s) == {i \in DOMAIN s : SetsController(s[i])}
ControllerIn(s) ==
  IF First(SettersIn(s)) = 0 THEN 0 ELSE ScalarStringVal(Child(s[First(SettersIn(s))], "arg0"))

LEMMA ControllerInCons ==
  ASSUME NEW S, NEW n \in S, NEW r \in Seq(S)
  PROVE  ControllerIn(<<n>> \o r) = IF SetsController(n) THEN ScalarStringVal(Child(n, "arg0"))
                                    ELSE ControllerIn(r)
<1> DEFINE s == <<n>> \o r
<1>1. /\ Len(r) \in Nat /\ DOMAIN s = 1 .. Len(r) + 1 /\ DOMAIN r = 1 .. Len(r) /\ s[1] = n
      /\ \A i \in 1..Len(r) : s[i + 1] = r[i]
  BY ConsFacts
<1> HIDE DEF s
<1>2. SettersIn(s) \in SUBSET Nat /\ SettersIn(r) \in SUBSET Nat /\ 0 \notin SettersIn(s) /\ 0 \notin SettersIn(r)
  BY <1>1 DEF SettersIn
<1>3. CASE SetsController(n)
  <2>1. 1 \in SettersIn(s) /\ \A i \in SettersIn(s) : 1 <= i
    BY <1>1, <1>3 DEF SettersIn
  <2>2. First(SettersIn(s)) = 1
    BY <1>2, <2>1, FirstIs
  <2> QED BY <1>1, <1>3, <2>2 DEF ControllerIn, s
<1>4. CASE ~SetsController(n)
  <2>1. \A i \in 1 .. Len(r) : i \in SettersIn(r) <=> i + 1 \in SettersIn(s)
    BY <1>1 DEF SettersIn
  <2>2. \A j \in SettersIn(s) : j - 1 \in SettersIn(r) /\ j - 1 \in 1 .. Len(r)
    <3> SUFFICES ASSUME NEW j \in SettersIn(s) PROVE j - 1 \in SettersIn(r) /\ j - 1 \in 1 .. Len(r)
      OBVIOUS
    <3>1. j \in 1 .. Len(r) + 1 /\ j # 1
      BY <1>1, <1>4 DEF SettersIn
    <3>2. j - 1 \in 1 .. Len(r) /\ (j - 1) + 1 = j
      BY <1>1, <3>1
    <3>3. j - 1 \in SettersIn(r)
      BY <2>1, <3>2
    <3> QED BY <3>2, <3>3
  <2>3. CASE SettersIn(r) = {}
    <3>1. SettersIn(s) = {}
      BY <2>2, <2>3
    <3> QED BY <1>2, <1>4, <2>3, <3>1, FirstIs DEF ControllerIn, s
  <2>4. CASE SettersIn(r) # {}
    <3>1. PICK i \in SettersIn(r) : \A j \in SettersIn(r) : i <= j
      BY <1>2, <2>4, LeastNat
    <3>2. First(SettersIn(r)) = i /\ i # 0 /\ i \in 1 .. Len(r)
      BY <1>1, <1>2, <3>1, FirstIs DEF SettersIn
    <3>3. i + 1 \in SettersIn(s)
      BY <2>1, <3>1, <3>2
    <3>4. \A j \in SettersIn(s) : i + 1 <= j
      <4> SUFFICES ASSUME NEW j \in SettersIn(s) PROVE i + 1 <= j
        OBVIOUS
      <4>1. i <= j - 1 /\ j \in Nat
        BY <1>2, <2>2, <3>1
      <4> QED BY <3>2, <4>1
    <3>5. First(SettersIn(s)) = i + 1 /\ i + 1 # 0
      BY <1>2, <3>2, <3>3, <3>4, FirstIs
    <3>6. s[i + 1] = r[i]
      BY <1>1, <3>2
    <3> QED BY <1>4, <3>2, <3>5, <3>6 DEF ControllerIn, s
  <2> QED BY <2>3, <2>4
<1> QED BY <1>3, <1>4

LEMMA ControllerInOne ==
  ASSUME NEW n
  PROVE  ControllerIn(<<n>>) = IF SetsController(n) THEN ScalarStringVal(Child(n, "arg0")) ELSE 0
<1>1. DOMAIN <<n>> = {1} /\ <<n>>[1] = n
  OBVIOUS
<1>2. SettersIn(<<n>>) = IF SetsController(n) THEN {1} ELSE {}
  BY <1>1 DEF SettersIn
<1>3. First({1}) = 1 /\ First({}) = 0
  BY FirstIs
<1> QED BY <1>1, <1>2, <1>3 DEF ControllerIn

(* The visitors follow a chain to its root and to the controller set last. *)
LEMMA ChainFacts ==
  ASSUME Tree
  PROVE  \A n \in Nodes \cup {0} :
           /\ Len(Receivers[n]) \in Nat \ {0} /\ DOMAIN Receivers[n] = 1..Len(Receivers[n])
           /\ Receivers[n][1] = n
           /\ Receivers[n][Len(Receivers[n])] = chainVarRoot[n]
           /\ chainMethodString[n] = ControllerIn(Receivers[n])
<1> DEFINE D == Nodes \cup {0}
           Fact(n) == /\ Len(Receivers[n]) \in Nat \ {0}
                      /\ DOMAIN Receivers[n] = 1..Len(Receivers[n])
                      /\ Receivers[n][1] = n
                      /\ Receivers[n][Len(Receivers[n])] = chainVarRoot[n]
                      /\ chainMethodString[n] = ControllerIn(Receivers[n])
           P == {n \in D : Fact(n)}
<1>1. ASSUME NEW n \in D, \A k \in D : Left[k] < Left[n] => k \in P PROVE n \in P
  <2>1. CASE Form(n) \in MethodForm
    <3> DEFINE k == Child(n, "var")
    <3>1. k \in D /\ Left[k] < Left[n]
      BY <2>1, NoFormOfNothing, ChildIsLess
    <3>2. /\ Receivers[n] = <<n>> \o Receivers[k] /\ Receivers[k] \in Seq(D)
          /\ chainVarRoot[n] = chainVarRoot[k]
          /\ chainMethodString[n] = IF SetsController(n) THEN ScalarStringVal(Child(n, "arg0"))
                                    ELSE chainMethodString[k]
      <4>1. Receivers[n] = <<n>> \o Receivers[k] /\ Receivers[k] \in Seq(D)
        BY <2>1, <3>1, ReceiversUnfold
      <4>2. chainVarRoot[n] = chainVarRoot[k]
        BY <2>1, RootUnfolds
      <4>3. chainMethodString[n] = IF SetsController(n) THEN ScalarStringVal(Child(n, "arg0"))
                                   ELSE chainMethodString[k]
        BY <2>1, MethodStringUnfolds DEF SetsController
      <4> QED BY <4>1, <4>2, <4>3
    <3> HIDE DEF k, D
    <3>3. Fact(k)
      BY <1>1, <3>1
    <3>4. PICK r \in Seq(D) : r = Receivers[k]
      BY <3>2
    <3>5. /\ Len(<<n>> \o r) = Len(r) + 1 /\ Len(r) \in Nat \ {0}
          /\ DOMAIN (<<n>> \o r) = 1 .. Len(r) + 1 /\ DOMAIN r = 1 .. Len(r)
          /\ (<<n>> \o r)[1] = n
          /\ (<<n>> \o r)[Len(r) + 1] = r[Len(r)]
      <4>1. Len(r) \in Nat \ {0} /\ Len(r) \in 1..Len(r)
        BY <3>3, <3>4
      <4> QED BY <4>1, ConsFacts
    <3>6. ControllerIn(<<n>> \o r) = chainMethodString[n]
      BY <3>2, <3>3, <3>4, ControllerInCons
    <3>7. r[Len(r)] = chainVarRoot[n]
      BY <3>2, <3>3, <3>4
    <3>8. Receivers[n] = <<n>> \o r
      BY <3>2, <3>4
    <3>9. Len(r) + 1 \in Nat \ {0}
      BY <3>5
    <3>10. Fact(n)
      BY <3>5, <3>6, <3>7, <3>8, <3>9
    <3> QED BY <3>10
  <2>2. CASE Form(n) \notin MethodForm
    <3>1. Receivers[n] = <<n>> /\ chainVarRoot[n] = n /\ chainMethodString[n] = 0
      BY <2>2, ReceiversUnfold, RootUnfolds, MethodStringUnfolds
    <3>2. ControllerIn(<<n>>) = 0
      BY <2>2, ControllerInOne DEF SetsController, MethodForm
    <3>3. Len(<<n>>) = 1 /\ DOMAIN <<n>> = 1..1 /\ <<n>>[1] = n
      OBVIOUS
    <3>4. Fact(n)
      BY <3>1, <3>2, <3>3
    <3> QED BY <3>4
  <2> QED BY <2>1, <2>2
<1> HIDE DEF P
<1>2. D \subseteq P
  BY <1>1, ChildIsLess, InductionMeasure
<1> QED BY <1>2 DEF P

LEMMA ControllerBeforeIs ==
  ASSUME Tree, NEW n \in Nodes
  PROVE  ControllerBefore(n) = chainMethodString[Child(n, "var")]
<1>1. ControllerBefore(n) = ControllerIn(Receivers[Child(n, "var")])
  BY DEF ControllerBefore, ControllerIn, SettersIn, SetsController
<1>2. Child(n, "var") \in Nodes \cup {0}
  BY ChildIs
<1> QED BY <1>1, <1>2, ChainFacts

LEMMA OnRequestIs ==
  ASSUME Tree, NEW n \in Nodes
  PROVE  OnRequest(n) <=> Form(n) \in MethodForm /\ isRequestChainRoot(chainVarRoot[Child(n, "var")])
<1>1. Form(n) \in MethodForm => chainVarRoot[n] = chainVarRoot[Child(n, "var")]
  BY RootUnfolds
<1>2. Receivers[n][Len(Receivers[n])] = chainVarRoot[n]
  BY ChainFacts
<1> QED BY <1>1, <1>2 DEF OnRequest, isRequestChainRoot

(* What a chain says is a literal of one of its calls. *)
LEMMA MethodStringSaid ==
  ASSUME Tree, NEW n \in Nodes, Form(n) \in MethodForm
  PROVE  chainMethodString[Child(n, "var")] \in SaidTogether(n)
<1> DEFINE k == Child(n, "var")
           s == Receivers[k]
           i == First(SettersIn(s))
           v == Child(s[i], "arg0")
<1>1. k \in Nodes \cup {0}
  BY ChildIs
<1>2. s \in Seq(Nodes \cup {0}) /\ Receivers[n] = <<n>> \o s
  BY <1>1, ReceiversUnfold
<1>3. chainMethodString[k] = ControllerIn(s)
  BY <1>1, ChainFacts
<1>4. SaidTogether(n) = ({Child(j, "arg0") : j \in Range(Receivers[n])} \cap Literals) \cup {0}
  BY DEF SaidTogether, MethodForm
<1>5. CASE i = 0
  BY <1>3, <1>4, <1>5 DEF ControllerIn
<1>6. CASE i # 0
  <2>1. SettersIn(s) \in SUBSET Nat /\ i \in DOMAIN s /\ DOMAIN s = 1..Len(s)
    <3>1. DOMAIN s = 1..Len(s) /\ Len(s) \in Nat
      BY <1>2, LenProperties
    <3>2. SettersIn(s) \in SUBSET Nat
      BY <3>1 DEF SettersIn
    <3>3. i \in SettersIn(s)
      BY <1>6, <3>2, FirstIs
    <3> QED BY <3>1, <3>2, <3>3 DEF SettersIn
  <2>2. s[i] \in Range(Receivers[n])
    <3>1. (<<n>> \o s)[i + 1] = s[i] /\ i + 1 \in DOMAIN (<<n>> \o s)
      <4> HIDE DEF s, i
      <4>1. n \in Nodes \cup {0} /\ Len(s) \in Nat
        BY <1>2, LenProperties
      <4> QED BY <1>2, <2>1, <4>1, ConsFacts
    <3> QED BY <1>2, <3>1 DEF Range
  <2>3. ControllerIn(s) = ScalarStringVal(v)
    BY <1>6 DEF ControllerIn
  <2>4. ScalarStringVal(v) # 0 => v \in Literals /\ ScalarStringVal(v) = v
    BY ChildIs DEF ScalarStringVal, Literals, IsString, Form
  <2> QED BY <1>3, <1>4, <2>2, <2>3, <2>4
<1> QED BY <1>5, <1>6

-----------------------------------------------------------------------------
(* The finders of routes. *)

LEMMA MatchFields ==
  ASSUME NEW x, NEW y, NEW d, NEW on
  PROVE  /\ routeMatch(x, y, d, on).controller = x /\ routeMatch(x, y, d, on).action = y
         /\ routeMatch(x, y, d, on).directory = d /\ routeMatch(x, y, d, on).on = on
         /\ NoMatch.controller = 0 /\ NoMatch.on = "none"
BY DEF routeMatch, NoMatch

(* The items of an array that have a literal key, and their values. *)
KeyedItems(a) == {i \in Nodes : Above(i) = a /\ doc[i].slot # "none"}

LastOf(T) == IF T = {} THEN 0 ELSE CHOOSE i \in T : \A j \in T : j <= i

LEMMA LastIs ==
  ASSUME Tree, NEW T \in SUBSET Nodes
  PROVE  LastOf(T) \in T \cup {0}
<1>1. CASE T = {}
  BY <1>1 DEF LastOf
<1>2. CASE T # {}
  <2> DEFINE U == {Len(doc) - i : i \in T}
  <2>1. U \in SUBSET Nat /\ U # {}
    BY <1>2, TreeBasics
  <2>2. PICK n \in U : \A m \in U : n <= m
    BY <2>1, LeastNat
  <2>3. PICK i \in T : n = Len(doc) - i
    BY <2>2
  <2>4. ASSUME NEW j \in T PROVE j <= i
    <3>1. n <= Len(doc) - j /\ i \in Nat /\ j \in Nat /\ Len(doc) \in Nat
      BY <2>2, TreeBasics
    <3> QED BY <2>3, <3>1
  <2> QED BY <1>2, <2>4 DEF LastOf
<1> QED BY <1>1, <1>2

ItemValue(a, key) == ScalarStringVal(LastOf({i \in KeyedItems(a) : doc[i].slot = key}))

LEMMA RouteArrayMatch ==
  ASSUME Tree, NEW c \in Nodes, NEW a
  PROVE  LET m == extractRouteArray(a, c)
             at == {i \in KeyedItems(a) : CursorIn(i, c)}
         IN  /\ m.controller = ItemValue(a, "controller") /\ m.action = ItemValue(a, "action")
             /\ m.directory = ItemValue(a, "directory")
             /\ at = {} => m.on = "none"
             /\ at # {} => m.on # "none" /\ \E i \in at : m.on = doc[i].slot
<1> DEFINE m == extractRouteArray(a, c)
           at == {i \in KeyedItems(a) : CursorIn(i, c)}
           on == IF First(at) = 0 THEN "none" ELSE doc[First(at)].slot
<1>1. m = routeMatch(ItemValue(a, "controller"), ItemValue(a, "action"), ItemValue(a, "directory"), on)
  BY DEF extractRouteArray, ItemValue, LastOf, KeyedItems
<1>2. at \in SUBSET Nat /\ 0 \notin at
  BY TreeBasics DEF KeyedItems
<1>3. at = {} => on = "none"
  BY <1>2, FirstIs
<1>4. at # {} => on # "none" /\ \E i \in at : on = doc[i].slot
  <2> SUFFICES ASSUME at # {} PROVE on # "none" /\ \E i \in at : on = doc[i].slot
    OBVIOUS
  <2>1. First(at) \in at
    BY <1>2, FirstIs
  <2>2. First(at) # 0 /\ doc[First(at)].slot # "none"
    BY <1>2, <2>1 DEF KeyedItems
  <2> QED BY <2>1, <2>2
<1>5. /\ m.controller = ItemValue(a, "controller") /\ m.action = ItemValue(a, "action")
      /\ m.directory = ItemValue(a, "directory") /\ m.on = on
  <2> HIDE DEF on, m
  <2> QED BY <1>1, MatchFields
<1> HIDE DEF on, m
<1> QED BY <1>3, <1>4, <1>5 DEF m

(* A finder has no match, or that of a call that has one. *)
InDefaults(k, c) ==
  Form(routeDefaultsArray(k)) = "array" /\ extractRouteArray(routeDefaultsArray(k), c).on # "none"

LEMMA DefaultsFound ==
  ASSUME Tree, NEW c
  PROVE  \/ routeDefaultsFinder(c) = NoMatch /\ \A k \in Nodes : ~InDefaults(k, c)
         \/ \E k \in Nodes : InDefaults(k, c)
                             /\ routeDefaultsFinder(c) = extractRouteArray(routeDefaultsArray(k), c)
<1> DEFINE match(k) == IF Form(routeDefaultsArray(k)) = "array"
                       THEN extractRouteArray(routeDefaultsArray(k), c) ELSE NoMatch
           T == {k \in Nodes : match(k).on # "none"}
           n == First(T)
<1>1. routeDefaultsFinder(c) = IF n = 0 THEN NoMatch ELSE match(n)
  BY DEF routeDefaultsFinder, FirstArray
<1>2. \A k : match(k).on # "none" <=> InDefaults(k, c)
  BY MatchFields DEF InDefaults
<1>3. T \in SUBSET Nat /\ 0 \notin T
  BY TreeBasics
<1> HIDE DEF match
<1>4. CASE T = {}
  BY <1>1, <1>2, <1>3, <1>4, FirstIs
<1>5. CASE T # {}
  <2>1. n \in T /\ n # 0
    BY <1>3, <1>5, FirstIs
  <2>2. InDefaults(n, c) /\ n \in Nodes
    BY <1>2, <2>1
  <2>3. match(n) = extractRouteArray(routeDefaultsArray(n), c)
    BY <2>2 DEF match, InDefaults
  <2> QED BY <1>1, <2>1, <2>2, <2>3
<1> QED BY <1>4, <1>5

InURL(k, c) ==
  Form(routeURLArray(k)) = "array" /\ extractRouteArray(routeURLArray(k), c).on # "none"

LEMMA URLFound ==
  ASSUME Tree, NEW c
  PROVE  \/ routeURLFinder(c) = NoMatch /\ \A k \in Nodes : ~InURL(k, c)
         \/ \E k \in Nodes : InURL(k, c)
                             /\ routeURLFinder(c) = extractRouteArray(routeURLArray(k), c)
<1> DEFINE match(k) == IF Form(routeURLArray(k)) = "array"
                       THEN extractRouteArray(routeURLArray(k), c) ELSE NoMatch
           T == {k \in Nodes : match(k).on # "none"}
           n == First(T)
<1>1. routeURLFinder(c) = IF n = 0 THEN NoMatch ELSE match(n)
  BY DEF routeURLFinder, FirstArray
<1>2. \A k : match(k).on # "none" <=> InURL(k, c)
  BY MatchFields DEF InURL
<1>3. T \in SUBSET Nat /\ 0 \notin T
  BY TreeBasics
<1> HIDE DEF match
<1>4. CASE T = {}
  BY <1>1, <1>2, <1>3, <1>4, FirstIs
<1>5. CASE T # {}
  <2>1. n \in T /\ n # 0
    BY <1>3, <1>5, FirstIs
  <2>2. InURL(n, c) /\ n \in Nodes
    BY <1>2, <2>1
  <2>3. match(n) = extractRouteArray(routeURLArray(n), c)
    BY <2>2 DEF match, InURL
  <2> QED BY <1>1, <2>1, <2>2, <2>3
<1> QED BY <1>4, <1>5

(* A call of a request with the cursor on its literal. *)
InRequest(k, c) ==
  /\ Form(k) \in {"->controller", "->action"}
  /\ isRequestChainRoot(chainVarRoot[Child(k, "var")])
  /\ StringAt(Child(k, "arg0"), c)

RequestMatch(k) ==
  IF Form(k) = "->controller" THEN routeMatch(Child(k, "arg0"), 0, 0, "controller")
  ELSE routeMatch(chainMethodString[Child(k, "var")], Child(k, "arg0"), 0, "action")

LEMMA RequestFound ==
  ASSUME Tree, NEW c
  PROVE  \/ requestFactoryFinder(c) = NoMatch /\ \A k \in Nodes : ~InRequest(k, c)
         \/ \E k \in Nodes : InRequest(k, c) /\ requestFactoryFinder(c) = RequestMatch(k)
<1> DEFINE T == {k \in Nodes : InRequest(k, c)}
           n == First(T)
           result == CASE n = 0                     -> NoMatch
                       [] Form(n) = "->controller"  -> routeMatch(Child(n, "arg0"), 0, 0, "controller")
                       [] Form(n) = "->action"      -> routeMatch(chainMethodString[Child(n, "var")],
                                                                  Child(n, "arg0"), 0, "action")
<1>1. requestFactoryFinder(c) = result
  BY DEF requestFactoryFinder, InRequest
<1>2. T \in SUBSET Nat /\ 0 \notin T
  BY TreeBasics
<1>3. CASE T = {}
  <2>1. n = 0 /\ Form(n) = "absent"
    BY <1>2, <1>3, FirstIs, NoFormOfNothing
  <2>2. result = NoMatch
    BY <2>1
  <2> QED BY <1>1, <1>3, <2>2
<1>4. CASE T # {}
  <2>1. n \in T /\ n # 0
    BY <1>2, <1>4, FirstIs
  <2>2. Form(n) \in {"->controller", "->action"}
    BY <2>1 DEF InRequest
  <2> HIDE DEF n
  <2>3. result = RequestMatch(n)
    BY <2>1, <2>2 DEF RequestMatch
  <2> QED BY <1>1, <2>1, <2>3
<1> QED BY <1>3, <1>4

(* A helper with the cursor in one of its arguments. *)
HelperArg(k, role) == IF role \in DOMAIN HelperArgs THEN Child(k, HelperArgs[role]) ELSE 0

HelperOn(k, c) ==
  IF CursorIn(HelperArg(k, "controller"), c) THEN "controller"
  ELSE IF CursorIn(HelperArg(k, "action"), c) THEN "action"
  ELSE IF CursorIn(HelperArg(k, "directory"), c) THEN "directory" ELSE "none"

LEMMA HelperMatch ==
  ASSUME NEW k, NEW c
  PROVE  LET m == tryMatchArgs(k, c)
         IN  /\ m.controller = ScalarStringVal(HelperArg(k, "controller"))
             /\ m.action = ScalarStringVal(HelperArg(k, "action"))
             /\ m.directory = ScalarStringVal(HelperArg(k, "directory"))
             /\ m.on = HelperOn(k, c)
             /\ m.on \in Role \cup {"none"}
             /\ m.on # "none" => CursorIn(HelperArg(k, m.on), c)
             /\ m.on = "none" => \A role \in Role : ~CursorIn(HelperArg(k, role), c)
<1> DEFINE on == HelperOn(k, c)
           m == tryMatchArgs(k, c)
<1>1. m = routeMatch(ScalarStringVal(HelperArg(k, "controller")),
                     ScalarStringVal(HelperArg(k, "action")),
                     ScalarStringVal(HelperArg(k, "directory")), on)
  BY DEF tryMatchArgs, HelperArg, HelperOn
<1>2. /\ on \in Role \cup {"none"}
      /\ on # "none" => CursorIn(HelperArg(k, on), c)
      /\ on = "none" => \A role \in Role : ~CursorIn(HelperArg(k, role), c)
  BY DEF Role, HelperOn
<1> HIDE DEF on, m
<1>3. /\ m.controller = ScalarStringVal(HelperArg(k, "controller"))
      /\ m.action = ScalarStringVal(HelperArg(k, "action"))
      /\ m.directory = ScalarStringVal(HelperArg(k, "directory")) /\ m.on = on
  BY <1>1, MatchFields
<1> QED BY <1>2, <1>3 DEF m, on

InHelper(k, c) == Form(k) = "helper" /\ tryMatchArgs(k, c).on # "none"

LEMMA HelperFound ==
  ASSUME Tree, NEW c
  PROVE  \/ routeHelperFinder(c) = NoMatch /\ \A k \in Nodes : ~InHelper(k, c)
         \/ \E k \in Nodes : InHelper(k, c) /\ routeHelperFinder(c) = tryMatchArgs(k, c)
<1> DEFINE T == {k \in Nodes : InHelper(k, c)}
           n == First(T)
<1>1. routeHelperFinder(c) = IF n = 0 THEN NoMatch ELSE tryMatchArgs(n, c)
  BY DEF routeHelperFinder, InHelper
<1>2. T \in SUBSET Nat /\ 0 \notin T
  BY TreeBasics
<1>3. CASE T = {}
  BY <1>1, <1>2, <1>3, FirstIs
<1>4. CASE T # {}
  <2>1. n \in T /\ n # 0
    BY <1>2, <1>4, FirstIs
  <2> QED BY <1>1, <2>1
<1> QED BY <1>3, <1>4

LEMMA RouteFound ==
  ASSUME NEW c
  PROVE  LET r == findRouteAtOffset(c)
             all == {routeDefaultsFinder(c), routeURLFinder(c),
                     requestFactoryFinder(c), routeHelperFinder(c)}
         IN  \/ r = NoMatch /\ \A m \in all : m.on = "none"
             \/ r \in all /\ r.on # "none"
<1> DEFINE found == <<routeDefaultsFinder(c), routeURLFinder(c),
                      requestFactoryFinder(c), routeHelperFinder(c)>>
           T == {k \in 1..4 : found[k].on # "none"}
<1>1. findRouteAtOffset(c) = IF First(T) = 0 THEN NoMatch ELSE found[First(T)]
  BY DEF findRouteAtOffset
<1>2. /\ found[1] = routeDefaultsFinder(c) /\ found[2] = routeURLFinder(c)
      /\ found[3] = requestFactoryFinder(c) /\ found[4] = routeHelperFinder(c)
  OBVIOUS
<1>3. T \in SUBSET Nat /\ 0 \notin T
  OBVIOUS
<1>4. 1 \in 1..4 /\ 2 \in 1..4 /\ 3 \in 1..4 /\ 4 \in 1..4 /\ \A k \in 1..4 : k \in {1, 2, 3, 4}
  OBVIOUS
<1> HIDE DEF found
<1>5. CASE T = {}
  <2>1. findRouteAtOffset(c) = NoMatch
    BY <1>1, <1>3, <1>5, FirstIs
  <2>2. \A k \in 1..4 : found[k].on = "none"
    BY <1>5
  <2> QED BY <1>2, <1>4, <2>1, <2>2
<1>6. CASE T # {}
  <2>1. First(T) \in T /\ First(T) # 0
    BY <1>3, <1>6, FirstIs
  <2>2. findRouteAtOffset(c) = found[First(T)] /\ found[First(T)].on # "none" /\ First(T) \in 1..4
    BY <1>1, <2>1
  <2> QED BY <1>2, <1>4, <2>2
<1> QED BY <1>5, <1>6

-----------------------------------------------------------------------------
(* What a target is made of. *)

(* The call around a cursor that lies in one of its operands. *)
LEMMA CallAround ==
  ASSUME Tree, NEW c \in Nodes, NEW k \in Nodes, NEW slot, CursorIn(Child(k, slot), c)
  PROVE  k \in Path[c]
<1>1. Child(k, slot) \in Path[c] /\ Child(k, slot) # 0
  BY DEF CursorIn
<1>2. Above(Child(k, slot)) = k /\ k # 0
  BY <1>1, ChildIs, TreeBasics
<1> QED BY <1>1, <1>2, PathFacts

(* The array around a cursor that lies in one of its keyed items. *)
LEMMA ArrayAround ==
  ASSUME Tree, NEW c \in Nodes, NEW a, a # 0, extractRouteArray(a, c).on # "none"
  PROVE  a \in Path[c]
<1>1. PICK i \in KeyedItems(a) : CursorIn(i, c)
  BY RouteArrayMatch
<1> QED BY <1>1, PathFacts DEF KeyedItems, CursorIn

LEMMA LiteralValue ==
  ASSUME Tree, NEW n \in Nodes \cup {0}
  PROVE  ScalarStringVal(n) = 0 \/ (ScalarStringVal(n) = n /\ n \in Literals)
<1>1. CASE IsString(n)
  <2>1. n \in Nodes
    BY <1>1, NoFormOfNothing
  <2> QED BY <1>1, <2>1 DEF ScalarStringVal, Literals
<1>2. CASE ~IsString(n)
  BY <1>2 DEF ScalarStringVal
<1> QED BY <1>1, <1>2

LEMMA ItemValueSaid ==
  ASSUME Tree, NEW a, Form(a) = "array", NEW key
  PROVE  ItemValue(a, key) \in SaidTogether(a)
<1> DEFINE T == {i \in KeyedItems(a) : doc[i].slot = key}
<1>1. T \in SUBSET Nodes
  BY DEF KeyedItems
<1>2. LastOf(T) \in T \cup {0}
  BY <1>1, LastIs
<1>3. \A i \in T : Above(i) = a
  BY DEF KeyedItems
<1>4. ItemValue(a, key) = ScalarStringVal(LastOf(T))
  BY DEF ItemValue
<1>5. SaidTogether(a) = ({k \in Nodes : Above(k) = a} \cap Literals) \cup {0}
  BY DEF SaidTogether, MethodForm
<1> HIDE DEF T
<1>6. \/ ScalarStringVal(LastOf(T)) = 0
      \/ ScalarStringVal(LastOf(T)) = LastOf(T) /\ LastOf(T) \in Literals
  BY <1>1, <1>2, LiteralValue
<1>7. LastOf(T) \in Literals => LastOf(T) \in T
  BY <1>2, NoFormOfNothing DEF Literals
<1> QED BY <1>1, <1>3, <1>4, <1>5, <1>6, <1>7

LEMMA HelperValueSaid ==
  ASSUME Tree, NEW k \in Nodes, Form(k) = "helper", NEW role
  PROVE  ScalarStringVal(HelperArg(k, role)) \in SaidTogether(k)
<1>1. HelperArg(k, role) \in Nodes \cup {0} /\ (HelperArg(k, role) # 0 => Above(HelperArg(k, role)) = k)
  BY ChildIs DEF HelperArg
<1>2. SaidTogether(k) = ({j \in Nodes : Above(j) = k} \cap Literals) \cup {0}
  BY DEF SaidTogether, MethodForm
<1>3. 0 \notin Literals
  BY NoFormOfNothing DEF Literals
<1> QED BY <1>1, <1>2, <1>3, LiteralValue

LEMMA MatchIsSaid ==
  ASSUME Tree, NEW c \in Nodes
  PROVE  LET r == findRouteAtOffset(c)
         IN  \/ r.controller = 0
             \/ \E n \in Path[c] : {r.controller, r.action, r.directory} \subseteq SaidTogether(n)
<1> DEFINE r == findRouteAtOffset(c)
           Said == \E n \in Path[c] : {r.controller, r.action, r.directory} \subseteq SaidTogether(n)
<1>1. CASE r = NoMatch
  BY <1>1, MatchFields
<1>2. ASSUME NEW a, Form(a) = "array", extractRouteArray(a, c).on # "none",
             r = extractRouteArray(a, c)
      PROVE  Said
  <2>1. a # 0
    BY <1>2, NoFormOfNothing
  <2>2. a \in Path[c]
    BY <1>2, <2>1, ArrayAround
  <2>3. /\ r.controller = ItemValue(a, "controller") /\ r.action = ItemValue(a, "action")
        /\ r.directory = ItemValue(a, "directory")
    BY <1>2, RouteArrayMatch
  <2> HIDE DEF r
  <2> QED BY <1>2, <2>2, <2>3, ItemValueSaid
<1>3. CASE r = routeDefaultsFinder(c) /\ r.on # "none"
  <2>1. PICK k \in Nodes : InDefaults(k, c)
                           /\ routeDefaultsFinder(c) = extractRouteArray(routeDefaultsArray(k), c)
    BY <1>3, DefaultsFound, MatchFields
  <2> QED BY <1>2, <1>3, <2>1 DEF InDefaults
<1>4. CASE r = routeURLFinder(c) /\ r.on # "none"
  <2>1. PICK k \in Nodes : InURL(k, c)
                           /\ routeURLFinder(c) = extractRouteArray(routeURLArray(k), c)
    BY <1>4, URLFound, MatchFields
  <2> QED BY <1>2, <1>4, <2>1 DEF InURL
<1>5. CASE r = requestFactoryFinder(c) /\ r.on # "none"
  <2>1. PICK k \in Nodes : InRequest(k, c) /\ r = RequestMatch(k)
    BY <1>5, RequestFound, MatchFields
  <2> DEFINE n == Child(k, "arg0")
  <2>2. Form(k) \in MethodForm /\ CursorIn(n, c) /\ IsString(n)
    BY <2>1 DEF InRequest, MethodForm, StringAt
  <2>3. k \in Path[c]
    BY <2>2, CallAround
  <2>4. SaidTogether(k) = ({Child(j, "arg0") : j \in Range(Receivers[k])} \cap Literals) \cup {0}
    BY <2>2 DEF SaidTogether, MethodForm
  <2>5. n \in SaidTogether(k)
    <3>1. k \in Range(Receivers[k])
      <4>1. Receivers[k][1] = k /\ 1 \in DOMAIN Receivers[k]
        BY ChainFacts
      <4> QED BY <4>1 DEF Range
    <3>2. n \in Literals
      BY <2>2, ChildIs, NoFormOfNothing DEF Literals
    <3> QED BY <2>4, <3>1, <3>2
  <2>6. chainMethodString[Child(k, "var")] \in SaidTogether(k) /\ 0 \in SaidTogether(k)
    BY <2>2, <2>4, MethodStringSaid
  <2>7. /\ r.controller \in {n, chainMethodString[Child(k, "var")]} /\ r.action \in {n, 0}
        /\ r.directory = 0
    BY <2>1, MatchFields DEF RequestMatch
  <2>8. /\ r.controller \in SaidTogether(k) /\ r.action \in SaidTogether(k)
        /\ r.directory \in SaidTogether(k)
    BY <2>5, <2>6, <2>7
  <2> QED BY <2>3, <2>8
<1>6. CASE r = routeHelperFinder(c) /\ r.on # "none"
  <2>1. PICK k \in Nodes : InHelper(k, c) /\ r = tryMatchArgs(k, c)
    BY <1>6, HelperFound, MatchFields
  <2>2. /\ r.controller = ScalarStringVal(HelperArg(k, "controller"))
        /\ r.action = ScalarStringVal(HelperArg(k, "action"))
        /\ r.directory = ScalarStringVal(HelperArg(k, "directory"))
        /\ CursorIn(HelperArg(k, r.on), c)
    BY <1>6, <2>1, HelperMatch
  <2>3. k \in Path[c]
    <3>1. HelperArg(k, r.on) = Child(k, HelperArgs[r.on])
      BY <2>2 DEF HelperArg, CursorIn
    <3> QED BY <2>2, <3>1, CallAround
  <2>4. Form(k) = "helper"
    BY <2>1 DEF InHelper
  <2>5. /\ r.controller \in SaidTogether(k) /\ r.action \in SaidTogether(k)
        /\ r.directory \in SaidTogether(k)
    BY <2>2, <2>4, HelperValueSaid
  <2> QED BY <2>3, <2>5
<1> QED BY <1>1, <1>3, <1>4, <1>5, <1>6, RouteFound

(* What go-to-definition takes from a route, a request or a helper (the    *)
(* finders of routes.go, and chainMethodString within a request) is said by*)
(* one array, one call or one chain around the cursor.                     *)
THEOREM TargetsAreOfOneCall == Spec => []TargetsOfOneCall
<1>1. Tree => TargetsOfOneCall
  <2> SUFFICES ASSUME Tree, NEW c \in Nodes,
                      NEW t \in Range(locateControllerAction(findRouteAtOffset(c)))
               PROVE  \E n \in Path[c] : {t.name, t.action, t.directory} \subseteq SaidTogether(n)
    BY DEF TargetsOfOneCall
  <2> DEFINE r == findRouteAtOffset(c)
             x == Target("controller", r.controller, IF r.on = "action" THEN r.action ELSE 0,
                         r.directory)
  <2>1. r.controller # 0
    <3>1. r.controller = 0 => locateControllerAction(r) = <<>>
      BY DEF locateControllerAction
    <3>2. Range(<<>>) = {}
      BY DEF Range
    <3> QED BY <3>1, <3>2
  <2>2. t = x
    <3>1. locateControllerAction(r) = <<x>>
      BY <2>1 DEF locateControllerAction
    <3> HIDE DEF x
    <3>2. Range(<<x>>) = {x}
      BY DEF Range
    <3> QED BY <3>1, <3>2
  <2>3. t.name = r.controller /\ t.action \in {r.action, 0} /\ t.directory = r.directory
    BY <2>2 DEF Target
  <2>4. PICK n \in Path[c] : {r.controller, r.action, r.directory} \subseteq SaidTogether(n)
    BY <2>1, MatchIsSaid
  <2>5. 0 \in SaidTogether(n)
    BY DEF SaidTogether
  <2> HIDE DEF r
  <2>6. {t.name, t.action, t.directory} \subseteq SaidTogether(n)
    BY <2>3, <2>4, <2>5
  <2> QED BY <2>6
<1> QED BY <1>1, DocIsTree, PTL

-----------------------------------------------------------------------------
(* Where a literal stands, and the route values around it. *)

LEMMA LiteralPlace ==
  ASSUME Tree, NEW c \in Literals
  PROVE  LET p == Above(c)
         IN  /\ c \in Nodes /\ c # 0 /\ IsString(c) /\ CursorIn(c, c)
             /\ p \in Nodes /\ p # 0 /\ p \in Path[c]
             /\ Shape(Form(p), doc[c].slot, "string")
             /\ Form(p) # "array" => Child(p, doc[c].slot) = c
<1>1. c \in Nodes /\ IsString(c) /\ Form(c) = "string" /\ c # 0
  BY TreeBasics, NoFormOfNothing DEF Literals
<1>2. Above(c) # 0
  <2>1. "string" \notin CallForm \cup {"Kohana::modules"}
    BY DEF CallForm, ViewForm, FileForm, MethodForm
  <2> QED BY <1>1, <2>1, TreeBasics DEF Tree, Placed
<1>3. Above(c) \in Nodes /\ Above(c) \in Path[c] /\ c \in Path[c]
  BY <1>1, <1>2, TreeBasics, PathFacts
<1>4. Shape(Form(Above(c)), doc[c].slot, "string")
  BY <1>1, <1>2, BelowFits
<1>5. Form(Above(c)) # "array" => Child(Above(c), doc[c].slot) = c
  BY <1>1, <1>2, OnlyChild
<1> QED BY <1>1, <1>2, <1>3, <1>4, <1>5 DEF CursorIn

(* Of a literal that no route value lies around, it is the only one. *)
LEMMA OnlyRouteValue ==
  ASSUME NEW c, ~Shadowed(c), NEW k \in Path[c], RouteValue(k)
  PROVE  k = c
BY DEF Shadowed

LEMMA ArrayHit ==
  ASSUME Tree, NEW c \in Literals, ~Shadowed(c), NEW a, RouteArray(a),
         extractRouteArray(a, c).on # "none"
  PROVE  a = Above(c) /\ RouteValue(c) /\ extractRouteArray(a, c).on = doc[c].slot
<1>1. c \in Nodes /\ a # 0
  BY NoFormOfNothing DEF Literals, RouteArray
<1>2. PICK i \in KeyedItems(a) : CursorIn(i, c) /\ extractRouteArray(a, c).on = doc[i].slot
  BY <1>1, RouteArrayMatch
<1>3. RouteValue(i) /\ i \in Path[c] /\ Above(i) = a
  BY <1>1, <1>2 DEF KeyedItems, RouteValue, CursorIn
<1> QED BY <1>2, <1>3, OnlyRouteValue

(* The arrays the two finders look at are those of route values. *)
LEMMA FoundArrays ==
  ASSUME Tree, NEW a
  PROVE  /\ \A k : Form(a) = "array" /\ a \in {routeDefaultsArray(k), routeURLArray(k)} => RouteArray(a)
         /\ a \in Nodes /\ RouteArray(a)
              => \E k \in Nodes : a \in {routeDefaultsArray(k), routeURLArray(k)}
<1>1. ASSUME NEW k, Form(a) = "array", a = routeDefaultsArray(k) PROVE RouteArray(a)
  <2>1. a # 0
    BY <1>1, NoFormOfNothing
  <2>2. Form(k) = "->defaults" /\ isRouteSetRoot(Child(k, "var")) /\ a = Child(k, "arg0")
    BY <1>1, <2>1 DEF routeDefaultsArray
  <2>3. Above(a) = k
    BY <2>1, <2>2, ChildIs
  <2> QED BY <1>1, <2>2, <2>3 DEF RouteArray
<1>2. ASSUME NEW k, Form(a) = "array", a = routeURLArray(k) PROVE RouteArray(a)
  <2>1. a # 0
    BY <1>2, NoFormOfNothing
  <2>2. Form(k) = "Route::url" /\ a = Child(k, "arg1")
    BY <1>2, <2>1 DEF routeURLArray
  <2>3. Above(a) = k
    BY <2>1, <2>2, ChildIs
  <2> QED BY <1>2, <2>2, <2>3 DEF RouteArray
<1>3. ASSUME RouteArray(a), a \in Nodes
      PROVE  \E k \in Nodes : a \in {routeDefaultsArray(k), routeURLArray(k)}
  <2> DEFINE k == Above(a)
  <2>1. Form(a) = "array" /\ k # 0 /\ k \in Nodes
    BY <1>3, NoFormOfNothing, TreeBasics DEF RouteArray
  <2>2. Shape(Form(k), doc[a].slot, "array")
    BY <1>3, <2>1, BelowFits
  <2>3. CASE Form(k) = "Route::url"
    <3>1. doc[a].slot = "arg1" /\ Form(k) # "array"
      BY <2>2, <2>3 DEF Shape, ArgumentCall, FileCall, MethodForm
    <3>2. Child(k, "arg1") = a
      BY <1>3, <2>1, <3>1, OnlyChild
    <3>3. routeURLArray(k) = a
      BY <2>3, <3>2 DEF routeURLArray
    <3> QED BY <2>1, <3>3
  <2>4. CASE Form(k) = "->defaults" /\ isRouteSetRoot(Child(k, "var"))
    <3>1. doc[a].slot = "arg0" /\ Form(k) # "array"
      BY <2>2, <2>4 DEF Shape, ArgumentCall, FileCall, MethodForm, CallForm
    <3>2. Child(k, "arg0") = a
      BY <1>3, <2>1, <3>1, OnlyChild
    <3>3. routeDefaultsArray(k) = a
      BY <2>4, <3>2 DEF routeDefaultsArray
    <3> QED BY <2>1, <3>3
  <2> QED BY <1>3, <2>3, <2>4 DEF RouteArray
<1> QED BY <1>1, <1>2, <1>3

LEMMA HelperHit ==
  ASSUME Tree, NEW c \in Literals, ~Shadowed(c), NEW k, InHelper(k, c)
  PROVE  k = Above(c) /\ RouteValue(c)
<1> DEFINE role == tryMatchArgs(k, c).on
           n == Child(k, HelperArgs[role])
<1>1. Form(k) = "helper" /\ CursorIn(HelperArg(k, role), c)
  BY HelperMatch DEF InHelper
<1>2. role \in DOMAIN HelperArgs /\ CursorIn(n, c)
  BY <1>1 DEF HelperArg, CursorIn
<1>3. n # 0 /\ n \in Path[c] /\ Above(n) = k /\ doc[n].slot = HelperArgs[role]
  BY <1>2, ChildIs DEF CursorIn
<1> HIDE DEF role, n
<1>4. RouteValue(n)
  BY <1>1, <1>2, <1>3 DEF RouteValue
<1> QED BY <1>3, <1>4, OnlyRouteValue

(* An argument with a role is the one the cursor is in. *)
LEMMA CursorInRole ==
  ASSUME Tree, NEW c \in Literals, Form(Above(c)) = "helper", NEW role
  PROVE  CursorIn(HelperArg(Above(c), role), c)
           <=> role \in DOMAIN HelperArgs /\ HelperArgs[role] = doc[c].slot
<1> DEFINE p == Above(c)
           n == HelperArg(p, role)
<1>1. c \in Nodes /\ c # 0 /\ p # 0 /\ CursorIn(c, c) /\ Child(p, doc[c].slot) = c
  BY LiteralPlace
<1>2. ASSUME CursorIn(n, c)
      PROVE  role \in DOMAIN HelperArgs /\ HelperArgs[role] = doc[c].slot
  <2>1. role \in DOMAIN HelperArgs /\ n = Child(p, HelperArgs[role])
    BY <1>2 DEF HelperArg, CursorIn
  <2>2. n \in Path[c] /\ Above(n) = p /\ doc[n].slot = HelperArgs[role]
    BY <1>2, <2>1, ChildIs DEF CursorIn
  <2>3. n = c
    BY <1>1, <2>2, OneOnTheWay
  <2> QED BY <2>1, <2>2, <2>3
<1>3. ASSUME role \in DOMAIN HelperArgs, HelperArgs[role] = doc[c].slot
      PROVE  CursorIn(n, c)
  BY <1>1, <1>3 DEF HelperArg
<1> QED BY <1>2, <1>3

(* What the finders of routes make of a literal. *)
AtRequest(c) == OnRequest(Above(c)) /\ doc[c].slot = "arg0"

LEMMA RequestHit ==
  ASSUME Tree, NEW c \in Literals, NEW k \in Nodes
  PROVE  InRequest(k, c) <=> /\ k = Above(c) /\ AtRequest(c)
                             /\ Form(k) \in {"->controller", "->action"}
<1>1. StringAt(Child(k, "arg0"), c) <=> Child(k, "arg0") = c
  BY LiteralPlace, NothingBelowLiteral
<1>2. Child(k, "arg0") = c => Above(c) = k /\ doc[c].slot = "arg0"
  BY LiteralPlace, ChildIs
<1>3. Above(c) = k /\ doc[c].slot = "arg0" /\ Form(k) # "array" => Child(k, "arg0") = c
  BY LiteralPlace
<1>4. OnRequest(k) <=> Form(k) \in MethodForm /\ isRequestChainRoot(chainVarRoot[Child(k, "var")])
  BY OnRequestIs
<1> QED BY <1>1, <1>2, <1>3, <1>4 DEF InRequest, AtRequest, MethodForm

(* The route, request or helper that answers for a literal which no route  *)
(* value lies around is its own.                                           *)
LEMMA RouteOfLiteral ==
  ASSUME Tree, NEW c \in Literals, ~Shadowed(c)
  PROVE  LET p == Above(c)
             r == findRouteAtOffset(c)
             request == AtRequest(c) /\ Form(p) \in {"->controller", "->action"}
         IN  \/ r = NoMatch /\ ~RouteValue(c) /\ ~request
             \/ RouteValue(c) /\ Form(p) = "array" /\ r = extractRouteArray(p, c)
                  /\ r.on = doc[c].slot
             \/ request /\ r = RequestMatch(p)
             \/ RouteValue(c) /\ Form(p) = "helper" /\ r = tryMatchArgs(p, c)
<1> DEFINE p == Above(c)
           r == findRouteAtOffset(c)
           request == AtRequest(c) /\ Form(p) \in {"->controller", "->action"}
           Array == RouteValue(c) /\ Form(p) = "array" /\ r = extractRouteArray(p, c)
                      /\ r.on = doc[c].slot
           Request == request /\ r = RequestMatch(p)
           Helper == RouteValue(c) /\ Form(p) = "helper" /\ r = tryMatchArgs(p, c)
<1>1. ASSUME NEW a, RouteArray(a), extractRouteArray(a, c).on # "none",
             r = extractRouteArray(a, c)
      PROVE  Array
  <2>1. a = p /\ RouteValue(c) /\ extractRouteArray(a, c).on = doc[c].slot
    BY <1>1, ArrayHit
  <2>2. Form(p) = "array"
    BY <1>1, <2>1 DEF RouteArray
  <2> QED BY <1>1, <2>1, <2>2
<1>2. CASE r = routeDefaultsFinder(c) /\ r.on # "none"
  <2>1. PICK k \in Nodes : InDefaults(k, c) /\ r = extractRouteArray(routeDefaultsArray(k), c)
    BY <1>2, DefaultsFound, MatchFields
  <2>2. RouteArray(routeDefaultsArray(k))
    BY <2>1, FoundArrays DEF InDefaults
  <2> QED BY <1>1, <2>1, <2>2 DEF InDefaults
<1>3. CASE r = routeURLFinder(c) /\ r.on # "none"
  <2>1. PICK k \in Nodes : InURL(k, c) /\ r = extractRouteArray(routeURLArray(k), c)
    BY <1>3, URLFound, MatchFields
  <2>2. RouteArray(routeURLArray(k))
    BY <2>1, FoundArrays DEF InURL
  <2> QED BY <1>1, <2>1, <2>2 DEF InURL
<1>4. CASE r = requestFactoryFinder(c) /\ r.on # "none"
  <2>1. PICK k \in Nodes : InRequest(k, c) /\ r = RequestMatch(k)
    BY <1>4, RequestFound, MatchFields
  <2>2. Request
    BY <2>1, RequestHit
  <2> QED BY <2>2
<1>5. CASE r = routeHelperFinder(c) /\ r.on # "none"
  <2>1. PICK k \in Nodes : InHelper(k, c) /\ r = tryMatchArgs(k, c)
    BY <1>5, HelperFound, MatchFields
  <2>2. Helper
    BY <2>1, HelperHit DEF InHelper
  <2> QED BY <2>2
<1>6. CASE r = NoMatch /\ \A m \in {routeDefaultsFinder(c), routeURLFinder(c),
                                    requestFactoryFinder(c), routeHelperFinder(c)} : m.on = "none"
  <2>1. p \in Nodes /\ c \in Nodes /\ CursorIn(c, c) /\ c # 0
    BY LiteralPlace
  <2>2. ~request
    <3> SUFFICES ASSUME request PROVE FALSE
      OBVIOUS
    <3>1. InRequest(p, c)
      BY <2>1, RequestHit
    <3>2. PICK k \in Nodes : requestFactoryFinder(c) = RequestMatch(k)
      BY <2>1, <3>1, RequestFound
    <3>3. RequestMatch(k).on # "none"
      BY MatchFields DEF RequestMatch
    <3> QED BY <1>6, <3>2, <3>3
  <2>3. ~RouteValue(c)
    <3> SUFFICES ASSUME RouteValue(c) PROVE FALSE
      OBVIOUS
    <3>1. CASE doc[c].slot # "none" /\ RouteArray(p)
      <4>1. Form(p) = "array" /\ c \in KeyedItems(p)
        BY <2>1, <3>1 DEF RouteArray, KeyedItems
      <4>2. extractRouteArray(p, c).on # "none"
        BY <2>1, <4>1, RouteArrayMatch
      <4>3. PICK k \in Nodes : p \in {routeDefaultsArray(k), routeURLArray(k)}
        BY <2>1, <3>1, FoundArrays
      <4>4. InDefaults(k, c) \/ InURL(k, c)
        BY <4>1, <4>2, <4>3 DEF InDefaults, InURL
      <4>5. routeDefaultsFinder(c).on # "none" \/ routeURLFinder(c).on # "none"
        BY <4>4, DefaultsFound, URLFound DEF InDefaults, InURL
      <4> QED BY <1>6, <4>5
    <3>2. CASE Form(p) = "helper" /\ \E role \in DOMAIN HelperArgs : HelperArgs[role] = doc[c].slot
      <4>1. PICK role \in DOMAIN HelperArgs : HelperArgs[role] = doc[c].slot
        BY <3>2
      <4>2. CursorIn(HelperArg(p, role), c) /\ role \in Role
        BY <3>2, <4>1, CursorInRole, PhpAssumption
      <4>3. InHelper(p, c)
        BY <3>2, <4>2, HelperMatch DEF InHelper
      <4>4. routeHelperFinder(c).on # "none"
        BY <2>1, <4>3, HelperFound DEF InHelper
      <4> QED BY <1>6, <4>4
    <3> QED BY <3>1, <3>2 DEF RouteValue
  <2> QED BY <1>6, <2>2, <2>3
<1> HIDE DEF r
<1>7. Array \/ Request \/ Helper \/ (r = NoMatch /\ ~RouteValue(c) /\ ~request)
  BY <1>2, <1>3, <1>4, <1>5, <1>6, RouteFound DEF r
<1> QED BY <1>7 DEF r

-----------------------------------------------------------------------------
(* What a literal says, from the inside out and from the outside in. *)

LEMMA ItemValueIs ==
  ASSUME Tree, NEW c, Form(Above(c)) = "array", NEW key \in Role
  PROVE  ValueOf(c, key) = ItemValue(Above(c), key)
<1> DEFINE T == {i \in KeyedItems(Above(c)) : doc[i].slot = key}
<1>1. Siblings(c, key) = T
  <2>1. Siblings(c, key) = {n \in Nodes : Above(n) = Above(c) /\ doc[n].slot = key}
    BY DEF Siblings
  <2>2. key # "none"
    BY DEF Role
  <2> QED BY <2>1, <2>2 DEF KeyedItems
<1> HIDE DEF T
<1>2. ScalarStringVal(0) = 0
  BY NoFormOfNothing DEF ScalarStringVal
<1>3. ItemValue(Above(c), key) = ScalarStringVal(LastOf(T))
  BY DEF ItemValue, T
<1>4. ValueOf(c, key) = IF T = {} THEN 0 ELSE ScalarStringVal(CHOOSE n \in T : \A m \in T : m <= n)
  BY <1>1 DEF ValueOf
<1>5. ScalarStringVal(LastOf(T))
        = IF T = {} THEN 0 ELSE ScalarStringVal(CHOOSE n \in T : \A m \in T : m <= n)
  BY <1>2 DEF LastOf
<1> QED BY <1>3, <1>4, <1>5

LEMMA HelperValueIs ==
  ASSUME Tree, NEW c \in Literals, Form(Above(c)) = "helper", NEW role
  PROVE  ValueOf(c, role) = ScalarStringVal(HelperArg(Above(c), role))
<1> DEFINE p == Above(c)
           T == {n \in Nodes : Above(n) = p /\ doc[n].slot = HelperArgs[role]}
<1>1. ScalarStringVal(0) = 0 /\ p # 0 /\ Form(p) # "array"
  BY NoFormOfNothing, LiteralPlace DEF ScalarStringVal
<1>2. CASE role \notin DOMAIN HelperArgs
  <2>1. Siblings(c, role) = {} /\ HelperArg(p, role) = 0
    BY <1>2 DEF Siblings, HelperArg
  <2> QED BY <1>1, <2>1 DEF ValueOf
<1>3. CASE role \in DOMAIN HelperArgs
  <2> DEFINE n == Child(p, HelperArgs[role])
  <2>1. Siblings(c, role) = T /\ HelperArg(p, role) = n
    BY <1>3 DEF Siblings, HelperArg
  <2>2. CASE T = {}
    <3>1. n = 0
      BY <2>2, ChildIs
    <3>2. ValueOf(c, role) = 0
      BY <2>1, <2>2 DEF ValueOf
    <3> QED BY <1>1, <2>1, <3>1, <3>2
  <2>3. CASE T # {}
    <3>1. n \in T /\ n \in Nat
      BY <2>3, ChildIs, TreeBasics
    <3>2. \A m \in T : m = n
      BY <1>1, <3>1 DEF Tree
    <3> DEFINE k == CHOOSE k \in T : \A m \in T : m <= k
    <3>3. k = n
      <4> HIDE DEF T, n
      <4>1. \A m \in T : m <= n
        BY <3>1, <3>2
      <4>2. k \in T
        BY <3>1, <4>1
      <4> QED BY <3>2, <4>2
    <3>4. ValueOf(c, role) = ScalarStringVal(k)
      <4> HIDE DEF T
      <4> QED BY <2>1, <2>3 DEF ValueOf
    <3> QED BY <2>1, <3>3, <3>4
  <2> QED BY <2>2, <2>3
<1> QED BY <1>2, <1>3

LEMMA HelperRoleIs ==
  ASSUME Tree, NEW c \in Literals, Form(Above(c)) = "helper", RouteValue(c)
  PROVE  HelperOn(Above(c), c) = "action" <=> RoleOf(c) = "action"
<1> DEFINE roles == {r \in DOMAIN HelperArgs : HelperArgs[r] = doc[c].slot}
<1>1. \A role : CursorIn(HelperArg(Above(c), role), c) <=> role \in roles
  BY CursorInRole
<1>2. RoleOf(c) = IF "controller" \in roles THEN "controller"
                  ELSE IF "action" \in roles THEN "action" ELSE "directory"
  BY DEF RoleOf
<1> HIDE DEF roles
<1> QED BY <1>1, <1>2 DEF HelperOn

(* The target of a meaning, if there is one. *)
Said(t) == IF t = Nowhere THEN <<>> ELSE <<t>>

LEMMA LocatedIs ==
  ASSUME NEW m
  PROVE  locateControllerAction(m)
           = Said(IF m.controller = 0 THEN Nowhere
                  ELSE Target("controller", m.controller,
                              IF m.on = "action" THEN m.action ELSE 0, m.directory))
<1>1. \A n, a, d : Target("controller", n, a, d) # Nowhere
  BY DEF Target, Nowhere
<1> QED BY <1>1 DEF locateControllerAction, Said

LEMMA RouteLocated ==
  ASSUME Tree, NEW c \in Literals, ~Shadowed(c)
  PROVE  LET found == locateControllerAction(findRouteAtOffset(c))
         IN  /\ AtRequest(c) => found = Said(RequestMeaning(c))
             /\ ~AtRequest(c) /\ RouteValue(c) => found = Said(RouteMeaning(c))
             /\ ~AtRequest(c) /\ ~RouteValue(c) => found = <<>>
<1> DEFINE p == Above(c)
           r == findRouteAtOffset(c)
           found == locateControllerAction(r)
           Goal == /\ AtRequest(c) => found = Said(RequestMeaning(c))
                   /\ ~AtRequest(c) /\ RouteValue(c) => found = Said(RouteMeaning(c))
                   /\ ~AtRequest(c) /\ ~RouteValue(c) => found = <<>>
           request == AtRequest(c) /\ Form(p) \in {"->controller", "->action"}
<1> SUFFICES Goal
  OBVIOUS
<1>0. AtRequest(c) => ~RouteValue(c) /\ Form(p) \in MethodForm
  BY DEF AtRequest, OnRequest, RouteValue, RouteArray, MethodForm
<1>1. CASE r = NoMatch /\ ~RouteValue(c) /\ ~request
  <2>1. found = <<>>
    BY <1>1, MatchFields DEF locateControllerAction
  <2>2. AtRequest(c) => RequestMeaning(c) = Nowhere
    BY <1>0, <1>1 DEF RequestMeaning
  <2> QED BY <1>1, <2>1, <2>2 DEF Said
<1>2. CASE RouteValue(c) /\ (r.controller = ValueOf(c, "controller"))
             /\ (r.action = ValueOf(c, "action")) /\ (r.directory = ValueOf(c, "directory"))
             /\ (r.on = "action" <=> RoleOf(c) = "action")
  <2>1. found = Said(RouteMeaning(c))
    BY <1>2, LocatedIs DEF RouteMeaning
  <2> QED BY <1>0, <1>2, <2>1
<1>3. CASE RouteValue(c) /\ Form(p) = "array" /\ r = extractRouteArray(p, c) /\ r.on = doc[c].slot
  <2>1. c \in Nodes /\ RoleOf(c) = doc[c].slot
    BY <1>3, LiteralPlace DEF RoleOf
  <2>2. /\ r.controller = ValueOf(c, "controller") /\ r.action = ValueOf(c, "action")
        /\ r.directory = ValueOf(c, "directory")
    BY <1>3, <2>1, RouteArrayMatch, ItemValueIs DEF Role
  <2> QED BY <1>2, <1>3, <2>1, <2>2
<1>4. CASE RouteValue(c) /\ Form(p) = "helper" /\ r = tryMatchArgs(p, c)
  <2>1. /\ r.controller = ValueOf(c, "controller") /\ r.action = ValueOf(c, "action")
        /\ r.directory = ValueOf(c, "directory") /\ r.on = HelperOn(p, c)
    BY <1>4, HelperMatch, HelperValueIs
  <2> QED BY <1>2, <1>4, <2>1, HelperRoleIs
<1>5. CASE request /\ r = RequestMatch(p)
  <2>1. p \in Nodes /\ Child(p, "arg0") = c /\ c # 0
    BY <1>5, LiteralPlace DEF AtRequest
  <2>2. CASE Form(p) = "->controller"
    <3>1. r = routeMatch(c, 0, 0, "controller")
      BY <1>5, <2>1, <2>2 DEF RequestMatch
    <3>2. found = Said(Target("controller", c, 0, 0))
      BY <2>1, <3>1, MatchFields, LocatedIs
    <3>3. RequestMeaning(c) = Target("controller", c, 0, 0)
      BY <2>2 DEF RequestMeaning
    <3> QED BY <1>5, <3>2, <3>3
  <2>3. CASE Form(p) = "->action"
    <3> DEFINE said == chainMethodString[Child(p, "var")]
    <3>1. r = routeMatch(said, c, 0, "action")
      BY <1>5, <2>1, <2>3 DEF RequestMatch
    <3>2. found = Said(IF said = 0 THEN Nowhere ELSE Target("controller", said, c, 0))
      BY <3>1, MatchFields, LocatedIs
    <3>3. ControllerBefore(p) = said
      BY <2>1, ControllerBeforeIs
    <3>4. RequestMeaning(c) = IF said = 0 THEN Nowhere ELSE Target("controller", said, c, 0)
      <4> HIDE DEF said
      <4> QED BY <2>3, <3>3 DEF RequestMeaning
    <3> QED BY <1>5, <3>2, <3>4
  <2> QED BY <1>5, <2>2, <2>3
<1> HIDE DEF Goal
<1> QED BY <1>1, <1>3, <1>4, <1>5, RouteOfLiteral

LEMMA NothingBelowNothing ==
  ASSUME Tree, NEW slot \in Argument
  PROVE  Child(0, slot) = 0
<1> SUFFICES ASSUME Child(0, slot) # 0 PROVE FALSE
  OBVIOUS
<1> DEFINE n == Child(0, slot)
<1>1. n \in Nodes /\ Above(n) = 0 /\ doc[n].slot = slot
  BY ChildIs
<1>2. Placed(n) /\ n \in Nat
  BY <1>1, TreeBasics DEF Tree
<1> HIDE DEF n
<1>3. doc[n].slot = "statement"
  BY <1>1, <1>2 DEF Placed
<1> QED BY <1>1, <1>3 DEF Argument

(* The other finders find the call that a literal is the argument of. *)
LEMMA FirstLiteralIs ==
  ASSUME Tree, NEW c \in Literals, NEW forms, "array" \notin forms, NEW slot
  PROVE  FirstLiteral(forms, slot, c)
           = IF Form(Above(c)) \in forms /\ doc[c].slot = slot THEN Above(c) ELSE 0
<1> DEFINE T == {n \in Nodes : Form(n) \in forms /\ StringAt(Child(n, slot), c)}
           p == Above(c)
<1>1. c \in Nodes /\ IsString(c) /\ c # 0 /\ p \in Nodes
  BY LiteralPlace
<1>2. ASSUME NEW n \in T PROVE n = p /\ Form(p) \in forms /\ doc[c].slot = slot
  <2>1. Child(n, slot) = c /\ Form(n) \in forms
    BY <1>1, NothingBelowLiteral
  <2> QED BY <1>1, <2>1, ChildIs
<1>3. Form(p) \in forms /\ doc[c].slot = slot => p \in T
  <2> SUFFICES ASSUME Form(p) \in forms, doc[c].slot = slot PROVE p \in T
    OBVIOUS
  <2>1. Child(p, slot) = c
    BY LiteralPlace
  <2> QED BY <1>1, <2>1, NothingBelowLiteral
<1>4. T \in SUBSET Nat /\ FirstLiteral(forms, slot, c) = First(T)
  BY TreeBasics DEF FirstLiteral
<1> HIDE DEF T
<1>5. CASE T = {}
  BY <1>3, <1>4, <1>5, FirstIs
<1>6. CASE T # {}
  <2>1. First(T) \in T
    BY <1>4, <1>6, FirstIs
  <2> QED BY <1>2, <1>4, <2>1
<1> QED BY <1>5, <1>6

LEMMA SlotOfLiteral ==
  ASSUME Tree, NEW c \in Literals
  PROVE  /\ Form(Above(c)) \in ArgumentCall => doc[c].slot = "arg0"
         /\ Form(Above(c)) \in FileCall => doc[c].slot = "arg1"
<1>1. Shape(Form(Above(c)), doc[c].slot, "string")
  BY LiteralPlace
<1> QED BY <1>1 DEF Shape, ArgumentCall, FileCall, MethodForm

LEMMA LiteralFound ==
  ASSUME Tree, NEW c \in Literals
  PROVE  LET form == Form(Above(c))
         IN  /\ findViewNameAtOffset(c) = IF form \in ViewForm THEN c ELSE 0
             /\ findClassFactoryAtOffset(c) = IF form = "ORM::factory" THEN c ELSE 0
             /\ findFindFileAtOffset(c)
                  = IF form \in {"find_file classes", "find_file config"} THEN c ELSE 0
             /\ findKohanaMessageAtOffset(c) = IF form = "Kohana::message" THEN c ELSE 0
<1> DEFINE p == Above(c)
<1>1. c \in Nodes /\ IsString(c) /\ c # 0 /\ p # 0 /\ p \in Nodes
  BY LiteralPlace
<1>2. Child(0, "arg0") = 0 /\ Child(0, "arg1") = 0 /\ Form(0) = "absent"
  BY NothingBelowNothing, NoFormOfNothing DEF Argument
<1>3. Form(p) # "array" => Child(p, doc[c].slot) = c
  BY LiteralPlace
<1>4. /\ Form(p) \in ArgumentCall => doc[c].slot = "arg0"
      /\ Form(p) \in FileCall => doc[c].slot = "arg1"
  BY SlotOfLiteral
<1>5. findViewNameAtOffset(c) = IF Form(p) \in ViewForm THEN c ELSE 0
  <2>1. ViewLiteral(c) => Form(p) \in ViewForm
    BY <1>1, ViewArgument DEF ViewLiteral
  <2>2. ASSUME Form(p) \in ViewForm PROVE viewNameArg(p) = c
    BY <1>3, <1>4, <2>2 DEF viewNameArg, ViewForm, ArgumentCall, FileCall
  <2>3. Form(p) \in ViewForm => ViewLiteral(c)
    BY <1>1, <2>2 DEF ViewLiteral
  <2> QED BY <1>1, <2>1, <2>3, ViewFound
<1>6. ASSUME NEW form \in {"ORM::factory", "Kohana::message"}
      PROVE  Child(FirstLiteral({form}, "arg0", c), "arg0") = IF Form(p) = form THEN c ELSE 0
  <2>1. FirstLiteral({form}, "arg0", c) = IF Form(p) = form /\ doc[c].slot = "arg0" THEN p ELSE 0
    BY FirstLiteralIs
  <2> QED BY <1>2, <1>3, <1>4, <2>1 DEF ArgumentCall
<1>7. findClassFactoryAtOffset(c) = IF Form(p) = "ORM::factory" THEN c ELSE 0
  BY <1>6 DEF findClassFactoryAtOffset
<1>8. findKohanaMessageAtOffset(c) = IF Form(p) = "Kohana::message" THEN c ELSE 0
  BY <1>6 DEF findKohanaMessageAtOffset
<1>9. findFindFileAtOffset(c)
        = IF Form(p) \in {"find_file classes", "find_file config"} THEN c ELSE 0
  <2> DEFINE n == FirstLiteral({"find_file views", "find_file classes", "find_file config"}, "arg1", c)
  <2>1. n = IF /\ Form(p) \in {"find_file views", "find_file classes", "find_file config"}
               /\ doc[c].slot = "arg1" THEN p ELSE 0
    BY FirstLiteralIs
  <2>2. findFindFileAtOffset(c) = IF Form(n) = "find_file views" THEN 0 ELSE Child(n, "arg1")
    BY DEF findFindFileAtOffset
  <2> HIDE DEF n
  <2> QED BY <1>2, <1>3, <1>4, <2>1, <2>2 DEF FileCall
<1> QED BY <1>5, <1>7, <1>8, <1>9

LEMMA LocatedAtMostOne ==
  ASSUME NEW m
  PROVE  \/ locateControllerAction(m) = <<>>
         \/ \E t : locateControllerAction(m) = <<t>> /\ t.kind = "controller"
<1> DEFINE t == Target("controller", m.controller, IF m.on = "action" THEN m.action ELSE 0,
                       m.directory)
<1>1. t.kind = "controller"
  BY DEF Target
<1>2. locateControllerAction(m) = IF m.controller = 0 THEN <<>> ELSE <<t>>
  BY DEF locateControllerAction
<1> HIDE DEF t
<1> QED BY <1>1, <1>2

(* What Definition tries: the target of the call and that of a route, the  *)
(* latter first unless the call takes a view.                              *)
OwnTarget(c) ==
  LET form == Form(Above(c))
  IN  CASE form \in ViewForm                                     -> Target("view", c, 0, 0)
        [] form = "ORM::factory"                                 -> Target("model", c, 0, 0)
        [] form \in {"find_file classes", "find_file config"}    -> Target("file", c, 0, 0)
        [] form = "Kohana::message"                              -> Target("message", c, 0, 0)

LEMMA Concats ==
  ASSUME NEW S, NEW x \in S, NEW l \in Seq(S)
  PROVE  /\ <<x>> \o l \o <<>> \o <<>> \o <<>> = <<x>> \o l
         /\ <<>> \o l \o <<x>> \o <<>> \o <<>> = l \o <<x>>
         /\ <<>> \o l \o <<>> \o <<x>> \o <<>> = l \o <<x>>
         /\ <<>> \o l \o <<>> \o <<>> \o <<x>> = l \o <<x>>
         /\ <<>> \o l \o <<>> \o <<>> \o <<>> = l
<1>1. \A s \in Seq(S) : s \o <<>> = s /\ <<>> \o s = s /\ s \o <<x>> \in Seq(S) /\ <<x>> \o s \in Seq(S)
  BY EmptySeq, ConcatEmptySeq, ConcatProperties
<1> QED BY <1>1

LEMMA TargetsAre ==
  ASSUME Tree, NEW c \in Literals
  PROVE  LET form == Form(Above(c))
             route == locateControllerAction(findRouteAtOffset(c))
         IN  Targets(c) = IF form \in ViewForm THEN <<OwnTarget(c)>> \o route
                          ELSE IF form \in FileForm THEN route \o <<OwnTarget(c)>> ELSE route
<1> DEFINE form == Form(Above(c))
           route == locateControllerAction(findRouteAtOffset(c))
           own == OwnTarget(c)
<1>0. c # 0
  BY LiteralPlace
<1>1. \A kind : Named(kind, 0) = <<>> /\ Named(kind, c) = <<Target(kind, c, 0, 0)>>
  BY <1>0 DEF Named
<1>2. PICK S : own \in S /\ route \in Seq(S)
  <2>1. CASE route = <<>>
    <3>1. route \in Seq({own})
      BY <2>1, EmptySeq
    <3> QED BY <3>1
  <2>2. ASSUME NEW t, route = <<t>> PROVE route \in Seq({own, t})
    BY <2>2
  <2> HIDE DEF route
  <2> QED BY <2>1, <2>2, LocatedAtMostOne DEF route
<1>3. Targets(c) = Named("view", findViewNameAtOffset(c)) \o route
                   \o Named("model", findClassFactoryAtOffset(c))
                   \o Named("file", findFindFileAtOffset(c))
                   \o Named("message", findKohanaMessageAtOffset(c))
  BY DEF Targets
<1>4. CASE form \in ViewForm
  <2>1. own = Target("view", c, 0, 0)
    BY <1>4 DEF OwnTarget, ViewForm
  <2>2. Targets(c) = <<own>> \o route \o <<>> \o <<>> \o <<>>
    BY <1>1, <1>3, <1>4, <2>1, LiteralFound DEF ViewForm
  <2> HIDE DEF own, route
  <2> QED BY <1>2, <1>4, <2>2, Concats DEF own, route
<1>5. CASE form = "ORM::factory"
  <2>1. own = Target("model", c, 0, 0)
    BY <1>5 DEF OwnTarget, ViewForm
  <2>2. Targets(c) = <<>> \o route \o <<own>> \o <<>> \o <<>>
    BY <1>1, <1>3, <1>5, <2>1, LiteralFound DEF ViewForm
  <2> HIDE DEF own, route
  <2> QED BY <1>2, <1>5, <2>2, Concats DEF own, route, ViewForm, FileForm
<1>6. CASE form \in {"find_file classes", "find_file config"}
  <2>1. own = Target("file", c, 0, 0)
    BY <1>6 DEF OwnTarget, ViewForm
  <2>2. Targets(c) = <<>> \o route \o <<>> \o <<own>> \o <<>>
    BY <1>1, <1>3, <1>6, <2>1, LiteralFound DEF ViewForm
  <2> HIDE DEF own, route
  <2> QED BY <1>2, <1>6, <2>2, Concats DEF own, route, ViewForm, FileForm
<1>7. CASE form = "Kohana::message"
  <2>1. own = Target("message", c, 0, 0)
    BY <1>7 DEF OwnTarget, ViewForm
  <2>2. Targets(c) = <<>> \o route \o <<>> \o <<>> \o <<own>>
    BY <1>1, <1>3, <1>7, <2>1, LiteralFound DEF ViewForm
  <2> HIDE DEF own, route
  <2> QED BY <1>2, <1>7, <2>2, Concats DEF own, route, ViewForm, FileForm
<1>8. CASE form \notin ViewForm \cup FileForm
  <2>1. Targets(c) = <<>> \o route \o <<>> \o <<>> \o <<>>
    BY <1>1, <1>3, <1>8, LiteralFound DEF ViewForm, FileForm
  <2> HIDE DEF own, route
  <2> QED BY <1>2, <1>8, <2>1, Concats DEF own, route
<1> QED BY <1>4, <1>5, <1>6, <1>7, <1>8 DEF FileForm

LEMMA MeaningIs ==
  ASSUME NEW c
  PROVE  LET form == Form(Above(c))
         IN  /\ form \in ViewForm \cup FileForm
                  => /\ Meaning(c) = OwnTarget(c)
                     /\ ~AtRequest(c) /\ ~RouteValue(c)
                     /\ OwnTarget(c).kind = "view" <=> form \in ViewForm
                     /\ OwnTarget(c) # Nowhere
             /\ form \notin ViewForm \cup FileForm
                  => /\ AtRequest(c) => Meaning(c) = RequestMeaning(c)
                     /\ ~AtRequest(c) /\ RouteValue(c) => Meaning(c) = RouteMeaning(c)
                     /\ ~AtRequest(c) /\ ~RouteValue(c) => Meaning(c) = Nowhere
                     /\ Meaning(c).kind \in {"controller", "nowhere"}
<1> DEFINE form == Form(Above(c))
<1>1. ASSUME form \in ViewForm \cup FileForm
      PROVE  /\ Meaning(c) = OwnTarget(c) /\ ~AtRequest(c) /\ ~RouteValue(c)
             /\ OwnTarget(c).kind = "view" <=> form \in ViewForm
             /\ OwnTarget(c) # Nowhere
  <2>1. ~AtRequest(c)
    BY <1>1 DEF AtRequest, OnRequest, ViewForm, FileForm, MethodForm
  <2>2. ~RouteValue(c)
    BY <1>1 DEF RouteValue, RouteArray, ViewForm, FileForm
  <2> DEFINE Fits(kind) == /\ Meaning(c) = Target(kind, c, 0, 0)
                           /\ OwnTarget(c) = Target(kind, c, 0, 0)
  <2>3. form \in ViewForm => Fits("view")
    BY DEF Meaning, OwnTarget, OnRequest, RouteValue, RouteArray, ViewForm, MethodForm
  <2>4. form = "ORM::factory" => Fits("model")
    BY DEF Meaning, OwnTarget, OnRequest, RouteValue, RouteArray, ViewForm, MethodForm
  <2>5. form \in {"find_file classes", "find_file config"} => Fits("file")
    BY DEF Meaning, OwnTarget, OnRequest, RouteValue, RouteArray, ViewForm, MethodForm
  <2>6. form = "Kohana::message" => Fits("message")
    BY DEF Meaning, OwnTarget, OnRequest, RouteValue, RouteArray, ViewForm, MethodForm
  <2>7. \A kind : Fits(kind) => Meaning(c) = OwnTarget(c) /\ OwnTarget(c).kind = kind
    BY DEF Target
  <2>8. Nowhere.kind = "nowhere"
    BY DEF Nowhere, Target
  <2> HIDE DEF Fits
  <2>9. CASE form \in ViewForm
    BY <2>1, <2>2, <2>3, <2>7, <2>8, <2>9
  <2>10. CASE form \in FileForm
    <3>1. form \notin ViewForm
      BY <2>10 DEF FileForm, ViewForm
    <3>2. PICK kind \in {"model", "file", "message"} : Fits(kind)
      BY <2>4, <2>5, <2>6, <2>10 DEF FileForm
    <3> QED BY <2>1, <2>2, <2>7, <2>8, <3>1, <3>2
  <2> QED BY <1>1, <2>9, <2>10
<1>2. ASSUME form \notin ViewForm \cup FileForm
      PROVE  /\ AtRequest(c) => Meaning(c) = RequestMeaning(c)
             /\ ~AtRequest(c) /\ RouteValue(c) => Meaning(c) = RouteMeaning(c)
             /\ ~AtRequest(c) /\ ~RouteValue(c) => Meaning(c) = Nowhere
             /\ Meaning(c).kind \in {"controller", "nowhere"}
  <2>1. /\ AtRequest(c) => Meaning(c) = RequestMeaning(c)
        /\ ~AtRequest(c) /\ RouteValue(c) => Meaning(c) = RouteMeaning(c)
        /\ ~AtRequest(c) /\ ~RouteValue(c) => Meaning(c) = Nowhere
    BY <1>2 DEF Meaning, AtRequest, OnRequest, RouteValue, RouteArray, FileForm, MethodForm
  <2>2. \A n, a, d : Target("controller", n, a, d).kind = "controller" /\ Nowhere.kind = "nowhere"
    BY DEF Target, Nowhere
  <2>3. RequestMeaning(c).kind \in {"controller", "nowhere"}
    BY <2>2 DEF RequestMeaning
  <2>4. RouteMeaning(c).kind \in {"controller", "nowhere"}
    BY <2>2 DEF RouteMeaning
  <2> QED BY <2>1, <2>2, <2>3, <2>4
<1> QED BY <1>1, <1>2

(* A literal leads where its own call, array or chain says, and nowhere    *)
(* else, in any document, unless it is nested in a route parameter: each of*)
(* the visitors behind Definition walks the whole document from the outside*)
(* in and takes its first match.                                           *)
THEOREM CursorMeansWhatItSays == Spec => []CursorMeansItsCall
<1>1. Tree => CursorMeansItsCall
  <2> SUFFICES ASSUME Tree, NEW c \in Literals, ~Shadowed(c)
               PROVE  Targets(c) = Said(Meaning(c))
    BY DEF CursorMeansItsCall, Said
  <2> DEFINE form == Form(Above(c))
             route == locateControllerAction(findRouteAtOffset(c))
             own == OwnTarget(c)
  <2>1. /\ AtRequest(c) => route = Said(RequestMeaning(c))
        /\ ~AtRequest(c) /\ RouteValue(c) => route = Said(RouteMeaning(c))
        /\ ~AtRequest(c) /\ ~RouteValue(c) => route = <<>>
    BY RouteLocated
  <2>2. Targets(c) = IF form \in ViewForm THEN <<own>> \o route
                     ELSE IF form \in FileForm THEN route \o <<own>> ELSE route
    BY TargetsAre
  <2> HIDE DEF route, own
  <2>3. CASE form \in ViewForm \cup FileForm
    <3>1. Meaning(c) = own /\ route = <<>> /\ own # Nowhere
      BY <2>1, <2>3, MeaningIs DEF own
    <3>2. <<own>> \o <<>> = <<own>> /\ <<>> \o <<own>> = <<own>>
      OBVIOUS
    <3> QED BY <2>2, <2>3, <3>1, <3>2 DEF Said
  <2>4. CASE form \notin ViewForm \cup FileForm
    <3>1. route = Said(Meaning(c))
      BY <2>1, <2>4, MeaningIs DEF Said
    <3> QED BY <2>2, <2>4, <3>1
  <2> QED BY <2>3, <2>4
<1> QED BY <1>1, DocIsTree, PTL

(* The first of two targets that has a file. *)
LEMMA FirstWithFile ==
  ASSUME NEW c, NEW existing, NEW s, NEW x, NEW y, Targets(c) = s, x \in existing
  PROVE  /\ s = <<x>> => Definition(c, existing) = x
         /\ s = <<x, y>> => Definition(c, existing) = x
         /\ s = <<y, x>> => Definition(c, existing) = IF y \in existing THEN y ELSE x
<1> DEFINE T == {k \in DOMAIN s : s[k] \in existing}
           i == First(T)
<1>1. Definition(c, existing) = IF i = 0 THEN Nowhere ELSE s[i]
  BY DEF Definition
<1>2. CASE s = <<x>>
  <2>1. T \in SUBSET Nat /\ 1 \in T /\ \A m \in T : 1 <= m
    BY <1>2
  <2>2. i = 1
    <3> HIDE DEF T
    <3> QED BY <2>1, FirstIs
  <2> QED BY <1>1, <1>2, <2>2
<1>3. CASE s = <<x, y>>
  <2>1. T \in SUBSET Nat /\ 1 \in T /\ \A m \in T : 1 <= m
    BY <1>3
  <2>2. i = 1
    <3> HIDE DEF T
    <3> QED BY <2>1, FirstIs
  <2> QED BY <1>1, <1>3, <2>2
<1>4. CASE s = <<y, x>> /\ y \in existing
  <2>1. T \in SUBSET Nat /\ 1 \in T /\ \A m \in T : 1 <= m
    BY <1>4
  <2>2. i = 1
    <3> HIDE DEF T
    <3> QED BY <2>1, FirstIs
  <2> QED BY <1>1, <1>4, <2>2
<1>5. CASE s = <<y, x>> /\ y \notin existing
  <2>1. T \in SUBSET Nat /\ 2 \in T /\ \A m \in T : 2 <= m
    BY <1>5
  <2>2. i = 2
    <3> HIDE DEF T
    <3> QED BY <2>1, FirstIs
  <2> QED BY <1>1, <1>5, <2>2
<1> HIDE DEF T
<1>6. s = <<x>> => Definition(c, existing) = x
  BY <1>2
<1>7. s = <<x, y>> => Definition(c, existing) = x
  BY <1>3
<1>8. s = <<y, x>> => Definition(c, existing) = IF y \in existing THEN y ELSE x
  BY <1>4, <1>5
<1> QED BY <1>6, <1>7, <1>8

(* The name of a view is found before anything else, that of a model, a    *)
(* file or messages unless a route around it has a file (the order in which*)
(* Definition tries its patterns), in any document and whichever targets   *)
(* have files.                                                             *)
THEOREM OwnNameIsAlwaysFound == Spec => []OwnNameIsFound
<1>1. Tree => OwnNameIsFound
  <2> SUFFICES ASSUME Tree, NEW c \in Literals,
                      Meaning(c).kind \in {"view", "model", "file", "message"},
                      NEW existing, Meaning(c) \in existing
               PROVE  \/ Definition(c, existing) = Meaning(c)
                      \/ /\ Shadowed(c) /\ Meaning(c).kind # "view"
                         /\ Definition(c, existing).kind = "controller"
    BY DEF OwnNameIsFound
  <2> DEFINE form == Form(Above(c))
             route == locateControllerAction(findRouteAtOffset(c))
             own == OwnTarget(c)
  <2>1. form \in ViewForm \cup FileForm
    BY MeaningIs
  <2>2. /\ Meaning(c) = own /\ ~AtRequest(c) /\ ~RouteValue(c)
        /\ own.kind = "view" <=> form \in ViewForm
    BY <2>1, MeaningIs
  <2>3. ~Shadowed(c) => route = <<>>
    BY <2>2, RouteLocated
  <2>4. Targets(c) = IF form \in ViewForm THEN <<own>> \o route ELSE route \o <<own>>
    BY <2>1, TargetsAre
  <2>5. route = <<>> \/ \E t : route = <<t>> /\ t.kind = "controller"
    BY LocatedAtMostOne
  <2> HIDE DEF form, route, own
  <2>6. CASE route = <<>>
    <3>1. <<own>> \o <<>> = <<own>> /\ <<>> \o <<own>> = <<own>>
      OBVIOUS
    <3>2. Targets(c) = <<own>>
      BY <2>4, <2>6, <3>1
    <3> QED BY <2>2, <3>2, FirstWithFile
  <2>7. ASSUME NEW t, route = <<t>>, t.kind = "controller"
        PROVE  \/ Definition(c, existing) = Meaning(c)
               \/ /\ Shadowed(c) /\ Meaning(c).kind # "view"
                  /\ Definition(c, existing).kind = "controller"
    <3>1. <<own>> \o <<t>> = <<own, t>> /\ <<t>> \o <<own>> = <<t, own>>
      <4>1. own \in {own, t} /\ t \in {own, t}
        OBVIOUS
      <4> QED BY <4>1, PairIsConcat
    <3>2. Shadowed(c)
      BY <2>3, <2>7
    <3>3. CASE form \in ViewForm
      <4>1. Targets(c) = <<own, t>>
        BY <2>4, <2>7, <3>1, <3>3
      <4> QED BY <2>2, <4>1, FirstWithFile
    <3>4. CASE form \notin ViewForm
      <4>1. Targets(c) = <<t, own>>
        BY <2>4, <2>7, <3>1, <3>4
      <4>2. Definition(c, existing) = IF t \in existing THEN t ELSE own
        BY <2>2, <4>1, FirstWithFile
      <4> QED BY <2>2, <2>7, <3>2, <3>4, <4>2
    <3> QED BY <3>3, <3>4
  <2> QED BY <2>5, <2>6, <2>7
<1> QED BY <1>1, DocIsTree, PTL
=============================================================================
