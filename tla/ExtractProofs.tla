--------------------------- MODULE ExtractProofs ---------------------------
(***************************************************************************)
(* Proofs about the extraction visitor, for any variables, constructions,   *)
(* methods, statements and chains: its types, that every construction is    *)
(* recorded once and every call attributed once, and, when bodies do not    *)
(* lie within others, that the attributions are those PHP makes.            *)
(*                                                                         *)
(* The traverser holds one node at a time.  While it reads a statement, the *)
(* file is ahead of the visitor: Reading relates the targets still to be    *)
(* assigned and the chain still to be visited to what PHP did already.      *)
(***************************************************************************)
EXTENDS Extract, SequenceLemmas, FunctionTheorems

-----------------------------------------------------------------------------
(* Types.                                                                   *)

Sources == {"SourceFactoryArray", "SourceSet", "SourceBind", "SourceSetGlobal",
            "SourceBindGlobal"}
VarRec == [name : Nat, source : Sources]
UsageRec == [pos : Nat, construct : Construct, vars : Seq(VarRec)]
Call == [method : Method, keys : Seq(Nat)]
FrameType(m) ==
  [holds : [Var -> {Undefined, Text, NoView} \cup 1..m], direct : [Var -> BOOLEAN]]

(* A chain as Statement writes it, when there are b keys already: each      *)
(* array and each call has a key of its own, the next one.                  *)
Numbered(n, b) ==
  /\ n.calls \in Seq(Call)
  /\ \A i \in 1..Len(n.calls) : n.calls[i].keys = <<b + BaseKeys(n.base) + i>>
  /\ n.base.kind = "view" =>
       /\ n.base.construct \in Construct
       /\ n.base.keys \in Seq(Nat)
       /\ \A i \in 1..Len(n.base.keys) : n.base.keys[i] = b + i
       /\ n.base.construct = "find_file" => n.base.keys = <<>> /\ n.calls = <<>>

ChainOK(n, m, ks) ==
  /\ n = Chain(n.base, n.calls)
  /\ n.base.kind \in {"view", "variable", "other"}
  /\ n.base.kind = "view" => n.base.pos \in 1..m
  /\ n.base.kind = "variable" => n.base.var \in Var
  /\ \E b \in 0..ks : Numbered(n, b) /\ b + BaseKeys(n.base) + Len(n.calls) <= ks

(* The keys of its calls, and of the array too. *)
CallNames(n) ==
  {n.calls[i].keys[1] : i \in {j \in 1..Len(n.calls) : n.calls[j].method # "render"}}

ChainNames(n) == CallNames(n) \cup (IF n.base.kind = "view" THEN Range(n.base.keys) ELSE {})

NamesOf(vs) == {vs[i].name : i \in 1..Len(vs)}

Distinct(vs) == \A i, j \in 1..Len(vs) : vs[i].name = vs[j].name => i = j

(* What is recorded: each position once, each name of a usage once. *)
UsagesOK(us, sn, ks) ==
  /\ us \in Seq(UsageRec)
  /\ \A i \in 1..Len(us) : /\ us[i].pos \in sn
                           /\ Distinct(us[i].vars) /\ NamesOf(us[i].vars) \subseteq 1..ks
  /\ \A i, j \in 1..Len(us) : us[i].pos = us[j].pos => i = j

Recs ==
  /\ made \in Nat /\ keys \in Nat /\ written \in 0..MaxStatements
  /\ seen \subseteq 1..made
  /\ UsagesOK(usages, seen, keys)
  /\ scope \in [Var -> 0..Len(usages)]
  /\ globals \in Seq(VarRec) /\ NamesOf(globals) \subseteq 1..keys
  /\ frames \in Seq(FrameType(made))
  /\ exposed \subseteq (1..made) \X (1..keys) /\ owed \subseteq exposed

-----------------------------------------------------------------------------
(* What the traverser holds: nothing, the head of a body, a static call, or *)
(* a chain with the targets it is still to be assigned to.                  *)

Unread(n) == Found(n) /\ n.base.pos \notin seen

Reading(t, n) ==
  /\ todo = <<Node(t, n)>>
  /\ frames # <<>>
  /\ ChainOK(n, made, keys)
  /\ made = Len(usages) + (IF Unread(n) THEN 1 ELSE 0)
  /\ n.base.kind = "variable" =>
       \A i \in 1..Len(usages) : CallNames(n) \cap NamesOf(usages[i].vars) = {}
  /\ t # <<>> /\ Found(n) => Unread(n)

Core(x) == IF x.kind = "chain" THEN x
           ELSE IF x.expr.kind = "chain" THEN x.expr ELSE x.expr.expr

HoldsChain == todo # <<>> /\ Head(todo).kind \in {"chain", "assign"}

Holding ==
  \/ todo = <<>> /\ Len(usages) = made
  \/ todo = <<Body>> /\ Len(usages) = made
  \/ \E m \in {"set_global", "bind_global"}, k \in 1..keys :
       todo = <<Static(m, <<k>>)>> /\ Len(usages) = made
  \/ HoldsChain /\ \E t \in TargetLists, n \in {Core(Head(todo))} : Reading(t, n)

ExtractInv == Recs /\ Holding
-----------------------------------------------------------------------------
(* When bodies do not lie within others: what the scope tracks in the body. *)

(* The view at p is given k. *)
Given(us, p, k) ==
  \E i \in 1..Len(us) : us[i].pos = p /\ k \in NamesOf(us[i].vars)

GivenIsExposed == \A p, k : Given(usages, p, k) => <<p, k>> \in exposed

(* A tracked variable that is not in T holds its usage's view, or a string. *)
ScopeFollows(T) ==
  frames # <<>> => \A v \in Var \ T :
    scope[v] # 0 => Frame.holds[v] \in {Text, usages[scope[v]].pos}

ReadingSound(t, n) ==
  /\ ScopeFollows(Range(t))
  /\ Found(n) => \A k \in ChainNames(n) : <<n.base.pos, k>> \in exposed
  /\ Found(n) => \A v \in Range(t) \cap Var : Frame.holds[v] \in {Text, n.base.pos}
  /\ n.base.kind = "variable" =>
       \/ n.base.var \in Range(t) \/ scope[n.base.var] = 0
       \/ \A k \in CallNames(n) : <<usages[scope[n.base.var]].pos, k>> \in exposed

SoundInv ==
  /\ GivenIsExposed
  /\ \/ todo = <<Body>>
     \/ ~HoldsChain /\ ScopeFollows({})
     \/ HoldsChain /\ \E t \in TargetLists, n \in {Core(Head(todo))} :
                        Reading(t, n) /\ ReadingSound(t, n)

(* A variable that is not in T and was assigned its view directly is        *)
(* tracked.                                                                 *)
DirectTracked(T) ==
  frames # <<>> => \A v \in Var \ T :
    Frame.direct[v] => scope[v] # 0 /\ Frame.holds[v] = usages[scope[v]].pos

(* What the visits of the chain have still to attribute to p. *)
Owing(n, p, k) ==
  \/ Unread(n) /\ p = n.base.pos /\ k \in ChainNames(n)
  \/ /\ n.base.kind = "variable" /\ scope[n.base.var] # 0
     /\ p = usages[scope[n.base.var]].pos /\ k \in CallNames(n)

OwedIsGiven == \A p, k : <<p, k>> \in owed => Given(usages, p, k)

ReadingComplete(t, n) ==
  /\ DirectTracked(Range(t))
  /\ \A p, k : <<p, k>> \in owed => Given(usages, p, k) \/ Owing(n, p, k)
  /\ \A v \in Range(t) \cap Var : Frame.direct[v] =>
       v = t[Len(t)] /\ Found(n) /\ Frame.holds[v] = n.base.pos
  /\ n.base.kind = "variable" => n.base.var \notin Range(t)

CompleteInv ==
  \/ /\ todo = <<Body>> /\ OwedIsGiven
     /\ frames # <<>> => \A v \in Var : ~Frame.direct[v]
  \/ todo # <<Body>> /\ ~HoldsChain /\ DirectTracked({}) /\ OwedIsGiven
  \/ HoldsChain /\ \E t \in TargetLists, n \in {Core(Head(todo))} :
                     Reading(t, n) /\ ReadingComplete(t, n)
-----------------------------------------------------------------------------
(* The variables of calls and chains.                                       *)

LEMMA VarsOfCall ==
  ASSUME NEW c, c.method \in Method \cup {"set_global", "bind_global"},
         NEW k \in Nat, c.keys = <<k>>
  PROVE  /\ extractChainMethodVars(c) \in Seq(VarRec)
         /\ c.method = "render" => Len(extractChainMethodVars(c)) = 0
         /\ c.method # "render" => /\ Len(extractChainMethodVars(c)) = 1
                                   /\ extractChainMethodVars(c)[1].name = k
<1> DEFINE vs == extractChainMethodVars(c)
<1>1. CASE c.method = "render"
  <2>1. vs = <<>>
    BY <1>1 DEF extractChainMethodVars
  <2>2. vs \in Seq(VarRec) /\ Len(vs) = 0
    BY <2>1, EmptySeq
  <2> QED BY <1>1, <2>2
<1>2. CASE c.method # "render"
  <2>1. Source(c.method) \in Sources
    <3>1. c.method \in {"set", "bind", "set_global", "bind_global"}
      BY <1>2, ExtractAssumption
    <3>2. CASE c.method = "set"
      BY <3>2 DEF Source, Sources
    <3>3. CASE c.method = "bind"
      BY <3>3 DEF Source, Sources
    <3>4. CASE c.method = "set_global"
      BY <3>4 DEF Source, Sources
    <3>5. CASE c.method = "bind_global"
      BY <3>5 DEF Source, Sources
    <3> QED BY <3>1, <3>2, <3>3, <3>4, <3>5
  <2> DEFINE v == [name |-> k, source |-> Source(c.method)]
  <2>2. v \in VarRec /\ v.name = k
    BY <2>1 DEF VarRec
  <2>3. vs = [i \in 1..1 |-> v]
    <3>1. DOMAIN c.keys = 1..1 /\ c.keys[1] = k
      OBVIOUS
    <3>2. vs = [i \in 1..1 |-> ExposedVar(c.keys[i], Source(c.method))]
      BY <1>2, <3>1 DEF extractChainMethodVars
    <3>3. \A i \in 1..1 : ExposedVar(c.keys[i], Source(c.method)) = v
      BY <3>1 DEF ExposedVar
    <3> QED BY <3>2, <3>3
  <2> HIDE DEF v, vs
  <2>4. vs \in Seq(VarRec) /\ Len(vs) = 1 /\ vs[1] = v
    BY <2>2, <2>3, IsASeq, LenProperties
  <2> QED BY <1>2, <2>2, <2>4 DEF vs
<1> QED BY <1>1, <1>2

LEMMA VarsOfArray ==
  ASSUME NEW n, NEW b \in Nat, Numbered(n, b), n.base.kind = "view"
  PROVE  /\ extractSecondArgVars(n.base) \in Seq(VarRec)
         /\ Len(extractSecondArgVars(n.base)) = Len(n.base.keys)
         /\ \A i \in 1..Len(n.base.keys) :
              extractSecondArgVars(n.base)[i].name = n.base.keys[i]
<1> DEFINE vs == extractSecondArgVars(n.base)
           v(i) == [name |-> n.base.keys[i], source |-> "SourceFactoryArray"]
<1>1. n.base.keys \in Seq(Nat) /\ Len(n.base.keys) \in Nat
      /\ DOMAIN n.base.keys = 1..Len(n.base.keys)
  BY LenProperties DEF Numbered
<1>2. CASE n.base.construct = "find_file"
  <2>1. vs = <<>> /\ n.base.keys = <<>>
    BY <1>2 DEF Numbered, extractSecondArgVars
  <2>2. vs \in Seq(VarRec) /\ Len(vs) = 0 /\ Len(n.base.keys) = 0
    BY <2>1, EmptySeq
  <2> QED BY <2>2
<1>3. CASE n.base.construct # "find_file"
  <2>1. \A i \in 1..Len(n.base.keys) : v(i) \in VarRec /\ v(i).name = n.base.keys[i]
    BY <1>1, ElementOfSeq DEF VarRec, Sources
  <2>2. vs = [i \in 1..Len(n.base.keys) |-> v(i)]
    BY <1>1, <1>3 DEF extractSecondArgVars, ExposedVar
  <2> HIDE DEF v, vs
  <2>3. vs \in Seq(VarRec) /\ Len(vs) = Len(n.base.keys)
    BY <1>1, <2>1, <2>2, IsASeq, LenProperties
  <2> QED BY <2>1, <2>2, <2>3 DEF vs
<1> QED BY <1>2, <1>3

(* The calls of a numbered chain. *)
LEMMA CallsNumbered ==
  ASSUME NEW n, NEW b \in Nat, Numbered(n, b), NEW i \in 1..Len(n.calls)
  PROVE  /\ BaseKeys(n.base) \in Nat /\ Len(n.calls) \in Nat
         /\ n.calls[i].method \in Method
         /\ n.calls[i].keys = <<b + BaseKeys(n.base) + i>>
         /\ n.calls[i].keys[1] = b + BaseKeys(n.base) + i
<1>1. BaseKeys(n.base) \in Nat
  BY LenProperties DEF BaseKeys, Numbered
<1>2. n.calls[i] \in Call /\ Len(n.calls) \in Nat
  BY ElementOfSeq, LenProperties DEF Numbered
<1>3. n.calls[i].keys = <<b + BaseKeys(n.base) + i>>
  BY DEF Numbered
<1> QED BY <1>1, <1>2, <1>3 DEF Call

(* Every variable of a chain is there once, under its own key. *)
LEMMA ChainVarsOf ==
  ASSUME NEW n, NEW m \in Nat, NEW ks \in Nat, ChainOK(n, m, ks), Found(n)
  PROVE  /\ ChainVars(n) \in Seq(VarRec)
         /\ NamesOf(ChainVars(n)) = ChainNames(n)
         /\ Distinct(ChainVars(n))
         /\ ChainNames(n) \subseteq 1..ks
<1>1. PICK b \in 0..ks : Numbered(n, b) /\ b + BaseKeys(n.base) + Len(n.calls) <= ks
  BY DEF ChainOK
<1>2. n.base.kind = "view" /\ b \in Nat
  BY <1>1 DEF Found
<1> DEFINE A == extractSecondArgVars(n.base)
           rows == [i \in 1..Len(n.calls) |-> extractChainMethodVars(n.calls[i])]
           F == FlattenSeq(rows)
           bk == BaseKeys(n.base)
           a == Len(A)
<1>3. /\ A \in Seq(VarRec) /\ a = bk /\ bk \in Nat /\ a = Len(n.base.keys)
      /\ \A i \in 1..bk : A[i].name = b + i /\ A[i].name = n.base.keys[i]
  <2>1. bk = Len(n.base.keys)
    BY <1>2 DEF BaseKeys
  <2> QED BY <1>1, <1>2, <2>1, VarsOfArray, LenProperties DEF Numbered
<1>4. ASSUME NEW i \in 1..Len(n.calls)
      PROVE  /\ rows[i] \in Seq(VarRec)
             /\ n.calls[i].method = "render" => Len(rows[i]) = 0
             /\ n.calls[i].method # "render" => Len(rows[i]) = 1 /\ rows[i][1].name = b + bk + i
             /\ n.calls[i].keys[1] = b + bk + i
  <2>1. /\ n.calls[i].method \in Method /\ n.calls[i].keys = <<b + bk + i>>
        /\ n.calls[i].keys[1] = b + bk + i /\ b + bk + i \in Nat
    BY <1>1, <1>2, CallsNumbered
  <2>2. rows[i] = extractChainMethodVars(n.calls[i])
    OBVIOUS
  <2> HIDE DEF rows, bk
  <2> QED BY <2>1, <2>2, VarsOfCall
<1>5. Len(n.calls) \in Nat /\ DOMAIN n.calls = 1..Len(n.calls)
  BY <1>1, LenProperties DEF Numbered
<1>6. rows \in Seq(Seq(VarRec)) /\ Len(rows) = Len(n.calls)
  <2>1. rows \in [1..Len(n.calls) -> Seq(VarRec)]
    BY <1>4
  <2> HIDE DEF rows
  <2> QED BY <1>5, <2>1, IsASeq, LenProperties
<1>7. ChainVars(n) = A \o F
  <2>1. rows = [i \in DOMAIN n.calls |-> extractChainMethodVars(n.calls[i])]
    BY <1>5
  <2> QED BY <2>1 DEF ChainVars
<1> HIDE DEF rows, A, bk
<1>8. PICK row, col : Places(rows, Len(rows), F, row, col)
  BY <1>6, FlattenPlaces
<1>9. F \in Seq(VarRec) /\ Len(F) \in Nat
  BY <1>6, FlattenPlaces, LenProperties
<1> HIDE DEF F
<1>10. ASSUME NEW x \in 1..Len(F)
       PROVE  /\ row[x] \in 1..Len(n.calls) /\ col[x] = 1
              /\ n.calls[row[x]].method # "render" /\ F[x].name = b + bk + row[x]
  <2>1. /\ row[x] \in 1..Len(n.calls) /\ col[x] \in 1..Len(rows[row[x]])
        /\ F[x] = rows[row[x]][col[x]]
    BY <1>6, <1>8 DEF Places
  <2>2. n.calls[row[x]].method # "render"
    BY <1>4, <2>1
  <2>3. col[x] = 1
    BY <1>4, <2>1, <2>2
  <2> QED BY <1>4, <2>1, <2>2, <2>3
<1> DEFINE vs == A \o F
<1>11. /\ vs \in Seq(VarRec) /\ Len(vs) = bk + Len(F)
       /\ \A i \in 1..bk : vs[i] = A[i]
       /\ \A i \in 1..Len(F) : vs[bk + i] = F[i]
  <2>1. vs \in Seq(VarRec) /\ Len(vs) = bk + Len(F)
    BY <1>3, <1>9, ConcatProperties
  <2>2. \A i \in 1..(bk + Len(F)) : vs[i] = IF i <= bk THEN A[i] ELSE F[i - bk]
    BY <1>3, <1>9, ConcatProperties
  <2> HIDE DEF vs
  <2>3. ASSUME NEW i \in 1..Len(F) PROVE vs[bk + i] = F[i]
    <3>1. bk + i \in 1..(bk + Len(F)) /\ ~(bk + i <= bk) /\ (bk + i) - bk = i
      BY <1>3, <1>9
    <3> QED BY <2>2, <3>1
  <2>4. ASSUME NEW i \in 1..bk PROVE vs[i] = A[i]
    <3>1. i \in 1..(bk + Len(F)) /\ i <= bk
      BY <1>3, <1>9
    <3> QED BY <2>2, <3>1
  <2> QED BY <2>1, <2>3, <2>4
<1> HIDE DEF vs
<1>20. /\ bk \in Nat /\ Len(F) \in Nat /\ Len(n.calls) \in Nat /\ Len(vs) = bk + Len(F)
       /\ b + bk + Len(n.calls) <= ks /\ b \in Nat /\ ks \in Nat
  BY <1>1, <1>2, <1>3, <1>5, <1>9, <1>11 DEF bk
<1>21. /\ \A x, y \in 1..Len(n.calls) : b + bk + x = b + bk + y => x = y
       /\ \A x \in 1..bk, y \in 1..Len(n.calls) : b + x # b + bk + y
       /\ \A x \in 1..bk : b + x \in 1..ks
       /\ \A y \in 1..Len(n.calls) : b + bk + y \in 1..ks
  <2> DEFINE l == Len(n.calls)
  <2>1. bk \in Nat /\ l \in Nat /\ b \in Nat /\ ks \in Nat /\ b + bk + l <= ks
    BY <1>20
  <2> HIDE DEF l
  <2>2. \A x, y \in 1..l : b + bk + x = b + bk + y => x = y
    BY <2>1
  <2>3. \A x \in 1..bk, y \in 1..l : b + x # b + bk + y
    BY <2>1
  <2>4. (\A x \in 1..bk : b + x \in 1..ks) /\ (\A y \in 1..l : b + bk + y \in 1..ks)
    BY <2>1
  <2> QED BY <2>2, <2>3, <2>4 DEF l
<1>12. ASSUME NEW i \in 1..Len(vs)
       PROVE  \/ i \in 1..bk /\ vs[i].name = b + i /\ vs[i].name = n.base.keys[i]
              \/ /\ i - bk \in 1..Len(F) /\ vs[i].name = b + bk + row[i - bk]
                 /\ row[i - bk] \in 1..Len(n.calls)
                 /\ n.calls[row[i - bk]].method # "render"
                 /\ vs[i].name = n.calls[row[i - bk]].keys[1]
  <2>1. CASE i <= bk
    <3>1. i \in 1..bk
      BY <1>3, <1>11, <2>1
    <3> QED BY <1>3, <1>11, <3>1
  <2>2. CASE ~(i <= bk)
    <3>1. i - bk \in 1..Len(F) /\ bk + (i - bk) = i
      BY <1>20, <2>2
    <3>2. vs[i] = F[i - bk]
      BY <1>11, <3>1
    <3> QED BY <1>4, <1>10, <3>1, <3>2
  <2> QED BY <2>1, <2>2
<1>13. Distinct(vs)
  <2> SUFFICES ASSUME NEW i \in 1..Len(vs), NEW j \in 1..Len(vs), vs[i].name = vs[j].name
               PROVE  i = j
    BY DEF Distinct
  <2>1. CASE i \in 1..bk /\ vs[i].name = b + i
    <3>1. CASE j \in 1..bk /\ vs[j].name = b + j
      <4>1. b + i = b + j
        BY <2>1, <3>1
      <4>2. i \in Nat /\ j \in Nat
        BY <1>3, <2>1, <3>1
      <4> QED BY <1>2, <4>1, <4>2
    <3>2. CASE j - bk \in 1..Len(F) /\ vs[j].name = b + bk + row[j - bk]
               /\ row[j - bk] \in 1..Len(n.calls)
      BY <1>21, <2>1, <3>2
    <3> QED BY <1>12, <3>1, <3>2
  <2>2. CASE i - bk \in 1..Len(F) /\ vs[i].name = b + bk + row[i - bk]
             /\ row[i - bk] \in 1..Len(n.calls)
    <3>1. CASE j \in 1..bk /\ vs[j].name = b + j
      BY <1>21, <2>2, <3>1
    <3>2. CASE j - bk \in 1..Len(F) /\ vs[j].name = b + bk + row[j - bk]
               /\ row[j - bk] \in 1..Len(n.calls)
      <4>1. row[i - bk] = row[j - bk]
        BY <1>21, <2>2, <3>2
      <4>2. i - bk = j - bk
        BY <1>8, <1>10, <2>2, <3>2, <4>1 DEF Places
      <4> QED BY <1>3, <1>9, <1>11, <4>2
    <3> QED BY <1>12, <3>1, <3>2
  <2> QED BY <1>12, <2>1, <2>2
<1>14. Range(n.base.keys) = {n.base.keys[i] : i \in 1..bk}
  BY <1>1, <1>2, <1>3, RangeEquality DEF Numbered
<1>15. ASSUME NEW k \in NamesOf(vs) PROVE k \in ChainNames(n)
  <2>1. PICK i \in 1..Len(vs) : k = vs[i].name
    BY DEF NamesOf
  <2>2. CASE i \in 1..bk /\ vs[i].name = n.base.keys[i]
    BY <1>2, <1>14, <2>1, <2>2 DEF ChainNames
  <2>3. CASE row[i - bk] \in 1..Len(n.calls) /\ n.calls[row[i - bk]].method # "render"
             /\ vs[i].name = n.calls[row[i - bk]].keys[1]
    BY <2>1, <2>3 DEF ChainNames, CallNames
  <2> QED BY <1>12, <2>2, <2>3
<1>16. ASSUME NEW k \in ChainNames(n) PROVE k \in NamesOf(vs) /\ k \in 1..ks
  <2>1. CASE k \in Range(n.base.keys)
    <3>1. PICK i \in 1..bk : k = n.base.keys[i]
      BY <1>14, <2>1
    <3>2. i \in 1..Len(vs)
      BY <1>20, <3>1
    <3>3. vs[i].name = k /\ k = b + i
      BY <1>3, <1>11, <3>1
    <3>4. k \in 1..ks
      BY <1>21, <3>1, <3>3
    <3> QED BY <3>2, <3>3, <3>4 DEF NamesOf
  <2>2. CASE k \in CallNames(n)
    <3>1. PICK i \in 1..Len(n.calls) : n.calls[i].method # "render" /\ k = n.calls[i].keys[1]
      BY <2>2 DEF CallNames
    <3>2. 1 \in 1..Len(rows[i]) /\ i \in 1..Len(rows) /\ k = b + bk + i
      BY <1>4, <1>6, <3>1
    <3>3. PICK x \in 1..Len(F) : row[x] = i /\ col[x] = 1
      BY <1>8, <3>2 DEF Places
    <3>4. bk + x \in 1..Len(vs) /\ vs[bk + x].name = k
      <4>1. bk + x \in 1..Len(vs)
        BY <1>20, <3>3
      <4>2. vs[bk + x] = F[x] /\ F[x].name = b + bk + row[x]
        BY <1>10, <1>11, <3>3
      <4> QED BY <3>2, <3>3, <4>1, <4>2
    <3>5. k \in 1..ks
      BY <1>21, <3>1, <3>2
    <3> QED BY <3>4, <3>5 DEF NamesOf
  <2> QED BY <1>2, <2>1, <2>2 DEF ChainNames
<1>17. NamesOf(vs) = ChainNames(n) /\ ChainNames(n) \subseteq 1..ks
  BY <1>15, <1>16
<1>18. ChainVars(n) = vs
  BY <1>7 DEF vs
<1> QED BY <1>11, <1>13, <1>17, <1>18

(* The last call of a chain has the last key, the receiver the others. *)
LEMMA LastCallOf ==
  ASSUME NEW n, NEW m \in Nat, NEW ks \in Nat, ChainOK(n, m, ks), n.calls # <<>>
  PROVE  /\ extractChainMethodVars(LastCall(n)) \in Seq(VarRec)
         /\ Distinct(extractChainMethodVars(LastCall(n)))
         /\ NamesOf(extractChainMethodVars(LastCall(n))) \subseteq 1..ks
         /\ CallNames(n) = NamesOf(extractChainMethodVars(LastCall(n))) \cup CallNames(Receiver(n))
         /\ NamesOf(extractChainMethodVars(LastCall(n))) \cap CallNames(Receiver(n)) = {}
         /\ ChainOK(Receiver(n), m, ks) /\ Receiver(n).base = n.base
<1>1. PICK b \in 0..ks : Numbered(n, b) /\ b + BaseKeys(n.base) + Len(n.calls) <= ks
  BY DEF ChainOK
<1> DEFINE c == LastCall(n)
           vs == extractChainMethodVars(c)
           r == Receiver(n)
           bk == BaseKeys(n.base)
           l == Len(n.calls)
           k == b + bk + l
<1>2. b \in Nat /\ l \in Nat \ {0} /\ n.calls \in Seq(Call)
  BY <1>1, EmptySeq, LenProperties DEF Numbered
<1>3. bk \in Nat /\ l \in 1..l /\ c.method \in Method /\ c.keys = <<k>>
      /\ c = n.calls[l]
  BY <1>1, <1>2, CallsNumbered DEF LastCall
<1>4. k \in 1..ks
  BY <1>1, <1>2, <1>3
<1>5. /\ vs \in Seq(VarRec)
      /\ c.method = "render" => Len(vs) = 0
      /\ c.method # "render" => Len(vs) = 1 /\ vs[1].name = k
  <2> HIDE DEF c, k
  <2> QED BY <1>3, <1>4, VarsOfCall
<1>6. NamesOf(vs) = IF c.method = "render" THEN {} ELSE {k}
  <2> HIDE DEF vs, c, k
  <2> QED BY <1>5 DEF NamesOf
<1>7. Distinct(vs)
  <2> HIDE DEF vs, c, k
  <2> QED BY <1>5 DEF Distinct
<1>8. /\ r = Chain(n.base, r.calls) /\ r.base = n.base /\ r.calls = SubSeq(n.calls, 1, l - 1)
  BY DEF Receiver, Chain, Front
<1>9. /\ r.calls \in Seq(Call) /\ Len(r.calls) = l - 1
      /\ \A i \in 1..(l - 1) : r.calls[i] = n.calls[i]
  <2>1. l - 1 \in 0..l
    BY <1>2
  <2> QED BY <1>2, <1>8, <2>1, PrefixBasics
<1>10. \A i \in 1..(l - 1) : i \in 1..l /\ i # l
  BY <1>2
<1> HIDE DEF l, r, bk
<1>11. ChainOK(r, m, ks)
  <2>1. \A i \in 1..Len(r.calls) : r.calls[i].keys = <<b + BaseKeys(r.base) + i>>
    BY <1>1, <1>8, <1>9, <1>10 DEF Numbered, l
  <2>2. n.base.kind = "view" => n.base.construct # "find_file"
    BY <1>1 DEF Numbered
  <2>3. Numbered(r, b)
    BY <1>1, <1>8, <1>9, <2>1, <2>2 DEF Numbered
  <2>4. b + BaseKeys(r.base) + Len(r.calls) <= ks
    BY <1>1, <1>2, <1>3, <1>8, <1>9 DEF l, bk
  <2> QED BY <1>8, <2>3, <2>4 DEF ChainOK
<1>12. \A i \in 1..l : n.calls[i].keys[1] = b + bk + i
  BY <1>1, <1>2, CallsNumbered DEF l, bk
<1>13. CallNames(n) = {b + bk + i : i \in {j \in 1..l : n.calls[j].method # "render"}}
  BY <1>12 DEF CallNames, l
<1>14. CallNames(r) = {b + bk + i : i \in {j \in 1..(l - 1) : n.calls[j].method # "render"}}
  BY <1>9, <1>10, <1>12 DEF CallNames
<1>15. \A i \in 1..(l - 1) : b + bk + i # k
  BY <1>2, <1>3
<1>16. \A i \in 1..l : i = l \/ i \in 1..(l - 1)
  BY <1>2
<1>17. CallNames(n) = NamesOf(vs) \cup CallNames(r)
  <2>1. ASSUME NEW x \in CallNames(n) PROVE x \in NamesOf(vs) \cup CallNames(r)
    <3>1. PICK i \in 1..l : n.calls[i].method # "render" /\ x = b + bk + i
      BY <1>13
    <3>2. CASE i = l
      BY <1>3, <1>6, <3>1, <3>2
    <3>3. CASE i \in 1..(l - 1)
      BY <1>14, <3>1, <3>3
    <3> QED BY <1>16, <3>2, <3>3
  <2>2. ASSUME NEW x \in CallNames(r) PROVE x \in CallNames(n)
    BY <1>10, <1>13, <1>14
  <2>3. ASSUME NEW x \in NamesOf(vs) PROVE x \in CallNames(n)
    BY <1>3, <1>6, <1>13
  <2> QED BY <2>1, <2>2, <2>3
<1>18. NamesOf(vs) \cap CallNames(r) = {}
  BY <1>6, <1>14, <1>15
<1>19. NamesOf(vs) \subseteq 1..ks
  BY <1>4, <1>6
<1> QED BY <1>5, <1>7, <1>8, <1>11, <1>17, <1>18, <1>19 DEF r

LEMMA NoCalls ==
  ASSUME NEW n, n.calls = <<>>
  PROVE  CallNames(n) = {}
BY DEF CallNames

(* A call adds its own key to what the receiver gives. *)
LEMMA NamesOfCalls ==
  ASSUME NEW n, NEW m \in Nat, NEW ks \in Nat, ChainOK(n, m, ks)
  PROVE  /\ CallNames(n) \subseteq ChainNames(n)
         /\ n.calls # <<>> => ChainNames(Receiver(n)) \subseteq ChainNames(n)
<1>1. CallNames(n) \subseteq ChainNames(n)
  BY DEF ChainNames
<1>2. ASSUME n.calls # <<>> PROVE ChainNames(Receiver(n)) \subseteq ChainNames(n)
  <2>1. /\ CallNames(n) = NamesOf(extractChainMethodVars(LastCall(n))) \cup CallNames(Receiver(n))
        /\ Receiver(n).base = n.base
    BY <1>2, LastCallOf
  <2> QED BY <2>1 DEF ChainNames
<1> QED BY <1>1, <1>2

-----------------------------------------------------------------------------
(* The list of usages.                                                      *)

LEMMA AttributionsAre ==
  ASSUME usages \in Seq(UsageRec)
  PROVE  \A a : a \in Attributions <=> \E p, k : a = <<p, k>> /\ Given(usages, p, k)
<1>0. DOMAIN usages = 1..Len(usages) /\ \A i \in 1..Len(usages) : usages[i] \in UsageRec
  BY ElementOfSeq, LenProperties
<1>1. DOMAIN usages = 1..Len(usages) /\ \A i \in 1..Len(usages) : usages[i].vars \in Seq(VarRec)
  BY <1>0 DEF UsageRec
<1>2. ASSUME NEW i \in 1..Len(usages), NEW k
      PROVE  k \in NamesOf(usages[i].vars) <=> \E x \in Range(usages[i].vars) : k = x.name
  <2> DEFINE vs == usages[i].vars
  <2>1. vs \in Seq(VarRec)
    BY <1>1
  <2> HIDE DEF vs
  <2>2. \A x : x \in Range(vs) <=> \E j \in 1..Len(vs) : x = vs[j]
    BY <2>1, ElementsOfSeq
  <2>3. \A j \in 1..Len(vs) : vs[j] \in Range(vs)
    BY <2>2
  <2>4. k \in NamesOf(vs) <=> \E x \in Range(vs) : k = x.name
    BY <2>2, <2>3 DEF NamesOf
  <2> QED BY <2>4 DEF vs
<1>3. \A a : a \in Attributions <=>
        \E i \in 1..Len(usages) : \E x \in Range(usages[i].vars) : a = <<usages[i].pos, x.name>>
  <2>1. \A a : a \in Attributions <=>
          \E i \in DOMAIN usages : \E x \in Range(usages[i].vars) : a = <<usages[i].pos, x.name>>
    <3> DEFINE S(i) == {<<usages[i].pos, x.name>> : x \in Range(usages[i].vars)}
    <3>1. Attributions = UNION {S(i) : i \in DOMAIN usages}
      BY DEF Attributions
    <3>2. \A i, a : a \in S(i) <=> \E x \in Range(usages[i].vars) : a = <<usages[i].pos, x.name>>
      OBVIOUS
    <3> HIDE DEF S
    <3>3. \A a : a \in UNION {S(i) : i \in DOMAIN usages} <=> \E i \in DOMAIN usages : a \in S(i)
      OBVIOUS
    <3> QED BY <3>1, <3>2, <3>3
  <2> QED BY <1>1, <2>1
<1> SUFFICES ASSUME NEW a
             PROVE  a \in Attributions <=> \E p, k : a = <<p, k>> /\ Given(usages, p, k)
  OBVIOUS
<1>4. ASSUME a \in Attributions PROVE \E p, k : a = <<p, k>> /\ Given(usages, p, k)
  <2>1. PICK i \in 1..Len(usages) : \E x \in Range(usages[i].vars) : a = <<usages[i].pos, x.name>>
    BY <1>3, <1>4
  <2>2. PICK x \in Range(usages[i].vars) : a = <<usages[i].pos, x.name>>
    BY <2>1
  <2>3. Given(usages, usages[i].pos, x.name)
    BY <1>2, <2>2 DEF Given
  <2> QED BY <2>2, <2>3
<1>5. ASSUME NEW p, NEW k, a = <<p, k>>, Given(usages, p, k) PROVE a \in Attributions
  <2>1. PICK i \in 1..Len(usages) : usages[i].pos = p /\ k \in NamesOf(usages[i].vars)
    BY <1>5 DEF Given
  <2>2. PICK x \in Range(usages[i].vars) : k = x.name
    BY <1>2, <2>1
  <2> QED BY <1>3, <1>5, <2>1, <2>2
<1> QED BY <1>4, <1>5

(* Appending a usage. *)
LEMMA AppendUsage ==
  ASSUME NEW us, NEW sn, NEW ks, UsagesOK(us, sn, ks),
         NEW u \in UsageRec, u.pos \notin sn, Distinct(u.vars), NamesOf(u.vars) \subseteq 1..ks
  PROVE  /\ UsagesOK(Append(us, u), sn \cup {u.pos}, ks)
         /\ Len(Append(us, u)) = Len(us) + 1
         /\ \A i \in 1..Len(us) : Append(us, u)[i] = us[i]
         /\ Append(us, u)[Len(us) + 1] = u
         /\ \A p, k : Given(Append(us, u), p, k)
                        <=> Given(us, p, k) \/ (p = u.pos /\ k \in NamesOf(u.vars))
<1> DEFINE all == Append(us, u)
           l == Len(us)
<1>1. us \in Seq(UsageRec) /\ l \in Nat
  BY LenProperties DEF UsagesOK
<1>2. /\ all \in Seq(UsageRec) /\ Len(all) = l + 1
      /\ \A i \in 1..l : all[i] = us[i]
      /\ all[l + 1] = u
  BY <1>1, AppendProperties
<1>3. \A i \in 1..(l + 1) : i \in 1..l \/ i = l + 1
  BY <1>1
<1>4. \A i \in 1..l : i \in 1..(l + 1) /\ l + 1 \in 1..(l + 1)
  BY <1>1
<1>5. l + 1 \in 1..(l + 1)
  BY <1>1
<1> HIDE DEF all, l
<1>6. \A i \in 1..(l + 1) : /\ all[i].pos \in sn \cup {u.pos}
                            /\ Distinct(all[i].vars) /\ NamesOf(all[i].vars) \subseteq 1..ks
  BY <1>2, <1>3 DEF UsagesOK, l
<1>7. ASSUME NEW i \in 1..(l + 1), NEW j \in 1..(l + 1), all[i].pos = all[j].pos PROVE i = j
  <2>1. \A x \in 1..l : all[x].pos # u.pos
    BY <1>2 DEF UsagesOK, l
  <2>2. CASE i \in 1..l /\ j \in 1..l
    BY <1>2, <1>7, <2>2 DEF UsagesOK, l
  <2>3. CASE i = l + 1 /\ j \in 1..l
    BY <1>2, <1>7, <2>1, <2>3
  <2>4. CASE i \in 1..l /\ j = l + 1
    BY <1>2, <1>7, <2>1, <2>4
  <2>5. CASE i = l + 1 /\ j = l + 1
    BY <2>5
  <2> QED BY <1>3, <2>2, <2>3, <2>4, <2>5
<1>8. UsagesOK(all, sn \cup {u.pos}, ks)
  BY <1>2, <1>6, <1>7 DEF UsagesOK
<1>9. ASSUME NEW p, NEW k
      PROVE  Given(all, p, k) <=> Given(us, p, k) \/ (p = u.pos /\ k \in NamesOf(u.vars))
  <2>1. ASSUME Given(all, p, k) PROVE Given(us, p, k) \/ (p = u.pos /\ k \in NamesOf(u.vars))
    <3>1. PICK i \in 1..(l + 1) : all[i].pos = p /\ k \in NamesOf(all[i].vars)
      BY <1>2, <2>1 DEF Given
    <3>2. CASE i \in 1..l
      BY <1>2, <3>1, <3>2 DEF Given, l
    <3>3. CASE i = l + 1
      BY <1>2, <3>1, <3>3
    <3> QED BY <1>3, <3>2, <3>3
  <2>2. ASSUME Given(us, p, k) PROVE Given(all, p, k)
    <3>1. PICK i \in 1..l : us[i].pos = p /\ k \in NamesOf(us[i].vars)
      BY <2>2 DEF Given, l
    <3> QED BY <1>2, <1>4, <3>1 DEF Given
  <2>3. ASSUME p = u.pos, k \in NamesOf(u.vars) PROVE Given(all, p, k)
    BY <1>2, <1>5, <2>3 DEF Given
  <2> QED BY <2>1, <2>2, <2>3
<1> QED BY <1>2, <1>8, <1>9 DEF all, l

(* Adding variables to a usage. *)
LEMMA ConcatVars ==
  ASSUME NEW vs \in Seq(VarRec), NEW ws \in Seq(VarRec)
  PROVE  /\ vs \o ws \in Seq(VarRec)
         /\ NamesOf(vs \o ws) = NamesOf(vs) \cup NamesOf(ws)
         /\ Distinct(vs) /\ Distinct(ws) /\ NamesOf(vs) \cap NamesOf(ws) = {}
              => Distinct(vs \o ws)
<1> DEFINE a == Len(vs)
           b == Len(ws)
           all == vs \o ws
<1>1. a \in Nat /\ b \in Nat
  BY LenProperties
<1>2. /\ all \in Seq(VarRec) /\ Len(all) = a + b
      /\ \A i \in 1..(a + b) : all[i] = IF i <= a THEN vs[i] ELSE ws[i - a]
  BY ConcatProperties
<1> HIDE DEF a, b, all
<1>3. \A i \in 1..(a + b) : \/ i \in 1..a /\ all[i] = vs[i]
                            \/ i - a \in 1..b /\ all[i] = ws[i - a]
  <2> TAKE i \in 1..(a + b)
  <2>1. CASE i <= a
    <3>1. i \in 1..a
      BY <1>1, <2>1
    <3> QED BY <1>2, <2>1, <3>1
  <2>2. CASE ~(i <= a)
    <3>1. i - a \in 1..b
      BY <1>1, <2>2
    <3> QED BY <1>2, <2>2, <3>1
  <2> QED BY <2>1, <2>2
<1>4. /\ \A i \in 1..a : i \in 1..(a + b) /\ all[i] = vs[i]
      /\ \A i \in 1..b : a + i \in 1..(a + b) /\ all[a + i] = ws[i]
  <2>1. ASSUME NEW i \in 1..a PROVE i \in 1..(a + b) /\ all[i] = vs[i]
    <3>1. i \in 1..(a + b) /\ i <= a
      BY <1>1
    <3> QED BY <1>2, <3>1
  <2>2. ASSUME NEW i \in 1..b PROVE a + i \in 1..(a + b) /\ all[a + i] = ws[i]
    <3>1. a + i \in 1..(a + b) /\ ~(a + i <= a) /\ (a + i) - a = i
      BY <1>1
    <3> QED BY <1>2, <3>1
  <2> QED BY <2>1, <2>2
<1>5. ASSUME NEW k \in NamesOf(all) PROVE k \in NamesOf(vs) \cup NamesOf(ws)
  <2>1. PICK i \in 1..(a + b) : k = all[i].name
    BY <1>2 DEF NamesOf
  <2> QED BY <1>3, <2>1 DEF NamesOf, a, b
<1>6. NamesOf(vs) \cup NamesOf(ws) \subseteq NamesOf(all)
  <2>1. NamesOf(vs) \subseteq NamesOf(all)
    BY <1>2, <1>4 DEF NamesOf, a
  <2>2. ASSUME NEW k \in NamesOf(ws) PROVE k \in NamesOf(all)
    <3>1. PICK i \in 1..b : k = ws[i].name
      BY DEF NamesOf, b
    <3>2. a + i \in 1..Len(all) /\ all[a + i] = ws[i]
      BY <1>2, <1>4
    <3> QED BY <3>1, <3>2 DEF NamesOf
  <2> QED BY <2>1, <2>2
<1>7. ASSUME Distinct(vs), Distinct(ws), NamesOf(vs) \cap NamesOf(ws) = {} PROVE Distinct(all)
  <2> SUFFICES ASSUME NEW i \in 1..(a + b), NEW j \in 1..(a + b), all[i].name = all[j].name
               PROVE  i = j
    BY <1>2 DEF Distinct
  <2>1. CASE i \in 1..a /\ all[i] = vs[i] /\ j \in 1..a /\ all[j] = vs[j]
    BY <1>7, <2>1 DEF Distinct, a
  <2>2. CASE i - a \in 1..b /\ all[i] = ws[i - a] /\ j - a \in 1..b /\ all[j] = ws[j - a]
    <3>1. i - a = j - a
      BY <1>7, <2>2 DEF Distinct, b
    <3> QED BY <1>1, <3>1
  <2>3. CASE i \in 1..a /\ all[i] = vs[i] /\ j - a \in 1..b /\ all[j] = ws[j - a]
    BY <1>7, <2>3 DEF NamesOf, a, b
  <2>4. CASE i - a \in 1..b /\ all[i] = ws[i - a] /\ j \in 1..a /\ all[j] = vs[j]
    BY <1>7, <2>4 DEF NamesOf, a, b
  <2> QED BY <1>3, <2>1, <2>2, <2>3, <2>4
<1> QED BY <1>2, <1>5, <1>6, <1>7 DEF all

(* new is us with vs added to the variables of usage g. *)
Added(new, us, g, vs) == new = [us EXCEPT ![g].vars = @ \o vs]

LEMMA AttributeUsage ==
  ASSUME NEW us, NEW sn, NEW ks, UsagesOK(us, sn, ks), NEW g \in 1..Len(us),
         NEW vs \in Seq(VarRec), Distinct(vs), NamesOf(vs) \subseteq 1..ks,
         NamesOf(vs) \cap NamesOf(us[g].vars) = {},
         NEW new, Added(new, us, g, vs)
  PROVE  /\ UsagesOK(new, sn, ks)
         /\ Len(new) = Len(us)
         /\ \A i \in 1..Len(us) : new[i].pos = us[i].pos
         /\ \A i \in 1..Len(us) : NamesOf(new[i].vars)
              = NamesOf(us[i].vars) \cup (IF i = g THEN NamesOf(vs) ELSE {})
         /\ \A p, k : Given(new, p, k) <=> Given(us, p, k) \/ (p = us[g].pos /\ k \in NamesOf(vs))
<1> DEFINE l == Len(us)
<1>1. us \in Seq(UsageRec) /\ l \in Nat /\ us \in [1..l -> UsageRec]
  BY LenProperties DEF UsagesOK
<1>2. us[g].vars \in Seq(VarRec) /\ us[g] \in UsageRec
  BY <1>1 DEF UsageRec
<1>3. us[g].vars \o vs \in Seq(VarRec) /\ Distinct(us[g].vars \o vs)
      /\ NamesOf(us[g].vars \o vs) = NamesOf(us[g].vars) \cup NamesOf(vs)
  BY <1>2, ConcatVars DEF UsagesOK
<1>4. /\ new \in [1..l -> UsageRec]
      /\ \A i \in 1..l : i # g => new[i] = us[i]
      /\ new[g].pos = us[g].pos /\ new[g].vars = us[g].vars \o vs
  <2>1. new = [us EXCEPT ![g] = [us[g] EXCEPT !.vars = us[g].vars \o vs]]
    BY DEF Added
  <2>2. /\ [us[g] EXCEPT !.vars = us[g].vars \o vs] \in UsageRec
        /\ [us[g] EXCEPT !.vars = us[g].vars \o vs].pos = us[g].pos
        /\ [us[g] EXCEPT !.vars = us[g].vars \o vs].vars = us[g].vars \o vs
    BY <1>2, <1>3 DEF UsageRec
  <2> QED BY <1>1, <2>1, <2>2
<1> HIDE DEF l
<1>5. new \in Seq(UsageRec) /\ Len(new) = l
  <2>1. l \in Nat /\ new \in [1..l -> UsageRec]
    BY <1>1, <1>4
  <2>2. new \in Seq(UsageRec) /\ DOMAIN new = 1..l
    BY <2>1, IsASeq
  <2> QED BY <2>1, <2>2, LenProperties
<1>6. \A i \in 1..l : new[i].pos = us[i].pos
  BY <1>4
<1>7. \A i \in 1..l : NamesOf(new[i].vars)
              = NamesOf(us[i].vars) \cup (IF i = g THEN NamesOf(vs) ELSE {})
  BY <1>3, <1>4
<1>8. \A i \in 1..l : Distinct(new[i].vars) /\ NamesOf(new[i].vars) \subseteq 1..ks
  BY <1>3, <1>4, <1>7 DEF UsagesOK, l
<1>9. UsagesOK(new, sn, ks)
  BY <1>5, <1>6, <1>8 DEF UsagesOK, l
<1>10. ASSUME NEW p, NEW k
       PROVE  Given(new, p, k) <=> Given(us, p, k) \/ (p = us[g].pos /\ k \in NamesOf(vs))
  BY <1>5, <1>6, <1>7 DEF Given, l
<1> QED BY <1>5, <1>6, <1>7, <1>9, <1>10 DEF l

-----------------------------------------------------------------------------
(* The nodes of a statement.                                                *)

LEMMA NodeCases ==
  ASSUME NEW t \in TargetLists, NEW n, n.kind = "chain"
  PROVE  /\ Node(t, n).kind = IF t = <<>> THEN "chain" ELSE "assign"
         /\ t = <<>> => Node(t, n) = n
         /\ t # <<>> => /\ Node(t, n).var = t[1] /\ Node(t, n).expr = Node(Tail(t), n)
                        /\ Tail(t) \in TargetLists
                        /\ t[1] \in Var \cup {Property}
                        /\ Tail(t) # <<>> => t[1] \in Var
                        /\ Range(t) = {t[1]} \cup Range(Tail(t))
                        /\ t[1] \notin Range(Tail(t))
                        /\ Tail(t) = <<>> => t[1] = t[Len(t)]
                        /\ Tail(t) # <<>> => t[Len(t)] = Tail(t)[Len(Tail(t))] /\ t[1] # t[Len(t)]
         /\ Core(Node(t, n)) = n
         /\ Range(t) \subseteq Var \cup {Property}
<1>1. CASE t = <<>>
  <2>1. Node(t, n) = n /\ Range(t) = {}
    BY <1>1 DEF Node, Range
  <2> QED BY <1>1, <2>1 DEF Core
<1>2. CASE \E v \in Var \cup {Property} : t = <<v>>
  <2>1. PICK v \in Var \cup {Property} : t = <<v>>
    BY <1>2
  <2>2. /\ Len(t) = 1 /\ t # <<>> /\ t[1] = v /\ Tail(t) = <<>>
        /\ Range(t) = {v} /\ Range(Tail(t)) = {}
    BY <2>1 DEF Range
  <2>3. Node(t, n) = Assignment(v, n) /\ Node(Tail(t), n) = n
    BY <2>2 DEF Node
  <2>4. Node(t, n).kind = "assign" /\ Node(t, n).var = v /\ Node(t, n).expr = n
    BY <2>3 DEF Assignment
  <2>5. <<>> \in TargetLists
    BY DEF TargetLists
  <2> QED BY <2>2, <2>3, <2>4, <2>5 DEF Core
<1>3. CASE \E v, w \in Var : v # w /\ t = <<v, w>>
  <2>1. PICK v, w \in Var : v # w /\ t = <<v, w>>
    BY <1>3
  <2>2. /\ Len(t) = 2 /\ t # <<>> /\ t[1] = v /\ t[2] = w /\ Tail(t) = <<w>>
        /\ Len(Tail(t)) = 1 /\ Tail(t)[1] = w /\ Tail(t) # <<>>
        /\ Range(t) = {v, w} /\ Range(Tail(t)) = {w}
    BY <2>1 DEF Range
  <2>3. Node(t, n) = Assignment(v, Assignment(w, n)) /\ Node(Tail(t), n) = Assignment(w, n)
    <3>1. Node(t, n) = Assignment(t[1], Assignment(t[2], n))
      BY <2>2 DEF Node
    <3> DEFINE r == Tail(t)
    <3>2. Len(r) = 1 /\ r[1] = w
      BY <2>2
    <3> HIDE DEF r
    <3>3. Node(r, n) = Assignment(r[1], n)
      BY <3>2 DEF Node
    <3> QED BY <2>2, <3>1, <3>2, <3>3 DEF r
  <2>4. /\ Node(t, n).kind = "assign" /\ Node(t, n).var = v
        /\ Node(t, n).expr = Assignment(w, n) /\ Node(t, n).expr.kind = "assign"
        /\ Node(t, n).expr.expr = n
    BY <2>3 DEF Assignment
  <2>5. <<w>> \in TargetLists
    BY DEF TargetLists
  <2>6. Core(Node(t, n)) = n
    BY <2>4 DEF Core
  <2> QED BY <2>1, <2>2, <2>3, <2>4, <2>5, <2>6
<1>4. \/ t = <<>> \/ \E v \in Var \cup {Property} : t = <<v>>
      \/ \E v, w \in Var : v # w /\ t = <<v, w>>
  BY DEF TargetLists
<1> QED BY <1>1, <1>2, <1>3, <1>4

LEMMA NodeKind ==
  ASSUME NEW t \in TargetLists, NEW n, n.kind = "chain", t # <<>>
  PROVE  Node(t, n).kind = "assign"
BY NodeCases

LEMMA HoldsReading ==
  ASSUME NEW t \in TargetLists, NEW n, n.kind = "chain", NEW x, x = <<Node(t, n)>>
  PROVE  x # <<>> /\ Head(x) = Node(t, n) /\ Tail(x) = <<>>
         /\ Head(x).kind \in {"chain", "assign"} /\ Core(Head(x)) = n
<1>1. x # <<>> /\ Head(x) = Node(t, n) /\ Tail(x) = <<>>
  OBVIOUS
<1> QED BY <1>1, NodeCases

LEMMA ChainIsChain ==
  ASSUME NEW n, NEW m, NEW ks, ChainOK(n, m, ks)
  PROVE  n.kind = "chain" /\ (Found(n) <=> n.base.kind = "view")
BY DEF ChainOK, Chain, Found

(* What is recorded of a chain. *)
LEMMA RecordedOf ==
  ASSUME Recs, NEW n, ChainOK(n, made, keys)
  PROVE  /\ UsagesOK(Recorded(n), Marked(n), keys) /\ Marked(n) \subseteq 1..made
         /\ Len(usages) \in Nat
         /\ Len(Recorded(n)) = Len(usages) + (IF Unread(n) THEN 1 ELSE 0)
         /\ ~Unread(n) => Recorded(n) = usages
         /\ Unread(n) => /\ Recorded(n) = Append(usages, Usage(n))
                         /\ Marked(n) = seen \cup {n.base.pos}
                         /\ Recorded(n)[Len(usages) + 1].pos = n.base.pos
         /\ \A i \in 1..Len(usages) : Recorded(n)[i] = usages[i]
         /\ \A p, k : Given(Recorded(n), p, k)
              <=> Given(usages, p, k) \/ (Unread(n) /\ p = n.base.pos /\ k \in ChainNames(n))
         /\ Found(n) => n.base.pos \in Marked(n)
<1>1. made \in Nat /\ keys \in Nat /\ UsagesOK(usages, seen, keys) /\ seen \subseteq 1..made
      /\ Len(usages) \in Nat
  BY LenProperties DEF Recs, UsagesOK
<1>2. n.kind = "chain" /\ (Found(n) <=> n.base.kind = "view")
  BY ChainIsChain
<1>3. CASE Unread(n)
  <2>1. Found(n) /\ n.base.pos \notin seen /\ n.base.pos \in 1..made
    BY <1>2, <1>3 DEF Unread, ChainOK
  <2>2. Recorded(n) = Append(usages, Usage(n)) /\ Marked(n) = seen \cup {n.base.pos}
    BY <2>1 DEF Recorded, Marked
  <2>3. /\ ChainVars(n) \in Seq(VarRec) /\ NamesOf(ChainVars(n)) = ChainNames(n)
        /\ Distinct(ChainVars(n)) /\ ChainNames(n) \subseteq 1..keys
    BY <1>1, <2>1, ChainVarsOf
  <2>4. n.base.construct \in Construct
    BY <1>2, <2>1 DEF ChainOK, Numbered
  <2> DEFINE u == Usage(n)
  <2>5. /\ u \in UsageRec /\ u.pos = n.base.pos /\ u.vars = ChainVars(n)
    BY <1>1, <2>1, <2>3, <2>4 DEF Usage, UsageRec
  <2> HIDE DEF u
  <2>6. /\ UsagesOK(Append(usages, u), seen \cup {u.pos}, keys)
        /\ Len(Append(usages, u)) = Len(usages) + 1
        /\ \A i \in 1..Len(usages) : Append(usages, u)[i] = usages[i]
        /\ Append(usages, u)[Len(usages) + 1] = u
        /\ \A p, k : Given(Append(usages, u), p, k)
                       <=> Given(usages, p, k) \/ (p = u.pos /\ k \in NamesOf(u.vars))
    <3>1. UsagesOK(usages, seen, keys) /\ u \in UsageRec /\ u.pos \notin seen
          /\ Distinct(u.vars) /\ NamesOf(u.vars) \subseteq 1..keys
      BY <1>1, <2>1, <2>3, <2>5
    <3> QED BY <3>1, AppendUsage
  <2>7. Recorded(n) = Append(usages, u)
    BY <2>2 DEF u
  <2> QED BY <1>1, <1>3, <2>1, <2>2, <2>3, <2>5, <2>6, <2>7 DEF u
<1>4. CASE ~Unread(n)
  <2>1. Recorded(n) = usages /\ Marked(n) = seen
    BY <1>2, <1>4 DEF Unread, Recorded, Marked
  <2>2. Found(n) => n.base.pos \in Marked(n)
    BY <1>4, <2>1 DEF Unread
  <2> QED BY <1>1, <1>4, <2>1, <2>2
<1> QED BY <1>3, <1>4

-----------------------------------------------------------------------------
(* The visitor's steps on a chain.                                          *)

LEMMA OneNode ==
  ASSUME NEW x
  PROVE  <<x>> \o <<>> = <<x>>
BY ConcatEmptySeq

(* ExprAssign: the target takes the chain's usage, new in the list, or is   *)
(* untracked; a property is neither.                                        *)
LEMMA AssignStep ==
  ASSUME Recs, NEW t \in TargetLists, NEW n, Reading(t, n), ExprAssign,
         NEW tracks, tracks = (t[1] # Property /\ Found(n) /\ Tail(t) = <<>>)
  PROVE  /\ t # <<>> /\ todo' = <<Node(Tail(t), n)>>
         /\ UNCHANGED globals /\ UNCHANGED fileVars
         /\ tracks => /\ Unread(n) /\ seen' = Marked(n) /\ usages' = Recorded(n)
                      /\ scope' = [scope EXCEPT ![t[1]] = Len(usages) + 1]
         /\ ~tracks => UNCHANGED <<seen, usages>>
         /\ ~tracks /\ t[1] # Property => scope' = [scope EXCEPT ![t[1]] = 0]
         /\ t[1] = Property => scope' = scope
<1>1. todo = <<Node(t, n)>> /\ ChainOK(n, made, keys) /\ n.kind = "chain"
      /\ (t # <<>> /\ Found(n) => Unread(n))
  BY ChainIsChain DEF Reading
<1>2. Head(todo) = Node(t, n) /\ Tail(todo) = <<>>
  BY <1>1
<1>3. t # <<>> /\ Node(t, n).var = t[1] /\ Node(t, n).expr = Node(Tail(t), n)
      /\ Tail(t) \in TargetLists
  BY <1>1, <1>2, NodeCases DEF ExprAssign, Visits
<1> DEFINE v == t[1]
           x == Node(Tail(t), n)
           new == v # Property /\ Found(x) /\ x.base.pos \notin seen
<1>4. /\ seen' = (IF new THEN seen \cup {x.base.pos} ELSE seen)
      /\ usages' = (IF new THEN Append(usages, Usage(x)) ELSE usages)
      /\ scope' = (IF new THEN [scope EXCEPT ![v] = NextIndex]
                   ELSE IF v # Property /\ ~Found(x) THEN Untracked(v) ELSE scope)
      /\ todo' = <<x>> \o Tail(todo)
      /\ UNCHANGED globals /\ UNCHANGED fileVars
  BY <1>2, <1>3 DEF ExprAssign
<1>5. todo' = <<x>>
  <2> HIDE DEF x
  <2> QED BY <1>2, <1>4, OneNode
<1>6. CASE Tail(t) = <<>>
  <2>1. x = n
    BY <1>1, <1>3, <1>6, NodeCases
  <2>2. CASE tracks
    <3>1. Found(n) /\ Unread(n) /\ n.base.pos \notin seen /\ v # Property /\ new
      BY <1>1, <1>3, <2>1, <2>2 DEF Unread
    <3>2. Recorded(n) = Append(usages, Usage(n)) /\ Marked(n) = seen \cup {n.base.pos}
      BY <3>1 DEF Recorded, Marked
    <3> QED BY <1>3, <1>4, <1>5, <2>1, <2>2, <3>1, <3>2 DEF NextIndex
  <2>3. CASE ~tracks
    <3>1. ~new /\ (v # Property => ~Found(x))
      BY <1>6, <2>1, <2>3
    <3> QED BY <1>3, <1>4, <1>5, <2>3, <3>1 DEF Untracked
  <2> QED BY <2>2, <2>3
<1>7. CASE Tail(t) # <<>>
  <2>1. x.kind = "assign"
    <3>1. PICK u \in TargetLists : u = Tail(t)
      BY <1>3
    <3>2. u # <<>> /\ n.kind = "chain"
      BY <1>1, <1>7, <3>1
    <3>3. Node(u, n).kind = "assign"
      BY <3>2, NodeKind
    <3> QED BY <3>1, <3>3
  <2>2. ~Found(x) /\ ~tracks
    BY <1>7, <2>1 DEF Found
  <2> QED BY <1>3, <1>4, <1>5, <2>2 DEF Untracked
<1> QED BY <1>6, <1>7

LEMMA AssignKeeps ==
  ASSUME Recs, NEW t \in TargetLists, NEW n, Reading(t, n), ExprAssign
  PROVE  Recs' /\ Reading(Tail(t), n)'
<1> DEFINE tracks == t[1] # Property /\ Found(n) /\ Tail(t) = <<>>
<1>1. /\ t # <<>> /\ todo' = <<Node(Tail(t), n)>>
      /\ UNCHANGED globals /\ UNCHANGED fileVars
      /\ tracks => /\ Unread(n) /\ seen' = Marked(n) /\ usages' = Recorded(n)
                   /\ scope' = [scope EXCEPT ![t[1]] = Len(usages) + 1]
      /\ ~tracks => UNCHANGED <<seen, usages>>
      /\ ~tracks /\ t[1] # Property => scope' = [scope EXCEPT ![t[1]] = 0]
      /\ t[1] = Property => scope' = scope
  BY AssignStep
<1>2. ChainOK(n, made, keys) /\ n.kind = "chain" /\ (Found(n) <=> n.base.kind = "view")
  BY ChainIsChain DEF Reading
<1>3. t[1] \in Var \cup {Property}
  BY <1>1, <1>2, NodeCases
<1>4. UNCHANGED <<made, keys, written, frames, exposed, owed>>
  BY <1>1 DEF fileVars
<1>5. CASE tracks
  <2>1. /\ UsagesOK(usages', seen', keys) /\ seen' \subseteq 1..made
        /\ Len(usages) \in Nat /\ Len(usages') = Len(usages) + 1
        /\ n.base.pos \in seen'
    BY <1>1, <1>2, <1>5, RecordedOf
  <2>2. scope' \in [Var -> 0..Len(usages')]
    <3>1. scope \in [Var -> 0..Len(usages)]
      BY DEF Recs
    <3>2. \A i \in 0..Len(usages) : i \in 0..Len(usages')
      BY <2>1
    <3>3. Len(usages) + 1 \in 0..Len(usages')
      BY <2>1
    <3> QED BY <1>1, <1>5, <3>1, <3>2, <3>3
  <2>3. Recs'
    BY <1>1, <1>4, <2>1, <2>2 DEF Recs
  <2>4. made = Len(usages) + 1 /\ ~Unread(n)'
    BY <1>1, <1>5, <2>1 DEF Reading, Unread
  <2>5. Reading(Tail(t), n)'
    BY <1>1, <1>2, <1>4, <1>5, <2>1, <2>4 DEF Reading
  <2> QED BY <2>3, <2>5
<1>6. CASE ~tracks
  <2>1. seen' = seen /\ usages' = usages
    BY <1>1, <1>6
  <2>2. scope' \in [Var -> 0..Len(usages)]
    <3>1. scope \in [Var -> 0..Len(usages)] /\ 0 \in 0..Len(usages)
      BY LenProperties DEF Recs, UsagesOK
    <3> QED BY <1>1, <1>6, <3>1
  <2>3. Recs'
    BY <1>1, <1>4, <2>1, <2>2 DEF Recs
  <2>4. Unread(n)' <=> Unread(n)
    BY <2>1 DEF Unread
  <2>5. Reading(Tail(t), n)'
    BY <1>1, <1>2, <1>4, <2>1, <2>4 DEF Reading
  <2> QED BY <2>3, <2>5
<1> QED BY <1>5, <1>6

(* The keys of the last call. *)
LastNames(n) == NamesOf(extractChainMethodVars(LastCall(n)))

(* ExprMethodCall: the chain is recorded, and the last call attributed to   *)
(* the usage of the variable at the end of the receivers.                   *)
LEMMA CallStep ==
  ASSUME Recs, NEW n, Reading(<<>>, n), ExprMethodCall
  PROVE  /\ n.calls # <<>> /\ todo' = <<Receiver(n)>> /\ seen' = Marked(n)
         /\ UNCHANGED <<scope, globals>> /\ UNCHANGED fileVars
         /\ UsagesOK(usages', seen', keys)
         /\ Len(usages') = Len(usages) + (IF Unread(n) THEN 1 ELSE 0)
         /\ \A i \in 1..Len(usages) : usages'[i].pos = usages[i].pos
         /\ Found(n) => n.base.pos \in seen'
         /\ \A p, k : Given(usages', p, k) <=>
              \/ Given(usages, p, k)
              \/ Unread(n) /\ p = n.base.pos /\ k \in ChainNames(n)
              \/ /\ n.base.kind = "variable" /\ scope[n.base.var] # 0
                 /\ p = usages[scope[n.base.var]].pos /\ k \in LastNames(n)
         /\ n.base.kind = "variable" =>
              \A i \in 1..Len(usages') :
                CallNames(Receiver(n)) \cap NamesOf(usages'[i].vars) = {}
<1>1. /\ todo = <<Node(<<>>, n)>> /\ ChainOK(n, made, keys) /\ n.kind = "chain"
      /\ (Found(n) <=> n.base.kind = "view") /\ made \in Nat /\ keys \in Nat
  BY ChainIsChain DEF Reading, Recs
<1>2. <<>> \in TargetLists
  BY DEF TargetLists
<1>3. Node(<<>>, n) = n
  BY <1>1, <1>2, NodeCases
<1>4. Head(todo) = n /\ Tail(todo) = <<>>
  BY <1>1, <1>3
<1>5. /\ n.calls # <<>> /\ usages' = Attributed(Recorded(n), n) /\ seen' = Marked(n)
      /\ todo' = <<Receiver(n)>> /\ UNCHANGED <<scope, globals>> /\ UNCHANGED fileVars
  <2>1. <<Receiver(n)>> \o <<>> = <<Receiver(n)>>
    BY OneNode
  <2> QED BY <1>4, <2>1 DEF ExprMethodCall
<1> DEFINE vs == extractChainMethodVars(LastCall(n))
           g == scope[n.base.var]
<1>6. /\ vs \in Seq(VarRec) /\ Distinct(vs) /\ NamesOf(vs) \subseteq 1..keys
      /\ CallNames(n) = NamesOf(vs) \cup CallNames(Receiver(n))
      /\ NamesOf(vs) \cap CallNames(Receiver(n)) = {}
  BY <1>1, <1>5, LastCallOf
<1>7. CASE n.base.kind = "variable" /\ g # 0
  <2>1. ~Unread(n) /\ ~Found(n) /\ n.base.var \in Var /\ resolveScope(n) = g
    BY <1>1, <1>7 DEF Unread, ChainOK, resolveScope
  <2>2. Recorded(n) = usages /\ Marked(n) = seen
    BY <2>1 DEF Recorded, Marked
  <2>3. g \in 1..Len(usages) /\ UsagesOK(usages, seen, keys)
    <3>1. g \in 0..Len(usages) /\ Len(usages) \in Nat /\ UsagesOK(usages, seen, keys)
      BY <2>1, LenProperties DEF Recs, UsagesOK
    <3> QED BY <1>7, <3>1
  <2>4. usages' = [usages EXCEPT ![g].vars = @ \o vs]
    BY <1>5, <1>7, <2>1, <2>2 DEF Attributed
  <2>5. \A i \in 1..Len(usages) : CallNames(n) \cap NamesOf(usages[i].vars) = {}
    BY <1>7 DEF Reading
  <2>6. NamesOf(vs) \cap NamesOf(usages[g].vars) = {}
    BY <1>6, <2>3, <2>5
  <2> HIDE DEF vs, g
  <2>7. /\ UsagesOK(usages', seen, keys)
        /\ Len(usages') = Len(usages)
        /\ \A i \in 1..Len(usages) : usages'[i].pos = usages[i].pos
        /\ \A i \in 1..Len(usages) : NamesOf(usages'[i].vars)
             = NamesOf(usages[i].vars) \cup (IF i = g THEN NamesOf(vs) ELSE {})
        /\ \A p, k : Given(usages', p, k)
             <=> Given(usages, p, k) \/ (p = usages[g].pos /\ k \in NamesOf(vs))
    <3>1. PICK new : new = usages'
      OBVIOUS
    <3>2. Added(new, usages, g, vs)
      BY <2>4, <3>1 DEF Added
    <3>3. /\ UsagesOK(new, seen, keys)
          /\ Len(new) = Len(usages)
          /\ \A i \in 1..Len(usages) : new[i].pos = usages[i].pos
          /\ \A i \in 1..Len(usages) : NamesOf(new[i].vars)
               = NamesOf(usages[i].vars) \cup (IF i = g THEN NamesOf(vs) ELSE {})
          /\ \A p, k : Given(new, p, k)
               <=> Given(usages, p, k) \/ (p = usages[g].pos /\ k \in NamesOf(vs))
      <4>1. /\ vs \in Seq(VarRec) /\ Distinct(vs) /\ NamesOf(vs) \subseteq 1..keys
            /\ g \in 1..Len(usages) /\ UsagesOK(usages, seen, keys)
            /\ NamesOf(vs) \cap NamesOf(usages[g].vars) = {}
        BY <1>6, <2>3, <2>6
      <4> QED BY <3>2, <4>1, AttributeUsage
    <3> QED BY <3>1, <3>3
  <2>8. \A i \in 1..Len(usages') : CallNames(Receiver(n)) \cap NamesOf(usages'[i].vars) = {}
    BY <1>6, <2>5, <2>7
  <2>9. Len(usages) \in Nat
    BY LenProperties DEF Recs, UsagesOK
  <2>10. \A p, k : Given(usages', p, k) <=>
           \/ Given(usages, p, k)
           \/ Unread(n) /\ p = n.base.pos /\ k \in ChainNames(n)
           \/ /\ n.base.kind = "variable" /\ scope[n.base.var] # 0
              /\ p = usages[scope[n.base.var]].pos /\ k \in LastNames(n)
    BY <1>7, <2>1, <2>7 DEF g, vs, LastNames
  <2> QED BY <1>5, <2>1, <2>2, <2>7, <2>8, <2>9, <2>10
<1>8. CASE ~(n.base.kind = "variable" /\ g # 0)
  <2>1. resolveScope(n) = 0
    BY <1>8 DEF resolveScope
  <2>2. usages' = Recorded(n)
    BY <1>5, <2>1 DEF Attributed
  <2>3. /\ UsagesOK(Recorded(n), Marked(n), keys)
        /\ Len(Recorded(n)) = Len(usages) + (IF Unread(n) THEN 1 ELSE 0)
        /\ ~Unread(n) => Recorded(n) = usages
        /\ \A i \in 1..Len(usages) : Recorded(n)[i] = usages[i]
        /\ \A p, k : Given(Recorded(n), p, k)
             <=> Given(usages, p, k) \/ (Unread(n) /\ p = n.base.pos /\ k \in ChainNames(n))
        /\ Found(n) => n.base.pos \in Marked(n)
    BY <1>1, RecordedOf
  <2>4. n.base.kind = "variable" =>
          \A i \in 1..Len(usages') : CallNames(Receiver(n)) \cap NamesOf(usages'[i].vars) = {}
    <3> SUFFICES ASSUME n.base.kind = "variable"
                 PROVE  \A i \in 1..Len(usages') : CallNames(Receiver(n)) \cap NamesOf(usages'[i].vars) = {}
      OBVIOUS
    <3>1. usages' = usages
      BY <1>1, <2>2, <2>3 DEF Unread
    <3>2. \A i \in 1..Len(usages) : CallNames(n) \cap NamesOf(usages[i].vars) = {}
      BY DEF Reading
    <3> QED BY <1>6, <3>1, <3>2
  <2> QED BY <1>5, <1>8, <2>2, <2>3, <2>4
<1> QED BY <1>7, <1>8

LEMMA CallKeeps ==
  ASSUME Recs, NEW n, Reading(<<>>, n), ExprMethodCall
  PROVE  Recs' /\ Reading(<<>>, Receiver(n))'
<1>1. /\ ChainOK(n, made, keys) /\ made \in Nat /\ keys \in Nat /\ frames # <<>>
      /\ Len(usages) \in Nat /\ n.kind = "chain" /\ (Found(n) <=> n.base.kind = "view")
  BY ChainIsChain, LenProperties DEF Reading, Recs, UsagesOK
<1>2. /\ n.calls # <<>> /\ todo' = <<Receiver(n)>> /\ seen' = Marked(n)
      /\ UNCHANGED <<scope, globals>> /\ UNCHANGED fileVars
      /\ UsagesOK(usages', seen', keys)
      /\ Len(usages') = Len(usages) + (IF Unread(n) THEN 1 ELSE 0)
      /\ Found(n) => n.base.pos \in seen'
      /\ n.base.kind = "variable" =>
           \A i \in 1..Len(usages') : CallNames(Receiver(n)) \cap NamesOf(usages'[i].vars) = {}
  BY CallStep
<1>3. UNCHANGED <<made, keys, written, frames, exposed, owed>>
  BY <1>2 DEF fileVars
<1>4. Marked(n) \subseteq 1..made
  BY <1>1, RecordedOf
<1>5. scope' \in [Var -> 0..Len(usages')]
  <2>1. \A i \in 0..Len(usages) : i \in 0..Len(usages')
    BY <1>1, <1>2
  <2> QED BY <1>2, <2>1 DEF Recs
<1>6. Recs'
  BY <1>2, <1>3, <1>4, <1>5 DEF Recs
<1>7. PICK r : r = Receiver(n)
  OBVIOUS
<1>8. ChainOK(r, made, keys) /\ r.base = n.base
  BY <1>1, <1>2, <1>7, LastCallOf
<1>9. r.kind = "chain" /\ (Found(r) <=> Found(n))
  BY <1>1, <1>8, ChainIsChain
<1>10. Node(<<>>, r) = r
  BY <1>9, NodeCases DEF TargetLists
<1>11. ~Unread(r)'
  BY <1>2, <1>8, <1>9 DEF Unread
<1>12. made = Len(usages) + (IF Unread(n) THEN 1 ELSE 0)
  BY DEF Reading
<1>13. made' = Len(usages') + 0
  BY <1>1, <1>2, <1>3, <1>12
<1>14. Reading(<<>>, r)'
  BY <1>1, <1>2, <1>3, <1>7, <1>8, <1>10, <1>11, <1>13 DEF Reading
<1> QED BY <1>6, <1>7, <1>14

(* ExprStaticCall, ExprNew: the base is the end of the chain. *)
LEMMA ConstructionStep ==
  ASSUME Recs, NEW n, Reading(<<>>, n), Construction
  PROVE  /\ n.calls = <<>> /\ todo' = <<>> /\ seen' = Marked(n) /\ usages' = Recorded(n)
         /\ UNCHANGED <<scope, globals>> /\ UNCHANGED fileVars
         /\ Recs' /\ Len(usages') = made'
<1>1. /\ todo = <<Node(<<>>, n)>> /\ ChainOK(n, made, keys) /\ n.kind = "chain"
  BY ChainIsChain DEF Reading
<1>2. Head(todo) = n /\ Tail(todo) = <<>>
  BY <1>1, NodeCases DEF TargetLists
<1>3. /\ n.calls = <<>> /\ todo' = <<>> /\ seen' = Marked(n) /\ usages' = Recorded(n)
      /\ UNCHANGED <<scope, globals>> /\ UNCHANGED fileVars
  BY <1>2 DEF Construction
<1>4. UNCHANGED <<made, keys, written, frames, exposed, owed>>
  BY <1>3 DEF fileVars
<1>5. /\ UsagesOK(Recorded(n), Marked(n), keys) /\ Marked(n) \subseteq 1..made
      /\ Len(usages) \in Nat
      /\ Len(Recorded(n)) = Len(usages) + (IF Unread(n) THEN 1 ELSE 0)
  BY <1>1, RecordedOf
<1>6. scope' \in [Var -> 0..Len(usages')]
  <2>1. \A i \in 0..Len(usages) : i \in 0..Len(usages')
    BY <1>3, <1>5
  <2> QED BY <1>3, <2>1 DEF Recs
<1>7. Recs'
  BY <1>3, <1>4, <1>5, <1>6 DEF Recs
<1>8. Len(usages') = made'
  BY <1>3, <1>4, <1>5 DEF Reading
<1> QED BY <1>3, <1>7, <1>8

-----------------------------------------------------------------------------
(* The statements of the file.                                              *)

(* The bases a statement can begin with. *)
LEMMA BaseCases ==
  ASSUME Recs, frames # <<>>, NEW base \in Bases
  PROVE  /\ base.kind \in {"view", "variable", "other"}
         /\ BaseKeys(base) \in Nat
         /\ base.kind = "view" =>
              /\ base.pos = made + 1 /\ base.construct \in Construct
              /\ base.keys \in Seq(Nat)
              /\ \A i \in 1..Len(base.keys) : base.keys[i] = keys + i
              /\ base.construct = "find_file" => base.keys = <<>>
              /\ Object(base) = IF base.construct = "find_file" THEN Text ELSE made + 1
         /\ base.kind = "variable" =>
              /\ base.var \in Var
              /\ Object(base) = Frame.holds[base.var] /\ Object(base) \in {NoView} \cup 1..made
         /\ base.kind = "other" => Object(base) = NoView
<1>1. made \in Nat /\ keys \in Nat /\ Frame \in FrameType(made)
  BY HeadTailProperties DEF Recs, Frame
<1>2. CASE \E p \in {q \in Construct \X {0, 1} : q[1] = "find_file" => q[2] = 0} :
             base = [kind |-> "view", pos |-> made + 1, construct |-> p[1], keys |-> Keys(p[2])]
  <2>1. PICK c \in Construct, d \in {0, 1} :
          /\ c = "find_file" => d = 0
          /\ base = [kind |-> "view", pos |-> made + 1, construct |-> c, keys |-> Keys(d)]
    BY <1>2
  <2>2. base.kind = "view" /\ base.pos = made + 1 /\ base.construct = c /\ base.keys = Keys(d)
    BY <2>1
  <2>3. Keys(d) \in Seq(Nat) /\ Len(Keys(d)) = d /\ \A i \in 1..d : Keys(d)[i] = keys + i
    <3>1. d \in Nat /\ Keys(d) \in [1..d -> Nat] /\ \A i \in 1..d : Keys(d)[i] = keys + i
      BY <1>1 DEF Keys
    <3>2. Keys(d) \in Seq(Nat) /\ DOMAIN Keys(d) = 1..d
      BY <3>1, IsASeq
    <3> QED BY <3>1, <3>2, LenProperties
  <2>4. d = 0 => Keys(d) = <<>>
    BY <2>3, EmptySeq
  <2>5. BaseKeys(base) = d /\ d \in Nat
    BY <2>2, <2>3 DEF BaseKeys
  <2>6. Object(base) = IF base.construct = "find_file" THEN Text ELSE made + 1
    BY <2>2 DEF Object
  <2> QED BY <2>1, <2>2, <2>3, <2>4, <2>5, <2>6
<1>3. CASE \E v \in {w \in Var : Frame.holds[w] \notin {Text, Undefined}} :
             base = [kind |-> "variable", var |-> v]
  <2>1. PICK v \in Var : Frame.holds[v] \notin {Text, Undefined}
                         /\ base = [kind |-> "variable", var |-> v]
    BY <1>3
  <2>2. base.kind = "variable" /\ base.var = v
    BY <2>1
  <2>3. Frame.holds[v] \in {Undefined, Text, NoView} \cup 1..made
    BY <1>1 DEF FrameType
  <2>4. Object(base) = Frame.holds[v]
    BY <2>2 DEF Object
  <2> QED BY <2>1, <2>2, <2>3, <2>4 DEF BaseKeys
<1>4. CASE base = [kind |-> "other"]
  <2>1. base.kind = "other"
    BY <1>4
  <2> QED BY <2>1 DEF BaseKeys, Object
<1> QED BY <1>2, <1>3, <1>4 DEF Bases

(* The calls a statement makes on its base. *)
LEMMA CallsCases ==
  ASSUME keys \in Nat, NEW base, BaseKeys(base) \in Nat, NEW calls \in CallLists(base)
  PROVE  /\ calls \in Seq(Call) /\ Len(calls) \in Nat
         /\ \A i \in 1..Len(calls) : calls[i].keys = <<keys + BaseKeys(base) + i>>
         /\ Object(base) = Text => calls = <<>>
<1>1. CASE Object(base) = Text
  <2>1. calls = <<>>
    BY <1>1 DEF CallLists
  <2>2. calls \in Seq(Call) /\ Len(calls) = 0
    BY <2>1, EmptySeq
  <2> QED BY <2>1, <2>2
<1>2. CASE Object(base) # Text
  <2>1. PICK ms \in {s \in UNION {[1..q -> Method] : q \in 0..MaxCalls} :
                       \A i \in 1 .. Len(s) - 1 : s[i] # "render"} :
          calls = [i \in DOMAIN ms |-> [method |-> ms[i], keys |-> <<keys + BaseKeys(base) + i>>]]
    BY <1>2 DEF CallLists
  <2>2. PICK l \in 0..MaxCalls : ms \in [1..l -> Method]
    BY <2>1
  <2>3. l \in Nat
    BY ExtractAssumption
  <2> DEFINE b == keys + BaseKeys(base)
             c(i) == [method |-> ms[i], keys |-> <<b + i>>]
  <2>4. b \in Nat
    OBVIOUS
  <2>5. calls = [i \in 1..l |-> c(i)]
    BY <2>1, <2>2
  <2>6. \A i \in 1..l : c(i) \in Call /\ c(i).keys = <<b + i>>
    <3> HIDE DEF b
    <3> TAKE i \in 1..l
    <3>1. b + i \in Nat /\ ms[i] \in Method
      BY <2>2, <2>3, <2>4
    <3>2. <<b + i>> \in Seq(Nat)
      BY <3>1
    <3> QED BY <3>1, <3>2 DEF Call
  <2> HIDE DEF b, c
  <2>7. calls \in [1..l -> Call] /\ \A i \in 1..l : calls[i].keys = <<b + i>>
    BY <2>5, <2>6
  <2>8. calls \in Seq(Call) /\ DOMAIN calls = 1..l
    BY <2>3, <2>7, IsASeq
  <2>9. Len(calls) = l
    BY <2>3, <2>8, LenProperties
  <2> QED BY <1>2, <2>3, <2>7, <2>8, <2>9 DEF b
<1> QED BY <1>1, <1>2

(* A chain as a statement writes it: its keys are new. *)
LEMMA WrittenChain ==
  ASSUME Recs, frames # <<>>, NEW base \in Bases, NEW calls \in CallLists(base),
         NEW n, n = Chain(base, calls),
         NEW m, m = IF n.base.kind = "view" THEN made + 1 ELSE made,
         NEW ks, ks = keys + BaseKeys(n.base) + Len(n.calls)
  PROVE  /\ n.base = base /\ n.calls = calls /\ m \in Nat /\ ks \in Nat
         /\ made <= m /\ keys <= ks
         /\ ChainOK(n, m, ks)
         /\ ChainNames(n) \subseteq 1..ks
         /\ ChainNames(n) \cap 1..keys = {}
<1>1. n.base = base /\ n.calls = calls
  BY DEF Chain
<1>2. made \in Nat /\ keys \in Nat
  BY DEF Recs
<1>3. BaseKeys(base) \in Nat /\ base.kind \in {"view", "variable", "other"}
  BY BaseCases
<1>4. /\ calls \in Seq(Call) /\ Len(calls) \in Nat
      /\ \A i \in 1..Len(calls) : calls[i].keys = <<keys + BaseKeys(base) + i>>
      /\ Object(base) = Text => calls = <<>>
  BY <1>2, <1>3, CallsCases
<1>5. m \in Nat /\ ks \in Nat /\ made <= m /\ keys <= ks
  BY <1>1, <1>2, <1>3, <1>4
<1>6. /\ base.kind = "view" => /\ base.construct \in Construct
                               /\ base.keys \in Seq(Nat)
                               /\ \A i \in 1..Len(base.keys) : base.keys[i] = keys + i
                               /\ base.construct = "find_file" => base.keys = <<>> /\ calls = <<>>
                               /\ base.pos = m /\ m = made + 1
      /\ base.kind = "variable" => base.var \in Var
  BY <1>1, <1>4, BaseCases
<1>7. Numbered(n, keys)
  BY <1>1, <1>4, <1>6 DEF Numbered
<1>8. ChainOK(n, m, ks)
  <2>1. n = Chain(n.base, n.calls)
    BY <1>1
  <2>2. base.kind = "view" => base.pos \in 1..m
    BY <1>2, <1>6
  <2>3. keys \in 0..ks /\ keys + BaseKeys(n.base) + Len(n.calls) <= ks
    BY <1>1, <1>2, <1>3, <1>4, <1>5
  <2> QED BY <1>1, <1>3, <1>6, <1>7, <2>1, <2>2, <2>3 DEF ChainOK
<1>9. ASSUME NEW k \in ChainNames(n) PROVE k \in 1..ks /\ k \notin 1..keys
  <2> DEFINE bk == BaseKeys(base)
             l == Len(calls)
  <2>1. bk \in Nat /\ l \in Nat /\ ks = keys + bk + l
    BY <1>1, <1>3, <1>4
  <2>2. CASE n.base.kind = "view" /\ k \in Range(n.base.keys)
    <3>1. PICK i \in 1..Len(base.keys) : k = base.keys[i]
      BY <1>1, <1>6, <2>2, RangeEquality
    <3>2. k = keys + i /\ i \in 1..bk
      BY <1>1, <1>6, <2>2, <3>1 DEF BaseKeys
    <3> HIDE DEF bk, l
    <3> QED BY <1>2, <2>1, <3>2
  <2>3. CASE k \in CallNames(n)
    <3>1. PICK i \in 1..l : k = calls[i].keys[1]
      BY <1>1, <2>3 DEF CallNames
    <3>2. k = keys + bk + i
      BY <1>4, <3>1
    <3> HIDE DEF bk, l
    <3> QED BY <1>2, <2>1, <3>1, <3>2
  <2> QED BY <2>2, <2>3 DEF ChainNames
<1> QED BY <1>1, <1>5, <1>8, <1>9

(* What PHP sets on the view of a chain: its keys. *)
LEMMA SetOnIs ==
  ASSUME NEW n, NEW m, NEW ks, ChainOK(n, m, ks)
  PROVE  \A a : a \in SetOn(n) <=>
           /\ Object(n.base) \notin {NoView, Text}
           /\ \E k \in ChainNames(n) : a = <<Object(n.base), k>>
<1>1. PICK b \in 0..ks : Numbered(n, b)
  BY DEF ChainOK
<1>2. n.calls \in Seq(Call) /\ Len(n.calls) \in Nat /\ DOMAIN n.calls = 1..Len(n.calls)
  BY <1>1, LenProperties DEF Numbered
<1> DEFINE l == Len(n.calls)
           K(c) == {c.keys[i] : i \in DOMAIN c.keys}
           C == {d \in Range(n.calls) : d.method # "render"}
           A == IF n.base.kind = "view" THEN Range(n.base.keys) ELSE {}
           U == UNION {K(c) : c \in C}
<1>3. \A i \in 1..l : K(n.calls[i]) = {n.calls[i].keys[1]}
  <2> TAKE i \in 1..l
  <2>1. PICK x : n.calls[i].keys = <<x>>
    BY <1>1 DEF Numbered
  <2>2. DOMAIN n.calls[i].keys = {1}
    BY <2>1
  <2> QED BY <2>2
<1>4. \A c : c \in C <=> \E i \in 1..l : c = n.calls[i] /\ c.method # "render"
  BY <1>2, ElementsOfSeq
<1>5. SetOn(n) = IF Object(n.base) \in {NoView, Text} THEN {}
                 ELSE {<<Object(n.base), k>> : k \in U \cup A}
  BY DEF SetOn
<1> HIDE DEF K, C
<1>6. ASSUME NEW k PROVE k \in U <=> k \in CallNames(n)
  <2>1. k \in U <=> \E c \in C : k \in K(c)
    OBVIOUS
  <2>2. k \in CallNames(n) <=> \E i \in 1..l : n.calls[i].method # "render" /\ k = n.calls[i].keys[1]
    BY DEF CallNames
  <2> HIDE DEF U, l
  <2>3. ASSUME NEW c \in C, k \in K(c) PROVE k \in CallNames(n)
    <3>1. PICK i \in 1..l : c = n.calls[i] /\ c.method # "render"
      BY <1>4, <2>3
    <3>2. k = n.calls[i].keys[1]
      BY <1>3, <2>3, <3>1
    <3> QED BY <2>2, <3>1, <3>2 DEF l
  <2>4. ASSUME NEW i \in 1..l, n.calls[i].method # "render", k = n.calls[i].keys[1]
        PROVE  \E c \in C : k \in K(c)
    BY <1>3, <1>4, <2>4
  <2> QED BY <2>1, <2>2, <2>3, <2>4 DEF l
<1>7. U \cup A = ChainNames(n)
  BY <1>6 DEF ChainNames
<1> HIDE DEF U, A, l
<1> QED BY <1>5, <1>7

(* The frame after a statement. *)
LEMMA StatementFrames ==
  ASSUME Recs, frames # <<>>, NEW t \in TargetLists, NEW n, Statement(t, n),
         NEW m \in Nat, made <= m, Result(n) \in {Text, NoView} \cup 1..m
  PROVE  /\ frames' \in Seq(FrameType(m)) /\ frames' # <<>> /\ Len(frames') = Len(frames)
         /\ \A v \in Var : Frame.holds'[v] = IF v \in Range(t) THEN Result(n) ELSE Frame.holds[v]
         /\ \A v \in Var : Frame.direct'[v] =
              IF v \in Range(t) THEN v = t[Len(t)] /\ n.base.kind = "view" /\ Result(n) > 0
              ELSE Frame.direct[v]
<1>1. made \in Nat /\ frames \in Seq(FrameType(made)) /\ Len(frames) \in Nat \ {0}
  BY EmptySeq, LenProperties DEF Recs
<1>2. 1 \in 1..Len(frames) /\ Frame = frames[1] /\ Frame \in FrameType(made)
  BY <1>1, HeadTailProperties, ElementOfSeq DEF Frame
<1> DEFINE h == [v \in Var |-> IF v \in Range(t) THEN Result(n) ELSE Frame.holds[v]]
           d == [v \in Var |-> IF v \in Range(t)
                               THEN v = t[Len(t)] /\ n.base.kind = "view" /\ Result(n) > 0
                               ELSE Frame.direct[v]]
           f == [holds |-> h, direct |-> d]
<1>3. frames' = [frames EXCEPT ![1] = f]
  BY <1>2 DEF Statement
<1>4. h \in [Var -> {Undefined, Text, NoView} \cup 1..m]
  <2>1. \A i \in 1..made : i \in 1..m
    BY <1>1
  <2> QED BY <1>2, <2>1 DEF FrameType
<1>5. d \in [Var -> BOOLEAN]
  BY <1>2, Zenon DEF FrameType
<1>6. f \in FrameType(m) /\ f.holds = h /\ f.direct = d
  BY <1>4, <1>5 DEF FrameType
<1>7. \A i \in 1..Len(frames) : frames[i] \in FrameType(m)
  <2> TAKE i \in 1..Len(frames)
  <2>1. frames[i] \in FrameType(made)
    BY <1>1, ElementOfSeq
  <2>2. \A j \in 1..made : j \in 1..m
    BY <1>1
  <2> QED BY <2>1, <2>2 DEF FrameType
<1> HIDE DEF f
<1>8. frames \in [1..Len(frames) -> FrameType(m)]
  BY <1>1, <1>7, LenProperties
<1>9. PICK new : new = frames'
  OBVIOUS
<1>10. new \in [1..Len(frames) -> FrameType(m)] /\ new[1] = f
  BY <1>2, <1>3, <1>6, <1>8, <1>9
<1>11. new \in Seq(FrameType(m)) /\ Len(new) = Len(frames)
  <2>1. new \in Seq(FrameType(m)) /\ DOMAIN new = 1..Len(frames)
    BY <1>1, <1>10, IsASeq
  <2> QED BY <1>1, <2>1, LenProperties
<1>12. new # <<>> /\ Head(new) = f
  BY <1>1, <1>10, <1>11, EmptySeq
<1>13. Frame' = f
  BY <1>9, <1>12 DEF Frame
<1>14. Frame.holds' = h /\ Frame.direct' = d
  BY <1>6, <1>13
<1> HIDE DEF h, d
<1>15. (\A v \in Var : h[v] = IF v \in Range(t) THEN Result(n) ELSE Frame.holds[v])
  BY DEF h
<1>16. \A v \in Var : d[v] =
              IF v \in Range(t) THEN v = t[Len(t)] /\ n.base.kind = "view" /\ Result(n) > 0
              ELSE Frame.direct[v]
  BY Zenon DEF d
<1>17. \A v \in Var : Frame.holds'[v] = IF v \in Range(t) THEN Result(n) ELSE Frame.holds[v]
  BY <1>14, <1>15
<1>18. \A v \in Var : Frame.direct'[v] =
              IF v \in Range(t) THEN v = t[Len(t)] /\ n.base.kind = "view" /\ Result(n) > 0
              ELSE Frame.direct[v]
  BY <1>14, <1>16, Zenon
<1> QED BY <1>9, <1>11, <1>12, <1>17, <1>18

LEMMA StatementStep ==
  ASSUME Recs, frames # <<>>, todo = <<>>, Len(usages) = made,
         NEW t \in TargetLists, NEW base \in Bases, NEW calls \in CallLists(base),
         NEW n, n = Chain(base, calls), Statement(t, n)
  PROVE  /\ n.base = base /\ n.calls = calls
         /\ Recs' /\ Reading(t, n)' /\ made <= made' /\ keys <= keys'
         /\ UNCHANGED visitorVars
         /\ Found(n) => Unread(n) /\ n.base.pos = made + 1
         /\ ChainNames(n) \cap 1..keys = {}
         /\ \A a : a \in SetOn(n) <=>
              /\ Object(n.base) \notin {NoView, Text}
              /\ \E k \in ChainNames(n) : a = <<Object(n.base), k>>
<1> DEFINE m == IF n.base.kind = "view" THEN made + 1 ELSE made
           ks == keys + BaseKeys(n.base) + Len(n.calls)
<1>1. /\ made' = m /\ keys' = ks /\ todo' = <<Node(t, n)>> /\ written' = written + 1
      /\ written < MaxStatements
      /\ exposed' = exposed \cup SetOn(n)
      /\ owed' = IF Visible(n) THEN owed \cup SetOn(n) ELSE owed
      /\ UNCHANGED <<seen, scope, usages, globals>>
  BY DEF Statement, visitorVars
<1>2. /\ n.base = base /\ n.calls = calls /\ m \in Nat /\ ks \in Nat /\ made <= m /\ keys <= ks
      /\ ChainOK(n, m, ks)
      /\ ChainNames(n) \subseteq 1..ks
      /\ ChainNames(n) \cap 1..keys = {}
  BY WrittenChain
<1>3. \A a : a \in SetOn(n) <=>
              /\ Object(n.base) \notin {NoView, Text}
              /\ \E k \in ChainNames(n) : a = <<Object(n.base), k>>
  BY <1>2, SetOnIs
<1> DEFINE o == Object(n.base)
<1>4. made \in Nat /\ keys \in Nat /\ written \in Nat /\ MaxStatements \in Nat
      /\ seen \subseteq 1..made
  BY ExtractAssumption DEF Recs
<1>5. n.base.kind = "view" => m = made + 1 /\ n.base.pos = made + 1
  BY <1>2, BaseCases
<1>6. o \in {Text, NoView} \cup 1..m
  <2>1. CASE base.kind = "view"
    <3>1. o = Text \/ o = made + 1
      BY <1>2, <2>1, BaseCases
    <3>2. made + 1 \in 1..m
      BY <1>2, <1>4, <1>5, <2>1
    <3> QED BY <3>1, <3>2
  <2>2. CASE base.kind = "variable"
    <3>1. o \in {NoView} \cup 1..made
      BY <1>2, <2>2, BaseCases
    <3>2. \A i \in 1..made : i \in 1..m
      BY <1>2, <1>4
    <3> QED BY <3>1, <3>2
  <2>3. CASE base.kind = "other"
    BY <1>2, <2>3, BaseCases
  <2> QED BY <2>1, <2>2, <2>3, BaseCases
<1>7. Result(n) \in {Text, NoView} \cup 1..m
  BY <1>6 DEF Result
<1> HIDE DEF m, ks, o
<1>8. frames' \in Seq(FrameType(m)) /\ frames' # <<>>
  BY <1>2, <1>7, StatementFrames
<1>9. SetOn(n) \subseteq (1..m) \X (1..ks)
  <2> SUFFICES ASSUME NEW a \in SetOn(n) PROVE a \in (1..m) \X (1..ks)
    OBVIOUS
  <2>1. o \notin {NoView, Text} /\ \E k \in ChainNames(n) : a = <<o, k>>
    BY <1>3 DEF o
  <2> QED BY <1>2, <1>6, <2>1
<1>10. exposed' \subseteq (1..m) \X (1..ks) /\ owed' \subseteq exposed'
  <2>1. exposed \subseteq (1..made) \X (1..keys) /\ owed \subseteq exposed
    BY DEF Recs
  <2>2. (\A i \in 1..made : i \in 1..m) /\ (\A i \in 1..keys : i \in 1..ks)
    BY <1>2, <1>4
  <2>3. exposed \subseteq (1..m) \X (1..ks)
    BY <2>1, <2>2
  <2> QED BY <1>1, <1>9, <2>1, <2>3
<1>11. UsagesOK(usages, seen, ks) /\ seen \subseteq 1..m /\ NamesOf(globals) \subseteq 1..ks
  <2>1. (\A i \in 1..made : i \in 1..m) /\ (\A i \in 1..keys : i \in 1..ks)
    BY <1>2, <1>4
  <2>2. UsagesOK(usages, seen, keys) /\ NamesOf(globals) \subseteq 1..keys
    BY DEF Recs
  <2> QED BY <1>4, <2>1, <2>2 DEF UsagesOK
<1>12. written + 1 \in 0..MaxStatements
  BY <1>1, <1>4
<1>13. Recs'
  BY <1>1, <1>2, <1>8, <1>10, <1>11, <1>12 DEF Recs
<1>14. Found(n) => Unread(n)
  <2>1. Found(n) => n.base.pos = made + 1
    BY <1>5 DEF Found
  <2>2. made + 1 \notin 1..made
    BY <1>4
  <2> QED BY <1>4, <2>1, <2>2 DEF Unread
<1>15. m = Len(usages) + (IF Unread(n) THEN 1 ELSE 0)
  <2>1. Unread(n) <=> n.base.kind = "view"
    BY <1>2, <1>14, ChainIsChain DEF Unread
  <2> QED BY <1>4, <2>1 DEF m
<1>16. \A i \in 1..Len(usages) : CallNames(n) \cap NamesOf(usages[i].vars) = {}
  BY <1>2 DEF Recs, UsagesOK, ChainNames
<1>17. Unread(n)' <=> Unread(n)
  BY <1>1 DEF Unread
<1>18. Reading(t, n)'
  BY <1>1, <1>2, <1>8, <1>14, <1>15, <1>16, <1>17 DEF Reading
<1> QED BY <1>1, <1>2, <1>3, <1>5, <1>13, <1>14, <1>18 DEF Found, visitorVars

(* The other statements, and the bodies. *)
LEMMA OtherSteps ==
  ASSUME Recs, todo = <<>>, Len(usages) = made
  PROVE  /\ \A m \in {"set_global", "bind_global"} : GlobalStatement(m) =>
              /\ Recs' /\ todo' = <<Static(m, <<keys + 1>>)>>
              /\ keys' = keys + 1 /\ keys + 1 \in 1..keys'
              /\ UNCHANGED <<made, frames, exposed, owed>> /\ UNCHANGED visitorVars
         /\ \A params \in SUBSET Var : BeginBody(params) =>
              /\ Recs' /\ todo' = <<Body>>
              /\ frames' = <<NewFrame(params)>> \o (IF Nested THEN frames ELSE <<>>)
              /\ UNCHANGED <<made, keys, exposed, owed>> /\ UNCHANGED visitorVars
         /\ EndBody =>
              /\ Recs' /\ todo' = <<>>
              /\ frames' = IF Nested THEN Tail(frames) ELSE <<>>
              /\ UNCHANGED <<made, keys, exposed, owed>> /\ UNCHANGED visitorVars
<1>1. made \in Nat /\ keys \in Nat /\ written \in Nat /\ MaxStatements \in Nat
  BY ExtractAssumption DEF Recs
<1>2. ASSUME NEW m \in {"set_global", "bind_global"}, GlobalStatement(m)
      PROVE  /\ Recs' /\ todo' = <<Static(m, <<keys + 1>>)>>
             /\ keys' = keys + 1 /\ keys + 1 \in 1..keys'
             /\ UNCHANGED <<made, frames, exposed, owed>> /\ UNCHANGED visitorVars
  <2>1. /\ todo' = <<Static(m, <<keys + 1>>)>> /\ keys' = keys + 1 /\ written' = written + 1
        /\ written < MaxStatements
        /\ UNCHANGED <<made, frames, exposed, owed>> /\ UNCHANGED visitorVars
    BY <1>2 DEF GlobalStatement
  <2>2. (\A k \in 1..keys : k \in 1..keys') /\ keys' \in Nat /\ keys + 1 \in 1..keys'
        /\ written' \in 0..MaxStatements
    BY <1>1, <2>1
  <2>3. UsagesOK(usages, seen, keys') /\ NamesOf(globals) \subseteq 1..keys'
    BY <2>2 DEF Recs, UsagesOK
  <2>4. exposed \subseteq (1..made) \X (1..keys')
    BY <2>2 DEF Recs
  <2>5. Recs'
    BY <2>1, <2>2, <2>3, <2>4 DEF Recs, visitorVars
  <2> QED BY <2>1, <2>2, <2>5
<1>3. ASSUME NEW params \in SUBSET Var, BeginBody(params)
      PROVE  /\ Recs' /\ todo' = <<Body>>
             /\ frames' = <<NewFrame(params)>> \o (IF Nested THEN frames ELSE <<>>)
             /\ UNCHANGED <<made, keys, exposed, owed>> /\ UNCHANGED visitorVars
  <2>1. /\ todo' = <<Body>> /\ written' = written + 1 /\ written < MaxStatements
        /\ frames' = <<NewFrame(params)>> \o (IF Nested THEN frames ELSE <<>>)
        /\ UNCHANGED <<made, keys, exposed, owed>> /\ UNCHANGED visitorVars
    BY <1>3 DEF BeginBody
  <2>2. NewFrame(params) \in FrameType(made)
    BY DEF NewFrame, FrameType
  <2>3. frames \in Seq(FrameType(made)) /\ <<>> \in Seq(FrameType(made))
    BY EmptySeq DEF Recs
  <2>4. frames' \in Seq(FrameType(made))
    <3>1. <<NewFrame(params)>> \in Seq(FrameType(made))
      BY <2>2
    <3>2. (IF Nested THEN frames ELSE <<>>) \in Seq(FrameType(made))
      BY <2>3
    <3> QED BY <2>1, <3>1, <3>2, ConcatProperties
  <2>5. written' \in 0..MaxStatements
    BY <1>1, <2>1
  <2>6. Recs'
    BY <2>1, <2>4, <2>5 DEF Recs, visitorVars
  <2> QED BY <2>1, <2>6
<1>4. ASSUME EndBody
      PROVE  /\ Recs' /\ todo' = <<>>
             /\ frames' = IF Nested THEN Tail(frames) ELSE <<>>
             /\ UNCHANGED <<made, keys, exposed, owed>> /\ UNCHANGED visitorVars
  <2>1. /\ Len(frames) > (IF Nested THEN 1 ELSE 0)
        /\ frames' = IF Nested THEN Tail(frames) ELSE <<>>
        /\ UNCHANGED <<todo, made, keys, written, exposed, owed>> /\ UNCHANGED visitorVars
    BY <1>4 DEF EndBody
  <2>2. frames \in Seq(FrameType(made)) /\ frames # <<>> /\ <<>> \in Seq(FrameType(made))
    BY <2>1, EmptySeq DEF Recs
  <2>3. frames' \in Seq(FrameType(made))
    <3>1. Tail(frames) \in Seq(FrameType(made))
      BY <2>2, HeadTailProperties
    <3> QED BY <2>1, <2>2, <3>1
  <2>4. Recs'
    BY <2>1, <2>3 DEF Recs, visitorVars
  <2> QED BY <2>1, <2>4
<1> QED BY <1>2, <1>3, <1>4

(* EnterBody and tryGlobalStatic. *)
LEMMA EnterBodyKeeps ==
  ASSUME Recs, todo = <<Body>>, EnterBody
  PROVE  Recs' /\ todo' = <<>> /\ scope' = ClearedScope
         /\ UNCHANGED <<seen, usages, globals>> /\ UNCHANGED fileVars
<1>1. todo' = <<>> /\ scope' = ClearedScope
      /\ UNCHANGED <<seen, usages, globals>> /\ UNCHANGED fileVars
  BY DEF EnterBody
<1>2. scope' \in [Var -> 0..Len(usages)]
  <2>1. 0 \in 0..Len(usages)
    BY LenProperties DEF Recs, UsagesOK
  <2> QED BY <1>1, <2>1 DEF ClearedScope
<1> QED BY <1>1, <1>2 DEF Recs, fileVars

LEMMA StaticKeeps ==
  ASSUME Recs, NEW m \in {"set_global", "bind_global"}, NEW k \in 1..keys,
         todo = <<Static(m, <<k>>)>>, tryGlobalStatic
  PROVE  Recs' /\ todo' = <<>> /\ UNCHANGED <<seen, scope, usages>> /\ UNCHANGED fileVars
<1> DEFINE c == Static(m, <<k>>)
<1>1. c.method = m /\ c.keys = <<k>> /\ k \in Nat
  BY DEF Static, Recs
<1>2. /\ todo' = <<>> /\ globals' = globals \o extractChainMethodVars(c)
      /\ UNCHANGED <<seen, scope, usages>> /\ UNCHANGED fileVars
  BY DEF tryGlobalStatic
<1> HIDE DEF c
<1>3. /\ extractChainMethodVars(c) \in Seq(VarRec)
      /\ Len(extractChainMethodVars(c)) = 1
      /\ extractChainMethodVars(c)[1].name = k
  BY <1>1, VarsOfCall
<1>4. NamesOf(extractChainMethodVars(c)) \subseteq 1..keys
  BY <1>3 DEF NamesOf
<1>5. globals' \in Seq(VarRec) /\ NamesOf(globals') \subseteq 1..keys
  <2>1. globals \in Seq(VarRec) /\ NamesOf(globals) \subseteq 1..keys
    BY DEF Recs
  <2>2. /\ globals \o extractChainMethodVars(c) \in Seq(VarRec)
        /\ NamesOf(globals \o extractChainMethodVars(c))
             = NamesOf(globals) \cup NamesOf(extractChainMethodVars(c))
    BY <1>3, <2>1, ConcatVars
  <2> QED BY <1>2, <1>4, <2>1, <2>2
<1>6. Recs'
  BY <1>2, <1>5 DEF Recs, fileVars
<1> QED BY <1>2, <1>6

-----------------------------------------------------------------------------
(* The invariant of the visitor.                                            *)

LEMMA ReadingVisits ==
  ASSUME NEW t \in TargetLists, NEW n, Reading(t, n)
  PROVE  /\ HoldsChain /\ n.kind = "chain" /\ n \in {Core(Head(todo))}
         /\ Visits("chain") <=> t = <<>>
         /\ Visits("assign") <=> t # <<>>
         /\ ~Visits("body") /\ ~Visits("static") /\ todo # <<>> /\ todo # <<Body>>
<1>1. n.kind = "chain" /\ todo = <<Node(t, n)>>
  BY ChainIsChain DEF Reading
<1>2. /\ todo # <<>> /\ Head(todo) = Node(t, n) /\ Core(Head(todo)) = n
      /\ Head(todo).kind \in {"chain", "assign"}
  BY <1>1, HoldsReading
<1>3. t = <<>> => Head(todo).kind = "chain"
  BY <1>1, <1>2, NodeCases
<1>4. t # <<>> => Head(todo).kind = "assign"
  BY <1>1, <1>2, NodeKind
<1>5. todo # <<Body>>
  <2>1. Head(<<Body>>).kind = "body"
    BY DEF Body
  <2> QED BY <1>2, <2>1
<1> QED BY <1>1, <1>2, <1>3, <1>4, <1>5 DEF Visits, HoldsChain

LEMMA HeldVisits ==
  ASSUME Holding
  PROVE  /\ Visits("body") => todo = <<Body>> /\ Len(usages) = made
         /\ Visits("static") =>
              /\ Len(usages) = made
              /\ \E m \in {"set_global", "bind_global"}, k \in 1..keys : todo = <<Static(m, <<k>>)>>
         /\ Visits("chain") \/ Visits("assign") =>
              HoldsChain /\ \E t \in TargetLists, n \in {Core(Head(todo))} : Reading(t, n)
         /\ todo = <<>> => Len(usages) = made
<1>1. CASE todo = <<>> /\ Len(usages) = made
  BY <1>1 DEF Visits
<1>2. CASE todo = <<Body>> /\ Len(usages) = made
  <2>1. Head(todo).kind = "body" /\ todo # <<>>
    BY <1>2 DEF Body
  <2> QED BY <1>2, <2>1 DEF Visits
<1>3. CASE /\ Len(usages) = made
           /\ \E m \in {"set_global", "bind_global"}, k \in 1..keys : todo = <<Static(m, <<k>>)>>
  <2>1. Head(todo).kind = "static" /\ todo # <<>>
    BY <1>3 DEF Static
  <2> QED BY <1>3, <2>1 DEF Visits
<1>4. CASE HoldsChain /\ \E t \in TargetLists, n \in {Core(Head(todo))} : Reading(t, n)
  <2>1. PICK t \in TargetLists, n \in {Core(Head(todo))} : Reading(t, n)
    BY <1>4
  <2>2. ~Visits("body") /\ ~Visits("static") /\ todo # <<>>
    BY <2>1, ReadingVisits
  <2> QED BY <1>4, <2>2
<1> QED BY <1>1, <1>2, <1>3, <1>4 DEF Holding

LEMMA ReadingHeld ==
  ASSUME NEW t \in TargetLists, NEW n, Reading(t, n)'
  PROVE  (HoldsChain /\ n \in {Core(Head(todo))} /\ Holding)'
<1>1. PICK m, ks, x : ChainOK(n, m, ks) /\ x = todo' /\ x = <<Node(t, n)>>
  BY DEF Reading
<1>2. x # <<>> /\ Head(x).kind \in {"chain", "assign"} /\ Core(Head(x)) = n
  BY <1>1, ChainIsChain, HoldsReading
<1>3. HoldsChain' /\ Core(Head(todo')) = n
  BY <1>1, <1>2 DEF HoldsChain
<1> QED BY <1>3 DEF Holding

LEMMA ExtractInductive ==
  /\ Init => ExtractInv
  /\ ExtractInv /\ [Next]_vars => ExtractInv'
<1>1. ASSUME Init PROVE ExtractInv
  <2>1. /\ todo = <<>> /\ seen = {} /\ scope = [v \in Var |-> 0] /\ usages = <<>>
        /\ globals = <<>> /\ made = 0 /\ keys = 0 /\ written = 0
        /\ frames = <<NewFrame({})>> /\ exposed = {} /\ owed = {}
    BY <1>1 DEF Init
  <2>2. Len(usages) = 0 /\ usages \in Seq(UsageRec) /\ globals \in Seq(VarRec) /\ Len(globals) = 0
    BY <2>1, EmptySeq
  <2>3. UsagesOK(usages, seen, keys)
    BY <2>2 DEF UsagesOK
  <2>4. NamesOf(globals) = {}
    BY <2>2 DEF NamesOf
  <2>5. NewFrame({}) \in FrameType(0)
    BY DEF NewFrame, FrameType
  <2>6. frames \in Seq(FrameType(made))
    BY <2>1, <2>5
  <2>7. scope \in [Var -> 0..Len(usages)]
    BY <2>1, <2>2
  <2>8. Recs
    BY <2>1, <2>2, <2>3, <2>4, <2>6, <2>7, ExtractAssumption DEF Recs
  <2> QED BY <2>1, <2>2, <2>8 DEF ExtractInv, Holding
<1>2. ASSUME ExtractInv, [Next]_vars PROVE ExtractInv'
  <2>0. Recs /\ Holding
    BY <1>2 DEF ExtractInv
  <2>1. CASE EnterBody
    <3>1. todo = <<Body>> /\ Len(usages) = made
      BY <2>0, <2>1, HeldVisits DEF EnterBody
    <3>2. Recs' /\ todo' = <<>> /\ UNCHANGED <<usages, made>>
      BY <2>0, <2>1, <3>1, EnterBodyKeeps DEF fileVars
    <3> QED BY <3>1, <3>2 DEF ExtractInv, Holding
  <2>2. CASE ExprAssign
    <3>1. PICK t \in TargetLists, n \in {Core(Head(todo))} : Reading(t, n)
      BY <2>0, <2>2, HeldVisits DEF ExprAssign
    <3>2. Recs' /\ Reading(Tail(t), n)'
      BY <2>0, <2>2, <3>1, AssignKeeps
    <3>3. Tail(t) \in TargetLists
      <4>1. t # <<>> /\ n.kind = "chain"
        BY <2>2, <3>1, ReadingVisits DEF ExprAssign
      <4> QED BY <4>1, NodeCases
    <3>4. PICK u \in TargetLists : u = Tail(t)
      BY <3>3
    <3>5. Reading(u, n)'
      BY <3>2, <3>4
    <3>6. Holding'
      BY <3>5, ReadingHeld
    <3> QED BY <3>2, <3>6 DEF ExtractInv
  <2>3. CASE ExprMethodCall
    <3>1. PICK t \in TargetLists, n \in {Core(Head(todo))} : Reading(t, n)
      BY <2>0, <2>3, HeldVisits DEF ExprMethodCall
    <3>2. t = <<>>
      BY <2>3, <3>1, ReadingVisits DEF ExprMethodCall
    <3>3. Recs' /\ Reading(<<>>, Receiver(n))'
      BY <2>0, <2>3, <3>1, <3>2, CallKeeps
    <3>4. PICK r : r = Receiver(n)
      OBVIOUS
    <3>5. Reading(<<>>, r)' /\ <<>> \in TargetLists
      BY <3>3, <3>4 DEF TargetLists
    <3>6. Holding'
      BY <3>5, ReadingHeld
    <3> QED BY <3>3, <3>6 DEF ExtractInv
  <2>4. CASE Construction
    <3>1. PICK t \in TargetLists, n \in {Core(Head(todo))} : Reading(t, n)
      BY <2>0, <2>4, HeldVisits DEF Construction
    <3>2. t = <<>>
      BY <2>4, <3>1, ReadingVisits DEF Construction
    <3>3. Recs' /\ todo' = <<>> /\ Len(usages') = made'
      BY <2>0, <2>4, <3>1, <3>2, ConstructionStep
    <3> QED BY <3>3 DEF ExtractInv, Holding
  <2>5. CASE tryGlobalStatic
    <3>1. Len(usages) = made
          /\ \E m \in {"set_global", "bind_global"}, k \in 1..keys : todo = <<Static(m, <<k>>)>>
      BY <2>0, <2>5, HeldVisits DEF tryGlobalStatic
    <3>2. Recs' /\ todo' = <<>> /\ UNCHANGED <<usages, made>>
      BY <2>0, <2>5, <3>1, StaticKeeps DEF fileVars
    <3> QED BY <3>1, <3>2 DEF ExtractInv, Holding
  <2>6. CASE frames # <<>> /\ \E t \in TargetLists : \E base \in Bases :
               \E calls \in CallLists(base) : Statement(t, Chain(base, calls))
    <3>0. PICK t \in TargetLists, base \in Bases :
            \E calls \in CallLists(base) : Statement(t, Chain(base, calls))
      BY <2>6
    <3>1. PICK calls \in CallLists(base) : Statement(t, Chain(base, calls))
      BY <3>0
    <3>2. PICK n : n = Chain(base, calls)
      OBVIOUS
    <3>3. todo = <<>> /\ Len(usages) = made
      BY <2>0, <3>1, HeldVisits DEF Statement
    <3>4. Recs' /\ Reading(t, n)'
      BY <2>0, <2>6, <3>1, <3>2, <3>3, StatementStep
    <3>5. Holding'
      BY <3>4, ReadingHeld
    <3> QED BY <3>4, <3>5 DEF ExtractInv
  <2>7. CASE \E m \in {"set_global", "bind_global"} : GlobalStatement(m)
    <3>1. PICK m \in {"set_global", "bind_global"} : GlobalStatement(m)
      BY <2>7
    <3>2. todo = <<>> /\ Len(usages) = made
      BY <2>0, <3>1, HeldVisits DEF GlobalStatement
    <3>3. Recs' /\ todo' = <<Static(m, <<keys + 1>>)>> /\ keys + 1 \in 1..keys'
          /\ UNCHANGED <<made, usages>>
      BY <2>0, <3>1, <3>2, OtherSteps DEF visitorVars
    <3>4. PICK k : k = keys + 1
      OBVIOUS
    <3>5. Holding'
      BY <3>2, <3>3, <3>4 DEF Holding
    <3> QED BY <3>3, <3>5 DEF ExtractInv
  <2>8. CASE \E params \in SUBSET Var : BeginBody(params)
    <3>1. PICK params \in SUBSET Var : BeginBody(params)
      BY <2>8
    <3>2. todo = <<>> /\ Len(usages) = made
      BY <2>0, <3>1, HeldVisits DEF BeginBody
    <3>3. Recs' /\ todo' = <<Body>> /\ UNCHANGED <<made, usages>>
      BY <2>0, <3>1, <3>2, OtherSteps DEF visitorVars
    <3> QED BY <3>2, <3>3 DEF ExtractInv, Holding
  <2>9. CASE EndBody
    <3>1. todo = <<>> /\ Len(usages) = made
      BY <2>0, <2>9, HeldVisits DEF EndBody
    <3>2. Recs' /\ todo' = <<>> /\ UNCHANGED <<made, usages>>
      BY <2>0, <2>9, <3>1, OtherSteps DEF visitorVars
    <3> QED BY <3>1, <3>2 DEF ExtractInv, Holding
  <2>10. CASE UNCHANGED vars
    <3>1. Recs'
      BY <2>0, <2>10 DEF Recs, vars
    <3>2. Holding'
      BY <2>0, <2>10 DEF Holding, HoldsChain, Reading, Unread, Found, vars
    <3> QED BY <3>1, <3>2 DEF ExtractInv
  <2> QED BY <1>2, <2>1, <2>2, <2>3, <2>4, <2>5, <2>6, <2>7, <2>8, <2>9, <2>10 DEF Next
<1> QED BY <1>1, <1>2

-----------------------------------------------------------------------------
(* What holds whether or not bodies lie within others.                      *)

LEMMA TypesAreCorrect ==
  ASSUME Recs
  PROVE  TypeOK
<1>1. DOMAIN usages = 1..Len(usages) /\ DOMAIN globals = 1..Len(globals)
  BY LenProperties DEF Recs, UsagesOK
<1>2. \A i \in DOMAIN usages : usages[i].pos \in 1..made
  BY <1>1 DEF Recs, UsagesOK
<1>3. \A i \in DOMAIN globals : globals[i].name \in 1..keys
  BY <1>1 DEF Recs, NamesOf
<1> QED BY <1>2, <1>3 DEF Recs, TypeOK

(* A place in the list of usages for each attribution, and one only. *)
LEMMA AttributedOnce ==
  ASSUME Recs
  PROVE  Cardinality(Attributions) =
           Cardinality(UNION {{<<i, k>> : k \in DOMAIN usages[i].vars} : i \in DOMAIN usages})
<1> DEFINE P == UNION {{<<i, k>> : k \in DOMAIN usages[i].vars} : i \in DOMAIN usages}
<1>1. /\ made \in Nat /\ keys \in Nat /\ seen \subseteq 1..made
      /\ UsagesOK(usages, seen, keys) /\ usages \in Seq(UsageRec)
  BY DEF Recs, UsagesOK
<1>2. /\ DOMAIN usages = 1..Len(usages)
      /\ \A i \in 1..Len(usages) : usages[i].vars \in Seq(VarRec)
      /\ \A i \in 1..Len(usages) : DOMAIN usages[i].vars = 1..Len(usages[i].vars)
  <2>1. DOMAIN usages = 1..Len(usages) /\ \A i \in 1..Len(usages) : usages[i] \in UsageRec
    BY <1>1, ElementOfSeq, LenProperties
  <2>2. \A i \in 1..Len(usages) : usages[i].vars \in Seq(VarRec)
    BY <2>1 DEF UsageRec
  <2> QED BY <2>1, <2>2, LenProperties
<1>3. \A p : p \in P <=> \E i \in 1..Len(usages) : \E k \in 1..Len(usages[i].vars) : p = <<i, k>>
  <2> DEFINE S(i) == {<<i, k>> : k \in DOMAIN usages[i].vars}
  <2>1. P = UNION {S(i) : i \in DOMAIN usages}
    OBVIOUS
  <2>2. \A i \in 1..Len(usages) : \A p : p \in S(i) <=> \E k \in 1..Len(usages[i].vars) : p = <<i, k>>
    BY <1>2
  <2> HIDE DEF S, P
  <2>3. \A p : p \in UNION {S(i) : i \in DOMAIN usages} <=> \E i \in DOMAIN usages : p \in S(i)
    OBVIOUS
  <2> QED BY <1>2, <2>1, <2>2, <2>3
<1>4. \A a : a \in Attributions <=> \E p, k : a = <<p, k>> /\ Given(usages, p, k)
  BY <1>1, AttributionsAre
<1>5. IsFiniteSet(Attributions)
  <2>1. Attributions \subseteq (1..made) \X (1..keys)
    <3> SUFFICES ASSUME NEW a \in Attributions PROVE a \in (1..made) \X (1..keys)
      OBVIOUS
    <3>1. PICK p, k : a = <<p, k>> /\ Given(usages, p, k)
      BY <1>4
    <3>2. p \in 1..made /\ k \in 1..keys
      BY <1>1, <3>1 DEF Given, UsagesOK
    <3> QED BY <3>1, <3>2
  <2>2. IsFiniteSet(1..made) /\ IsFiniteSet(1..keys)
    BY <1>1, FS_Interval
  <2>3. IsFiniteSet((1..made) \X (1..keys))
    BY <2>2, FS_Product
  <2> QED BY <2>1, <2>3, FS_Subset
<1> HIDE DEF P
<1> DEFINE at(p) == <<usages[p[1]].pos, usages[p[1]].vars[p[2]].name>>
           f == [p \in P |-> at(p)]
<1>6. ASSUME NEW p \in P PROVE at(p) \in Attributions
  <2>1. PICK i \in 1..Len(usages) : \E k \in 1..Len(usages[i].vars) : p = <<i, k>>
    BY <1>3
  <2>2. PICK k \in 1..Len(usages[i].vars) : p = <<i, k>>
    BY <2>1
  <2>3. Given(usages, usages[i].pos, usages[i].vars[k].name)
    BY DEF Given, NamesOf
  <2> QED BY <1>4, <2>2, <2>3
<1>7. ASSUME NEW p \in P, NEW q \in P, at(p) = at(q) PROVE p = q
  <2>1. PICK i \in 1..Len(usages), j \in 1..Len(usages) :
          /\ \E k \in 1..Len(usages[i].vars) : p = <<i, k>>
          /\ \E k \in 1..Len(usages[j].vars) : q = <<j, k>>
    BY <1>3
  <2>2. PICK k \in 1..Len(usages[i].vars) : p = <<i, k>>
    BY <2>1
  <2>3. PICK l \in 1..Len(usages[j].vars) : q = <<j, l>>
    BY <2>1
  <2>4. usages[i].pos = usages[j].pos /\ usages[i].vars[k].name = usages[j].vars[l].name
    BY <1>7, <2>2, <2>3
  <2>5. i = j
    BY <1>1, <2>4 DEF UsagesOK
  <2>6. k = l
    BY <1>1, <2>4, <2>5 DEF UsagesOK, Distinct
  <2> QED BY <2>2, <2>3, <2>5, <2>6
<1>8. ASSUME NEW a \in Attributions PROVE \E p \in P : at(p) = a
  <2>1. PICK x, k : a = <<x, k>> /\ Given(usages, x, k)
    BY <1>4
  <2>2. PICK i \in 1..Len(usages) : usages[i].pos = x /\ k \in NamesOf(usages[i].vars)
    BY <2>1 DEF Given
  <2>3. PICK j \in 1..Len(usages[i].vars) : usages[i].vars[j].name = k
    BY <2>2 DEF NamesOf
  <2>4. <<i, j>> \in P
    BY <1>3
  <2>5. at(<<i, j>>) = a
    BY <2>1, <2>2, <2>3
  <2> QED BY <2>4, <2>5
<1> HIDE DEF at
<1>9. f \in Injection(P, Attributions)
  BY <1>6, <1>7, Fun_IsInj
<1>10. f \in Surjection(P, Attributions)
  BY <1>6, <1>8, Fun_IsSurj
<1>11. Cardinality(P) = Cardinality(Attributions)
  BY <1>5, <1>9, <1>10, FS_Injection
<1> QED BY <1>11 DEF P

(* Positions, scope entries and names are always those of the file read so  *)
(* far: no index of the scope is beyond the list of usages.                 *)
THEOREM ExtractTypeCorrect == Spec => []TypeOK
<1>1. ExtractInv => TypeOK
  BY TypesAreCorrect DEF ExtractInv
<1> QED BY <1>1, ExtractInductive, PTL DEF Spec

(* Every construction is recorded once, whatever chains it stands in and    *)
(* whatever it is assigned to, and every call is attributed once.           *)
THEOREM ConstructionsRecordedOnce == Spec => []RecordedOnce
<1>1. ASSUME ExtractInv PROVE RecordedOnce
  <2>1. Recs /\ Holding
    BY <1>1 DEF ExtractInv
  <2>2. DOMAIN usages = 1..Len(usages)
    BY <2>1, LenProperties DEF Recs, UsagesOK
  <2>3. \A i, j \in DOMAIN usages : usages[i].pos = usages[j].pos => i = j
    BY <2>1, <2>2 DEF Recs, UsagesOK
  <2>4. todo = <<>> => Len(usages) = made
    BY <2>1, HeldVisits
  <2> QED BY <2>1, <2>3, <2>4, AttributedOnce DEF RecordedOnce
<1>2. ExtractInv => RecordedOnce
  BY <1>1
<1> QED BY <1>2, ExtractInductive, PTL DEF Spec

-----------------------------------------------------------------------------
(* What the index says is what PHP does, when bodies do not lie within      *)
(* others.                                                                  *)

LEMMA Positions ==
  ASSUME Recs
  PROVE  /\ Len(usages) \in Nat /\ scope \in [Var -> 0..Len(usages)]
         /\ \A v \in Var : scope[v] # 0 =>
              scope[v] \in 1..Len(usages) /\ usages[scope[v]].pos \in 1..made
<1>1. Len(usages) \in Nat /\ scope \in [Var -> 0..Len(usages)]
  BY LenProperties DEF Recs, UsagesOK
<1>2. ASSUME NEW v \in Var, scope[v] # 0 PROVE scope[v] \in 1..Len(usages)
  BY <1>1, <1>2
<1>3. \A i \in 1..Len(usages) : usages[i].pos \in 1..made
  BY DEF Recs, UsagesOK
<1> QED BY <1>1, <1>2, <1>3

LEMMA AssignSound ==
  ASSUME Recs, NEW t \in TargetLists, NEW n, Reading(t, n), ExprAssign,
         GivenIsExposed, ReadingSound(t, n)
  PROVE  GivenIsExposed' /\ ReadingSound(Tail(t), n)'
<1> DEFINE tracks == t[1] # Property /\ Found(n) /\ Tail(t) = <<>>
<1>1. /\ t # <<>> /\ UNCHANGED fileVars
      /\ tracks => /\ Unread(n) /\ usages' = Recorded(n)
                   /\ scope' = [scope EXCEPT ![t[1]] = Len(usages) + 1]
      /\ ~tracks => UNCHANGED <<seen, usages>>
      /\ ~tracks /\ t[1] # Property => scope' = [scope EXCEPT ![t[1]] = 0]
      /\ t[1] = Property => scope' = scope
  BY AssignStep
<1>2. ChainOK(n, made, keys) /\ n.kind = "chain" /\ (Found(n) <=> n.base.kind = "view")
      /\ frames # <<>>
  BY ChainIsChain DEF Reading
<1>3. /\ t[1] \in Var \cup {Property} /\ Range(t) = {t[1]} \cup Range(Tail(t))
      /\ Property \notin Var
  BY <1>1, <1>2, NodeCases, ExtractAssumption
<1>4. UNCHANGED <<made, keys, frames, exposed, Frame>>
  BY <1>1 DEF fileVars, Frame
<1>5. /\ \A i \in 1..Len(usages) : usages'[i].pos = usages[i].pos
      /\ tracks => usages'[Len(usages) + 1].pos = n.base.pos
      /\ \A p, k : Given(usages', p, k)
           => Given(usages, p, k) \/ (Found(n) /\ p = n.base.pos /\ k \in ChainNames(n))
  <2>1. CASE tracks
    <3>1. /\ Recorded(n)[Len(usages) + 1].pos = n.base.pos
          /\ \A i \in 1..Len(usages) : Recorded(n)[i] = usages[i]
          /\ \A p, k : Given(Recorded(n), p, k)
               <=> Given(usages, p, k) \/ (Unread(n) /\ p = n.base.pos /\ k \in ChainNames(n))
      BY <1>1, <1>2, <2>1, RecordedOf
    <3> QED BY <1>1, <2>1, <3>1 DEF Unread
  <2>2. CASE ~tracks
    BY <1>1, <2>2
  <2> QED BY <2>1, <2>2
<1>6. GivenIsExposed'
  BY <1>4, <1>5 DEF GivenIsExposed, ReadingSound
<1>7. ASSUME NEW v \in Var, v # t[1] PROVE scope'[v] = scope[v]
  BY <1>1, <1>3, <1>7, Positions
<1>8. ASSUME t[1] \in Var
      PROVE  scope'[t[1]] = IF tracks THEN Len(usages) + 1 ELSE 0
  BY <1>1, <1>3, <1>8, Positions
<1> HIDE DEF tracks
<1>9. ScopeFollows(Range(Tail(t)))'
  <2> SUFFICES ASSUME NEW v \in Var, v \notin Range(Tail(t)), scope'[v] # 0
               PROVE  Frame.holds[v] \in {Text, usages'[scope'[v]].pos}
    BY <1>4 DEF ScopeFollows
  <2>1. CASE v # t[1]
    <3>1. scope'[v] = scope[v] /\ v \notin Range(t) /\ scope[v] \in 1..Len(usages)
      BY <1>3, <1>7, <2>1, Positions
    <3>2. Frame.holds[v] \in {Text, usages[scope[v]].pos}
      BY <1>2, <3>1, Positions DEF ReadingSound, ScopeFollows
    <3> QED BY <1>5, <3>1, <3>2
  <2>2. CASE v = t[1]
    <3>1. tracks /\ scope'[v] = Len(usages) + 1 /\ v \in Range(t)
      BY <1>3, <1>8, <2>2
    <3>2. Frame.holds[v] \in {Text, n.base.pos}
      BY <3>1 DEF ReadingSound, tracks
    <3> QED BY <1>5, <3>1, <3>2
  <2> QED BY <2>1, <2>2
<1>10. ASSUME n.base.kind = "variable"
       PROVE  \/ n.base.var \in Range(Tail(t)) \/ scope'[n.base.var] = 0
              \/ \A k \in CallNames(n) : <<usages'[scope'[n.base.var]].pos, k>> \in exposed
  <2>1. n.base.var \in Var /\ ~tracks /\ ~Found(n)
    BY <1>2, <1>10 DEF ChainOK, tracks
  <2>2. usages' = usages
    BY <1>1, <2>1 DEF tracks
  <2>3. CASE n.base.var = t[1]
    BY <1>8, <2>1, <2>3
  <2>4. CASE n.base.var # t[1]
    <3>1. scope'[n.base.var] = scope[n.base.var]
      BY <1>7, <2>1, <2>4
    <3> QED BY <1>3, <1>10, <2>2, <2>4, <3>1 DEF ReadingSound
  <2> QED BY <2>3, <2>4
<1>11. Range(Tail(t)) \subseteq Range(t)
  BY <1>3
<1>12. ReadingSound(Tail(t), n)'
  BY <1>4, <1>9, <1>10, <1>11 DEF ReadingSound
<1> QED BY <1>6, <1>12

LEMMA CallSound ==
  ASSUME Recs, NEW n, Reading(<<>>, n), ExprMethodCall, GivenIsExposed, ReadingSound(<<>>, n)
  PROVE  GivenIsExposed' /\ ReadingSound(<<>>, Receiver(n))'
<1>1. /\ UNCHANGED scope /\ UNCHANGED fileVars /\ n.calls # <<>>
      /\ \A i \in 1..Len(usages) : usages'[i].pos = usages[i].pos
      /\ \A p, k : Given(usages', p, k) <=>
           \/ Given(usages, p, k)
           \/ Unread(n) /\ p = n.base.pos /\ k \in ChainNames(n)
           \/ /\ n.base.kind = "variable" /\ scope[n.base.var] # 0
              /\ p = usages[scope[n.base.var]].pos /\ k \in LastNames(n)
  BY CallStep
<1>2. ChainOK(n, made, keys) /\ (Found(n) <=> n.base.kind = "view") /\ frames # <<>>
      /\ made \in Nat /\ keys \in Nat
  BY ChainIsChain DEF Reading, Recs
<1>3. UNCHANGED <<frames, exposed, Frame>>
  BY <1>1 DEF fileVars, Frame
<1>4. PICK r : r = Receiver(n)
  OBVIOUS
<1>5. /\ CallNames(n) = LastNames(n) \cup CallNames(r) /\ ChainOK(r, made, keys)
      /\ r.base = n.base /\ ChainNames(r) \subseteq ChainNames(n)
  BY <1>1, <1>2, <1>4, LastCallOf, NamesOfCalls DEF LastNames
<1>6. Found(r) <=> Found(n)
  BY <1>2, <1>5, ChainIsChain
<1>7. Range(<<>>) = {}
  BY DEF Range
<1>8. n.base.kind = "variable" => n.base.var \in Var /\
        (scope[n.base.var] # 0 => scope[n.base.var] \in 1..Len(usages))
  BY <1>2, Positions DEF ChainOK
<1>9. n.base.kind = "variable" /\ scope[n.base.var] # 0 =>
        \A k \in CallNames(n) : <<usages[scope[n.base.var]].pos, k>> \in exposed
  BY <1>7 DEF ReadingSound
<1>10. GivenIsExposed'
  <2> SUFFICES ASSUME NEW p, NEW k, Given(usages', p, k) PROVE <<p, k>> \in exposed
    BY <1>3 DEF GivenIsExposed
  <2>1. CASE Given(usages, p, k)
    BY <2>1 DEF GivenIsExposed
  <2>2. CASE Unread(n) /\ p = n.base.pos /\ k \in ChainNames(n)
    BY <2>2 DEF ReadingSound, Unread
  <2>3. CASE /\ n.base.kind = "variable" /\ scope[n.base.var] # 0
             /\ p = usages[scope[n.base.var]].pos /\ k \in LastNames(n)
    BY <1>5, <1>9, <2>3
  <2> QED BY <1>1, <2>1, <2>2, <2>3
<1>11. ScopeFollows({})'
  <2> SUFFICES ASSUME NEW v \in Var, scope[v] # 0
               PROVE  Frame.holds[v] \in {Text, usages'[scope[v]].pos}
    BY <1>1, <1>3 DEF ScopeFollows
  <2>1. scope[v] \in 1..Len(usages)
    BY Positions
  <2>2. Frame.holds[v] \in {Text, usages[scope[v]].pos}
    BY <1>2, <1>7 DEF ReadingSound, ScopeFollows
  <2> QED BY <1>1, <2>1, <2>2
<1>12. n.base.kind = "variable" =>
         \/ scope[n.base.var] = 0
         \/ \A k \in CallNames(r) : <<usages'[scope[n.base.var]].pos, k>> \in exposed
  BY <1>1, <1>5, <1>8, <1>9
<1>13. Found(r) => \A k \in ChainNames(r) : <<r.base.pos, k>> \in exposed
  BY <1>5, <1>6 DEF ReadingSound
<1>14. ReadingSound(<<>>, r)'
  BY <1>1, <1>3, <1>5, <1>7, <1>11, <1>12, <1>13 DEF ReadingSound
<1> QED BY <1>4, <1>10, <1>14

LEMMA ConstructionSound ==
  ASSUME Recs, NEW n, Reading(<<>>, n), Construction, GivenIsExposed, ReadingSound(<<>>, n)
  PROVE  GivenIsExposed' /\ ScopeFollows({})'
<1>1. usages' = Recorded(n) /\ UNCHANGED scope /\ UNCHANGED fileVars
  BY ConstructionStep
<1>2. ChainOK(n, made, keys) /\ frames # <<>> /\ Range(<<>>) = {}
  BY DEF Reading, Range
<1>3. UNCHANGED <<frames, exposed, Frame>>
  BY <1>1 DEF fileVars, Frame
<1>4. /\ \A i \in 1..Len(usages) : usages'[i].pos = usages[i].pos
      /\ \A p, k : Given(usages', p, k)
           => Given(usages, p, k) \/ (Found(n) /\ p = n.base.pos /\ k \in ChainNames(n))
  BY <1>1, <1>2, RecordedOf DEF Unread
<1>5. GivenIsExposed'
  BY <1>3, <1>4 DEF GivenIsExposed, ReadingSound
<1>6. ScopeFollows({})'
  <2> SUFFICES ASSUME NEW v \in Var, scope[v] # 0
               PROVE  Frame.holds[v] \in {Text, usages'[scope[v]].pos}
    BY <1>1, <1>3 DEF ScopeFollows
  <2>1. scope[v] \in 1..Len(usages)
    BY Positions
  <2>2. Frame.holds[v] \in {Text, usages[scope[v]].pos}
    BY <1>2 DEF ReadingSound, ScopeFollows
  <2> QED BY <1>4, <2>1, <2>2
<1> QED BY <1>5, <1>6

(* The object of a chain as it is written: a view of its own, or one made   *)
(* before, and the chain sets its keys on it.                               *)
LEMMA WrittenObject ==
  ASSUME Recs, frames # <<>>, NEW base \in Bases, NEW calls \in CallLists(base),
         NEW n, n = Chain(base, calls)
  PROVE  /\ base.kind = "view" /\ ChainNames(n) # {} => Object(base) = made + 1
         /\ base.kind = "view" => Object(base) \in {Text, made + 1}
         /\ base.kind = "variable" => Object(base) = Frame.holds[base.var] /\ Object(base) # Text
         /\ Result(n) \in {Text, Object(base)}
<1>1. n.base = base /\ n.calls = calls
  BY DEF Chain
<1>2. made \in Nat /\ keys \in Nat /\ BaseKeys(base) \in Nat
  BY BaseCases DEF Recs
<1>3. Object(base) = Text => calls = <<>>
  BY <1>2, CallsCases
<1>4. ASSUME base.kind = "view", ChainNames(n) # {} PROVE Object(base) = made + 1
  <2>1. CASE base.construct = "find_file"
    <3>1. Object(base) = Text /\ base.keys = <<>>
      BY <1>4, <2>1, BaseCases
    <3>2. CallNames(n) = {}
      BY <1>1, <1>3, <3>1, NoCalls
    <3>3. Range(base.keys) = {}
      BY <3>1 DEF Range
    <3> QED BY <1>1, <1>4, <3>2, <3>3 DEF ChainNames
  <2>2. CASE base.construct # "find_file"
    BY <1>4, <2>2, BaseCases
  <2> QED BY <2>1, <2>2
<1>5. base.kind = "view" => Object(base) \in {Text, made + 1}
  BY BaseCases
<1>6. base.kind = "variable" => Object(base) = Frame.holds[base.var] /\ Object(base) # Text
  <2>1. base.kind = "variable" => Object(base) \in {NoView} \cup 1..made
    BY BaseCases
  <2>2. Text \notin {NoView} \cup 1..made
    BY <1>2 DEF Text, NoView
  <2> QED BY <2>1, <2>2, BaseCases
<1>7. Result(n) \in {Text, Object(base)}
  BY <1>1 DEF Result
<1> QED BY <1>4, <1>5, <1>6, <1>7

LEMMA StatementSound ==
  ASSUME Recs, frames # <<>>, todo = <<>>, Len(usages) = made,
         NEW t \in TargetLists, NEW base \in Bases, NEW calls \in CallLists(base),
         NEW n, n = Chain(base, calls), Statement(t, n),
         GivenIsExposed, ScopeFollows({})
  PROVE  GivenIsExposed' /\ ReadingSound(t, n)'
<1>1. /\ n.base = base /\ UNCHANGED visitorVars
      /\ Found(n) => n.base.pos = made + 1
      /\ \A a : a \in SetOn(n) <=>
           /\ Object(base) \notin {NoView, Text}
           /\ \E k \in ChainNames(n) : a = <<Object(base), k>>
  BY StatementStep
<1>2. exposed' = exposed \cup SetOn(n)
  BY DEF Statement
<1>3. UNCHANGED <<seen, scope, usages>>
  BY <1>1 DEF visitorVars
<1>4. made \in Nat /\ (Found(n) <=> base.kind = "view")
      /\ (base.kind = "variable" => base.var \in Var)
  <2>1. n.kind = "chain"
    BY DEF Chain
  <2> QED BY <1>1, <2>1, BaseCases DEF Recs, Found
<1>5. Result(n) \in {Text, NoView} \cup 1..(made + 1)
  <2>1. Result(n) \in {Text, Object(base)}
    BY WrittenObject
  <2>2. Object(base) \in {Text, NoView, made + 1} \cup 1..made
    BY BaseCases
  <2>3. \A i : i = made + 1 \/ i \in 1..made => i \in 1..(made + 1)
    BY <1>4
  <2> QED BY <2>1, <2>2, <2>3
<1>6. /\ frames' # <<>>
      /\ \A v \in Var : Frame.holds'[v] = IF v \in Range(t) THEN Result(n) ELSE Frame.holds[v]
  <2>1. PICK m \in Nat : m = made + 1 /\ made <= m
    BY <1>4
  <2> QED BY <1>5, <2>1, StatementFrames
<1>7. GivenIsExposed'
  BY <1>2, <1>3 DEF GivenIsExposed
<1>8. ScopeFollows(Range(t))'
  BY <1>3, <1>6 DEF ScopeFollows
<1>9. ASSUME Found(n), NEW k \in ChainNames(n) PROVE <<n.base.pos, k>> \in exposed'
  <2>1. Object(base) = made + 1
    BY <1>4, <1>9, WrittenObject
  <2>2. made + 1 \notin {NoView, Text}
    BY <1>4 DEF NoView, Text
  <2> QED BY <1>1, <1>2, <1>9, <2>1, <2>2
<1>10. ASSUME Found(n), NEW v \in Range(t) \cap Var PROVE Frame.holds'[v] \in {Text, n.base.pos}
  <2>1. Frame.holds'[v] = Result(n) /\ Result(n) \in {Text, Object(base)}
    BY <1>6, WrittenObject
  <2>2. Object(base) \in {Text, made + 1}
    BY <1>4, <1>10, WrittenObject
  <2> QED BY <1>1, <1>10, <2>1, <2>2
<1>11. ASSUME base.kind = "variable", scope[base.var] # 0, NEW k \in CallNames(n)
       PROVE  <<usages[scope[base.var]].pos, k>> \in exposed'
  <2>1. Object(base) = Frame.holds[base.var] /\ Object(base) # Text /\ base.var \in Var
    BY <1>4, <1>11, WrittenObject
  <2>2. Object(base) = usages[scope[base.var]].pos
    BY <1>11, <2>1 DEF ScopeFollows
  <2>3. usages[scope[base.var]].pos \in 1..made
    BY <1>11, <2>1, Positions
  <2>4. Object(base) # NoView
    BY <1>4, <2>2, <2>3 DEF NoView
  <2>5. k \in ChainNames(n)
    BY DEF ChainNames
  <2> QED BY <1>1, <1>2, <2>1, <2>2, <2>4, <2>5
<1>12. ReadingSound(t, n)'
  BY <1>1, <1>3, <1>8, <1>9, <1>10, <1>11 DEF ReadingSound
<1> QED BY <1>7, <1>12

LEMMA SoundInductive ==
  ASSUME ~Nested
  PROVE  /\ Init => SoundInv
         /\ ExtractInv /\ SoundInv /\ [Next]_vars => SoundInv'
<1>1. ASSUME Init PROVE SoundInv
  <2>1. todo = <<>> /\ usages = <<>> /\ scope = [v \in Var |-> 0]
    BY <1>1 DEF Init
  <2>2. Len(usages) = 0
    BY <2>1
  <2>3. GivenIsExposed
    BY <2>2 DEF GivenIsExposed, Given
  <2>4. ScopeFollows({}) /\ ~HoldsChain
    BY <2>1 DEF ScopeFollows, HoldsChain
  <2> QED BY <2>3, <2>4 DEF SoundInv
<1>2. ASSUME ExtractInv, SoundInv, [Next]_vars PROVE SoundInv'
  <2>0. Recs /\ Holding /\ GivenIsExposed
    BY <1>2 DEF ExtractInv, SoundInv
  <2>1. ASSUME todo = <<>> PROVE ScopeFollows({}) /\ Len(usages) = made
    BY <1>2, <2>0, <2>1, HeldVisits DEF SoundInv, HoldsChain
  <2>2. ASSUME Visits("chain") \/ Visits("assign")
        PROVE  \E t \in TargetLists, n \in {Core(Head(todo))} : Reading(t, n) /\ ReadingSound(t, n)
    <3>1. HoldsChain
      BY <2>0, <2>2, HeldVisits
    <3>2. todo # <<Body>>
      <4>1. Head(<<Body>>).kind = "body"
        BY DEF Body
      <4> QED BY <3>1, <4>1 DEF HoldsChain
    <3> QED BY <1>2, <3>1, <3>2 DEF SoundInv
  <2>3. CASE EnterBody
    <3>1. todo = <<Body>>
      BY <2>0, <2>3, HeldVisits DEF EnterBody
    <3>2. todo' = <<>> /\ scope' = ClearedScope /\ UNCHANGED usages /\ UNCHANGED fileVars
      BY <2>0, <2>3, <3>1, EnterBodyKeeps
    <3>3. ScopeFollows({})' /\ ~HoldsChain'
      BY <3>2 DEF ScopeFollows, HoldsChain, ClearedScope
    <3>4. GivenIsExposed'
      BY <2>0, <3>2 DEF GivenIsExposed, fileVars
    <3> QED BY <3>3, <3>4 DEF SoundInv
  <2>4. CASE ExprAssign
    <3>1. PICK t \in TargetLists, n \in {Core(Head(todo))} : Reading(t, n) /\ ReadingSound(t, n)
      BY <2>2, <2>4 DEF ExprAssign
    <3>2. Reading(Tail(t), n)' /\ GivenIsExposed' /\ ReadingSound(Tail(t), n)'
      BY <2>0, <2>4, <3>1, AssignKeeps, AssignSound
    <3>3. Tail(t) \in TargetLists
      <4>1. t # <<>> /\ n.kind = "chain"
        BY <2>4, <3>1, ReadingVisits DEF ExprAssign
      <4> QED BY <4>1, NodeCases
    <3>4. PICK u \in TargetLists : u = Tail(t)
      BY <3>3
    <3>5. PICK r : r = n
      OBVIOUS
    <3>6. Reading(u, r)' /\ ReadingSound(u, r)' /\ GivenIsExposed'
      BY <3>2, <3>4, <3>5
    <3>7. HoldsChain' /\ r \in {Core(Head(todo'))}
      BY <3>6, ReadingHeld
    <3> QED BY <3>6, <3>7 DEF SoundInv
  <2>5. CASE ExprMethodCall
    <3>1. PICK t \in TargetLists, n \in {Core(Head(todo))} : Reading(t, n) /\ ReadingSound(t, n)
      BY <2>2, <2>5 DEF ExprMethodCall
    <3>2. t = <<>>
      BY <2>5, <3>1, ReadingVisits DEF ExprMethodCall
    <3>3. Reading(<<>>, Receiver(n))' /\ GivenIsExposed' /\ ReadingSound(<<>>, Receiver(n))'
      BY <2>0, <2>5, <3>1, <3>2, CallKeeps, CallSound
    <3>4. PICK u \in TargetLists, r \in {Receiver(n)} : u = <<>>
      BY DEF TargetLists
    <3>5. Reading(u, r)' /\ ReadingSound(u, r)' /\ GivenIsExposed'
      BY <3>3, <3>4
    <3>6. HoldsChain' /\ r \in {Core(Head(todo'))}
      BY <3>5, ReadingHeld
    <3> QED BY <3>5, <3>6 DEF SoundInv
  <2>6. CASE Construction
    <3>1. PICK t \in TargetLists, n \in {Core(Head(todo))} : Reading(t, n) /\ ReadingSound(t, n)
      BY <2>2, <2>6 DEF Construction
    <3>2. t = <<>>
      BY <2>6, <3>1, ReadingVisits DEF Construction
    <3>3. GivenIsExposed' /\ ScopeFollows({})' /\ todo' = <<>>
      BY <2>0, <2>6, <3>1, <3>2, ConstructionSound, ConstructionStep
    <3> QED BY <3>3 DEF SoundInv, HoldsChain
  <2>7. CASE tryGlobalStatic
    <3>1. PICK m \in {"set_global", "bind_global"}, k \in 1..keys : todo = <<Static(m, <<k>>)>>
      BY <2>0, <2>7, HeldVisits DEF tryGlobalStatic
    <3>2. todo' = <<>> /\ UNCHANGED <<scope, usages>> /\ UNCHANGED fileVars
      BY <2>0, <2>7, <3>1, StaticKeeps
    <3>3. Head(todo).kind = "static" /\ todo # <<Body>>
      <4>1. Head(<<Body>>).kind = "body" /\ Head(todo).kind = "static"
        BY <3>1 DEF Body, Static
      <4> QED BY <4>1
    <3>4. ScopeFollows({})
      BY <1>2, <3>3 DEF SoundInv, HoldsChain
    <3>5. ScopeFollows({})' /\ GivenIsExposed' /\ ~HoldsChain'
      BY <2>0, <3>2, <3>4 DEF ScopeFollows, GivenIsExposed, HoldsChain, fileVars, Frame
    <3> QED BY <3>5 DEF SoundInv
  <2>8. CASE frames # <<>> /\ \E t \in TargetLists : \E base \in Bases :
               \E calls \in CallLists(base) : Statement(t, Chain(base, calls))
    <3>1. PICK t \in TargetLists, base \in Bases :
            \E calls \in CallLists(base) : Statement(t, Chain(base, calls))
      BY <2>8
    <3>2. PICK calls \in CallLists(base) : Statement(t, Chain(base, calls))
      BY <3>1
    <3>3. PICK n : n = Chain(base, calls)
      OBVIOUS
    <3>4. todo = <<>>
      BY <3>2 DEF Statement
    <3>5. Reading(t, n)' /\ GivenIsExposed' /\ ReadingSound(t, n)'
      BY <2>0, <2>1, <2>8, <3>2, <3>3, <3>4, StatementStep, StatementSound
    <3>6. HoldsChain' /\ n \in {Core(Head(todo'))}
      BY <3>5, ReadingHeld
    <3> QED BY <3>5, <3>6 DEF SoundInv
  <2>9. CASE \E m \in {"set_global", "bind_global"} : GlobalStatement(m)
    <3>1. PICK m \in {"set_global", "bind_global"} : GlobalStatement(m)
      BY <2>9
    <3>2. todo = <<>>
      BY <3>1 DEF GlobalStatement
    <3>3. todo' = <<Static(m, <<keys + 1>>)>> /\ UNCHANGED <<frames, exposed>>
          /\ UNCHANGED visitorVars
      BY <2>0, <2>1, <3>1, <3>2, OtherSteps
    <3>4. Head(todo').kind = "static"
      BY <3>3 DEF Static
    <3>5. ScopeFollows({})' /\ GivenIsExposed' /\ ~HoldsChain'
      BY <2>0, <2>1, <3>2, <3>3, <3>4
         DEF ScopeFollows, GivenIsExposed, HoldsChain, visitorVars, Frame
    <3> QED BY <3>5 DEF SoundInv
  <2>10. CASE \E params \in SUBSET Var : BeginBody(params)
    <3>1. PICK params \in SUBSET Var : BeginBody(params)
      BY <2>10
    <3>2. todo = <<>>
      BY <3>1 DEF BeginBody
    <3>3. todo' = <<Body>> /\ UNCHANGED <<exposed, usages>>
      BY <2>0, <2>1, <3>1, <3>2, OtherSteps DEF visitorVars
    <3>4. GivenIsExposed'
      BY <2>0, <3>3 DEF GivenIsExposed
    <3> QED BY <3>3, <3>4 DEF SoundInv
  <2>11. CASE EndBody
    <3>1. todo = <<>>
      BY <2>11 DEF EndBody
    <3>2. todo' = <<>> /\ frames' = <<>> /\ UNCHANGED <<exposed, usages>>
      BY <2>0, <2>1, <2>11, <3>1, OtherSteps DEF visitorVars
    <3>3. ScopeFollows({})' /\ GivenIsExposed' /\ ~HoldsChain'
      BY <2>0, <3>2 DEF ScopeFollows, GivenIsExposed, HoldsChain
    <3> QED BY <3>3 DEF SoundInv
  <2>12. CASE UNCHANGED vars
    <3>1. UNCHANGED <<todo, seen, scope, usages, frames, exposed, made, keys, Frame>>
      BY <2>12 DEF vars, Frame
    <3>2. (HoldsChain' <=> HoldsChain) /\ (GivenIsExposed' <=> GivenIsExposed)
          /\ (ScopeFollows({})' <=> ScopeFollows({}))
      BY <3>1 DEF HoldsChain, GivenIsExposed, ScopeFollows
    <3>3. \A t, n : (Reading(t, n)' <=> Reading(t, n))
                    /\ (ReadingSound(t, n)' <=> ReadingSound(t, n))
      BY <3>1 DEF Reading, Unread, ReadingSound, ScopeFollows
    <3> QED BY <1>2, <3>1, <3>2, <3>3 DEF SoundInv
  <2> QED BY <1>2, <2>3, <2>4, <2>5, <2>6, <2>7, <2>8, <2>9, <2>10, <2>11, <2>12 DEF Next
<1> QED BY <1>1, <1>2

(* What the index says a view is given, PHP gives to that view: the         *)
(* extraction invents nothing, as long as no body lies within another and   *)
(* the code after it is not read with the scope it leaves.                  *)
THEOREM ExtractionIsSound ==
  ASSUME ~Nested
  PROVE  Spec => []AttributionSound
<1>1. ASSUME ExtractInv, SoundInv PROVE AttributionSound
  <2>1. \A a : a \in Attributions <=> \E p, k : a = <<p, k>> /\ Given(usages, p, k)
    BY <1>1, AttributionsAre DEF ExtractInv, Recs, UsagesOK
  <2> QED BY <1>1, <2>1 DEF SoundInv, GivenIsExposed, AttributionSound
<1>2. Init => ExtractInv /\ SoundInv
  BY ExtractInductive, SoundInductive
<1>3. ExtractInv /\ SoundInv /\ [Next]_vars => ExtractInv' /\ SoundInv'
  BY ExtractInductive, SoundInductive
<1>4. ExtractInv /\ SoundInv => AttributionSound
  BY <1>1
<1> QED BY <1>2, <1>3, <1>4, PTL DEF Spec

-----------------------------------------------------------------------------
(* What PHP does by the documented forms, the index says, when no variable  *)
(* is assigned by the statement that calls it, either.                      *)

LEMMA AssignComplete ==
  ASSUME Recs, NEW t \in TargetLists, NEW n, Reading(t, n), ExprAssign, ReadingComplete(t, n)
  PROVE  ReadingComplete(Tail(t), n)'
<1> DEFINE tracks == t[1] # Property /\ Found(n) /\ Tail(t) = <<>>
<1>1. /\ t # <<>> /\ UNCHANGED fileVars
      /\ tracks => /\ Unread(n) /\ usages' = Recorded(n)
                   /\ scope' = [scope EXCEPT ![t[1]] = Len(usages) + 1]
      /\ ~tracks => UNCHANGED <<seen, usages>>
      /\ ~tracks /\ t[1] # Property => scope' = [scope EXCEPT ![t[1]] = 0]
      /\ t[1] = Property => scope' = scope
  BY AssignStep
<1>2. ChainOK(n, made, keys) /\ n.kind = "chain" /\ (Found(n) <=> n.base.kind = "view")
      /\ frames # <<>>
  BY ChainIsChain DEF Reading
<1>3. /\ t[1] \in Var \cup {Property} /\ Range(t) = {t[1]} \cup Range(Tail(t))
      /\ Property \notin Var
      /\ Tail(t) # <<>> => t[Len(t)] = Tail(t)[Len(Tail(t))] /\ t[1] # t[Len(t)]
  BY <1>1, <1>2, NodeCases, ExtractAssumption
<1>4. UNCHANGED <<made, keys, frames, owed, Frame>>
  BY <1>1 DEF fileVars, Frame
<1>5. /\ \A i \in 1..Len(usages) : usages'[i].pos = usages[i].pos
      /\ tracks => /\ usages'[Len(usages) + 1].pos = n.base.pos
                   /\ \A k \in ChainNames(n) : Given(usages', n.base.pos, k)
      /\ \A p, k : Given(usages, p, k) => Given(usages', p, k)
  <2>1. CASE tracks
    <3>1. /\ Recorded(n)[Len(usages) + 1].pos = n.base.pos
          /\ \A i \in 1..Len(usages) : Recorded(n)[i] = usages[i]
          /\ \A p, k : Given(Recorded(n), p, k)
               <=> Given(usages, p, k) \/ (Unread(n) /\ p = n.base.pos /\ k \in ChainNames(n))
      BY <1>1, <1>2, <2>1, RecordedOf
    <3> QED BY <1>1, <2>1, <3>1
  <2>2. CASE ~tracks
    BY <1>1, <2>2
  <2> QED BY <2>1, <2>2
<1>6. ASSUME NEW v \in Var, v # t[1] PROVE scope'[v] = scope[v]
  BY <1>1, <1>3, <1>6, Positions
<1>7. ASSUME t[1] \in Var
      PROVE  scope'[t[1]] = IF tracks THEN Len(usages) + 1 ELSE 0
  BY <1>1, <1>3, <1>7, Positions
<1>8. Len(usages) + 1 # 0
  BY Positions
<1>9. DirectTracked(Range(Tail(t)))'
  <2> SUFFICES ASSUME NEW v \in Var, v \notin Range(Tail(t)), Frame.direct[v]
               PROVE  scope'[v] # 0 /\ Frame.holds[v] = usages'[scope'[v]].pos
    BY <1>4 DEF DirectTracked
  <2>1. CASE v # t[1]
    <3>1. scope'[v] = scope[v] /\ v \notin Range(t)
      BY <1>3, <1>6, <2>1
    <3>2. scope[v] # 0 /\ Frame.holds[v] = usages[scope[v]].pos
      BY <1>2, <3>1 DEF ReadingComplete, DirectTracked
    <3>3. scope[v] \in 1..Len(usages)
      BY <3>2, Positions
    <3> QED BY <1>5, <3>1, <3>2, <3>3
  <2>2. CASE v = t[1]
    <3>1. v = t[Len(t)] /\ Found(n) /\ Frame.holds[v] = n.base.pos
      BY <1>3, <2>2 DEF ReadingComplete
    <3>2. tracks
      BY <1>3, <2>2, <3>1
    <3> QED BY <1>5, <1>7, <1>8, <2>2, <3>1, <3>2
  <2> QED BY <2>1, <2>2
<1>10. ASSUME NEW p, NEW k, <<p, k>> \in owed PROVE Given(usages', p, k) \/ Owing(n, p, k)'
  <2>1. Given(usages, p, k) \/ Owing(n, p, k)
    BY <1>10 DEF ReadingComplete
  <2>2. CASE Given(usages, p, k)
    BY <1>5, <2>2
  <2>3. CASE Owing(n, p, k) /\ tracks
    <3>1. n.base.kind # "variable"
      BY <1>2, <2>3
    <3> QED BY <1>5, <2>3, <3>1 DEF Owing
  <2>4. CASE Owing(n, p, k) /\ ~tracks
    <3>1. seen' = seen /\ usages' = usages
      BY <1>1, <2>4
    <3>2. n.base.kind = "variable" => scope'[n.base.var] = scope[n.base.var]
      <4>1. n.base.kind = "variable" => n.base.var \in Var /\ n.base.var # t[1]
        BY <1>2, <1>3 DEF ChainOK, ReadingComplete
      <4> QED BY <1>6, <4>1
    <3> QED BY <2>4, <3>1, <3>2 DEF Owing, Unread
  <2> QED BY <2>1, <2>2, <2>3, <2>4
<1>11. ASSUME NEW v \in Range(Tail(t)) \cap Var, Frame.direct[v]
       PROVE  v = Tail(t)[Len(Tail(t))] /\ Found(n) /\ Frame.holds[v] = n.base.pos
  <2>1. v = t[Len(t)] /\ Found(n) /\ Frame.holds[v] = n.base.pos
    BY <1>3, <1>11 DEF ReadingComplete
  <2>2. Tail(t) # <<>>
    BY DEF Range
  <2> QED BY <1>3, <2>1, <2>2
<1>12. n.base.kind = "variable" => n.base.var \notin Range(Tail(t))
  BY <1>3 DEF ReadingComplete
<1> QED BY <1>4, <1>9, <1>10, <1>11, <1>12 DEF ReadingComplete

LEMMA CallComplete ==
  ASSUME Recs, NEW n, Reading(<<>>, n), ExprMethodCall, ReadingComplete(<<>>, n)
  PROVE  ReadingComplete(<<>>, Receiver(n))'
<1>1. /\ UNCHANGED scope /\ UNCHANGED fileVars /\ n.calls # <<>>
      /\ \A i \in 1..Len(usages) : usages'[i].pos = usages[i].pos
      /\ \A p, k : Given(usages', p, k) <=>
           \/ Given(usages, p, k)
           \/ Unread(n) /\ p = n.base.pos /\ k \in ChainNames(n)
           \/ /\ n.base.kind = "variable" /\ scope[n.base.var] # 0
              /\ p = usages[scope[n.base.var]].pos /\ k \in LastNames(n)
  BY CallStep
<1>2. ChainOK(n, made, keys) /\ frames # <<>> /\ made \in Nat /\ keys \in Nat
  BY DEF Reading, Recs
<1>3. UNCHANGED <<frames, owed, Frame>>
  BY <1>1 DEF fileVars, Frame
<1>4. PICK r : r = Receiver(n)
  OBVIOUS
<1>5. CallNames(n) = LastNames(n) \cup CallNames(r) /\ r.base = n.base
  BY <1>1, <1>2, <1>4, LastCallOf DEF LastNames
<1>6. Range(<<>>) = {}
  BY DEF Range
<1>7. ASSUME NEW v \in Var, Frame.direct[v]
      PROVE  scope[v] # 0 /\ Frame.holds[v] = usages'[scope[v]].pos
  <2>1. scope[v] # 0 /\ Frame.holds[v] = usages[scope[v]].pos
    BY <1>2, <1>6, <1>7 DEF ReadingComplete, DirectTracked
  <2>2. scope[v] \in 1..Len(usages)
    BY <2>1, Positions
  <2> QED BY <1>1, <2>1, <2>2
<1>8. ASSUME NEW p, NEW k, <<p, k>> \in owed PROVE Given(usages', p, k) \/ Owing(r, p, k)'
  <2>1. Given(usages, p, k) \/ Owing(n, p, k)
    BY <1>8 DEF ReadingComplete
  <2>2. CASE Given(usages, p, k) \/ (Unread(n) /\ p = n.base.pos /\ k \in ChainNames(n))
    BY <1>1, <2>2
  <2>3. CASE /\ n.base.kind = "variable" /\ scope[n.base.var] # 0
             /\ p = usages[scope[n.base.var]].pos /\ k \in CallNames(n)
    <3>1. CASE k \in LastNames(n)
      BY <1>1, <2>3, <3>1
    <3>2. CASE k \in CallNames(r)
      <4>1. n.base.var \in Var
        BY <1>2, <2>3 DEF ChainOK
      <4>2. scope[n.base.var] \in 1..Len(usages)
        BY <2>3, <4>1, Positions
      <4>3. usages'[scope[n.base.var]].pos = p
        BY <1>1, <2>3, <4>2
      <4> QED BY <1>1, <1>5, <2>3, <3>2, <4>3 DEF Owing
    <3> QED BY <1>5, <2>3, <3>1, <3>2
  <2> QED BY <2>1, <2>2, <2>3 DEF Owing
<1>9. ReadingComplete(<<>>, r)'
  BY <1>1, <1>3, <1>6, <1>7, <1>8 DEF ReadingComplete, DirectTracked
<1> QED BY <1>4, <1>9

LEMMA ConstructionComplete ==
  ASSUME Recs, NEW n, Reading(<<>>, n), Construction, ReadingComplete(<<>>, n)
  PROVE  OwedIsGiven' /\ DirectTracked({})'
<1>1. n.calls = <<>> /\ usages' = Recorded(n) /\ UNCHANGED scope /\ UNCHANGED fileVars
  BY ConstructionStep
<1>2. ChainOK(n, made, keys) /\ frames # <<>> /\ Range(<<>>) = {} /\ CallNames(n) = {}
  BY <1>1, NoCalls DEF Reading, Range
<1>3. UNCHANGED <<frames, owed, Frame>>
  BY <1>1 DEF fileVars, Frame
<1>4. /\ \A i \in 1..Len(usages) : usages'[i].pos = usages[i].pos
      /\ \A p, k : Given(usages', p, k)
           <=> Given(usages, p, k) \/ (Unread(n) /\ p = n.base.pos /\ k \in ChainNames(n))
  BY <1>1, <1>2, RecordedOf
<1>5. OwedIsGiven'
  BY <1>2, <1>3, <1>4 DEF OwedIsGiven, ReadingComplete, Owing
<1>6. DirectTracked({})'
  <2> SUFFICES ASSUME NEW v \in Var, Frame.direct[v]
               PROVE  scope[v] # 0 /\ Frame.holds[v] = usages'[scope[v]].pos
    BY <1>1, <1>3 DEF DirectTracked
  <2>1. scope[v] # 0 /\ Frame.holds[v] = usages[scope[v]].pos
    BY <1>2 DEF ReadingComplete, DirectTracked
  <2>2. scope[v] \in 1..Len(usages)
    BY <2>1, Positions
  <2> QED BY <1>4, <2>1, <2>2
<1> QED BY <1>5, <1>6

LEMMA StatementComplete ==
  ASSUME ~SelfAssign, Recs, frames # <<>>, todo = <<>>, Len(usages) = made,
         NEW t \in TargetLists, NEW base \in Bases, NEW calls \in CallLists(base),
         NEW n, n = Chain(base, calls), Statement(t, n),
         OwedIsGiven, DirectTracked({})
  PROVE  ReadingComplete(t, n)'
<1>1. /\ n.base = base /\ UNCHANGED visitorVars
      /\ Found(n) => Unread(n) /\ n.base.pos = made + 1
      /\ \A a : a \in SetOn(n) <=>
           /\ Object(base) \notin {NoView, Text}
           /\ \E k \in ChainNames(n) : a = <<Object(base), k>>
  BY StatementStep
<1>2. owed' = IF Visible(n) THEN owed \cup SetOn(n) ELSE owed
  BY DEF Statement
<1>3. UNCHANGED <<seen, scope, usages>>
  BY <1>1 DEF visitorVars
<1>4. made \in Nat /\ (Found(n) <=> base.kind = "view")
      /\ (base.kind = "variable" => base.var \in Var)
  <2>1. n.kind = "chain"
    BY DEF Chain
  <2> QED BY <1>1, <2>1, BaseCases DEF Recs, Found
<1>5. Result(n) \in {Text, NoView} \cup 1..(made + 1)
  <2>1. Result(n) \in {Text, Object(base)}
    BY WrittenObject
  <2>2. Object(base) \in {Text, NoView, made + 1} \cup 1..made
    BY BaseCases
  <2>3. \A i : i = made + 1 \/ i \in 1..made => i \in 1..(made + 1)
    BY <1>4
  <2> QED BY <2>1, <2>2, <2>3
<1>6. /\ frames' # <<>>
      /\ \A v \in Var : Frame.holds'[v] = IF v \in Range(t) THEN Result(n) ELSE Frame.holds[v]
      /\ \A v \in Var : Frame.direct'[v] =
           IF v \in Range(t) THEN v = t[Len(t)] /\ n.base.kind = "view" /\ Result(n) > 0
           ELSE Frame.direct[v]
  <2>1. PICK m \in Nat : m = made + 1 /\ made <= m
    BY <1>4
  <2> QED BY <1>5, <2>1, StatementFrames
<1>7. DirectTracked(Range(t))'
  <2> SUFFICES ASSUME NEW v \in Var, v \notin Range(t), Frame.direct'[v]
               PROVE  scope[v] # 0 /\ Frame.holds'[v] = usages[scope[v]].pos
    BY <1>3 DEF DirectTracked
  <2>1. Frame.direct[v] /\ Frame.holds'[v] = Frame.holds[v]
    BY <1>6
  <2> QED BY <2>1 DEF DirectTracked
<1>8. ASSUME NEW p, NEW k, <<p, k>> \in owed' PROVE Given(usages, p, k) \/ Owing(n, p, k)
  <2>1. CASE <<p, k>> \in owed
    BY <2>1 DEF OwedIsGiven
  <2>2. CASE Visible(n) /\ <<p, k>> \in SetOn(n)
    <3>1. p = Object(base) /\ k \in ChainNames(n)
      BY <1>1, <2>2
    <3>2. CASE base.kind = "view"
      <4>1. Object(base) = made + 1
        BY <3>1, <3>2, WrittenObject
      <4> QED BY <1>1, <1>4, <3>1, <3>2, <4>1 DEF Owing
    <3>3. CASE base.kind = "variable" /\ Frame.direct[base.var]
      <4>1. scope[base.var] # 0 /\ Frame.holds[base.var] = usages[scope[base.var]].pos
        BY <1>4, <3>3 DEF DirectTracked
      <4>2. Object(base) = Frame.holds[base.var]
        BY <3>3, WrittenObject
      <4>3. k \in CallNames(n)
        BY <1>1, <3>1, <3>3 DEF ChainNames
      <4> QED BY <1>1, <3>1, <3>3, <4>1, <4>2, <4>3 DEF Owing
    <3> QED BY <1>1, <2>2, <3>2, <3>3 DEF Visible
  <2> QED BY <1>2, <1>8, <2>1, <2>2
<1>9. ASSUME NEW v \in Range(t) \cap Var, Frame.direct'[v]
      PROVE  v = t[Len(t)] /\ Found(n) /\ Frame.holds'[v] = n.base.pos
  <2>1. v = t[Len(t)] /\ base.kind = "view" /\ Result(n) > 0 /\ Frame.holds'[v] = Result(n)
    BY <1>1, <1>6, <1>9
  <2>2. Result(n) # Text
    BY <2>1 DEF Text
  <2>3. Result(n) = made + 1
    BY <2>1, <2>2, WrittenObject
  <2> QED BY <1>1, <1>4, <2>1, <2>3
<1>10. base.kind = "variable" => base.var \notin Range(t)
  BY <1>1 DEF Statement
<1>11. \A p, k : Owing(n, p, k)' <=> Owing(n, p, k)
  BY <1>3 DEF Owing, Unread
<1> QED BY <1>1, <1>3, <1>7, <1>8, <1>9, <1>10, <1>11 DEF ReadingComplete

LEMMA CompleteInductive ==
  ASSUME ~Nested, ~SelfAssign
  PROVE  /\ Init => CompleteInv
         /\ ExtractInv /\ CompleteInv /\ [Next]_vars => CompleteInv'
<1>0. Head(<<Body>>).kind = "body" /\ <<Body>> # <<>>
  BY DEF Body
<1>1. ASSUME Init PROVE CompleteInv
  <2>1. todo = <<>> /\ frames = <<NewFrame({})>> /\ owed = {}
    BY <1>1 DEF Init
  <2>2. \A v \in Var : ~Frame.direct[v]
    <3>1. Frame = NewFrame({})
      BY <2>1 DEF Frame
    <3>2. Frame.direct = [v \in Var |-> FALSE]
      BY <3>1 DEF NewFrame
    <3> QED BY <3>2, Zenon
  <2>3. DirectTracked({}) /\ ~HoldsChain /\ OwedIsGiven /\ todo # <<Body>>
    BY <2>1, <2>2 DEF DirectTracked, HoldsChain, OwedIsGiven
  <2> QED BY <2>3 DEF CompleteInv
<1>2. ASSUME ExtractInv, CompleteInv, [Next]_vars PROVE CompleteInv'
  <2>0. Recs /\ Holding
    BY <1>2 DEF ExtractInv
  <2>1. ASSUME todo = <<>> PROVE OwedIsGiven /\ DirectTracked({}) /\ Len(usages) = made
    BY <1>0, <1>2, <2>0, <2>1, HeldVisits DEF CompleteInv, HoldsChain
  <2>2. ASSUME Visits("chain") \/ Visits("assign")
        PROVE  \E t \in TargetLists, n \in {Core(Head(todo))} : Reading(t, n) /\ ReadingComplete(t, n)
    <3>1. HoldsChain
      BY <2>0, <2>2, HeldVisits
    <3>2. todo # <<Body>>
      BY <1>0, <3>1 DEF HoldsChain
    <3> QED BY <1>2, <3>1, <3>2 DEF CompleteInv
  <2>3. CASE EnterBody
    <3>1. todo = <<Body>>
      BY <2>0, <2>3, HeldVisits DEF EnterBody
    <3>2. todo' = <<>> /\ UNCHANGED usages /\ UNCHANGED fileVars
      BY <2>0, <2>3, <3>1, EnterBodyKeeps
    <3>3. OwedIsGiven /\ (frames # <<>> => \A v \in Var : ~Frame.direct[v])
      BY <1>0, <1>2, <3>1 DEF CompleteInv, HoldsChain
    <3>4. DirectTracked({})' /\ OwedIsGiven' /\ ~HoldsChain' /\ todo' # <<Body>>
      BY <1>0, <3>2, <3>3 DEF DirectTracked, OwedIsGiven, HoldsChain, fileVars, Frame
    <3> QED BY <3>4 DEF CompleteInv
  <2>4. CASE ExprAssign
    <3>1. PICK t \in TargetLists, n \in {Core(Head(todo))} : Reading(t, n) /\ ReadingComplete(t, n)
      BY <2>2, <2>4 DEF ExprAssign
    <3>2. Reading(Tail(t), n)' /\ ReadingComplete(Tail(t), n)'
      BY <2>0, <2>4, <3>1, AssignKeeps, AssignComplete
    <3>3. Tail(t) \in TargetLists
      <4>1. t # <<>> /\ n.kind = "chain"
        BY <2>4, <3>1, ReadingVisits DEF ExprAssign
      <4> QED BY <4>1, NodeCases
    <3>4. PICK u \in TargetLists : u = Tail(t)
      BY <3>3
    <3>5. PICK r : r = n
      OBVIOUS
    <3>6. Reading(u, r)' /\ ReadingComplete(u, r)'
      BY <3>2, <3>4, <3>5
    <3>7. HoldsChain' /\ r \in {Core(Head(todo'))}
      BY <3>6, ReadingHeld
    <3> QED BY <3>6, <3>7 DEF CompleteInv
  <2>5. CASE ExprMethodCall
    <3>1. PICK t \in TargetLists, n \in {Core(Head(todo))} : Reading(t, n) /\ ReadingComplete(t, n)
      BY <2>2, <2>5 DEF ExprMethodCall
    <3>2. t = <<>>
      BY <2>5, <3>1, ReadingVisits DEF ExprMethodCall
    <3>3. Reading(<<>>, Receiver(n))' /\ ReadingComplete(<<>>, Receiver(n))'
      BY <2>0, <2>5, <3>1, <3>2, CallKeeps, CallComplete
    <3>4. PICK u \in TargetLists, r \in {Receiver(n)} : u = <<>>
      BY DEF TargetLists
    <3>5. Reading(u, r)' /\ ReadingComplete(u, r)'
      BY <3>3, <3>4
    <3>6. HoldsChain' /\ r \in {Core(Head(todo'))}
      BY <3>5, ReadingHeld
    <3> QED BY <3>5, <3>6 DEF CompleteInv
  <2>6. CASE Construction
    <3>1. PICK t \in TargetLists, n \in {Core(Head(todo))} : Reading(t, n) /\ ReadingComplete(t, n)
      BY <2>2, <2>6 DEF Construction
    <3>2. t = <<>>
      BY <2>6, <3>1, ReadingVisits DEF Construction
    <3>3. OwedIsGiven' /\ DirectTracked({})' /\ todo' = <<>>
      BY <2>0, <2>6, <3>1, <3>2, ConstructionComplete, ConstructionStep
    <3> QED BY <1>0, <3>3 DEF CompleteInv, HoldsChain
  <2>7. CASE tryGlobalStatic
    <3>1. PICK m \in {"set_global", "bind_global"}, k \in 1..keys : todo = <<Static(m, <<k>>)>>
      BY <2>0, <2>7, HeldVisits DEF tryGlobalStatic
    <3>2. todo' = <<>> /\ UNCHANGED <<scope, usages>> /\ UNCHANGED fileVars
      BY <2>0, <2>7, <3>1, StaticKeeps
    <3>3. Head(todo).kind = "static" /\ todo # <<Body>>
      <4>1. Head(todo).kind = "static"
        BY <3>1 DEF Static
      <4> QED BY <1>0, <4>1
    <3>4. DirectTracked({}) /\ OwedIsGiven
      BY <1>2, <3>3 DEF CompleteInv, HoldsChain
    <3>5. DirectTracked({})' /\ OwedIsGiven' /\ ~HoldsChain' /\ todo' # <<Body>>
      BY <1>0, <3>2, <3>4 DEF DirectTracked, OwedIsGiven, HoldsChain, fileVars, Frame
    <3> QED BY <3>5 DEF CompleteInv
  <2>8. CASE frames # <<>> /\ \E t \in TargetLists : \E base \in Bases :
               \E calls \in CallLists(base) : Statement(t, Chain(base, calls))
    <3>1. PICK t \in TargetLists, base \in Bases :
            \E calls \in CallLists(base) : Statement(t, Chain(base, calls))
      BY <2>8
    <3>2. PICK calls \in CallLists(base) : Statement(t, Chain(base, calls))
      BY <3>1
    <3>3. PICK n : n = Chain(base, calls)
      OBVIOUS
    <3>4. todo = <<>>
      BY <3>2 DEF Statement
    <3>5. Reading(t, n)' /\ ReadingComplete(t, n)'
      BY <2>0, <2>1, <2>8, <3>2, <3>3, <3>4, StatementStep, StatementComplete
    <3>6. HoldsChain' /\ n \in {Core(Head(todo'))}
      BY <3>5, ReadingHeld
    <3> QED BY <3>5, <3>6 DEF CompleteInv
  <2>9. CASE \E m \in {"set_global", "bind_global"} : GlobalStatement(m)
    <3>1. PICK m \in {"set_global", "bind_global"} : GlobalStatement(m)
      BY <2>9
    <3>2. todo = <<>>
      BY <3>1 DEF GlobalStatement
    <3>3. todo' = <<Static(m, <<keys + 1>>)>> /\ UNCHANGED <<frames, owed>>
          /\ UNCHANGED visitorVars
      BY <2>0, <2>1, <3>1, <3>2, OtherSteps
    <3>4. Head(todo').kind = "static"
      BY <3>3 DEF Static
    <3>5. todo' # <<Body>>
      BY <1>0, <3>4
    <3>6. DirectTracked({})' /\ OwedIsGiven' /\ ~HoldsChain'
      BY <2>0, <2>1, <3>2, <3>3, <3>4
         DEF DirectTracked, OwedIsGiven, HoldsChain, visitorVars, Frame
    <3> QED BY <3>5, <3>6 DEF CompleteInv
  <2>10. CASE \E params \in SUBSET Var : BeginBody(params)
    <3>1. PICK params \in SUBSET Var : BeginBody(params)
      BY <2>10
    <3>2. todo = <<>>
      BY <3>1 DEF BeginBody
    <3>3. todo' = <<Body>> /\ UNCHANGED <<owed, usages>>
          /\ frames' = <<NewFrame(params)>> \o <<>>
      BY <2>0, <2>1, <3>1, <3>2, OtherSteps DEF visitorVars
    <3>4. frames' = <<NewFrame(params)>>
      BY <3>3, OneNode
    <3>5. Frame' = NewFrame(params)
      BY <3>4 DEF Frame
    <3>6. Frame.direct' = [v \in Var |-> FALSE]
      BY <3>5 DEF NewFrame
    <3>7. \A v \in Var : ~Frame.direct'[v]
      BY <3>6, Zenon
    <3>8. OwedIsGiven'
      BY <2>1, <3>2, <3>3 DEF OwedIsGiven
    <3> QED BY <3>3, <3>7, <3>8 DEF CompleteInv
  <2>11. CASE EndBody
    <3>1. todo = <<>>
      BY <2>11 DEF EndBody
    <3>2. todo' = <<>> /\ frames' = <<>> /\ UNCHANGED <<owed, usages>>
      BY <2>0, <2>1, <2>11, <3>1, OtherSteps DEF visitorVars
    <3>3. DirectTracked({})' /\ OwedIsGiven' /\ ~HoldsChain' /\ todo' # <<Body>>
      BY <1>0, <2>1, <3>1, <3>2 DEF DirectTracked, OwedIsGiven, HoldsChain
    <3> QED BY <3>3 DEF CompleteInv
  <2>12. CASE UNCHANGED vars
    <3>1. UNCHANGED <<todo, seen, scope, usages, frames, owed, made, keys, Frame>>
      BY <2>12 DEF vars, Frame
    <3>2. (HoldsChain' <=> HoldsChain) /\ (OwedIsGiven' <=> OwedIsGiven)
          /\ (DirectTracked({})' <=> DirectTracked({}))
      BY <3>1 DEF HoldsChain, OwedIsGiven, DirectTracked
    <3>3. \A t, n : (Reading(t, n)' <=> Reading(t, n))
                    /\ (ReadingComplete(t, n)' <=> ReadingComplete(t, n))
      BY <3>1 DEF Reading, Unread, ReadingComplete, DirectTracked, Owing
    <3> QED BY <1>2, <3>1, <3>2, <3>3 DEF CompleteInv
  <2> QED BY <1>2, <2>3, <2>4, <2>5, <2>6, <2>7, <2>8, <2>9, <2>10, <2>11, <2>12 DEF Next
<1> QED BY <1>1, <1>2

(* Once a statement is read, the index says all that PHP gives to a view by *)
(* one of the documented forms: the extraction forgets nothing, as long as  *)
(* no body lies within another and no statement assigns to a variable it    *)
(* calls.                                                                   *)
THEOREM ExtractionIsComplete ==
  ASSUME ~Nested, ~SelfAssign
  PROVE  Spec => []AttributionComplete
<1>1. ASSUME ExtractInv, CompleteInv PROVE AttributionComplete
  <2>1. \A a : a \in Attributions <=> \E p, k : a = <<p, k>> /\ Given(usages, p, k)
    BY <1>1, AttributionsAre DEF ExtractInv, Recs, UsagesOK
  <2>2. Head(<<Body>>).kind = "body" /\ <<Body>> # <<>>
    BY DEF Body
  <2>3. ASSUME todo = <<>>, NEW a \in owed PROVE a \in Attributions
    <3>1. OwedIsGiven
      BY <1>1, <2>2, <2>3 DEF CompleteInv, HoldsChain
    <3>2. PICK p, k : a = <<p, k>>
      BY <1>1, <2>3 DEF ExtractInv, Recs
    <3> QED BY <2>1, <2>3, <3>1, <3>2 DEF OwedIsGiven
  <2> QED BY <2>3 DEF AttributionComplete
<1>2. Init => ExtractInv /\ CompleteInv
  BY ExtractInductive, CompleteInductive
<1>3. ExtractInv /\ CompleteInv /\ [Next]_vars => ExtractInv' /\ CompleteInv'
  BY ExtractInductive, CompleteInductive
<1>4. ExtractInv /\ CompleteInv => AttributionComplete
  BY <1>1
<1> QED BY <1>2, <1>3, <1>4, PTL DEF Spec
=============================================================================
