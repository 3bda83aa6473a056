------------------------------ MODULE Extract ------------------------------
(***************************************************************************)
(* The extraction visitor of internal/indexer/view/extract.go: one pass     *)
(* over a PHP file in pre-order that records every construction of a view   *)
(* once, and attributes to it the variables set along its chain of calls    *)
(* or, later, through the variable that holds it.                           *)
(*                                                                         *)
(* The file is written as it is read: a statement is chosen, the traverser  *)
(* visits its nodes, the outermost first, and then the next one is chosen.  *)
(* Next to the visitor runs what PHP does with the same statements: which   *)
(* view each variable holds, which views each call really set a key on.     *)
(*                                                                         *)
(* Abstractions.  A construction is known by its position, the n-th of the  *)
(* file, and a key by the call that sets it, so the names of views and keys *)
(* are numbers.  Nodes in the arguments of a call are statements that       *)
(* follow it.  Branches and loops are not modelled: every statement runs,   *)
(* once, in the order of the file.  Types and ranges are left out.          *)
(***************************************************************************)
EXTENDS Integers, FiniteSets, SequencesExt

CONSTANTS
  Var,            \* the local variables of the file, with a literal name
  Construct,      \* the constructions used: "factory", "new", "find_file"
  Method,         \* the methods called on views
  MaxStatements,  \* bound: statements and boundaries of a file
  MaxCalls,       \* bound: method calls in a chain
  Nested,         \* whether bodies lie within others and code follows them
  SelfAssign      \* whether a statement assigns to a variable it calls

Property == "a property"  \* the target $this->x: an assignment to no variable
NoView == 0               \* an object from elsewhere: positions start at 1
Undefined == -2           \* a variable that was not assigned in its body
Text == -1                \* a string: what render() and find_file return

ASSUME ExtractAssumption ==
  /\ Property \notin Var
  /\ Construct \subseteq {"factory", "new", "find_file"}
  /\ Method \subseteq {"set", "bind", "set_global", "bind_global", "render"}
  /\ MaxStatements \in Nat /\ MaxCalls \in Nat

VARIABLES
  todo,     \* the nodes the traverser has still to visit, next one first
  seen,     \* positions of the constructions recorded
  scope,    \* variable -> index in usages, 0 when it has none
  usages,   \* the usages recorded, as they were appended to
  globals,  \* variables exposed by the static set_global and bind_global
  made,     \* constructions written so far
  keys,     \* keys written so far
  written,  \* statements written so far
  frames,   \* per open body: the view each variable holds, and whether it is
            \* there by an assignment of its construction
  exposed,  \* <<position, key>>: what PHP sets on which view
  owed      \* those of them the documented forms make visible

visitorVars == <<seen, scope, usages, globals>>
fileVars == <<made, keys, written, frames, exposed, owed>>
vars == <<todo, seen, scope, usages, globals, made, keys, written, frames, exposed, owed>>
-----------------------------------------------------------------------------
(* Nodes.  A chain is its base and the calls made on it, innermost first;   *)
(* without its last call it is the receiver of that call.                   *)

Chain(base, calls) == [kind |-> "chain", base |-> base, calls |-> calls]
Assignment(v, expr) == [kind |-> "assign", var |-> v, expr |-> expr]
Body == [kind |-> "body"]
Static(method, ks) == [kind |-> "static", method |-> method, keys |-> ks]

Receiver(n) == Chain(n.base, Front(n.calls))
LastCall(n) == n.calls[Len(n.calls)]

Source(method) ==
  CASE method = "set" -> "SourceSet"
    [] method = "bind" -> "SourceBind"
    [] method = "set_global" -> "SourceSetGlobal"
    [] method = "bind_global" -> "SourceBindGlobal"

ExposedVar(k, source) == [name |-> k, source |-> source]

(* The keys are the literal ones: a call with any other argument has none.  *)
(* Any other method than these four exposes nothing.                        *)
extractChainMethodVars(call) ==
  IF call.method = "render" THEN <<>>
  ELSE [i \in DOMAIN call.keys |-> ExposedVar(call.keys[i], Source(call.method))]

(* The array given to factory or new; find_file takes none. *)
extractSecondArgVars(base) ==
  IF base.construct = "find_file" THEN <<>>
  ELSE [i \in DOMAIN base.keys |-> ExposedVar(base.keys[i], "SourceFactoryArray")]

(* tryExtractChain: found when the innermost receiver constructs a view. *)
Found(n) == n.kind = "chain" /\ n.base.kind = "view"

(* All variables of a chain.  Mutant: the calls below the last are left out. *)
ChainVars_LastOnly(n) ==
  extractSecondArgVars(n.base)
    \o (IF n.calls = <<>> THEN <<>> ELSE extractChainMethodVars(LastCall(n)))

ChainVars(n) ==
  extractSecondArgVars(n.base)
    \o FlattenSeq([i \in DOMAIN n.calls |-> extractChainMethodVars(n.calls[i])])

Usage(n) == [pos |-> n.base.pos, construct |-> n.base.construct, vars |-> ChainVars(n)]
-----------------------------------------------------------------------------
(* The visitor.                                                             *)

Visits(kind) == todo # <<>> /\ Head(todo).kind = kind

(* StmtClassMethod, StmtFunction, ExprClosure, ExprArrowFunction.  Mutant:  *)
(* nothing is cleared.                                                      *)
ClearedScope_Kept == scope

ClearedScope == [v \in Var |-> 0]

EnterBody ==
  /\ Visits("body")
  /\ scope' = ClearedScope
  /\ todo' = Tail(todo)
  /\ UNCHANGED <<seen, usages, globals>> /\ UNCHANGED fileVars

(* idx: where the usage is about to go.  Mutant: taken after the append. *)
NextIndex_AfterAppend == Len(usages) + 2

NextIndex == Len(usages) + 1

(* ExprAssign.  What is assigned to a variable and is not a view takes the  *)
(* variable out of the scope, before the right-hand side is visited.        *)
(* Mutant: it stays.                                                        *)
Untracked_Kept(v) == scope

Untracked(v) == [scope EXCEPT ![v] = 0]

ExprAssign ==
  /\ Visits("assign")
  /\ LET v == Head(todo).var
         n == Head(todo).expr
         new == v # Property /\ Found(n) /\ n.base.pos \notin seen
     IN /\ seen' = IF new THEN seen \cup {n.base.pos} ELSE seen
        /\ usages' = IF new THEN Append(usages, Usage(n)) ELSE usages
        /\ scope' = IF new THEN [scope EXCEPT ![v] = NextIndex]
                    ELSE IF v # Property /\ ~Found(n) THEN Untracked(v)
                    ELSE scope
        /\ todo' = <<n>> \o Tail(todo)
  /\ UNCHANGED globals /\ UNCHANGED fileVars

(* record: the outermost node of a chain stands for all of it.  Mutant: so  *)
(* does every other.                                                        *)
Recorded_Always(n) == IF ~Found(n) THEN usages ELSE Append(usages, Usage(n))

Recorded(n) ==
  IF ~Found(n) \/ n.base.pos \in seen THEN usages ELSE Append(usages, Usage(n))

Marked(n) == IF Found(n) THEN seen \cup {n.base.pos} ELSE seen

(* resolveScope: the variable at the end of the receivers, if it is tracked. *)
resolveScope(n) == IF n.base.kind = "variable" THEN scope[n.base.var] ELSE 0

(* tryScopeAttribution: the variables of this call alone, the receivers get *)
(* a visit of their own.                                                    *)
Attributed(us, n) ==
  IF resolveScope(n) = 0 THEN us
  ELSE [us EXCEPT ![resolveScope(n)].vars = @ \o extractChainMethodVars(LastCall(n))]

ExprMethodCall ==
  /\ Visits("chain") /\ Head(todo).calls # <<>>
  /\ LET n == Head(todo) IN
       /\ usages' = Attributed(Recorded(n), n)
       /\ seen' = Marked(n)
       /\ todo' = <<Receiver(n)>> \o Tail(todo)
  /\ UNCHANGED <<scope, globals>> /\ UNCHANGED fileVars

(* ExprStaticCall and ExprNew; a variable or any other base has no visitor. *)
Construction ==
  /\ Visits("chain") /\ Head(todo).calls = <<>>
  /\ usages' = Recorded(Head(todo))
  /\ seen' = Marked(Head(todo))
  /\ todo' = Tail(todo)
  /\ UNCHANGED <<scope, globals>> /\ UNCHANGED fileVars

tryGlobalStatic ==
  /\ Visits("static")
  /\ globals' = globals \o extractChainMethodVars(Head(todo))
  /\ todo' = Tail(todo)
  /\ UNCHANGED <<seen, scope, usages>> /\ UNCHANGED fileVars
-----------------------------------------------------------------------------
(* PHP, and the file under the visitor.                                     *)

Frame == Head(frames)
NewFrame(params) ==
  [holds |-> [v \in Var |-> IF v \in params THEN NoView ELSE Undefined],
   direct |-> [v \in Var |-> FALSE]]

Keys(n) == [i \in 1..n |-> keys + i]

(* A base, with at most one key in its array. *)
Bases ==
  {[kind |-> "view", pos |-> made + 1, construct |-> p[1], keys |-> Keys(p[2])] :
     p \in {q \in Construct \X {0, 1} : q[1] = "find_file" => q[2] = 0}}
  \cup {[kind |-> "variable", var |-> v] : v \in {w \in Var : Frame.holds[w] \notin {Text, Undefined}}}
  \cup {[kind |-> "other"]}

BaseKeys(base) == IF base.kind = "view" THEN Len(base.keys) ELSE 0

(* The view the base is. *)
Object(base) ==
  CASE base.kind = "view" -> IF base.construct = "find_file" THEN Text ELSE base.pos
    [] base.kind = "variable" -> Frame.holds[base.var]
    [] base.kind = "other" -> NoView

(* The calls on it, each with one key of its own; no call on a string. *)
CallLists(base) ==
  IF Object(base) = Text THEN {<<>>} ELSE
  {[i \in DOMAIN ms |-> [method |-> ms[i], keys |-> <<keys + BaseKeys(base) + i>>]] :
     ms \in {s \in UNION {[1..n -> Method] : n \in 0..MaxCalls} :
               \A i \in 1 .. Len(s) - 1 : s[i] # "render"}}

(* The view the whole chain is. *)
Result(n) ==
  IF n.calls # <<>> /\ LastCall(n).method = "render" THEN Text ELSE Object(n.base)

SetOn(n) ==
  LET calls == UNION {{c.keys[i] : i \in DOMAIN c.keys} :
                        c \in {d \in Range(n.calls) : d.method # "render"}}
      array == IF n.base.kind = "view" THEN Range(n.base.keys) ELSE {}
  IN IF Object(n.base) \in {NoView, Text} THEN {}
     ELSE {<<Object(n.base), k>> : k \in calls \cup array}

(* The forms extract.go documents: the chain of a construction, and a chain *)
(* on a variable that was assigned one in this body.                        *)
Visible(n) ==
  \/ n.base.kind = "view"
  \/ n.base.kind = "variable" /\ Frame.direct[n.base.var]

(* Targets of an assignment: none, one, or $a = $b = ... *)
TargetLists == {<<>>} \cup {<<v>> : v \in Var \cup {Property}}
               \cup {<<p[1], p[2]>> : p \in {q \in Var \X Var : q[1] # q[2]}}

Node(targets, n) ==
  CASE Len(targets) = 0 -> n
    [] Len(targets) = 1 -> Assignment(targets[1], n)
    [] Len(targets) = 2 -> Assignment(targets[1], Assignment(targets[2], n))

Statement(targets, n) ==
  /\ todo = <<>> /\ written < MaxStatements
  /\ n.base.kind = "variable" /\ n.base.var \in Range(targets) => SelfAssign
  /\ todo' = <<Node(targets, n)>>
  /\ written' = written + 1
  /\ made' = IF n.base.kind = "view" THEN made + 1 ELSE made
  /\ keys' = keys + BaseKeys(n.base) + Len(n.calls)
  /\ exposed' = exposed \cup SetOn(n)
  /\ owed' = IF Visible(n) THEN owed \cup SetOn(n) ELSE owed
  /\ frames' = [frames EXCEPT ![1] =
       [holds |-> [v \in Var |-> IF v \in Range(targets) THEN Result(n) ELSE @.holds[v]],
        direct |-> [v \in Var |->
          IF v \in Range(targets)
          THEN v = targets[Len(targets)] /\ n.base.kind = "view" /\ Result(n) > 0
          ELSE @.direct[v]]]]
  /\ UNCHANGED visitorVars

GlobalStatement(method) ==
  /\ todo = <<>> /\ written < MaxStatements
  /\ todo' = <<Static(method, <<keys + 1>>)>>
  /\ written' = written + 1 /\ keys' = keys + 1
  /\ UNCHANGED <<made, frames, exposed, owed>> /\ UNCHANGED visitorVars

(* A function, method or closure begins, with objects as its parameters;    *)
(* when bodies do not nest, the one before it is over.                      *)
BeginBody(params) ==
  /\ todo = <<>> /\ written < MaxStatements
  /\ todo' = <<Body>>
  /\ written' = written + 1
  /\ frames' = <<NewFrame(params)>> \o (IF Nested THEN frames ELSE <<>>)
  /\ UNCHANGED <<made, keys, exposed, owed>> /\ UNCHANGED visitorVars

(* The end of a body has no visitor: the code after it is read with the     *)
(* scope the body leaves.  When bodies do not nest, only another follows.   *)
EndBody ==
  /\ todo = <<>> /\ Len(frames) > (IF Nested THEN 1 ELSE 0)
  /\ frames' = IF Nested THEN Tail(frames) ELSE <<>>
  /\ UNCHANGED <<todo, made, keys, written, exposed, owed>> /\ UNCHANGED visitorVars

Init ==
  /\ todo = <<>> /\ seen = {} /\ scope = [v \in Var |-> 0]
  /\ usages = <<>> /\ globals = <<>>
  /\ made = 0 /\ keys = 0 /\ written = 0
  /\ frames = <<NewFrame({})>> /\ exposed = {} /\ owed = {}

Next ==
  \/ EnterBody \/ ExprAssign \/ ExprMethodCall \/ Construction \/ tryGlobalStatic
  \/ /\ frames # <<>>
     /\ \/ \E targets \in TargetLists : \E base \in Bases : \E calls \in CallLists(base) :
             Statement(targets, Chain(base, calls))
        \/ \E m \in {"set_global", "bind_global"} : GlobalStatement(m)
  \/ \E params \in SUBSET Var : BeginBody(params)
  \/ EndBody

Spec == Init /\ [][Next]_vars
-----------------------------------------------------------------------------
TypeOK ==
  /\ seen \subseteq 1..made
  /\ scope \in [Var -> 0 .. Len(usages)]
  /\ \A i \in DOMAIN usages : usages[i].pos \in 1..made
  /\ \A i \in DOMAIN globals : globals[i].name \in 1..keys
  /\ written \in 0..MaxStatements
  /\ exposed \subseteq (1..made) \X (1..keys) /\ owed \subseteq exposed

Attributions == UNION {{<<usages[i].pos, x.name>> : x \in Range(usages[i].vars)} :
                          i \in DOMAIN usages}

(* extract.go:28-34: every construction is recorded once, however many      *)
(* nodes of its chain lead to it and whether or not it is assigned; and a   *)
(* call is attributed once, to one usage.                                   *)
RecordedOnce ==
  /\ \A i, j \in DOMAIN usages : usages[i].pos = usages[j].pos => i = j
  /\ todo = <<>> => Len(usages) = made
  /\ Cardinality(Attributions) =
       Cardinality(UNION {{<<i, k>> : k \in DOMAIN usages[i].vars} : i \in DOMAIN usages})

(* What the index says a view is given, PHP gives to that view.             *)
AttributionSound == Attributions \subseteq exposed

(* What PHP gives to a view by one of the documented forms, the index says, *)
(* once the statement is read.                                              *)
AttributionComplete == todo = <<>> => owed \subseteq Attributions
=============================================================================
