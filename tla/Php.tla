-------------------------------- MODULE Php --------------------------------
(***************************************************************************)
(* A PHP document as the parser gives it to the visitors of internal/lsp   *)
(* and internal/project: a tree of the nodes they look at, written the way *)
(* it is read.  Nodes are added in pre-order, so that the number of a node *)
(* is its place in the order in which a visitor meets it, and the document *)
(* may stop growing at any point: every prefix is a document of its own.   *)
(*                                                                         *)
(* A document is one statement, of a page or of bootstrap.php.  A node is  *)
(* its form, the node above it and the slot of that node it fills.  What   *)
(* no visitor looks at (other arguments, other calls) is left out; an      *)
(* empty slot is no argument at all (->controller() is a getter).  A       *)
(* string literal is known by its node, so different literals are          *)
(* different strings; class names are matched with and without the leading *)
(* backslash, and a find_file is told apart by the literal it has as its   *)
(* first argument.                                                         *)
(***************************************************************************)
EXTENDS Integers, FiniteSets, SequencesExt, Selection

CONSTANTS
  HelperArgs,      \* role -> argument of the configured route helper
  MaxNodes,        \* bound: nodes of a page
  MaxKinds,        \* bound: different kinds of call in a page
  MaxModuleNodes,  \* bound: nodes of a bootstrap.php
  MaxModules       \* bound: modules it declares

ViewForm == {"View::factory", "new View", "find_file views"}
FileForm == {"find_file classes", "find_file config", "Kohana::message", "ORM::factory"}
MethodForm == {"->defaults", "->controller", "->action"}
CallForm == ViewForm \cup FileForm \cup MethodForm \cup {"Route::url", "helper"}
ArrayTaker == {"Route::url", "->defaults", "Kohana::modules"}
PathConstant == {"APPPATH", "MODPATH", "SYSPATH", "DOCROOT"}

Role == {"controller", "action", "directory"}
RouteKey == Role \cup {"other", "none"}        \* "none": no key, or no literal
ModuleKey == {"blog", "shop", "none"}
Argument == {"arg0", "arg1", "arg2"}

ASSUME PhpAssumption ==
  /\ DOMAIN HelperArgs \subseteq Role
  /\ \A r \in DOMAIN HelperArgs : HelperArgs[r] \in Argument
  /\ MaxNodes \in Nat /\ MaxKinds \in Nat
  /\ MaxModuleNodes \in Nat /\ MaxModules \in Nat

VARIABLE doc  \* the nodes, in pre-order
-----------------------------------------------------------------------------
Nodes == DOMAIN doc
Form(n) == IF n = 0 THEN "absent" ELSE doc[n].form
Above(n) == doc[n].above

(* The node that fills a slot, 0 when nothing of interest does. *)
Child(n, slot) ==
  LET cs == {m \in Nodes : Above(m) = n /\ doc[m].slot = slot}
  IN  IF cs = {} THEN 0 ELSE CHOOSE m \in cs : TRUE

(* The items of an array literal, in order. *)
Items(n) == Kept([i \in Nodes |-> i], {m \in Nodes : Above(m) = n})

(* The nodes that a node lies in, itself included. *)
Path[n \in Nodes] == {n} \cup IF Above(n) = 0 THEN {} ELSE Path[Above(n)]

(* The node that a visitor meets first. *)
First(ns) == IF ns = {} THEN 0 ELSE CHOOSE n \in ns : \A m \in ns : n <= m

IsString(n) == Form(n) = "string"

(* The value of a literal is its node, and 0 stands for "". *)
ScalarStringVal(n) == IF IsString(n) THEN n ELSE 0
-----------------------------------------------------------------------------
(* Writing a document. *)
IsBootstrap == doc # <<>> /\ Form(1) = "Kohana::modules"

(* The slots of a form, in the order the traverser visits them. *)
Slots(form) ==
  CASE form \in {"View::factory", "new View", "Kohana::message", "ORM::factory",
                 "Kohana::modules"}                                  -> <<"arg0">>
    [] form \in {"find_file views", "find_file classes",
                 "find_file config", "Route::url"}                   -> <<"arg1">>
    [] form \in MethodForm                                           -> <<"var", "arg0">>
    [] form = "helper"                             -> <<"arg0", "arg1", "arg2">>
    [] form = "concat"                             -> <<"left", "right">>
    [] OTHER                                       -> <<>>

(* What may fill them.  PHP's concatenation associates to the left. *)
Fillers(form, slot) ==
  CASE slot = "var"    -> MethodForm \cup {"Route::set", "Request"}
    [] slot = "left"   -> {"concat", "string", "separator"} \cup PathConstant
    [] slot = "right"  -> {"string", "separator"} \cup PathConstant
    [] slot \in Argument /\ form \in ArrayTaker  -> {"array", "string"}
    [] OTHER                                     -> CallForm \cup {"string"}

Kinds == {doc[n].form : n \in Nodes} \cap CallForm

Write(form, above, slot) ==
  /\ Cardinality(Kinds \cup ({form} \cap CallForm)) <= MaxKinds
  /\ doc' = Append(doc, [form |-> form, above |-> above, slot |-> slot])

HasRoom == Len(doc) < IF IsBootstrap THEN MaxModuleNodes ELSE MaxNodes

AddStatement ==
  /\ doc = <<>>
  /\ \E form \in CallForm \cup {"Kohana::modules"} : Write(form, 0, "statement")

(* An argument, a receiver or an operand: in a node that is still open, in  *)
(* a slot after those it has filled.                                       *)
AddOperand ==
  /\ doc # <<>> /\ HasRoom
  /\ \E n \in Path[Len(doc)] :
       LET slots == Slots(Form(n))
       IN  \E i \in DOMAIN slots :
             /\ \A j \in i..Len(slots) : Child(n, slots[j]) = 0
             /\ \E form \in Fillers(Form(n), slots[i]) : Write(form, n, slots[i])

AddRouteItem ==
  /\ doc # <<>> /\ HasRoom /\ ~IsBootstrap
  /\ \E n \in Path[Len(doc)], key \in RouteKey, form \in CallForm \cup {"string"} :
       Form(n) = "array" /\ Write(form, n, key)

AddModule ==
  /\ HasRoom /\ IsBootstrap
  /\ \E n \in Path[Len(doc)], key \in ModuleKey,
        form \in {"string", "absolute", "concat", "separator"} \cup PathConstant :
       Form(n) = "array" /\ Len(Items(n)) < MaxModules /\ Write(form, n, key)

Init == doc = <<>>

Next == AddStatement \/ AddOperand \/ AddRouteItem \/ AddModule

vars == <<doc>>

Spec == Init /\ [][Next]_vars
=============================================================================
