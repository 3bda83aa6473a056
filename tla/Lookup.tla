------------------------------- MODULE Lookup -------------------------------
(***************************************************************************)
(* What internal/lsp and internal/indexer/view recognise in a document:    *)
(* the visitors behind go-to-definition (definition.go, routes.go), rename *)
(* (rename.go) and extraction (extract.go).                                *)
(*                                                                         *)
(* A cursor is the innermost node it lies in.  Each finder walks the whole *)
(* document in pre-order and keeps the first node that matches, so which   *)
(* of several nested calls answers is decided by the walk, by the guards   *)
(* of each visit and by the order in which the finders are asked.  File    *)
(* names derived from the literals (ClassNameToRelPath, title case) are    *)
(* left as the literals they are made of.                                  *)
(***************************************************************************)
EXTENDS Php

(* The offset lies within the node: the traverser has positions for that. *)
CursorIn(n, cursor) == n # 0 /\ n \in Path[cursor]

StringAt(n, cursor) == CursorIn(n, cursor) /\ IsString(n)
-----------------------------------------------------------------------------
(* View names: the recognisers of definition, of rename and of extraction. *)

viewNameArg(n) ==
  CASE Form(n) \in {"View::factory", "new View"} -> Child(n, "arg0")
    [] Form(n) = "find_file views"               -> Child(n, "arg1")
    [] OTHER                                     -> 0

(* viewNameFinder: the visitor is done once it has a name that is not "". *)
findViewNameAtOffset(cursor) ==
  viewNameArg(First({n \in Nodes : StringAt(viewNameArg(n), cursor)}))

(* A finder without the visit of new View. *)
matchArg_NoNew(n) == IF Form(n) = "new View" THEN 0 ELSE viewNameArg(n)

matchArg(n) ==
  IF Form(n) = "find_file views" THEN Child(n, "arg1")
  ELSE IF Form(n) \in {"View::factory", "new View"} THEN Child(n, "arg0") ELSE 0

findViewNameLocAtOffset(cursor) ==
  matchArg(First({n \in Nodes : StringAt(matchArg(n), cursor)}))

(* renameVisitor: every literal it edits when it has the old name. *)
addEditIfMatch(n) == {n} \cap {k \in Nodes : IsString(k)}

renamedLiterals ==
  UNION {CASE Form(n) \in {"View::factory", "new View"} -> addEditIfMatch(Child(n, "arg0"))
           [] Form(n) = "find_file views"               -> addEditIfMatch(Child(n, "arg1"))
           [] OTHER                                     -> {} : n \in Nodes}

(* extractVisitor: the literals recorded as usages. *)
staticCallViewName(n) == IF Form(n) = "View::factory" THEN ScalarStringVal(Child(n, "arg0")) ELSE 0
findFileViewName(n) == IF Form(n) = "find_file views" THEN ScalarStringVal(Child(n, "arg1")) ELSE 0
newViewName(n) == IF Form(n) = "new View" THEN ScalarStringVal(Child(n, "arg0")) ELSE 0

extractedNames ==
  (UNION {{staticCallViewName(n), findFileViewName(n), newViewName(n)} : n \in Nodes}) \ {0}
-----------------------------------------------------------------------------
(* Routes, requests and configured helpers: routeMatch, and 0 for "". *)
routeMatch(controller, action, directory, on) ==
  [controller |-> controller, action |-> action, directory |-> directory, on |-> on]

NoMatch == routeMatch(0, 0, 0, "none")

(* Keys of the arrays within count as well. *)
extractRouteArray_Deep(array, cursor) ==
  LET items == {i \in Nodes : array \in Path[i] /\ doc[i].slot \in RouteKey \ {"none"}}
      value(key) == ScalarStringVal(First({i \in items : doc[i].slot = key}))
      at == First({i \in items : CursorIn(i, cursor)})
  IN  routeMatch(value("controller"), value("action"), value("directory"),
                 IF at = 0 THEN "none" ELSE doc[at].slot)

(* The last item of a key gives its value, the item around the cursor, of   *)
(* whatever key, is what the cursor is on.                                  *)
extractRouteArray(array, cursor) ==
  LET items == {i \in Nodes : Above(i) = array /\ doc[i].slot # "none"}
      last(key) == LET is == {i \in items : doc[i].slot = key}
                   IN  IF is = {} THEN 0 ELSE CHOOSE i \in is : \A j \in is : j <= i
      at == First({i \in items : CursorIn(i, cursor)})
  IN  routeMatch(ScalarStringVal(last("controller")), ScalarStringVal(last("action")),
                 ScalarStringVal(last("directory")), IF at = 0 THEN "none" ELSE doc[at].slot)

chainVarRoot[n \in Nodes \cup {0}] ==
  IF Form(n) \in MethodForm THEN chainVarRoot[Child(n, "var")] ELSE n

isRouteSetRoot(n) == Form(chainVarRoot[n]) = "Route::set"

isRequestChainRoot_Any(n) == n # 0
isRequestChainRoot(n) == Form(n) = "Request"

(* The first argument of the nearest ->controller() upstream. *)
chainMethodString[n \in Nodes \cup {0}] ==
  IF Form(n) \notin MethodForm THEN 0
  ELSE IF Form(n) = "->controller" /\ Child(n, "arg0") # 0
  THEN ScalarStringVal(Child(n, "arg0"))
  ELSE chainMethodString[Child(n, "var")]

routeDefaultsArray(n) ==
  IF Form(n) = "->defaults" /\ isRouteSetRoot(Child(n, "var")) THEN Child(n, "arg0") ELSE 0

routeURLArray(n) == IF Form(n) = "Route::url" THEN Child(n, "arg1") ELSE 0

(* The first call, of those the finder visits, whose array has the cursor. *)
FirstArray(ArrayOf(_), cursor) ==
  LET match(n) == IF Form(ArrayOf(n)) = "array"
                  THEN extractRouteArray(ArrayOf(n), cursor) ELSE NoMatch
      n == First({k \in Nodes : match(k).on # "none"})
  IN  IF n = 0 THEN NoMatch ELSE match(n)

routeDefaultsFinder(cursor) == FirstArray(routeDefaultsArray, cursor)
routeURLFinder(cursor) == FirstArray(routeURLArray, cursor)

(* ->controller('c') knows no action: it would be downstream. *)
requestFactoryFinder(cursor) ==
  LET n == First({k \in Nodes : /\ Form(k) \in {"->controller", "->action"}
                                /\ isRequestChainRoot(chainVarRoot[Child(k, "var")])
                                /\ StringAt(Child(k, "arg0"), cursor)})
      arg == Child(n, "arg0")
  IN  CASE n = 0                     -> NoMatch
        [] Form(n) = "->controller"  -> routeMatch(arg, 0, 0, "controller")
        [] Form(n) = "->action"      -> routeMatch(chainMethodString[Child(n, "var")],
                                                   arg, 0, "action")

tryMatchArgs(n, cursor) ==
  LET arg(role) == IF role \in DOMAIN HelperArgs THEN Child(n, HelperArgs[role]) ELSE 0
      on == IF CursorIn(arg("controller"), cursor) THEN "controller"
            ELSE IF CursorIn(arg("action"), cursor) THEN "action"
            ELSE IF CursorIn(arg("directory"), cursor) THEN "directory" ELSE "none"
  IN  routeMatch(ScalarStringVal(arg("controller")), ScalarStringVal(arg("action")),
                 ScalarStringVal(arg("directory")), on)

routeHelperFinder(cursor) ==
  LET n == First({k \in Nodes : Form(k) = "helper" /\ tryMatchArgs(k, cursor).on # "none"})
  IN  IF n = 0 THEN NoMatch ELSE tryMatchArgs(n, cursor)

(* The four finders in order: a match without a controller is a match. *)
findRouteAtOffset(cursor) ==
  LET found == <<routeDefaultsFinder(cursor), routeURLFinder(cursor),
                 requestFactoryFinder(cursor), routeHelperFinder(cursor)>>
      i == First({k \in 1..4 : found[k].on # "none"})
  IN  IF i = 0 THEN NoMatch ELSE found[i]
-----------------------------------------------------------------------------
(* What a cursor leads to: a kind of file and the literals that name it. *)
Target(kind, name, action, directory) ==
  [kind |-> kind, name |-> name, action |-> action, directory |-> directory]

(* No controller, no file; the line of the action when the cursor is on it. *)
locateControllerAction(m) ==
  IF m.controller = 0 THEN <<>>
  ELSE <<Target("controller", m.controller, IF m.on = "action" THEN m.action ELSE 0,
                m.directory)>>

(* The first call around the cursor, whatever its argument is. *)
FirstLiteral_Outermost(forms, slot, cursor) ==
  First({n \in Nodes : Form(n) \in forms /\ CursorIn(Child(n, slot), cursor)})

(* A call of one of the forms with the cursor on its literal. *)
FirstLiteral(forms, slot, cursor) ==
  First({n \in Nodes : Form(n) \in forms /\ StringAt(Child(n, slot), cursor)})

findClassFactoryAtOffset(cursor) ==
  Child(FirstLiteral({"ORM::factory"}, "arg0", cursor), "arg0")

(* The finder sees views too, and its caller does not take them. *)
findFindFileAtOffset(cursor) ==
  LET n == FirstLiteral({"find_file views", "find_file classes", "find_file config"},
                        "arg1", cursor)
  IN  IF Form(n) = "find_file views" THEN 0 ELSE Child(n, "arg1")

findKohanaMessageAtOffset(cursor) ==
  Child(FirstLiteral({"Kohana::message"}, "arg0", cursor), "arg0")

Named(kind, n) == IF n = 0 THEN <<>> ELSE <<Target(kind, n, 0, 0)>>

(* The patterns of Definition in order, each tried when those before it     *)
(* found no file.                                                           *)
Targets(cursor) ==
  Named("view", findViewNameAtOffset(cursor))
  \o locateControllerAction(findRouteAtOffset(cursor))
  \o Named("model", findClassFactoryAtOffset(cursor))
  \o Named("file", findFindFileAtOffset(cursor))
  \o Named("message", findKohanaMessageAtOffset(cursor))

(* Server.Definition, when the targets with files are the given ones. *)
Nowhere == Target("nowhere", 0, 0, 0)

Definition(cursor, existing) ==
  LET targets == Targets(cursor)
      i == First({k \in DOMAIN targets : targets[k] \in existing})
  IN  IF i = 0 THEN Nowhere ELSE targets[i]
=============================================================================
