----------------------------- MODULE Navigation -----------------------------
(***************************************************************************)
(* What go-to-definition promises of a cursor, against the meaning of the   *)
(* literal read from the inside out: the call it is an argument of, the     *)
(* array it is an item of, the chain that call belongs to.  The finders of  *)
(* Lookup go from the outside in, and where calls are nested in route       *)
(* parameters the two differ.                                               *)
(***************************************************************************)
EXTENDS Lookup, Bootstrap

Literals == {n \in Nodes : IsString(n)}

(* The call that gives an item of a route array its meaning. *)
RouteArray(a) ==
  /\ Form(a) = "array"
  /\ LET call == Above(a)
     IN  \/ Form(call) = "Route::url"
         \/ Form(call) = "->defaults" /\ isRouteSetRoot(Child(call, "var"))

(* The route values a cursor may be in: keyed items, arguments of a helper. *)
RouteValue(n) ==
  LET up == Above(n)
  IN  \/ doc[n].slot # "none" /\ up # 0 /\ RouteArray(up)
      \/ Form(up) = "helper" /\ \E r \in DOMAIN HelperArgs : HelperArgs[r] = doc[n].slot

(* The literals that say one thing with a given one. *)
Siblings(c, role) ==
  LET up == Above(c)
  IN  CASE Form(up) = "array"  -> {n \in Nodes : Above(n) = up /\ doc[n].slot = role}
        [] Form(up) = "helper" /\ role \in DOMAIN HelperArgs
                               -> {n \in Nodes : Above(n) = up /\ doc[n].slot = HelperArgs[role]}
        [] OTHER               -> {}

(* PHP keeps the last value of a key. *)
ValueOf(c, role) ==
  LET ns == Siblings(c, role)
  IN  IF ns = {} THEN 0 ELSE ScalarStringVal(CHOOSE n \in ns : \A m \in ns : m <= n)

(* The configuration may give one argument of a helper several roles: it is *)
(* the controller before it is the action.                                  *)
RoleOf(c) ==
  LET roles == {r \in DOMAIN HelperArgs : HelperArgs[r] = doc[c].slot}
  IN  IF Form(Above(c)) = "array" THEN doc[c].slot
      ELSE IF "controller" \in roles THEN "controller"
      ELSE IF "action" \in roles THEN "action" ELSE "directory"

(* The calls of a chain, from the outermost of them down to the receiver. *)
Receivers[n \in Nodes \cup {0}] ==
  IF Form(n) \in MethodForm THEN <<n>> \o Receivers[Child(n, "var")] ELSE <<n>>

OnRequest(n) ==
  Form(n) \in MethodForm /\ Form(Receivers[n][Len(Receivers[n])]) = "Request"

(* The controller set last before a call of a request is made. *)
ControllerBefore(n) ==
  LET calls == Receivers[Child(n, "var")]
      i == First({k \in DOMAIN calls : /\ Form(calls[k]) = "->controller"
                                       /\ Child(calls[k], "arg0") # 0})
  IN  IF i = 0 THEN 0 ELSE ScalarStringVal(Child(calls[i], "arg0"))

RequestMeaning(c) ==
  LET call == Above(c)
  IN  CASE Form(call) = "->controller"                    -> Target("controller", c, 0, 0)
        [] Form(call) = "->action" /\ ControllerBefore(call) # 0
                               -> Target("controller", ControllerBefore(call), c, 0)
        [] OTHER                                          -> Nowhere

RouteMeaning(c) ==
  IF ValueOf(c, "controller") = 0 THEN Nowhere
  ELSE Target("controller", ValueOf(c, "controller"),
              IF RoleOf(c) = "action" THEN ValueOf(c, "action") ELSE 0,
              ValueOf(c, "directory"))

Meaning(c) ==
  LET form == Form(Above(c))
  IN  CASE form \in ViewForm                                     -> Target("view", c, 0, 0)
        [] form = "ORM::factory"                                 -> Target("model", c, 0, 0)
        [] form \in {"find_file classes", "find_file config"}    -> Target("file", c, 0, 0)
        [] form = "Kohana::message"                              -> Target("message", c, 0, 0)
        [] OnRequest(Above(c)) /\ doc[c].slot = "arg0"           -> RequestMeaning(c)
        [] RouteValue(c)                                         -> RouteMeaning(c)
        [] OTHER                                                 -> Nowhere

(* A literal is shadowed when a route value lies around its own call. *)
Shadowed(c) == \E n \in Path[c] \ {c} : RouteValue(n)
-----------------------------------------------------------------------------
(* A literal leads where its own call, array or chain says, and nowhere     *)
(* else, whatever it is nested in, unless that is a route parameter: the    *)
(* five visitors of Definition, each of which walks the whole document and  *)
(* takes its first match, agree on the innermost call.                      *)
CursorMeansItsCall ==
  \A c \in Literals :
    ~Shadowed(c) => Targets(c) = IF Meaning(c) = Nowhere THEN <<>> ELSE <<Meaning(c)>>

(* Nested in route parameters as well, the name of a view is found before   *)
(* anything else, and that of a model, a file or messages unless a route    *)
(* around it has a file for its controller.                                 *)
OwnNameIsFound ==
  \A c \in Literals :
    Meaning(c).kind \in {"view", "model", "file", "message"} =>
      \A existing \in SUBSET Range(Targets(c)) :
        Meaning(c) \in existing =>
          \/ Definition(c, existing) = Meaning(c)
          \/ /\ Shadowed(c) /\ Meaning(c).kind # "view"
             /\ Definition(c, existing).kind = "controller"

(* The literals of one route array, one helper call or one request chain. *)
SaidTogether(n) ==
  LET said == CASE Form(n) \in {"array", "helper"} -> {k \in Nodes : Above(k) = n}
                [] Form(n) \in MethodForm -> {Child(k, "arg0") : k \in Range(Receivers[n])}
                [] OTHER                  -> {}
  IN  (said \cap Literals) \cup {0}

(* The controller, the directory and the action a cursor leads to are said  *)
(* together, by one call around the cursor: no class is made up of the      *)
(* directory of one route and the controller of another.                    *)
TargetsOfOneCall ==
  \A c \in Nodes : \A t \in Range(locateControllerAction(findRouteAtOffset(c))) :
    \E n \in Path[c] : {t.name, t.action, t.directory} \subseteq SaidTogether(n)

(* The same literals are view names to go-to-definition, to the rename of   *)
(* the name under the cursor, to the edits of a rename, and to the index    *)
(* that says which files a rename has to edit.                              *)
RecognisersAgree ==
  /\ renamedLiterals = extractedNames
  /\ \A c \in Nodes :
       /\ findViewNameAtOffset(c) = IF c \in extractedNames THEN c ELSE 0
       /\ findViewNameLocAtOffset(c) = findViewNameAtOffset(c)
=============================================================================
