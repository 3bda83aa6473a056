------------------------------ MODULE Bootstrap ------------------------------
(***************************************************************************)
(* The module list that internal/project/bootstrap.go reads out of the      *)
(* Kohana::modules([...]) call of bootstrap.php without running it, and the *)
(* cascade that cascade.go builds from it, beside what PHP makes of the     *)
(* same expressions.                                                        *)
(*                                                                          *)
(* A directory is a base and a name in it: the base is a path constant,     *)
(* which the configuration maps to a directory, or "absolute".  Trailing    *)
(* slashes within a literal are left out; config.Config maps APPPATH and    *)
(* SYSPATH to the two ends of the cascade.                                  *)
(***************************************************************************)
EXTENDS Php

Dir(base, name) == [base |-> base, name |-> name]
NoDir == Dir("none", 0)

resolveConstBase(n) == IF Form(n) \in PathConstant THEN Form(n) ELSE "none"

(* The literal of a right operand, without constants at the end of a chain. *)
concatRightSuffix[n \in Nodes \cup {0}] ==
  IF IsString(n) THEN n
  ELSE IF Form(n) = "concat" /\ Form(Child(n, "right")) \in PathConstant \cup {"separator"}
  THEN concatRightSuffix[Child(n, "left")] ELSE 0

(* Any left operand taken for a path constant. *)
resolveModulePath_AnyBase(n) ==
  IF Form(n) = "concat" THEN Dir(Form(Child(n, "left")), concatRightSuffix[Child(n, "right")])
  ELSE Dir("DOCROOT", n)

resolveModulePath(n) ==
  LET base == resolveConstBase(Child(n, "left"))
      suffix == concatRightSuffix[Child(n, "right")]
  IN  CASE Form(n) = "absolute"                                  -> Dir("absolute", n)
        [] Form(n) = "string"                                    -> Dir("DOCROOT", n)
        [] Form(n) = "concat" /\ base # "none" /\ suffix # 0     -> Dir(base, suffix)
        [] OTHER                                                 -> NoDir

(* The items with a literal key and a path it can tell; the others are      *)
(* skipped without a word.  No argument, or no array, is no module.         *)
Enabled(items) ==
  Kept(items, {n \in Nodes : doc[n].slot # "none" /\ resolveModulePath(n) # NoDir})

ParseModules ==
  LET array == Child(First({n \in Nodes : Form(n) = "Kohana::modules"}), "arg0")
      items == IF Form(array) = "array" THEN Enabled(Items(array)) ELSE <<>>
  IN  [i \in DOMAIN items |->
         [name |-> doc[items[i]].slot, path |-> resolveModulePath(items[i])]]

BuildCascadeBases_ModulesLast(modules) ==
  <<Dir("APPPATH", 0), Dir("SYSPATH", 0)>> \o [i \in DOMAIN modules |-> modules[i].path]

(* The bases of the cascade: application, the modules as declared, system. *)
BuildCascadeBases(modules) ==
  <<Dir("APPPATH", 0)>> \o [i \in DOMAIN modules |-> modules[i].path]
  \o <<Dir("SYSPATH", 0)>>

(* A file of one name, in the bases that have it. *)
FindCascadeFiles(modules, existing) ==
  Kept(BuildCascadeBases(modules), existing)
-----------------------------------------------------------------------------
(* What PHP makes of it: the text of an expression as the pieces it is      *)
(* glued from, and the directory they name when it is written in one of the *)
(* forms that resolveModulePath lists.  Any other text is a directory too,  *)
(* one that the server does not know.                                       *)
Pieces[n \in Nodes \cup {0}] ==
  IF Form(n) = "concat" THEN Pieces[Child(n, "left")] \o Pieces[Child(n, "right")] ELSE <<n>>

Directory(pieces) ==
  CASE Len(pieces) = 1 /\ IsString(pieces[1])             -> Dir("DOCROOT", pieces[1])
    [] Len(pieces) = 1 /\ Form(pieces[1]) = "absolute"    -> Dir("absolute", pieces[1])
    [] /\ Len(pieces) = 2 /\ Form(pieces[1]) \in PathConstant
       /\ IsString(pieces[2])                             -> Dir(Form(pieces[1]), pieces[2])
    [] OTHER                                              -> NoDir

(* The known directories among those Kohana looks in, in the order it does. *)
CascadeOfPhp ==
  LET values == Kept(Items(Child(1, "arg0")), {n \in Nodes : doc[n].slot # "none"})
      dirs == [i \in DOMAIN values |-> Directory(Pieces[values[i]])]
  IN  <<Dir("APPPATH", 0)>> \o Kept(dirs, Range(dirs) \ {NoDir}) \o <<Dir("SYSPATH", 0)>>

(* The modules are an array with no name twice: in PHP the last one wins. *)
DeclaresModules ==
  /\ IsBootstrap /\ Form(Child(1, "arg0")) = "array"
  /\ \A m, n \in Nodes : Above(m) = Above(n) /\ doc[m].slot = doc[n].slot => m = n
-----------------------------------------------------------------------------
(* Go-to-definition shows the files of a class or a message in the order in *)
(* which the framework looks for them, and no file it does not look for:    *)
(* application, then the modules as bootstrap.php declares them, then       *)
(* system, whichever of them have one (ParseModules, BuildCascadeBases and  *)
(* FindCascadeFiles together).                                              *)
CascadeAsDeclared ==
  DeclaresModules =>
    \A existing \in SUBSET (Range(CascadeOfPhp) \cup Range(BuildCascadeBases(ParseModules))) :
      FindCascadeFiles(ParseModules, existing) = Kept(CascadeOfPhp, existing)
=============================================================================
