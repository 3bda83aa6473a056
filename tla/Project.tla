------------------------------ MODULE Project ------------------------------
(***************************************************************************)
(* The layout of a Koseven project, as internal/project computes it: the   *)
(* cascade of view roots, the directories scanned for PHP, and the tests   *)
(* on paths that the server and the indexer share.                         *)
(*                                                                         *)
(* A path is the sequence of its names from the project root, which is     *)
(* <<>>.  filepath.Join is concatenation, and filepath.Rel(base, p) does   *)
(* not start with ".." exactly when base is a prefix of p.                 *)
(***************************************************************************)
EXTENDS Integers, Sequences, SequencesExt

CONSTANTS
  ApplicationPath,  \* config.Config.ApplicationPath, as a path
  SystemPath,       \* config.Config.SystemPath
  ModulesPath,      \* config.Config.ModulesPath
  PhpFile           \* the paths that end in ".php"

Under(base, p) == IsPrefix(base, p)

Parent(p) == Front(p)

(* project.Module: the name and the absolute directory of an enabled module. *)
Module(name, path) == [name |-> name, path |-> path]

(* ViewRoot: application first, the modules as declared, system last. *)
BuildViewRoots(modules) ==
  <<[path |-> ApplicationPath \o <<"views">>, kind |-> "application",
     order |-> 0, module |-> ""]>>
  \o [i \in 1..Len(modules) |->
        [path |-> modules[i].path \o <<"views">>, kind |-> "module",
         order |-> i, module |-> modules[i].name]]
  \o <<[path |-> SystemPath \o <<"views">>, kind |-> "system",
        order |-> Len(modules) + 1, module |-> ""]>>

(* The directories walked for PHP source: system/ is not one of them. *)
PHPScanDirs(modules) ==
  <<ApplicationPath>> \o [i \in 1..Len(modules) |-> modules[i].path]

(* A path that is, or would become, a view definition. *)
isViewDefinitionPath(p, viewRoots) ==
  /\ p \in PhpFile
  /\ \E i \in DOMAIN viewRoots : Under(viewRoots[i].path, p)
=============================================================================
