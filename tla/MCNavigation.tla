---------------------------- MODULE MCNavigation ----------------------------
EXTENDS Navigation

(* helper($action, $controller, $other) in koseven-ls.toml: the third       *)
(* argument is of no role, and there is none for the directory.             *)
MCHelperArgs == [controller |-> "arg1", action |-> "arg0"]
=============================================================================
