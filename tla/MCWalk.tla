------------------------------- MODULE MCWalk -------------------------------
(* Instances of Walk for TLC.  Every project has an application directory   *)
(* with views/ below it, a system directory and the module blog; the names  *)
(* are short.                                                               *)
EXTENDS Walk, TLC

CONSTANTS t1, t2, bad, ig

App == <<"app">>
Sys == <<"sys">>
Mod == <<"mod">>
Views(d) == d \o <<"views">>
In(d, name) == d \o <<name>>

Blog == Module("blog", In(Mod, "blog"))
Sub == In(Views(App), "sub")

(* A file below a views directory that comes and goes, for both phases; one *)
(* that is ignored; a view of a module; a source file.                      *)
SubView == In(Sub, "s.php")
Generated == In(App, "gen.php")
BlogView == In(Views(Blog.path), "b.php")
ASource == In(App, "a.php")

MCDir == {<<>>, App, Views(App), Sys, Views(Sys), Mod, Blog.path, Views(Blog.path)}
MCDirSub == MCDir \cup {Sub}
MCPhp == {SubView, Generated, BlogView}
MCPhpBlog == {ASource, BlogView}
MCEditSub == {Sub, SubView}
MCEditBlog == {Blog.path, Views(Blog.path), BlogView}
MCAppIgnore == {IgnorePath(App)}
MCIgnored == (ig :> {"gen.php"})
MCLists == {<<>>, <<Blog>>}

(* Directories and ignore files are there; PHP files hold t1. *)
Full == [p \in Node |-> IF p \in Dir THEN Directory
                        ELSE IF p \in PhpFile THEN t1 ELSE ig]

(* blog/ is enabled and not there yet. *)
NoBlog == [p \in Node |-> IF Under(Blog.path, p) THEN Absent ELSE Full[p]]
=============================================================================
