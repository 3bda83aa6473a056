------------------------------ MODULE MCServer ------------------------------
(* Instances of Server for TLC: application/ with bootstrap.php, system/,   *)
(* and modules/ with the module blog, which bootstrap.php enables while it  *)
(* parses.                                                                  *)
EXTENDS Server, TLC

CONSTANTS t1, bad, ig

App == <<"app">>
Sys == <<"sys">>
Mod == <<"mod">>
Views(d) == d \o <<"views">>
In(d, name) == d \o <<name>>

Boot == In(App, "bootstrap.php")
ASource == In(App, "a.php")
Blog == Module("blog", In(Mod, "blog"))
BlogView == In(Views(Blog.path), "b.php")
Sub == In(Views(Blog.path), "sub")
SubView == In(Sub, "s.php")

MCDir == {<<>>, App, Views(App), Sys, Views(Sys), Mod}
MCDirBlog == MCDir \cup {Blog.path, Views(Blog.path), Sub}
MCPhp == {ASource}
MCPhpBlog == {Boot, BlogView, SubView}
MCEditBlog == {Boot, Sub, SubView}
MCLists == {<<>>}
MCListsBlog == {<<>>, <<Blog>>}
MCNoModules == [t \in PhpText |-> <<>>]
MCBlogEnabled == [t \in PhpText |-> <<Blog>>]

(* Directories are there; PHP files hold t1. *)
Full == [p \in Node |-> IF p \in Dir THEN Directory
                        ELSE IF p \in PhpFile THEN t1 ELSE ig]

(* sub/ is not there yet. *)
NoSub == [p \in Node |-> IF Under(Sub, p) THEN Absent ELSE Full[p]]
=============================================================================
