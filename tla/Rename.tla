------------------------------- MODULE Rename -------------------------------
(***************************************************************************)
(* Renaming a view (internal/lsp/rename.go): textDocument/rename, from a    *)
(* view name under the cursor, and workspace/willRenameFiles, before the    *)
(* client moves view files.  Both find the files to edit in the index and   *)
(* the literals to edit in the documents as they are now; the client then   *)
(* applies the edit and moves the files.                                    *)
(*                                                                         *)
(* The client waits for the answer before the user goes on; the indexing    *)
(* goroutine and other programs do not wait.                                *)
(***************************************************************************)
EXTENDS Documents

CONSTANTS
  MaxBatch,  \* bound: files in one willRenameFiles
  SameName   \* whether one of them may hold a name in two layers

ASSUME RenameAssumption ==
  MaxBatch \in Nat /\ SameName \in BOOLEAN /\ None \notin Name

VARIABLE
  edit  \* the WorkspaceEdit on its way to the client, with what it is for

vars == <<text, views, docs, idx, diags, edits, edit>>

(* A view file that goes from one place to another.  A place under no view  *)
(* root has no view name: viewNameFromPath gives "", here None.             *)
Moves == [layer : Layer, old : Name, to : Layer, new : Name \cup {None}]

-----------------------------------------------------------------------------
(* The edits.                                                               *)

(* One edit for each literal that is old, none when the text has an error.  *)
(* Which of them comes first is left out: they are of one answer.           *)
collectViewRenameEdits(f, old, new) ==
  LET t == Read(f)
      at == SetToSeq({i \in DOMAIN t.refs : t.refs[i] = old})
  IN IF ~t.ok THEN <<>>
     ELSE [k \in DOMAIN at |-> [at |-> at[k], old |-> old, new |-> new]]

(* The files that use the name, each taken once.  Mutants: only those that  *)
(* are open; or each as often as it uses the name.                          *)
ChangesFor_Open(old, new) ==
  [f \in File |-> IF f \in UsagesOf(idx, old) /\ Open(f)
                  THEN collectViewRenameEdits(f, old, new) ELSE <<>>]

ChangesFor_EachUsage(old, new) ==
  [f \in File |-> FlattenSeq([k \in DOMAIN SelectSeq(idx.uses[f], LAMBDA n : n = old) |->
                              collectViewRenameEdits(f, old, new)])]

ChangesFor(old, new) ==
  [f \in File |-> IF f \in UsagesOf(idx, old)
                  THEN collectViewRenameEdits(f, old, new) ELSE <<>>]

NoChanges == [f \in File |-> <<>>]

(* viewFileNewPath of each definition: its layer, with the new name. *)
viewFileMoves(old, new) ==
  {[layer |-> d[1], old |-> old, to |-> d[1], new |-> new] : d \in Resolve(idx, old)}

(* Nothing has a name: no view file, no reference. *)
Unused(name) ==
  /\ \A l \in Layer : <<l, name>> \notin views
  /\ \A f \in File : name \notin Range(text[f].refs)

(* Whether the index knows everything the edit is about: it is current, no  *)
(* document is unsaved, all parse, the new names differ and are unused or   *)
(* given up by the same request (two views may swap names), and all files   *)
(* of an old name get the new one, in whatever layer.                       *)
Covers(names, moves) ==
  /\ idx = Current
  /\ \A n, m \in names : n[2] = m[2] => n = m
  /\ \A f \in File : text[f].ok /\ (Open(f) => docs[f] = text[f])
  /\ \A n \in names :
       /\ Unused(n[2]) \/ \E m \in names : m[1] = n[2]
       /\ \A l \in Layer : <<l, n[1]>> \in views
            => \E m \in moves : m.layer = l /\ m.old = n[1] /\ m.new = n[2]

(* What is sent, and what was known when it was.  names: <<old, new>>. *)
Answer(changes, names, moves) ==
  edit' = [changes |-> changes, names |-> names, moves |-> moves,
           covered |-> Covers(names, moves), disk |-> diskVars]

(* textDocument/rename at the i-th literal of a document. *)
Rename(f, i, new) ==
  /\ edit = None /\ idx # None /\ Edit
  /\ Open(f) /\ Read(f).ok /\ i \in DOMAIN Read(f).refs
  /\ LET old == Read(f).refs[i] IN
       /\ new # old
       /\ ChangesFor(old, new) # NoChanges
       /\ Answer(ChangesFor(old, new), {<<old, new>>}, viewFileMoves(old, new))
  /\ UNCHANGED <<text, views, docs, idx, diags>>

(* workspace/willRenameFiles: the edits of each file in turn, appended to   *)
(* those of the files before it.  A file that the index does not know, that *)
(* leaves the view roots or that keeps its name in another one has none.    *)
NamesForFile(m) == {d[2] : d \in {e \in idx.defs : e = <<m.layer, m.old>>}}

Renamed(m) == m.new \notin {None, m.old}

BatchChanges(batch) ==
  [f \in File |-> FlattenSeq([k \in DOMAIN batch |->
     IF NamesForFile(batch[k]) = {} \/ ~Renamed(batch[k]) THEN <<>>
     ELSE ChangesFor(batch[k].old, batch[k].new)[f]])]

(* What the user may ask of the file tree: files that are there go to       *)
(* places that differ.                                                      *)
Source(m) == <<m.layer, m.old>>

Destination(m) == IF m.new = None THEN {} ELSE {<<m.to, m.new>>}

UserMoves ==
  {m \in Moves : /\ Source(m) \in views \ Destination(m)
                 /\ m.new = None => m.to = m.layer}

Batches ==
  {b \in UNION {[1..n -> UserMoves] : n \in 1..MaxBatch} :
     \A i, j \in DOMAIN b : i # j =>
       /\ Source(b[i]) # Source(b[j]) /\ Destination(b[i]) \cap Destination(b[j]) = {}
       /\ b[i].old = b[j].old => SameName}

WillRenameFiles(batch) ==
  LET moves == Range(batch)
  IN  /\ edit = None /\ idx # None /\ Edit
      /\ Answer(BatchChanges(batch),
                {<<m.old, m.new>> : m \in {r \in moves : Renamed(r)}}, moves)
      /\ UNCHANGED <<text, views, docs, idx, diags>>

-----------------------------------------------------------------------------
(* The client.                                                              *)

Edited(t, es) ==
  [t EXCEPT !.refs = [i \in DOMAIN t.refs |->
     IF \E k \in DOMAIN es : es[k].at = i
     THEN es[CHOOSE k \in DOMAIN es : es[k].at = i].new
     ELSE t.refs[i]]]

(* Where a view file is afterwards: nowhere once it left the view roots. *)
Moved(v, moves) ==
  IF \E m \in moves : v = Source(m)
  THEN Destination(CHOOSE m \in moves : v = Source(m))
  ELSE {v}

Sources(moves) == {Source(m) : m \in moves}

Feasible ==
  /\ Sources(edit.moves) \subseteq views
  /\ \A m \in edit.moves : Destination(m) \cap (views \ Sources(edit.moves)) = {}

(* Open documents are edited, and the server hears of it; the others are    *)
(* edited on disk.                                                          *)
Apply ==
  /\ edit # None /\ Feasible
  /\ docs' = [f \in File |-> IF Open(f) THEN Edited(docs[f], edit.changes[f]) ELSE None]
  /\ text' = [f \in File |-> IF Open(f) THEN text[f] ELSE Edited(text[f], edit.changes[f])]
  /\ diags' = [f \in File |-> IF Open(f) /\ edit.changes[f] # <<>>
                              THEN Published(f, Edited(docs[f], edit.changes[f]))
                              ELSE diags[f]]
  /\ views' = UNION {Moved(v, edit.moves) : v \in views}
  /\ edit' = None
  /\ UNCHANGED <<idx, edits>>

(* A file to move is gone, or another has its new name. *)
Reject ==
  /\ edit # None /\ ~Feasible
  /\ edit' = None
  /\ UNCHANGED docVars

Init == DocInit /\ edit = None

Documents ==
  /\ \/ edit = None /\ UserStep
     \/ OutsideEdit \/ Reindex
  /\ UNCHANGED edit

Next ==
  \/ Documents
  \/ \E f \in File, new \in Name : \E i \in DOMAIN Read(f).refs : Rename(f, i, new)
  \/ /\ edit = None /\ edits < MaxEdits  \* WillRenameFiles' own guards, before TLC enumerates Batches
     /\ \E batch \in Batches : WillRenameFiles(batch)
  \/ Apply \/ Reject

Spec == Init /\ [][Next]_vars
-----------------------------------------------------------------------------
(* Every edit replaces a literal that has the old name.  In an open         *)
(* document, which is what the client edits, it is there now, however stale *)
(* the index is and whatever the disk holds.  In a closed one it was there  *)
(* on disk when the answer was made, so it is there unless another program  *)
(* has written the file since (the edits carry no version to notice that).  *)
EditsFit ==
  edit # None =>
    \A f \in File : \A e \in Range(edit.changes[f]) :
      /\ docs[f] # None => e.at \in DOMAIN docs[f].refs /\ docs[f].refs[e.at] = e.old
      /\ docs[f] = None /\ text[f] = edit.disk[1][f]
           => e.at \in DOMAIN text[f].refs /\ text[f].refs[e.at] = e.old

(* No two edits of an answer replace the same literal: the protocol forbids *)
(* edits that overlap.                                                      *)
EditsDisjoint ==
  edit # None =>
    \A f \in File : \A i, j \in DOMAIN edit.changes[f] :
      edit.changes[f][i].at = edit.changes[f][j].at => i = j

(* README, "updates every View::factory, new View, and Kohana::find_file    *)
(* call across the project AND renames the physical file": when the index   *)
(* covers the rename and nothing else happens, each reference resolves to   *)
(* the files it resolved to before, where they are now, as far as they are  *)
(* still under a view root.                                                 *)
Files(V, name) == {v \in V : v[2] = name}

ReferencesFollow ==
  [][Apply /\ edit.covered /\ edit.disk = diskVars =>
       \A f \in File : \A i \in DOMAIN Read(f).refs :
         Files(views', Read(f)'.refs[i]) =
           UNION {Moved(v, edit.moves) : v \in Files(views, Read(f).refs[i])}]_vars
=============================================================================
