----------------------------- MODULE Documents -----------------------------
(***************************************************************************)
(* The open documents of internal/lsp: the DocumentStore that shadows the   *)
(* disk, the notifications that keep it, and the missing-view diagnostics   *)
(* they push to the client.                                                 *)
(*                                                                         *)
(* Handlers run one at a time, in the order of the messages.  The indexing  *)
(* goroutine runs beside them: here it publishes, at any moment, an index   *)
(* of the disk as it is (Server.tla says when that is so).                  *)
(*                                                                         *)
(* Abstractions.  A text is the sequence of the view names it constructs,   *)
(* in the order of their literals, and whether it parses.  A view file is   *)
(* the layer of the cascade and the name it has there.                      *)
(***************************************************************************)
EXTENDS Integers, FiniteSets, SequencesExt

CONSTANTS
  File,          \* the PHP source files
  Name,          \* the view names
  Layer,         \* the layers of the cascade: 1 is application, 2, ...
  Texts,         \* what a source file may hold
  Views0,        \* the view files at the start
  MissingViews,  \* config.DiagnosticsConfig.MissingViews
  MaxEdits,      \* bound: changes by the user and by other programs, renames
  None           \* no document, no index

Text == [refs : Seq(Name), ok : BOOLEAN]

ASSUME DocumentsAssumption ==
  /\ Texts \subseteq Text /\ None \notin Text /\ \A ns \in SUBSET Name : ns # None
  /\ Layer \subseteq Nat /\ Views0 \subseteq Layer \X Name
  /\ MissingViews \in BOOLEAN /\ MaxEdits \in Nat

VARIABLES
  text,   \* the source files on disk
  views,  \* the view files on disk: <<layer, name>>
  docs,   \* DocumentStore.docs: the text of each open document
  idx,    \* Server.viewIdx: the names used by each file, the definitions
  diags,  \* what the client shows: the names reported in each document
  edits   \* changes so far

diskVars == <<text, views>>
docVars == <<text, views, docs, idx, diags, edits>>

Open(f) == docs[f] # None

(* DocumentStore.Read: the open document, otherwise the disk.  Mutant: the  *)
(* disk in any case.                                                        *)
Read_Disk(f) == text[f]

Read(f) == IF Open(f) THEN docs[f] ELSE text[f]

-----------------------------------------------------------------------------
(* The index, as the handlers read it.                                      *)

UsagesOf(index, name) == {f \in File : name \in Range(index.uses[f])}

Resolve(index, name) == {d \in index.defs : d[2] = name}

Current ==
  [defs |-> views, uses |-> [f \in File |-> IF text[f].ok THEN text[f].refs ELSE <<>>]]

Reindex ==
  /\ idx' = Current
  /\ UNCHANGED <<text, views, docs, diags, edits>>

-----------------------------------------------------------------------------
(* Diagnostics.                                                             *)

(* One warning for each name that no file of the cascade has; none in a     *)
(* text that does not parse.                                                *)
collectMissingViewDiags(t) ==
  IF ~t.ok THEN {} ELSE {n \in Range(t.refs) : Resolve(idx, n) = {}}

(* Mutant: what is collected is sent as it is, nil for such a text. *)
Published_Nil(f, t) ==
  IF t = None \/ idx = None \/ ~MissingViews THEN {}
  ELSE IF t.ok THEN collectMissingViewDiags(t) ELSE None

(* publishViewDiagnostics, always with a list, empty or not. *)
Published(f, t) ==
  IF t = None \/ idx = None \/ ~MissingViews THEN {} ELSE collectMissingViewDiags(t)

publishViewDiagnostics(f, t) == diags' = [diags EXCEPT ![f] = Published(f, t)]

-----------------------------------------------------------------------------
(* The notifications of the client.                                         *)

Edit == edits < MaxEdits /\ edits' = edits + 1

DidOpen(f) ==
  /\ ~Open(f)
  /\ docs' = [docs EXCEPT ![f] = text[f]]
  /\ publishViewDiagnostics(f, text[f])
  /\ UNCHANGED <<text, views, idx, edits>>

DidChange(f, t) ==
  /\ Open(f) /\ t # docs[f] /\ Edit
  /\ docs' = [docs EXCEPT ![f] = t]
  /\ publishViewDiagnostics(f, t)
  /\ UNCHANGED <<text, views, idx>>

(* The client writes the buffer; no handler hears of it. *)
Save(f) ==
  /\ Open(f) /\ text[f] # docs[f]
  /\ text' = [text EXCEPT ![f] = docs[f]]
  /\ UNCHANGED <<views, docs, idx, diags, edits>>

(* Mutant: the document is forgotten, its warnings are not. *)
DidClose_Keep(f) ==
  /\ Open(f)
  /\ docs' = [docs EXCEPT ![f] = None]
  /\ UNCHANGED <<text, views, idx, diags, edits>>

(* An unsaved document may be closed. *)
DidClose(f) ==
  /\ Open(f)
  /\ docs' = [docs EXCEPT ![f] = None]
  /\ publishViewDiagnostics(f, None)
  /\ UNCHANGED <<text, views, idx, edits>>

(* Other programs. *)
OutsideEdit ==
  /\ Edit
  /\ \/ \E f \in File, t \in Texts :
          text' = [text EXCEPT ![f] = t] /\ UNCHANGED views
     \/ \E v \in Layer \X Name :
          /\ views' = IF v \in views THEN views \ {v} ELSE views \cup {v}
          /\ UNCHANGED text
  /\ UNCHANGED <<docs, idx, diags>>

DocInit ==
  /\ text \in [File -> Texts] /\ views = Views0
  /\ docs = [f \in File |-> None] /\ idx = None
  /\ diags = [f \in File |-> {}] /\ edits = 0

UserStep ==
  \E f \in File : \/ DidOpen(f) \/ Save(f) \/ DidClose(f)
                  \/ \E t \in Texts : DidChange(f, t)

DocNext == UserStep \/ OutsideEdit \/ Reindex

DocSpec == DocInit /\ [][DocNext]_docVars
-----------------------------------------------------------------------------
DocTypeOK ==
  /\ text \in [File -> Text] /\ views \subseteq Layer \X Name
  /\ docs \in [File -> Text \cup {None}]
  /\ DOMAIN diags = File
  /\ \A f \in File : diags[f] # None /\ diags[f] \subseteq Name
  /\ edits \in 0..MaxEdits

(* server.go:155, "Clear diagnostics so stale warnings don't persist after  *)
(* closing": whatever opened, changed and closed before, and whatever index *)
(* arrived in between, a warning is shown only in a document that is open,  *)
(* for a name its text constructs now, and none while it does not parse.    *)
WarningsBelong ==
  \A f \in File : diags[f] # {} => /\ Open(f) /\ docs[f].ok
                                   /\ diags[f] \subseteq Range(docs[f].refs)
=============================================================================
