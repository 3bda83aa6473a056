-------------------------- MODULE DocumentsProofs --------------------------
(***************************************************************************)
(* Proofs about the open documents and the renames: types, that a warning   *)
(* is always about the text that is open, that the edits of a rename fit    *)
(* the documents and do not overlap, and that a covered rename keeps what   *)
(* each reference resolves to, for any files, texts, layers and batches and *)
(* any sequence of notifications, saves, reindexes and changes outside.     *)
(***************************************************************************)
EXTENDS Rename, SequenceLemmas

(* What the notifications and the indexing keep, and the renames too. *)
DocInv ==
  /\ text \in [File -> Text] /\ views \subseteq Layer \X Name
  /\ docs \in [File -> Text \cup {None}]
  /\ idx # None => idx.defs \subseteq Layer \X Name
  /\ DOMAIN diags = File
  /\ \A f \in File : diags[f] \subseteq Name
  /\ edits \in 0..MaxEdits
  /\ WarningsBelong

LEMMA TextsTyped ==
  ASSUME NEW t \in Text
  PROVE  t # None /\ t.refs \in Seq(Name) /\ t.ok \in BOOLEAN /\ Range(t.refs) \subseteq Name
<1>1. None \notin Text
  BY DocumentsAssumption
<1>2. t.refs \in Seq(Name) /\ t.ok \in BOOLEAN
  BY <1>1 DEF Text
<1>3. Range(t.refs) \subseteq Name
  BY <1>2 DEF Range
<1> QED BY <1>1, <1>2, <1>3

LEMMA TextsAreText == \A t \in Texts : t \in Text
BY DocumentsAssumption

(* What is published for a text is about that text. *)
LEMMA PublishedBelongs ==
  ASSUME NEW f \in File, NEW t \in Text
  PROVE  /\ Published(f, t) \subseteq Range(t.refs) /\ Published(f, t) \subseteq Name
         /\ Published(f, t) # {} => t.ok
BY TextsTyped DEF Published, collectMissingViewDiags

LEMMA InitDocInv == DocInit => DocInv
<1> SUFFICES ASSUME DocInit PROVE DocInv
  OBVIOUS
<1>1. edits \in 0..MaxEdits
  BY DocumentsAssumption DEF DocInit
<1>2. text \in [File -> Text] /\ views \subseteq Layer \X Name
  BY DocumentsAssumption DEF DocInit
<1> QED BY <1>1, <1>2 DEF DocInit, DocInv, WarningsBelong

(* A document is replaced by a text and what it is published with. *)
LEMMA TextKeepsInv ==
  ASSUME DocInv, NEW f \in File, NEW t \in Text,
         docs' = [docs EXCEPT ![f] = t], publishViewDiagnostics(f, t),
         UNCHANGED <<text, views, idx>>, edits' \in 0..MaxEdits
  PROVE  DocInv'
<1>1. t # None
  BY TextsTyped
<1>2. docs' \in [File -> Text \cup {None}] /\ docs'[f] = t
      /\ \A g \in File \ {f} : docs'[g] = docs[g]
  BY DEF DocInv
<1>3. DOMAIN diags' = File /\ diags'[f] = Published(f, t)
      /\ \A g \in File \ {f} : diags'[g] = diags[g]
  BY DEF DocInv, publishViewDiagnostics
<1>4. \A g \in File : diags'[g] \subseteq Name
  BY <1>3, PublishedBelongs DEF DocInv
<1>5. WarningsBelong'
  <2> SUFFICES ASSUME NEW g \in File, diags'[g] # {}
               PROVE  docs'[g] # None /\ docs'[g].ok /\ diags'[g] \subseteq Range(docs'[g].refs)
    BY DEF WarningsBelong, Open
  <2>1. CASE g = f
    BY <1>1, <1>2, <1>3, <2>1, PublishedBelongs
  <2>2. CASE g # f
    BY <1>2, <1>3, <2>2 DEF DocInv, WarningsBelong, Open
  <2> QED BY <2>1, <2>2
<1> QED BY <1>2, <1>3, <1>4, <1>5 DEF DocInv

LEMMA CloseKeepsInv ==
  ASSUME DocInv, NEW f \in File, DidClose(f)
  PROVE  DocInv'
<1>1. docs' \in [File -> Text \cup {None}]
      /\ \A g \in File \ {f} : docs'[g] = docs[g]
  BY DEF DocInv, DidClose
<1>2. DOMAIN diags' = File /\ diags'[f] = {}
      /\ \A g \in File \ {f} : diags'[g] = diags[g]
  BY DEF DocInv, DidClose, publishViewDiagnostics, Published
<1>3. WarningsBelong'
  BY <1>1, <1>2 DEF DocInv, WarningsBelong, Open
<1> QED BY <1>1, <1>2, <1>3 DEF DocInv, DidClose

(* An edit is counted. *)
LEMMA EditCounted ==
  ASSUME DocInv, Edit
  PROVE  edits' \in 0..MaxEdits
<1>1. edits \in 0..MaxEdits /\ MaxEdits \in Nat /\ edits < MaxEdits /\ edits' = edits + 1
  BY DocumentsAssumption DEF DocInv, Edit
<1> QED BY <1>1

LEMMA StepDocInv == DocInv /\ [DocNext]_docVars => DocInv'
<1> SUFFICES ASSUME DocInv, [DocNext]_docVars PROVE DocInv'
  OBVIOUS
<1>1. ASSUME NEW f \in File, DidOpen(f) PROVE DocInv'
  <2>1. text[f] \in Text
    BY DEF DocInv
  <2>2. edits' \in 0..MaxEdits
    BY <1>1 DEF DidOpen, DocInv
  <2> QED BY <1>1, <2>1, <2>2, TextKeepsInv DEF DidOpen
<1>2. ASSUME NEW f \in File, NEW t \in Texts, DidChange(f, t) PROVE DocInv'
  BY <1>2, TextKeepsInv, EditCounted, TextsAreText DEF DidChange
<1>3. ASSUME NEW f \in File, Save(f) PROVE DocInv'
  <2>1. docs[f] \in Text
    BY <1>3 DEF Save, Open, DocInv
  <2> QED BY <1>3, <2>1 DEF Save, DocInv, WarningsBelong, Open
<1>4. ASSUME NEW f \in File, DidClose(f) PROVE DocInv'
  BY <1>4, CloseKeepsInv
<1>5. CASE OutsideEdit
  <2>1. text' \in [File -> Text] /\ views' \subseteq Layer \X Name
    BY <1>5, TextsAreText DEF OutsideEdit, DocInv
  <2>2. edits' \in 0..MaxEdits
    BY <1>5, EditCounted DEF OutsideEdit
  <2> QED BY <1>5, <2>1, <2>2 DEF OutsideEdit, DocInv, WarningsBelong, Open
<1>6. CASE Reindex
  BY <1>6 DEF Reindex, Current, DocInv, WarningsBelong, Open
<1>7. CASE UNCHANGED docVars
  BY <1>7 DEF docVars, DocInv, WarningsBelong, Open
<1> QED BY <1>1, <1>2, <1>3, <1>4, <1>5, <1>6, <1>7 DEF DocNext, UserStep

LEMMA DocInvTypes == DocInv => DocTypeOK
<1> SUFFICES ASSUME DocInv PROVE DocTypeOK
  OBVIOUS
<1>1. \A f \in File : diags[f] # None
  BY DocumentsAssumption DEF DocInv
<1> QED BY <1>1 DEF DocInv, DocTypeOK

(* A warning is shown only in an open document, for a name its text         *)
(* constructs now, whatever was opened, changed, closed and indexed before: *)
(* publishViewDiagnostics and the clearing in DidClose leave none behind.   *)
THEOREM WarningsAreCurrent == DocSpec => []WarningsBelong
<1>1. DocInv => WarningsBelong
  BY DEF DocInv
<1> QED BY <1>1, InitDocInv, StepDocInv, PTL DEF DocSpec

(* Documents, their texts and their warnings are well typed: the list of    *)
(* warnings is never a nil one.                                             *)
THEOREM DocumentsTypeCorrect == DocSpec => []DocTypeOK
<1> QED BY DocInvTypes, InitDocInv, StepDocInv, PTL DEF DocSpec
-----------------------------------------------------------------------------
(* The edits of a rename.                                                   *)

Change == [at : Nat, old : Name, new : Name]

(* es replaces literals of t that are old, none twice. *)
Replaces(es, t, old, new) ==
  /\ es \in Seq(Change)
  /\ \A k \in 1..Len(es) : /\ es[k].at \in DOMAIN t.refs /\ t.refs[es[k].at] = old
                           /\ es[k].old = old /\ es[k].new = new
  /\ \A k, j \in 1..Len(es) : es[k].at = es[j].at => k = j

(* es has an edit for each literal that is old. *)
ReplacesAll(es, t, old) ==
  \A i \in DOMAIN t.refs : t.refs[i] = old => \E k \in 1..Len(es) : es[k].at = i

LEMMA ReadTyped ==
  ASSUME DocInv, NEW f \in File
  PROVE  Read(f) \in Text
BY DEF DocInv, Read, Open

LEMMA RefsFinite ==
  ASSUME NEW t \in Text, NEW old
  PROVE  IsFiniteSet({i \in DOMAIN t.refs : t.refs[i] = old})
<1>1. t.refs \in Seq(Name) /\ DOMAIN t.refs = 1..Len(t.refs) /\ Len(t.refs) \in Nat
  BY TextsTyped, LenProperties
<1>2. IsFiniteSet(1..Len(t.refs))
  BY <1>1, FS_Interval
<1> QED BY <1>1, <1>2, FS_Subset

(* collectViewRenameEdits: an edit for each of the literals, once. *)
LEMMA CollectReplaces ==
  ASSUME DocInv, NEW f \in File, NEW old \in Name, NEW new \in Name
  PROVE  /\ Replaces(collectViewRenameEdits(f, old, new), Read(f), old, new)
         /\ Read(f).ok => ReplacesAll(collectViewRenameEdits(f, old, new), Read(f), old)
<1> DEFINE t == Read(f)
           S == {i \in DOMAIN t.refs : t.refs[i] = old}
           at == SetToSeq(S)
           es == collectViewRenameEdits(f, old, new)
<1>0. t \in Text
  BY ReadTyped
<1>1. t.refs \in Seq(Name) /\ DOMAIN t.refs = 1..Len(t.refs) /\ S \subseteq Nat
  BY <1>0, TextsTyped, LenProperties
<1>2. /\ at \in Seq(S)
      /\ \A i, j \in 1..Len(at) : at[i] = at[j] => i = j
      /\ \A x \in S : \E i \in 1..Len(at) : at[i] = x
  <2>1. IsFiniteSet(S)
    BY <1>0, RefsFinite
  <2> HIDE DEF S
  <2> QED BY <2>1, SetToSeqProperties
<1>3. CASE ~t.ok
  <2>1. es = <<>>
    BY <1>3 DEF collectViewRenameEdits
  <2>2. es \in Seq(Change) /\ Len(es) = 0
    BY <2>1, EmptySeq
  <2> QED BY <1>3, <2>2 DEF Replaces
<1>4. CASE t.ok
  <2>1. es = [k \in DOMAIN at |-> [at |-> at[k], old |-> old, new |-> new]]
    BY <1>4 DEF collectViewRenameEdits
  <2>2. DOMAIN at = 1..Len(at) /\ Len(at) \in Nat /\ \A k \in 1..Len(at) : at[k] \in S
    BY <1>2, LenProperties, ElementOfSeq
  <2> HIDE DEF at, S, es, t
  <2>3. es = [k \in 1..Len(at) |-> [at |-> at[k], old |-> old, new |-> new]]
    BY <2>1, <2>2
  <2>4. ASSUME NEW k \in 1..Len(at)
        PROVE  es[k] \in Change /\ es[k].at = at[k] /\ es[k].old = old /\ es[k].new = new
    BY <1>1, <2>2, <2>3 DEF Change
  <2>5. es \in Seq(Change) /\ Len(es) = Len(at)
    BY <2>2, <2>3, <2>4, IsASeq, LenProperties
  <2>6. Replaces(es, t, old, new)
    BY <1>2, <2>2, <2>4, <2>5 DEF Replaces, S
  <2>7. ReplacesAll(es, t, old)
    BY <1>2, <2>4, <2>5 DEF ReplacesAll, S
  <2> QED BY <2>6, <2>7 DEF es, t
<1> QED BY <1>3, <1>4

LEMMA NothingReplaced ==
  ASSUME NEW t, NEW old, NEW new
  PROVE  Replaces(<<>>, t, old, new)
<1>1. <<>> \in Seq(Change) /\ Len(<<>>) = 0
  BY EmptySeq
<1> QED BY <1>1 DEF Replaces

LEMMA ChangesForReplaces ==
  ASSUME DocInv, NEW f \in File, NEW old \in Name, NEW new \in Name
  PROVE  /\ Replaces(ChangesFor(old, new)[f], Read(f), old, new)
         /\ Read(f).ok /\ f \in UsagesOf(idx, old)
              => ReplacesAll(ChangesFor(old, new)[f], Read(f), old)
<1>1. ChangesFor(old, new)[f] = IF f \in UsagesOf(idx, old)
                                THEN collectViewRenameEdits(f, old, new) ELSE <<>>
  BY DEF ChangesFor
<1> QED BY <1>1, CollectReplaces, NothingReplaced

-----------------------------------------------------------------------------
(* An answer on its way.                                                    *)

(* The literals it replaces have the old names, in the open documents and, *)
(* for the others, in the files of the disk it was made for.               *)
Fits(dc, e) ==
  \A f \in File : \A x \in Range(e.changes[f]) :
    /\ dc[f] # None => x.at \in DOMAIN dc[f].refs /\ dc[f].refs[x.at] = x.old
    /\ dc[f] = None => x.at \in DOMAIN e.disk[1][f].refs /\ e.disk[1][f].refs[x.at] = x.old

Apart(e) ==
  \A f \in File : \A i, j \in DOMAIN e.changes[f] :
    e.changes[f][i].at = e.changes[f][j].at => i = j

(* A covered answer, on the disk it was made for: the names are one-to-one, *)
(* the new ones unused or old ones as well; every file of an old name gets  *)
(* its new one, and no other gets another name; exactly the literals with   *)
(* an old name are replaced.                                                *)
NewName(tx, vs, names, name) ==
  \/ /\ \A l \in Layer : <<l, name>> \notin vs
     /\ \A f \in File : name \notin Range(tx[f].refs)
  \/ \E m \in names : m[1] = name

OneSource(moves) == \A m, p \in moves : Source(m) = Source(p) => m = p

NamesOf(moves, names) ==
  \A m \in moves : <<m.old, m.new>> \in names \/ m.new = m.old \/ m.new = None

Renames(tx, vs, dc, e) ==
  /\ \A f \in File : dc[f] # None => dc[f] = tx[f]
  /\ \A n, m \in e.names : n[1] = m[1] \/ n[2] = m[2] => n = m
  /\ \A n \in e.names :
       /\ NewName(tx, vs, e.names, n[2])
       /\ \A l \in Layer : <<l, n[1]>> \in vs
            => \E m \in e.moves : m.layer = l /\ m.old = n[1] /\ m.new = n[2]
  /\ OneSource(e.moves) /\ NamesOf(e.moves, e.names)
  /\ \A f \in File : \A x \in Range(e.changes[f]) :
       <<x.old, x.new>> \in e.names /\ x.at \in DOMAIN tx[f].refs /\ tx[f].refs[x.at] = x.old
  /\ \A f \in File : \A n \in e.names : \A i \in DOMAIN tx[f].refs :
       tx[f].refs[i] = n[1] => \E x \in Range(e.changes[f]) : x.at = i

EditInv ==
  edit # None =>
    /\ edit.changes \in [File -> Seq(Change)]
    /\ edit.moves \subseteq Moves
    /\ edit.names \subseteq Name \X Name
    /\ Fits(docs, edit)
    /\ ~SameName => Apart(edit)
    /\ edit.covered => Renames(edit.disk[1], edit.disk[2], docs, edit)

RenameInv == DocInv /\ EditInv

(* What an answer must be when it is sent. *)
LEMMA AnswerKeepsInv ==
  ASSUME DocInv, Edit, UNCHANGED <<text, views, docs, idx, diags>>,
         NEW changes \in [File -> Seq(Change)], NEW names, names \subseteq Name \X Name,
         NEW moves, moves \subseteq Moves,
         Answer(changes, names, moves),
         \A f \in File : \A x \in Range(changes[f]) :
           x.at \in DOMAIN Read(f).refs /\ Read(f).refs[x.at] = x.old /\ <<x.old, x.new>> \in names,
         ~SameName => \A f \in File : \A i, j \in DOMAIN changes[f] :
                        changes[f][i].at = changes[f][j].at => i = j,
         Covers(names, moves) =>
           /\ \A n, m \in names : n[1] = m[1] => n = m
           /\ OneSource(moves) /\ NamesOf(moves, names)
           /\ \A f \in File : \A n \in names : \A i \in DOMAIN text[f].refs :
                text[f].refs[i] = n[1] => \E x \in Range(changes[f]) : x.at = i
  PROVE  RenameInv'
<1>1. DocInv'
  BY EditCounted DEF DocInv, WarningsBelong, Open
<1>2. /\ edit'.changes = changes /\ edit'.names = names /\ edit'.moves = moves
      /\ edit'.covered = Covers(names, moves) /\ edit'.disk = diskVars
      /\ docs' = docs
  BY DEF Answer
<1>3. edit'.disk[1] = text /\ edit'.disk[2] = views
  BY <1>2 DEF diskVars
<1>4. Fits(docs, edit')
  BY <1>2, <1>3 DEF Fits, Read, Open
<1>5. ~SameName => Apart(edit')
  BY <1>2 DEF Apart
<1>6. ASSUME Covers(names, moves) PROVE Renames(text, views, docs, edit')
  <2>1. \A f \in File : /\ docs[f] # None => docs[f] = text[f]
                        /\ Read(f) = text[f]
    BY <1>6 DEF Covers, Read, Open
  <2>2. \A n, m \in names : n[1] = m[1] \/ n[2] = m[2] => n = m
    BY <1>6 DEF Covers
  <2>3. \A n \in names :
          /\ NewName(text, views, names, n[2])
          /\ \A l \in Layer : <<l, n[1]>> \in views
               => \E m \in moves : m.layer = l /\ m.old = n[1] /\ m.new = n[2]
    BY <1>6 DEF Covers, Unused, NewName
  <2>4. ASSUME NEW f \in File, NEW x \in Range(changes[f])
        PROVE  <<x.old, x.new>> \in names /\ x.at \in DOMAIN text[f].refs /\ text[f].refs[x.at] = x.old
    <3>1. x.at \in DOMAIN Read(f).refs /\ Read(f).refs[x.at] = x.old /\ <<x.old, x.new>> \in names
      OBVIOUS
    <3>2. Read(f) = text[f]
      BY <2>1
    <3> QED BY <3>1, <3>2
  <2> QED BY <1>2, <1>6, <2>1, <2>2, <2>3, <2>4 DEF Renames
<1>7. EditInv'
  <2>1. Fits(docs, edit)' /\ (~SameName => Apart(edit)')
    BY <1>2, <1>4, <1>5
  <2>2. (edit.covered => Renames(edit.disk[1], edit.disk[2], docs, edit))'
    BY <1>2, <1>3, <1>6
  <2>3. /\ edit'.changes \in [File -> Seq(Change)] /\ edit'.moves \subseteq Moves
        /\ edit'.names \subseteq Name \X Name
    BY <1>2
  <2> QED BY <2>1, <2>2, <2>3 DEF EditInv
<1> QED BY <1>1, <1>7 DEF RenameInv

LEMMA ReplacesRange ==
  ASSUME NEW es, NEW t, NEW old, NEW new, Replaces(es, t, old, new)
  PROVE  /\ \A x \in Range(es) : /\ x.at \in DOMAIN t.refs /\ t.refs[x.at] = old
                                 /\ x.old = old /\ x.new = new
         /\ \A i, j \in DOMAIN es : es[i].at = es[j].at => i = j
         /\ ReplacesAll(es, t, old)
              => \A i \in DOMAIN t.refs : t.refs[i] = old => \E x \in Range(es) : x.at = i
<1>1. es \in Seq(Change) /\ DOMAIN es = 1..Len(es)
  BY LenProperties DEF Replaces
<1>2. \A x : x \in Range(es) <=> \E k \in 1..Len(es) : x = es[k]
  BY <1>1, ElementsOfSeq
<1>3. \A k \in 1..Len(es) : es[k] \in Range(es)
  BY <1>2
<1> QED BY <1>1, <1>2, <1>3 DEF Replaces, ReplacesAll

(* Under a current index of texts that parse, the files that use a name are *)
(* known.                                                                   *)
LEMMA CoveredUsage ==
  ASSUME NEW names, NEW moves, Covers(names, moves), NEW f \in File, NEW old,
         NEW i \in DOMAIN text[f].refs, text[f].refs[i] = old
  PROVE  f \in UsagesOf(idx, old) /\ Read(f) = text[f] /\ Read(f).ok
<1>1. idx = Current /\ text[f].ok /\ Read(f) = text[f]
  BY DEF Covers, Read, Open
<1>2. idx.uses[f] = text[f].refs
  BY <1>1 DEF Current
<1>3. old \in Range(idx.uses[f])
  BY <1>2 DEF Range
<1> QED BY <1>1, <1>3 DEF UsagesOf

(* textDocument/rename. *)
LEMMA RenameKeepsInv ==
  ASSUME RenameInv, NEW f \in File, NEW new \in Name, NEW i \in DOMAIN Read(f).refs,
         Rename(f, i, new)
  PROVE  RenameInv'
<1> DEFINE old == Read(f).refs[i]
           names == {<<old, new>>}
           changes == ChangesFor(old, new)
           moves == viewFileMoves(old, new)
<1>1. DocInv /\ old \in Name
  <2>1. Read(f).refs \in Seq(Name) /\ DOMAIN Read(f).refs = 1..Len(Read(f).refs)
    BY ReadTyped, TextsTyped, LenProperties DEF RenameInv
  <2> QED BY <2>1, ElementOfSeq DEF RenameInv
<1>2. /\ Edit /\ UNCHANGED <<text, views, docs, idx, diags>>
      /\ Answer(changes, names, moves) /\ idx # None
  BY DEF Rename
<1> HIDE DEF old
<1>3. \A g \in File :
        /\ Replaces(changes[g], Read(g), old, new)
        /\ Read(g).ok /\ g \in UsagesOf(idx, old) => ReplacesAll(changes[g], Read(g), old)
  BY <1>1, ChangesForReplaces
<1>4. changes \in [File -> Seq(Change)]
  <2>1. DOMAIN changes = File /\ changes = [g \in File |-> changes[g]]
    BY DEF ChangesFor
  <2> QED BY <1>3, <2>1 DEF Replaces
<1>5. moves \subseteq Moves
  <2>1. idx.defs \subseteq Layer \X Name
    BY <1>1, <1>2 DEF DocInv
  <2> QED BY <1>1, <2>1 DEF viewFileMoves, Moves, Resolve
<1>6. OneSource(moves) /\ NamesOf(moves, names)
  <2>1. idx.defs \subseteq Layer \X Name
    BY <1>1, <1>2 DEF DocInv
  <2>2. \A m \in moves : m.old = old /\ m.new = new /\ m.to = m.layer
    BY DEF viewFileMoves
  <2>3. ASSUME NEW m \in moves, NEW p \in moves, m.layer = p.layer PROVE m = p
    BY <2>3 DEF viewFileMoves
  <2> HIDE DEF moves
  <2> QED BY <2>2, <2>3 DEF OneSource, NamesOf, Source
<1> HIDE DEF changes, moves
<1>7. ASSUME NEW g \in File, NEW x \in Range(changes[g])
      PROVE  x.at \in DOMAIN Read(g).refs /\ Read(g).refs[x.at] = x.old /\ <<x.old, x.new>> \in names
  BY <1>3, ReplacesRange
<1>8. \A g \in File : \A k, j \in DOMAIN changes[g] :
        changes[g][k].at = changes[g][j].at => k = j
  BY <1>3, ReplacesRange
<1>9. ASSUME Covers(names, moves), NEW g \in File, NEW n \in names,
             NEW k \in DOMAIN text[g].refs, text[g].refs[k] = n[1]
      PROVE  \E x \in Range(changes[g]) : x.at = k
  <2>1. n[1] = old
    OBVIOUS
  <2>2. g \in UsagesOf(idx, old) /\ Read(g) = text[g] /\ Read(g).ok
    BY <1>9, <2>1, CoveredUsage
  <2>3. Replaces(changes[g], text[g], old, new) /\ ReplacesAll(changes[g], text[g], old)
    BY <1>3, <2>2
  <2> QED BY <1>9, <2>1, <2>3, ReplacesRange
<1>10. names \subseteq Name \X Name
  BY <1>1
<1>11. \A n, m \in names : n[1] = m[1] => n = m
  OBVIOUS
<1> HIDE DEF names
<1> QED BY <1>1, <1>2, <1>4, <1>5, <1>6, <1>7, <1>8, <1>9, <1>10, <1>11, AnswerKeepsInv

(* workspace/willRenameFiles. *)
LEMMA BatchTyped ==
  ASSUME NEW batch \in Batches
  PROVE  /\ batch \in Seq(Moves) /\ DOMAIN batch = 1..Len(batch)
         /\ \A k \in 1..Len(batch) : batch[k] \in Moves
         /\ \A k \in 1..Len(batch) : <<batch[k].layer, batch[k].old>> \in views
         /\ \A k \in 1..Len(batch) : Renamed(batch[k]) => batch[k].new \in Name
         /\ \A k, j \in 1..Len(batch) : k # j =>
              /\ Source(batch[k]) # Source(batch[j])
              /\ batch[k].old = batch[j].old => SameName
<1>1. PICK n \in 1..MaxBatch : batch \in [1..n -> UserMoves]
  BY DEF Batches
<1>2. n \in Nat
  BY RenameAssumption
<1>3. UserMoves \subseteq Moves
  BY DEF UserMoves
<1>3a. \A m \in UserMoves : <<m.layer, m.old>> \in views
  BY DEF UserMoves, Source
<1>3b. \A m \in Moves : Renamed(m) => m.new \in Name
  BY DEF Moves, Renamed
<1>4. \A k \in 1..n : batch[k] \in UserMoves
  BY <1>1
<1>5. batch \in Seq(UserMoves) /\ DOMAIN batch = 1..n /\ Len(batch) = n
  BY <1>1, <1>2, IsASeq, LenProperties
<1>6. batch \in Seq(Moves)
  <2>1. \A k \in 1..n : batch[k] \in Moves
    BY <1>3, <1>4
  <2>2. batch \in [1..n -> Moves]
    BY <1>1, <2>1
  <2> QED BY <1>2, <2>2, IsASeq
<1>7. \A k, j \in 1..n : k # j =>
        Source(batch[k]) # Source(batch[j]) /\ (batch[k].old = batch[j].old => SameName)
  BY <1>5 DEF Batches
<1>8. \A k \in 1..n : batch[k] \in Moves /\ <<batch[k].layer, batch[k].old>> \in views
  BY <1>3, <1>3a, <1>4
<1>9. \A k \in 1..n : Renamed(batch[k]) => batch[k].new \in Name
  BY <1>3b, <1>8
<1> QED BY <1>5, <1>6, <1>7, <1>8, <1>9

(* The edits that one file of the batch gives to f. *)
BatchRow(m, f) ==
  IF NamesForFile(m) = {} \/ ~Renamed(m) THEN <<>> ELSE ChangesFor(m.old, m.new)[f]

LEMMA BatchPlaces ==
  ASSUME DocInv, NEW batch \in Batches, NEW f \in File
  PROVE  /\ BatchChanges(batch)[f] \in Seq(Change)
         /\ \A k \in 1..Len(batch) :
              Replaces(BatchRow(batch[k], f), Read(f), batch[k].old, batch[k].new)
         /\ \A x : x \in Range(BatchChanges(batch)[f])
              <=> \E k \in 1..Len(batch) : x \in Range(BatchRow(batch[k], f))
         /\ ~SameName => \A i, j \in DOMAIN BatchChanges(batch)[f] :
              BatchChanges(batch)[f][i].at = BatchChanges(batch)[f][j].at => i = j
<1> DEFINE rows == [k \in 1..Len(batch) |-> BatchRow(batch[k], f)]
           flat == FlattenSeq(rows)
<1>1. BatchChanges(batch)[f] = flat
  BY BatchTyped DEF BatchChanges, BatchRow
<1>2. ASSUME NEW k \in 1..Len(batch)
      PROVE  Replaces(BatchRow(batch[k], f), Read(f), batch[k].old, batch[k].new)
  <2>1. batch[k].old \in Name /\ (Renamed(batch[k]) => batch[k].new \in Name)
    BY BatchTyped DEF Moves
  <2> QED BY <2>1, ChangesForReplaces, NothingReplaced DEF BatchRow
<1>3. Len(batch) \in Nat /\ \A k \in 1..Len(batch) : BatchRow(batch[k], f) \in Seq(Change)
  BY <1>2, BatchTyped, LenProperties DEF Replaces
<1>4. rows \in Seq(Seq(Change)) /\ Len(rows) = Len(batch)
      /\ \A k \in 1..Len(batch) : rows[k] = BatchRow(batch[k], f)
  BY <1>3, IsASeq, LenProperties
<1> HIDE DEF rows
<1>5. PICK row, col : Places(rows, Len(rows), flat, row, col)
  BY <1>4, FlattenPlaces
<1>6. flat \in Seq(Change) /\ DOMAIN flat = 1..Len(flat)
  BY <1>4, FlattenPlaces, LenProperties
<1>7. \A x : x \in Range(flat) <=> \E k \in 1..Len(batch) : x \in Range(BatchRow(batch[k], f))
  <2>1. \A x : x \in Range(flat) <=> \E k \in 1..Len(rows) : x \in Range(rows[k])
    BY <1>4, ElementsOfFlatten
  <2> QED BY <1>4, <2>1
<1> HIDE DEF flat
<1>8. ASSUME ~SameName, NEW i \in 1..Len(flat), NEW j \in 1..Len(flat), flat[i].at = flat[j].at
      PROVE  i = j
  <2>1. /\ row[i] \in 1..Len(batch) /\ col[i] \in 1..Len(rows[row[i]])
        /\ flat[i] = rows[row[i]][col[i]]
        /\ row[j] \in 1..Len(batch) /\ col[j] \in 1..Len(rows[row[j]])
        /\ flat[j] = rows[row[j]][col[j]]
    BY <1>4, <1>5 DEF Places
  <2>2. /\ Replaces(rows[row[i]], Read(f), batch[row[i]].old, batch[row[i]].new)
        /\ Replaces(rows[row[j]], Read(f), batch[row[j]].old, batch[row[j]].new)
    BY <1>2, <1>4, <2>1
  <2>3. /\ Read(f).refs[flat[i].at] = batch[row[i]].old
        /\ Read(f).refs[flat[j].at] = batch[row[j]].old
    BY <2>1, <2>2 DEF Replaces
  <2>4. row[i] = row[j]
    BY <1>8, <2>1, <2>3, BatchTyped
  <2>5. col[i] = col[j]
    BY <1>8, <2>1, <2>2, <2>4 DEF Replaces
  <2> QED BY <1>5, <2>4, <2>5 DEF Places
<1> QED BY <1>1, <1>2, <1>6, <1>7, <1>8

LEMMA BatchKeepsInv ==
  ASSUME RenameInv, NEW batch \in Batches, WillRenameFiles(batch)
  PROVE  RenameInv'
<1> DEFINE moves == Range(batch)
           names == {<<m.old, m.new>> : m \in {r \in moves : Renamed(r)}}
           changes == BatchChanges(batch)
<1>1. /\ DocInv /\ Edit /\ UNCHANGED <<text, views, docs, idx, diags>>
      /\ Answer(changes, names, moves) /\ idx # None
  BY DEF WillRenameFiles, RenameInv
<1>2. \A m : m \in moves <=> \E k \in 1..Len(batch) : m = batch[k]
  BY BatchTyped, ElementsOfSeq
<1>3. moves \subseteq Moves
  BY BatchTyped, ElementsOfSeq
<1>4. names \subseteq Name \X Name
  BY <1>2, BatchTyped DEF Moves
<1>5. \A k \in 1..Len(batch) : Renamed(batch[k]) => <<batch[k].old, batch[k].new>> \in names
  BY <1>2
<1>6. ASSUME NEW n \in names
      PROVE  \E k \in 1..Len(batch) : Renamed(batch[k]) /\ n = <<batch[k].old, batch[k].new>>
  BY <1>2
<1>7. changes \in [File -> Seq(Change)]
  <2>1. \A f \in File : changes[f] \in Seq(Change)
    BY <1>1, BatchPlaces
  <2> QED BY <2>1 DEF BatchChanges
<1>8. OneSource(moves) /\ NamesOf(moves, names)
  <2>1. ASSUME NEW m \in moves, NEW p \in moves, Source(m) = Source(p) PROVE m = p
    <3>1. PICK k \in 1..Len(batch) : m = batch[k]
      BY <1>2
    <3>2. PICK j \in 1..Len(batch) : p = batch[j]
      BY <1>2
    <3>3. k = j
      BY <2>1, <3>1, <3>2, BatchTyped
    <3> QED BY <3>1, <3>2, <3>3
  <2>2. \A m \in moves : Renamed(m) => <<m.old, m.new>> \in names
    OBVIOUS
  <2> HIDE DEF names, moves
  <2> QED BY <2>1, <2>2 DEF OneSource, NamesOf, Renamed
<1> HIDE DEF names, moves, changes
<1>9. ASSUME NEW f \in File, NEW x \in Range(changes[f])
      PROVE  x.at \in DOMAIN Read(f).refs /\ Read(f).refs[x.at] = x.old /\ <<x.old, x.new>> \in names
  <2>1. PICK k \in 1..Len(batch) : x \in Range(BatchRow(batch[k], f))
    BY <1>1, BatchPlaces DEF changes
  <2>2. Replaces(BatchRow(batch[k], f), Read(f), batch[k].old, batch[k].new)
    BY <1>1, BatchPlaces
  <2>3. Renamed(batch[k])
    BY <2>1 DEF BatchRow, Range
  <2> QED BY <1>5, <2>1, <2>2, <2>3, ReplacesRange
<1>10. ~SameName => \A f \in File : \A i, j \in DOMAIN changes[f] :
                      changes[f][i].at = changes[f][j].at => i = j
  BY <1>1, BatchPlaces DEF changes
<1>11. ASSUME Covers(names, moves), NEW f \in File, NEW n \in names,
              NEW i \in DOMAIN text[f].refs, text[f].refs[i] = n[1]
       PROVE  \E x \in Range(changes[f]) : x.at = i
  <2>1. PICK k \in 1..Len(batch) : Renamed(batch[k]) /\ n = <<batch[k].old, batch[k].new>>
    BY <1>6
  <2> DEFINE m == batch[k]
  <2>2. <<m.layer, m.old>> \in idx.defs /\ m.old \in Name
    BY <1>11, BatchTyped DEF Covers, Current, Moves
  <2>3. NamesForFile(m) # {}
    BY <2>2 DEF NamesForFile
  <2>4. BatchRow(m, f) = ChangesFor(m.old, m.new)[f]
    BY <2>1, <2>3 DEF BatchRow
  <2>5. f \in UsagesOf(idx, m.old) /\ Read(f) = text[f] /\ Read(f).ok
    BY <1>11, <2>1, CoveredUsage
  <2>6. m.new \in Name
    BY <2>1, BatchTyped
  <2>7. /\ Replaces(BatchRow(m, f), text[f], m.old, m.new)
        /\ ReplacesAll(BatchRow(m, f), text[f], m.old)
    BY <1>1, <2>2, <2>4, <2>5, <2>6, ChangesForReplaces
  <2>8. PICK x \in Range(BatchRow(m, f)) : x.at = i
    BY <1>11, <2>1, <2>7, ReplacesRange
  <2>9. x \in Range(changes[f])
    BY <1>1, <2>8, BatchPlaces DEF changes
  <2> QED BY <2>8, <2>9
<1>12. ASSUME Covers(names, moves), NEW n \in names, NEW p \in names, n[1] = p[1]
       PROVE  n = p
  <2>1. PICK k \in 1..Len(batch) : n = <<batch[k].old, batch[k].new>>
    BY <1>6
  <2>2. PICK j \in 1..Len(batch) : p = <<batch[j].old, batch[j].new>>
    BY <1>6
  <2>3. /\ batch[k].layer \in Layer /\ <<batch[k].layer, n[1]>> \in views
    BY <2>1, BatchTyped DEF Moves
  <2>4. PICK m \in moves : m.layer = batch[k].layer /\ m.old = n[1] /\ m.new = p[2]
    BY <1>12, <2>3 DEF Covers
  <2>5. batch[k] \in moves /\ Source(m) = Source(batch[k])
    BY <1>2, <2>1, <2>4 DEF Source
  <2>6. m = batch[k]
    BY <1>8, <2>4, <2>5 DEF OneSource
  <2> QED BY <1>12, <2>1, <2>2, <2>4, <2>6
<1> QED BY <1>1, <1>3, <1>4, <1>7, <1>8, <1>9, <1>10, <1>11, <1>12, AnswerKeepsInv
-----------------------------------------------------------------------------
(* The answer applied.                                                      *)

LEMMA EditedTyped ==
  ASSUME NEW t \in Text, NEW es \in Seq(Change)
  PROVE  /\ Edited(t, es) \in Text /\ Edited(t, es).ok = t.ok
         /\ DOMAIN Edited(t, es).refs = DOMAIN t.refs
         /\ \A i \in DOMAIN t.refs :
              \/ Edited(t, es).refs[i] = t.refs[i] /\ ~ \E x \in Range(es) : x.at = i
              \/ \E x \in Range(es) : x.at = i /\ Edited(t, es).refs[i] = x.new
         /\ es = <<>> => Edited(t, es) = t
<1> DEFINE hit(i) == \E k \in DOMAIN es : es[k].at = i
           pick(i) == es[CHOOSE k \in DOMAIN es : es[k].at = i]
           rs == [i \in DOMAIN t.refs |-> IF hit(i) THEN pick(i).new ELSE t.refs[i]]
<1>1. Edited(t, es) = [t EXCEPT !.refs = rs]
  BY DEF Edited
<1>2. t.refs \in Seq(Name) /\ DOMAIN t.refs = 1..Len(t.refs) /\ Len(t.refs) \in Nat
      /\ t = [refs |-> t.refs, ok |-> t.ok] /\ t.ok \in BOOLEAN
  BY TextsTyped, LenProperties DEF Text
<1>3. DOMAIN es = 1..Len(es) /\ \A x : x \in Range(es) <=> \E k \in 1..Len(es) : x = es[k]
  BY ElementsOfSeq, LenProperties
<1>4. \A k \in 1..Len(es) : es[k] \in Change
  BY ElementOfSeq
<1>5. ASSUME NEW i \in DOMAIN t.refs, hit(i)
      PROVE  pick(i) \in Range(es) /\ pick(i).at = i /\ pick(i).new \in Name /\ rs[i] = pick(i).new
  <2>1. PICK k \in DOMAIN es : es[k].at = i /\ pick(i) = es[k]
    BY <1>5
  <2> HIDE DEF pick
  <2> QED BY <1>3, <1>4, <1>5, <2>1 DEF Change
<1>6. \A i \in DOMAIN t.refs : t.refs[i] \in Name
  BY <1>2, ElementOfSeq
<1>7. ASSUME NEW i \in DOMAIN t.refs PROVE rs[i] \in Name
  <2>1. CASE hit(i)
    BY <1>5, <2>1
  <2>2. CASE ~hit(i)
    BY <1>6, <2>2
  <2> QED BY <2>1, <2>2
<1>8. rs \in Seq(Name)
  <2>1. rs \in [1..Len(t.refs) -> Name]
    <3> HIDE DEF hit, pick
    <3> QED BY <1>2, <1>7
  <2> HIDE DEF rs
  <2> QED BY <1>2, <2>1, IsASeq
<1>9. ASSUME NEW i \in DOMAIN t.refs, ~hit(i)
      PROVE  rs[i] = t.refs[i] /\ ~ \E x \in Range(es) : x.at = i
  BY <1>3, <1>9
<1>10. ASSUME es = <<>> PROVE rs = t.refs
  <2>1. \A i : ~hit(i)
    BY <1>10
  <2> HIDE DEF hit, pick
  <2>2. rs = [i \in DOMAIN t.refs |-> t.refs[i]]
    BY <2>1
  <2> QED BY <1>2, <2>2
<1>11. DOMAIN rs = DOMAIN t.refs
  OBVIOUS
<1> HIDE DEF rs
<1>12. Edited(t, es) = [refs |-> rs, ok |-> t.ok]
  BY <1>1, <1>2
<1>13. /\ Edited(t, es) \in Text /\ Edited(t, es).ok = t.ok /\ Edited(t, es).refs = rs
       /\ es = <<>> => Edited(t, es) = t
  BY <1>2, <1>8, <1>10, <1>12 DEF Text
<1>14. \A i \in DOMAIN t.refs :
         \/ rs[i] = t.refs[i] /\ ~ \E x \in Range(es) : x.at = i
         \/ \E x \in Range(es) : x.at = i /\ rs[i] = x.new
  <2> HIDE DEF hit, pick
  <2> QED BY <1>5, <1>9
<1> QED BY <1>11, <1>13, <1>14

LEMMA ApplyKeepsInv ==
  ASSUME RenameInv, Apply
  PROVE  RenameInv'
<1> DEFINE ch(f) == edit.changes[f]
           ed(f) == Edited(docs[f], ch(f))
<1>1. /\ edit.moves \subseteq Moves
      /\ \A f \in File : ch(f) \in Seq(Change)
      /\ DocInv
  BY DEF RenameInv, EditInv, Apply
<1>2. \A f \in File : Open(f) => docs[f] \in Text
  BY <1>1 DEF DocInv, Open
<1>3. \A f \in File : Open(f) => ed(f) \in Text /\ ed(f) # None
  BY <1>1, <1>2, EditedTyped, TextsTyped
<1>4. \A f \in File : docs'[f] = IF Open(f) THEN ed(f) ELSE None
  BY DEF Apply
<1>5. docs' \in [File -> Text \cup {None}]
  BY <1>3 DEF Apply
<1>6. text' \in [File -> Text]
  <2>1. \A f \in File : text[f] \in Text /\ Edited(text[f], ch(f)) \in Text
    BY <1>1, EditedTyped DEF DocInv
  <2> QED BY <2>1 DEF Apply
<1>7. views' \subseteq Layer \X Name
  <2>1. ASSUME NEW v \in views PROVE Moved(v, edit.moves) \subseteq Layer \X Name
    <3>1. v \in Layer \X Name
      BY <1>1 DEF DocInv
    <3>2. CASE \E m \in edit.moves : v = Source(m)
      <4>1. PICK m \in edit.moves : Moved(v, edit.moves) = Destination(m)
        BY <3>2 DEF Moved
      <4> QED BY <1>1, <4>1 DEF Moves, Destination
    <3>3. CASE ~ \E m \in edit.moves : v = Source(m)
      BY <3>1, <3>3 DEF Moved
    <3> QED BY <3>2, <3>3
  <2> QED BY <2>1 DEF Apply
<1>8. ASSUME NEW f \in File
      PROVE  /\ diags'[f] \subseteq Name
             /\ diags'[f] # {} => /\ docs'[f] # None /\ docs'[f].ok
                                  /\ diags'[f] \subseteq Range(docs'[f].refs)
  <2>1. CASE Open(f) /\ ch(f) # <<>>
    <3>1. diags'[f] = Published(f, ed(f)) /\ docs'[f] = ed(f)
      BY <2>1 DEF Apply
    <3>2. ed(f) \in Text /\ ed(f) # None
      BY <1>3, <2>1
    <3> QED BY <3>1, <3>2, PublishedBelongs
  <2>2. CASE Open(f) /\ ch(f) = <<>>
    <3>1. diags'[f] = diags[f]
      BY <2>2 DEF Apply
    <3>2. ed(f) = docs[f]
      BY <1>1, <1>2, <2>2, EditedTyped
    <3>3. docs'[f] = docs[f]
      BY <1>4, <2>2, <3>2
    <3> QED BY <1>1, <3>1, <3>3 DEF DocInv, WarningsBelong, Open
  <2>3. CASE ~Open(f)
    <3>1. diags'[f] = diags[f]
      BY <2>3 DEF Apply
    <3> QED BY <1>1, <2>3, <3>1 DEF DocInv, WarningsBelong
  <2> QED BY <2>1, <2>2, <2>3
<1>9. DocInv'
  <2>1. WarningsBelong'
    BY <1>8 DEF WarningsBelong, Open
  <2>2. UNCHANGED <<idx, edits>> /\ DOMAIN diags' = File
    BY DEF Apply
  <2> QED BY <1>1, <1>5, <1>6, <1>7, <1>8, <2>1, <2>2 DEF DocInv
<1>10. EditInv'
  BY DEF EditInv, Apply
<1> QED BY <1>9, <1>10 DEF RenameInv

LEMMA RenameInductive == RenameInv /\ [Next]_vars => RenameInv'
<1> SUFFICES ASSUME RenameInv, [Next]_vars PROVE RenameInv'
  OBVIOUS
<1>1. CASE Documents
  <2>1. DocInv'
    BY <1>1, StepDocInv DEF Documents, DocNext, RenameInv
  <2>2. CASE edit = None
    BY <1>1, <2>1, <2>2 DEF RenameInv, EditInv, Documents
  <2>3. CASE edit # None
    <3>1. docs' = docs /\ edit' = edit
      BY <1>1, <2>3 DEF Documents, OutsideEdit, Reindex
    <3>2. EditInv'
      BY <3>1 DEF RenameInv, EditInv, Fits, Apart, Renames
    <3> QED BY <2>1, <3>2 DEF RenameInv
  <2> QED BY <2>2, <2>3
<1>2. ASSUME NEW f \in File, NEW new \in Name, NEW i \in DOMAIN Read(f).refs, Rename(f, i, new)
      PROVE  RenameInv'
  BY <1>2, RenameKeepsInv
<1>3. ASSUME NEW batch \in Batches, WillRenameFiles(batch) PROVE RenameInv'
  BY <1>3, BatchKeepsInv
<1>4. CASE Apply
  BY <1>4, ApplyKeepsInv
<1>5. CASE Reject
  <2>1. DocInv'
    BY <1>5, StepDocInv DEF Reject, RenameInv
  <2>2. EditInv'
    BY <1>5 DEF Reject, EditInv
  <2> QED BY <2>1, <2>2 DEF RenameInv
<1>6. CASE UNCHANGED vars
  <2>1. DocInv'
    BY <1>6, StepDocInv DEF vars, docVars, RenameInv
  <2>2. docs' = docs /\ edit' = edit
    BY <1>6 DEF vars
  <2>3. EditInv'
    BY <2>2 DEF RenameInv, EditInv, Fits, Apart, Renames
  <2> QED BY <2>1, <2>3 DEF RenameInv
<1> QED BY <1>1, <1>2, <1>3, <1>4, <1>5, <1>6 DEF Next

LEMMA InitRenameInv == Init => RenameInv
BY InitDocInv DEF Init, RenameInv, EditInv

-----------------------------------------------------------------------------
(* Types and warnings hold with the renames too: Apply edits the documents  *)
(* behind DidChange and publishes for those it edits.                       *)
THEOREM RenameTypeCorrect == Spec => [](DocTypeOK /\ WarningsBelong)
<1>1. RenameInv => DocTypeOK /\ WarningsBelong
  BY DocInvTypes DEF RenameInv, DocInv
<1> QED BY <1>1, InitRenameInv, RenameInductive, PTL DEF Spec

(* However old the index that named the files, each edit of an answer       *)
(* replaces a literal that has the old name: in an open document as it is,  *)
(* whatever other programs write meanwhile, and in a closed one as it was   *)
(* on disk when the answer was made, so as it is until one of them writes   *)
(* it.  Rename and WillRenameFiles take the files from the index and the    *)
(* literals from DocumentStore.Read.                                        *)
THEOREM EditsAlwaysFit == Spec => []EditsFit
<1>1. RenameInv => EditsFit
  BY DEF RenameInv, EditInv, Fits, EditsFit
<1> QED BY <1>1, InitRenameInv, RenameInductive, PTL DEF Spec

(* No two edits of an answer are at one literal, as long as no batch moves  *)
(* the files of one name in two layers (rename_layers shows what happens    *)
(* then): collectViewRenameEdits visits a literal once, a file is taken     *)
(* once for a name, and two names are never the text of one literal.        *)
THEOREM EditsNeverOverlap ==
  ASSUME ~SameName
  PROVE  Spec => []EditsDisjoint
<1>1. RenameInv => EditsDisjoint
  BY DEF RenameInv, EditInv, Apart, EditsDisjoint
<1> QED BY <1>1, InitRenameInv, RenameInductive, PTL DEF Spec

(* Where the view files of a covered answer go. *)
LEMMA MovesOfCovered ==
  ASSUME RenameInv, Apply, edit.covered, edit.disk = diskVars
  PROVE  /\ Renames(text, views, docs, edit)
         /\ \A v \in views : v = <<v[1], v[2]>> /\ v[1] \in Layer
         /\ \A v \in views : \A w \in Moved(v, edit.moves) :
              \/ \E n \in edit.names : v[2] = n[1] /\ w[2] = n[2]
              \/ (\A n \in edit.names : v[2] # n[1]) /\ w[2] = v[2]
<1>1. Renames(text, views, docs, edit) /\ edit.names \subseteq Name \X Name
      /\ edit.moves \subseteq Moves
  <2>1. edit.disk[1] = text /\ edit.disk[2] = views
    BY DEF diskVars
  <2> QED BY <2>1 DEF RenameInv, EditInv, Apply
<1>2. \A v \in views : v = <<v[1], v[2]>> /\ v[1] \in Layer
  BY DEF RenameInv, DocInv
<1>3. ASSUME NEW v \in views, NEW n \in edit.names, v[2] = n[1],
             NEW w \in Moved(v, edit.moves)
      PROVE  w[2] = n[2]
  <2>1. <<v[1], n[1]>> \in views
    BY <1>2, <1>3
  <2>2. PICK m \in edit.moves : m.layer = v[1] /\ m.old = n[1] /\ m.new = n[2]
    BY <1>1, <1>2, <2>1 DEF Renames
  <2>3. v = Source(m)
    BY <1>2, <1>3, <2>2 DEF Source
  <2>4. PICK p \in edit.moves : v = Source(p) /\ Moved(v, edit.moves) = Destination(p)
    BY <2>3 DEF Moved
  <2>5. p = m
    BY <1>1, <2>3, <2>4 DEF Renames, OneSource
  <2> QED BY <2>2, <2>4, <2>5 DEF Destination
<1>4. ASSUME NEW v \in views, \A n \in edit.names : v[2] # n[1],
             NEW w \in Moved(v, edit.moves)
      PROVE  w[2] = v[2]
  <2>1. CASE \E m \in edit.moves : v = Source(m)
    <3>1. PICK p \in edit.moves : v = Source(p) /\ Moved(v, edit.moves) = Destination(p)
      BY <2>1 DEF Moved
    <3>2. p.old = v[2]
      BY <3>1 DEF Source
    <3>3. <<p.old, p.new>> \notin edit.names
      BY <1>4, <3>2
    <3>4. p.new = p.old \/ p.new = None
      BY <1>1, <3>3 DEF Renames, NamesOf
    <3> QED BY <3>1, <3>2, <3>4 DEF Destination
  <2>2. CASE ~ \E m \in edit.moves : v = Source(m)
    BY <2>2 DEF Moved
  <2> QED BY <2>1, <2>2
<1> QED BY <1>1, <1>2, <1>3, <1>4

LEMMA FollowsWhenCovered ==
  ASSUME RenameInv, Apply, edit.covered, edit.disk = diskVars,
         NEW f \in File, NEW i \in DOMAIN Read(f).refs
  PROVE  Files(views', Read(f)'.refs[i]) =
           UNION {Moved(v, edit.moves) : v \in Files(views, Read(f).refs[i])}
<1> DEFINE es == edit.changes[f]
           old == Read(f).refs[i]
           new == Read(f)'.refs[i]
           mv(v) == Moved(v, edit.moves)
<1>1. /\ Renames(text, views, docs, edit) /\ edit.names \subseteq Name \X Name
      /\ es \in Seq(Change) /\ DocInv
  BY MovesOfCovered DEF RenameInv, EditInv, Apply
<1>2. text[f] \in Text /\ Read(f) = text[f] /\ (Open(f) => docs[f] = text[f])
  BY <1>1 DEF Renames, DocInv, Read, Open
<1>3. Read(f)' = Edited(text[f], es)
  <2>1. CASE Open(f)
    <3>1. docs'[f] = Edited(text[f], es)
      BY <1>2, <2>1 DEF Apply
    <3>2. docs'[f] # None
      BY <1>1, <1>2, <3>1, EditedTyped, TextsTyped
    <3> QED BY <3>1, <3>2 DEF Read, Open
  <2>2. CASE ~Open(f)
    <3>1. docs'[f] = None /\ text'[f] = Edited(text[f], es)
      BY <2>2 DEF Apply
    <3> QED BY <3>1 DEF Read, Open
  <2> QED BY <2>1, <2>2
<1>4. i \in DOMAIN text[f].refs /\ old = text[f].refs[i] /\ old \in Range(text[f].refs)
  <2>1. i \in DOMAIN text[f].refs /\ old = text[f].refs[i]
    BY <1>2
  <2> HIDE DEF old
  <2> QED BY <2>1 DEF Range
<1>5. \/ new = old /\ ~ \E x \in Range(es) : x.at = i
      \/ \E x \in Range(es) : x.at = i /\ new = x.new
  BY <1>1, <1>2, <1>3, <1>4, EditedTyped
<1>6. \A w : w \in views' <=> \E v \in views : w \in mv(v)
  BY DEF Apply
<1>7. /\ \A v \in views : v = <<v[1], v[2]>> /\ v[1] \in Layer
      /\ \A v \in views : \A w \in mv(v) :
           \/ \E n \in edit.names : v[2] = n[1] /\ w[2] = n[2]
           \/ (\A n \in edit.names : v[2] # n[1]) /\ w[2] = v[2]
  BY MovesOfCovered
<1> HIDE DEF es, old, new, mv
<1>8. ASSUME NEW n \in edit.names, old = n[1], new = n[2]
      PROVE  \A v \in views : \A w \in mv(v) : w[2] = new <=> v[2] = old
  <2> SUFFICES ASSUME NEW v \in views, NEW w \in mv(v) PROVE w[2] = new <=> v[2] = old
    OBVIOUS
  <2>1. CASE \E m \in edit.names : v[2] = m[1] /\ w[2] = m[2]
    BY <1>1, <1>8, <2>1 DEF Renames
  <2>2. CASE (\A m \in edit.names : v[2] # m[1]) /\ w[2] = v[2]
    <3>1. NewName(text, views, edit.names, n[2])
      BY <1>1 DEF Renames
    <3>2. v[2] # n[2]
      BY <1>7, <2>2, <3>1 DEF NewName
    <3> QED BY <1>8, <2>2, <3>2
  <2> QED BY <1>7, <2>1, <2>2
<1>9. ASSUME new = old, \A n \in edit.names : old # n[1]
      PROVE  \A v \in views : \A w \in mv(v) : w[2] = new <=> v[2] = old
  <2> SUFFICES ASSUME NEW v \in views, NEW w \in mv(v) PROVE w[2] = new <=> v[2] = old
    OBVIOUS
  <2>1. CASE \E m \in edit.names : v[2] = m[1] /\ w[2] = m[2]
    <3>1. PICK m \in edit.names : v[2] = m[1] /\ w[2] = m[2]
      BY <2>1
    <3>2. NewName(text, views, edit.names, m[2])
      BY <1>1 DEF Renames
    <3>3. m[2] # old
      BY <1>4, <1>9, <3>2 DEF NewName
    <3> QED BY <1>9, <3>1, <3>3
  <2>2. CASE (\A m \in edit.names : v[2] # m[1]) /\ w[2] = v[2]
    BY <1>9, <2>2
  <2> QED BY <1>7, <2>1, <2>2
<1>10. \A v \in views : \A w \in mv(v) : w[2] = new <=> v[2] = old
  <2>1. CASE new = old /\ ~ \E x \in Range(es) : x.at = i
    <3>1. \A n \in edit.names : old # n[1]
      BY <1>1, <1>4, <2>1 DEF Renames, es
    <3> QED BY <1>9, <2>1, <3>1
  <2>2. CASE \E x \in Range(es) : x.at = i /\ new = x.new
    <3>1. PICK x \in Range(es) : x.at = i /\ new = x.new
      BY <2>2
    <3>2. <<x.old, x.new>> \in edit.names /\ old = x.old
      BY <1>1, <1>4, <3>1 DEF Renames, es
    <3> QED BY <1>8, <3>1, <3>2
  <2> QED BY <1>5, <2>1, <2>2
<1>11. \A w : w \in {u \in views' : u[2] = new}
               <=> w \in UNION {mv(v) : v \in {u \in views : u[2] = old}}
  BY <1>6, <1>10
<1>12. Files(views', new) = UNION {mv(v) : v \in Files(views, old)}
  BY <1>11 DEF Files
<1> QED BY <1>12 DEF mv, old, new

(* A rename that the index covers and nothing else crosses keeps every      *)
(* reference of every file on the files it resolved to, swaps of names and  *)
(* moves to another layer included: the literals edited are those of the    *)
(* names whose files get another one, in all the layers that have them, and *)
(* a new name is nobody's or one that the same request takes away.          *)
THEOREM ReferencesFollowTheFiles == Spec => ReferencesFollow
<1>1. RenameInv /\ [Next]_vars =>
        [Apply /\ edit.covered /\ edit.disk = diskVars =>
           \A f \in File : \A i \in DOMAIN Read(f).refs :
             Files(views', Read(f)'.refs[i]) =
               UNION {Moved(v, edit.moves) : v \in Files(views, Read(f).refs[i])}]_vars
  BY FollowsWhenCovered
<1> QED BY <1>1, InitRenameInv, RenameInductive, PTL DEF Spec, ReferencesFollow
=============================================================================
