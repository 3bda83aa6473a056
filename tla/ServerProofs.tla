---------------------------- MODULE ServerProofs ----------------------------
(***************************************************************************)
(* Proofs about indexing in the background.  First the indexer by itself:  *)
(* type correctness; that a cache which validates holds no usage and no    *)
(* global of an outdated file; and that a walk undisturbed, and a cache    *)
(* that validates, hold exactly the index of the project.  Two cases escape*)
(* the manifest and are excluded by name from the latter: a .gitignore that*)
(* changes, and a root that comes or goes.                                 *)
(*                                                                         *)
(* Then the whole server, whose module extends the indexer's: its types;   *)
(* that it drives the indexer as Walk.tla allows, crashes included, so that*)
(* a cache which validates is current, and exact where no .gitignore       *)
(* changes; that what it publishes is an index of the modules it publishes *)
(* with it; that no changed path waits without a timer; and that no        *)
(* reported change is lost.                                                *)
(***************************************************************************)
EXTENDS Server, SequenceLemmas

-----------------------------------------------------------------------------
(* Lemmas on the operators of the walk. *)

(* Entering a directory, and every change of the file system, stays within *)
(* the nodes and the clock.                                                *)
LEMMA ParentIsDir ==
  ASSUME NEW p \in Node, p # <<>>
  PROVE  Parent(p) \in Node /\ Parent(p) # p
BY TreeAssumption DEF Node

LEMMA EditableTyped ==
  ASSUME NEW p \in Editable
  PROVE  p \in Node /\ p # <<>> /\ Parent(p) \in Node
BY TreeAssumption DEF Node

(* Extracting a file keeps an index an index. *)
LEMMA ExtractTyped ==
  ASSUME NEW f \in PhpFile, NEW t \in PhpText, NEW index \in Index
  PROVE  ExtractFileUsages(f, t, index) \in Index
<1>0. /\ index.defs \subseteq PhpFile \X Dir
      /\ index.uses \subseteq PhpFile \X Parses
      /\ index.globs \subseteq PhpFile \X GlobalText
      /\ index = [defs |-> index.defs, uses |-> index.uses, globs |-> index.globs]
  BY DEF Index
<1>1. CASE t \in Parses /\ t \in GlobalText
  <2>1. ExtractFileUsages(f, t, index)
          = [defs |-> index.defs, uses |-> index.uses \cup {<<f, t>>},
             globs |-> index.globs \cup {<<f, t>>}]
    BY <1>0, <1>1 DEF ExtractFileUsages
  <2>2. /\ index.uses \cup {<<f, t>>} \subseteq PhpFile \X Parses
        /\ index.globs \cup {<<f, t>>} \subseteq PhpFile \X GlobalText
    BY <1>0, <1>1
  <2> QED BY <1>0, <2>1, <2>2 DEF Index
<1>2. CASE t \in Parses /\ t \notin GlobalText
  <2>1. ExtractFileUsages(f, t, index)
          = [defs |-> index.defs, uses |-> index.uses \cup {<<f, t>>},
             globs |-> index.globs]
    BY <1>0, <1>2 DEF ExtractFileUsages
  <2>2. index.uses \cup {<<f, t>>} \subseteq PhpFile \X Parses
    BY <1>0, <1>2
  <2> QED BY <1>0, <2>1, <2>2 DEF Index
<1>3. CASE t \notin Parses
  BY <1>3 DEF ExtractFileUsages
<1> QED BY <1>1, <1>2, <1>3

(* What extraction adds is the pair of the file and its text. *)
LEMMA ExtractAdds ==
  ASSUME NEW f \in PhpFile, NEW t \in PhpText, NEW index \in Index
  PROVE  LET after == ExtractFileUsages(f, t, index) IN
           after.uses \cup after.globs \subseteq index.uses \cup index.globs \cup {<<f, t>>}
<1>1. CASE t \in Parses /\ t \in GlobalText
  BY <1>1 DEF ExtractFileUsages, Index
<1>2. CASE t \in Parses /\ t \notin GlobalText
  BY <1>2 DEF ExtractFileUsages, Index
<1>3. CASE t \notin Parses
  BY <1>3 DEF ExtractFileUsages
<1> QED BY <1>1, <1>2, <1>3

LEMMA EmptyIndexTyped == EmptyIndex \in Index
BY DEF EmptyIndex, Index

(* The root being walked is a directory. *)
LEMMA JobTyped ==
  ASSUME jobs \in Seq(WalkJob), jobs # <<>>
  PROVE  Job \in WalkJob /\ Job.path \in Dir /\ Tail(jobs) \in Seq(WalkJob)
<1>1. Head(jobs) \in WalkJob /\ Tail(jobs) \in Seq(WalkJob)
  BY HeadTailProperties
<1> QED BY <1>1 DEF Job, WalkJob

LEMMA JobsTyped ==
  ASSUME NEW ms \in ModuleLists
  PROVE  Jobs(ms) \in Seq(WalkJob)
BY JobsAssumption DEF WalkJob

-----------------------------------------------------------------------------
(* Type correctness.  A root is on the list whenever entries are visited. *)

Scanning == pc \in {"visit", "entry", "list"}

WalkTypeInv ==
  /\ WalkTypeOK
  /\ Scanning => jobs # <<>>
  /\ pc \in {"entry", "list"} => cur \in Node

LEMMA InitTyped == WalkInit => WalkTypeInv
<1> SUFFICES ASSUME WalkInit PROVE WalkTypeInv
  OBVIOUS
<1> USE DEF WalkInit, WalkIdle
<1>1. tree \in [Node -> {Absent, Directory} \cup PhpText \cup IgnoreText]
      /\ \A p \in Node : tree[p] \in Thing(p)
  BY TreeAssumption
<1>2. mtime \in [Node -> 0..MaxTime] /\ now \in 0..MaxTime /\ began \in 0..MaxTime
  BY TreeAssumption
<1>3. mods \in ModuleLists /\ jobs \in Seq(WalkJob) /\ idx \in Index
  BY JobsAssumption, EmptyIndexTyped
<1> QED BY <1>1, <1>2, <1>3 DEF WalkTypeInv, WalkTypeOK, Scanning

(* What a change of the file system does: one node becomes something else, *)
(* at a new time; a name that comes or goes renews its directory as well.  *)
Anything == {Absent, Directory} \cup PhpText \cup IgnoreText

DiskEffect(p, t) ==
  /\ t \in Thing(p)
  /\ tree' = [tree EXCEPT ![p] = t]
  /\ now < MaxTime /\ now' = now + 1
  /\ \/ mtime' = [q \in Node |-> IF q \in {p} THEN now + 1 ELSE mtime[q]]
        /\ tree[p] # Absent /\ t # Absent
     \/ mtime' = [q \in Node |-> IF q \in {p, Parent(p)} THEN now + 1 ELSE mtime[q]]

LEMMA DiskStep ==
  ASSUME WalkTypeOK, DiskChange
  PROVE  \E p \in Editable, t \in Anything : DiskEffect(p, t)
<1>1. ASSUME NEW p \in Editable, NEW t \in Thing(p)
      PROVE  t \in Anything
  BY DEF Thing, TextOf, Anything
<1>2. ASSUME NEW p \in Editable, NEW t \in Thing(p), Write(p, t)
      PROVE  DiskEffect(p, t)
  <2>1. tree[p] # Absent /\ p \notin Dir /\ t \in TextOf(p)
    BY <1>2 DEF Write, Exists
  <2>2. t # Absent
    BY <2>1, TreeAssumption DEF TextOf
  <2> QED BY <1>2, <2>1, <2>2 DEF Write, Touch, DiskEffect
<1>3. ASSUME NEW p \in Editable, NEW t \in Thing(p), Create(p, t)
      PROVE  DiskEffect(p, t)
  BY <1>3 DEF Create, Touch, DiskEffect
<1>4. ASSUME NEW p \in Editable, Delete(p)
      PROVE  DiskEffect(p, Absent) /\ Absent \in Anything
  BY <1>4 DEF Delete, Touch, DiskEffect, Thing, Anything
<1>5. PICK p \in Editable : (\E t \in Thing(p) : Write(p, t) \/ Create(p, t)) \/ Delete(p)
  BY DEF DiskChange
<1> QED BY <1>1, <1>2, <1>3, <1>4, <1>5

LEMMA DiskTyped ==
  ASSUME WalkTypeOK, DiskChange
  PROVE  /\ tree' \in [Node -> Anything]
         /\ \A p \in Node : tree'[p] \in Thing(p)
         /\ mtime' \in [Node -> 0..MaxTime]
         /\ now' \in 0..MaxTime
<1> USE DEF WalkTypeOK
<1>1. PICK p \in Editable, t \in Anything : DiskEffect(p, t)
  BY DiskStep
<1>2. p \in Node
  BY EditableTyped
<1>3. now' \in 0..MaxTime
  BY <1>1, TreeAssumption DEF DiskEffect
<1>4. tree' \in [Node -> Anything]
  BY <1>1 DEF DiskEffect, Anything
<1>5. ASSUME NEW q \in Node PROVE tree'[q] \in Thing(q)
  BY <1>1 DEF DiskEffect
<1>6. mtime' \in [Node -> 0..MaxTime]
  <2>1. now + 1 \in 0..MaxTime
    BY <1>1, TreeAssumption DEF DiskEffect
  <2> QED BY <1>1, <2>1 DEF DiskEffect
<1> QED BY <1>3, <1>4, <1>5, <1>6
-----------------------------------------------------------------------------
LEMMA StartTyped ==
  ASSUME WalkTypeInv, NEW ms \in ModuleLists, StartWalk(ms)
  PROVE  WalkTypeInv'
<1> USE DEF WalkTypeInv, WalkTypeOK, Scanning, diskVars
<1>1. CASE Loadable(ms) /\ pc' = "check"
  <2>1. cache # None /\ cache \in Snapshot
    BY <1>1 DEF Loadable
  <2> QED BY <1>1, <2>1 DEF StartWalk, Snapshot, BeginScan
<1>2. CASE BeginScan(ms)
  BY <1>2, JobsTyped, EmptyIndexTyped DEF BeginScan, StartWalk
<1> QED BY <1>1, <1>2 DEF StartWalk

LEMMA StepTyped == WalkTypeInv /\ [WalkNext]_indexerVars => WalkTypeInv'
<1> SUFFICES ASSUME WalkTypeInv, [WalkNext]_indexerVars PROVE WalkTypeInv'
  OBVIOUS
<1> USE DEF WalkTypeInv, WalkTypeOK, Scanning, diskVars, cacheVars, walkVars
<1>1. CASE Outside
  BY <1>1, DiskTyped DEF Outside, Anything
<1>2. ASSUME NEW ms \in ModuleLists, StartWalk(ms) PROVE WalkTypeInv'
  BY <1>2, StartTyped
<1>3. CASE CheckEntry
  <2>1. CASE BeginScan(mods) /\ UNCHANGED began
    BY <2>1, JobsTyped, EmptyIndexTyped DEF BeginScan
  <2>2. CASE /\ manifest' \subseteq manifest
             /\ UNCHANGED <<pc, mods, jobs, init, matchers, todo, cur, idx, began, saving, cache>>
             /\ UNCHANGED diskVars
    BY <2>2
  <2> QED BY <1>3, <2>1, <2>2 DEF CheckEntry
<1>4. CASE CacheHit
  BY <1>4 DEF CacheHit
<1>5. CASE StartRoot
  <2>1. Job \in WalkJob /\ Job.path \in Node /\ Tail(jobs) \in Seq(WalkJob)
    BY <1>5, JobTyped DEF StartRoot, Node
  <2> QED BY <1>5, <2>1 DEF StartRoot
<1>6. CASE appendStat
  <2>1. ASSUME NEW p \in Node PROVE StatEntry(p) \subseteq Entry
    BY DEF StatEntry, Entry
  <2> QED BY <1>6, <2>1 DEF appendStat
<1>7. CASE VisitDir
  BY <1>7 DEF VisitDir
<1>8. CASE ListDir
  BY <1>8 DEF ListDir, Children
<1>9. CASE VisitFile
  <2>1. Indexed(cur) \in Index
    <3>1. CASE cur \in PhpFile /\ Job.phase = "views"
      <4>1. Job.path \in Dir
        BY <1>9, JobTyped DEF VisitFile
      <4>2. [idx EXCEPT !.defs = @ \cup {<<cur, Job.path>>}] \in Index
        BY <3>1, <4>1 DEF Index
      <4> QED BY <3>1, <4>2 DEF Indexed
    <3>2. CASE cur \in PhpFile /\ Exists(cur)
      <4>1. tree[cur] \in PhpText
        BY <3>2, <1>9, TreeAssumption DEF VisitFile, Thing, TextOf, Exists, Node
      <4>2. ExtractFileUsages(cur, tree[cur], idx) \in Index
        BY <3>2, <4>1, ExtractTyped
      <4>3. CASE Job.phase = "views"
        BY <3>1, <3>2, <4>3
      <4> QED BY <4>2, <4>3 DEF Indexed
    <3> QED BY <3>1, <3>2 DEF Indexed
  <2> QED BY <1>9, <2>1 DEF VisitFile
<1>10. CASE EndRoot
  <2>1. Tail(jobs) \in Seq(WalkJob)
    BY <1>10, JobTyped DEF EndRoot
  <2> QED BY <1>10, <2>1 DEF EndRoot, KeptManifest
<1>11. CASE EndWalk
  BY <1>11 DEF EndWalk, Snapshot
<1>12. CASE saveCache
  BY <1>12 DEF saveCache
<1>13. CASE Return
  <2>1. <<>> \in ModuleLists /\ 0 \in 0..MaxTime /\ EmptyIndex \in Index
    BY JobsAssumption, TreeAssumption, EmptyIndexTyped
  <2> QED BY <1>13, <2>1 DEF Return
<1>14. CASE UNCHANGED indexerVars
  BY <1>14 DEF indexerVars
<1> QED
  BY <1>1, <1>2, <1>3, <1>4, <1>5, <1>6, <1>7, <1>8, <1>9, <1>10, <1>11, <1>12,
     <1>13, <1>14 DEF WalkNext, WalkStep

(* The state of the indexer has the types of WalkTypeOK, whatever the      *)
(* project, the changes made to it and the number of walks and savers.     *)
THEOREM WalkTypeCorrect == WalkSpec => []WalkTypeOK
<1>1. WalkSpec => []WalkTypeInv
  BY InitTyped, StepTyped, PTL DEF WalkSpec
<1>2. WalkTypeInv => WalkTypeOK
  BY DEF WalkTypeInv
<1> QED BY <1>1, <1>2, PTL
-----------------------------------------------------------------------------
(* A valid cache is current.  The argument: an entry of the manifest that  *)
(* still has its mtime belongs to a node that has not changed since it was *)
(* put there, and it was put there before the node was read.  A file that  *)
(* came into existence only after its entry was tried is in the index      *)
(* without an entry, but then its directory changed after it was listed,   *)
(* and the entry of the directory no longer validates.                     *)

(* Every entry of M has its mtime still (CacheValid, of a manifest). *)
Clean(M) == \A e \in M : Exists(e[1]) /\ mtime[e[1]] = e[2]

(* The entry of p as it is now. *)
Current(p) == <<p, mtime[p]>>

(* What the index I, gathered under the manifest M, says of files holds now*)
(* if M validates.                                                         *)
UsesCurrent(M, I) ==
  Clean(M) => \A u \in I.uses \cup I.globs : Current(u[1]) \in M /\ tree[u[1]] = u[2]

Older(M) == \A e \in M : e[2] <= now

TodoCurrent ==
  Clean(manifest) =>
    \A p \in todo : p = Job.path \/ (Exists(p) /\ p # <<>> /\ Current(Parent(p)) \in manifest)

CurCurrent == Clean(manifest) => Current(cur) \in manifest

CacheInv ==
  /\ \A p \in Node : mtime[p] <= now
  /\ pc \in {"root", "visit", "entry", "list"} =>
       Older(manifest) /\ UsesCurrent(manifest, idx)
  /\ Scanning => TodoCurrent
  /\ pc \in {"entry", "list"} => CurCurrent
  /\ \A c \in Saved : Older(c.manifest) /\ UsesCurrent(c.manifest, c.idx)

(* A change of the file system never makes an outdated manifest valid, and *)
(* leaves the nodes of a manifest that stays valid alone.                  *)
LEMMA DiskKeepsClean ==
  ASSUME WalkTypeOK, DiskChange, NEW M \in SUBSET Entry, Older(M), Clean(M)'
  PROVE  /\ Clean(M)
         /\ \A p \in Node : Current(p) \in M =>
              /\ mtime'[p] = mtime[p] /\ tree'[p] = tree[p]
              /\ \A q \in Node \ {<<>>} : Parent(q) = p => Exists(q) = Exists(q)'
<1> USE DEF WalkTypeOK
<1>1. PICK p \in Editable, t \in Anything : DiskEffect(p, t)
  BY DiskStep
<1>2. p \in Node /\ p # <<>> /\ Parent(p) \in Node
  BY EditableTyped
<1>3. mtime'[p] = now + 1
  BY <1>1, <1>2 DEF DiskEffect
<1>4. ASSUME NEW e \in M PROVE e[1] \in Node /\ e[2] \in 0..MaxTime /\ e[2] < now + 1
  BY DEF Older, Entry
<1>5. ASSUME NEW e \in M
      PROVE  e[1] # p /\ mtime'[e[1]] = mtime[e[1]] /\ tree'[e[1]] = tree[e[1]]
  <2>1. mtime'[e[1]] = e[2] /\ mtime'[e[1]] # now + 1
    BY <1>4 DEF Clean
  <2> QED BY <1>1, <1>2, <1>3, <1>4, <2>1 DEF DiskEffect
<1>6. Clean(M)
  BY <1>5 DEF Clean, Exists
<1>7. ASSUME NEW q \in Node, Current(q) \in M
      PROVE  /\ mtime'[q] = mtime[q] /\ tree'[q] = tree[q]
             /\ \A r \in Node \ {<<>>} : Parent(r) = q => Exists(r) = Exists(r)'
  <2>1. q # p /\ mtime'[q] = mtime[q] /\ tree'[q] = tree[q]
    BY <1>5, <1>7 DEF Current
  <2>2. ASSUME NEW r \in Node \ {<<>>}, Parent(r) = q
        PROVE  Exists(r) = Exists(r)'
    <3>1. CASE r # p
      BY <1>1, <3>1 DEF DiskEffect, Exists
    <3>2. CASE r = p
      <4>1. mtime[q] # now + 1
        BY <1>4, <1>7 DEF Current
      <4>2. ~(mtime' = [s \in Node |-> IF s \in {p, Parent(p)} THEN now + 1 ELSE mtime[s]])
        BY <2>1, <2>2, <3>2, <4>1
      <4>3. tree[p] # Absent /\ t # Absent
        BY <1>1, <4>2 DEF DiskEffect
      <4> QED BY <1>1, <1>2, <3>2, <4>3 DEF DiskEffect, Exists
    <3> QED BY <3>1, <3>2
  <2> QED BY <2>1, <2>2
<1> QED BY <1>6, <1>7
(* So what was current for a manifest stays current for it. *)
LEMMA DiskKeepsUses ==
  ASSUME WalkTypeOK, DiskChange, NEW M \in SUBSET Entry, NEW I \in Index,
         Older(M), UsesCurrent(M, I)
  PROVE  Older(M)' /\ UsesCurrent(M, I)'
<1>1. PICK p \in Editable, t \in Anything : DiskEffect(p, t)
  BY DiskStep
<1>2. Older(M)'
  <2>1. now \in Nat /\ now' = now + 1
    BY <1>1, TreeAssumption DEF DiskEffect, WalkTypeOK
  <2>2. \A e \in M : e[2] \in Int
    BY DEF Entry
  <2> QED BY <2>1, <2>2 DEF Older
<1>3. ASSUME Clean(M)', NEW u \in I.uses \cup I.globs
      PROVE  <<u[1], mtime'[u[1]]>> \in M /\ tree'[u[1]] = u[2]
  <2>1. Clean(M) /\ u[1] \in Node
    BY <1>3, DiskKeepsClean DEF Index, Node
  <2>2. Current(u[1]) \in M /\ tree[u[1]] = u[2]
    BY <2>1 DEF UsesCurrent
  <2>3. mtime'[u[1]] = mtime[u[1]] /\ tree'[u[1]] = tree[u[1]]
    BY <1>3, <2>1, <2>2, DiskKeepsClean
  <2> QED BY <2>2, <2>3 DEF Current
<1> QED BY <1>2, <1>3 DEF UsesCurrent, Current

LEMMA DiskKeepsInv ==
  ASSUME WalkTypeInv, CacheInv, Outside
  PROVE  CacheInv'
<1> USE DEF WalkTypeInv
<1>0. DiskChange /\ UNCHANGED walkVars /\ UNCHANGED cacheVars
  BY DEF Outside
<1>1. PICK p \in Editable, t \in Anything : DiskEffect(p, t)
  BY <1>0, DiskStep
<1>2. \A q \in Node : mtime'[q] <= now'
  <2>1. now \in Nat /\ now' = now + 1 /\ \A q \in Node : mtime[q] \in Nat /\ mtime[q] <= now
    BY <1>1, TreeAssumption DEF DiskEffect, WalkTypeOK, CacheInv
  <2> QED BY <1>1, <2>1 DEF DiskEffect
<1>3. PICK M \in SUBSET Entry, I \in Index : M = manifest /\ I = idx
  BY DEF WalkTypeOK
<1>4. pc \in {"root", "visit", "entry", "list"} => Older(manifest)' /\ UsesCurrent(manifest, idx)'
  <2> SUFFICES ASSUME pc \in {"root", "visit", "entry", "list"}
               PROVE  Older(manifest)' /\ UsesCurrent(manifest, idx)'
    OBVIOUS
  <2>1. Older(M) /\ UsesCurrent(M, I)
    BY <1>3 DEF CacheInv
  <2>2. Older(M)' /\ UsesCurrent(M, I)'
    BY <1>0, <2>1, DiskKeepsUses
  <2>3. manifest' = M /\ idx' = I
    BY <1>0, <1>3 DEF walkVars
  <2> QED BY <2>2, <2>3 DEF Older, UsesCurrent, Clean, Current, Exists
<1>5. ASSUME Scanning, Clean(manifest)'
      PROVE  /\ Clean(manifest)
             /\ \A q \in Node : Current(q) \in manifest =>
                  /\ mtime'[q] = mtime[q] /\ tree'[q] = tree[q]
                  /\ \A r \in Node \ {<<>>} : Parent(r) = q => Exists(r) = Exists(r)'
  <2>1. Clean(M)' /\ Older(M)
    BY <1>0, <1>3, <1>5 DEF walkVars, Clean, Exists, CacheInv, Scanning
  <2> QED BY <1>0, <1>3, <2>1, DiskKeepsClean
<1>6. Scanning => TodoCurrent'
  <2> SUFFICES ASSUME Scanning, Clean(manifest)', NEW q \in todo'
               PROVE  \/ q = Job'.path
                      \/ Exists(q)' /\ q # <<>> /\ Current(Parent(q))' \in manifest'
    BY DEF TodoCurrent
  <2>1. q \in todo /\ q \in Node /\ Job' = Job /\ manifest' = manifest
    BY <1>0 DEF walkVars, WalkTypeOK, Job
  <2>2. CASE q = Job.path
    BY <2>1, <2>2
  <2>3. CASE Exists(q) /\ q # <<>> /\ Current(Parent(q)) \in manifest
    <3>1. Parent(q) \in Node
      BY <2>1, <2>3, ParentIsDir
    <3>2. mtime'[Parent(q)] = mtime[Parent(q)] /\ Exists(q) = Exists(q)'
      BY <1>5, <2>1, <2>3, <3>1
    <3> QED BY <2>1, <2>3, <3>2 DEF Current
  <2> QED BY <1>5, <2>1, <2>2, <2>3 DEF CacheInv, TodoCurrent
<1>7. pc \in {"entry", "list"} => CurCurrent'
  <2> SUFFICES ASSUME pc \in {"entry", "list"}, Clean(manifest)'
               PROVE  Current(cur)' \in manifest'
    BY DEF CurCurrent
  <2>1. cur' = cur /\ manifest' = manifest /\ cur \in Node /\ Scanning
    BY <1>0 DEF walkVars, Scanning
  <2>2. Current(cur) \in manifest
    BY <1>5, <2>1 DEF CacheInv, CurCurrent
  <2> QED BY <1>5, <2>1, <2>2 DEF Current
<1>8. ASSUME NEW c \in Saved'
      PROVE  Older(c.manifest)' /\ UsesCurrent(c.manifest, c.idx)'
  <2>1. c \in Saved /\ c.manifest \in SUBSET Entry /\ c.idx \in Index
    BY <1>0 DEF cacheVars, Saved, WalkTypeOK, Snapshot
  <2>2. Older(c.manifest) /\ UsesCurrent(c.manifest, c.idx)
    BY <2>1 DEF CacheInv
  <2> QED BY <1>0, <2>1, <2>2, DiskKeepsUses
<1>9. pc' = pc
  BY <1>0 DEF walkVars
<1> QED
  BY <1>2, <1>4, <1>6, <1>7, <1>8, <1>9 DEF CacheInv, Scanning
-----------------------------------------------------------------------------
(* The steps of the walk and of the savers change no file. *)

LEMMA InitInv == WalkInit => CacheInv
BY TreeAssumption DEF WalkInit, WalkIdle, CacheInv, Scanning, Saved

(* A scan starts from nothing. *)
LEMMA ScanStartsCurrent ==
  ASSUME CacheInv, NEW ms \in ModuleLists, BeginScan(ms)
  PROVE  CacheInv'
BY DEF BeginScan, CacheInv, Scanning, Saved, Older, UsesCurrent, EmptyIndex, diskVars,
       Clean, Exists, Current

LEMMA WalkKeepsInv ==
  ASSUME WalkTypeInv, CacheInv, WalkStep
  PROVE  CacheInv'
<1> USE DEF WalkTypeInv, diskVars, cacheVars
<1>0. ASSUME UNCHANGED diskVars, UNCHANGED saving, UNCHANGED cache
      PROVE  /\ \A p \in Node : mtime'[p] <= now'
             /\ \A c \in Saved' : Older(c.manifest)' /\ UsesCurrent(c.manifest, c.idx)'
  BY <1>0 DEF CacheInv, Saved, Older, UsesCurrent, Clean, Exists, Current
<1>1. CASE CheckEntry
  <2>1. CASE BeginScan(mods)
    BY <2>1, ScanStartsCurrent DEF WalkTypeOK
  <2>2. CASE pc' = "check" /\ UNCHANGED diskVars /\ UNCHANGED saving /\ UNCHANGED cache
    BY <1>0, <2>2 DEF CacheInv, Scanning
  <2> QED BY <1>1, <2>1, <2>2 DEF CheckEntry
<1>2. CASE CacheHit
  BY <1>0, <1>2 DEF CacheHit, CacheInv, Scanning
<1>3. CASE StartRoot
  <2>1. Older(manifest)' /\ UsesCurrent(manifest, idx)'
    BY <1>3 DEF StartRoot, CacheInv, Older, UsesCurrent, Clean, Exists, Current
  <2>2. CASE Exists(Job.path)
    <3>1. TodoCurrent' /\ pc' = "visit"
      BY <1>3, <2>2 DEF StartRoot, TodoCurrent, Job
    <3> QED BY <1>0, <1>3, <2>1, <3>1 DEF StartRoot, CacheInv, Scanning
  <2>3. CASE ~Exists(Job.path)
    <3>1. pc' = "root"
      BY <1>3, <2>3 DEF StartRoot
    <3> QED BY <1>0, <1>3, <2>1, <3>1 DEF StartRoot, CacheInv, Scanning
  <2> QED BY <2>2, <2>3
<1>4. CASE appendStat
  <2>1. PICK p \in todo :
          /\ todo' = todo \ {p}
          /\ manifest' = manifest \cup StatEntry(p)
          /\ IF p = Job.path /\ ~Exists(p)
             THEN UNCHANGED <<pc, cur>>
             ELSE pc' = "entry" /\ cur' = p
    BY <1>4 DEF appendStat
  <2>2. p \in Node /\ pc = "visit" /\ Scanning /\ idx' = idx /\ jobs' = jobs
        /\ UNCHANGED diskVars /\ UNCHANGED saving /\ UNCHANGED cache
    BY <1>4 DEF appendStat, WalkTypeOK, Scanning
  <2>3. Clean(manifest)' => Clean(manifest)
    BY <2>1, <2>2 DEF Clean, Exists
  <2>4. Older(manifest)'
    BY <2>1, <2>2 DEF CacheInv, Older, StatEntry
  <2>5. UsesCurrent(manifest, idx)'
    BY <2>1, <2>2, <2>3 DEF CacheInv, UsesCurrent, Current
  <2>6. TodoCurrent'
    BY <2>1, <2>2, <2>3 DEF CacheInv, TodoCurrent, Job, Exists, Current
  <2>7. pc' = "entry" => CurCurrent'
    <3> SUFFICES ASSUME pc' = "entry", Clean(manifest)'
                 PROVE  Current(cur)' \in manifest'
      BY DEF CurCurrent
    <3>1. cur' = p /\ (p = Job.path => Exists(p))
      BY <2>1, <2>2
    <3>2. Exists(p)
      BY <2>2, <2>3, <3>1 DEF CacheInv, TodoCurrent
    <3> QED BY <2>1, <2>2, <3>1, <3>2 DEF StatEntry, Current
  <2>8. pc' \in {"visit", "entry"}
    BY <2>1, <2>2
  <2> QED BY <1>0, <2>2, <2>4, <2>5, <2>6, <2>7, <2>8 DEF CacheInv, Scanning
<1>5. CASE VisitDir
  <2>1. Older(manifest)' /\ UsesCurrent(manifest, idx)' /\ TodoCurrent'
    BY <1>5 DEF VisitDir, CacheInv, Scanning, Older, UsesCurrent, TodoCurrent, Clean,
                Exists, Current, Job
  <2>2. pc' \in {"visit", "list"} /\ (pc' = "list" => cur' = cur)
    BY <1>5 DEF VisitDir
  <2>3. pc' = "list" => CurCurrent'
    BY <1>5, <2>2 DEF VisitDir, CacheInv, CurCurrent, Clean, Exists, Current
  <2> QED BY <1>0, <1>5, <2>1, <2>2, <2>3 DEF VisitDir, CacheInv, Scanning
<1>6. CASE ListDir
  <2>1. Older(manifest)' /\ UsesCurrent(manifest, idx)'
    BY <1>6 DEF ListDir, CacheInv, Older, UsesCurrent, Clean, Exists, Current
  <2>2. TodoCurrent'
    <3> SUFFICES ASSUME Clean(manifest)', NEW p \in todo'
                 PROVE  \/ p = Job'.path
                        \/ Exists(p)' /\ p # <<>> /\ Current(Parent(p))' \in manifest'
      BY DEF TodoCurrent
    <3>1. Clean(manifest) /\ Current(cur) \in manifest
      BY <1>6 DEF ListDir, Clean, Exists, CacheInv, CurCurrent
    <3>2. CASE p \in todo
      BY <1>6, <3>1, <3>2 DEF ListDir, CacheInv, Scanning, TodoCurrent, Exists, Current, Job
    <3>3. CASE p \in Children(cur)
      BY <1>6, <3>1, <3>3 DEF ListDir, Children, Exists, Current
    <3> QED BY <1>6, <3>2, <3>3 DEF ListDir
  <2> QED BY <1>0, <1>6, <2>1, <2>2 DEF ListDir, CacheInv, Scanning
<1>7. CASE VisitFile
  <2>1. Older(manifest)' /\ TodoCurrent'
    BY <1>7 DEF VisitFile, CacheInv, Scanning, Older, TodoCurrent, Clean, Exists, Current, Job
  <2>2. ASSUME NEW u \in idx'.uses \cup idx'.globs
        PROVE  u \in idx.uses \cup idx.globs \/ u = <<cur, tree[cur]>>
    <3>1. idx' = Indexed(cur) /\ cur \in Node /\ cur \notin Dir
      BY <1>7 DEF VisitFile
    <3>2. CASE cur \in PhpFile /\ Job.phase # "views" /\ Exists(cur) /\ ~isIgnored(matchers, cur)
      <4>1. tree[cur] \in PhpText /\ idx \in Index
        BY <3>1, <3>2 DEF WalkTypeOK, Thing, TextOf, Exists
      <4>2. idx' = ExtractFileUsages(cur, tree[cur], idx)
        BY <3>1, <3>2 DEF Indexed
      <4> QED BY <2>2, <3>2, <4>1, <4>2, ExtractAdds
    <3>3. CASE cur \in PhpFile /\ Job.phase = "views" /\ ~isIgnored(matchers, cur)
      <4>1. idx' = [idx EXCEPT !.defs = @ \cup {<<cur, Job.path>>}]
        BY <3>1, <3>3 DEF Indexed
      <4>2. idx'.uses = idx.uses /\ idx'.globs = idx.globs
        BY <4>1 DEF WalkTypeOK, Index
      <4> QED BY <2>2, <4>2
    <3>4. CASE idx' = idx
      BY <2>2, <3>4
    <3> QED BY <3>1, <3>2, <3>3, <3>4 DEF Indexed
  <2>3. UsesCurrent(manifest, idx)'
    <3> SUFFICES ASSUME Clean(manifest)', NEW u \in idx'.uses \cup idx'.globs
                 PROVE  Current(u[1])' \in manifest' /\ tree'[u[1]] = u[2]
      BY DEF UsesCurrent
    <3>1. Clean(manifest) /\ UNCHANGED <<tree, mtime, manifest>>
      BY <1>7 DEF VisitFile, Clean, Exists
    <3>2. CASE u \in idx.uses \cup idx.globs
      BY <1>7, <3>1, <3>2 DEF VisitFile, CacheInv, UsesCurrent, Current
    <3>3. CASE u = <<cur, tree[cur]>>
      BY <1>7, <3>1, <3>3 DEF VisitFile, CacheInv, CurCurrent, Current
    <3> QED BY <2>2, <3>2, <3>3
  <2> QED BY <1>0, <1>7, <2>1, <2>3 DEF VisitFile, CacheInv, Scanning
<1>8. CASE EndRoot
  <2>1. Older(manifest)' /\ UsesCurrent(manifest, idx)'
    BY <1>8 DEF EndRoot, KeptManifest, CacheInv, Older, UsesCurrent, Clean, Exists, Current
  <2> QED BY <1>0, <1>8, <2>1 DEF EndRoot, CacheInv, Scanning
<1>9. CASE EndWalk
  <2>1. ASSUME NEW c \in Saved'
        PROVE  Older(c.manifest) /\ UsesCurrent(c.manifest, c.idx)
    <3>1. c \in Saved \/ c = [mods |-> mods, manifest |-> manifest, idx |-> idx]
      BY <1>9 DEF EndWalk, Saved
    <3>2. Older(manifest) /\ UsesCurrent(manifest, idx)
      BY <1>9 DEF EndWalk, CacheInv
    <3> QED BY <3>1, <3>2 DEF CacheInv
  <2>2. \A c \in Saved' : Older(c.manifest)' /\ UsesCurrent(c.manifest, c.idx)'
    BY <1>9, <2>1 DEF EndWalk, Older, UsesCurrent, Clean, Exists, Current
  <2> QED BY <1>9, <2>2 DEF EndWalk, CacheInv, Scanning
<1> QED
  BY <1>1, <1>2, <1>3, <1>4, <1>5, <1>6, <1>7, <1>8, <1>9 DEF WalkStep

LEMMA StepInv == WalkTypeInv /\ CacheInv /\ [WalkNext]_indexerVars => CacheInv'
<1> SUFFICES ASSUME WalkTypeInv, CacheInv, [WalkNext]_indexerVars PROVE CacheInv'
  OBVIOUS
<1> USE DEF diskVars, cacheVars, walkVars
<1>0. ASSUME UNCHANGED diskVars, Saved' \subseteq Saved
      PROVE  /\ \A p \in Node : mtime'[p] <= now'
             /\ \A c \in Saved' : Older(c.manifest)' /\ UsesCurrent(c.manifest, c.idx)'
  BY <1>0 DEF CacheInv, Older, UsesCurrent, Clean, Exists, Current
<1>1. CASE Outside
  BY <1>1, DiskKeepsInv
<1>2. ASSUME NEW ms \in ModuleLists, StartWalk(ms) PROVE CacheInv'
  <2>1. CASE BeginScan(ms)
    BY <2>1, ScanStartsCurrent
  <2>2. CASE pc' = "check" /\ UNCHANGED diskVars /\ UNCHANGED cacheVars
    <3>1. Saved' = Saved
      BY <2>2 DEF Saved
    <3> QED BY <1>0, <2>2, <3>1 DEF CacheInv, Scanning
  <2> QED BY <1>2, <2>1, <2>2 DEF StartWalk
<1>3. CASE WalkStep
  BY <1>3, WalkKeepsInv
<1>4. ASSUME UNCHANGED walkVars, UNCHANGED diskVars, Saved' \subseteq Saved PROVE CacheInv'
  <2>1. pc \in {"root", "visit", "entry", "list"} =>
          Older(manifest)' /\ UsesCurrent(manifest, idx)'
    BY <1>4 DEF CacheInv, Older, UsesCurrent, Clean, Exists, Current
  <2>2. (Scanning => TodoCurrent') /\ (pc \in {"entry", "list"} => CurCurrent')
    BY <1>4 DEF CacheInv, TodoCurrent, CurCurrent, Clean, Exists, Current, Job
  <2> QED BY <1>0, <1>4, <2>1, <2>2 DEF CacheInv, Scanning
<1>5. CASE saveCache
  <2>1. Saved' \subseteq Saved
    BY <1>5 DEF saveCache, Saved
  <2> QED BY <1>4, <1>5, <2>1 DEF saveCache
<1>6. CASE Return
  <2>1. Saved' = Saved
    BY <1>6 DEF Return, Saved
  <2> QED BY <1>0, <1>6, <2>1 DEF Return, CacheInv, Scanning
<1>7. CASE UNCHANGED indexerVars
  <2>1. Saved' = Saved /\ UNCHANGED walkVars /\ UNCHANGED diskVars
    BY <1>7 DEF indexerVars, Saved
  <2> QED BY <1>4, <2>1
<1> QED BY <1>1, <1>2, <1>3, <1>5, <1>6, <1>7 DEF WalkNext

(* A cache that validates, or that a goroutine is about to write, holds no *)
(* usage and no global of a file that has changed since, for every project,*)
(* every interleaving of walks, savers and changes, and however the caches *)
(* replace one another.                                                    *)
THEOREM CacheIsCurrent == WalkSpec => []CacheUsesCurrent
<1>1. WalkTypeInv /\ CacheInv /\ [WalkNext]_indexerVars => (WalkTypeInv /\ CacheInv)'
  BY StepTyped, StepInv
<1>2. WalkInit => WalkTypeInv /\ CacheInv
  BY InitTyped, InitInv
<1>3. CacheInv => CacheUsesCurrent
  BY DEF CacheInv, CacheUsesCurrent, CacheValid, UsesCurrent, Clean
<1> QED BY <1>1, <1>2, <1>3, PTL DEF WalkSpec
-----------------------------------------------------------------------------
(* Exactness. *)

(* No other program touches a .gitignore. *)
IgnoresFixed == IgnoreFile \cap Editable = {}

(* The roots of a walk neither come nor go; some may be missing for good. *)
RootsFixed ==
  \A ms \in ModuleLists : \A j \in Range(Jobs(ms)) : j.path \notin Editable

-----------------------------------------------------------------------------
(* The way from a root to a node. *)

LEMMA PathPrefix ==
  ASSUME NEW p \in Seq(STRING), NEW k \in 0..Len(p)
  PROVE  /\ SubSeq(p, 1, k) \in Seq(STRING) /\ Len(SubSeq(p, 1, k)) = k
         /\ \A j \in 0..k : SubSeq(SubSeq(p, 1, k), 1, j) = SubSeq(p, 1, j)
BY PrefixBasics

LEMMA WholePath ==
  ASSUME NEW p \in Seq(STRING)
  PROVE  SubSeq(p, 1, Len(p)) = p /\ Len(p) \in Nat
BY FullPrefix, LenProperties

LEMMA ParentIsPrefix ==
  ASSUME NEW p \in Node, p # <<>>
  PROVE  /\ p \in Seq(STRING) /\ Len(p) \in Nat \ {0}
         /\ Parent(p) = SubSeq(p, 1, Len(p) - 1)
         /\ Parent(p) \in Dir /\ Parent(p) \in Node
         /\ Len(Parent(p)) = Len(p) - 1
<1>1. p \in Seq(STRING)
  BY PathAssumption
<1>2. Len(p) \in Nat \ {0}
  BY <1>1, EmptySeq
<1>3. Parent(p) = SubSeq(p, 1, Len(p) - 1)
  BY DEF Parent, Front
<1>4. Parent(p) \in Dir /\ Parent(p) \in Node
  BY TreeAssumption DEF Node
<1>5. Len(SubSeq(p, 1, Len(p) - 1)) = Len(p) - 1
  <2>1. Len(p) - 1 \in 0..Len(p)
    BY <1>2
  <2> QED BY <1>1, <2>1, PathPrefix
<1> QED BY <1>1, <1>2, <1>3, <1>4, <1>5

(* What lies above a node is a directory. *)
LEMMA PrefixIsDir ==
  ASSUME NEW p \in Node, NEW k \in 0..(Len(p) - 1)
  PROVE  SubSeq(p, 1, k) \in Dir
<1>0. p \in Seq(STRING) /\ Len(p) \in Nat
  BY PathAssumption
<1> DEFINE T == {j \in Nat : j <= Len(p) /\ SubSeq(p, 1, Len(p) - j) \notin Node}
<1>1. T = {}
  <2> SUFFICES ASSUME T # {} PROVE FALSE
    OBVIOUS
  <2>1. PICK j \in T : \A i \in T : j <= i
    BY LeastNat
  <2>2. j # 0
    <3> SUFFICES ASSUME j = 0 PROVE FALSE
      OBVIOUS
    <3>1. SubSeq(p, 1, Len(p) - j) = p
      BY <1>0, WholePath
    <3> QED BY <2>1, <3>1
  <2>3. j - 1 \in Nat /\ j - 1 \notin T
    BY <2>1, <2>2
  <2> DEFINE q == SubSeq(p, 1, Len(p) - (j - 1))
  <2>4. q \in Node /\ q \in Seq(STRING) /\ Len(q) = Len(p) - (j - 1)
    BY <1>0, <2>1, <2>3, PathPrefix
  <2>5. SubSeq(q, 1, Len(p) - j) = SubSeq(p, 1, Len(p) - j)
    BY <1>0, <2>1, <2>3, PathPrefix
  <2>6. q # <<>> /\ Len(q) - 1 = Len(p) - j
    <3>1. j \in Nat /\ j <= Len(p)
      BY <2>1
    <3> HIDE DEF q, T
    <3> QED BY <1>0, <2>2, <2>4, <3>1
  <2>7. Parent(q) = SubSeq(p, 1, Len(p) - j) /\ Parent(q) \in Node
    <3> HIDE DEF q, T
    <3> QED BY <2>4, <2>5, <2>6, ParentIsPrefix
  <2> QED BY <2>1, <2>7
<1>2. ASSUME NEW i \in 0..Len(p) PROVE SubSeq(p, 1, Len(p) - i) \in Node
  BY <1>0, <1>1
<1> HIDE DEF T
<1> DEFINE q == SubSeq(p, 1, k + 1)
<1>3. q \in Node
  <2>1. Len(p) - (k + 1) \in 0..Len(p) /\ Len(p) - (Len(p) - (k + 1)) = k + 1
    BY <1>0
  <2> QED BY <1>2, <2>1
<1>4. Len(q) = k + 1 /\ SubSeq(q, 1, k) = SubSeq(p, 1, k)
  BY <1>0, PathPrefix
<1>5. q # <<>> /\ Len(q) - 1 = k
  BY <1>0, <1>4, EmptySeq
<1> HIDE DEF q
<1> QED BY <1>3, <1>4, <1>5, ParentIsPrefix

LEMMA OnTheWay ==
  ASSUME NEW R \in Dir, NEW p \in Node, Under(R, p)
  PROVE  /\ R \in Seq(STRING) /\ p \in Seq(STRING) /\ Len(R) \in Nat /\ Len(p) \in Nat
         /\ Len(R) <= Len(p) /\ R = SubSeq(p, 1, Len(R))
         /\ R \in Ancestors(R, p) /\ p \in Ancestors(R, p)
         /\ Ancestors(R, p) \subseteq Node
         /\ \A q \in Ancestors(R, p) \ {p} : q \in Dir
<1>1. R \in Seq(STRING) /\ p \in Seq(STRING) /\ Len(R) \in Nat /\ Len(p) \in Nat
  BY PathAssumption DEF Node
<1>2. Len(R) <= Len(p) /\ SubSeq(R, 1, Len(R)) = SubSeq(p, 1, Len(R))
  BY DEF Under, IsPrefix
<1>3. R = SubSeq(p, 1, Len(R)) /\ p = SubSeq(p, 1, Len(p))
  BY <1>1, <1>2, WholePath
<1>4. R \in Ancestors(R, p) /\ p \in Ancestors(R, p)
  <2>1. Len(R) \in Len(R)..Len(p) /\ Len(p) \in Len(R)..Len(p)
    BY <1>1, <1>2
  <2> QED BY <1>3, <2>1, Zenon DEF Ancestors
<1>5. ASSUME NEW q \in Ancestors(R, p), q # p PROVE q \in Dir
  <2>1. PICK k \in Len(R)..Len(p) : q = SubSeq(p, 1, k)
    BY DEF Ancestors
  <2>2. k # Len(p)
    BY <1>3, <1>5, <2>1, Zenon
  <2>3. k \in 0..(Len(p) - 1)
    BY <1>1, <2>1, <2>2
  <2> QED BY <2>1, <2>3, PrefixIsDir
<1> QED BY <1>1, <1>2, <1>3, <1>4, <1>5 DEF Node

(* A node on the way is under the root, and so is its own way. *)
LEMMA WayOfAncestor ==
  ASSUME NEW R \in Dir, NEW p \in Node, Under(R, p), NEW q \in Ancestors(R, p)
  PROVE  q \in Node /\ Under(R, q) /\ Ancestors(R, q) \subseteq Ancestors(R, p)
<1>1. PICK k \in Len(R)..Len(p) : q = SubSeq(p, 1, k)
  BY DEF Ancestors
<1>2. /\ R \in Seq(STRING) /\ p \in Seq(STRING) /\ Len(R) \in Nat /\ Len(p) \in Nat
      /\ R = SubSeq(p, 1, Len(R)) /\ q \in Node
  BY OnTheWay
<1>3. /\ Len(q) = k
      /\ \A j \in 0..k : SubSeq(q, 1, j) = SubSeq(p, 1, j)
  BY <1>1, <1>2, PathPrefix
<1>4. Under(R, q)
  <2>1. SubSeq(R, 1, Len(R)) = R /\ SubSeq(q, 1, Len(R)) = SubSeq(p, 1, Len(R))
    BY <1>1, <1>2, <1>3, WholePath
  <2> QED BY <1>1, <1>2, <1>3, <2>1 DEF Under, IsPrefix
<1>5. ASSUME NEW r \in Ancestors(R, q) PROVE r \in Ancestors(R, p)
  <2>1. PICK j \in Len(R)..Len(q) : r = SubSeq(q, 1, j)
    BY DEF Ancestors
  <2>2. j \in Len(R)..Len(p) /\ r = SubSeq(p, 1, j)
    BY <1>1, <1>2, <1>3, <2>1
  <2> QED BY <2>2 DEF Ancestors
<1> QED BY <1>2, <1>4, <1>5

(* One step down. *)
LEMMA WayOfChild ==
  ASSUME NEW R \in Dir, NEW p \in Node, p # <<>>, Under(R, Parent(p))
  PROVE  /\ Under(R, p) /\ p # R
         /\ Ancestors(R, p) = Ancestors(R, Parent(p)) \cup {p}
         /\ p \notin Ancestors(R, Parent(p))
<1> DEFINE d == Parent(p)
           n == Len(p)
<1>1. /\ p \in Seq(STRING) /\ n \in Nat \ {0} /\ d = SubSeq(p, 1, n - 1)
      /\ d \in Dir /\ d \in Node /\ Len(d) = n - 1
  BY ParentIsPrefix
<1>2. /\ R \in Seq(STRING) /\ Len(R) \in Nat /\ Len(R) <= n - 1
      /\ R = SubSeq(d, 1, Len(R))
  BY <1>1, OnTheWay
<1>3. \A j \in 0..(n - 1) : SubSeq(d, 1, j) = SubSeq(p, 1, j)
  BY <1>1, PathPrefix
<1>4. Under(R, p) /\ p # R
  <2>1. SubSeq(R, 1, Len(R)) = R /\ SubSeq(p, 1, Len(R)) = R
    BY <1>1, <1>2, <1>3, WholePath
  <2> QED BY <1>1, <1>2, <2>1 DEF Under, IsPrefix
<1>5. ASSUME NEW q \in Ancestors(R, p) PROVE q \in Ancestors(R, d) \cup {p}
  <2>1. PICK k \in Len(R)..n : q = SubSeq(p, 1, k)
    BY DEF Ancestors
  <2>2. CASE k = n
    BY <1>1, <2>1, <2>2, WholePath
  <2>3. CASE k \in Len(R)..(n - 1)
    <3>1. k \in Len(R)..Len(d) /\ q = SubSeq(d, 1, k)
      BY <1>1, <1>2, <1>3, <2>1, <2>3
    <3> QED BY <3>1 DEF Ancestors
  <2> QED BY <1>1, <1>2, <2>1, <2>2, <2>3
<1>6. ASSUME NEW q \in Ancestors(R, d) PROVE q \in Ancestors(R, p) /\ q # p
  <2>1. PICK k \in Len(R)..(n - 1) : q = SubSeq(d, 1, k)
    BY <1>1 DEF Ancestors
  <2>2. k \in Len(R)..n /\ q = SubSeq(p, 1, k) /\ Len(q) = k
    BY <1>1, <1>2, <1>3, <2>1, PathPrefix
  <2> QED BY <1>1, <2>1, <2>2 DEF Ancestors
<1>7. p \in Ancestors(R, p)
  BY <1>4, OnTheWay
<1> QED BY <1>4, <1>5, <1>6, <1>7

(* One step up. *)
LEMMA WayOfParent ==
  ASSUME NEW R \in Dir, NEW p \in Node, Under(R, p), p # R
  PROVE  /\ p # <<>> /\ Under(R, Parent(p)) /\ Parent(p) \in Ancestors(R, p)
         /\ Parent(p) # p
<1>1. /\ R \in Seq(STRING) /\ p \in Seq(STRING) /\ Len(R) \in Nat /\ Len(p) \in Nat
      /\ Len(R) <= Len(p) /\ R = SubSeq(p, 1, Len(R))
  BY OnTheWay
<1>2. Len(R) # Len(p)
  BY <1>1, WholePath
<1>3. p # <<>>
  BY <1>1, <1>2, EmptySeq
<1>4. Parent(p) = SubSeq(p, 1, Len(p) - 1) /\ Len(Parent(p)) = Len(p) - 1
  BY <1>3, ParentIsPrefix
<1>5. Parent(p) \in Ancestors(R, p)
  <2>1. Len(p) - 1 \in Len(R)..Len(p)
    BY <1>1, <1>2
  <2> QED BY <1>4, <2>1, Zenon DEF Ancestors
<1> QED BY <1>1, <1>3, <1>4, <1>5, WayOfAncestor

(* The next node on the way. *)
LEMMA WayGoesOn ==
  ASSUME NEW R \in Dir, NEW p \in Node, Under(R, p),
         NEW q \in Ancestors(R, p), q # p
  PROVE  \E c \in Ancestors(R, p) : c \in Node \ {<<>>} /\ Parent(c) = q
<1>1. /\ p \in Seq(STRING) /\ Len(R) \in Nat /\ Len(p) \in Nat
      /\ Ancestors(R, p) \subseteq Node
  BY OnTheWay
<1>2. PICK k \in Len(R)..Len(p) : q = SubSeq(p, 1, k)
  BY DEF Ancestors
<1>3. k < Len(p)
  BY <1>1, <1>2, WholePath
<1> DEFINE c == SubSeq(p, 1, k + 1)
<1>4. c \in Ancestors(R, p)
  <2>1. k + 1 \in Len(R)..Len(p)
    BY <1>1, <1>2, <1>3
  <2> QED BY <2>1, Zenon DEF Ancestors
<1>5. Len(c) = k + 1 /\ SubSeq(c, 1, k) = q
  BY <1>1, <1>2, <1>3, PathPrefix
<1>6. c # <<>> /\ Len(c) - 1 = k
  BY <1>1, <1>2, <1>5, EmptySeq
<1> HIDE DEF c
<1>7. Parent(c) = q
  BY <1>1, <1>4, <1>5, <1>6, ParentIsPrefix
<1> QED BY <1>1, <1>4, <1>6, <1>7

(* When something on the way is missing, there is a first such node, and   *)
(* the way to its directory is there.                                      *)
LEMMA FirstMissing ==
  ASSUME NEW R \in Dir, NEW p \in Node, Under(R, p), NEW tr, tr[R] # Absent,
         NEW a \in Ancestors(R, p), tr[a] = Absent
  PROVE  \E c \in Ancestors(R, p) :
           /\ c \in Node \ {<<>>} /\ tr[c] = Absent /\ Under(R, Parent(c))
           /\ \A b \in Ancestors(R, Parent(c)) : tr[b] # Absent
<1>1. /\ p \in Seq(STRING) /\ Len(R) \in Nat /\ Len(p) \in Nat
      /\ R = SubSeq(p, 1, Len(R)) /\ Ancestors(R, p) \subseteq Node
  BY OnTheWay
<1> DEFINE T == {k \in Nat : k \in Len(R)..Len(p) /\ tr[SubSeq(p, 1, k)] = Absent}
<1>2. T # {}
  <2>1. PICK k \in Len(R)..Len(p) : a = SubSeq(p, 1, k)
    BY DEF Ancestors
  <2> QED BY <1>1, <2>1
<1>3. PICK k \in T : \A i \in T : k <= i
  BY <1>2, LeastNat
<1> DEFINE c == SubSeq(p, 1, k)
<1>4. c \in Ancestors(R, p) /\ c \in Node /\ c # R /\ tr[c] = Absent /\ Under(R, c)
  <2>1. c \in Ancestors(R, p)
    BY <1>3 DEF Ancestors
  <2> QED BY <1>1, <1>3, <2>1, WayOfAncestor
<1>5. c # <<>> /\ Under(R, Parent(c))
  BY <1>4, WayOfParent
<1>6. Len(c) = k /\ Len(Parent(c)) = k - 1 /\ Parent(c) = SubSeq(c, 1, k - 1)
  <2>1. Len(c) = k
    BY <1>1, <1>3, PathPrefix
  <2> HIDE DEF c
  <2> QED BY <1>4, <1>5, <2>1, ParentIsPrefix
<1>7. ASSUME NEW b \in Ancestors(R, Parent(c)) PROVE tr[b] # Absent
  <2>1. PICK i \in Len(R)..(k - 1) : b = SubSeq(Parent(c), 1, i)
    BY <1>6 DEF Ancestors
  <2>2. SubSeq(c, 1, i) = SubSeq(p, 1, i)
    BY <1>1, <1>3, <2>1, PathPrefix
  <2>3. SubSeq(Parent(c), 1, i) = SubSeq(c, 1, i)
    <3>1. c \in Seq(STRING)
      BY <1>4, PathAssumption
    <3> HIDE DEF c
    <3> QED BY <1>1, <1>3, <1>6, <2>1, <3>1, PathPrefix
  <2>4. i \notin T
    BY <1>1, <1>3, <2>1
  <2>5. i \in Nat /\ i \in Len(R)..Len(p)
    BY <1>1, <1>3, <2>1
  <2> QED BY <2>1, <2>2, <2>3, <2>4, <2>5
<1> QED BY <1>4, <1>5, <1>7

-----------------------------------------------------------------------------
(* The promise of Walk over the disk tr, with mtimes mt, when the          *)
(* .gitignore files are those of the start.                                *)

IgnoresAt(d) ==
  IF IgnorePath(d) \in IgnoreFile /\ Tree0[IgnorePath(d)] # Absent
  THEN {[base |-> d, names |-> IgnoredNames[Tree0[IgnorePath(d)]]]}
  ELSE {}

Skipped(R, p) ==
  isIgnored(IgnoresAt(<<>>) \cup UNION {IgnoresAt(q) : q \in Ancestors(R, p) \ {p}}, p)

On(tr, R, p) ==
  /\ Under(R, p)
  /\ \A q \in Ancestors(R, p) : tr[q] # Absent /\ ~Skipped(R, q)

Valid(tr, mt, M) == \A e \in M : tr[e[1]] # Absent /\ mt[e[1]] = e[2]

(* Everything on the way to p was recorded before it was read, and none of *)
(* it is ignored.                                                          *)
Passed(mt, M, R, p) ==
  /\ Under(R, p)
  /\ \A q \in Ancestors(R, p) : <<q, mt[q]>> \in M /\ ~Skipped(R, q)

(* The index I has of the node p what the phase of the job j takes from it. *)
Has(tr, I, j, p) ==
  p \in PhpFile =>
    IF j.phase = "views" THEN <<p, j.path>> \in I.defs
    ELSE tr[p] \in Parses => <<p, tr[p]>> \in I.uses

(* Nothing in I is there without a reason ... *)
Sound(tr, mt, M, I, ms) ==
  Valid(tr, mt, M) =>
    /\ \A d \in I.defs : /\ [phase |-> "views", path |-> d[2]] \in Range(Jobs(ms))
                         /\ Passed(mt, M, d[2], d[1])
    /\ \A u \in I.uses : /\ u[1] \in PhpFile /\ tr[u[1]] = u[2] /\ u[2] \in Parses
                         /\ \E j \in Range(Jobs(ms)) :
                              j.phase = "extract" /\ Passed(mt, M, j.path, u[1])

(* ... and nothing under the root of j is missing, but for what lies at or *)
(* below the nodes T still to be visited.                                  *)
Complete(tr, mt, M, I, j, T) ==
  Valid(tr, mt, M) =>
    \A p \in Node : On(tr, j.path, p) =>
      \/ Ancestors(j.path, p) \cap T # {}
      \/ <<p, mt[p]>> \in M /\ Has(tr, I, j, p)

GlobsOfUses(I) == I.globs = {u \in I.uses : u[2] \in GlobalText}

SnapshotOK(tr, mt, M, I, ms) ==
  /\ Sound(tr, mt, M, I, ms)
  /\ \A j \in Range(Jobs(ms)) : Complete(tr, mt, M, I, j, {})

(* The nodes of the current root that are still to be visited. *)
Open == todo \cup (IF pc \in {"entry", "list"} THEN {cur} ELSE {})

Passing(p) == p = Job.path \/ Passed(mtime, manifest, Job.path, Parent(p))

-----------------------------------------------------------------------------
(* The inductive invariant. *)

DiskInv == \A f \in Node \ Editable : tree[f] = Tree0[f]

(* The matchers are those of the directories entered, and those on the way *)
(* to an open node are among them.                                         *)
MatchInv ==
  /\ pc \in {"root", "visit", "entry", "list"} => init = IgnoresAt(<<>>)
  /\ Scanning =>
       /\ Exists(Job.path)
       /\ init \subseteq matchers
       /\ \A m \in matchers : m \in init \/ \E d \in Dir : Under(Job.path, d) /\ m \in IgnoresAt(d)
       /\ \A p \in Open : /\ Under(Job.path, p)
                          /\ \A q \in Ancestors(Job.path, p) \ {p} : IgnoresAt(q) \subseteq matchers
  /\ pc = "list" => cur \in Dir /\ IgnoresAt(cur) \subseteq matchers

RunInv ==
  /\ pc \in {"root", "visit", "entry", "list"} =>
       /\ Range(jobs) \subseteq Range(Jobs(mods))
       /\ GlobsOfUses(idx)
       /\ Sound(tree, mtime, manifest, idx, mods)
       /\ \A j \in Range(Jobs(mods)) \ Range(jobs) : Complete(tree, mtime, manifest, idx, j, {})
  /\ Scanning =>
       /\ Complete(tree, mtime, manifest, idx, Job, Open)
       /\ Valid(tree, mtime, manifest) =>
            /\ \A p \in todo : Exists(p) /\ Passing(p)
            /\ pc = "entry" => <<cur, mtime[cur]>> \in manifest /\ Passing(cur)
            /\ pc = "list" => Passed(mtime, manifest, Job.path, cur)

SavedInv ==
  \A c \in Saved : /\ GlobsOfUses(c.idx)
                   /\ SnapshotOK(tree, mtime, c.manifest, c.idx, c.mods)

QuietInv ==
  /\ began <= now
  /\ began = now =>
       /\ pc \in {"root", "visit", "entry", "list"} => Valid(tree, mtime, manifest)
       /\ pc = "check" /\ Valid(tree, mtime, manifest) => idx = FreshIndex(mods)
       /\ pc = "done" => idx = FreshIndex(mods)

ExactInv == DiskInv /\ MatchInv /\ RunInv /\ SavedInv /\ QuietInv

-----------------------------------------------------------------------------
(* The definitions over tr and mt, and those of Walk. *)

LEMMA IgnoresHold ==
  ASSUME IgnoresFixed, DiskInv, NEW d
  PROVE  tryLoadIgnoreFile(d) = IgnoresAt(d)
<1>1. IgnorePath(d) \in IgnoreFile => tree[IgnorePath(d)] = Tree0[IgnorePath(d)]
  BY DEF IgnoresFixed, DiskInv, Node
<1> QED BY <1>1 DEF tryLoadIgnoreFile, IgnoresAt, Exists

LEMMA IgnoredIsSkipped ==
  ASSUME IgnoresFixed, DiskInv, NEW R, NEW p
  PROVE  isIgnored(Ignorers(R, p), p) <=> Skipped(R, p)
<1>1. \A d : tryLoadIgnoreFile(d) = IgnoresAt(d)
  BY IgnoresHold
<1>2. {tryLoadIgnoreFile(q) : q \in Ancestors(R, p) \ {p}}
        = {IgnoresAt(q) : q \in Ancestors(R, p) \ {p}}
  BY <1>1
<1>3. Ignorers(R, p)
        = IgnoresAt(<<>>) \cup UNION {IgnoresAt(q) : q \in Ancestors(R, p) \ {p}}
  BY <1>1, <1>2 DEF Ignorers
<1> QED BY <1>3 DEF Skipped

LEMMA ReachedIsOn ==
  ASSUME IgnoresFixed, DiskInv, NEW R, NEW p
  PROVE  Reached(R, p) <=> On(tree, R, p)
BY IgnoredIsSkipped DEF Reached, On, Exists

LEMMA PassedIsOn ==
  ASSUME NEW tr, NEW mt, NEW M, NEW R, NEW p, Valid(tr, mt, M), Passed(mt, M, R, p)
  PROVE  On(tr, R, p)
BY DEF Valid, Passed, On

(* The jobs of a module list: one for each view root, one for each source  *)
(* directory.                                                              *)
LEMMA JobsRange ==
  ASSUME NEW ms \in ModuleLists
  PROVE  /\ Range(Jobs(ms)) \subseteq WalkJob
         /\ \A R : [phase |-> "views", path |-> R] \in Range(Jobs(ms))
                     <=> R \in {r.path : r \in Range(BuildViewRoots(ms))}
         /\ \A D : [phase |-> "extract", path |-> D] \in Range(Jobs(ms))
                     <=> D \in Range(PHPScanDirs(ms))
<1> DEFINE views == BuildViewRoots(ms)
           dirs == PHPScanDirs(ms)
           first == [i \in 1..Len(views) |-> [phase |-> "views", path |-> views[i].path]]
           second == [i \in 1..Len(dirs) |-> [phase |-> "extract", path |-> dirs[i]]]
<1>1. ms \in Seq([name : STRING, path : Dir])
  BY JobsAssumption
<1>2. /\ Len(views) \in Nat /\ DOMAIN views = 1..Len(views)
      /\ Len(dirs) \in Nat /\ DOMAIN dirs = 1..Len(dirs)
  BY <1>1 DEF BuildViewRoots, PHPScanDirs
<1>3. Jobs(ms) = first \o second
  BY DEF Jobs
<1>4. Jobs(ms) \in Seq(WalkJob)
  BY JobsTyped
<1> HIDE DEF views, dirs
<1> DEFINE J == [phase : {"views", "extract"},
                 path : {views[i].path : i \in 1..Len(views)} \cup {dirs[i] : i \in 1..Len(dirs)}]
<1>5. first \in Seq(J) /\ second \in Seq(J) /\ Len(first) = Len(views) /\ Len(second) = Len(dirs)
  BY <1>2
<1>6. /\ \A i \in 1..Len(views) : first[i] = [phase |-> "views", path |-> views[i].path]
      /\ \A i \in 1..Len(dirs) : second[i] = [phase |-> "extract", path |-> dirs[i]]
  OBVIOUS
<1> HIDE DEF first, second, J
<1>7. Range(Jobs(ms)) = Range(first) \cup Range(second)
  BY <1>3, <1>5, RangeConcatenation
<1>8. /\ \A x : x \in Range(first) <=> \E i \in 1..Len(views) : x = first[i]
      /\ \A x : x \in Range(second) <=> \E i \in 1..Len(dirs) : x = second[i]
  BY <1>5, ElementsOfSeq
<1>9. /\ \A x \in Range(first) : x.phase = "views"
      /\ \A x \in Range(second) : x.phase = "extract"
  <2>1. ASSUME NEW x \in Range(first) PROVE x.phase = "views"
    <3>1. PICK i \in 1..Len(views) : x = first[i]
      BY <1>8, Zenon
    <3>2. first[i] = [phase |-> "views", path |-> views[i].path]
      BY <1>6, Zenon
    <3> QED BY <3>1, <3>2
  <2>2. ASSUME NEW x \in Range(second) PROVE x.phase = "extract"
    <3>1. PICK i \in 1..Len(dirs) : x = second[i]
      BY <1>8, Zenon
    <3>2. second[i] = [phase |-> "extract", path |-> dirs[i]]
      BY <1>6, Zenon
    <3> QED BY <3>1, <3>2
  <2> QED BY <2>1, <2>2
<1>11. Range(Jobs(ms)) \subseteq WalkJob
  BY <1>4, ElementsOfSeq
<1>12. ASSUME NEW R
       PROVE  [phase |-> "views", path |-> R] \in Range(Jobs(ms))
                <=> R \in {r.path : r \in Range(views)}
  <2> DEFINE job == [phase |-> "views", path |-> R]
  <2>1. job.phase = "views" /\ job.path = R
    OBVIOUS
  <2>2. job \in Range(Jobs(ms)) <=> job \in Range(first)
    BY <1>7, <1>9, <2>1
  <2>3. ASSUME NEW i \in 1..Len(views)
        PROVE  job = first[i] <=> R = views[i].path
    <3>1. first[i] = [phase |-> "views", path |-> views[i].path]
      BY <1>6, Zenon
    <3>2. first[i].path = views[i].path
      BY <3>1
    <3> QED BY <2>1, <3>1, <3>2, Zenon
  <2>4. job \in Range(first) <=> \E i \in 1..Len(views) : R = views[i].path
    BY <1>8, <2>3, Zenon
  <2> QED BY <1>2, <2>2, <2>4 DEF Range
<1>13. ASSUME NEW D
       PROVE  [phase |-> "extract", path |-> D] \in Range(Jobs(ms)) <=> D \in Range(dirs)
  <2> DEFINE job == [phase |-> "extract", path |-> D]
  <2>1. job.phase = "extract" /\ job.path = D
    OBVIOUS
  <2>2. job \in Range(Jobs(ms)) <=> job \in Range(second)
    BY <1>7, <1>9, <2>1
  <2>3. ASSUME NEW i \in 1..Len(dirs)
        PROVE  job = second[i] <=> D = dirs[i]
    <3>1. second[i] = [phase |-> "extract", path |-> dirs[i]]
      BY <1>6, Zenon
    <3>2. second[i].path = dirs[i]
      BY <3>1
    <3> QED BY <2>1, <3>1, <3>2, Zenon
  <2>4. job \in Range(second) <=> \E i \in 1..Len(dirs) : D = dirs[i]
    BY <1>8, <2>3, Zenon
  <2> QED BY <1>2, <2>2, <2>4 DEF Range
<1> QED BY <1>11, <1>12, <1>13 DEF views, dirs

-----------------------------------------------------------------------------
(* A snapshot that is sound and complete is the index of the project. *)

LEMMA JobOf ==
  ASSUME NEW ms \in ModuleLists, NEW j \in Range(Jobs(ms))
  PROVE  /\ j \in WalkJob /\ j.path \in Dir
         /\ j = [phase |-> j.phase, path |-> j.path]
         /\ j.phase \in {"views", "extract"}
<1>1. j \in WalkJob
  BY JobsRange
<1> QED BY <1>1 DEF WalkJob

LEMMA HasIfReached ==
  ASSUME IgnoresFixed, DiskInv, NEW M, NEW I, NEW ms \in ModuleLists,
         Valid(tree, mtime, M), SnapshotOK(tree, mtime, M, I, ms),
         NEW j \in Range(Jobs(ms)), NEW p \in Node, Reached(j.path, p)
  PROVE  Has(tree, I, j, p)
<1>1. On(tree, j.path, p)
  BY ReachedIsOn
<1>2. Complete(tree, mtime, M, I, j, {})
  BY DEF SnapshotOK
<1> QED BY <1>1, <1>2 DEF Complete

LEMMA SnapshotExact ==
  ASSUME IgnoresFixed, DiskInv, NEW M, NEW I \in Index, NEW ms \in ModuleLists,
         Valid(tree, mtime, M), GlobsOfUses(I), SnapshotOK(tree, mtime, M, I, ms)
  PROVE  I = FreshIndex(ms)
<1> DEFINE views == {r.path : r \in Range(BuildViewRoots(ms))}
           dirs == Range(PHPScanDirs(ms))
           source == {f \in PhpFile : /\ \E d \in dirs : Reached(d, f)
                                      /\ tree[f] \in Parses}
<1>0. /\ I = [defs |-> I.defs, uses |-> I.uses, globs |-> I.globs]
      /\ I.defs \subseteq PhpFile \X Dir /\ I.uses \subseteq PhpFile \X Parses
  BY DEF Index
<1>1. Sound(tree, mtime, M, I, ms)
  BY DEF SnapshotOK
<1>2. PhpFile \subseteq Node
  BY DEF Node
<1>3. ASSUME NEW d \in I.defs
      PROVE  d \in PhpFile \X views /\ Reached(d[2], d[1])
  <2>1. /\ [phase |-> "views", path |-> d[2]] \in Range(Jobs(ms))
        /\ Passed(mtime, M, d[2], d[1])
    BY <1>1 DEF Sound
  <2>2. d[2] \in views
    BY <2>1, JobsRange
  <2>3. Reached(d[2], d[1])
    BY <2>1, PassedIsOn, ReachedIsOn
  <2> QED BY <1>0, <2>2, <2>3
<1>4. ASSUME NEW d \in PhpFile \X views, Reached(d[2], d[1])
      PROVE  d \in I.defs
  <2> DEFINE j == [phase |-> "views", path |-> d[2]]
  <2>1. j \in Range(Jobs(ms)) /\ j.path = d[2] /\ j.phase = "views"
    BY JobsRange
  <2> HIDE DEF j
  <2>2. Has(tree, I, j, d[1])
    BY <1>2, <1>4, <2>1, HasIfReached
  <2> QED BY <2>1, <2>2 DEF Has
<1>5. I.defs = {d \in PhpFile \X views : Reached(d[2], d[1])}
  BY <1>3, <1>4
<1>6. ASSUME NEW u \in I.uses
      PROVE  u[1] \in source /\ u = <<u[1], tree[u[1]]>>
  <2>1. u[1] \in PhpFile /\ tree[u[1]] = u[2] /\ u[2] \in Parses
    BY <1>1 DEF Sound
  <2>2. PICK j \in Range(Jobs(ms)) : j.phase = "extract" /\ Passed(mtime, M, j.path, u[1])
    BY <1>1 DEF Sound
  <2>3. j.path \in dirs
    BY <2>2, JobOf, JobsRange
  <2>4. Reached(j.path, u[1])
    BY <2>2, PassedIsOn, ReachedIsOn
  <2> QED BY <1>0, <2>1, <2>3, <2>4
<1>7. ASSUME NEW f \in source PROVE <<f, tree[f]>> \in I.uses
  <2>1. PICK d \in dirs : Reached(d, f)
    OBVIOUS
  <2> DEFINE j == [phase |-> "extract", path |-> d]
  <2>2. j \in Range(Jobs(ms)) /\ j.path = d /\ j.phase = "extract"
    BY <2>1, JobsRange
  <2> HIDE DEF j
  <2>3. Has(tree, I, j, f)
    BY <1>2, <2>1, <2>2, HasIfReached
  <2> QED BY <2>2, <2>3 DEF Has
<1> HIDE DEF source
<1>8. I.uses = {<<f, tree[f]>> : f \in source}
  BY <1>6, <1>7
<1>9. I.globs = {<<f, tree[f]>> : f \in {g \in source : tree[g] \in GlobalText}}
  <2>1. I.globs = {u \in I.uses : u[2] \in GlobalText}
    BY DEF GlobsOfUses
  <2>2. ASSUME NEW u \in I.globs PROVE u[1] \in source /\ tree[u[1]] \in GlobalText /\ u = <<u[1], tree[u[1]]>>
    <3>1. u \in I.uses /\ u[2] \in GlobalText
      BY <2>1
    <3>2. u[2] = tree[u[1]]
      BY <1>1, <3>1 DEF Sound
    <3> QED BY <1>6, <3>1, <3>2
  <2>3. ASSUME NEW f \in source, tree[f] \in GlobalText PROVE <<f, tree[f]>> \in I.globs
    BY <1>7, <2>1, <2>3
  <2> QED BY <2>2, <2>3
<1> QED BY <1>0, <1>5, <1>8, <1>9 DEF FreshIndex, source

-----------------------------------------------------------------------------
(* A change of the file system keeps snapshots sound and complete. *)

LEMMA DiskKeepsValid ==
  ASSUME WalkTypeOK, DiskChange, NEW M \in SUBSET Entry, Older(M), Valid(tree', mtime', M)
  PROVE  /\ Valid(tree, mtime, M)
         /\ \A p \in Node : <<p, mtime[p]>> \in M =>
              /\ mtime'[p] = mtime[p] /\ tree'[p] = tree[p]
              /\ \A q \in Node \ {<<>>} :
                   Parent(q) = p => (tree[q] = Absent <=> tree'[q] = Absent)
<1>1. Clean(M)'
  BY DEF Clean, Valid, Exists
<1>2. Clean(M) /\ \A p \in Node : Current(p) \in M =>
              /\ mtime'[p] = mtime[p] /\ tree'[p] = tree[p]
              /\ \A q \in Node \ {<<>>} : Parent(q) = p => Exists(q) = Exists(q)'
  BY <1>1, DiskKeepsClean
<1> QED BY <1>2 DEF Clean, Valid, Exists, Current

LEMMA DiskKeepsRoot ==
  ASSUME WalkTypeOK, DiskChange, NEW f \in Node \ Editable
  PROVE  tree'[f] = tree[f]
<1>1. PICK p \in Editable, t \in Anything : DiskEffect(p, t)
  BY DiskStep
<1> QED BY <1>1 DEF DiskEffect, WalkTypeOK

LEMMA DiskKeepsPassed ==
  ASSUME WalkTypeOK, DiskChange, NEW M \in SUBSET Entry, Older(M), Valid(tree', mtime', M),
         NEW R \in Dir, NEW p \in Node, Passed(mtime, M, R, p)
  PROVE  Passed(mtime', M, R, p)
<1>1. Under(R, p) /\ Ancestors(R, p) \subseteq Node
  BY OnTheWay DEF Passed
<1>2. \A q \in Ancestors(R, p) : mtime'[q] = mtime[q]
  BY <1>1, DiskKeepsValid DEF Passed
<1> QED BY <1>2 DEF Passed

LEMMA DiskKeepsSound ==
  ASSUME WalkTypeOK, DiskChange, NEW M \in SUBSET Entry, Older(M),
         NEW I \in Index, NEW ms \in ModuleLists, Sound(tree, mtime, M, I, ms)
  PROVE  Sound(tree', mtime', M, I, ms)
<1> SUFFICES ASSUME Valid(tree', mtime', M)
             PROVE  /\ \A d \in I.defs : /\ [phase |-> "views", path |-> d[2]] \in Range(Jobs(ms))
                                         /\ Passed(mtime', M, d[2], d[1])
                    /\ \A u \in I.uses :
                         /\ u[1] \in PhpFile /\ tree'[u[1]] = u[2] /\ u[2] \in Parses
                         /\ \E j \in Range(Jobs(ms)) :
                              j.phase = "extract" /\ Passed(mtime', M, j.path, u[1])
  BY DEF Sound
<1>0. Valid(tree, mtime, M)
  BY DiskKeepsValid
<1>1. /\ \A d \in I.defs : d[1] \in Node /\ d[2] \in Dir
      /\ \A u \in I.uses : u[1] \in Node
  BY DEF Index, Node
<1>2. ASSUME NEW d \in I.defs
      PROVE  /\ [phase |-> "views", path |-> d[2]] \in Range(Jobs(ms))
             /\ Passed(mtime', M, d[2], d[1])
  <2>1. /\ [phase |-> "views", path |-> d[2]] \in Range(Jobs(ms))
        /\ Passed(mtime, M, d[2], d[1])
    BY <1>0 DEF Sound
  <2> QED BY <1>1, <2>1, DiskKeepsPassed
<1>3. ASSUME NEW u \in I.uses
      PROVE  /\ u[1] \in PhpFile /\ tree'[u[1]] = u[2] /\ u[2] \in Parses
             /\ \E j \in Range(Jobs(ms)) :
                  j.phase = "extract" /\ Passed(mtime', M, j.path, u[1])
  <2>1. u[1] \in PhpFile /\ tree[u[1]] = u[2] /\ u[2] \in Parses
    BY <1>0 DEF Sound
  <2>2. PICK j \in Range(Jobs(ms)) : j.phase = "extract" /\ Passed(mtime, M, j.path, u[1])
    BY <1>0 DEF Sound
  <2>3. j.path \in Dir
    BY JobOf
  <2>4. u[1] \in Ancestors(j.path, u[1])
    BY <1>1, <2>2, <2>3, OnTheWay DEF Passed
  <2>5. tree'[u[1]] = tree[u[1]]
    BY <1>1, <2>2, <2>4, DiskKeepsValid DEF Passed
  <2>6. Passed(mtime', M, j.path, u[1])
    BY <1>1, <2>2, <2>3, DiskKeepsPassed
  <2> QED BY <2>1, <2>2, <2>5, <2>6
<1> QED BY <1>2, <1>3

(* What is new below a root has a first new node, whose directory was      *)
(* there before.  If that directory had been listed, its entry in the      *)
(* manifest is no longer valid.                                            *)
LEMMA DiskKeepsComplete ==
  ASSUME WalkTypeOK, DiskChange, NEW M \in SUBSET Entry, Older(M),
         NEW I, NEW j, j.path \in Dir \ Editable, NEW T, Complete(tree, mtime, M, I, j, T)
  PROVE  Complete(tree', mtime', M, I, j, T)
<1> DEFINE R == j.path
<1> SUFFICES ASSUME Valid(tree', mtime', M), NEW p \in Node, On(tree', R, p)
             PROVE  \/ Ancestors(R, p) \cap T # {}
                    \/ <<p, mtime'[p]>> \in M /\ Has(tree', I, j, p)
  BY DEF Complete
<1>0. Valid(tree, mtime, M)
  BY DiskKeepsValid
<1>1. /\ Under(R, p)
      /\ \A q \in Ancestors(R, p) : tree'[q] # Absent /\ ~Skipped(R, q)
  BY DEF On
<1>2. CASE On(tree, R, p)
  <2>1. CASE Ancestors(R, p) \cap T # {}
    BY <2>1
  <2>2. CASE <<p, mtime[p]>> \in M /\ Has(tree, I, j, p)
    <3>1. mtime'[p] = mtime[p] /\ tree'[p] = tree[p]
      BY <2>2, DiskKeepsValid
    <3> QED BY <2>2, <3>1 DEF Has
  <2> QED BY <1>0, <1>2, <2>1, <2>2 DEF Complete
<1>3. CASE ~On(tree, R, p)
  <2>1. PICK a \in Ancestors(R, p) : tree[a] = Absent
    BY <1>1, <1>3 DEF On
  <2>2. tree[R] # Absent
    <3>1. R \in Ancestors(R, p) /\ R \in Node
      BY <1>1, OnTheWay DEF Node
    <3> QED BY <1>1, <3>1, DiskKeepsRoot
  <2>3. PICK c \in Ancestors(R, p) :
           /\ c \in Node \ {<<>>} /\ tree[c] = Absent /\ Under(R, Parent(c))
           /\ \A b \in Ancestors(R, Parent(c)) : tree[b] # Absent
    <3> HIDE DEF R
    <3> QED BY <1>1, <2>1, <2>2, FirstMissing DEF R
  <2> DEFINE b == Parent(c)
  <2>4. b \in Node
    BY <2>3, ParentIsPrefix
  <2>5. Ancestors(R, b) \subseteq Ancestors(R, p)
    <3>1. Ancestors(R, c) \subseteq Ancestors(R, p)
      BY <1>1, WayOfAncestor
    <3>2. Ancestors(R, c) = Ancestors(R, b) \cup {c}
      BY <2>3, WayOfChild
    <3> QED BY <3>1, <3>2
  <2>6. On(tree, R, b)
    BY <1>1, <2>3, <2>5 DEF On
  <2>7. CASE Ancestors(R, b) \cap T # {}
    BY <2>5, <2>7
  <2>8. CASE <<b, mtime[b]>> \in M
    <3>1. tree'[c] = Absent
      BY <2>3, <2>4, <2>8, DiskKeepsValid
    <3> QED BY <1>1, <3>1
  <2> QED BY <1>0, <2>4, <2>6, <2>7, <2>8 DEF Complete
<1> QED BY <1>2, <1>3

-----------------------------------------------------------------------------
(* The root that is being walked. *)

LEMMA CurrentJob ==
  ASSUME RootsFixed, WalkTypeInv, jobs # <<>>, Range(jobs) \subseteq Range(Jobs(mods))
  PROVE  /\ Job \in Range(Jobs(mods))
         /\ Job.path \in Dir \ Editable /\ Job.phase \in {"views", "extract"}
         /\ Range(jobs) = {Job} \cup Range(Tail(jobs))
<1>1. jobs \in Seq(WalkJob) /\ mods \in ModuleLists
  BY DEF WalkTypeInv, WalkTypeOK
<1>2. Range(jobs) = {Job} \cup Range(Tail(jobs))
  BY <1>1, ElementsOfTail DEF Job
<1>3. Job \in Range(Jobs(mods))
  BY <1>2
<1> QED BY <1>1, <1>2, <1>3, JobOf DEF RootsFixed

LEMMA WayOfRoot ==
  ASSUME NEW R \in Dir
  PROVE  Under(R, R) /\ Ancestors(R, R) = {R}
<1>1. R \in Seq(STRING) /\ Len(R) \in Nat /\ SubSeq(R, 1, Len(R)) = R
  BY PathAssumption, WholePath DEF Node
<1>2. Len(R)..Len(R) = {Len(R)}
  BY <1>1
<1> QED BY <1>1, <1>2 DEF Under, IsPrefix, Ancestors

(* The matchers say of an open node what its own way says. *)
LEMMA MatchersDecide ==
  ASSUME NEW R \in Dir, NEW p \in Node, Under(R, p), NEW ms,
         IgnoresAt(<<>>) \subseteq ms,
         \A m \in ms : m \in IgnoresAt(<<>>) \/ \E d \in Dir : Under(R, d) /\ m \in IgnoresAt(d),
         \A q \in Ancestors(R, p) \ {p} : IgnoresAt(q) \subseteq ms
  PROVE  isIgnored(ms, p) <=> Skipped(R, p)
<1> DEFINE own == IgnoresAt(<<>>) \cup UNION {IgnoresAt(q) : q \in Ancestors(R, p) \ {p}}
           hits(m) == /\ Under(m.base, p)
                      /\ \E i \in Len(m.base) + 1 .. Len(p) : p[i] \in m.names
<1>1. own \subseteq ms
  OBVIOUS
<1>2. ASSUME NEW m \in ms, hits(m) PROVE m \in own
  <2>1. CASE m \in IgnoresAt(<<>>)
    BY <2>1
  <2>2. ASSUME NEW d \in Dir, Under(R, d), m \in IgnoresAt(d) PROVE m \in own
    <3>1. m.base = d
      BY <2>2 DEF IgnoresAt
    <3>2. Under(d, p) /\ d # p
      <4>1. Len(p) \in Nat
        BY PathAssumption, WholePath
      <4> QED BY <1>2, <3>1, <4>1
    <3>3. d \in Ancestors(R, p)
      <4>1. /\ Len(d) \in Nat /\ Len(p) \in Nat /\ Len(R) \in Nat
            /\ Len(d) <= Len(p) /\ d = SubSeq(p, 1, Len(d))
        BY <3>2, OnTheWay
      <4>2. Len(R) <= Len(d)
        BY <2>2, OnTheWay DEF Node
      <4>3. Len(d) \in Len(R)..Len(p)
        BY <4>1, <4>2
      <4> QED BY <4>1, <4>3, Zenon DEF Ancestors
    <3> QED BY <2>2, <3>2, <3>3
  <2> QED BY <2>1, <2>2
<1>3. isIgnored(ms, p) <=> \E m \in ms : hits(m)
  BY DEF isIgnored
<1>4. Skipped(R, p) <=> \E m \in own : hits(m)
  BY DEF Skipped, isIgnored
<1> HIDE DEF own, hits
<1> QED BY <1>1, <1>2, <1>3, <1>4

LEMMA StepMatch ==
  ASSUME IgnoresFixed, RootsFixed, WalkTypeInv, DiskInv, MatchInv, RunInv,
         [WalkNext]_indexerVars
  PROVE  MatchInv'
<1> USE DEF Scanning, diskVars, cacheVars, walkVars
<1>a. pc \in {"root", "visit", "entry", "list"} /\ jobs # <<>> =>
        /\ Job.path \in Dir \ Editable /\ Job.path \in Node
  BY CurrentJob DEF RunInv, Node
<1>b. Scanning => jobs # <<>> /\ (pc \in {"entry", "list"} => cur \in Node)
                  /\ Open \subseteq Node
  BY DEF WalkTypeInv, WalkTypeOK, Open
<1>c. UNCHANGED jobs => Job' = Job
  BY DEF Job
<1>1. CASE Outside
  <2>1. Exists(Job.path) /\ Scanning => Exists(Job.path)'
    <3>1. DiskChange /\ WalkTypeOK /\ Job' = Job
      BY <1>1, <1>c DEF Outside, WalkTypeInv
    <3> QED BY <1>a, <1>b, <3>1, DiskKeepsRoot DEF Exists
  <2> QED BY <1>1, <1>c, <2>1 DEF Outside, MatchInv, Open
<1>2. ASSUME NEW ms, BeginScan(ms) PROVE MatchInv'
  <2>1. init' = IgnoresAt(<<>>) /\ pc' = "root"
    BY <1>2, IgnoresHold DEF BeginScan
  <2> QED BY <2>1 DEF MatchInv
<1>3. ASSUME NEW ms \in ModuleLists, StartWalk(ms) PROVE MatchInv'
  <2>1. CASE pc' = "check"
    BY <2>1 DEF MatchInv
  <2> QED BY <1>2, <1>3, <2>1 DEF StartWalk
<1>4. CASE CheckEntry
  <2>1. CASE pc' = "check"
    BY <2>1 DEF MatchInv
  <2> QED BY <1>2, <1>4, <2>1 DEF CheckEntry
<1>5. CASE pc' \in {"done", "idle"}
  BY <1>5 DEF MatchInv
<1>6. CASE StartRoot
  <2>1. CASE Exists(Job.path)
    <3>1. /\ pc' = "visit" /\ todo' = {Job.path} /\ matchers' = init /\ init' = init
          /\ Job' = Job /\ jobs # <<>> /\ pc = "root"
          /\ Exists(Job.path)'
      BY <1>6, <1>c, <2>1 DEF StartRoot, Exists
    <3>2. Open' = {Job.path}
      BY <3>1 DEF Open
    <3>3. Under(Job.path, Job.path) /\ Ancestors(Job.path, Job.path) = {Job.path}
      BY <1>a, <3>1, WayOfRoot
    <3> QED BY <3>1, <3>2, <3>3 DEF MatchInv
  <2>2. CASE ~Exists(Job.path)
    BY <1>6, <2>2 DEF StartRoot, MatchInv
  <2> QED BY <2>1, <2>2
<1>7. CASE appendStat
  <2>1. PICK p \in todo :
          /\ todo' = todo \ {p}
          /\ IF p = Job.path /\ ~Exists(p)
             THEN UNCHANGED <<pc, cur>>
             ELSE pc' = "entry" /\ cur' = p
    BY <1>7 DEF appendStat
  <2>2. pc = "visit" /\ Exists(Job.path) /\ UNCHANGED <<jobs, init, matchers, tree>>
    BY <1>7 DEF appendStat, MatchInv
  <2>3. pc' = "entry" /\ Open' = Open /\ Job' = Job /\ Exists(Job.path)'
    BY <1>c, <2>1, <2>2 DEF Open, Exists
  <2> QED BY <2>2, <2>3 DEF MatchInv
<1>8. CASE VisitDir
  <2>0. /\ pc = "entry" /\ cur \in Dir /\ cur \in Open /\ Job' = Job /\ init' = init
        /\ Exists(Job.path) /\ Exists(Job.path)'
    BY <1>8, <1>c DEF VisitDir, Open, MatchInv, Exists
  <2>1. CASE pc' = "visit" /\ matchers' = matchers
    <3>1. Open' \subseteq Open
      BY <1>8, <2>1 DEF VisitDir, Open
    <3> QED BY <2>0, <2>1, <3>1 DEF MatchInv
  <2>2. CASE pc' = "list" /\ matchers' = Gathered(cur) /\ cur' = cur
    <3>1. Open' = Open
      BY <1>8, <2>0, <2>2 DEF VisitDir, Open
    <3>2. matchers' = matchers \cup IgnoresAt(cur)
      BY <2>2, IgnoresHold DEF Gathered
    <3>3. Under(Job.path, cur)
      BY <2>0 DEF MatchInv
    <3> QED BY <2>0, <2>2, <3>1, <3>2, <3>3 DEF MatchInv
  <2> QED BY <1>8, <2>1, <2>2 DEF VisitDir
<1>9. CASE ListDir
  <2>0. /\ pc = "list" /\ pc' = "visit" /\ cur \in Open /\ cur \in Node
        /\ UNCHANGED <<jobs, init, matchers, tree>> /\ Job' = Job
        /\ Exists(Job.path) /\ Exists(Job.path)'
    BY <1>9, <1>b, <1>c DEF ListDir, Open, MatchInv, Exists
  <2>1. Open' \subseteq Open \cup Children(cur)
    BY <1>9, <2>0 DEF ListDir, Open
  <2>2. ASSUME NEW p \in Children(cur)
        PROVE  /\ Under(Job.path, p)
               /\ \A q \in Ancestors(Job.path, p) \ {p} : IgnoresAt(q) \subseteq matchers
    <3>1. p \in Node \ {<<>>} /\ Parent(p) = cur
      BY DEF Children
    <3>2. Under(Job.path, cur) /\ Job.path \in Dir
      BY <1>a, <1>b, <2>0 DEF MatchInv
    <3>3. Under(Job.path, p) /\ Ancestors(Job.path, p) = Ancestors(Job.path, cur) \cup {p}
      BY <3>1, <3>2, WayOfChild
    <3>4. \A q \in Ancestors(Job.path, cur) : IgnoresAt(q) \subseteq matchers
      BY <2>0 DEF MatchInv
    <3> QED BY <3>3, <3>4
  <2> QED BY <2>0, <2>1, <2>2 DEF MatchInv
<1>10. CASE VisitFile
  <2>1. Open' \subseteq Open /\ Job' = Job /\ pc = "entry" /\ pc' = "visit"
    BY <1>10, <1>c DEF VisitFile, Open
  <2> QED BY <1>10, <2>1 DEF VisitFile, MatchInv, Exists
<1>11. CASE EndRoot
  BY <1>11 DEF EndRoot, MatchInv
<1>12. CASE UNCHANGED walkVars /\ UNCHANGED diskVars
  BY <1>12, <1>c DEF MatchInv, Open, Exists
<1> QED
  BY <1>1, <1>3, <1>4, <1>5, <1>6, <1>7, <1>8, <1>9, <1>10, <1>11, <1>12
     DEF WalkNext, WalkStep, CacheHit, EndWalk, Return, saveCache, indexerVars

-----------------------------------------------------------------------------
(* Recording, indexing and visiting keep a snapshot in the making sound and*)
(* complete.                                                               *)

LEMMA PassedHere ==
  ASSUME NEW mt, NEW M, NEW R \in Dir, NEW p \in Node, Under(R, p),
         p = R \/ Passed(mt, M, R, Parent(p)), <<p, mt[p]>> \in M, ~Skipped(R, p)
  PROVE  Passed(mt, M, R, p)
<1>1. CASE p = R
  BY <1>1, WayOfRoot DEF Passed
<1>2. CASE p # R
  <2>1. Passed(mt, M, R, Parent(p)) /\ p # <<>> /\ Under(R, Parent(p))
    BY <1>2, WayOfParent
  <2>2. Ancestors(R, p) = Ancestors(R, Parent(p)) \cup {p}
    BY <2>1, WayOfChild
  <2> QED BY <2>1, <2>2 DEF Passed
<1> QED BY <1>1, <1>2

LEMMA MoreIsSound ==
  ASSUME NEW tr, NEW mt, NEW M, NEW N, M \subseteq N, NEW I, NEW ms,
         Sound(tr, mt, M, I, ms)
  PROVE  Sound(tr, mt, N, I, ms)
<1>1. Valid(tr, mt, N) => Valid(tr, mt, M)
  BY DEF Valid
<1>2. \A R, p : Passed(mt, M, R, p) => Passed(mt, N, R, p)
  BY DEF Passed
<1> QED BY <1>1, <1>2 DEF Sound

LEMMA MoreIsComplete ==
  ASSUME NEW tr, NEW mt, NEW M, NEW N, M \subseteq N, NEW I, NEW J,
         I.defs \subseteq J.defs, I.uses \subseteq J.uses, NEW j, NEW T,
         Complete(tr, mt, M, I, j, T)
  PROVE  Complete(tr, mt, N, J, j, T)
<1>1. Valid(tr, mt, N) => Valid(tr, mt, M)
  BY DEF Valid
<1>2. \A p : Has(tr, I, j, p) => Has(tr, J, j, p)
  BY DEF Has
<1> QED BY <1>1, <1>2 DEF Complete

(* The matchers decide for the entry being visited. *)
LEMMA CurDecided ==
  ASSUME RootsFixed, WalkTypeInv, MatchInv, RunInv, pc = "entry"
  PROVE  /\ cur \in Node /\ Under(Job.path, cur) /\ Job.path \in Dir
         /\ isIgnored(matchers, cur) <=> Skipped(Job.path, cur)
<1>1. cur \in Node /\ cur \in Open /\ jobs # <<>>
  BY DEF WalkTypeInv, Scanning, Open
<1>2. Job.path \in Dir
  BY <1>1, CurrentJob DEF RunInv
<1>3. /\ Under(Job.path, cur)
      /\ IgnoresAt(<<>>) \subseteq matchers
      /\ \A m \in matchers : m \in IgnoresAt(<<>>) \/ \E d \in Dir : Under(Job.path, d) /\ m \in IgnoresAt(d)
      /\ \A q \in Ancestors(Job.path, cur) \ {cur} : IgnoresAt(q) \subseteq matchers
  BY <1>1 DEF MatchInv, Scanning
<1> QED BY <1>1, <1>2, <1>3, MatchersDecide

LEMMA StartRootRun ==
  ASSUME RootsFixed, WalkTypeInv, RunInv, StartRoot
  PROVE  RunInv'
<1> USE DEF Scanning, diskVars, cacheVars
<1>1. /\ pc = "root" /\ jobs # <<>>
      /\ UNCHANGED <<tree, mtime, manifest, idx, mods>>
      /\ Range(jobs) \subseteq Range(Jobs(mods))
  BY DEF StartRoot, RunInv
<1>2. Job.path \in Dir /\ Job.path \in Node /\ Range(jobs) = {Job} \cup Range(Tail(jobs))
  BY <1>1, CurrentJob DEF Node
<1>3. CASE Exists(Job.path)
  <2>1. pc' = "visit" /\ todo' = {Job.path} /\ jobs' = jobs /\ Job' = Job
    BY <1>3 DEF StartRoot, Job
  <2>2. Open' = {Job.path}
    BY <2>1 DEF Open
  <2>3. Complete(tree', mtime', manifest', idx', Job', Open')
    <3>1. \A p \in Node : Under(Job.path, p) => Job.path \in Ancestors(Job.path, p)
      BY <1>2, OnTheWay
    <3> QED BY <2>1, <2>2, <3>1 DEF Complete, On
  <2>4. \A p \in todo' : Exists(p)' /\ Passing(p)'
    BY <1>1, <1>3, <2>1 DEF Exists, Passing
  <2> QED BY <1>1, <2>1, <2>3, <2>4 DEF RunInv
<1>4. CASE ~Exists(Job.path)
  <2>1. pc' = "root" /\ jobs' = Tail(jobs)
    BY <1>1, <1>4 DEF StartRoot
  <2>2. Complete(tree, mtime, manifest, idx, Job, {})
    <3>1. ASSUME NEW p \in Node, On(tree, Job.path, p) PROVE FALSE
      <4>1. Job.path \in Ancestors(Job.path, p)
        BY <1>2, <3>1, OnTheWay DEF On
      <4> QED BY <1>4, <3>1, <4>1 DEF On, Exists
    <3> QED BY <3>1 DEF Complete
  <2>3. \A j \in Range(Jobs(mods)) \ Range(jobs') : Complete(tree, mtime, manifest, idx, j, {})
    BY <1>1, <1>2, <2>1, <2>2 DEF RunInv
  <2> QED BY <1>1, <1>2, <2>1, <2>3 DEF RunInv
<1> QED BY <1>3, <1>4

LEMMA appendStatRun ==
  ASSUME RootsFixed, WalkTypeInv, MatchInv, RunInv, appendStat
  PROVE  RunInv'
<1> USE DEF Scanning, diskVars, cacheVars
<1>1. PICK p \in todo :
        /\ todo' = todo \ {p}
        /\ manifest' = manifest \cup StatEntry(p)
        /\ IF p = Job.path /\ ~Exists(p)
           THEN UNCHANGED <<pc, cur>>
           ELSE pc' = "entry" /\ cur' = p
  BY DEF appendStat
<1>2. /\ pc = "visit" /\ UNCHANGED <<tree, mtime, idx, mods, jobs>> /\ Job' = Job
      /\ Exists(Job.path)
  BY DEF appendStat, Job, MatchInv
<1>3. pc' = "entry" /\ cur' = p /\ Open' = Open /\ manifest \subseteq manifest'
  BY <1>1, <1>2 DEF Open
<1>4. Sound(tree, mtime, manifest', idx, mods)
  BY <1>2, <1>3, MoreIsSound DEF RunInv
<1>5. ASSUME NEW j \in Range(Jobs(mods)) \ Range(jobs)
      PROVE  Complete(tree, mtime, manifest', idx, j, {})
  BY <1>2, <1>3, MoreIsComplete DEF RunInv
<1>6. Complete(tree, mtime, manifest', idx, Job, Open)
  BY <1>2, <1>3, MoreIsComplete DEF RunInv
<1>7. ASSUME Valid(tree, mtime, manifest')
      PROVE  /\ \A q \in todo : Exists(q) /\ (q = Job.path \/ Passed(mtime, manifest', Job.path, Parent(q)))
             /\ <<p, mtime[p]>> \in manifest'
  <2>1. Valid(tree, mtime, manifest)
    BY <1>3, <1>7 DEF Valid
  <2>2. \A q \in todo : Exists(q) /\ Passing(q)
    BY <1>2, <2>1 DEF RunInv
  <2>3. \A q : Passed(mtime, manifest, Job.path, q) => Passed(mtime, manifest', Job.path, q)
    BY <1>3 DEF Passed
  <2>4. <<p, mtime[p]>> \in manifest'
    BY <1>1, <2>2 DEF StatEntry
  <2> QED BY <2>2, <2>3, <2>4 DEF Passing
<1> QED BY <1>1, <1>2, <1>3, <1>4, <1>5, <1>6, <1>7 DEF RunInv, Passing, Exists

LEMMA VisitDirRun ==
  ASSUME RootsFixed, WalkTypeInv, MatchInv, RunInv, VisitDir
  PROVE  RunInv'
<1> USE DEF Scanning, diskVars, cacheVars
<1>1. /\ pc = "entry" /\ UNCHANGED <<tree, mtime, manifest, idx, mods, jobs, todo>> /\ Job' = Job
  BY DEF VisitDir, Job
<1>2. /\ cur \in Node /\ Under(Job.path, cur) /\ Job.path \in Dir
      /\ isIgnored(matchers, cur) <=> Skipped(Job.path, cur)
  BY <1>1, CurDecided
<1>3. CASE isIgnored(matchers, cur)
  <2>1. pc' = "visit" /\ Open' = todo /\ Open = todo \cup {cur}
    BY <1>1, <1>3 DEF VisitDir, Open
  <2>2. ASSUME NEW p \in Node, On(tree, Job.path, p)
        PROVE  cur \notin Ancestors(Job.path, p)
    BY <1>2, <1>3, <2>2 DEF On
  <2>3. Complete(tree, mtime, manifest, idx, Job, Open')
    BY <1>1, <2>1, <2>2 DEF RunInv, Complete
  <2> QED BY <1>1, <2>1, <2>3 DEF RunInv, Passing, Exists
<1>4. CASE ~isIgnored(matchers, cur)
  <2>1. pc' = "list" /\ cur' = cur /\ Open' = Open
    BY <1>1, <1>4 DEF VisitDir, Open
  <2>2. Valid(tree, mtime, manifest) => Passed(mtime, manifest, Job.path, cur)
    BY <1>1, <1>2, <1>4, PassedHere DEF RunInv, Passing
  <2> QED BY <1>1, <2>1, <2>2 DEF RunInv, Passing, Exists
<1> QED BY <1>3, <1>4

LEMMA ListDirRun ==
  ASSUME RootsFixed, WalkTypeInv, MatchInv, RunInv, ListDir
  PROVE  RunInv'
<1> USE DEF Scanning, diskVars, cacheVars
<1>1. /\ pc = "list" /\ pc' = "visit" /\ todo' = todo \cup Children(cur)
      /\ UNCHANGED <<tree, mtime, manifest, idx, mods, jobs>> /\ Job' = Job
  BY DEF ListDir, Job
<1>2. /\ Open = todo \cup {cur} /\ Open' = todo \cup Children(cur)
      /\ cur \in Node /\ cur \in Dir /\ jobs # <<>>
  BY <1>1 DEF Open, MatchInv, WalkTypeInv
<1>3. Job.path \in Dir /\ Under(Job.path, cur)
  BY <1>1, <1>2, CurrentJob DEF RunInv, MatchInv
<1>4. Valid(tree, mtime, manifest) => Passed(mtime, manifest, Job.path, cur)
  BY <1>1 DEF RunInv
<1>5. Complete(tree, mtime, manifest, idx, Job, Open')
  <2> SUFFICES ASSUME Valid(tree, mtime, manifest), NEW p \in Node, On(tree, Job.path, p)
               PROVE  \/ Ancestors(Job.path, p) \cap Open' # {}
                      \/ <<p, mtime[p]>> \in manifest /\ Has(tree, idx, Job, p)
    BY DEF Complete
  <2>1. CASE cur \in Ancestors(Job.path, p) /\ cur # p
    <3>1. PICK c \in Ancestors(Job.path, p) : c \in Node \ {<<>>} /\ Parent(c) = cur
      BY <1>3, <2>1, WayGoesOn DEF On
    <3>2. c \in Children(cur)
      BY <3>1 DEF Children, On, Exists
    <3> QED BY <1>2, <3>1, <3>2
  <2>2. CASE p = cur
    <3>1. <<p, mtime[p]>> \in manifest
      <4>1. cur \in Ancestors(Job.path, cur)
        BY <1>2, <1>3, OnTheWay
      <4> QED BY <1>4, <2>2, <4>1 DEF Passed
    <3>2. p \notin PhpFile
      BY <1>2, <2>2, TreeAssumption
    <3> QED BY <3>1, <3>2 DEF Has
  <2>3. CASE cur \notin Ancestors(Job.path, p)
    BY <1>1, <1>2, <2>3 DEF RunInv, Complete
  <2> QED BY <2>1, <2>2, <2>3
<1>6. ASSUME Valid(tree, mtime, manifest), NEW p \in todo'
      PROVE  Exists(p) /\ Passing(p)
  <2>1. CASE p \in todo
    BY <1>1, <1>6, <2>1 DEF RunInv
  <2>2. CASE p \in Children(cur)
    BY <1>4, <1>6, <2>2 DEF Children, Passing
  <2> QED BY <1>1, <2>1, <2>2
<1> QED BY <1>1, <1>5, <1>6 DEF RunInv, Passing, Exists

(* What visiting a file adds to the index. *)
LEMMA IndexedGrows ==
  ASSUME RootsFixed, WalkTypeInv, RunInv, pc = "entry", cur \notin Dir
  PROVE  LET after == Indexed(cur) IN
         /\ idx.defs \subseteq after.defs /\ idx.uses \subseteq after.uses
         /\ \A d \in after.defs \ idx.defs :
              /\ d = <<cur, Job.path>> /\ cur \in PhpFile /\ Job.phase = "views"
              /\ ~isIgnored(matchers, cur)
         /\ \A u \in after.uses \ idx.uses :
              /\ u = <<cur, tree[cur]>> /\ cur \in PhpFile /\ Job.phase = "extract"
              /\ tree[cur] \in Parses /\ ~isIgnored(matchers, cur)
         /\ cur \in PhpFile /\ ~isIgnored(matchers, cur) /\ Exists(cur) =>
              Has(tree, after, Job, cur)
         /\ GlobsOfUses(after)
<1>1. /\ idx \in Index /\ jobs # <<>> /\ GlobsOfUses(idx) /\ cur \in Node
  BY DEF WalkTypeInv, WalkTypeOK, Scanning, RunInv
<1>2. Job.phase \in {"views", "extract"}
  BY <1>1, CurrentJob DEF RunInv
<1>3. CASE cur \notin PhpFile \/ isIgnored(matchers, cur)
  <2>1. Indexed(cur) = idx
    BY <1>3 DEF Indexed
  <2> QED BY <1>1, <1>3, <2>1
<1>4. CASE cur \in PhpFile /\ ~isIgnored(matchers, cur) /\ Job.phase = "views"
  <2>1. Indexed(cur) = [idx EXCEPT !.defs = @ \cup {<<cur, Job.path>>}]
    BY <1>4 DEF Indexed
  <2>2. /\ Indexed(cur).defs = idx.defs \cup {<<cur, Job.path>>}
        /\ Indexed(cur).uses = idx.uses /\ Indexed(cur).globs = idx.globs
    BY <1>1, <2>1 DEF Index
  <2> HIDE DEF Indexed
  <2> QED BY <1>1, <1>4, <2>2 DEF Has, GlobsOfUses
<1>5. CASE cur \in PhpFile /\ ~isIgnored(matchers, cur) /\ Job.phase # "views" /\ ~Exists(cur)
  <2>1. Indexed(cur) = idx
    BY <1>5 DEF Indexed
  <2> QED BY <1>1, <1>5, <2>1
<1>6. CASE cur \in PhpFile /\ ~isIgnored(matchers, cur) /\ Job.phase # "views" /\ Exists(cur)
  <2>1. Indexed(cur) = ExtractFileUsages(cur, tree[cur], idx)
    BY <1>6 DEF Indexed
  <2>2. CASE tree[cur] \notin Parses
    <3>1. Indexed(cur) = idx
      BY <2>1, <2>2 DEF ExtractFileUsages
    <3> QED BY <1>1, <1>6, <2>2, <3>1 DEF Has
  <2>3. CASE tree[cur] \in Parses
    <3>1. /\ Indexed(cur).defs = idx.defs
          /\ Indexed(cur).uses = idx.uses \cup {<<cur, tree[cur]>>}
          /\ Indexed(cur).globs
               = IF tree[cur] \in GlobalText THEN idx.globs \cup {<<cur, tree[cur]>>} ELSE idx.globs
      BY <1>1, <2>1, <2>3 DEF ExtractFileUsages, Index
    <3> HIDE DEF Indexed
    <3>2. GlobsOfUses(Indexed(cur))
      BY <1>1, <3>1 DEF GlobsOfUses
    <3> QED BY <1>1, <1>2, <1>6, <2>3, <3>1, <3>2 DEF Has
  <2> QED BY <2>2, <2>3
<1> QED BY <1>3, <1>4, <1>5, <1>6

LEMMA VisitFileRun ==
  ASSUME RootsFixed, WalkTypeInv, MatchInv, RunInv, VisitFile
  PROVE  RunInv'
<1> USE DEF Scanning, diskVars, cacheVars
<1>1. /\ pc = "entry" /\ pc' = "visit" /\ idx' = Indexed(cur) /\ cur \notin Dir
      /\ UNCHANGED <<tree, mtime, manifest, mods, jobs, todo>> /\ Job' = Job
  BY DEF VisitFile, Job
<1>2. /\ cur \in Node /\ Under(Job.path, cur) /\ Job.path \in Dir
      /\ isIgnored(matchers, cur) <=> Skipped(Job.path, cur)
      /\ Open = todo \cup {cur} /\ Open' = todo
  BY <1>1, CurDecided DEF Open
<1>3. /\ Job \in Range(Jobs(mods)) /\ Job.phase \in {"views", "extract"}
      /\ Job = [phase |-> Job.phase, path |-> Job.path]
  <2>1. jobs # <<>> /\ mods \in ModuleLists
    BY <1>1 DEF WalkTypeInv, WalkTypeOK
  <2> QED BY <1>1, <2>1, CurrentJob, JobOf DEF RunInv
<1>4. /\ idx.defs \subseteq idx'.defs /\ idx.uses \subseteq idx'.uses
      /\ \A d \in idx'.defs \ idx.defs :
           /\ d = <<cur, Job.path>> /\ cur \in PhpFile /\ Job.phase = "views"
           /\ ~isIgnored(matchers, cur)
      /\ \A u \in idx'.uses \ idx.uses :
           /\ u = <<cur, tree[cur]>> /\ cur \in PhpFile /\ Job.phase = "extract"
           /\ tree[cur] \in Parses /\ ~isIgnored(matchers, cur)
      /\ cur \in PhpFile /\ ~isIgnored(matchers, cur) /\ Exists(cur) =>
           Has(tree, idx', Job, cur)
      /\ GlobsOfUses(idx')
  BY <1>1, IndexedGrows
<1>5. ASSUME Valid(tree, mtime, manifest), ~isIgnored(matchers, cur)
      PROVE  Passed(mtime, manifest, Job.path, cur)
  BY <1>1, <1>2, <1>5, PassedHere DEF RunInv, Passing
<1>6. Sound(tree, mtime, manifest, idx', mods)
  <2> SUFFICES ASSUME Valid(tree, mtime, manifest)
               PROVE  /\ \A d \in idx'.defs : /\ [phase |-> "views", path |-> d[2]] \in Range(Jobs(mods))
                                              /\ Passed(mtime, manifest, d[2], d[1])
                      /\ \A u \in idx'.uses :
                           /\ u[1] \in PhpFile /\ tree[u[1]] = u[2] /\ u[2] \in Parses
                           /\ \E j \in Range(Jobs(mods)) :
                                j.phase = "extract" /\ Passed(mtime, manifest, j.path, u[1])
    BY DEF Sound
  <2>1. Sound(tree, mtime, manifest, idx, mods)
    BY <1>1 DEF RunInv
  <2>2. ASSUME NEW d \in idx'.defs
        PROVE  /\ [phase |-> "views", path |-> d[2]] \in Range(Jobs(mods))
               /\ Passed(mtime, manifest, d[2], d[1])
    BY <1>3, <1>4, <1>5, <2>1 DEF Sound
  <2>3. ASSUME NEW u \in idx'.uses
        PROVE  /\ u[1] \in PhpFile /\ tree[u[1]] = u[2] /\ u[2] \in Parses
               /\ \E j \in Range(Jobs(mods)) :
                    j.phase = "extract" /\ Passed(mtime, manifest, j.path, u[1])
    BY <1>3, <1>4, <1>5, <2>1 DEF Sound
  <2> QED BY <2>2, <2>3
<1>7. \A j \in Range(Jobs(mods)) \ Range(jobs) : Complete(tree, mtime, manifest, idx', j, {})
  BY <1>1, <1>4, MoreIsComplete DEF RunInv
<1>8. Complete(tree, mtime, manifest, idx', Job, todo)
  <2> SUFFICES ASSUME Valid(tree, mtime, manifest), NEW p \in Node, On(tree, Job.path, p)
               PROVE  \/ Ancestors(Job.path, p) \cap todo # {}
                      \/ <<p, mtime[p]>> \in manifest /\ Has(tree, idx', Job, p)
    BY DEF Complete
  <2>1. Complete(tree, mtime, manifest, idx', Job, Open)
    BY <1>1, <1>4, MoreIsComplete DEF RunInv
  <2>2. CASE cur \notin Ancestors(Job.path, p)
    BY <1>2, <2>1, <2>2 DEF Complete
  <2>3. CASE cur \in Ancestors(Job.path, p)
    <3>1. p = cur
      BY <1>1, <1>2, <2>3, OnTheWay DEF On
    <3>2. <<cur, mtime[cur]>> \in manifest
      BY <1>1 DEF RunInv
    <3>3. ~isIgnored(matchers, cur) /\ Exists(cur)
      BY <1>2, <2>3 DEF On, Exists
    <3> QED BY <1>4, <3>1, <3>2, <3>3 DEF Has
  <2> QED BY <2>2, <2>3
<1> QED BY <1>1, <1>2, <1>4, <1>6, <1>7, <1>8 DEF RunInv, Passing, Exists

LEMMA EndRootRun ==
  ASSUME RootsFixed, WalkTypeInv, RunInv, EndRoot
  PROVE  RunInv'
<1> USE DEF Scanning, diskVars, cacheVars
<1>1. /\ pc = "visit" /\ pc' = "root" /\ todo = {} /\ jobs' = Tail(jobs) /\ jobs # <<>>
      /\ UNCHANGED <<tree, mtime, manifest, idx, mods>> /\ Open = {}
  BY DEF EndRoot, KeptManifest, WalkTypeInv, Open
<1>2. Range(jobs) = {Job} \cup Range(Tail(jobs))
  BY <1>1, CurrentJob DEF RunInv
<1>3. \A j \in Range(Jobs(mods)) \ Range(Tail(jobs)) :
        Complete(tree, mtime, manifest, idx, j, {})
  BY <1>1, <1>2 DEF RunInv
<1> QED BY <1>1, <1>2, <1>3 DEF RunInv

LEMMA BeginScanRun ==
  ASSUME NEW ms, BeginScan(ms)
  PROVE  RunInv'
<1>1. /\ pc' = "root" /\ mods' = ms /\ jobs' = Jobs(ms) /\ manifest' = {}
      /\ idx' = EmptyIndex
  BY DEF BeginScan
<1>2. idx'.defs = {} /\ idx'.uses = {} /\ idx'.globs = {}
  BY <1>1 DEF EmptyIndex
<1>3. Sound(tree', mtime', manifest', idx', mods') /\ GlobsOfUses(idx')
  BY <1>2 DEF Sound, GlobsOfUses
<1> QED BY <1>1, <1>3 DEF RunInv, Scanning

LEMMA OutsideRun ==
  ASSUME RootsFixed, WalkTypeInv, CacheInv, MatchInv, MatchInv', RunInv, Outside
  PROVE  RunInv'
<1> USE DEF Scanning
<1>1. /\ DiskChange /\ UNCHANGED walkVars /\ WalkTypeOK
      /\ UNCHANGED <<pc, mods, jobs, todo, cur, manifest, idx>> /\ Job' = Job /\ Open' = Open
      /\ manifest \in SUBSET Entry /\ idx \in Index /\ mods \in ModuleLists
  BY DEF Outside, walkVars, Job, Open, WalkTypeInv, WalkTypeOK
<1>2. ASSUME pc \in {"root", "visit", "entry", "list"}
      PROVE  /\ Sound(tree', mtime', manifest, idx, mods)
             /\ \A j \in Range(Jobs(mods)) \ Range(jobs) :
                  Complete(tree', mtime', manifest, idx, j, {})
  <2>1. Older(manifest)
    BY <1>2 DEF CacheInv
  <2>2. Sound(tree', mtime', manifest, idx, mods)
    BY <1>1, <1>2, <2>1, DiskKeepsSound DEF RunInv
  <2>3. ASSUME NEW j \in Range(Jobs(mods)) \ Range(jobs)
        PROVE  Complete(tree', mtime', manifest, idx, j, {})
    <3>1. j.path \in Dir \ Editable
      BY <1>1, JobOf DEF RootsFixed
    <3>2. Complete(tree, mtime, manifest, idx, j, {})
      BY <1>2 DEF RunInv
    <3> QED BY <1>1, <2>1, <3>1, <3>2, DiskKeepsComplete
  <2> QED BY <2>2, <2>3
<1>3. ASSUME Scanning
      PROVE  /\ Complete(tree', mtime', manifest, idx, Job, Open)
             /\ Valid(tree', mtime', manifest) =>
                  /\ \A p \in todo : Exists(p)' /\ Passing(p)'
                  /\ pc = "entry" => <<cur, mtime'[cur]>> \in manifest /\ Passing(cur)'
                  /\ pc = "list" => Passed(mtime', manifest, Job.path, cur)
  <2>1. Older(manifest) /\ jobs # <<>> /\ Open \subseteq Node
        /\ (pc \in {"entry", "list"} => cur \in Open)
    BY <1>3 DEF CacheInv, WalkTypeInv, WalkTypeOK, Open
  <2>2. Job.path \in Dir \ Editable
    BY <1>3, <2>1, CurrentJob DEF RunInv
  <2>3. Complete(tree', mtime', manifest, idx, Job, Open)
    BY <1>1, <1>3, <2>1, <2>2, DiskKeepsComplete DEF RunInv
  <2>4. ASSUME Valid(tree', mtime', manifest), NEW p \in Open, Passing(p)
        PROVE  Passing(p)' /\ (Exists(p) => Exists(p)')
    <3>1. p \in Node /\ Under(Job.path, p)
      BY <1>3, <2>1 DEF MatchInv
    <3>2. CASE p = Job.path
      BY <1>1, <1>3, <3>2 DEF Passing, MatchInv
    <3>3. CASE p # Job.path /\ Passed(mtime, manifest, Job.path, Parent(p))
      <4>1. p # <<>> /\ Parent(p) \in Node
        BY <2>2, <3>1, <3>3, WayOfParent, ParentIsPrefix
      <4>2. Passed(mtime', manifest, Job.path, Parent(p))
        BY <1>1, <2>1, <2>2, <2>4, <3>3, <4>1, DiskKeepsPassed
      <4>3. <<Parent(p), mtime[Parent(p)]>> \in manifest
        BY <2>2, <3>3, <4>1, OnTheWay DEF Passed
      <4>4. tree[p] = Absent <=> tree'[p] = Absent
        BY <1>1, <2>1, <2>4, <3>1, <4>1, <4>3, DiskKeepsValid
      <4> QED BY <1>1, <4>2, <4>4 DEF Passing, Exists
    <3> QED BY <2>4, <3>2, <3>3 DEF Passing
  <2>5. ASSUME Valid(tree', mtime', manifest)
        PROVE  /\ \A p \in todo : Exists(p)' /\ Passing(p)'
               /\ pc = "entry" => <<cur, mtime'[cur]>> \in manifest /\ Passing(cur)'
               /\ pc = "list" => Passed(mtime', manifest, Job.path, cur)
    <3>1. Valid(tree, mtime, manifest)
      BY <1>1, <2>1, <2>5, DiskKeepsValid
    <3>2. \A p \in todo : Exists(p)' /\ Passing(p)'
      BY <1>3, <2>4, <2>5, <3>1 DEF RunInv, Open
    <3>3. ASSUME pc = "entry" PROVE <<cur, mtime'[cur]>> \in manifest /\ Passing(cur)'
      <4>1. <<cur, mtime[cur]>> \in manifest /\ Passing(cur) /\ cur \in Open /\ cur \in Node
        BY <1>3, <2>1, <3>1, <3>3 DEF RunInv
      <4>2. mtime'[cur] = mtime[cur]
        BY <1>1, <2>1, <2>5, <4>1, DiskKeepsValid
      <4>3. PICK p \in Open : p = cur
        BY <4>1
      <4>4. Passing(p)'
        BY <2>4, <2>5, <4>1, <4>3
      <4> QED BY <1>1, <4>1, <4>2, <4>3, <4>4 DEF Passing
    <3>4. ASSUME pc = "list" PROVE Passed(mtime', manifest, Job.path, cur)
      <4>1. Passed(mtime, manifest, Job.path, cur) /\ cur \in Node
        BY <1>3, <2>1, <3>1, <3>4 DEF RunInv
      <4> QED BY <1>1, <2>1, <2>2, <2>5, <4>1, DiskKeepsPassed
    <3> QED BY <3>2, <3>3, <3>4
  <2> QED BY <2>3, <2>5
<1> QED BY <1>1, <1>2, <1>3 DEF RunInv

LEMMA StepRun ==
  ASSUME IgnoresFixed, RootsFixed, WalkTypeInv, CacheInv, DiskInv, MatchInv, RunInv,
         [WalkNext]_indexerVars
  PROVE  RunInv'
<1> USE DEF Scanning, diskVars, cacheVars, walkVars
<1>1. CASE Outside
  BY <1>1, StepMatch, OutsideRun
<1>2. ASSUME NEW ms \in ModuleLists, StartWalk(ms) PROVE RunInv'
  <2>1. CASE pc' = "check"
    BY <2>1 DEF RunInv
  <2> QED BY <1>2, <2>1, BeginScanRun DEF StartWalk
<1>3. CASE CheckEntry
  <2>1. CASE pc' = "check"
    BY <2>1 DEF RunInv
  <2> QED BY <1>3, <2>1, BeginScanRun DEF CheckEntry
<1>4. CASE pc' \in {"done", "idle"}
  BY <1>4 DEF RunInv
<1>5. CASE UNCHANGED walkVars /\ UNCHANGED diskVars
  BY <1>5 DEF RunInv, Open, Passing, Job, Exists
<1> QED
  BY <1>1, <1>2, <1>3, <1>4, <1>5, StartRootRun, appendStatRun, VisitDirRun, ListDirRun,
     VisitFileRun, EndRootRun
     DEF WalkNext, WalkStep, CacheHit, EndWalk, Return, saveCache, indexerVars
-----------------------------------------------------------------------------
(* What is saved. *)

LEMMA StepSaved ==
  ASSUME IgnoresFixed, RootsFixed, WalkTypeInv, CacheInv, RunInv, SavedInv,
         [WalkNext]_indexerVars
  PROVE  SavedInv'
<1> USE DEF diskVars, cacheVars, walkVars
<1>1. CASE Outside
  <2> SUFFICES ASSUME NEW c \in Saved'
               PROVE  GlobsOfUses(c.idx) /\ SnapshotOK(tree', mtime', c.manifest, c.idx, c.mods)
    BY DEF SavedInv
  <2>1. /\ c \in Saved /\ DiskChange /\ WalkTypeOK
        /\ c.manifest \in SUBSET Entry /\ c.idx \in Index /\ c.mods \in ModuleLists
    BY <1>1 DEF Outside, Saved, WalkTypeInv, WalkTypeOK, Snapshot
  <2>2. /\ Older(c.manifest) /\ GlobsOfUses(c.idx)
        /\ SnapshotOK(tree, mtime, c.manifest, c.idx, c.mods)
    BY <2>1 DEF CacheInv, SavedInv
  <2>3. Sound(tree', mtime', c.manifest, c.idx, c.mods)
    BY <2>1, <2>2, DiskKeepsSound DEF SnapshotOK
  <2>4. ASSUME NEW j \in Range(Jobs(c.mods))
        PROVE  Complete(tree', mtime', c.manifest, c.idx, j, {})
    <3>1. j.path \in Dir \ Editable
      BY <2>1, JobOf DEF RootsFixed
    <3> QED BY <2>1, <2>2, <3>1, DiskKeepsComplete DEF SnapshotOK
  <2> QED BY <2>2, <2>3, <2>4 DEF SnapshotOK
<1>2. CASE EndWalk
  <2>1. ASSUME NEW c \in Saved'
        PROVE  c \in Saved \/ c = [mods |-> mods, manifest |-> manifest, idx |-> idx]
    BY <1>2 DEF EndWalk, Saved
  <2>2. Range(jobs) = {} /\ UNCHANGED <<tree, mtime>> /\ pc = "root"
    BY <1>2 DEF EndWalk, Range
  <2>3. GlobsOfUses(idx) /\ SnapshotOK(tree, mtime, manifest, idx, mods)
    BY <2>2 DEF RunInv, SnapshotOK
  <2> QED BY <2>1, <2>2, <2>3 DEF SavedInv
<1>3. CASE Saved' \subseteq Saved /\ UNCHANGED diskVars
  BY <1>3 DEF SavedInv
<1>4. CASE saveCache
  <2>1. Saved' \subseteq Saved
    BY <1>4 DEF saveCache, Saved
  <2> QED BY <1>3, <1>4, <2>1 DEF saveCache
<1>5. CASE UNCHANGED cacheVars /\ UNCHANGED diskVars
  BY <1>3, <1>5 DEF Saved
<1> QED
  BY <1>1, <1>2, <1>4, <1>5
     DEF WalkNext, WalkStep, StartWalk, BeginScan, CheckEntry, CacheHit, StartRoot,
         appendStat, VisitDir, ListDir, VisitFile, EndRoot, Return, indexerVars

LEMMA SavedIsSound ==
  ASSUME IgnoresFixed, DiskInv, WalkTypeInv, SavedInv
  PROVE  CacheSound
<1> SUFFICES ASSUME NEW c \in Saved, CacheValid(c) PROVE c.idx = FreshIndex(c.mods)
  BY DEF CacheSound
<1>1. c.idx \in Index /\ c.mods \in ModuleLists
  BY DEF Saved, WalkTypeInv, WalkTypeOK, Snapshot
<1>2. Valid(tree, mtime, c.manifest)
  BY DEF CacheValid, Valid, Exists
<1> QED BY <1>1, <1>2, SnapshotExact DEF SavedInv

-----------------------------------------------------------------------------
(* A walk during which the clock does not tick. *)

LEMMA FreshUnchanged ==
  ASSUME UNCHANGED diskVars, NEW ms
  PROVE  FreshIndex(ms)' = FreshIndex(ms)
BY DEF diskVars, FreshIndex, Reached, Ignorers, tryLoadIgnoreFile, Exists

LEMMA StepQuiet ==
  ASSUME IgnoresFixed, RootsFixed, WalkTypeInv, DiskInv, RunInv, SavedInv, QuietInv,
         [WalkNext]_indexerVars
  PROVE  QuietInv'
<1> USE DEF Scanning, diskVars, cacheVars, walkVars
<1>0. now \in Nat /\ began \in Nat /\ began <= now
  BY TreeAssumption DEF WalkTypeInv, WalkTypeOK, QuietInv
<1>1. CASE Outside
  <2>1. PICK p \in Editable, t \in Anything : DiskEffect(p, t)
    BY <1>1, DiskStep DEF Outside, WalkTypeInv
  <2>2. now' = now + 1 /\ began' = began
    BY <1>1, <2>1 DEF DiskEffect, Outside
  <2> QED BY <1>0, <2>2 DEF QuietInv
<1>2. ASSUME NEW ms, BeginScan(ms), began' <= now PROVE QuietInv'
  <2>1. pc' = "root" /\ manifest' = {} /\ now' = now
    BY <1>2 DEF BeginScan
  <2>2. Valid(tree', mtime', manifest')
    BY <2>1 DEF Valid
  <2> QED BY <1>2, <2>1, <2>2 DEF QuietInv
<1>3. ASSUME NEW ms \in ModuleLists, StartWalk(ms) PROVE QuietInv'
  <2>1. began' = now
    BY <1>3 DEF StartWalk
  <2>2. CASE BeginScan(ms)
    BY <1>0, <1>2, <2>1, <2>2
  <2>3. CASE /\ Loadable(ms) /\ pc' = "check" /\ mods' = ms
             /\ manifest' = cache.manifest /\ idx' = cache.idx /\ UNCHANGED diskVars
    <3>1. cache \in Saved /\ cache.mods = ms
      BY <2>3 DEF Loadable, Saved
    <3>2. Valid(tree, mtime, cache.manifest) => cache.idx = FreshIndex(ms)
      BY <3>1, SavedIsSound DEF CacheSound, CacheValid, Valid, Exists
    <3>3. FreshIndex(ms)' = FreshIndex(ms)
      BY <2>3, FreshUnchanged
    <3>4. FreshIndex(mods)' = FreshIndex(ms)'
      BY <2>3 DEF FreshIndex
    <3> QED BY <1>0, <2>1, <2>3, <3>2, <3>3, <3>4 DEF QuietInv
  <2> QED BY <1>3, <2>2, <2>3 DEF StartWalk
<1>4. ASSUME UNCHANGED mods, UNCHANGED diskVars
      PROVE  FreshIndex(mods)' = FreshIndex(mods)
  BY <1>4 DEF diskVars, FreshIndex, Reached, Ignorers, tryLoadIgnoreFile, Exists
<1>5. CASE CheckEntry
  <2>1. CASE BeginScan(mods)
    BY <1>0, <1>2, <1>5, <2>1 DEF CheckEntry
  <2>2. ASSUME NEW e \in manifest, Exists(e[1]), mtime[e[1]] = e[2],
               manifest' = manifest \ {e},
               UNCHANGED <<pc, mods, idx, began>>, UNCHANGED diskVars
        PROVE  QuietInv'
    <3>1. Valid(tree, mtime, manifest') => Valid(tree, mtime, manifest)
      BY <2>2 DEF Valid, Exists
    <3> QED BY <1>4, <1>5, <2>2, <3>1 DEF QuietInv, CheckEntry
  <2> QED BY <1>5, <2>1, <2>2 DEF CheckEntry
<1>6. CASE CacheHit
  <2>1. Valid(tree, mtime, manifest)
    BY <1>6 DEF CacheHit, Valid
  <2> QED BY <1>4, <1>6, <2>1 DEF CacheHit, QuietInv
<1>7. CASE StartRoot \/ VisitDir \/ ListDir \/ VisitFile \/ EndRoot
  <2>1. /\ pc \in {"root", "visit", "entry", "list"} /\ pc' \in {"root", "visit", "list"}
        /\ UNCHANGED <<tree, mtime, now, began, manifest>>
    BY <1>7 DEF StartRoot, VisitDir, ListDir, VisitFile, EndRoot, KeptManifest
  <2> QED BY <2>1 DEF QuietInv
<1>8. CASE appendStat
  <2>1. PICK p \in todo : manifest' = manifest \cup StatEntry(p)
    BY <1>8 DEF appendStat
  <2>2. /\ pc \in {"visit", "entry"} /\ pc' \in {"visit", "entry"}
        /\ UNCHANGED <<tree, mtime, now, began>>
    BY <1>8 DEF appendStat
  <2>3. Valid(tree, mtime, manifest) => Valid(tree, mtime, manifest')
    BY <2>1 DEF Valid, StatEntry, Exists
  <2> QED BY <2>2, <2>3 DEF QuietInv
<1>9. CASE EndWalk
  <2>1. /\ pc = "root" /\ pc' = "done" /\ Range(jobs) = {}
        /\ UNCHANGED <<mods, idx, manifest, began>> /\ UNCHANGED diskVars
    BY <1>9 DEF EndWalk, Range
  <2>2. /\ mods \in ModuleLists /\ idx \in Index /\ GlobsOfUses(idx)
        /\ SnapshotOK(tree, mtime, manifest, idx, mods)
    BY <2>1 DEF WalkTypeInv, WalkTypeOK, RunInv, SnapshotOK
  <2>3. Valid(tree, mtime, manifest) => idx = FreshIndex(mods)
    BY <2>2, SnapshotExact
  <2> QED BY <1>4, <2>1, <2>3 DEF QuietInv
<1>10. CASE saveCache \/ UNCHANGED indexerVars
  <2>1. UNCHANGED walkVars /\ UNCHANGED diskVars
    BY <1>10 DEF saveCache, indexerVars
  <2> QED BY <1>4, <2>1 DEF QuietInv
<1>11. CASE Return
  <2>1. pc' = "idle" /\ began' = 0 /\ now' = now
    BY <1>11 DEF Return
  <2> QED BY <1>0, <2>1 DEF QuietInv
<1> QED
  BY <1>1, <1>3, <1>5, <1>6, <1>7, <1>8, <1>9, <1>10, <1>11 DEF WalkNext, WalkStep
-----------------------------------------------------------------------------
(* The theorems. *)

LEMMA InitExact == WalkInit => ExactInv
<1> SUFFICES ASSUME WalkInit PROVE ExactInv
  OBVIOUS
<1>1. /\ tree = Tree0 /\ pc = "idle" /\ began = 0 /\ now = 0
      /\ saving = {} /\ cache = None
  BY DEF WalkInit, WalkIdle
<1> QED
  BY <1>1 DEF ExactInv, DiskInv, MatchInv, RunInv, SavedInv, QuietInv, Scanning, Saved

LEMMA StepDisk ==
  ASSUME WalkTypeInv, DiskInv, [WalkNext]_indexerVars
  PROVE  DiskInv'
<1>1. CASE Outside
  BY <1>1, DiskKeepsRoot DEF Outside, DiskInv, WalkTypeInv
<1>2. CASE tree' = tree
  BY <1>2 DEF DiskInv
<1> QED
  BY <1>1, <1>2
     DEF WalkNext, WalkStep, StartWalk, BeginScan, CheckEntry, CacheHit, StartRoot, appendStat,
         VisitDir, ListDir, VisitFile, EndRoot, EndWalk, saveCache, Return, diskVars, indexerVars

LEMMA StepExact ==
  ASSUME IgnoresFixed, RootsFixed, WalkTypeInv, CacheInv, ExactInv, [WalkNext]_indexerVars
  PROVE  ExactInv'
BY StepDisk, StepMatch, StepRun, StepSaved, StepQuiet DEF ExactInv

LEMMA WalkInductive ==
  ASSUME IgnoresFixed, RootsFixed
  PROVE  WalkSpec => [](WalkTypeInv /\ CacheInv /\ ExactInv)
<1> DEFINE IInv == WalkTypeInv /\ CacheInv /\ ExactInv
<1>1. WalkInit => IInv
  BY InitTyped, InitInv, InitExact
<1>2. IInv /\ [WalkNext]_indexerVars => IInv'
  BY StepTyped, StepInv, StepExact
<1> HIDE DEF IInv
<1>3. WalkSpec => []IInv
  BY <1>1, <1>2, PTL DEF WalkSpec
<1> QED BY <1>3 DEF IInv

(* A cache that validates is exactly the index a walk of the file system   *)
(* would build at that moment (tryLoadCache of cache.go against Walk of    *)
(* walk.go), however walks, savers and changes interleave, provided that   *)
(* no .gitignore changes and no root comes or goes.                        *)
THEOREM CacheIsExact ==
  ASSUME IgnoresFixed, RootsFixed
  PROVE  WalkSpec => []CacheSound
<1>1. WalkTypeInv /\ CacheInv /\ ExactInv => CacheSound
  BY SavedIsSound DEF ExactInv
<1> QED BY <1>1, WalkInductive, PTL

(* A walk during which nothing changes returns exactly the index of the    *)
(* project, whether it scanned or took a cache written at any earlier time.*)
THEOREM QuietWalkIsExact ==
  ASSUME IgnoresFixed, RootsFixed
  PROVE  WalkSpec => []QuietWalkExact
<1>1. WalkTypeInv /\ CacheInv /\ ExactInv => QuietWalkExact
  BY DEF ExactInv, QuietInv, QuietWalkExact
<1> QED BY <1>1, WalkInductive, PTL

-----------------------------------------------------------------------------
(* The server drives the indexer. *)

(* The module list handed to Walk is one that bootstrap.php can declare. *)
ParsedTyped == parsed \in ModuleLists

LEMMA InitParsed == Init => ParsedTyped
BY JobsAssumption DEF Init, ServerIdle, ParsedTyped

LEMMA StepParsed == ParsedTyped /\ [Next]_vars => ParsedTyped'
<1> SUFFICES ASSUME ParsedTyped, [Next]_vars PROVE ParsedTyped'
  OBVIOUS
<1> USE DEF ParsedTyped
<1>1. CASE ParseModules
  BY <1>1, ServerAssumption, JobsAssumption DEF ParseModules
<1>2. CASE Publish \/ Restart
  BY <1>2, JobsAssumption DEF Publish, Restart
<1>3. CASE UNCHANGED parsed
  BY <1>3
<1>4. CASE Goroutine
  BY <1>4, <1>1, <1>2, <1>3
     DEF Goroutine, Initialized, CallWalk, Indexing, serverVars, startWatcher,
         WatchRoot, AddWatch, EnterLoop, ReindexFile, Swap
<1> QED
  BY <1>2, <1>3, <1>4
     DEF Next, OutsideChange, Saving, serverVars, HandleEvent, TimerFires,
         reindexFiles, Rest, vars

(* Whatever the server does is a step of Walk's specification, none at all,*)
(* or the end of the process.                                              *)
LEMMA IndexerStep ==
  ASSUME ParsedTyped, [Next]_vars
  PROVE  [WalkNext]_indexerVars \/ Restart
<1>1. CASE OutsideChange
  <2>1. DiskChange /\ UNCHANGED walkVars /\ UNCHANGED cacheVars
    BY <1>1 DEF OutsideChange, DiskChange
  <2> QED BY <2>1 DEF WalkNext, Outside
<1>2. CASE CallWalk
  BY <1>2 DEF CallWalk, ParsedTyped, WalkNext
<1>3. CASE Indexing \/ Saving \/ Publish
  BY <1>3 DEF Indexing, Saving, Publish, WalkNext
<1>4. CASE UNCHANGED indexerVars
  BY <1>4
<1>5. CASE Goroutine
  BY <1>5, <1>2, <1>3, <1>4
     DEF Goroutine, Initialized, ParseModules, startWatcher, WatchRoot, AddWatch,
         EnterLoop, ReindexFile, Swap
<1>6. CASE UNCHANGED vars
  BY <1>6 DEF vars, indexerVars
<1> QED
  BY <1>1, <1>3, <1>4, <1>5, <1>6
     DEF Next, HandleEvent, TimerFires, reindexFiles, Rest

(* A crash leaves the file system and the cache file, and no saver. *)
LEMMA CrashKeepsTypes ==
  ASSUME WalkTypeInv, Restart
  PROVE  WalkTypeInv'
BY JobsAssumption, TreeAssumption, EmptyIndexTyped
   DEF WalkTypeInv, WalkTypeOK, Scanning, Restart, diskVars

LEMMA CrashKeepsCache ==
  ASSUME CacheInv, Restart
  PROVE  CacheInv'
<1>1. /\ UNCHANGED <<tree, mtime, now, cache>> /\ saving' = {} /\ pc' = "idle"
      /\ mods' = <<>> /\ jobs' = <<>> /\ todo' = {} /\ cur' = None
      /\ manifest' = {} /\ idx' = EmptyIndex /\ began' = 0
  BY DEF Restart, diskVars
<1>2. Saved' \subseteq Saved
  BY <1>1 DEF Saved
<1> QED
  BY <1>1, <1>2 DEF CacheInv, Scanning, Older, UsesCurrent, Clean, Exists, Current

(* For every project, every sequence of changes, walks, reindexes and      *)
(* crashes: every usage and global in a cache that validates was extracted *)
(* from what its file holds now, whichever run of the server saved it.     *)
THEOREM ServerCacheIsCurrent == Spec => []CacheUsesCurrent
<1> DEFINE Inv == ParsedTyped /\ WalkTypeInv /\ CacheInv
<1>1. Init => Inv
  BY InitParsed, InitTyped, InitInv DEF Init
<1>2. Inv /\ [Next]_vars => Inv'
  <2> SUFFICES ASSUME Inv, [Next]_vars PROVE Inv'
    OBVIOUS
  <2>1. CASE [WalkNext]_indexerVars
    BY <2>1, StepParsed, StepTyped, StepInv
  <2>2. CASE Restart
    BY <2>2, StepParsed, CrashKeepsTypes, CrashKeepsCache
  <2> QED BY <2>1, <2>2, IndexerStep
<1>3. Inv => CacheUsesCurrent
  BY DEF CacheInv, CacheUsesCurrent, CacheValid, UsesCurrent, Clean
<1> QED BY <1>1, <1>2, <1>3, PTL DEF Spec
-----------------------------------------------------------------------------
(* Index and modules. *)

ViewPaths(ms) == {r.path : r \in Range(BuildViewRoots(ms))}

DefsUnder(index, ms) == \A d \in index.defs : d[2] \in ViewPaths(ms)

(* The first phase of a walk visits view roots of its modules only. *)
JobsUnder(js, ms) == \A i \in DOMAIN js : js[i].phase = "views" => js[i].path \in ViewPaths(ms)

LEMMA JobsOfModules ==
  ASSUME NEW ms \in ModuleLists
  PROVE  JobsUnder(Jobs(ms), ms)
<1> DEFINE views == BuildViewRoots(ms)
           dirs == PHPScanDirs(ms)
           first == [i \in 1..Len(views) |-> [phase |-> "views", path |-> views[i].path]]
           second == [i \in 1..Len(dirs) |-> [phase |-> "extract", path |-> dirs[i]]]
<1>1. ms \in Seq([name : STRING, path : Dir])
  BY JobsAssumption
<1>2. /\ Len(views) \in Nat /\ DOMAIN views = 1..Len(views)
      /\ Len(dirs) \in Nat
  BY <1>1 DEF BuildViewRoots, PHPScanDirs
<1> HIDE DEF views, dirs
<1>3. /\ first \in Seq([phase : {"views"}, path : {views[i].path : i \in 1..Len(views)}])
      /\ second \in Seq([phase : {"extract"}, path : {dirs[i] : i \in 1..Len(dirs)}])
  BY <1>2
<1>4. ASSUME NEW i \in DOMAIN (first \o second), (first \o second)[i].phase = "views"
      PROVE  \E k \in 1..Len(views) : (first \o second)[i].path = views[k].path
  <2>1. /\ Len(first) = Len(views) /\ Len(second) = Len(dirs)
        /\ i \in 1..(Len(first) + Len(second))
        /\ (first \o second)[i] = IF i <= Len(first) THEN first[i] ELSE second[i - Len(first)]
    BY <1>2, <1>3
  <2>2. CASE i <= Len(first)
    BY <1>2, <2>1, <2>2
  <2>3. CASE i > Len(first)
    <3>1. i - Len(first) \in 1..Len(dirs)
      BY <1>2, <2>1, <2>3
    <3> QED BY <1>2, <1>4, <2>1, <2>3, <3>1
  <2> QED BY <1>2, <2>1, <2>2, <2>3
<1>5. Jobs(ms) = first \o second
  BY DEF Jobs, views, dirs
<1>6. ASSUME NEW k \in 1..Len(views) PROVE views[k].path \in ViewPaths(ms)
  BY <1>2 DEF ViewPaths, Range, views
<1> QED BY <1>4, <1>5, <1>6 DEF JobsUnder

(* What Walk returns for a module list, or has saved for it, has every     *)
(* definition under a view root of that list.                              *)
DefsInv ==
  /\ DefsUnder(idx, mods)
  /\ pc = "root" \/ Scanning => JobsUnder(jobs, mods)
  /\ \A c \in Saved : DefsUnder(c.idx, c.mods)
LEMMA InitDefs == WalkInit => DefsInv
BY DEF WalkInit, WalkIdle, DefsInv, DefsUnder, EmptyIndex, Scanning, Saved

LEMMA ScanStartsEmpty ==
  ASSUME DefsInv, NEW ms \in ModuleLists, BeginScan(ms)
  PROVE  DefsInv'
<1>1. DefsUnder(idx', ms) /\ mods' = ms
  BY DEF BeginScan, DefsUnder, EmptyIndex
<1>2. JobsUnder(jobs', ms)
  BY JobsOfModules DEF BeginScan
<1>3. Saved' = Saved
  BY DEF BeginScan, Saved
<1> QED BY <1>1, <1>2, <1>3 DEF DefsInv

(* The root that is done leaves the list. *)
LEMMA TailUnder ==
  ASSUME jobs \in Seq(WalkJob), jobs # <<>>, JobsUnder(jobs, mods)
  PROVE  JobsUnder(Tail(jobs), mods)
<1>1. ASSUME NEW i \in DOMAIN Tail(jobs)
      PROVE  i + 1 \in DOMAIN jobs /\ Tail(jobs)[i] = jobs[i + 1]
  OBVIOUS
<1> QED BY <1>1 DEF JobsUnder

LEMMA StepDefs ==
  ASSUME WalkTypeInv, DefsInv, [WalkNext]_indexerVars
  PROVE  DefsInv'
<1> USE DEF cacheVars, walkVars, diskVars
<1>0. jobs \in Seq(WalkJob) /\ mods \in ModuleLists
  BY DEF WalkTypeInv, WalkTypeOK
<1>1. ASSUME NEW ms \in ModuleLists, StartWalk(ms) PROVE DefsInv'
  <2>1. CASE Loadable(ms) /\ pc' = "check" /\ mods' = ms /\ idx' = cache.idx
             /\ UNCHANGED cacheVars
    <3>1. cache \in Saved /\ cache.mods = ms
      BY <2>1 DEF Loadable, Saved
    <3> QED BY <2>1, <3>1 DEF DefsInv, Scanning, Saved
  <2>2. CASE BeginScan(ms)
    BY <2>2, ScanStartsEmpty
  <2> QED BY <1>1, <2>1, <2>2 DEF StartWalk
<1>2. CASE CheckEntry
  <2>1. CASE BeginScan(mods)
    BY <1>0, <2>1, ScanStartsEmpty
  <2>2. CASE UNCHANGED <<pc, mods, jobs, idx, saving, cache>>
    BY <2>2 DEF DefsInv, Scanning, Saved
  <2> QED BY <1>2, <2>1, <2>2 DEF CheckEntry
<1>3. CASE StartRoot
  <2>1. JobsUnder(jobs', mods)
    BY <1>0, <1>3, TailUnder DEF StartRoot, DefsInv
  <2> QED BY <1>3, <2>1 DEF StartRoot, DefsInv, Saved
<1>4. CASE appendStat \/ VisitDir \/ ListDir
  <2>1. Scanning /\ UNCHANGED <<mods, jobs, idx, saving, cache>>
    BY <1>4 DEF appendStat, VisitDir, ListDir, Scanning
  <2> QED BY <2>1 DEF DefsInv, Saved
<1>5. CASE VisitFile
  <2>1. jobs # <<>> /\ JobsUnder(jobs, mods)
    BY <1>5 DEF VisitFile, WalkTypeInv, DefsInv, Scanning
  <2>2. Job.phase = "views" => Job.path \in ViewPaths(mods)
    BY <1>0, <2>1 DEF Job, JobsUnder
  <2>3. DefsUnder(Indexed(cur), mods)
    <3>1. CASE cur \in PhpFile /\ Job.phase = "views"
      <4>1. idx \in Index
        BY DEF WalkTypeInv, WalkTypeOK
      <4>2. [idx EXCEPT !.defs = @ \cup {<<cur, Job.path>>}].defs
              = idx.defs \cup {<<cur, Job.path>>}
        BY <4>1 DEF Index
      <4> QED BY <2>2, <3>1, <4>2 DEF Indexed, DefsUnder, DefsInv
    <3>2. CASE ~(cur \in PhpFile /\ Job.phase = "views")
      <4>1. Indexed(cur).defs = idx.defs
        BY <3>2 DEF Indexed, ExtractFileUsages
      <4> QED BY <4>1 DEF DefsUnder, DefsInv
    <3> QED BY <3>1, <3>2
  <2> QED BY <1>5, <2>1, <2>3 DEF VisitFile, DefsInv, Saved
<1>6. CASE EndRoot
  <2>1. jobs # <<>> /\ JobsUnder(jobs, mods)
    BY <1>6 DEF EndRoot, WalkTypeInv, DefsInv, Scanning
  <2>2. JobsUnder(jobs', mods)
    BY <1>0, <1>6, <2>1, TailUnder DEF EndRoot
  <2> QED BY <1>6, <2>2 DEF EndRoot, DefsInv, Saved
<1>7. CASE EndWalk
  <2>1. Saved' = Saved \cup {[mods |-> mods, manifest |-> manifest, idx |-> idx]}
    BY <1>7 DEF EndWalk, Saved
  <2> QED BY <1>7, <2>1 DEF EndWalk, DefsInv, Scanning
<1>8. CASE CacheHit
  BY <1>8 DEF CacheHit, DefsInv, Scanning, Saved
<1>9. CASE saveCache
  <2>1. Saved' \subseteq Saved
    BY <1>9 DEF saveCache, Saved
  <2> QED BY <1>9, <2>1 DEF saveCache, DefsInv, Scanning
<1>10. CASE Return
  BY <1>10 DEF Return, DefsInv, DefsUnder, EmptyIndex, Scanning, Saved
<1>11. CASE Outside \/ UNCHANGED indexerVars
  BY <1>11 DEF Outside, indexerVars, DefsInv, Scanning, Saved
<1> QED
  BY <1>1, <1>2, <1>3, <1>4, <1>5, <1>6, <1>7, <1>8, <1>9, <1>10, <1>11
     DEF WalkNext, WalkStep

LEMMA CrashKeepsDefs ==
  ASSUME DefsInv, Restart
  PROVE  DefsInv'
<1>1. Saved' \subseteq Saved
  BY DEF Restart, Saved
<1> QED BY <1>1 DEF Restart, DefsInv, DefsUnder, EmptyIndex, Scanning

(* While a walk runs it is one for the parsed modules; the index that an   *)
(* incremental reindex builds has the definitions of the published one.    *)
PublishInv ==
  /\ PublishedTogether
  /\ spc = "walking" => pc # "idle" /\ mods = parsed
  /\ spc = "incremental" => DefsUnder(next, modules)

LEMMA InitPublish == Init => PublishInv
BY DEF Init, ServerIdle, PublishInv, PublishedTogether

(* A walk that goes on, or is not touched, keeps its modules. *)
LEMMA WalkKeepsModules ==
  ASSUME WalkStep
  PROVE  mods' = mods /\ pc' # "idle"
BY DEF WalkStep, CheckEntry, BeginScan, CacheHit, StartRoot, appendStat, VisitDir,
       ListDir, VisitFile, EndRoot, EndWalk

LEMMA StepPublish ==
  ASSUME DefsInv, PublishInv, [Next]_vars
  PROVE  PublishInv'
<1> USE DEF PublishInv, PublishedTogether, watchVars, loopVars
<1> DEFINE Still == UNCHANGED <<spc, pc, mods, parsed, modules, viewIdx, next>>
<1>0. CASE Still
  BY <1>0 DEF DefsUnder
<1>1. CASE CallWalk
  <2>1. pc' # "idle" /\ mods' = parsed
    BY <1>1 DEF CallWalk, StartWalk, BeginScan
  <2> QED BY <1>1, <2>1 DEF CallWalk
<1>2. CASE Indexing
  <2>1. UNCHANGED <<spc, parsed, modules, viewIdx, next>> /\ WalkStep
    BY <1>2 DEF Indexing, serverVars
  <2> QED BY <1>2, <2>1, WalkKeepsModules DEF Indexing
<1>3. CASE Publish
  <2>1. DefsUnder(viewIdx', modules')
    BY <1>3 DEF Publish, DefsInv
  <2> QED BY <1>3, <2>1 DEF Publish, DefsUnder, ViewPaths
<1>4. CASE reindexFiles
  <2>1. ASSUME spc' = "incremental"
        PROVE  viewIdx # None /\ next' = viewIdx
    BY <1>4, <2>1 DEF reindexFiles, NeedsFullWalk
  <2> QED BY <1>4, <2>1 DEF reindexFiles, DefsUnder, ViewPaths
<1>5. CASE ReindexFile
  <2>1. PICK f \in batch : next' = Reindexed(f, next)
    BY <1>5 DEF ReindexFile
  <2>2. next'.defs = next.defs
    BY <2>1 DEF Reindexed, withoutFile
  <2> QED BY <1>5, <2>2 DEF ReindexFile, DefsUnder
<1>6. CASE Swap
  BY <1>6 DEF Swap, DefsUnder, ViewPaths
<1>7. CASE Restart
  BY <1>7 DEF Restart
<1>8. CASE \/ Initialized \/ ParseModules \/ startWatcher \/ WatchRoot
           \/ AddWatch \/ EnterLoop
  BY <1>8 DEF Initialized, ParseModules, startWatcher, WatchRoot, AddWatch, EnterLoop
<1>9. CASE OutsideChange \/ Saving \/ HandleEvent \/ TimerFires \/ Rest \/ UNCHANGED vars
  <2>1. Still
    BY <1>9 DEF OutsideChange, Saving, saveCache, serverVars, walkVars, HandleEvent,
                TimerFires, Rest, vars, indexerVars
  <2> QED BY <1>0, <2>1
<1> QED
  BY <1>1, <1>2, <1>3, <1>4, <1>5, <1>6, <1>7, <1>8, <1>9 DEF Next, Goroutine

(* The index that handlers read and the module list beside it always belong*)
(* together, whether the index came from a walk, from the cache of an      *)
(* earlier run or from an incremental reindex: reindex and reindexFiles    *)
(* publish no definition that lies outside the modules' view roots.        *)
THEOREM IndexMatchesModules == Spec => []PublishedTogether
<1> DEFINE Inv == ParsedTyped /\ WalkTypeInv /\ DefsInv /\ PublishInv
<1>1. Init => Inv
  BY InitParsed, InitTyped, InitDefs, InitPublish DEF Init
<1>2. Inv /\ [Next]_vars => Inv'
  <2> SUFFICES ASSUME Inv, [Next]_vars PROVE Inv'
    OBVIOUS
  <2>1. WalkTypeInv' /\ DefsInv'
    <3>1. CASE [WalkNext]_indexerVars
      BY <3>1, StepTyped, StepDefs
    <3>2. CASE Restart
      BY <3>2, CrashKeepsTypes, CrashKeepsDefs
    <3> QED BY <3>1, <3>2, IndexerStep
  <2> QED BY <2>1, StepParsed, StepPublish
<1>3. Inv => PublishedTogether
  BY DEF PublishInv
<1> QED BY <1>1, <1>2, <1>3, PTL DEF Spec

(* A path that waits in changedPaths has a timer that will hand it on:     *)
(* stopping, draining and resetting the timer never leaves it without one. *)
THEOREM NoPathIsForgotten == Spec => []ChangesAreTimed
<1>1. Init => ChangesAreTimed
  BY DEF Init, ServerIdle, ChangesAreTimed
<1>2. ChangesAreTimed /\ [Next]_vars => ChangesAreTimed'
  <2> SUFFICES ASSUME ChangesAreTimed, [Next]_vars PROVE ChangesAreTimed'
    OBVIOUS
  <2> USE DEF ChangesAreTimed
  <2>1. CASE HandleEvent
    BY <2>1 DEF HandleEvent, Reset
  <2>2. CASE TimerFires \/ reindexFiles \/ Restart
    BY <2>2 DEF TimerFires, reindexFiles, Restart
  <2>3. CASE UNCHANGED <<changed, timer>>
    BY <2>3
  <2>4. CASE Goroutine
    BY <2>4, <2>3
       DEF Goroutine, Initialized, ParseModules, CallWalk, Indexing, serverVars, Publish,
           startWatcher, WatchRoot, AddWatch, EnterLoop, ReindexFile, Swap, loopVars
  <2> QED
    BY <2>1, <2>2, <2>3, <2>4
       DEF Next, OutsideChange, Saving, serverVars, loopVars, Rest, vars
<1> QED BY <1>1, <1>2, PTL DEF Spec
-----------------------------------------------------------------------------
(* Types.  Queues are sequences, of directories and of events. *)

Event == [op : {"write", "create", "remove"}, path : Node]

ServerTyped ==
  /\ spc \in {"start", "parse", "walk", "walking", "startWatcher", "watching",
              "unwatched", "loop", "incremental"}
  /\ looping \in BOOLEAN
  /\ roots \in Seq(Dir)
  /\ listed \subseteq Dir /\ watched \subseteq Dir
  /\ events \in Seq(Event)
  /\ changed \subseteq PhpFile /\ batch \subseteq PhpFile
  /\ unseen \subseteq Node
  /\ timer \in {"off", "armed", "fired"}
  /\ restarts \in 0..MaxRestarts

LEMMA InitServerTyped == Init => ServerTyped
<1> SUFFICES ASSUME Init PROVE ServerTyped
  OBVIOUS
<1>1. restarts \in 0..MaxRestarts
  BY ServerAssumption DEF Init
<1>2. looping \in BOOLEAN
  BY Zenon DEF Init, ServerIdle
<1>3. <<>> \in Seq(Dir) /\ <<>> \in Seq(Event)
  OBVIOUS
<1> QED BY <1>1, <1>2, <1>3 DEF Init, ServerIdle, ServerTyped

LEMMA NotifyTyped ==
  ASSUME ServerTyped, NEW p \in Node, NEW op \in {"write", "create", "remove"},
         Notify(op, p)
  PROVE  events' \in Seq(Event) /\ unseen' \subseteq Node /\ watched' \subseteq Dir
<1>1. [op |-> op, path |-> p] \in Event
  BY DEF Event
<1>2. Append(events, [op |-> op, path |-> p]) \in Seq(Event)
  BY <1>1 DEF ServerTyped
<1> QED BY <1>2 DEF Notify, ServerTyped

LEMMA StepServerTyped == ServerTyped /\ [Next]_vars => ServerTyped'
<1> SUFFICES ASSUME ServerTyped, [Next]_vars PROVE ServerTyped'
  OBVIOUS
<1> USE DEF ServerTyped, watchVars, loopVars
<1>1. CASE OutsideChange
  <2>1. PICK p \in Editable :
          \/ \E t \in Thing(p) : \/ Write(p, t) /\ Notify("write", p)
                                 \/ Create(p, t) /\ Notify("create", p)
          \/ Delete(p) /\ Notify("remove", p)
    BY <1>1 DEF OutsideChange
  <2>2. events' \in Seq(Event) /\ unseen' \subseteq Node /\ watched' \subseteq Dir
    BY <2>1, NotifyTyped, EditableTyped
  <2> QED BY <1>1, <2>2 DEF OutsideChange
<1>2. CASE startWatcher
  <2>1. <<ApplicationPath, ModulesPath>> \in Seq(Dir)
    BY ServerAssumption
  <2> QED BY <1>2, <2>1 DEF startWatcher
<1>3. CASE WatchRoot
  <2>1. Head(roots) \in Dir /\ Tail(roots) \in Seq(Dir)
    BY <1>3, HeadTailProperties DEF WatchRoot
  <2> QED BY <1>3, <2>1 DEF WatchRoot
<1>4. CASE AddWatch
  <2>1. PICK d \in listed :
          IF Exists(d)
          THEN /\ watched' = watched \cup {d}
               /\ listed' = (listed \ {d}) \cup (Children(d) \cap Dir)
          ELSE listed' = {} /\ UNCHANGED watched
    BY <1>4 DEF AddWatch
  <2> QED BY <1>4, <2>1 DEF AddWatch
<1>5. CASE HandleEvent
  <2>1. Head(events) \in Event /\ Tail(events) \in Seq(Event)
    BY <1>5, HeadTailProperties DEF HandleEvent
  <2>2. watched' \subseteq Dir /\ changed' \subseteq PhpFile /\ timer' \in {"off", "armed", "fired"}
    BY <1>5, <2>1 DEF HandleEvent, Event, hasWatchExt, Reset
  <2> QED BY <1>5, <2>1, <2>2 DEF HandleEvent
<1>6. CASE reindexFiles \/ TimerFires
  BY <1>6 DEF reindexFiles, TimerFires
<1>7. CASE ReindexFile \/ Swap
  BY <1>7 DEF ReindexFile, Swap
<1>8. CASE Restart
  <2>1. restarts' \in 0..MaxRestarts
    <3>1. MaxRestarts \in Nat /\ restarts < MaxRestarts /\ restarts' = restarts + 1
      BY <1>8, ServerAssumption DEF Restart
    <3> QED BY <3>1
  <2>2. looping' \in BOOLEAN
    BY <1>8, Zenon DEF Restart
  <2>3. <<>> \in Seq(Dir) /\ <<>> \in Seq(Event)
    OBVIOUS
  <2> QED BY <1>8, <2>1, <2>2, <2>3 DEF Restart
<1>9. CASE Initialized \/ ParseModules \/ CallWalk \/ Publish \/ EnterLoop
  BY <1>9 DEF Initialized, ParseModules, CallWalk, Publish, EnterLoop
<1>10. CASE Indexing \/ Saving \/ Rest \/ UNCHANGED vars
  BY <1>10 DEF Indexing, Saving, Rest, serverVars, vars
<1> QED
  BY <1>1, <1>2, <1>3, <1>4, <1>5, <1>6, <1>7, <1>8, <1>9, <1>10 DEF Next, Goroutine

(* The state of the server and of its indexer has the types of TypeOK, for *)
(* every project and through crashes.                                      *)
THEOREM ServerTypeCorrect == Spec => []TypeOK
<1> DEFINE Inv == ParsedTyped /\ WalkTypeInv /\ ServerTyped
<1>1. Init => Inv
  BY InitParsed, InitTyped, InitServerTyped DEF Init
<1>2. Inv /\ [Next]_vars => Inv'
  <2> SUFFICES ASSUME Inv, [Next]_vars PROVE Inv'
    OBVIOUS
  <2>1. WalkTypeInv'
    BY IndexerStep, StepTyped, CrashKeepsTypes
  <2> QED BY <2>1, StepParsed, StepServerTyped
<1>3. Inv => TypeOK
  <2> SUFFICES ASSUME Inv PROVE TypeOK
    OBVIOUS
  <2>1. \A i \in DOMAIN events : events[i].path \in Node
    <3>1. events \in Seq(Event)
      BY DEF ServerTyped
    <3>2. \A i \in DOMAIN events : events[i] \in Event
      BY <3>1
    <3> QED BY <3>2 DEF Event
  <2>2. WalkTypeOK
    BY DEF WalkTypeInv
  <2> QED BY <2>1, <2>2 DEF ServerTyped, TypeOK
<1> QED BY <1>1, <1>2, <1>3, PTL DEF Spec

-----------------------------------------------------------------------------
(* The cache, exactly. *)

LEMMA CrashKeepsExact ==
  ASSUME WalkTypeInv, ExactInv, Restart
  PROVE  ExactInv'
<1>1. /\ UNCHANGED <<tree, mtime, now, cache>> /\ saving' = {} /\ pc' = "idle"
      /\ began' = 0
  BY DEF Restart, diskVars
<1>2. Saved' \subseteq Saved
  BY <1>1 DEF Saved
<1>3. 0 <= now'
  BY <1>1, TreeAssumption DEF WalkTypeInv, WalkTypeOK
<1>4. DiskInv' /\ MatchInv' /\ RunInv'
  BY <1>1 DEF ExactInv, DiskInv, MatchInv, RunInv, Scanning
<1>5. SavedInv'
  BY <1>1, <1>2 DEF ExactInv, SavedInv
<1>6. QuietInv'
  BY <1>1, <1>3 DEF QuietInv
<1> QED BY <1>4, <1>5, <1>6 DEF ExactInv

(* What the proofs about the indexer establish, under the server. *)
IndexerInv == ParsedTyped /\ WalkTypeInv /\ CacheInv /\ ExactInv

LEMMA InitIndexer == Init => IndexerInv
BY InitParsed, InitTyped, InitInv, InitExact DEF Init, IndexerInv

LEMMA StepIndexer ==
  ASSUME IgnoresFixed, RootsFixed, IndexerInv, [Next]_vars
  PROVE  IndexerInv'
<1> USE DEF IndexerInv
<1>1. CASE [WalkNext]_indexerVars
  BY <1>1, StepParsed, StepTyped, StepInv, StepExact
<1>2. CASE Restart
  BY <1>2, StepParsed, CrashKeepsTypes, CrashKeepsCache, CrashKeepsExact
<1> QED BY <1>1, <1>2, IndexerStep

(* For every project, every sequence of changes, walks, reindexes and      *)
(* crashes: a cache that validates is exactly the index a walk of the file *)
(* system would build, whichever run of the server saved it, provided that *)
(* no .gitignore changes and no root comes or goes.                        *)
THEOREM ServerCacheIsExact ==
  ASSUME IgnoresFixed, RootsFixed
  PROVE  Spec => []CacheSound
<1>1. Init => IndexerInv
  BY InitIndexer
<1>2. IndexerInv /\ [Next]_vars => IndexerInv'
  BY StepIndexer
<1>3. IndexerInv => CacheSound
  BY SavedIsSound DEF IndexerInv, ExactInv
<1> QED BY <1>1, <1>2, <1>3, PTL DEF Spec

-----------------------------------------------------------------------------
(* No update is lost.  The argument: what the index says of a file depends,*)
(* with the .gitignore files fixed, on the file alone, for the directories *)
(* above a file that exists are there.  While a walk or an incremental     *)
(* reindex runs no event is taken from the queue, so a file that is not    *)
(* pending and not unseen then has not changed since it began, and whatever*)
(* has been read of it is current.                                         *)

(* No .gitignore hides a file that changes from the walks of the sources:  *)
(* ReindexFile asks none.                                                  *)
Visible(R, p) == Under(R, p) /\ \A q \in Ancestors(R, p) : ~Skipped(R, q)

ScanPaths(ms) == Range(PHPScanDirs(ms))

EditsVisible ==
  \A ms \in ModuleLists : \A f \in Editable \cap PhpFile :
    (\E D \in ScanPaths(ms) : Under(D, f)) => \E D \in ScanPaths(ms) : Visible(D, f)

(* No change of f is on its way, and none went unreported. *)
Quiet(f) == ~Pending(f) /\ f \notin unseen

(* What I says of f is what a walk for ms would find. *)
DefsRight(I, ms, f) ==
  \A R \in Dir : <<f, R>> \in I.defs <=> R \in ViewPaths(ms) /\ Visible(R, f) /\ Exists(f)

UsesRight(I, ms, f) ==
  \A t \in Parses : <<f, t>> \in I.uses <=> t = tree[f] /\ \E D \in ScanPaths(ms) : Visible(D, f)

Right(I, ms, f) == DefsRight(I, ms, f) /\ UsesRight(I, ms, f)

(* The index in the making says of f nothing else ... *)
Backed(f) ==
  /\ \A R \in Dir : <<f, R>> \in idx.defs => R \in ViewPaths(mods) /\ Visible(R, f) /\ Exists(f)
  /\ \A t \in Parses : <<f, t>> \in idx.uses => t = tree[f] /\ \E D \in ScanPaths(mods) : Visible(D, f)

(* ... and, for the root of j, all of it. *)
Found(j, f) == Visible(j.path, f) /\ Exists(f) => Has(tree, idx, j, f)

TreeClosed == \A p \in Node \ {<<>>} : Exists(p) => Exists(Parent(p))

(* Every open node is one that the walk should have come to; an entry still*)
(* to be checked is no newer than the file system.                         *)
OpenInv ==
  /\ pc = "check" => Older(manifest)
  /\ Scanning => \A p \in Open : \A q \in Ancestors(Job.path, p) \ {p} : ~Skipped(Job.path, q)
  /\ pc = "list" => ~Skipped(Job.path, cur)

FileScanned(f) ==
  /\ pc = "check" /\ Valid(tree, mtime, manifest) => Right(idx, mods, f)
  /\ pc \in {"root", "visit", "entry", "list"} =>
       /\ Backed(f)
       /\ \A j \in Range(Jobs(mods)) \ Range(jobs) : Found(j, f)
  /\ Scanning => /\ Ancestors(Job.path, f) \cap Open # {} \/ Found(Job, f)
                 /\ f \in Open => Exists(f)
  /\ pc = "done" => Right(idx, mods, f)

ScanInv == spc = "walking" => \A f \in PhpFile : Quiet(f) => FileScanned(f)

(* The files that change are Editable. *)
QueueInv ==
  /\ events \in Seq([op : {"write", "create", "remove"}, path : Editable])
  /\ changed \subseteq Editable \cap PhpFile /\ batch \subseteq Editable \cap PhpFile
  /\ modules \in ModuleLists

Published == spc \in {"startWatcher", "watching", "loop"}

(* A path of the batch is no view file, before or after. *)
IndexInv ==
  /\ Published =>
       viewIdx \in Index /\ \A f \in InScope : Quiet(f) => Right(viewIdx, modules, f)
  /\ spc = "incremental" =>
       /\ next \in Index
       /\ \A f \in InScope \ batch : Quiet(f) => Right(next, modules, f)
       /\ \A f \in batch : /\ \A R \in ViewPaths(modules) : ~Under(R, f)
                           /\ \A R \in Dir : <<f, R>> \notin next.defs

-----------------------------------------------------------------------------
(* The directories above a file. *)

LEMMA InitClosed == WalkInit => TreeClosed
BY ParentAssumption DEF WalkInit, TreeClosed, Exists

LEMMA DiskKeepsClosed ==
  ASSUME WalkTypeOK, TreeClosed, DiskChange
  PROVE  TreeClosed'
<1> SUFFICES ASSUME NEW q \in Node \ {<<>>}, Exists(q)'
             PROVE  Exists(Parent(q))'
  BY DEF TreeClosed
<1>0. /\ Parent(q) \in Dir /\ Parent(q) \in Node /\ Parent(q) # q
      /\ Exists(q) => Exists(Parent(q))
      /\ tree \in [Node -> Anything] /\ Editable \subseteq Node \ {<<>>}
  BY TreeAssumption DEF Node, TreeClosed, WalkTypeOK, Anything
<1>1. ASSUME NEW p \in Editable, NEW t \in Thing(p), Write(p, t) PROVE Exists(Parent(q))'
  <2>1. /\ tree' = [tree EXCEPT ![p] = t] /\ Exists(p) /\ p \notin Dir
    BY <1>1 DEF Write
  <2> QED BY <1>0, <2>1 DEF Exists
<1>2. ASSUME NEW p \in Editable, NEW t \in Thing(p), Create(p, t) PROVE Exists(Parent(q))'
  <2>1. /\ tree' = [tree EXCEPT ![p] = t] /\ t # Absent /\ Exists(Parent(p))
    BY <1>2 DEF Create
  <2> QED BY <1>0, <2>1 DEF Exists
<1>3. ASSUME NEW p \in Editable, Delete(p) PROVE Exists(Parent(q))'
  <2>1. /\ tree' = [tree EXCEPT ![p] = Absent] /\ (p \in Dir => Children(p) = {})
    BY <1>3 DEF Delete
  <2>2. q # p /\ Exists(q)
    BY <1>0, <2>1 DEF Exists
  <2>3. Parent(q) # p
    BY <1>0, <2>1, <2>2 DEF Children
  <2> QED BY <1>0, <2>1, <2>2, <2>3 DEF Exists
<1> QED BY <1>1, <1>2, <1>3 DEF DiskChange

LEMMA StepClosed ==
  ASSUME WalkTypeInv, TreeClosed, ParsedTyped, [Next]_vars
  PROVE  TreeClosed'
<1>1. CASE DiskChange
  BY <1>1, DiskKeepsClosed DEF WalkTypeInv
<1>2. CASE tree' = tree
  BY <1>2 DEF TreeClosed, Exists
<1>3. CASE [WalkNext]_indexerVars
  BY <1>1, <1>2, <1>3
     DEF WalkNext, Outside, WalkStep, StartWalk, BeginScan, CheckEntry, CacheHit, StartRoot,
         appendStat, VisitDir, ListDir, VisitFile, EndRoot, EndWalk, saveCache, Return,
         diskVars, indexerVars
<1>4. CASE Restart
  BY <1>2, <1>4 DEF Restart, diskVars
<1> QED BY <1>3, <1>4, IndexerStep

(* What exists is reached, unless it is ignored.  Of the nodes on the way  *)
(* that are missing the longest would have a child there.                  *)
LEMMA OnIsVisible ==
  ASSUME TreeClosed, NEW R \in Dir, NEW p \in Node
  PROVE  On(tree, R, p) <=> Visible(R, p) /\ Exists(p)
<1>1. ASSUME On(tree, R, p) PROVE Visible(R, p) /\ Exists(p)
  BY <1>1, OnTheWay DEF On, Visible, Exists
<1>2. ASSUME Visible(R, p), Exists(p), NEW a \in Ancestors(R, p), tree[a] = Absent
      PROVE  FALSE
  <2>1. /\ Under(R, p) /\ p \in Seq(STRING) /\ Len(p) \in Nat /\ Len(R) \in Nat
    BY <1>2, OnTheWay DEF Visible
  <2>2. ASSUME NEW q \in Ancestors(R, p)
        PROVE  q \in Node /\ Len(p) - Len(q) \in Nat
    <3>1. PICK k \in Len(R)..Len(p) : q = SubSeq(p, 1, k)
      BY DEF Ancestors
    <3>2. Len(q) = k
      BY <2>1, <3>1, PathPrefix
    <3> QED BY <2>1, <3>1, <3>2, WayOfAncestor
  <2> DEFINE T == {Len(p) - Len(q) : q \in {b \in Ancestors(R, p) : tree[b] = Absent}}
  <2>3. T \subseteq Nat /\ T # {}
    BY <1>2, <2>2
  <2>4. PICK n \in T : \A m \in T : n <= m
    BY <2>3, LeastNat
  <2>5. PICK q \in Ancestors(R, p) : tree[q] = Absent /\ n = Len(p) - Len(q)
    OBVIOUS
  <2>6. PICK c \in Ancestors(R, p) : c \in Node \ {<<>>} /\ Parent(c) = q
    BY <1>2, <2>1, <2>5, WayGoesOn DEF Exists
  <2>7. tree[c] = Absent
    BY <2>5, <2>6 DEF TreeClosed, Exists
  <2>8. Len(q) = Len(c) - 1 /\ Len(c) \in Nat /\ Len(q) \in Nat
    <3>1. q \in Seq(STRING) /\ c \in Seq(STRING)
      BY <2>2, <2>6, PathAssumption
    <3> QED BY <2>6, <3>1, ParentIsPrefix, WholePath
  <2>9. Len(p) - Len(c) \in T
    BY <2>6, <2>7
  <2> HIDE DEF T
  <2> QED BY <2>1, <2>4, <2>5, <2>8, <2>9
<1>3. ASSUME Visible(R, p), Exists(p) PROVE On(tree, R, p)
  BY <1>2, <1>3 DEF On, Visible
<1> QED BY <1>1, <1>3

-----------------------------------------------------------------------------
(* What is right of a file. *)

LEMMA FreshIsRight ==
  ASSUME IgnoresFixed, DiskInv, TreeClosed, WalkTypeOK, NEW ms \in ModuleLists, NEW f \in PhpFile
  PROVE  FreshIndex(ms) \in Index /\ Right(FreshIndex(ms), ms, f)
<1> DEFINE views == ViewPaths(ms)
           source == {g \in PhpFile : /\ \E d \in ScanPaths(ms) : Reached(d, g)
                                      /\ tree[g] \in Parses}
           fresh == FreshIndex(ms)
<1>1. /\ fresh.defs = {d \in PhpFile \X views : Reached(d[2], d[1])}
      /\ fresh.uses = {<<g, tree[g]>> : g \in source}
      /\ fresh.globs = {<<g, tree[g]>> : g \in {h \in source : tree[h] \in GlobalText}}
      /\ fresh = [defs |-> fresh.defs, uses |-> fresh.uses, globs |-> fresh.globs]
  BY DEF FreshIndex, ViewPaths, ScanPaths
<1>2. views \subseteq Dir /\ ScanPaths(ms) \subseteq Dir
  <2>1. ASSUME NEW R \in views PROVE R \in Dir
    <3>1. [phase |-> "views", path |-> R] \in Range(Jobs(ms))
      BY JobsRange DEF ViewPaths
    <3> QED BY <3>1, JobsRange DEF WalkJob
  <2>2. ASSUME NEW D \in ScanPaths(ms) PROVE D \in Dir
    <3>1. [phase |-> "extract", path |-> D] \in Range(Jobs(ms))
      BY JobsRange DEF ScanPaths
    <3> QED BY <3>1, JobsRange DEF WalkJob
  <2> QED BY <2>1, <2>2
<1>3. ASSUME NEW R \in Dir PROVE Reached(R, f) <=> Visible(R, f) /\ Exists(f)
  BY ReachedIsOn, OnIsVisible DEF Node
<1>4. \A t \in Parses : t # Absent
  BY TreeAssumption
<1> HIDE DEF views, source, fresh
<1>5. DefsRight(fresh, ms, f)
  BY <1>1, <1>2, <1>3 DEF DefsRight, views
<1>6. UsesRight(fresh, ms, f)
  <2> SUFFICES ASSUME NEW t \in Parses
               PROVE  <<f, t>> \in fresh.uses
                        <=> t = tree[f] /\ \E D \in ScanPaths(ms) : Visible(D, f)
    BY DEF UsesRight
  <2>1. <<f, t>> \in fresh.uses <=> t = tree[f] /\ f \in source
    BY <1>1
  <2>2. t = tree[f] => (f \in source <=> \E D \in ScanPaths(ms) : Visible(D, f))
    BY <1>2, <1>3, <1>4 DEF source, Exists
  <2> QED BY <2>1, <2>2
<1>7. fresh \in Index
  <2>1. fresh.defs \in SUBSET (PhpFile \X Dir)
    BY <1>1, <1>2
  <2>2. fresh.uses \in SUBSET (PhpFile \X Parses) /\ fresh.globs \in SUBSET (PhpFile \X GlobalText)
    BY <1>1 DEF source
  <2> QED BY <1>1, <2>1, <2>2 DEF Index
<1> QED BY <1>5, <1>6, <1>7 DEF Right, fresh

LEMMA RightAgree ==
  ASSUME NEW I \in Index, NEW J \in Index, NEW ms, NEW f \in PhpFile,
         Right(I, ms, f), Right(J, ms, f)
  PROVE  Of(I.uses, f) = Of(J.uses, f) /\ Of(I.defs, f) = Of(J.defs, f)
<1>1. /\ I.defs \subseteq PhpFile \X Dir /\ J.defs \subseteq PhpFile \X Dir
      /\ I.uses \subseteq PhpFile \X Parses /\ J.uses \subseteq PhpFile \X Parses
  BY DEF Index
<1>2. \A R \in Dir : <<f, R>> \in I.defs <=> <<f, R>> \in J.defs
  BY DEF Right, DefsRight
<1>3. \A t \in Parses : <<f, t>> \in I.uses <=> <<f, t>> \in J.uses
  BY DEF Right, UsesRight
<1>4. Of(I.defs, f) = Of(J.defs, f)
  <2>1. \A d \in PhpFile \X Dir : d[1] = f => d = <<f, d[2]>> /\ d[2] \in Dir
    OBVIOUS
  <2>2. \A d \in PhpFile \X Dir : d[1] = f => (d \in I.defs <=> d \in J.defs)
    BY <1>2, <2>1
  <2> QED BY <1>1, <2>2 DEF Of
<1>5. Of(I.uses, f) = Of(J.uses, f)
  <2>1. \A u \in PhpFile \X Parses : u[1] = f => u = <<f, u[2]>> /\ u[2] \in Parses
    OBVIOUS
  <2>2. \A u \in PhpFile \X Parses : u[1] = f => (u \in I.uses <=> u \in J.uses)
    BY <1>3, <2>1
  <2> QED BY <1>1, <2>2 DEF Of
<1> QED BY <1>4, <1>5

LEMMA RightIsSettled ==
  ASSUME IgnoresFixed, DiskInv, TreeClosed, WalkTypeOK, modules \in ModuleLists,
         viewIdx \in Index, NEW f \in PhpFile, Right(viewIdx, modules, f)
  PROVE  Settled(f)
<1>1. FreshIndex(modules) \in Index /\ Right(FreshIndex(modules), modules, f)
  BY FreshIsRight
<1>2. PICK I \in Index, J \in Index : I = viewIdx /\ J = FreshIndex(modules)
  BY <1>1
<1>3. Of(I.uses, f) = Of(J.uses, f) /\ Of(I.defs, f) = Of(J.defs, f)
  BY <1>1, <1>2, RightAgree
<1> QED BY <1>2, <1>3 DEF Settled

(* What is right of a file stays right while the file does not change. *)
LEMMA RightStays ==
  ASSUME NEW I, NEW ms, NEW f, Right(I, ms, f), tree'[f] = tree[f]
  PROVE  Right(I, ms, f)'
BY DEF Right, DefsRight, UsesRight, Visible, Exists, ViewPaths, ScanPaths, Range, Skipped

-----------------------------------------------------------------------------
(* The queue and the module list. *)

QueuedEvent == [op : {"write", "create", "remove"}, path : Editable]

LEMMA InitQueue == Init => QueueInv
BY JobsAssumption DEF Init, ServerIdle, QueueInv

(* A change outside is one of a node that may change, and it is reported,  *)
(* or not, as a change of that node.                                       *)
LEMMA ChangeIsReported ==
  ASSUME OutsideChange, WalkTypeOK
  PROVE  \E p \in Editable, op \in {"write", "create", "remove"} :
           /\ Notify(op, p)
           /\ \A f \in Node : f # p => tree'[f] = tree[f]
<1>1. tree \in [Node -> Anything]
  BY DEF WalkTypeOK, Anything
<1>2. ASSUME NEW p \in Editable, NEW t \in Thing(p),
             Write(p, t) \/ Create(p, t) \/ Delete(p)
      PROVE  \A f \in Node : f # p => tree'[f] = tree[f]
  BY <1>1, <1>2 DEF Write, Create, Delete
<1>3. PICK p \in Editable :
        \/ \E t \in Thing(p) : Write(p, t) /\ Notify("write", p)
        \/ \E t \in Thing(p) : Create(p, t) /\ Notify("create", p)
        \/ Delete(p) /\ Notify("remove", p)
  BY DEF OutsideChange
<1>4. Absent \in Thing(p)
  BY DEF Thing
<1>5. CASE \E t \in Thing(p) : Write(p, t) /\ Notify("write", p)
  BY <1>2, <1>5
<1>6. CASE \E t \in Thing(p) : Create(p, t) /\ Notify("create", p)
  BY <1>2, <1>6
<1>7. CASE Delete(p) /\ Notify("remove", p)
  BY <1>2, <1>4, <1>7
<1> QED BY <1>3, <1>5, <1>6, <1>7

LEMMA StepQueue ==
  ASSUME WalkTypeOK, ParsedTyped, QueueInv, [Next]_vars
  PROVE  QueueInv'
<1> USE DEF QueueInv, watchVars, loopVars
<1>0. CASE UNCHANGED <<events, changed, batch, modules>>
  BY <1>0
<1>1. CASE OutsideChange
  <2>1. PICK p \in Editable, op \in {"write", "create", "remove"} : Notify(op, p)
    BY <1>1, ChangeIsReported
  <2>2. [op |-> op, path |-> p] \in QueuedEvent
    BY DEF QueuedEvent
  <2>3. events \in Seq(QueuedEvent) /\ Append(events, [op |-> op, path |-> p]) \in Seq(QueuedEvent)
    BY <2>2, AppendProperties DEF QueuedEvent
  <2>4. events' \in Seq(QueuedEvent)
    BY <2>1, <2>3 DEF Notify
  <2> QED BY <1>1, <2>4 DEF OutsideChange, QueuedEvent
<1>2. CASE HandleEvent
  <2>1. events # <<>> /\ events \in Seq(QueuedEvent)
    BY <1>2 DEF HandleEvent, QueuedEvent
  <2>2. Head(events) \in QueuedEvent /\ Tail(events) \in Seq(QueuedEvent)
    BY <2>1, HeadTailProperties
  <2>3. changed' \subseteq Editable \cap PhpFile
    BY <1>2, <2>2 DEF HandleEvent, hasWatchExt, QueuedEvent
  <2> QED BY <1>2, <2>2, <2>3 DEF HandleEvent, QueuedEvent
<1>3. CASE Publish
  BY <1>3 DEF Publish, ParsedTyped
<1>4. CASE reindexFiles
  BY <1>4 DEF reindexFiles
<1>5. CASE ReindexFile
  BY <1>5 DEF ReindexFile
<1>6. CASE Restart
  BY <1>6, JobsAssumption DEF Restart
<1>7. CASE Goroutine
  BY <1>0, <1>3, <1>5, <1>7
     DEF Goroutine, Initialized, ParseModules, CallWalk, Indexing, serverVars,
         startWatcher, WatchRoot, AddWatch, EnterLoop, Swap
<1> QED
  BY <1>0, <1>1, <1>2, <1>4, <1>6, <1>7
     DEF Next, Saving, serverVars, TimerFires, Rest, vars

-----------------------------------------------------------------------------
(* A file is quiet after a step only if it was before, and then the step   *)
(* did not change it; only reindexFiles, which takes the changed paths, and*)
(* a crash make files quiet.                                               *)

LEMMA QuietUnchanged ==
  ASSUME OutsideChange, WalkTypeOK, QueueInv, NEW f \in PhpFile, Quiet(f)'
  PROVE  Quiet(f) /\ tree'[f] = tree[f]
<1>1. PICK p \in Editable, op \in {"write", "create", "remove"} :
        Notify(op, p) /\ \A q \in Node : q # p => tree'[q] = tree[q]
  BY ChangeIsReported
<1>2. changed' = changed /\ events \in Seq(QueuedEvent)
  BY DEF OutsideChange, loopVars, QueueInv, QueuedEvent
<1> DEFINE e == [op |-> op, path |-> p]
<1>3. e \in QueuedEvent /\ e.path = p
  BY DEF QueuedEvent
<1>4. /\ Len(events) \in Nat /\ DOMAIN events = 1..Len(events)
      /\ DOMAIN Append(events, e) = 1..(Len(events) + 1)
      /\ Append(events, e)[Len(events) + 1] = e
      /\ \A i \in 1..Len(events) : Append(events, e)[i] = events[i]
  BY <1>2, <1>3, AppendProperties
<1> HIDE DEF e
<1>5. CASE events' = Append(events, e) /\ unseen' = unseen \ {p}
  <2>1. Len(events) + 1 \in DOMAIN events' /\ events'[Len(events) + 1].path = p
    BY <1>3, <1>4, <1>5
  <2>2. f # p
    BY <2>1 DEF Quiet, Pending
  <2>3. \A i \in DOMAIN events : i \in DOMAIN events' /\ events'[i].path = events[i].path
    BY <1>4, <1>5
  <2>4. Quiet(f)
    BY <1>2, <1>5, <2>2, <2>3 DEF Quiet, Pending
  <2> QED BY <1>1, <2>2, <2>4 DEF Node
<1>6. CASE events' = events /\ unseen' = unseen \cup {p}
  BY <1>1, <1>2, <1>6 DEF Quiet, Pending, Node
<1> QED BY <1>1, <1>5, <1>6 DEF Notify, e

LEMMA QuietHandled ==
  ASSUME HandleEvent, QueueInv, NEW f \in PhpFile, Quiet(f)'
  PROVE  Quiet(f)
<1>1. events # <<>> /\ events \in Seq(QueuedEvent) /\ events' = Tail(events) /\ unseen' = unseen
  BY DEF HandleEvent, QueueInv, QueuedEvent
<1>2. /\ Head(events) = events[1] /\ Len(events) \in Nat \ {0}
      /\ DOMAIN events = 1..Len(events) /\ DOMAIN Tail(events) = 1..(Len(events) - 1)
      /\ \A i \in 1..(Len(events) - 1) : Tail(events)[i] = events[i + 1]
  <2>1. Len(events) \in Nat \ {0}
    BY <1>1, EmptySeq
  <2> QED BY <1>1, <2>1, HeadTailProperties
<1>3. ASSUME NEW i \in DOMAIN events, events[i].path = f PROVE FALSE
  <2>1. CASE i = 1
    <3>1. f \in changed'
      BY <1>2, <1>3, <2>1 DEF HandleEvent, hasWatchExt
    <3> QED BY <3>1 DEF Quiet, Pending
  <2>2. CASE i # 1
    <3>1. i - 1 \in DOMAIN events' /\ events'[i - 1].path = f
      BY <1>1, <1>2, <1>3, <2>2
    <3> QED BY <3>1 DEF Quiet, Pending
  <2> QED BY <2>1, <2>2
<1>4. changed \subseteq changed'
  BY DEF HandleEvent
<1> QED BY <1>1, <1>3, <1>4 DEF Quiet, Pending

-----------------------------------------------------------------------------
(* The open nodes, and the entries to be checked. *)

LEMMA InitOpen == WalkInit => OpenInv
BY DEF WalkInit, WalkIdle, OpenInv, Scanning

LEMMA DiskKeepsOlder ==
  ASSUME WalkTypeOK, DiskChange, NEW M \in SUBSET Entry, Older(M)
  PROVE  Older(M)'
<1>1. PICK p \in Editable, t \in Anything : DiskEffect(p, t)
  BY DiskStep
<1>2. now \in Nat /\ now' = now + 1
  BY <1>1, TreeAssumption DEF DiskEffect, WalkTypeOK
<1>3. \A e \in M : e[2] \in Int
  BY DEF Entry
<1> QED BY <1>2, <1>3 DEF Older

LEMMA StepOpen ==
  ASSUME RootsFixed, WalkTypeInv, CacheInv, MatchInv, RunInv, OpenInv, [WalkNext]_indexerVars
  PROVE  OpenInv'
<1> USE DEF Scanning, diskVars, cacheVars, walkVars
<1>a. UNCHANGED jobs => Job' = Job
  BY DEF Job
<1>b. Scanning => /\ Open \subseteq Node /\ Job.path \in Dir
                  /\ \A p \in Open : Under(Job.path, p)
  <2> SUFFICES ASSUME Scanning
               PROVE  /\ Open \subseteq Node /\ Job.path \in Dir
                      /\ \A p \in Open : Under(Job.path, p)
    OBVIOUS
  <2>1. jobs # <<>> /\ Open \subseteq Node
    BY DEF WalkTypeInv, WalkTypeOK, Open
  <2> QED BY <2>1, CurrentJob DEF RunInv, MatchInv
<1>1. CASE Outside
  <2>1. PICK M \in SUBSET Entry : M = manifest
    BY DEF WalkTypeInv, WalkTypeOK
  <2>2. /\ DiskChange /\ WalkTypeOK /\ UNCHANGED <<pc, jobs, todo, cur, manifest>>
        /\ Job' = Job /\ Open' = Open
    BY <1>1, <1>a DEF Outside, WalkTypeInv, Open
  <2>3. pc = "check" => Older(manifest)'
    <3>1. Older(M) => Older(M)'
      BY <2>2, DiskKeepsOlder
    <3> QED BY <2>1, <2>2, <3>1 DEF OpenInv, Older
  <2> QED BY <2>2, <2>3 DEF OpenInv
<1>2. ASSUME NEW ms \in ModuleLists, StartWalk(ms) PROVE OpenInv'
  <2>1. CASE pc' = "check" /\ Loadable(ms) /\ manifest' = cache.manifest /\ UNCHANGED diskVars
    <3>1. cache \in Saved
      BY <2>1 DEF Loadable, Saved
    <3> QED BY <2>1, <3>1 DEF OpenInv, CacheInv, Older
  <2>2. CASE BeginScan(ms)
    BY <2>2 DEF BeginScan, OpenInv
  <2> QED BY <1>2, <2>1, <2>2 DEF StartWalk
<1>3. CASE CheckEntry
  <2>1. CASE BeginScan(mods)
    BY <2>1 DEF BeginScan, OpenInv
  <2>2. CASE pc' = pc /\ manifest' \subseteq manifest /\ UNCHANGED diskVars
    BY <1>3, <2>2 DEF CheckEntry, OpenInv, Older
  <2> QED BY <1>3, <2>1, <2>2 DEF CheckEntry
<1>4. CASE pc' \in {"root", "done", "idle"}
  BY <1>4 DEF OpenInv
<1>5. CASE StartRoot
  <2>1. CASE Exists(Job.path)
    <3>1. pc' = "visit" /\ todo' = {Job.path} /\ Job' = Job /\ pc = "root" /\ jobs # <<>>
      BY <1>5, <1>a, <2>1 DEF StartRoot
    <3>2. Job.path \in Dir
      BY <3>1, CurrentJob DEF RunInv
    <3> QED BY <3>1, <3>2, WayOfRoot DEF OpenInv, Open
  <2>2. CASE ~Exists(Job.path)
    BY <1>5, <2>2 DEF StartRoot, OpenInv
  <2> QED BY <2>1, <2>2
<1>6. CASE appendStat
  <2>1. pc = "visit" /\ pc' \in {"visit", "entry"} /\ Job' = Job /\ Open' \subseteq Open
    BY <1>6, <1>a DEF appendStat, Open
  <2> QED BY <2>1 DEF OpenInv
<1>7. CASE VisitDir
  <2>1. pc = "entry" /\ pc' \in {"visit", "list"} /\ Job' = Job /\ Open' \subseteq Open
    BY <1>7, <1>a DEF VisitDir, Open
  <2>2. pc' = "list" => cur' = cur /\ ~Skipped(Job.path, cur)
    BY <1>7, <2>1, CurDecided DEF VisitDir
  <2> QED BY <2>1, <2>2 DEF OpenInv
<1>8. CASE ListDir
  <2>1. /\ pc = "list" /\ pc' = "visit" /\ Job' = Job /\ cur \in Open
        /\ Open' = todo \cup Children(cur) /\ todo \subseteq Open
    BY <1>8, <1>a DEF ListDir, Open
  <2>2. ASSUME NEW p \in Children(cur), NEW q \in Ancestors(Job.path, p) \ {p}
        PROVE  ~Skipped(Job.path, q)
    <3>1. p \in Node \ {<<>>} /\ Parent(p) = cur
      BY DEF Children
    <3>2. Ancestors(Job.path, p) = Ancestors(Job.path, cur) \cup {p}
      BY <1>b, <2>1, <3>1, WayOfChild
    <3> QED BY <2>1, <3>2 DEF OpenInv
  <2> QED BY <2>1, <2>2 DEF OpenInv
<1>9. CASE VisitFile
  <2>1. pc = "entry" /\ pc' = "visit" /\ Job' = Job /\ Open' \subseteq Open
    BY <1>9, <1>a DEF VisitFile, Open
  <2> QED BY <2>1 DEF OpenInv
<1>10. CASE UNCHANGED walkVars /\ UNCHANGED diskVars
  BY <1>10, <1>a DEF OpenInv, Open, Older
<1> QED
  BY <1>1, <1>2, <1>3, <1>4, <1>5, <1>6, <1>7, <1>8, <1>9, <1>10
     DEF WalkNext, WalkStep, CacheHit, EndRoot, EndWalk, Return, saveCache, indexerVars

-----------------------------------------------------------------------------
(* A walk and one file that does not change meanwhile. *)

LEMMA RightSame ==
  ASSUME NEW f, UNCHANGED <<idx, mods>>, tree'[f] = tree[f]
  PROVE  /\ Right(idx, mods, f)' <=> Right(idx, mods, f)
         /\ Backed(f)' <=> Backed(f)
         /\ \A j : Found(j, f)' <=> Found(j, f)
BY DEF Right, DefsRight, UsesRight, Backed, Found, Has, Visible, Exists, ViewPaths, ScanPaths,
       Skipped

LEMMA ScanStartsRight ==
  ASSUME NEW ms, BeginScan(ms), NEW f
  PROVE  FileScanned(f)'
<1>1. /\ pc' = "root" /\ mods' = ms /\ jobs' = Jobs(ms) /\ idx'.defs = {} /\ idx'.uses = {}
  BY DEF BeginScan, EmptyIndex
<1>2. Backed(f)'
  BY <1>1 DEF Backed
<1>3. Range(Jobs(mods'))\ Range(jobs') = {}
  BY <1>1
<1> QED BY <1>1, <1>2, <1>3 DEF FileScanned, Scanning

(* A file that a walk should find under the root of j, and the way to it. *)
LEMMA WayIsThere ==
  ASSUME TreeClosed, NEW R \in Dir, NEW f \in Node, Visible(R, f), Exists(f)
  PROVE  /\ Under(R, f) /\ R \in Ancestors(R, f) /\ f \in Ancestors(R, f)
         /\ \A q \in Ancestors(R, f) : q \in Node /\ Exists(q) /\ ~Skipped(R, q)
BY OnIsVisible, OnTheWay DEF On, Visible, Exists

LEMMA StartRootScans ==
  ASSUME RootsFixed, TreeClosed, WalkTypeInv, RunInv, StartRoot,
         NEW f \in PhpFile, FileScanned(f)
  PROVE  FileScanned(f)'
<1> USE DEF Scanning, diskVars, cacheVars
<1>1. /\ pc = "root" /\ jobs # <<>> /\ UNCHANGED <<tree, idx, mods>>
      /\ Backed(f) /\ \A j \in Range(Jobs(mods)) \ Range(jobs) : Found(j, f)
  BY DEF StartRoot, FileScanned
<1>2. /\ Job.path \in Dir /\ Range(jobs) = {Job} \cup Range(Tail(jobs)) /\ f \in Node
  BY <1>1, CurrentJob DEF RunInv, Node
<1>3. CASE Exists(Job.path)
  <2>1. pc' = "visit" /\ todo' = {Job.path} /\ jobs' = jobs /\ Job' = Job /\ Open' = {Job.path}
    BY <1>3 DEF StartRoot, Job, Open
  <2>2. Found(Job, f) \/ Ancestors(Job.path, f) \cap Open' # {}
    BY <1>2, <2>1, WayIsThere DEF Found
  <2>3. f \notin Open'
    BY <1>2, <2>1, TreeAssumption
  <2> QED BY <1>1, <2>1, <2>2, <2>3, RightSame DEF FileScanned
<1>4. CASE ~Exists(Job.path)
  <2>1. pc' = "root" /\ jobs' = Tail(jobs)
    BY <1>1, <1>4 DEF StartRoot
  <2>2. Found(Job, f)
    BY <1>2, <1>4, WayIsThere DEF Found
  <2>3. \A j \in Range(Jobs(mods)) \ Range(jobs') : Found(j, f)
    BY <1>1, <1>2, <2>1, <2>2
  <2> QED BY <1>1, <2>1, <2>3, RightSame DEF FileScanned
<1> QED BY <1>3, <1>4

(* What is still open after an entry has been stat'ed, entered or listed   *)
(* leads to the file, if the file is to be found.                          *)
LEMMA VisitScans ==
  ASSUME RootsFixed, TreeClosed, WalkTypeInv, MatchInv, RunInv, appendStat \/ VisitDir \/ ListDir,
         NEW f \in PhpFile, FileScanned(f)
  PROVE  FileScanned(f)'
<1> USE DEF Scanning, diskVars, cacheVars
<1>1. /\ pc \in {"visit", "entry", "list"} /\ pc' \in {"visit", "entry", "list"}
      /\ UNCHANGED <<tree, idx, mods, jobs>> /\ Job' = Job /\ jobs # <<>> /\ f \in Node
      /\ Exists(Job.path)
  BY DEF appendStat, VisitDir, ListDir, Job, WalkTypeInv, MatchInv, Node
<1>2. Job.path \in Dir
  BY <1>1, CurrentJob DEF RunInv
<1>3. ASSUME \/ Open' = Open
             \/ ~Found(Job, f) => Ancestors(Job.path, f) \cap Open' # {},
             f \in Open' => Exists(f)
      PROVE  FileScanned(f)'
  BY <1>1, <1>3, RightSame DEF FileScanned, Exists
<1>4. (f \in Open => Exists(f)) /\ (Found(Job, f) \/ Ancestors(Job.path, f) \cap Open # {})
  BY <1>1 DEF FileScanned
<1>5. CASE appendStat
  <2>1. PICK p \in todo :
          /\ todo' = todo \ {p}
          /\ IF p = Job.path /\ ~Exists(p)
             THEN UNCHANGED <<pc, cur>>
             ELSE pc' = "entry" /\ cur' = p
    BY <1>5 DEF appendStat
  <2>2. Open' = Open
    BY <1>1, <1>5, <2>1 DEF appendStat, Open
  <2> QED BY <1>3, <1>4, <2>2
<1>6. CASE VisitDir
  <2>0. pc = "entry" /\ Open = todo \cup {cur} /\ todo' = todo
    BY <1>6 DEF VisitDir, Open
  <2>1. CASE isIgnored(matchers, cur)
    <3>1. Skipped(Job.path, cur) /\ Open' = todo
      BY <1>6, <2>0, <2>1, CurDecided DEF VisitDir, Open
    <3>2. ~Found(Job, f) => cur \notin Ancestors(Job.path, f)
      BY <3>1 DEF Found, Visible
    <3> QED BY <1>3, <1>4, <2>0, <3>1, <3>2
  <2>2. CASE ~isIgnored(matchers, cur)
    <3>1. Open' = Open
      BY <1>6, <2>0, <2>2 DEF VisitDir, Open
    <3> QED BY <1>3, <1>4, <3>1
  <2> QED BY <2>1, <2>2
<1>7. CASE ListDir
  <2>1. /\ Open = todo \cup {cur} /\ Open' = todo \cup Children(cur)
        /\ cur \in Node /\ cur \in Dir
    BY <1>7 DEF ListDir, Open, MatchInv, WalkTypeInv
  <2>2. f \in Open' => Exists(f)
    BY <1>4, <2>1 DEF Children
  <2>3. ASSUME ~Found(Job, f) PROVE Ancestors(Job.path, f) \cap Open' # {}
    <3>1. /\ Visible(Job.path, f) /\ Exists(f) /\ Under(Job.path, f)
          /\ \A q \in Ancestors(Job.path, f) : q \in Node /\ Exists(q)
      BY <1>1, <1>2, <2>3, WayIsThere DEF Found
    <3>2. CASE cur \in Ancestors(Job.path, f)
      <4>1. cur # f
        BY <2>1, TreeAssumption
      <4>2. PICK c \in Ancestors(Job.path, f) : c \in Node \ {<<>>} /\ Parent(c) = cur
        BY <1>1, <1>2, <3>1, <3>2, <4>1, WayGoesOn
      <4>3. c \in Children(cur)
        BY <3>1, <4>2 DEF Children
      <4> QED BY <2>1, <4>2, <4>3
    <3>3. CASE cur \notin Ancestors(Job.path, f)
      BY <1>4, <2>1, <2>3, <3>3
    <3> QED BY <3>2, <3>3
  <2> QED BY <1>3, <2>2, <2>3
<1> QED BY <1>5, <1>6, <1>7

LEMMA VisitFileScans ==
  ASSUME RootsFixed, TreeClosed, WalkTypeInv, MatchInv, RunInv, OpenInv, VisitFile,
         NEW f \in PhpFile, FileScanned(f)
  PROVE  FileScanned(f)'
<1> USE DEF Scanning, diskVars, cacheVars
<1>1. /\ pc = "entry" /\ pc' = "visit" /\ idx' = Indexed(cur) /\ cur \notin Dir
      /\ UNCHANGED <<tree, mods, jobs, todo>> /\ Job' = Job /\ f \in Node
      /\ mods \in ModuleLists /\ jobs # <<>>
      /\ Open = todo \cup {cur} /\ Open' = todo
  BY DEF VisitFile, Job, Open, Node, WalkTypeInv, WalkTypeOK
<1>2. /\ cur \in Node /\ Under(Job.path, cur) /\ Job.path \in Dir
      /\ isIgnored(matchers, cur) <=> Skipped(Job.path, cur)
  BY <1>1, CurDecided
<1>3. /\ Job \in Range(Jobs(mods)) /\ Job = [phase |-> Job.phase, path |-> Job.path]
  BY <1>1, CurrentJob, JobOf DEF RunInv
<1>4. /\ idx.defs \subseteq idx'.defs /\ idx.uses \subseteq idx'.uses
      /\ \A d \in idx'.defs \ idx.defs :
           /\ d = <<cur, Job.path>> /\ cur \in PhpFile /\ Job.phase = "views"
           /\ ~isIgnored(matchers, cur)
      /\ \A u \in idx'.uses \ idx.uses :
           /\ u = <<cur, tree[cur]>> /\ cur \in PhpFile /\ Job.phase = "extract"
           /\ tree[cur] \in Parses /\ ~isIgnored(matchers, cur)
      /\ cur \in PhpFile /\ ~isIgnored(matchers, cur) /\ Exists(cur) =>
           Has(tree, idx', Job, cur)
  BY <1>1, IndexedGrows
<1>5. /\ Backed(f) /\ (f \in Open => Exists(f))
      /\ \A j \in Range(Jobs(mods)) \ Range(jobs) : Found(j, f)
      /\ Found(Job, f) \/ Ancestors(Job.path, f) \cap Open # {}
  BY <1>1 DEF FileScanned
<1>6. ~isIgnored(matchers, cur) => Visible(Job.path, cur)
  BY <1>1, <1>2 DEF OpenInv, Visible
<1>7. Backed(f)'
  <2>1. ASSUME NEW R \in Dir, <<f, R>> \in idx'.defs
        PROVE  R \in ViewPaths(mods) /\ Visible(R, f) /\ Exists(f)
    <3>1. CASE <<f, R>> \in idx.defs
      BY <1>5, <3>1 DEF Backed
    <3>2. CASE <<f, R>> \notin idx.defs
      <4>1. f = cur /\ R = Job.path /\ Job.phase = "views" /\ ~isIgnored(matchers, cur)
        BY <1>4, <2>1, <3>2
      <4>2. R \in ViewPaths(mods)
        BY <1>1, <1>3, <4>1, JobsRange DEF ViewPaths
      <4> QED BY <1>1, <1>5, <1>6, <4>1, <4>2
    <3> QED BY <3>1, <3>2
  <2>2. ASSUME NEW t \in Parses, <<f, t>> \in idx'.uses
        PROVE  t = tree[f] /\ \E D \in ScanPaths(mods) : Visible(D, f)
    <3>1. CASE <<f, t>> \in idx.uses
      BY <1>5, <3>1 DEF Backed
    <3>2. CASE <<f, t>> \notin idx.uses
      <4>1. f = cur /\ t = tree[cur] /\ Job.phase = "extract" /\ ~isIgnored(matchers, cur)
        BY <1>4, <2>2, <3>2
      <4>2. Job.path \in ScanPaths(mods)
        BY <1>1, <1>3, <4>1, JobsRange DEF ScanPaths
      <4> QED BY <1>6, <4>1, <4>2
    <3> QED BY <3>1, <3>2
  <2> QED BY <1>1, <2>1, <2>2 DEF Backed, Exists
<1>8. \A j : Found(j, f) => Found(j, f)'
  BY <1>1, <1>4 DEF Found, Has, Exists
<1>9. Found(Job, f)' \/ Ancestors(Job.path, f) \cap Open' # {}
  <2>1. CASE Found(Job, f)
    BY <1>1, <1>8, <2>1 DEF Found
  <2>2. CASE ~Found(Job, f)
    <3>1. /\ Visible(Job.path, f) /\ Exists(f) /\ Under(Job.path, f)
          /\ \A q \in Ancestors(Job.path, f) : ~Skipped(Job.path, q)
      BY <1>1, <1>2, <2>2, WayIsThere DEF Found
    <3>2. CASE cur \in Ancestors(Job.path, f)
      <4>1. cur = f
        BY <1>1, <1>2, <3>1, <3>2, OnTheWay
      <4>2. Has(tree, idx', Job, f)
        BY <1>2, <1>4, <3>1, <3>2, <4>1
      <4> QED BY <1>1, <4>2 DEF Found
    <3>3. CASE cur \notin Ancestors(Job.path, f)
      BY <1>1, <1>5, <2>2, <3>3
    <3> QED BY <3>2, <3>3
  <2> QED BY <2>1, <2>2
<1>10. f \in Open' => Exists(f)'
  BY <1>1, <1>5 DEF Exists
<1> QED BY <1>1, <1>5, <1>7, <1>8, <1>9, <1>10 DEF FileScanned

LEMMA EndRootScans ==
  ASSUME RootsFixed, WalkTypeInv, RunInv, EndRoot, NEW f \in PhpFile, FileScanned(f)
  PROVE  FileScanned(f)'
<1> USE DEF Scanning, diskVars, cacheVars
<1>1. /\ pc = "visit" /\ pc' = "root" /\ jobs' = Tail(jobs) /\ jobs # <<>>
      /\ UNCHANGED <<tree, idx, mods>> /\ Open = {}
  BY DEF EndRoot, WalkTypeInv, Open
<1>2. Range(jobs) = {Job} \cup Range(Tail(jobs))
  BY <1>1, CurrentJob DEF RunInv
<1>3. Found(Job, f)
  BY <1>1 DEF FileScanned
<1>4. Backed(f) /\ \A j \in Range(Jobs(mods)) \ Range(Tail(jobs)) : Found(j, f)
  BY <1>1, <1>2, <1>3 DEF FileScanned
<1> QED BY <1>1, <1>4, RightSame DEF FileScanned

(* All roots walked: nothing is missing. *)
LEMMA EndWalkScans ==
  ASSUME WalkTypeInv, EndWalk, NEW f \in PhpFile, FileScanned(f)
  PROVE  FileScanned(f)'
<1>1. /\ pc = "root" /\ pc' = "done" /\ Range(jobs) = {} /\ UNCHANGED <<tree, idx, mods>>
      /\ mods \in ModuleLists
  BY DEF EndWalk, Range, diskVars, WalkTypeInv, WalkTypeOK
<1>2. Backed(f) /\ \A j \in Range(Jobs(mods)) : Found(j, f)
  BY <1>1 DEF FileScanned
<1>3. ASSUME NEW R \in ViewPaths(mods), Visible(R, f), Exists(f) PROVE <<f, R>> \in idx.defs
  <2> DEFINE j == [phase |-> "views", path |-> R]
  <2>1. j \in Range(Jobs(mods)) /\ j.phase = "views" /\ j.path = R
    BY <1>1, JobsRange DEF ViewPaths
  <2> HIDE DEF j
  <2> QED BY <1>2, <1>3, <2>1 DEF Found, Has
<1>4. ASSUME NEW D \in ScanPaths(mods), Visible(D, f), tree[f] \in Parses
      PROVE  <<f, tree[f]>> \in idx.uses
  <2> DEFINE j == [phase |-> "extract", path |-> D]
  <2>1. j \in Range(Jobs(mods)) /\ j.phase = "extract" /\ j.path = D
    BY <1>1, JobsRange DEF ScanPaths
  <2>2. Exists(f)
    BY <1>4, TreeAssumption DEF Exists
  <2> HIDE DEF j
  <2> QED BY <1>2, <1>4, <2>1, <2>2 DEF Found, Has
<1>5. Right(idx, mods, f)
  BY <1>2, <1>3, <1>4 DEF Right, DefsRight, UsesRight, Backed
<1> QED BY <1>1, <1>5, RightSame DEF FileScanned, Scanning

LEMMA WalkScans ==
  ASSUME IgnoresFixed, RootsFixed, TreeClosed, WalkTypeInv, MatchInv, RunInv, OpenInv, WalkStep,
         NEW f \in PhpFile, FileScanned(f)
  PROVE  FileScanned(f)'
<1>1. CASE CheckEntry
  <2>1. CASE BeginScan(mods)
    BY <2>1, ScanStartsRight
  <2>2. ASSUME NEW e \in manifest, Exists(e[1]), mtime[e[1]] = e[2], manifest' = manifest \ {e},
               UNCHANGED <<pc, mods, idx>>, UNCHANGED diskVars
        PROVE  FileScanned(f)'
    <3>1. Valid(tree', mtime', manifest') => Valid(tree, mtime, manifest)
      BY <2>2 DEF Valid, Exists, diskVars
    <3>2. pc = "check" /\ pc' = "check" /\ UNCHANGED <<idx, mods, tree>>
      BY <1>1, <2>2 DEF CheckEntry, diskVars
    <3> QED BY <3>1, <3>2, RightSame DEF FileScanned, Scanning
  <2> QED BY <1>1, <2>1, <2>2 DEF CheckEntry
<1>2. CASE CacheHit
  <2>1. pc = "check" /\ pc' = "done" /\ UNCHANGED <<idx, mods, tree>> /\ manifest = {}
    BY <1>2 DEF CacheHit, diskVars
  <2>2. Right(idx, mods, f)
    BY <2>1 DEF FileScanned, Valid
  <2> QED BY <2>1, <2>2, RightSame DEF FileScanned, Scanning
<1> QED
  BY <1>1, <1>2, StartRootScans, VisitScans, VisitFileScans, EndRootScans, EndWalkScans
     DEF WalkStep

LEMMA FileKept ==
  ASSUME UNCHANGED walkVars, NEW f, tree'[f] = tree[f],
         pc = "check" /\ Valid(tree', mtime', manifest) => Valid(tree, mtime, manifest),
         FileScanned(f)
  PROVE  FileScanned(f)'
<1>1. /\ UNCHANGED <<pc, mods, jobs, todo, cur, manifest, idx>> /\ Job' = Job /\ Open' = Open
  BY DEF walkVars, Job, Open
<1> QED BY <1>1, RightSame DEF FileScanned, Scanning, Exists

(* A walk may begin with a cache: its manifest is checked entry by entry,  *)
(* and a file that is quiet all the while is as it was when the cache, were*)
(* it valid, was right.                                                    *)
LEMMA StartScans ==
  ASSUME IgnoresFixed, TreeClosed, IndexerInv, NEW ms \in ModuleLists, StartWalk(ms),
         NEW f \in PhpFile
  PROVE  FileScanned(f)'
<1> USE DEF IndexerInv, ExactInv
<1>1. CASE BeginScan(ms)
  BY <1>1, ScanStartsRight
<1>2. CASE /\ Loadable(ms) /\ pc' = "check" /\ mods' = ms
           /\ manifest' = cache.manifest /\ idx' = cache.idx /\ UNCHANGED diskVars
  <2>1. cache \in Saved /\ cache.mods = ms
    BY <1>2 DEF Loadable, Saved
  <2>2. Valid(tree, mtime, cache.manifest) => cache.idx = FreshIndex(ms)
    BY <2>1, SavedIsSound DEF CacheSound, CacheValid, Valid, Exists
  <2>3. Right(FreshIndex(ms), ms, f)
    BY FreshIsRight DEF WalkTypeInv
  <2>4. PICK I : I = cache.idx
    OBVIOUS
  <2>5. Valid(tree, mtime, cache.manifest) => Right(I, ms, f)
    BY <2>2, <2>3, <2>4
  <2>6. Right(I, ms, f) => Right(I, ms, f)'
    BY <1>2, RightStays DEF diskVars
  <2>7. Right(I, ms, f)' => Right(idx, mods, f)'
    BY <1>2, <2>4 DEF Right, DefsRight, UsesRight
  <2>8. Valid(tree', mtime', manifest') => Valid(tree, mtime, cache.manifest)
    BY <1>2 DEF diskVars
  <2> QED BY <1>2, <2>5, <2>6, <2>7, <2>8 DEF FileScanned, Scanning
<1> QED BY <1>1, <1>2 DEF StartWalk

LEMMA StepScan ==
  ASSUME IgnoresFixed, RootsFixed, IndexerInv, TreeClosed, OpenInv, QueueInv, ScanInv,
         [Next]_vars
  PROVE  ScanInv'
<1> USE DEF IndexerInv, ExactInv, watchVars, loopVars
<1>1. CASE OutsideChange
  <2> SUFFICES ASSUME spc = "walking", NEW f \in PhpFile, Quiet(f)' PROVE FileScanned(f)'
    BY <1>1 DEF OutsideChange, ScanInv
  <2>1. WalkTypeOK /\ DiskChange /\ UNCHANGED walkVars
    BY <1>1 DEF OutsideChange, DiskChange, WalkTypeInv
  <2>2. Quiet(f) /\ tree'[f] = tree[f]
    BY <1>1, <2>1, QuietUnchanged
  <2>3. pc = "check" /\ Valid(tree', mtime', manifest) => Valid(tree, mtime, manifest)
    <3>1. PICK M \in SUBSET Entry : M = manifest
      BY DEF WalkTypeInv, WalkTypeOK
    <3>2. pc = "check" => Older(M)
      BY <3>1 DEF OpenInv
    <3> QED BY <2>1, <3>1, <3>2, DiskKeepsValid
  <2> QED BY <2>1, <2>2, <2>3, FileKept DEF ScanInv
<1>2. CASE CallWalk
  BY <1>2, StartScans DEF CallWalk, ParsedTyped, ScanInv
<1>3. CASE Indexing
  <2> SUFFICES ASSUME NEW f \in PhpFile, Quiet(f)' PROVE FileScanned(f)'
    BY DEF ScanInv
  <2>1. Quiet(f)
    BY <1>3 DEF Indexing, serverVars, Quiet, Pending
  <2> QED BY <1>3, <2>1, WalkScans DEF Indexing, ScanInv
<1>4. CASE UNCHANGED walkVars /\ UNCHANGED diskVars /\ UNCHANGED <<spc, events, changed, unseen>>
  <2> SUFFICES ASSUME spc = "walking", NEW f \in PhpFile, Quiet(f)' PROVE FileScanned(f)'
    BY <1>4 DEF ScanInv
  <2>1. Quiet(f)
    BY <1>4 DEF Quiet, Pending
  <2>2. UNCHANGED <<tree, mtime>>
    BY <1>4 DEF diskVars
  <2> QED BY <1>4, <2>1, <2>2, FileKept DEF ScanInv
<1>5. CASE Saving \/ TimerFires \/ UNCHANGED vars
  BY <1>4, <1>5
     DEF Saving, saveCache, serverVars, TimerFires, vars, walkVars, diskVars, indexerVars
<1>6. CASE spc' # "walking"
  BY <1>6 DEF ScanInv
<1>7. CASE Goroutine
  BY <1>2, <1>3, <1>6, <1>7
     DEF Goroutine, Initialized, ParseModules, Publish, startWatcher, WatchRoot, AddWatch,
         EnterLoop, ReindexFile, Swap
<1>8. CASE HandleEvent \/ reindexFiles \/ Restart
  BY <1>6, <1>8 DEF HandleEvent, reindexFiles, Restart
<1> QED BY <1>1, <1>5, <1>7, <1>8 DEF Next, Rest

-----------------------------------------------------------------------------
(* The published index. *)

LEMMA IndexKept ==
  ASSUME IndexInv, UNCHANGED <<viewIdx, next, modules, batch>>,
         Published' => Published, spc' = "incremental" => spc = "incremental",
         \A f \in PhpFile : Quiet(f)' => Quiet(f) /\ tree'[f] = tree[f]
  PROVE  IndexInv'
<1>1. PICK I, J, ms : I = viewIdx /\ J = next /\ ms = modules
  OBVIOUS
<1>2. InScope' = InScope /\ InScope \subseteq PhpFile
  BY DEF InScope
<1>3. ASSUME NEW f \in PhpFile, Quiet(f)'
      PROVE  /\ Quiet(f)
             /\ Right(viewIdx, modules, f) => Right(viewIdx, modules, f)'
             /\ Right(next, modules, f) => Right(next, modules, f)'
  <2>1. Quiet(f) /\ tree'[f] = tree[f]
    BY <1>3
  <2>2. /\ Right(I, ms, f) => Right(I, ms, f)'
        /\ Right(J, ms, f) => Right(J, ms, f)'
    BY <2>1, RightStays
  <2>3. /\ Right(I, ms, f)' => Right(viewIdx, modules, f)'
        /\ Right(J, ms, f)' => Right(next, modules, f)'
    BY <1>1 DEF Right, DefsRight, UsesRight
  <2> QED BY <1>1, <2>1, <2>2, <2>3
<1>4. ViewPaths(modules)' = ViewPaths(modules)
  BY DEF ViewPaths
<1> QED BY <1>2, <1>3, <1>4 DEF IndexInv

LEMMA PublishIndex ==
  ASSUME IndexerInv, PublishInv, ScanInv, Publish
  PROVE  IndexInv'
<1>1. /\ spc = "walking" /\ pc = "done" /\ spc' # "incremental"
      /\ viewIdx' = idx /\ modules' = mods /\ idx \in Index
      /\ UNCHANGED <<tree, events, unseen, changed>>
  BY DEF Publish, Return, PublishInv, IndexerInv, WalkTypeInv, WalkTypeOK, loopVars, diskVars
<1>2. ASSUME NEW f \in PhpFile, Quiet(f)' PROVE Right(viewIdx, modules, f)'
  <2>1. Quiet(f)
    BY <1>1, <1>2 DEF Quiet, Pending
  <2>2. Right(idx, mods, f)
    BY <1>1, <2>1 DEF ScanInv, FileScanned
  <2>3. PICK I, ms : I = idx /\ ms = mods
    OBVIOUS
  <2>4. Right(I, ms, f)'
    BY <1>1, <2>2, <2>3, RightStays
  <2> QED BY <1>1, <2>3, <2>4 DEF Right, DefsRight, UsesRight
<1>3. InScope' \subseteq PhpFile
  BY DEF InScope
<1> QED BY <1>1, <1>2, <1>3 DEF IndexInv

(* Without a full walk the changed paths are no view files. *)
LEMMA BatchIndex ==
  ASSUME QueueInv, IndexInv, reindexFiles
  PROVE  IndexInv'
<1>1. CASE spc' = "parse"
  BY <1>1 DEF IndexInv, Published
<1>2. CASE spc' = "incremental" /\ batch' = changed /\ next' = viewIdx /\ ~NeedsFullWalk(changed)
  <2>1. /\ Published /\ viewIdx \in Index /\ changed \subseteq PhpFile
        /\ changed' = {} /\ UNCHANGED <<tree, modules, events, unseen>>
    BY DEF reindexFiles, Published, IndexInv, QueueInv, indexerVars
  <2>2. ASSUME NEW f \in changed
        PROVE  /\ \A R \in ViewPaths(modules) : ~Under(R, f)
               /\ \A R \in Dir : <<f, R>> \notin viewIdx.defs
    <3>1. NamesForFile(f) = {} /\ ~isViewDefinitionPath(f, BuildViewRoots(modules))
      BY <1>2 DEF NeedsFullWalk
    <3>2. \A R \in Dir : <<f, R>> \notin viewIdx.defs
      BY <3>1 DEF NamesForFile
    <3>3. f \in PhpFile
      BY <2>1
    <3> QED BY <3>1, <3>2, <3>3 DEF isViewDefinitionPath, ViewPaths, Range
  <2>3. ASSUME NEW f \in InScope \ changed, Quiet(f)' PROVE Right(next, modules, f)'
    <3>1. Quiet(f)
      BY <2>1, <2>3 DEF Quiet, Pending
    <3>2. Right(viewIdx, modules, f)
      BY <2>1, <3>1 DEF IndexInv
    <3>3. PICK I, ms : I = viewIdx /\ ms = modules
      OBVIOUS
    <3>4. Right(I, ms, f)'
      BY <2>1, <3>2, <3>3, RightStays
    <3> QED BY <1>2, <2>1, <3>3, <3>4 DEF Right, DefsRight, UsesRight
  <2>4. InScope' = InScope /\ ViewPaths(modules)' = ViewPaths(modules)
    BY <2>1 DEF InScope, ViewPaths
  <2> QED BY <1>2, <2>1, <2>2, <2>3, <2>4 DEF IndexInv, Published
<1> QED BY <1>1, <1>2 DEF reindexFiles

LEMMA ReindexedRight ==
  ASSUME NEW I \in Index, NEW g \in PhpFile, WalkTypeOK
  PROVE  LET J == Reindexed(g, I) IN
         /\ J \in Index /\ J.defs = I.defs
         /\ \A u : u[1] # g => (u \in J.uses <=> u \in I.uses)
         /\ \A t \in Parses : <<g, t>> \in J.uses <=> t = tree[g]
<1> DEFINE kept == {u \in I.uses : u[1] # g}
<1>1. withoutFile(I, g) = [I EXCEPT !.uses = kept]
  BY DEF withoutFile
<1>2. PICK K : K = kept
  OBVIOUS
<1>3. /\ I = [defs |-> I.defs, uses |-> I.uses, globs |-> I.globs]
      /\ I.defs \in SUBSET (PhpFile \X Dir) /\ I.globs \in SUBSET (PhpFile \X GlobalText)
      /\ K \in SUBSET (PhpFile \X Parses)
      /\ \A u : u[1] # g => (u \in K <=> u \in I.uses)
      /\ \A t : <<g, t>> \notin K
  BY <1>2 DEF Index
<1> HIDE DEF kept
<1>4. withoutFile(I, g) = [I EXCEPT !.uses = K]
  BY <1>1, <1>2
<1>5. withoutFile(I, g) = [defs |-> I.defs, uses |-> K, globs |-> I.globs]
  BY <1>3, <1>4
<1>6. CASE Exists(g) /\ tree[g] \in Parses
  <2>1. Reindexed(g, I) = [withoutFile(I, g) EXCEPT !.uses = @ \cup {<<g, tree[g]>>}]
    BY <1>6 DEF Reindexed
  <2>2. Reindexed(g, I) = [defs |-> I.defs, uses |-> K \cup {<<g, tree[g]>>}, globs |-> I.globs]
    BY <1>5, <2>1
  <2>3. K \cup {<<g, tree[g]>>} \in SUBSET (PhpFile \X Parses)
    BY <1>3, <1>6
  <2> QED BY <1>3, <2>2, <2>3 DEF Index
<1>7. CASE ~(Exists(g) /\ tree[g] \in Parses)
  <2>1. Reindexed(g, I) = withoutFile(I, g)
    BY <1>7 DEF Reindexed
  <2>2. tree[g] \notin Parses
    BY <1>7, TreeAssumption DEF Exists
  <2> QED BY <1>3, <1>5, <2>1, <2>2 DEF Index
<1> QED BY <1>6, <1>7

LEMMA ReindexIndex ==
  ASSUME EditsVisible, WalkTypeOK, QueueInv, IndexInv, ReindexFile
  PROVE  IndexInv'
<1>1. PICK g \in batch : batch' = batch \ {g} /\ next' = Reindexed(g, next)
  BY DEF ReindexFile
<1>2. /\ spc = "incremental" /\ spc' = spc /\ next \in Index
      /\ UNCHANGED <<tree, modules, events, unseen, changed>>
      /\ g \in Editable \cap PhpFile /\ modules \in ModuleLists
  BY DEF ReindexFile, IndexInv, indexerVars, QueueInv
<1>3. PICK I \in Index, ms \in ModuleLists : I = next /\ ms = modules
  BY <1>2
<1>4. PICK J : J = Reindexed(g, I)
  OBVIOUS
<1>5. /\ J \in Index /\ J.defs = I.defs
      /\ \A u : u[1] # g => (u \in J.uses <=> u \in I.uses)
      /\ \A t \in Parses : <<g, t>> \in J.uses <=> t = tree[g]
  BY <1>2, <1>4, ReindexedRight
<1>6. InScope' = InScope /\ InScope \subseteq PhpFile /\ next' = J /\ modules' = ms
  BY <1>1, <1>2, <1>3, <1>4 DEF InScope
<1>7. ASSUME NEW f \in InScope \ batch', Quiet(f)' PROVE Right(J, ms, f)
  <2>1. Quiet(f)
    BY <1>2, <1>7 DEF Quiet, Pending
  <2>2. CASE f # g
    <3>1. Right(I, ms, f)
      BY <1>1, <1>2, <1>3, <1>7, <2>1, <2>2 DEF IndexInv
    <3> QED BY <1>5, <2>2, <3>1 DEF Right, DefsRight, UsesRight
  <2>3. CASE f = g
    <3>1. /\ \A R \in ViewPaths(ms) : ~Under(R, g)
          /\ \A R \in Dir : <<g, R>> \notin I.defs
      BY <1>2, <1>3 DEF IndexInv
    <3>2. DefsRight(J, ms, g)
      BY <1>5, <3>1 DEF DefsRight, Visible
    <3>3. \E D \in ScanPaths(ms) : Under(D, g)
      <4>1. ~isViewDefinitionPath(g, BuildViewRoots(ms))
        BY <3>1 DEF isViewDefinitionPath, ViewPaths, Range
      <4> QED BY <1>3, <1>7, <2>3, <4>1 DEF InScope, ScanPaths
    <3>4. \E D \in ScanPaths(ms) : Visible(D, g)
      BY <1>2, <3>3 DEF EditsVisible
    <3>5. UsesRight(J, ms, g)
      BY <1>5, <3>4 DEF UsesRight
    <3> QED BY <2>3, <3>2, <3>5 DEF Right
  <2> QED BY <2>2, <2>3
<1>8. ASSUME NEW f \in InScope \ batch', Quiet(f)' PROVE Right(next, modules, f)'
  <2>1. Right(J, ms, f)'
    BY <1>2, <1>7, <1>8, RightStays
  <2> QED BY <1>6, <2>1 DEF Right, DefsRight, UsesRight
<1>9. \A f \in batch' : /\ \A R \in ViewPaths(modules)' : ~Under(R, f)
                        /\ \A R \in Dir : <<f, R>> \notin J.defs
  BY <1>1, <1>2, <1>3, <1>5 DEF IndexInv, ViewPaths
<1> QED BY <1>2, <1>5, <1>6, <1>8, <1>9 DEF IndexInv, Published

LEMMA StepIndex ==
  ASSUME EditsVisible, IndexerInv, PublishInv, QueueInv, ScanInv, IndexInv, [Next]_vars
  PROVE  IndexInv'
<1> USE DEF IndexerInv, watchVars, loopVars, Published
<1>0. WalkTypeOK
  BY DEF WalkTypeInv
<1>1. CASE OutsideChange
  <2>1. \A f \in PhpFile : Quiet(f)' => Quiet(f) /\ tree'[f] = tree[f]
    BY <1>0, <1>1, QuietUnchanged
  <2> QED BY <1>1, <2>1, IndexKept DEF OutsideChange
<1>2. CASE HandleEvent
  <2>1. \A f \in PhpFile : Quiet(f)' => Quiet(f) /\ tree'[f] = tree[f]
    BY <1>2, QuietHandled DEF HandleEvent, indexerVars
  <2> QED BY <1>2, <2>1, IndexKept DEF HandleEvent
<1>3. CASE /\ UNCHANGED <<tree, events, changed, unseen, viewIdx, next, modules, batch>>
           /\ Published' => Published
           /\ (spc' = "incremental") => (spc = "incremental")
  <2>1. \A f \in PhpFile : Quiet(f)' => Quiet(f) /\ tree'[f] = tree[f]
    BY <1>3 DEF Quiet, Pending
  <2> QED BY <1>3, <2>1, IndexKept
<1>4. CASE TimerFires \/ Saving \/ UNCHANGED vars
  BY <1>3, <1>4 DEF TimerFires, Saving, saveCache, serverVars, diskVars, indexerVars, vars
<1>5. CASE startWatcher \/ WatchRoot \/ AddWatch \/ EnterLoop
  BY <1>3, <1>5 DEF startWatcher, WatchRoot, AddWatch, EnterLoop, indexerVars
<1>6. CASE Swap
  <2>1. /\ spc = "incremental" /\ spc' = "loop" /\ viewIdx' = next /\ batch = {}
        /\ next \in Index /\ UNCHANGED <<tree, events, changed, unseen, modules>>
    BY <1>6 DEF Swap, IndexInv, indexerVars
  <2>2. PICK I, ms : I = next /\ ms = modules
    OBVIOUS
  <2>3. ASSUME NEW f \in InScope, Quiet(f)' PROVE Right(viewIdx, modules, f)'
    <3>1. Quiet(f)
      BY <2>1, <2>3 DEF Quiet, Pending
    <3>2. Right(I, ms, f)
      BY <2>1, <2>2, <3>1 DEF IndexInv
    <3>3. Right(I, ms, f)'
      BY <2>1, <3>2, RightStays
    <3> QED BY <2>1, <2>2, <3>3 DEF Right, DefsRight, UsesRight
  <2>4. InScope' = InScope
    BY <2>1 DEF InScope
  <2> QED BY <2>1, <2>3, <2>4 DEF IndexInv
<1>7. CASE spc' \in {"start", "parse", "walk", "walking"}
  BY <1>7 DEF IndexInv
<1>8. CASE Goroutine
  BY <1>0, <1>5, <1>6, <1>7, <1>8, PublishIndex, ReindexIndex
     DEF Goroutine, Initialized, ParseModules, CallWalk, Indexing, serverVars
<1>9. CASE reindexFiles
  BY <1>9, BatchIndex
<1> QED BY <1>1, <1>2, <1>4, <1>7, <1>8, <1>9 DEF Next, Rest, Restart

(* No reported change is lost: whenever watchLoop is at its select, a file *)
(* on which the published index is behind waits in changedPaths or in the  *)
(* queue of events, unless its latest change raised no event.  This holds  *)
(* for every project, every interleaving of changes with walks, with cache *)
(* hits and with incremental reindexes, and after crashes; the .gitignore  *)
(* files and the roots are as they were, and no .gitignore hides a file    *)
(* that changes from the walks of the sources.                             *)
THEOREM NothingIsLost ==
  ASSUME IgnoresFixed, RootsFixed, EditsVisible
  PROVE  Spec => []NoLostUpdate
<1> DEFINE Inv == /\ IndexerInv /\ DefsInv /\ PublishInv
                  /\ TreeClosed /\ OpenInv /\ QueueInv /\ ScanInv /\ IndexInv
<1>1. Init => Inv
  <2> SUFFICES ASSUME Init PROVE Inv
    OBVIOUS
  <2>1. ScanInv /\ IndexInv
    BY DEF Init, ServerIdle, ScanInv, IndexInv, Published
  <2> QED
    BY <2>1, InitIndexer, InitDefs, InitPublish, InitClosed, InitOpen, InitQueue DEF Init
<1>2. Inv /\ [Next]_vars => Inv'
  <2> SUFFICES ASSUME Inv, [Next]_vars PROVE Inv'
    OBVIOUS
  <2>1. ParsedTyped /\ WalkTypeInv /\ WalkTypeOK /\ CacheInv /\ MatchInv /\ RunInv
    BY DEF IndexerInv, ExactInv, WalkTypeInv
  <2>2. DefsInv' /\ OpenInv'
    <3>1. CASE [WalkNext]_indexerVars
      BY <2>1, <3>1, StepDefs, StepOpen
    <3>2. CASE Restart
      BY <3>2, CrashKeepsDefs DEF Restart, OpenInv, Scanning
    <3> QED BY <2>1, <3>1, <3>2, IndexerStep
  <2>3. IndexerInv' /\ PublishInv'
    BY StepIndexer, StepPublish
  <2>4. TreeClosed' /\ QueueInv'
    BY <2>1, StepClosed, StepQueue
  <2>5. ScanInv' /\ IndexInv'
    BY StepScan, StepIndex
  <2> QED BY <2>2, <2>3, <2>4, <2>5
<1>3. Inv => NoLostUpdate
  <2> SUFFICES ASSUME Inv, spc = "loop", NEW f \in InScope, ~Pending(f), f \notin unseen
               PROVE  Settled(f)
    BY DEF NoLostUpdate
  <2>1. /\ f \in PhpFile /\ Quiet(f) /\ viewIdx \in Index /\ Right(viewIdx, modules, f)
    BY DEF InScope, Quiet, IndexInv, Published
  <2> QED
    BY <2>1, RightIsSettled DEF QueueInv, IndexerInv, ExactInv, WalkTypeInv
<1> HIDE DEF Inv
<1> QED BY <1>1, <1>2, <1>3, PTL DEF Spec
=============================================================================
