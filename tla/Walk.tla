-------------------------------- MODULE Walk --------------------------------
(***************************************************************************)
(* The indexer of internal/indexer/view: Walk, its two phases over the     *)
(* file system, the manifest of mtimes it collects, the cache file it      *)
(* leaves behind and the validation of that cache by the next Walk.        *)
(*                                                                         *)
(* The file system changes while a Walk runs: every stat, every read of a  *)
(* directory and every read of a file is a step of its own.                *)
(*                                                                         *)
(* Abstractions.  A PHP text stands for the usages extracted from it.  The *)
(* clock ticks at every change, so two states of a node never share an     *)
(* mtime.  filepath.WalkDir visits in lexical order; here the entries of a *)
(* directory come in any order, parents before children.  The cache file   *)
(* is replaced in one step: CacheFile.tla shows when that is so.           *)
(***************************************************************************)
EXTENDS Project, FiniteSets

CONSTANTS
  Dir,          \* the directories that may exist; <<>>, the root, always does
  IgnoreFile,   \* the paths of .gitignore files that may exist
  PhpText,      \* what a .php file may hold
  Parses,       \* the texts without a syntax error
  GlobalText,   \* the texts that call View::set_global or bind_global
  IgnoreText,   \* what a .gitignore may hold
  IgnoredNames, \* IgnoredNames[t]: the names the patterns of t match
  ModuleLists,  \* the module lists a caller may pass to Walk
  Tree0,        \* the file system at the start
  Editable,     \* the nodes that other programs change
  MaxTime,      \* bound: changes of the file system
  MaxSavers,    \* bound: saveCache goroutines alive at once
  None          \* no cache, no current entry

Node == Dir \cup PhpFile \cup IgnoreFile

Absent == "absent"
Directory == "dir"

TextOf(p) == IF p \in PhpFile THEN PhpText ELSE IgnoreText

Thing(p) == IF p \in Dir THEN {Absent, Directory} ELSE {Absent} \cup TextOf(p)

ASSUME TreeAssumption ==
  /\ <<>> \in Dir
  /\ \A p \in Node \ {<<>>} : Parent(p) \in Dir /\ Parent(p) # p
  /\ Dir \cap PhpFile = {} /\ Dir \cap IgnoreFile = {}
  /\ PhpFile \cap IgnoreFile = {}
  /\ Absent \notin PhpText \cup IgnoreText
  /\ Parses \subseteq PhpText /\ GlobalText \subseteq Parses
  /\ Tree0 \in [Node -> {Absent, Directory} \cup PhpText \cup IgnoreText]
  /\ \A p \in Node : Tree0[p] \in Thing(p)
  /\ Editable \subseteq Node \ {<<>>}
  /\ None \notin Node
  /\ MaxTime \in Nat

(* A path is a sequence of names. *)
ASSUME PathAssumption == Node \subseteq Seq(STRING)

(* What is there at the start is in a directory that is there. *)
ASSUME ParentAssumption ==
  \A p \in Node \ {<<>>} : Tree0[p] # Absent => Tree0[Parent(p)] # Absent

VARIABLES
  tree,      \* the file system: what each node is now
  mtime,     \* the modification time of each node
  now,       \* the clock of the file system
  pc,        \* where Walk is
  mods,      \* its argument
  jobs,      \* the roots it has still to walk, both phases
  init,      \* the matchers of the project root's .gitignore
  matchers,  \* the .gitignore matchers gathered below the current root
  todo,      \* entries listed and not yet visited
  cur,       \* the entry being visited
  manifest,  \* (path, mtime) pairs: to be checked, or gathered so far
  idx,       \* the index being built
  began,     \* the clock when Walk was called
  saving,    \* the saveCache goroutines that have not finished
  cache      \* the decoded cache file, or None

diskVars == <<tree, mtime, now>>
walkVars == <<pc, mods, jobs, init, matchers, todo, cur, manifest, idx, began>>
cacheVars == <<saving, cache>>
indexerVars == <<tree, mtime, now, pc, mods, jobs, init, matchers, todo, cur,
          manifest, idx, began, saving, cache>>

-----------------------------------------------------------------------------
(* The file system, changed by editors, checkouts and generators.           *)

Exists(p) == tree[p] # Absent

Children(d) == {p \in Node \ {<<>>} : Parent(p) = d /\ Exists(p)}

(* A node's own change does not touch its directory; a new or a removed     *)
(* name does.  (The mtime of an absent node is never read.)                 *)
Touch(nodes) ==
  /\ now < MaxTime
  /\ now' = now + 1
  /\ mtime' = [p \in Node |-> IF p \in nodes THEN now + 1 ELSE mtime[p]]

Write(f, t) ==
  /\ f \in Editable \ Dir /\ Exists(f) /\ t \in TextOf(f) \ {tree[f]}
  /\ tree' = [tree EXCEPT ![f] = t]
  /\ Touch({f})

Create(p, t) ==
  /\ p \in Editable /\ ~Exists(p) /\ Exists(Parent(p))
  /\ t \in Thing(p) \ {Absent}
  /\ tree' = [tree EXCEPT ![p] = t]
  /\ Touch({p, Parent(p)})

Delete(p) ==
  /\ p \in Editable /\ Exists(p) /\ (p \in Dir => Children(p) = {})
  /\ tree' = [tree EXCEPT ![p] = Absent]
  /\ Touch({p, Parent(p)})

DiskChange ==
  \E p \in Editable :
    \/ \E t \in Thing(p) : Write(p, t) \/ Create(p, t)
    \/ Delete(p)

-----------------------------------------------------------------------------
(* The index: view definitions with the root they were found under, and,    *)
(* for usages and globals, the file and the text they were extracted from.  *)

EmptyIndex == [defs |-> {}, uses |-> {}, globs |-> {}]

(* Mutant: a text with a syntax error is extracted from all the same. *)
ExtractFileUsages_Unparsed(f, t, index) ==
  [index EXCEPT !.uses = @ \cup {<<f, t>>},
                !.globs = IF t \in GlobalText THEN @ \cup {<<f, t>>} ELSE @]

ExtractFileUsages(f, t, index) ==
  IF t \in Parses
  THEN [index EXCEPT !.uses = @ \cup {<<f, t>>},
                     !.globs = IF t \in GlobalText THEN @ \cup {<<f, t>>} ELSE @]
  ELSE index

(* .gitignore: a matcher applies to what lies below its base. *)
IgnorePath(d) == d \o <<".gitignore">>

tryLoadIgnoreFile(d) ==
  LET f == IgnorePath(d) IN
  IF f \in IgnoreFile /\ Exists(f)
  THEN {[base |-> d, names |-> IgnoredNames[tree[f]]]}
  ELSE {}

isIgnored(entries, p) ==
  \E m \in entries : /\ Under(m.base, p)
                     /\ \E i \in Len(m.base) + 1 .. Len(p) : p[i] \in m.names

-----------------------------------------------------------------------------
(* Walk.                                                                    *)

Jobs(ms) ==
  LET views == BuildViewRoots(ms)
      dirs == PHPScanDirs(ms)
  IN [i \in 1..Len(views) |-> [phase |-> "views", path |-> views[i].path]]
     \o [i \in 1..Len(dirs) |-> [phase |-> "extract", path |-> dirs[i]]]

Job == Head(jobs)

(* The roots a walk visits are directories of the model. *)
ASSUME JobsAssumption ==
  /\ <<>> \in ModuleLists
  /\ \A ms \in ModuleLists : ms \in Seq([name : STRING, path : Dir])
  /\ \A ms \in ModuleLists : Jobs(ms) \in Seq([phase : {"views", "extract"}, path : Dir])

(* The cache is absent, or of another config: the walk proper begins.  It   *)
(* starts with rootGitIgnores.                                              *)
BeginScan(ms) ==
  /\ pc' = "root"
  /\ mods' = ms
  /\ jobs' = Jobs(ms)
  /\ init' = tryLoadIgnoreFile(<<>>)
  /\ manifest' = {}
  /\ idx' = EmptyIndex
  /\ UNCHANGED <<matchers, todo, cur, saving, cache>>
  /\ UNCHANGED diskVars

(* Mutant: the hash leaves out the module list. *)
Loadable_AnyModules(ms) == cache # None

(* The cache file exists, decodes, and its configHash is that of the call. *)
Loadable(ms) == IF cache = None THEN FALSE ELSE cache.mods = ms

StartWalk(ms) ==
  /\ pc = "idle"
  /\ began' = now
  /\ \/ /\ Loadable(ms)
        /\ pc' = "check" /\ mods' = ms
        /\ manifest' = cache.manifest
        /\ idx' = cache.idx
        /\ UNCHANGED <<jobs, init, matchers, todo, cur, saving, cache>>
        /\ UNCHANGED diskVars
     \/ ~Loadable(ms) /\ BeginScan(ms)

(* One os.Stat of a manifest entry; a mismatch abandons the cache. *)
CheckEntry ==
  /\ pc = "check" /\ UNCHANGED began
  /\ \E e \in manifest :
       \/ /\ Exists(e[1]) /\ mtime[e[1]] = e[2]
          /\ manifest' = manifest \ {e}
          /\ UNCHANGED <<pc, mods, jobs, init, matchers, todo, cur, idx, saving, cache>>
          /\ UNCHANGED diskVars
       \/ /\ ~(Exists(e[1]) /\ mtime[e[1]] = e[2])
          /\ BeginScan(mods)

CacheHit ==
  /\ pc = "check" /\ manifest = {}
  /\ pc' = "done"
  /\ UNCHANGED <<mods, jobs, init, matchers, todo, cur, manifest, idx, began>>
  /\ UNCHANGED cacheVars /\ UNCHANGED diskVars

(* os.Stat of a root: one that is missing is skipped without a trace. *)
StartRoot ==
  /\ pc = "root" /\ jobs # <<>>
  /\ IF Exists(Job.path)
     THEN /\ pc' = "visit" /\ todo' = {Job.path} /\ matchers' = init
          /\ UNCHANGED jobs
     ELSE jobs' = Tail(jobs) /\ UNCHANGED <<pc, todo, matchers>>
  /\ UNCHANGED <<mods, init, cur, manifest, idx, began>>
  /\ UNCHANGED cacheVars /\ UNCHANGED diskVars

(* What the manifest gets for an entry.  Mutant: nothing for a directory.   *)
StatEntry_FilesOnly(p) == IF Exists(p) /\ p \notin Dir THEN {<<p, mtime[p]>>} ELSE {}

StatEntry(p) == IF Exists(p) THEN {<<p, mtime[p]>>} ELSE {}

(* appendStat, before anything of the entry is read.  A root that vanished  *)
(* is reported to the callback as an error and left; a listed entry that    *)
(* vanished is visited, only without an entry in the manifest.              *)
appendStat ==
  /\ pc = "visit"
  /\ \E p \in todo :
       /\ todo' = todo \ {p}
       /\ manifest' = manifest \cup StatEntry(p)
       /\ IF p = Job.path /\ ~Exists(p)
          THEN UNCHANGED <<pc, cur>>
          ELSE pc' = "entry" /\ cur' = p
  /\ UNCHANGED <<mods, jobs, init, matchers, idx, began>>
  /\ UNCHANGED cacheVars /\ UNCHANGED diskVars

(* The matchers once d is entered.  Mutant: only the root's count. *)
Gathered_RootOnly(d) == matchers

Gathered(d) == matchers \cup tryLoadIgnoreFile(d)

(* A directory: skipped when ignored, otherwise its .gitignore is loaded    *)
(* and then it is listed.                                                   *)
VisitDir ==
  /\ pc = "entry" /\ cur \in Dir
  /\ IF isIgnored(matchers, cur)
     THEN pc' = "visit" /\ cur' = None /\ UNCHANGED matchers
     ELSE /\ pc' = "list" /\ matchers' = Gathered(cur)
          /\ UNCHANGED cur
  /\ UNCHANGED <<mods, jobs, init, todo, manifest, idx, began>>
  /\ UNCHANGED cacheVars /\ UNCHANGED diskVars

ListDir ==
  /\ pc = "list"
  /\ pc' = "visit"
  /\ todo' = todo \cup Children(cur)
  /\ cur' = None
  /\ UNCHANGED <<mods, jobs, init, matchers, manifest, idx, began>>
  /\ UNCHANGED cacheVars /\ UNCHANGED diskVars

(* A file: phase 1 records a definition from the name alone, phase 2 reads  *)
(* and parses it and skips it when either fails.                            *)
Indexed(f) ==
  IF f \notin PhpFile \/ isIgnored(matchers, f) THEN idx
  ELSE IF Job.phase = "views" THEN [idx EXCEPT !.defs = @ \cup {<<f, Job.path>>}]
  ELSE IF Exists(f) THEN ExtractFileUsages(f, tree[f], idx)
  ELSE idx

VisitFile ==
  /\ pc = "entry" /\ cur \notin Dir
  /\ idx' = Indexed(cur)
  /\ pc' = "visit" /\ cur' = None
  /\ UNCHANGED <<mods, jobs, init, matchers, todo, manifest, began>>
  /\ UNCHANGED cacheVars /\ UNCHANGED diskVars

(* The mtimes that count are those from before the reads.  Mutant: they are *)
(* taken again when the root is done.                                       *)
KeptManifest_StatLate == {<<e[1], mtime[e[1]]>> : e \in manifest}

KeptManifest == manifest

EndRoot ==
  /\ pc = "visit" /\ todo = {}
  /\ pc' = "root" /\ jobs' = Tail(jobs) /\ matchers' = {}
  /\ manifest' = KeptManifest
  /\ UNCHANGED <<mods, init, todo, cur, idx, began>>
  /\ UNCHANGED cacheVars /\ UNCHANGED diskVars

(* Both phases are over: "go saveCache" and return. *)
EndWalk ==
  /\ pc = "root" /\ jobs = <<>>
  /\ Cardinality(saving) < MaxSavers
  /\ saving' = saving \cup {[mods |-> mods, manifest |-> manifest, idx |-> idx]}
  /\ pc' = "done"
  /\ UNCHANGED <<mods, jobs, init, matchers, todo, cur, manifest, idx, began, cache>>
  /\ UNCHANGED diskVars

(* A goroutine of saveCache finishes: it renames its file into place, or    *)
(* gives up on an error (saving is best-effort).                            *)
saveCache ==
  /\ \E s \in saving : /\ saving' = saving \ {s}
                       /\ cache' \in {s, cache}
  /\ UNCHANGED walkVars /\ UNCHANGED diskVars

(* The caller takes the result; Walk's locals are gone. *)
Return ==
  /\ pc = "done"
  /\ pc' = "idle" /\ mods' = <<>> /\ init' = {} /\ manifest' = {}
  /\ idx' = EmptyIndex /\ began' = 0
  /\ UNCHANGED <<jobs, matchers, todo, cur>>
  /\ UNCHANGED cacheVars /\ UNCHANGED diskVars

WalkStep ==
  \/ CheckEntry \/ CacheHit \/ StartRoot \/ appendStat \/ VisitDir \/ ListDir
  \/ VisitFile \/ EndRoot \/ EndWalk

WalkIdle ==
  /\ pc = "idle" /\ mods = <<>> /\ jobs = <<>> /\ init = {} /\ matchers = {}
  /\ todo = {} /\ cur = None /\ manifest = {} /\ idx = EmptyIndex /\ began = 0
  /\ saving = {}

WalkInit ==
  /\ tree = Tree0 /\ mtime = [p \in Node |-> 0] /\ now = 0
  /\ WalkIdle
  /\ cache = None

Outside == DiskChange /\ UNCHANGED walkVars /\ UNCHANGED cacheVars

WalkNext ==
  \/ Outside
  \/ \E ms \in ModuleLists : StartWalk(ms)
  \/ WalkStep
  \/ saveCache
  \/ Return

WalkSpec == WalkInit /\ [][WalkNext]_indexerVars
-----------------------------------------------------------------------------
(* What Walk promises, without its steps: a node is reached from a root     *)
(* when every node on the way exists and none is ignored by the .gitignore  *)
(* of the project root or of a directory on the way.                        *)

Ancestors(root, p) == {SubSeq(p, 1, k) : k \in Len(root) .. Len(p)}

Ignorers(root, p) ==
  tryLoadIgnoreFile(<<>>)
    \cup UNION {tryLoadIgnoreFile(q) : q \in Ancestors(root, p) \ {p}}

Reached(root, p) ==
  /\ Under(root, p)
  /\ \A q \in Ancestors(root, p) : Exists(q) /\ ~isIgnored(Ignorers(root, q), q)

FreshIndex(ms) ==
  LET views == {r.path : r \in Range(BuildViewRoots(ms))}
      source == {f \in PhpFile : /\ \E d \in Range(PHPScanDirs(ms)) : Reached(d, f)
                                 /\ tree[f] \in Parses}
  IN [defs |-> {d \in PhpFile \X views : Reached(d[2], d[1])},
      uses |-> {<<f, tree[f]>> : f \in source},
      globs |-> {<<f, tree[f]>> : f \in {g \in source : tree[g] \in GlobalText}}]

CacheValid(c) == \A e \in c.manifest : Exists(e[1]) /\ mtime[e[1]] = e[2]

Saved == saving \cup ({cache} \ {None})

(* Type correctness of the indexer's state. *)
WalkJob == [phase : {"views", "extract"}, path : Dir]

Entry == Node \X (0..MaxTime)

Index == [defs : SUBSET (PhpFile \X Dir), uses : SUBSET (PhpFile \X Parses),
          globs : SUBSET (PhpFile \X GlobalText)]

Snapshot == [mods : ModuleLists, manifest : SUBSET Entry, idx : Index]

WalkTypeOK ==
  /\ tree \in [Node -> {Absent, Directory} \cup PhpText \cup IgnoreText]
  /\ \A p \in Node : tree[p] \in Thing(p)
  /\ mtime \in [Node -> 0..MaxTime]
  /\ now \in 0..MaxTime /\ began \in 0..MaxTime
  /\ pc \in {"idle", "check", "root", "visit", "entry", "list", "done"}
  /\ mods \in ModuleLists
  /\ jobs \in Seq(WalkJob)
  /\ todo \subseteq Node
  /\ cur \in Node \cup {None}
  /\ manifest \subseteq Entry
  /\ idx \in Index
  /\ saving \subseteq Snapshot
  /\ cache \in Snapshot \cup {None}

(* A cache that validates holds what a walk of the file system, as it is at *)
(* this moment, would find, whatever changed while the cache was being made *)
(* and since: a hit of tryLoadCache is never stale.                         *)
CacheSound == \A c \in Saved : CacheValid(c) => c.idx = FreshIndex(c.mods)

(* The part of CacheSound about contents: every usage and every global in a *)
(* cache that validates was extracted from what its file holds now.         *)
CacheUsesCurrent ==
  \A c \in Saved : CacheValid(c) =>
    \A u \in c.idx.uses \cup c.idx.globs : tree[u[1]] = u[2]

(* A walk during which nothing changes returns exactly the index of the     *)
(* project, from the cache or by scanning.                                  *)
QuietWalkExact == pc = "done" /\ began = now => idx = FreshIndex(mods)
=============================================================================
