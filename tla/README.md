# A verification project for koseven-lsp

koseven-lsp is a language server for the Koseven PHP framework. It indexes the
views of a project and every place that constructs one, keeps that index
current while the project changes, and answers navigation, rename and
diagnostic requests from it. These TLA+ modules model the parts of the server
that keep state or compute something easy to get wrong. TLC checks them on small
instances, and TLAPS proves the results listed under *Proofs* for every instance.
Line numbers refer to the files of the repository.

Contents: [the system](#the-system) · [modules](#modules-and-the-code-they-model) ·
[runs](#runs) · [fairness](#fairness) · [proofs](#proofs) ·
[where code and documentation disagree](#where-code-and-documentation-disagree) ·
[known limits](#known-limits) · [not modelled](#what-is-not-modelled) · [plan](#plan)

## The system

| component | state | operations | correct when |
|---|---|---|---|
| Project layout (`project/roots.go`, `module.go`) | none | view roots of the cascade, directories scanned for PHP | the indexer, the watcher and the rename handler agree on what is a view |
| Bootstrap parser (`project/bootstrap.go`), cascade (`cascade.go`) | none | read the `Kohana::modules([...])` array; the bases of the cascade and the files in them | files are found in the order PHP looks for them, and in no directory it does not look in |
| Walk (`indexer/view/walk.go`, `gitignore.go`) | manifest and index being built | stat, list and read every root in two phases | a walk nothing disturbs returns exactly what is there |
| Index cache (`indexer/view/cache.go`) | `index.gob`, `index.gob.tmp` | validate a manifest of mtimes; save in a goroutine by write-and-rename | a hit is never stale; a reader never sees half a file |
| View index (`indexer/view/index.go`, `types.go`) | usages per name, definitions, globals | add, drop a file, look up, merge variables | an index a handler holds never changes under it |
| Extraction visitor (`indexer/view/extract.go`) | usages, `seen`, `scope` | one pass over the nodes of a file | each construction once, each variable to the view it is set on |
| Background server (`lsp/server.go`) | `modules`, `viewIdx`, watches, `changedPaths`, timer | first walk, watch, debounce, incremental or full reindex | no reported change is lost; the index becomes current |
| Open documents (`lsp/documents.go`) | the text of each open document | open, change, close, read | handlers see the buffer, not the disk |
| Missing-view diagnostics (`lsp/diagnostics.go`) | what the client shows | publish on open and change, clear on close | a warning is about the open text |
| Rename (`lsp/rename.go`) | none; a WorkspaceEdit in flight | `rename`, `willRenameFiles` | edits fit the buffers, do not overlap, and keep references resolved |
| Positions (`lsp/uri.go`, `phputil/utf16.go`) | none | bytes to UTF-16 columns and back | the two directions agree |
| Go to definition (`lsp/definition.go`, `routes.go`) | none | eight finders over the tree of one document, asked in order | a literal leads where the call it belongs to says |
| References, hover, completion, symbols, code actions | none | read-only requests | not modelled, see below |

How they interact. The `initialized` notification starts one goroutine that
parses `bootstrap.php`, calls `Walk`, publishes module list and index under
`Server.mu`, and installs the watches. It hands over to the watch loop, which
collects changed paths until a timer fires and then either reindexes the changed
files one by one or runs the full sequence again. `Walk` reads the cache file
first and starts a goroutine that writes it last. Request handlers run one at a
time beside all that; they take the pointer to the published index under a read
lock and use it without one. Other programs change the file system at any
moment; the kernel reports some of these changes.

What is hard here: a file system that changes between a stat and a read; caches
that are validated by what an earlier walk happened to see; events that come
before a watch, are dropped, or arrive while a reindex runs; a debounce timer;
two goroutines that write the same temporary file; a process that is killed;
Go slices shared between an index being read and one being built; edits computed
partly from the index on disk and partly from unsaved buffers; visitors that go
through nested calls from the outside in, one kind of call each, and whose first
match wins. `PROJECT.json`
lists these hazards at their lines, each with the properties that cover it.

## Modules and the code they model

```
Project ── Walk ── Server ── ServerProofs ¹     CacheFile ──implements── AtomicCache
Documents ── Rename ── DocumentsProofs ¹            └─ CacheFileProofs
Selection ── ViewIndex ── ViewIndexProofs ¹     Extract ── ExtractProofs ¹
    └─ Php ── Lookup, Bootstrap ── Navigation   Position ── PositionProofs ¹
                   └─ NavigationProofs ¹
¹ with SequenceLemmas, which extends Selection
MCWalk, MCServer, MCCacheFile, MCExtract, MCRename, MCViewIndex, MCNavigation: instances for TLC
```

**Project** holds paths as sequences of names, and the view roots and scan
directories of `roots.go` as operators.

**Walk** is `view.Walk`. The file system is `tree` (what each node is) and
`mtime`; `pc` says where the walk is. A cache hit is `StartWalk`, one `CheckEntry`
per manifest entry (an `os.Stat` each) and `CacheHit`. The walk proper takes the
roots of both phases in turn (`StartRoot`, `EndRoot`); for each entry it appends
the mtime to the manifest (`appendStat`), and then loads the `.gitignore` and
lists a directory (`VisitDir`, `ListDir`) or reads a file (`VisitFile`).
`DiskChange` may happen between any two of these steps. A PHP text stands for the
usages extracted from it; a text outside `Parses` is one from which the parser
yields no tree, and a text the parser recovers from is just another text. The
clock ticks at every change, so the resolution of mtimes is not an issue here.
`EndWalk` starts a saver and `saveCache` replaces the cache in one step or gives
up; CacheFile shows when that abstraction holds.

**CacheFile** opens that step up: `index.gob.tmp` and `index.gob` are names of
inodes, savers write with an offset of their own in several writes, any of
`MkdirAll`, `Create`, `Encode`, and the `Remove` or `Rename` after it, may fail (after
the latter the temporary file stays, `LeavesTmp`), the process may be killed at any moment,
and a reader keeps the inode it opened. **AtomicCache** is what saving promises:
one step replaces the cache by a snapshot a saver set out to write, or leaves it.

**Server** composes Walk with the goroutine of `Initialized`, `startWatcher`,
`watchLoop` and `reindexFiles`. `events` is the kernel's queue (bounded, an event
that does not fit is dropped); `changed` and `timer` are the loop's locals.
`ReindexFile` handles one changed file at a time, `Swap` publishes. `Restart` is
a crash: everything but the cache file and the project is lost. `unseen` is a
history variable, the nodes whose latest change raised no event.

**ViewIndex** looks at the same incremental reindex from the memory's side: a
slice is an array and a length, `append` writes in place while there is capacity,
and a handler may hold the index that the next one is filtered from. **Selection**
has the loop that keeps some elements of a slice.

**Php** is a document as the parser hands it to the visitors that only read: a
tree of the calls, arrays, concatenations and literals they look at. It grows
one node at a time in pre-order, so every document within the bounds is a state.
**Lookup** has the visitors of `definition.go`, `routes.go`, `rename.go` and the
name part of `extract.go` as operators on it, under the names of the code; a
cursor is the innermost node it is in, and "the first call that matches" is the
one with the smallest number. `Targets` is the sequence of patterns that
`Definition` tries. **Bootstrap** has `bootstrap.go` and `cascade.go`, and beside
them the text and the directory PHP makes of the same expressions. **Navigation**
says what a literal means, read from the inside out (`Meaning`), and states the
properties.

**Extract** runs the visitor of `extract.go` next to what PHP does with the same
statements. The file is written as it is read: a statement (`Statement`,
`GlobalStatement`, `BeginBody`, `EndBody`) is chosen, then its nodes are visited
in pre-order (`EnterBody`, `ExprAssign`, `ExprMethodCall`, `Construction`,
`tryGlobalStatic`). `exposed` is what PHP sets on which view, `owed` the part of
it that `README.md:21-33` promises to track. Statements run once, in order:
branches and loops are left out.

**Documents** has the document store, the three notifications and the diagnostics
they publish. **Rename** adds the two rename requests and the client that applies
the answer. `rename.go:43-44` says the handler does not rename the file;
`rename.go:104-118` adds the `RenameFile` operations, `README.md:58` agrees, and so
does the model. A text is the sequence of view names in its literals and whether
it parses. A move (`Moves`) goes from a name in a layer to a name in the same or
another layer, or to no name, outside the view roots; `UserMoves` are those of files
that are there. `MaxEdits` bounds the changes and the rename requests together. Requests are handled in sequence, as glsp does, and the client waits
for the answer of a rename before the user goes on; the index and the disk may
change meanwhile.

**Position** converts between byte offsets and UTF-16 columns in both directions,
each with the loop of its own function, over any sequence of bytes.

Definitions whose name continues with an underscore and a word
(`StatEntry_FilesOnly`) are mutants: a plausible bug, to see that a property
notices it. No specification uses them.

## Runs

Each passing run checks every property on all reachable states of its instance.

| run | module | properties | instance |
|---|---|---|---|
| `walk` | MCWalk | `WalkTypeOK` `QuietWalkExact` `CacheSound` | app, system and one module; an ignored file; a directory below a views root and a file in it that come, change and go; 2 module lists, 3 texts, 2 changes, 1 saver at a time |
| `server` | MCServer | `TypeOK` `NoLostUpdate` `ChangesAreTimed` `PublishedTogether` `CacheUsesCurrent` `EventuallyCurrent` | `bootstrap.php` that enables a module while it parses; a module with one view, and a directory below its views root in which another view appears, stops parsing and goes; 3 changes, a queue of 1, 1 crash |
| `cachefile` | MCCacheFile | `CompleteReads` `ReplacesAtomically` | 2 savers in turn, 2 values, 3 writes each, 4 inodes, failures and crashes without limit |
| `extract` | MCExtract | `TypeOK` `RecordedOnce` `AttributionSound` `AttributionComplete` | 2 variables, `factory` and `find_file`, `set` and `render`, 3 statements, chains of 2 calls |
| `rename` | MCRename | `DocTypeOK` `WarningsBelong` `EditsFit` `EditsDisjoint` `ReferencesFollow` | 2 documents that are one of 3 texts of two literals, one of them without a parse; 2 names, 2 layers, batches of 2, also to another layer and out of the view roots; 3 changes and requests in all |
| `position` | Position | `RangeSelectsToken` `PositionRoundsDown` | all files of up to 5 bytes of newlines and of characters of 2 and 4 bytes, whole, cut off or out of order |
| `viewindex` | MCViewIndex | `SnapshotStable` `PublishedExact` `VarsAreUnion` | 2 files, 2 names, 4 exposed variables of 2 names, 3 indexes built, spare capacity 0 or 1 |
| `navigation` | MCNavigation | `CursorMeansItsCall` `OwnNameIsFound` `TargetsOfOneCall` `RecognisersAgree` `CascadeAsDeclared` | all documents of up to 5 nodes with up to 3 kinds of call, all `Kohana::modules` calls of up to 8 nodes with 2 modules; one helper with a controller and an action argument |

What they show:

- *walk*. A cache that validates equals what a walk would find now, although the
  manifest was gathered while the project changed (`CacheSound`): the order
  stat-then-read, and directory entries as well as file entries, are what makes
  it so. A walk during which nothing changes returns exactly the project's index,
  also from the cache of another module list (`QuietWalkExact`). Two changes are
  enough to change a file before and after it is read, or to remove a file and
  then its directory while the walk is between them.
- *server*. When the loop is at its select, each file in scope is indexed as it
  is, waiting in `changed` or `events`, or its last change raised no event
  (`NoLostUpdate`); waiting paths always have a timer (`ChangesAreTimed`); index
  and modules are swapped together (`PublishedTogether`); a cache that an earlier run
  of the server left behind is not taken for current when it is not
  (`CacheUsesCurrent`, here with crashes). Three changes are a new
  directory, a new view in it and a change of `bootstrap.php`, or one change before a
  walk, one during it and one during the reindex that follows. A queue of one is
  full as soon as two events wait.
- *cachefile*. With savers that take turns, a reader always decodes one whole
  snapshot and saving is atomic, whichever step fails or is interrupted.
- *extract*. Chains, split assignments, multi-hop chains and chained assignments
  `$a = $b = ...`, to properties too. Three statements are a construction, a
  change of what its variable holds (or a new body) and a use. Bodies follow
  each other here, and no statement assigns to the variable it calls: `Nested` and
  `SelfAssign` switch on the two forms for which the code falls short.
- *rename*. The edits of an answer fit the open buffers however stale the index is,
  and the closed files until another program writes them (`EditsFit`), no
  two overlap, and when the index covers what is renamed each reference resolves
  to the same files afterwards, where they are then (`ReferencesFollow`). Covered are
  swaps of two names, moves to another layer and moves out of the view roots too,
  not a new name that another view or reference has and keeps: the handlers do not
  look whether it is taken, and the two views merge. A batch with one name in two
  layers is left to `rename_layers` (`SameName`). Three changes are a file that is
  opened and edited, or written on disk, and the rename.
- *navigation*. Five finders that each walk the whole document agree on the
  innermost call (`CursorMeansItsCall`), so long as the literal is not nested in
  a route parameter; there the outer array answers, and what remains true is that
  no name is lost except to a controller that has a file (`OwnNameIsFound`). A class
  is never made of the directory of one route and the controller of another
  (`TargetsOfOneCall`). The four recognisers of view names know the same forms
  (`RecognisersAgree`), without which a rename would move a file and leave
  references. The cascade has no directory PHP would not look in, and no other
  order (`CascadeAsDeclared`); a path in a form the parser does not know is left out.
  Five nodes are a chain of two calls with both arguments, or an array with two
  keys of which one holds another call with its literal; eight are an array of two
  modules with two concatenations.
- *position*, *viewindex*. Both are pure data structures; the bounds are one more
  than the longest character and one more index than a handler can fall behind.

`cachefile` never stops; `position`, `extract`, `rename`, `viewindex` and `navigation`
are bounded histories that end, so their configurations do not check deadlock. In `server` the
select at rest is an explicit step (`Rest`), so any other state without a step
would be reported.

Four runs expect a violation; see below.

## Fairness

Safety needs none. `EventuallyCurrent` is checked under weak fairness of: the
indexing goroutine and the savers, which the Go scheduler runs whenever they can
run and which wait for nothing but the disk; the two cases of the loop's select,
`HandleEvent` and `reindexFiles`, of which Go picks a ready one at random; and the
timer. There is none on other programs, crashes or dropped events: the property
is about what happens once they stop, and the bounds `MaxTime` and `MaxRestarts`
make them stop.

## Proofs

`ServerProofs` proves of the indexer, for all trees, module lists, editors and bounds that satisfy
`TreeAssumption` and `JobsAssumption`:

- `WalkTypeCorrect`: `WalkSpec => []WalkTypeOK`. The inductive invariant
  `WalkTypeInv` adds that a root is on the list while entries are visited and that
  the current entry is a node.
- `CacheIsCurrent`: `WalkSpec => []CacheUsesCurrent`. Every usage and global in a
  cache that validates was extracted from what its file holds now. The statement
  is not inductive. `CacheInv` says of the manifest being gathered, and of every
  saved one, that its mtimes are not in the future, and that *if it validates now*
  then every usage in the index has its file's entry in the manifest and the file's
  present text; and of the walk in progress, that under the same condition each
  entry still to visit exists in a directory whose entry is there, and the current
  one has its own. The two lemmas that carry the argument: a change of the file
  system can only make a manifest invalid, because the node it touches gets a new
  mtime (`DiskKeepsClean`); and what was current for a manifest that still validates
  was not touched (`DiskKeepsUses`). In `walk` it would follow from `CacheSound`, so the
  `server` run checks it; as a theorem it says more, because it needs no hypothesis
  about ignore files and roots.
- `CacheIsExact`: `WalkSpec => []CacheSound` and `QuietWalkIsExact`: `WalkSpec =>
  []QuietWalkExact`, with `PathAssumption` too, when no ignore file changes
  (`IgnoresFixed`) and the roots walked neither come nor go (`RootsFixed`). That a walk finds *everything* needs more than `CacheInv`: of a file
  the walk has not come across, the first node on its path from the root that was not
  visited either waits in `todo`, or lies in a directory whose entry is already in
  the manifest and which did not list it; then the mtime of that directory has changed
  since. That it finds nothing more needs that the matchers loaded so far decide
  about the current node as all the ignore files above it do. `IgnoresFixed` is the
  first of the *known limits* below; run `walk_missing_root` shows what happens
  without `RootsFixed`.

`CacheFileProofs` proves, under `ASSUME ~Overlap`, for any savers, values and number
of writes:

- `ReadsAreComplete`: `Spec => []CompleteReads`. The invariant: at most one saver is
  busy; the temporary file is the prefix the encoder has written so far; it is
  never the inode a reader has open, nor the one named `index.gob`.
- `ImplementsAtomicCache`: `Spec => ReplacesAtomically`, the refinement of
  AtomicCache with `cached` mapped to what `index.gob` decodes to.

It proves about the whole server, under those assumptions and `ServerAssumption`,
with crashes at any moment:

- `ServerCacheIsCurrent`: `Spec => []CacheUsesCurrent`. Every step of the server is a
  step of Walk's specification, none of its variables, or a crash (`IndexerStep`;
  the one thing needed is that `parsed` is a module list Walk may be given), so the
  invariants of the indexer carry over; a crash leaves the cache file and the
  project as they are and forgets the savers (`CrashKeepsCache`).
- `IndexMatchesModules`: `Spec => []PublishedTogether`. Three indexes have to be
  followed until one is published: the one Walk builds, whose definitions come from
  the roots in `jobs`, which are view roots of `mods` (`JobsOfModules`); the one a
  cache brings, whose definitions belong to the modules saved with it (`DefsInv`
  over `Saved`); and the one of an incremental reindex, which keeps those of the
  published index (`PublishInv`). While a walk runs, its modules are the parsed ones.
- `NoPathIsForgotten`: `Spec => []ChangesAreTimed`, inductive as it stands.
- `ServerTypeCorrect`: `Spec => []TypeOK`, with `events` and `roots` as sequences.
- `ServerCacheIsExact`: `Spec => []CacheSound`, under `IgnoresFixed` and `RootsFixed`,
  whichever run of the server saved the cache.
- `NothingIsLost`: `Spec => []NoLostUpdate`, under `IgnoresFixed`, `RootsFixed` and
  `EditsVisible`. What the index says of a file depends on that file alone, once the
  ignore files are fixed: the directories above a file that exists are there
  (`TreeClosed`, from `ParentAssumption` on the initial tree). The invariant
  speaks of one file at a time, and only of a `Quiet` one: no event of it is
  queued, it does not wait in `changedPaths`, and its latest change was not unseen.
  No event is taken from the queue while a walk or an incremental reindex runs, so
  a file that is quiet then has not changed since it began (`QuietUnchanged`).
  `FileScanned` says of it, while the others change, what the walk has found: if the
  cache is still being checked and validates, all of it; in the walk proper, nothing
  wrong (`Backed`), everything for the roots that are done (`Found`), and for the
  current root too unless a node above it is still open. `IndexInv` hands this on to
  the published index and, in an incremental reindex, to the files that are not in
  the batch any more; those that are in it are no view files, because
  `NeedsFullWalk` said no. `EditsVisible`: no ignore file hides a source that
  changes from the walks of the sources. Without it the statement is false:
  `ReindexFile` consults none (*known limits*), a walk does. The `server` run
  satisfies the three hypotheses.

`ViewIndexProofs` proves, for any files, names, contents and growth of slices:

- `SnapshotsAreStable`: `Spec => []SnapshotStable`. The invariant: the index being
  built shares no array with the published one or with the one a handler holds
  (`Apart`). An append writes to an array of the index being built or to one nothing
  refers to, and no other step writes. It needs that `None`, the missing array,
  is no array.
- `IndexIsExact`: `Spec => []PublishedExact`. The invariant `StoreInv`: a slice lies within
  its array and holds usages of its own name (`Stored`); in the index being built no
  two names share an array (`Own`), so an append to one leaves the others as they
  are; and for each name and file, the usages already there followed by those still
  to be appended are what the file's text says (`Built`). An append in place
  writes beyond the slice it extends, in an array that neither another name of this
  index nor the published one refers to (`Own`, `Apart`). It assumes finitely many
  files and names.
- `VariablesAreUnion`: `Spec => []VarsAreUnion`. Of a prefix of the variables, the list
  shown has the first of each name and no other (`Shows`), by induction over the
  prefix; globals come after the variables of the call sites.

The loops of `withoutFile` are `Kept` in Selection: the provers know nothing of the
standard module's `SelectSeq`, and a recursive function they can unfold.

`DocumentsProofs` proves of the documents, their notifications (`DocSpec`) and the
rename requests (`Spec` of Rename), for any files, names, texts, view files, batches
and numbers of edits, under `RenameAssumption`:

- `WarningsAreCurrent`: `DocSpec => []WarningsBelong`. With the types the statement is
  inductive: opening and changing replace a text and its warnings together
  (`TextKeepsInv`), closing removes both (`CloseKeepsInv`), and no index that is
  published and no edit outside the editor touches either. It holds whatever the
  index says, because the names reported come from the text.
- `DocumentsTypeCorrect`: `DocSpec => []DocTypeOK`. It needs that `None` is no set of
  names: the list of warnings is empty, never nil. `RenameTypeCorrect` states both for
  the specification with the renames.
- `EditsAlwaysFit`: `Spec => []EditsFit`, `EditsNeverOverlap`: `Spec => []EditsDisjoint`
  and `ReferencesFollowTheFiles`: `Spec => ReferencesFollow`. The invariant `EditInv` says
  of the answer in flight that each edit lies on a literal with the name it replaces,
  in an open document as it is and in a closed one on the disk the answer was made
  from (`Fits`); of the closed files no more can be said, another program may write
  them at any time. It says that, unless a batch holds one name in two layers, no two
  edits lie on the same literal (`Apart`); and, if the answer covers what is renamed
  (`Renames`), that old and new names are one-to-one, a new one being unused or an
  old one too; that a file is moved once (`OneSource`) and to the new name of its own
  (`NamesOf`), with every file of an old name; and that exactly the literals with an old name are
  edited. Names given up by the same request are why one-to-one is needed: after
  a swap the files of a name are those of one other name and no more. That `None`
  is no name (in `RenameAssumption`) keeps files that leave the view roots out.
  `EditsNeverOverlap` assumes `~SameName`; run `rename_layers` shows why. The attempt to
  prove `ReferencesFollow` showed that it was false as first stated: a batch that gives
  two views of different names the same new name merges them, and a reference to one
  finds both afterwards. `Covers` excludes it.

`ExtractProofs` proves of the visitor, for any variables, constructions, methods,
lengths of files and of chains:

- `ExtractTypeCorrect`: `Spec => []TypeOK` and `ConstructionsRecordedOnce`: `Spec =>
  []RecordedOnce`, with nested bodies and self-assignments. The invariant `ExtractInv`
  has two halves. `Recs`: positions in the list of usages are distinct and seen, the
  names of one usage are distinct and not beyond the keys of the file. `Holding`: the
  traverser holds nothing, the head of a body, a static call, or one chain with the
  targets still to be assigned (`Reading`); then the list is one short exactly when
  the chain constructs a view that was not seen, and no call of a chain on a variable
  has been attributed yet. The latter makes each call count once, although the
  chain of `$v->set(..)->set(..)` is visited once per call.
- `ExtractionIsSound`: `Spec => []AttributionSound`, assuming `~Nested`. `SoundInv` adds that
  a tracked variable holds the view of its usage, or a string (`ScopeFollows`);
  while a chain is read, this holds of the variables that are not among its targets.
- `ExtractionIsComplete`: `Spec => []AttributionComplete`, assuming `~Nested` and
  `~SelfAssign`. `CompleteInv`: a variable that was assigned its view directly is tracked
  (`DirectTracked`), and what is owed and not yet attributed is owed by the calls of the
  chain that are still to be visited (`Owing`).
  Both hypotheses name forms the code falls short of: run `extract_nested` refutes
  soundness without the first, `$v = $v->set(...)` is among the known limits.

`PositionProofs` proves of the conversions, for files of any length and any bytes,
valid UTF-8 or not, under `PositionAssumption`:

- `RangesSelectTokens`: `Spec => []RangeSelectsToken`. The file is a sequence of bytes;
  that is all there is to know of the states, and the rest is about three loops that
  decode the same bytes between different limits. A place where the parser begins a
  character is a boundary (`Boundary`); a character that begins before another boundary
  ends before it or at it (`BoundaryApart`), a line begins at one (`BoundaryOfLine`), so the
  counts up to the end of the line, up to the token and up to the end of the file step
  through the same places (`OffsetOfBoundary`).
- `PositionsRoundDown`: `Spec => []PositionRoundsDown`. Whatever character is asked for,
  the loop of `positionToByteOffset` stops before it has counted more, and does not
  pass a newline (`OffsetRoundsDown`), so the offset is on the line asked for
  (`SameLine`).

`NavigationProofs` proves of the visitors, for documents of any size and shape, any
number of modules and any configured helper, under `PhpAssumption`. The invariant,
`Tree`: each node stands below an earlier one, in a slot its form has, with a form that
may stand there (`Shape`), and shares its slot only with other items of an array
(`StepTree`: true of every step, since operands fill empty slots). Each property
follows from it.

- `RecognisersAlwaysAgree`: `Spec => []RecognisersAgree`. A literal has nothing below it,
  so the first call with the cursor on its argument is the only one (`NothingBelowLiteral`);
  the four recognisers look at the same arguments (`ViewArgument`).
- `CascadeIsAsDeclared`: `Spec => []CascadeAsDeclared`. An expression has two pieces
  exactly when it is a concatenation of two that are none themselves; for these, and
  for literals alone, `resolveModulePath` gives what PHP does (`DirectoryIsResolved`), and skipping the rest commutes with the choice of the bases
  that have a file (`SameDirectories`).
- `TargetsAreOfOneCall`: `Spec => []TargetsOfOneCall`. A match names the items of one array
  around the cursor, the arguments of one helper, or a literal and the controller
  found upstream, which is set by a call of the same chain (`MethodStringSaid`).
- `CursorMeansWhatItSays`: `Spec => []CursorMeansItsCall`. If no route parameter lies around
  a literal, the only array, helper or request call that can match is the one it
  stands in (`ArrayHit`, `HelperHit`, `RequestHit`), and that one does (`RouteOfLiteral`);
  the values found from the outside are those read from the inside (`ItemValueIs`,
  `HelperValueIs`, `ControllerBeforeIs`). The other finders have at most the call of
  the literal to find (`FirstLiteralIs`). Two roles may share an argument of the helper:
  the proof showed that the first statement of `RoleOf` chose one of them at will.
- `OwnNameIsAlwaysFound`: `Spec => []OwnNameIsFound`, from the same lemmas: besides the target
  of its call a literal has at most one other, a controller (`TargetsAre`).

The recursions of these two models (`Path`, `chainVarRoot`, `chainMethodString`, `Receivers`,
`Pieces`, the loops over bytes) go from node to node or from byte to byte; each is
shown to have a solution along a measure (`RecursionExists`, `ChainRecursion`), and
facts about it follow by induction over the set where they hold (`InductionMeasure`).
Definitions that the provers could not follow were rewritten to the same effect:
the first of several candidates is `First` of their numbers, sequences are
filtered with `Kept`.

`SequenceLemmas` has what these proofs need of numbers, `SetToSeq`, `FlattenSeq`, `Kept`,
prefixes and recursion. A recursive function is unfolded there with an induction
over a set of naturals (`InductionNat`), which the provers can do.

With that every safety invariant of the passing runs is a theorem, under the
hypotheses named above. Model-checked only: liveness under fairness
(`EventuallyCurrent`), which like ENABLED and induction over data is outside what the
installed provers do. The runs that expect a violation have nothing to prove.

## Where code and documentation disagree

| run | property | what happens |
|---|---|---|
| `walk_missing_root` | `CacheSound` | a root that is missing during a walk (`walk.go:125`, `171`) leaves no trace in the manifest, so the cache still validates when it appears with files in it |
| `cachefile_overlap` | `CompleteReads` | overlapping savers share the name `index.gob.tmp` (`cache.go:128`): one truncates what the other is about to rename |
| `extract_nested` | `AttributionSound` | the scope is cleared when a closure begins and not restored when it ends (`extract.go:69`): its variables bleed into the code after it |
| `rename_layers` | `EditsDisjoint` | renaming the files of one name in two layers in one request gives every literal two edits (`rename.go:308`) |

The instances differ from the passing ones in exactly what is described: a module
that is enabled before it exists, `Overlap`, `Nested`, `SameName`.

## Known limits

Behaviours met while modelling for which the passing runs are arranged or the
properties exempt something. They are facts about the code.

- *Root `.gitignore`* (`walk.go:67`): it decides what is indexed and has no entry in
  the manifest. *Nested `.gitignore`* (`walk.go:184`): it is loaded before its own
  stat, so a write in between pairs the new mtime with the old patterns. The `walk`
  run has an ignore file that does not change.
- *Startup gap* (`server.go:109`): a file that changes after the walk read it and
  before its directory is watched raises no event. *New directory*
  (`server.go:257`): its contents are not listed, and what was created before the
  watch raises none. *Overflow* (`server.go:272`): dropped events are only logged.
  *Unwatched*: directories after one whose `w.Add` fails (`server.go:236`), modules
  outside the modules path, and system views (`server.go:224`). `NoLostUpdate` and
  `EventuallyCurrent` exempt a file for as long as its latest change raised no event
  (`unseen`).
- *Globals* (`walk.go:115`, `index.go:109-110`): an incremental reindex keeps the old
  ones, although the comment asks callers for a full one.
- *Modules* (`server.go:306`): a change of `bootstrap.php` gets an incremental
  reindex, which does not parse the module list again. Properties about scope use
  the published list.
- *Ignored and disabled files* (`walk.go:93`): `ReindexFile` consults no `.gitignore`
  and no module list, so such a file enters the index when it changes.
- *Diagnostics* (`diagnostics.go:21`): pushed on open and change only; they do not
  follow the index.
- *Self-assignment* (`extract.go:101`): `$v = $v->set(...)` takes `$v` out of the
  scope.
- *Unsaved and unparsable text* (`rename.go:69`, `215`): files are found through the
  index of the disk, and a text that does not parse gets no edits; the view file
  is renamed all the same. `ReferencesFollow` is about renames the index covers.
- *configHash* (`cache.go:51`): `%+v` of the configuration prints the addresses of
  the `*int` fields of route helpers, so with helpers configured the hash differs
  from start to start and the cache is never used. The models take hashes of equal
  configurations to be equal.
- *Parse errors* (`walk.go:92`, `106`): the comment promises the old index; the code
  returns one without the usages of the file, until it is saved again and parses.
  `NoLostUpdate` takes the code's side.
- *Nested route parameters* (`routes.go:193`): every key of a route array counts, so a
  literal in a call inside a parameter leads to the controller of the outer array;
  with two such arrays the outermost answers. A match without a controller is
  still a match and stops the route finders that come later (`routes.go:57`).
- *Requests* (`routes.go:362`, `366`): `->action('a')` before `->controller('c')` leads
  nowhere, and the cursor on a controller knows no action.
- *Module paths* (`bootstrap.go:107`, `138`): the comments say that
  `MODPATH.'blog'.DIRECTORY_SEPARATOR` is understood; concatenation associates to
  the left, so its left operand is no constant (`bootstrap.go:103`) and the module is
  skipped. Other forms and items without a key are skipped too, and nothing is logged.
  `CascadeAsDeclared` takes the code's side: such paths are no part of its cascade.
  *Duplicate keys* (`bootstrap.go:77`) give two modules where PHP keeps the last;
  `CascadeAsDeclared` is about arrays without them. *Second calls*
  (`bootstrap.go:41`): a `Kohana::modules()` without arguments counts as the list.
- *Stale answers* (`definition.go:44`, `references.go:46`): view definitions and the
  ranges of references come from the index, without a look at the disk.
- *Variable types* (`index.go:43`): the first occurrence wins, and an incremental
  reindex moves the sites of a file to the end, so the type shown depends on the
  order in which files were saved.
- *Rename across a change* (`rename.go:407`): edits carry no document version.
  *Two locks* (`rename.go:282`, `298`): an index may be paired with newer modules,
  and then a file of the batch is skipped.
  *New names* (`rename.go:109`): neither request looks whether the new name has a file
  or references; the views merge, or the client rejects the renames.
- *Carriage returns* (`uri.go:88`): both conversions end lines at newlines only. Whether
  the external parser counts a carriage return on its own as a line too is not
  considered: no file of Position has one.
- *URIs* (`uri.go:17`): percent-encoded characters are not decoded.
- *mtime resolution* (`cache.go:80`): two writes within it cannot be told apart.

## What is not modelled

- References, hover, completion, symbols, document symbols and code actions:
  formatting of what ViewIndex, Documents and Lookup already have, without state or
  decisions of their own.
- Of navigation: the class name made of a directory and a controller
  (`routes.go:99-124`), the line of the action method (`128-158`), several helpers,
  and calls no finder knows.
- Initialization, shutdown, configuration: straight-line code that runs once; their
  results are CONSTANTS.
- PHP parsing: external. The models know of a text whether it parses, or have its
  tree. `fqn.go`, `toLSPLocation` (`uri.go:33`) and `ExtraViewRoots` are used by
  nothing.
- Type inference, the spelling of arguments, messages, severities and logging.

## Plan

Done: every part that keeps state, and the navigation requests that decide
something; all their safety properties proved.

Next, in this order:

1. Rename with a client that does not wait: edits carry no document version
   (`rename.go:407`); a handler that reads index and modules in two lock sections
   beside `Publish`; `configHash` across restarts.
2. Extract with branches and loops; the definitions of a view in cascade order.
