------------------------------- MODULE Server -------------------------------
(***************************************************************************)
(* The background half of internal/lsp/server.go: one goroutine that parses *)
(* bootstrap.php, walks the project, publishes the index, installs the file *)
(* watches and then runs the watch loop, which collects changed paths,      *)
(* waits for the debounce timer and reindexes, file by file or in full.     *)
(*                                                                         *)
(* It composes the indexer of Walk.tla with the file system of other        *)
(* programs, the kernel's queue of watch events, and crashes of the server  *)
(* (the cache file survives, everything else is lost).                      *)
(*                                                                         *)
(* Abstractions.  The debounce delay is a choice of the scheduler; every    *)
(* event of fsnotify is a create or another operation; a renamed file is a  *)
(* removal and a creation.                                                  *)
(***************************************************************************)
EXTENDS Walk

CONSTANTS
  ModulesOf,    \* ModulesOf[t]: the Kohana::modules([...]) array of text t
  Bootstrap,    \* the path of bootstrap.php
  QueueLen,     \* the kernel's limit on queued events
  MaxRestarts   \* bound: crashes of the server

VARIABLES
  spc,       \* what the indexing goroutine is doing
  parsed,    \* the modules reindex has parsed
  modules,   \* Server.modules
  viewIdx,   \* Server.viewIdx, None until the first walk is over
  looping,   \* watchLoop has started
  roots,     \* watch roots startWatcher has still to walk
  listed,    \* directories it has found below the current root
  watched,   \* directories with a watch
  events,    \* watch events not yet received
  changed,   \* watchLoop's changedPaths
  timer,     \* the debounce timer
  batch,     \* paths reindexFiles has still to read
  next,      \* the index it is building
  unseen,    \* history: the nodes whose latest change raised no event
  restarts

loopVars == <<changed, timer, batch, next>>
watchVars == <<roots, listed, watched, looping>>
serverVars == <<spc, parsed, modules, viewIdx, roots, listed, watched, looping,
                events, changed, timer, batch, next, unseen, restarts>>
vars == <<tree, mtime, now, pc, mods, jobs, init, matchers, todo, cur,
          manifest, idx, began, saving, cache, spc, parsed, modules, viewIdx,
          looping, roots, listed, watched, events, changed, timer, batch, next,
          unseen, restarts>>

ASSUME ServerAssumption ==
  /\ Bootstrap \in PhpFile
  /\ QueueLen \in Nat /\ MaxRestarts \in Nat
  /\ ModulesPath \in Dir /\ ApplicationPath \in Dir
  /\ \A t \in Parses : ModulesOf[t] \in ModuleLists

-----------------------------------------------------------------------------
(* Other programs change the project; the kernel reports a change to a      *)
(* child of a watched directory, unless its queue is full.  A directory     *)
(* that goes takes its watch with it.                                       *)

Notify(op, p) ==
  /\ IF Parent(p) \in watched /\ Len(events) < QueueLen
     THEN /\ events' = Append(events, [op |-> op, path |-> p])
          /\ unseen' = unseen \ {p}
     ELSE /\ UNCHANGED events
          /\ unseen' = unseen \cup {p}
  /\ watched' = IF op = "remove" THEN watched \ {p} ELSE watched

OutsideChange ==
  /\ \E p \in Editable :
       \/ \E t \in Thing(p) : \/ Write(p, t) /\ Notify("write", p)
                              \/ Create(p, t) /\ Notify("create", p)
       \/ Delete(p) /\ Notify("remove", p)
  /\ UNCHANGED <<spc, parsed, modules, viewIdx, looping, roots, listed, restarts>>
  /\ UNCHANGED walkVars /\ UNCHANGED cacheVars /\ UNCHANGED loopVars

-----------------------------------------------------------------------------
(* reindex: ParseModules, Walk, publish.                                    *)

(* scanOnce: the goroutine starts with a full reindex. *)
Initialized ==
  /\ spc = "start" /\ spc' = "parse"
  /\ UNCHANGED <<parsed, modules, viewIdx, events, unseen, restarts>>
  /\ UNCHANGED watchVars /\ UNCHANGED loopVars /\ UNCHANGED indexerVars

(* Mutant: the module list is published as soon as it is known. *)
ParseModules_Early ==
  /\ spc = "parse" /\ spc' = "walk"
  /\ parsed' = IF Exists(Bootstrap) /\ tree[Bootstrap] \in Parses
               THEN ModulesOf[tree[Bootstrap]] ELSE <<>>
  /\ modules' = parsed'
  /\ UNCHANGED <<viewIdx, events, unseen, restarts>>
  /\ UNCHANGED watchVars /\ UNCHANGED loopVars /\ UNCHANGED indexerVars

(* A bootstrap.php that is missing or does not parse yields no modules. *)
ParseModules ==
  /\ spc = "parse" /\ spc' = "walk"
  /\ parsed' = IF Exists(Bootstrap) /\ tree[Bootstrap] \in Parses
               THEN ModulesOf[tree[Bootstrap]] ELSE <<>>
  /\ UNCHANGED <<modules, viewIdx, events, unseen, restarts>>
  /\ UNCHANGED watchVars /\ UNCHANGED loopVars /\ UNCHANGED indexerVars

CallWalk ==
  /\ spc = "walk" /\ StartWalk(parsed) /\ spc' = "walking"
  /\ UNCHANGED <<parsed, modules, viewIdx, events, unseen, restarts>>
  /\ UNCHANGED watchVars /\ UNCHANGED loopVars

(* Modules and index are swapped in under one lock. *)
Publish ==
  /\ spc = "walking" /\ Return
  /\ modules' = parsed /\ viewIdx' = idx /\ parsed' = <<>>
  /\ spc' = IF looping THEN "loop" ELSE "startWatcher"
  /\ UNCHANGED <<events, unseen, restarts>>
  /\ UNCHANGED watchVars /\ UNCHANGED loopVars

-----------------------------------------------------------------------------
(* startWatcher: a watch on every directory below application/ and          *)
(* modules/, added before the directory is listed.                          *)

startWatcher ==
  /\ spc = "startWatcher"
  /\ \/ spc' = "watching" /\ roots' = <<ApplicationPath, ModulesPath>>
     \/ spc' = "unwatched" /\ UNCHANGED roots   \* fsnotify.NewWatcher failed
  /\ UNCHANGED <<parsed, modules, viewIdx, listed, watched, looping, events, unseen, restarts>>
  /\ UNCHANGED loopVars /\ UNCHANGED indexerVars

WatchRoot ==
  /\ spc = "watching" /\ listed = {} /\ roots # <<>>
  /\ listed' = {d \in {Head(roots)} : Exists(d)}
  /\ roots' = Tail(roots)
  /\ UNCHANGED <<spc, parsed, modules, viewIdx, watched, looping, events, unseen, restarts>>
  /\ UNCHANGED loopVars /\ UNCHANGED indexerVars

(* The callback returns the error of w.Add: a directory that vanished since *)
(* it was listed ends the walk of its root.                                 *)
AddWatch ==
  /\ spc = "watching"
  /\ \E d \in listed :
       IF Exists(d)
       THEN /\ watched' = watched \cup {d}
            /\ listed' = (listed \ {d}) \cup (Children(d) \cap Dir)
       ELSE listed' = {} /\ UNCHANGED watched
  /\ UNCHANGED <<spc, parsed, modules, viewIdx, roots, looping, events, unseen, restarts>>
  /\ UNCHANGED loopVars /\ UNCHANGED indexerVars

EnterLoop ==
  /\ spc = "watching" /\ listed = {} /\ roots = <<>>
  /\ spc' = "loop" /\ looping' = TRUE
  /\ UNCHANGED <<parsed, modules, viewIdx, roots, listed, watched, events, unseen, restarts>>
  /\ UNCHANGED loopVars /\ UNCHANGED indexerVars

-----------------------------------------------------------------------------
(* watchLoop: a select over the events and the timer.                       *)

(* Mutant: every path counts. *)
hasWatchExt_Any(p) == TRUE

hasWatchExt(p) == p \in PhpFile

(* The timer is stopped, drained and set again.  Mutant: it is only stopped *)
(* when it was running.                                                     *)
Reset_OnlyWhenOff(t) == IF t = "off" THEN "armed" ELSE "off"

Reset(t) == "armed"

(* A directory that was created is watched from now on, itself alone.       *)
HandleEvent ==
  /\ spc = "loop" /\ events # <<>>
  /\ LET e == Head(events) IN
       /\ watched' = IF e.op = "create" /\ e.path \in Dir /\ Exists(e.path)
                     THEN watched \cup {e.path} ELSE watched
       /\ IF hasWatchExt(e.path)
          THEN changed' = changed \cup {e.path} /\ timer' = Reset(timer)
          ELSE UNCHANGED <<changed, timer>>
  /\ events' = Tail(events)
  /\ UNCHANGED <<spc, parsed, modules, viewIdx, roots, listed, looping, batch, next, unseen, restarts>>
  /\ UNCHANGED indexerVars

TimerFires ==
  /\ timer = "armed" /\ timer' = "fired"
  /\ UNCHANGED <<spc, parsed, modules, viewIdx, events, changed, batch, next, unseen, restarts>>
  /\ UNCHANGED watchVars /\ UNCHANGED indexerVars

(* A view file that is known, or would be one: only a full walk updates the *)
(* definitions.                                                             *)
NamesForFile(f) == {d \in viewIdx.defs : d[1] = f}

(* Mutant: only view files already known ask for a full walk. *)
NeedsFullWalk_KnownOnly(paths) ==
  \/ viewIdx = None
  \/ \E f \in paths : NamesForFile(f) # {}

NeedsFullWalk(paths) ==
  \/ viewIdx = None
  \/ \E f \in paths : \/ NamesForFile(f) # {}
                      \/ isViewDefinitionPath(f, BuildViewRoots(modules))

reindexFiles ==
  /\ spc = "loop" /\ timer = "fired"
  /\ timer' = "off" /\ changed' = {}
  /\ IF NeedsFullWalk(changed)
     THEN spc' = "parse" /\ UNCHANGED <<batch, next>>
     ELSE spc' = "incremental" /\ batch' = changed /\ next' = viewIdx
  /\ UNCHANGED <<parsed, modules, viewIdx, events, unseen, restarts>>
  /\ UNCHANGED watchVars /\ UNCHANGED indexerVars

(* ReindexFile: the usages of f are dropped and, when it can be read and    *)
(* parsed, extracted anew.  Definitions and globals are left alone, and no  *)
(* .gitignore is consulted.                                                 *)
withoutFile(index, f) == [index EXCEPT !.uses = {u \in @ : u[1] # f}]

(* Mutant: a file that cannot be read keeps its usages. *)
Reindexed_KeepsUnread(f, index) ==
  IF ~Exists(f) THEN index
  ELSE IF tree[f] \in Parses
       THEN [withoutFile(index, f) EXCEPT !.uses = @ \cup {<<f, tree[f]>>}]
       ELSE withoutFile(index, f)

Reindexed(f, index) ==
  IF Exists(f) /\ tree[f] \in Parses
  THEN [withoutFile(index, f) EXCEPT !.uses = @ \cup {<<f, tree[f]>>}]
  ELSE withoutFile(index, f)

ReindexFile ==
  /\ spc = "incremental"
  /\ \E f \in batch : batch' = batch \ {f} /\ next' = Reindexed(f, next)
  /\ UNCHANGED <<spc, parsed, modules, viewIdx, events, changed, timer, unseen, restarts>>
  /\ UNCHANGED watchVars /\ UNCHANGED indexerVars

Swap ==
  /\ spc = "incremental" /\ batch = {}
  /\ viewIdx' = next /\ next' = None
  /\ spc' = "loop"
  /\ UNCHANGED <<parsed, modules, events, changed, timer, batch, unseen, restarts>>
  /\ UNCHANGED watchVars /\ UNCHANGED indexerVars

-----------------------------------------------------------------------------
(* The indexer's own steps, and a crash of the process at any moment.       *)

Indexing == spc = "walking" /\ WalkStep /\ UNCHANGED serverVars

Saving == saveCache /\ UNCHANGED serverVars

ServerIdle ==
  /\ spc = "start" /\ parsed = <<>> /\ modules = <<>> /\ viewIdx = None
  /\ looping = FALSE /\ roots = <<>> /\ listed = {} /\ watched = {}
  /\ events = <<>> /\ changed = {} /\ timer = "off" /\ batch = {} /\ next = None
  /\ unseen = {}

Restart ==
  /\ restarts < MaxRestarts /\ spc # "start"
  /\ restarts' = restarts + 1
  /\ spc' = "start" /\ parsed' = <<>> /\ modules' = <<>> /\ viewIdx' = None
  /\ looping' = FALSE /\ roots' = <<>> /\ listed' = {} /\ watched' = {}
  /\ events' = <<>> /\ changed' = {} /\ timer' = "off" /\ batch' = {} /\ next' = None
  /\ unseen' = {}
  /\ pc' = "idle" /\ mods' = <<>> /\ jobs' = <<>> /\ init' = {} /\ matchers' = {}
  /\ todo' = {} /\ cur' = None /\ manifest' = {} /\ idx' = EmptyIndex /\ began' = 0
  /\ saving' = {}
  /\ UNCHANGED cache /\ UNCHANGED diskVars

Init == WalkInit /\ ServerIdle /\ restarts = 0

Goroutine ==
  \/ Initialized \/ ParseModules \/ CallWalk \/ Indexing \/ Publish
  \/ startWatcher \/ WatchRoot \/ AddWatch \/ EnterLoop
  \/ ReindexFile \/ Swap

(* The only way to stand still: blocked at the select, or, when there is no *)
(* watcher, the goroutine over.  Any other state without a step is a        *)
(* deadlock, and TLC reports it.                                            *)
Rest ==
  /\ spc \in {"loop", "unwatched"} /\ events = <<>> /\ timer = "off" /\ saving = {}
  /\ UNCHANGED vars

Next ==
  \/ OutsideChange \/ Goroutine \/ Saving
  \/ HandleEvent \/ TimerFires \/ reindexFiles
  \/ Restart \/ Rest

(* Every goroutine runs; select takes each of its ready cases in the end.   *)
Spec ==
  /\ Init /\ [][Next]_vars
  /\ WF_vars(Goroutine) /\ WF_vars(Saving)
  /\ WF_vars(HandleEvent) /\ WF_vars(TimerFires) /\ WF_vars(reindexFiles)
-----------------------------------------------------------------------------

(* Type correctness of the server's state. *)
TypeOK ==
  /\ WalkTypeOK
  /\ spc \in {"start", "parse", "walk", "walking", "startWatcher", "watching",
              "unwatched", "loop", "incremental"}
  /\ looping \in BOOLEAN
  /\ listed \subseteq Dir /\ watched \subseteq Dir
  /\ \A i \in DOMAIN events : events[i].path \in Node
  /\ changed \subseteq PhpFile /\ batch \subseteq PhpFile
  /\ unseen \subseteq Node
  /\ timer \in {"off", "armed", "fired"}
  /\ restarts \in 0..MaxRestarts

(* What the published index says of f is what the disk says now. *)
Of(S, f) == {u \in S : u[1] = f}

Settled(f) ==
  LET fresh == FreshIndex(modules) IN
  /\ Of(viewIdx.uses, f) = Of(fresh.uses, f)
  /\ Of(viewIdx.defs, f) = Of(fresh.defs, f)

Pending(f) == f \in changed \/ \E i \in DOMAIN events : events[i].path = f

(* The files a walk for the published modules would come across. *)
InScope ==
  {f \in PhpFile : \/ \E d \in Range(PHPScanDirs(modules)) : Under(d, f)
                   \/ isViewDefinitionPath(f, BuildViewRoots(modules))}

(* No reported change is lost: when the loop is at its select, a file the   *)
(* index is behind on is on its way to a reindex, unless its latest change  *)
(* raised no event at all.  Whatever a walk or an incremental reindex read  *)
(* before the change, and whatever cache it took.                           *)
NoLostUpdate ==
  spc = "loop" => \A f \in InScope : Settled(f) \/ Pending(f) \/ f \in unseen

(* Paths never wait in changedPaths without a timer that will take them.    *)
ChangesAreTimed == changed # {} => timer # "off"

(* The published index and module list belong together: a handler that      *)
(* reads both finds every definition under a view root of the modules.      *)
PublishedTogether ==
  viewIdx # None =>
    \A d \in viewIdx.defs : d[2] \in {r.path : r \in Range(BuildViewRoots(modules))}

(* Once the project stops changing, the index becomes and stays current for *)
(* every file whose latest change was reported.                             *)
EventuallyCurrent ==
  <>[](viewIdx # None /\ \A f \in InScope : f \in unseen \/ Settled(f))
=============================================================================
