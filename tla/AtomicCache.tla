---------------------------- MODULE AtomicCache ----------------------------
(***************************************************************************)
(* What saveCache promises of the cache file: at every moment a reader      *)
(* finds nothing, or the whole of one snapshot that some saver set out to   *)
(* write.  Savers replace it in one step, in any order, or give up.  This   *)
(* is how Walk.tla uses the cache.                                          *)
(***************************************************************************)
CONSTANTS
  Saver,   \* the goroutines that run saveCache
  Value,   \* the snapshots of an index
  None     \* no cache file, no snapshot

VARIABLES
  cached,  \* what a reader would decode
  job      \* the snapshot each saver is about to commit

ACVars == <<cached, job>>

ACInit == cached = None /\ job = [s \in Saver |-> None]

ACBegin(s, v) ==
  /\ job[s] = None
  /\ job' = [job EXCEPT ![s] = v]
  /\ UNCHANGED cached

ACCommit(s) ==
  /\ job[s] # None
  /\ cached' = job[s]
  /\ job' = [job EXCEPT ![s] = None]

(* Savers fail, each by itself, or all at once when the process dies. *)
ACAbandon(S) ==
  /\ job' = [s \in Saver |-> IF s \in S THEN None ELSE job[s]]
  /\ UNCHANGED cached

ACNext ==
  \/ \E s \in Saver : ACCommit(s) \/ \E v \in Value : ACBegin(s, v)
  \/ \E S \in SUBSET Saver : ACAbandon(S)

ACSpec == ACInit /\ [][ACNext]_ACVars
=============================================================================
