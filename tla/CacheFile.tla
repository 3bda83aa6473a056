----------------------------- MODULE CacheFile -----------------------------
(***************************************************************************)
(* saveCache at the level of the file system (internal/indexer/view/        *)
(* cache.go): index.gob.tmp is created or truncated, encoded into in        *)
(* several writes, and renamed to index.gob; tryLoadCache opens index.gob   *)
(* and decodes it.  Both names are fixed, so savers that run at the same    *)
(* time write into the same temporary file.                                 *)
(*                                                                         *)
(* An open file is an inode; each writer keeps its own offset, and a write  *)
(* beyond the end leaves a hole.                                            *)
(***************************************************************************)
EXTENDS Integers, Sequences

CONSTANTS
  Saver,    \* goroutines that may run saveCache, of one server or of several
  Value,    \* what an index may be encoded as
  Parts,    \* bound: the writes one encoding takes
  Inode,    \* bound: the inodes of the file system
  Overlap,  \* whether a save may start before the last one is over
  Hole,     \* bytes nobody wrote
  None

ASSUME CacheFileAssumption ==
  /\ Parts \in Nat \ {0}
  /\ Overlap \in BOOLEAN
  /\ None \notin Value \cup Inode \cup {Hole} /\ Hole \notin Value

VARIABLES
  spc,    \* where each saver is
  val,    \* the snapshot it encodes
  fd,     \* the inode it has open
  pos,    \* its offset: the writes it has done
  tmp,    \* the inode named index.gob.tmp
  index,  \* the inode named index.gob
  data,   \* the contents of the inodes
  read    \* the inode a reader has open

vars == <<spc, val, fd, pos, tmp, index, data, read>>

Free(i) == i \notin {tmp, index, read} /\ \A s \in Saver : fd[s] # i

(* "go saveCache" with the snapshot of a walk. *)
Start(s, v) ==
  /\ spc[s] = "idle"
  /\ Overlap \/ \A r \in Saver : spc[r] = "idle"
  /\ spc' = [spc EXCEPT ![s] = "create"]
  /\ val' = [val EXCEPT ![s] = v]
  /\ UNCHANGED <<fd, pos, tmp, index, data, read>>

(* os.Create opens the file that has the name, and truncates it, or makes   *)
(* one.                                                                     *)
Create(s, i) ==
  /\ spc[s] = "create"
  /\ i = tmp \/ (tmp = None /\ Free(i))
  /\ tmp' = i
  /\ data' = [data EXCEPT ![i] = <<>>]
  /\ fd' = [fd EXCEPT ![s] = i]
  /\ pos' = [pos EXCEPT ![s] = 0]
  /\ spc' = [spc EXCEPT ![s] = "encode"]
  /\ UNCHANGED <<val, index, read>>

(* d with v written at offset n. *)
Written(d, n, v) ==
  [k \in 1 .. (IF n < Len(d) THEN Len(d) ELSE n + 1) |->
     IF k = n + 1 THEN v ELSE IF k <= Len(d) THEN d[k] ELSE Hole]

Encode(s) ==
  /\ spc[s] = "encode" /\ pos[s] < Parts
  /\ data' = [data EXCEPT ![fd[s]] = Written(@, pos[s], val[s])]
  /\ pos' = [pos EXCEPT ![s] = @ + 1]
  /\ UNCHANGED <<spc, val, fd, tmp, index, read>>

Done(s) ==
  /\ spc' = [spc EXCEPT ![s] = "idle"]
  /\ val' = [val EXCEPT ![s] = None]
  /\ fd' = [fd EXCEPT ![s] = None]
  /\ pos' = [pos EXCEPT ![s] = 0]

(* MkdirAll or Create failed: nothing was written. *)
GiveUp(s) ==
  /\ spc[s] = "create" /\ Done(s)
  /\ UNCHANGED <<tmp, index, data, read>>

(* Mutant: the cleanup removes the cache. *)
EncodeFails_RemovesCache(s) ==
  /\ spc[s] = "encode" /\ pos[s] < Parts /\ Done(s)
  /\ index' = None
  /\ UNCHANGED <<tmp, data, read>>

(* Encode failed: os.Remove of the name, whichever file has it now. *)
EncodeFails(s) ==
  /\ spc[s] = "encode" /\ pos[s] < Parts /\ Done(s)
  /\ tmp' = None
  /\ UNCHANGED <<index, data, read>>

(* Mutant: the error of Encode is ignored. *)
Rename_Unchecked(s) ==
  /\ spc[s] = "encode" /\ Done(s)
  /\ index' = IF tmp = None THEN index ELSE tmp
  /\ tmp' = None
  /\ UNCHANGED <<data, read>>

(* os.Rename failed, or os.Remove after a failed Encode: neither error is   *)
(* looked at, and the temporary file stays, whole or in part.               *)
LeavesTmp(s) ==
  /\ spc[s] = "encode" /\ Done(s)
  /\ UNCHANGED <<tmp, index, data, read>>

(* The rename takes whichever file has the name, if one has. *)
Rename(s) ==
  /\ spc[s] = "encode" /\ pos[s] = Parts /\ Done(s)
  /\ index' = IF tmp = None THEN index ELSE tmp
  /\ tmp' = None
  /\ UNCHANGED <<data, read>>

(* The server is killed: its savers vanish, the files stay. *)
Crash ==
  /\ \E s \in Saver : spc[s] # "idle"
  /\ spc' = [s \in Saver |-> "idle"] /\ val' = [s \in Saver |-> None]
  /\ fd' = [s \in Saver |-> None] /\ pos' = [s \in Saver |-> 0]
  /\ read' = None
  /\ UNCHANGED <<tmp, index, data>>

(* tryLoadCache: open index.gob, decode what the inode holds, close. *)
Open ==
  /\ read = None /\ index # None
  /\ read' = index
  /\ UNCHANGED <<spc, val, fd, pos, tmp, index, data>>

Close ==
  /\ read # None
  /\ read' = None
  /\ UNCHANGED <<spc, val, fd, pos, tmp, index, data>>

Init ==
  /\ spc = [s \in Saver |-> "idle"] /\ val = [s \in Saver |-> None]
  /\ fd = [s \in Saver |-> None] /\ pos = [s \in Saver |-> 0]
  /\ tmp = None /\ index = None /\ read = None
  /\ data = [i \in Inode |-> <<>>]

Next ==
  \/ \E s \in Saver : \/ \E v \in Value : Start(s, v)
                      \/ \E i \in Inode : Create(s, i)
                      \/ Encode(s) \/ GiveUp(s) \/ EncodeFails(s) \/ LeavesTmp(s)
                      \/ Rename(s)
  \/ Crash \/ Open \/ Close

Spec == Init /\ [][Next]_vars
-----------------------------------------------------------------------------
(* A complete encoding of v. *)
Encoding(v) == [k \in 1..Parts |-> v]

Complete(d) == \E v \in Value : d = Encoding(v)

(* cache.go:98-99, "renamed atomically to avoid corrupt reads".             *)
(* Whatever a reader has open decodes to one whole snapshot, until it is    *)
(* closed, and so does whatever it would open now.                          *)
CompleteReads ==
  /\ index # None => Complete(data[index])
  /\ read # None => Complete(data[read])

(* The abstract cache: what index.gob decodes to, and the savers at work.   *)
Decoded ==
  IF index = None THEN None
  ELSE IF Complete(data[index]) THEN CHOOSE v \in Value : data[index] = Encoding(v)
  ELSE Hole

Atomic == INSTANCE AtomicCache WITH cached <- Decoded, job <- val

(* saveCache replaces the cache in one step, crashes included.              *)
ReplacesAtomically == Atomic!ACSpec
=============================================================================
