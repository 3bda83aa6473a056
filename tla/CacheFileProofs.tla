--------------------------- MODULE CacheFileProofs ---------------------------
(***************************************************************************)
(* Proofs about saveCache: as long as no two saves overlap, a reader never  *)
(* decodes a partial or mixed file, and the file system steps implement     *)
(* the one-step replacement of AtomicCache, through failed saves and        *)
(* crashes.                                                                 *)
(***************************************************************************)
EXTENDS CacheFile, TLAPS

TypeOK ==
  /\ spc \in [Saver -> {"idle", "create", "encode"}]
  /\ val \in [Saver -> Value \cup {None}]
  /\ fd \in [Saver -> Inode \cup {None}]
  /\ pos \in [Saver -> 0..Parts]
  /\ tmp \in Inode \cup {None}
  /\ index \in Inode \cup {None}
  /\ read \in Inode \cup {None}
  /\ data \in [Inode -> Seq(Value \cup {Hole})]

(* What the first n writes of v leave. *)
Prefix(v, n) == [k \in 1..n |-> v]

(* The temporary file is nobody's but the one saver's that is encoding, and *)
(* holds exactly what that saver has written; the file readers see is       *)
(* another one, and whole.                                                  *)
Inv ==
  /\ TypeOK
  /\ \A s, r \in Saver : spc[s] # "idle" /\ spc[r] # "idle" => s = r
  /\ \A s \in Saver : spc[s] = "idle" <=> val[s] = None
  /\ \A s \in Saver : spc[s] = "encode" =>
       tmp # None /\ fd[s] = tmp /\ data[tmp] = Prefix(val[s], pos[s])
  /\ tmp # None => tmp # index /\ tmp # read
  /\ CompleteReads

(* Writing at the end of a prefix gives the next prefix. *)
LEMMA WrittenAtEnd ==
  ASSUME NEW v \in Value, NEW n \in Nat
  PROVE  Written(Prefix(v, n), n, v) = Prefix(v, n + 1)
<1>1. Len(Prefix(v, n)) = n
  BY DEF Prefix
<1>2. ASSUME NEW k \in 1..(n + 1)
      PROVE  (IF k = n + 1 THEN v ELSE IF k <= n THEN Prefix(v, n)[k] ELSE Hole) = v
  BY DEF Prefix
<1> QED BY <1>1, <1>2 DEF Written, Prefix

LEMMA PrefixIsSeq ==
  ASSUME NEW v \in Value, NEW n \in Nat
  PROVE  Prefix(v, n) \in Seq(Value \cup {Hole})
BY DEF Prefix

(* An encoding names its value. *)
LEMMA DecodesToItsValue ==
  ASSUME NEW v \in Value, NEW w \in Value, Encoding(v) = Encoding(w)
  PROVE  v = w
<1>1. 1 \in 1..Parts
  BY CacheFileAssumption
<1> QED BY <1>1 DEF Encoding

LEMMA InitInv == Init => Inv
<1> SUFFICES ASSUME Init PROVE Inv
  OBVIOUS
<1>1. <<>> \in Seq(Value \cup {Hole}) /\ 0 \in 0..Parts
  BY CacheFileAssumption
<1> QED BY <1>1 DEF Init, Inv, TypeOK, CompleteReads

LEMMA StepInv ==
  ASSUME ~Overlap
  PROVE  Inv /\ [Next]_vars => Inv'
<1> SUFFICES ASSUME Inv, [Next]_vars PROVE Inv'
  OBVIOUS
<1> USE CacheFileAssumption DEF Inv, TypeOK
<1>1. ASSUME NEW s \in Saver, NEW v \in Value, Start(s, v) PROVE Inv'
  BY <1>1 DEF Start, CompleteReads
<1>2. ASSUME NEW s \in Saver, NEW i \in Inode, Create(s, i) PROVE Inv'
  <2>1. i # index /\ i # read
    BY <1>2 DEF Create, Free
  <2>2. TypeOK'
    BY <1>2 DEF Create
  <2>3. CompleteReads'
    BY <1>2, <2>1 DEF Create, CompleteReads
  <2>4. ASSUME NEW r \in Saver, spc'[r] = "encode"
        PROVE  r = s /\ tmp' = i /\ fd'[r] = i /\ data'[i] = Prefix(val'[r], pos'[r])
    <3>1. r = s
      BY <1>2, <2>4 DEF Create
    <3>2. pos'[s] = 0 /\ data'[i] = <<>>
      BY <1>2 DEF Create
    <3>3. Prefix(val'[s], 0) = <<>>
      BY DEF Prefix
    <3> QED BY <1>2, <3>1, <3>2, <3>3 DEF Create
  <2> QED BY <1>2, <2>1, <2>2, <2>3, <2>4 DEF Create
<1>3. ASSUME NEW s \in Saver, Encode(s) PROVE Inv'
  <2>1. tmp # None /\ fd[s] = tmp /\ data[tmp] = Prefix(val[s], pos[s]) /\ val[s] \in Value
    BY <1>3 DEF Encode
  <2>2. data' = [data EXCEPT ![tmp] = Prefix(val[s], pos[s] + 1)] /\ pos[s] + 1 \in 0..Parts
    <3>1. pos[s] \in Nat /\ pos[s] + 1 \in 0..Parts
      BY <1>3 DEF Encode
    <3>2. Written(data[tmp], pos[s], val[s]) = Prefix(val[s], pos[s] + 1)
      BY <2>1, <3>1, WrittenAtEnd
    <3>3. data' = [data EXCEPT ![tmp] = Written(data[tmp], pos[s], val[s])]
      BY <1>3, <2>1 DEF Encode
    <3> QED BY <3>1, <3>2, <3>3
  <2>3. TypeOK'
    <3>1. Prefix(val[s], pos[s] + 1) \in Seq(Value \cup {Hole})
      BY <2>1, <2>2, PrefixIsSeq
    <3> QED BY <1>3, <2>1, <2>2, <3>1 DEF Encode
  <2>4. CompleteReads'
    BY <1>3, <2>1, <2>2 DEF Encode, CompleteReads
  <2>5. ASSUME NEW r \in Saver, spc'[r] = "encode"
        PROVE  tmp' # None /\ fd'[r] = tmp' /\ data'[tmp'] = Prefix(val'[r], pos'[r])
    <3>1. r = s
      BY <1>3, <2>5 DEF Encode
    <3> QED BY <1>3, <2>1, <2>2, <3>1 DEF Encode
  <2> QED BY <1>3, <2>3, <2>4, <2>5 DEF Encode
<1>4. ASSUME NEW s \in Saver, Done(s), spc[s] # "idle", UNCHANGED <<data, read>>,
             tmp' \in {tmp, None}, index' \in {index, tmp}, index' = tmp => tmp' = None,
             CompleteReads'
      PROVE  Inv'
  BY <1>4 DEF Done
<1>5. ASSUME NEW s \in Saver, GiveUp(s) \/ EncodeFails(s) \/ LeavesTmp(s) PROVE Inv'
  BY <1>4, <1>5 DEF GiveUp, EncodeFails, LeavesTmp, CompleteReads
<1>6. ASSUME NEW s \in Saver, Rename(s) PROVE Inv'
  <2>1. tmp # None /\ data[tmp] = Prefix(val[s], Parts) /\ val[s] \in Value
    BY <1>6 DEF Rename
  <2>2. Complete(data[tmp])
    BY <2>1 DEF Complete, Encoding, Prefix
  <2>3. CompleteReads'
    BY <1>6, <2>1, <2>2 DEF Rename, CompleteReads
  <2> QED BY <1>4, <1>6, <2>1, <2>3 DEF Rename
<1>7. CASE Crash
  BY <1>7 DEF Crash, CompleteReads
<1>8. CASE Open
  BY <1>8 DEF Open, CompleteReads
<1>9. CASE Close
  BY <1>9 DEF Close, CompleteReads
<1>10. CASE UNCHANGED vars
  BY <1>10 DEF vars, CompleteReads
<1> QED
  BY <1>1, <1>2, <1>3, <1>5, <1>6, <1>7, <1>8, <1>9, <1>10 DEF Next

(* When saves do not overlap, every reader decodes one whole snapshot.      *)
THEOREM ReadsAreComplete ==
  ASSUME ~Overlap
  PROVE  Spec => []CompleteReads
<1>1. Inv => CompleteReads
  BY DEF Inv
<1> QED BY InitInv, StepInv, <1>1, PTL DEF Spec

-----------------------------------------------------------------------------
(* The abstract step each step of a saver takes.                            *)

LEMMA DecodedComplete ==
  ASSUME NEW v \in Value, index # None, data[index] = Encoding(v)
  PROVE  Decoded = v
<1>1. Complete(data[index])
  BY DEF Complete
<1>2. \A w \in Value : data[index] = Encoding(w) => w = v
  BY DecodesToItsValue
<1> QED BY <1>1, <1>2 DEF Decoded

LEMMA StepRefines ==
  ASSUME ~Overlap
  PROVE  Inv /\ [Next]_vars => [Atomic!ACNext]_(Atomic!ACVars)
<1> SUFFICES ASSUME Inv, [Next]_vars PROVE [Atomic!ACNext]_(Atomic!ACVars)
  OBVIOUS
<1> USE CacheFileAssumption DEF Inv, TypeOK
<1>0. ASSUME index' = index, index # None => data'[index] = data[index]
      PROVE  Decoded' = Decoded
  BY <1>0 DEF Decoded, Complete
<1>1. ASSUME NEW s \in Saver, NEW v \in Value, Start(s, v)
      PROVE  Atomic!ACBegin(s, v)
  BY <1>0, <1>1 DEF Start, Atomic!ACBegin
<1>2. ASSUME NEW s \in Saver, NEW i \in Inode, Create(s, i)
      PROVE  UNCHANGED Atomic!ACVars
  <2>1. i # index
    BY <1>2 DEF Create, Free
  <2> QED BY <1>0, <1>2, <2>1 DEF Create, Atomic!ACVars
<1>3. ASSUME NEW s \in Saver, Encode(s)
      PROVE  UNCHANGED Atomic!ACVars
  <2>1. fd[s] = tmp /\ tmp # index
    BY <1>3 DEF Encode
  <2> QED BY <1>0, <1>3, <2>1 DEF Encode, Atomic!ACVars
<1>4. ASSUME NEW s \in Saver, GiveUp(s) \/ EncodeFails(s) \/ LeavesTmp(s)
      PROVE  Atomic!ACAbandon({s})
  <2>1. Decoded' = Decoded
    BY <1>0, <1>4 DEF GiveUp, EncodeFails, LeavesTmp
  <2>2. val' = [r \in Saver |-> IF r \in {s} THEN None ELSE val[r]]
    BY <1>4 DEF GiveUp, EncodeFails, LeavesTmp, Done
  <2> QED BY <2>1, <2>2 DEF Atomic!ACAbandon
<1>5. ASSUME NEW s \in Saver, Rename(s)
      PROVE  Atomic!ACCommit(s)
  <2>1. tmp # None /\ data[tmp] = Prefix(val[s], Parts) /\ val[s] \in Value
    BY <1>5 DEF Rename
  <2>2. index' = tmp /\ data' = data /\ val' = [val EXCEPT ![s] = None]
    BY <1>5, <2>1 DEF Rename, Done
  <2>3. data'[index'] = Encoding(val[s]) /\ index' # None
    BY <2>1, <2>2 DEF Prefix, Encoding
  <2>4. Complete(data'[index']) /\ \A w \in Value : data'[index'] = Encoding(w) => w = val[s]
    BY <2>1, <2>3, DecodesToItsValue DEF Complete
  <2>5. Decoded' = val[s]
    BY <2>1, <2>3, <2>4 DEF Decoded, Complete
  <2> QED BY <2>1, <2>2, <2>5 DEF Atomic!ACCommit
<1>6. CASE Crash
  <2>1. Decoded' = Decoded
    BY <1>0, <1>6 DEF Crash
  <2>2. val' = [r \in Saver |-> IF r \in Saver THEN None ELSE val[r]]
    BY <1>6 DEF Crash
  <2> QED BY <2>1, <2>2 DEF Atomic!ACAbandon, Atomic!ACNext
<1>7. CASE Open \/ Close \/ UNCHANGED vars
  BY <1>0, <1>7 DEF Open, Close, vars, Atomic!ACVars
<1>8. ASSUME NEW s \in Saver PROVE {s} \in SUBSET Saver
  OBVIOUS
<1> QED
  BY <1>1, <1>2, <1>3, <1>4, <1>5, <1>6, <1>7, <1>8 DEF Next, Atomic!ACNext

(* saveCache implements the one-step replacement, if saves do not overlap.  *)
THEOREM ImplementsAtomicCache ==
  ASSUME ~Overlap
  PROVE  Spec => ReplacesAtomically
<1>1. Init => Atomic!ACInit
  BY DEF Init, Atomic!ACInit, Decoded
<1> QED BY <1>1, InitInv, StepInv, StepRefines, PTL DEF Spec, ReplacesAtomically, Atomic!ACSpec
=============================================================================
