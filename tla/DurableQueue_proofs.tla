------------------------ MODULE DurableQueue_proofs ------------------------
(***************************************************************************)
(* Proofs about DurableQueue, for every set of keys and every bound:       *)
(* type correctness, no record twice in the file, at most two acknowledged *)
(* records lost per torn write, a replace is whole or undone, and the file *)
(* implements the FIFO buffer of ApplyOnceBuffer.                          *)
(***************************************************************************)
EXTENDS DurableQueue, FiniteSetTheorems, SequenceTheorems, TLAPS

(* The records no later torn append can reach.                             *)
SyncedKeys == {file[i] : i \in 1..synced}

(* A record in the file is indexed, unless it is the unterminated tail an  *)
(* append that raised has left.                                            *)
IndexCoversFile ==
  index # Unset =>
    \A i \in 1..Len(file) :
      file[i] \in Keys => file[i] \in index \/ (~terminated /\ i = Len(file))

(* A torn tail has already paid for the two records the next append may    *)
(* cost, in the file a power failure may bring back as well.               *)
OldTail == IF \A f \in old : f.terminated THEN 0 ELSE 2

LossPaidFor ==
  /\ IsFiniteSet(Missing)
  /\ Cardinality(Missing) + (IF terminated THEN 0 ELSE 2) + OldTail <= 2 * tears

SecuredIsSynced == secured \subseteq SyncedKeys

(* The old file was once the present one: it holds no record twice, and    *)
(* what the replace it comes from wrote is fsynced.                        *)
OldIsSound ==
  \A f \in old :
    /\ \A i, j \in 1..Len(f.lines) :
          f.lines[i] \in Keys /\ f.lines[i] = f.lines[j] => i = j
    /\ f.secured \subseteq {f.lines[i] : i \in 1..f.synced}

IInv ==
  /\ TypeOK
  /\ NoDuplicateKeys
  /\ IndexCoversFile
  /\ LossPaidFor
  /\ SecuredIsSynced
  /\ OldIsSound

-----------------------------------------------------------------------------
(* A set that gained at most two elements has at most two more.            *)
LEMMA TwoMore ==
  ASSUME NEW S, IsFiniteSet(S), NEW a, NEW b, NEW T, T \subseteq S \cup {a, b}
  PROVE  /\ IsFiniteSet(T)
         /\ Cardinality(T) \in Nat /\ Cardinality(S) \in Nat
         /\ Cardinality(T) <= Cardinality(S) + 2
         /\ a = b => Cardinality(T) <= Cardinality(S) + 1
         /\ T \subseteq S => Cardinality(T) <= Cardinality(S)
<1>1. PICK S1 : S1 = S \cup {a}
  OBVIOUS
<1>2. PICK S2 : S2 = S1 \cup {b}
  OBVIOUS
<1>3. /\ IsFiniteSet(S1) /\ Cardinality(S) \in Nat /\ Cardinality(S1) \in Nat
      /\ Cardinality(S1) <= Cardinality(S) + 1
  BY <1>1, FS_AddElement, FS_CardinalityType
<1>4. /\ IsFiniteSet(S2) /\ Cardinality(S2) \in Nat
      /\ Cardinality(S2) <= Cardinality(S1) + 1
  <2>1. /\ IsFiniteSet(S2)
        /\ Cardinality(S2) = IF b \in S1 THEN Cardinality(S1) ELSE Cardinality(S1) + 1
    BY <1>2, <1>3, FS_AddElement
  <2>2. QED
    BY <1>3, <2>1, FS_CardinalityType
<1>5. T \subseteq S2 /\ (a = b => T \subseteq S1)
  BY <1>1, <1>2
<1>6. IsFiniteSet(T) /\ Cardinality(T) \in Nat /\ Cardinality(T) <= Cardinality(S2)
  BY <1>4, <1>5, FS_Subset, FS_CardinalityType
<1>7. a = b => Cardinality(T) <= Cardinality(S1)
  BY <1>3, <1>5, FS_Subset
<1>8. T \subseteq S => Cardinality(T) <= Cardinality(S)
  BY FS_Subset
<1>9. QED
  BY <1>3, <1>4, <1>6, <1>7, <1>8

(* The old file stands for no record, or for the two its torn tail may cost. *)
LEMMA OldTailFacts ==
  /\ OldTail \in {0, 2}
  /\ old' = old => OldTail' = OldTail
BY DEF OldTail

(* What an append does to the lines: after a terminated line it adds one,  *)
(* after a torn one it spoils the last and adds none.                      *)
LEMMA AppendLineFacts ==
  ASSUME TypeOK, NEW line \in Lines
  PROVE  /\ AppendLine(file, line) \in Seq(Lines)
         /\ terminated =>
              /\ Len(AppendLine(file, line)) = Len(file) + 1
              /\ AppendLine(file, line)[Len(file) + 1] = line
         /\ ~terminated =>
              /\ Len(AppendLine(file, line)) = Len(file)
              /\ AppendLine(file, line)[Len(file)] \notin Keys
         /\ \A i \in 1..Len(file) :
              (terminated \/ i # Len(file)) => AppendLine(file, line)[i] = file[i]
<1>1. CASE terminated
  BY <1>1 DEF AppendLine, TypeOK, FileOK, Present
<1>2. CASE ~terminated
  <2>1. Glue(file[Len(file)], line) \in Lines \ Keys
    BY LineKinds DEF Glue, Lines
  <2>2. Len(file) \in 1..Len(file)
    BY <1>2 DEF TypeOK, FileOK, Present
  <2>3. AppendLine(file, line) = [file EXCEPT ![Len(file)] = Glue(file[Len(file)], line)]
    BY <1>2 DEF AppendLine
  <2>4. QED
    BY <1>2, <2>1, <2>2, <2>3 DEF TypeOK, FileOK, Present
<1>3. QED
  BY <1>1, <1>2

(* The unterminated tail, the only line an append can spoil.               *)
Tail1 == IF terminated THEN {} ELSE {file[Len(file)]}

(* What an append of k, cut or whole, does to the file: the lines keep     *)
(* their records but the torn tail, at most k is added, and never twice.   *)
LEMMA WriteCutFacts ==
  ASSUME TypeOK, NoDuplicateKeys, NEW k \in Keys, NEW cut \in Cuts, WriteCut(k, cut),
         \A i \in 1..Len(file) : file[i] = k => ~terminated /\ i = Len(file)
  PROVE  /\ file' \in Seq(Lines) /\ terminated' \in BOOLEAN
         /\ synced' \in 0..Len(file') /\ (~terminated' => synced' < Len(file'))
         /\ tears' \in 0..MaxTears
         /\ NoDuplicateKeys'
         /\ SyncedKeys \subseteq SyncedKeys'
         /\ DiskKeys \subseteq DiskKeys' \cup Tail1
         /\ cut = "whole" /\ terminated => k \in DiskKeys'
         /\ \A i \in 1..Len(file') : file'[i] \in Keys =>
              \/ i \in 1..Len(file) /\ file[i] = file'[i] /\ (terminated \/ i # Len(file))
              \/ i = Len(file') /\ file'[i] = k /\ cut # "nothing"
              \/ cut = "nothing"
<1>1. CASE cut = "nothing"
  <2>1. UNCHANGED <<file, terminated, synced, tears>>
    BY <1>1 DEF WriteCut, TornCuts
  <2>2. QED
    BY <1>1, <2>1 DEF TypeOK, FileOK, Present, NoDuplicateKeys, SyncedKeys, DiskKeys
<1>2. CASE cut # "nothing"
  <2> DEFINE line == LeftOf(k, cut)
  <2>1. /\ line \in {k, Torn, Undecodable} /\ line \in Lines
        /\ cut = "whole" => line = k
    BY DEF LeftOf, Lines, Cuts, TornCuts
  <2>2. /\ file' = AppendLine(file, line)
        /\ terminated' = (cut = "whole")
        /\ synced' = synced
        /\ tears' = IF cut = "whole" THEN tears ELSE tears + 1
        /\ tears' <= MaxTears
    BY <1>2 DEF WriteCut, Cuts, TornCuts
  <2> HIDE DEF line
  <2>3. /\ file' \in Seq(Lines)
        /\ terminated =>
              /\ Len(file') = Len(file) + 1
              /\ file'[Len(file) + 1] = line
        /\ ~terminated =>
              /\ Len(file') = Len(file)
              /\ file'[Len(file)] \notin Keys
        /\ \A i \in 1..Len(file) :
              (terminated \/ i # Len(file)) => file'[i] = file[i]
    BY <2>1, <2>2, AppendLineFacts
  <2>4. /\ Len(file) \in Nat /\ Len(file') \in Nat /\ Len(file) <= Len(file')
        /\ Len(file') > 0
        /\ synced \in Nat /\ synced <= Len(file) /\ (~terminated => synced < Len(file))
        /\ tears \in Nat /\ terminated \in BOOLEAN
    BY <2>3 DEF TypeOK, FileOK, Present
  <2>5. /\ terminated' \in BOOLEAN
        /\ synced' \in 0..Len(file') /\ (~terminated' => synced' < Len(file'))
        /\ tears' \in 0..MaxTears
    <3>1. synced' < Len(file')
      BY <2>2, <2>3, <2>4
    <3>2. QED
      BY <2>2, <2>4, <3>1, Bounds
  <2>6. \A i \in 1..Len(file') : file'[i] \in Keys =>
          \/ i \in 1..Len(file) /\ file[i] = file'[i] /\ (terminated \/ i # Len(file))
          \/ i = Len(file') /\ terminated /\ file'[i] = k
    <3> TAKE i \in 1..Len(file')
    <3>1. i \in 1..Len(file) \/ (terminated /\ i = Len(file) + 1)
      BY <2>3, <2>4
    <3>2. CASE i \in 1..Len(file)
      BY <2>3, <3>2
    <3>3. CASE terminated /\ i = Len(file) + 1
      BY <2>1, <2>3, <3>3, LineKinds
    <3>4. QED
      BY <3>1, <3>2, <3>3
  <2>7. NoDuplicateKeys'
    <3> SUFFICES ASSUME NEW i \in 1..Len(file'), NEW j \in 1..Len(file'),
                        file'[i] \in Keys, file'[i] = file'[j]
                 PROVE  i = j
      BY DEF NoDuplicateKeys
    <3>1. CASE i \in 1..Len(file) /\ file[i] = file'[i] /\ (terminated \/ i # Len(file))
      BY <2>6, <3>1 DEF NoDuplicateKeys
    <3>2. CASE i = Len(file') /\ terminated /\ file'[i] = k
      BY <2>6, <3>2
    <3>3. QED
      BY <2>6, <3>1, <3>2
  <2>8. SyncedKeys \subseteq SyncedKeys'
    <3>1. \A i \in 1..synced : i \in 1..synced' /\ file'[i] = file[i]
      BY <2>2, <2>3, <2>4
    <3>2. QED
      BY <3>1 DEF SyncedKeys
  <2>9. DiskKeys \subseteq DiskKeys' \cup Tail1
    <3> SUFFICES ASSUME NEW x \in DiskKeys PROVE x \in DiskKeys' \cup Tail1
      OBVIOUS
    <3>1. PICK i \in 1..Len(file) : file[i] = x
      BY DEF DiskKeys, Range, TypeOK, FileOK, Present
    <3>2. CASE terminated \/ i # Len(file)
      <4>1. file'[i] = x /\ i \in 1..Len(file')
        BY <2>3, <2>4, <3>1, <3>2
      <4>2. QED
        BY <2>3, <4>1 DEF DiskKeys, Range
    <3>3. CASE ~terminated /\ i = Len(file)
      BY <3>1, <3>3 DEF Tail1
    <3>4. QED
      BY <3>2, <3>3
  <2>10. cut = "whole" /\ terminated => k \in DiskKeys'
    <3> SUFFICES ASSUME cut = "whole", terminated PROVE k \in DiskKeys'
      OBVIOUS
    <3>1. file'[Len(file')] = k /\ Len(file') \in 1..Len(file')
      BY <2>1, <2>3, <2>4
    <3>2. QED
      BY <2>3, <3>1 DEF DiskKeys, Range
  <2>11. QED
    BY <1>2, <2>3, <2>5, <2>6, <2>7, <2>8, <2>9, <2>10
<1>3. QED
  BY <1>1, <1>2

(* A key that is not indexed is in the file only as the torn tail.         *)
LEMMA NotIndexed ==
  ASSUME IInv, NEW k \in Keys, k \notin KeysIndex
  PROVE  \A i \in 1..Len(file) : file[i] = k => ~terminated /\ i = Len(file)
<1>1. CASE index = Unset
  BY <1>1 DEF KeysIndex, DiskKeys, Range, IInv, TypeOK, FileOK, Present
<1>2. CASE index # Unset
  BY <1>2 DEF KeysIndex, IInv, IndexCoversFile
<1>3. QED
  BY <1>1, <1>2

(* What is claimed after the index was read from the file if it was unset. *)
LEMMA KeysIndexFacts ==
  ASSUME IInv
  PROVE  /\ KeysIndex \in SUBSET Keys
         /\ KeysIndex # Unset
         /\ KeysIndex \subseteq Claimed \cup DiskKeys
         /\ Claimed \subseteq told \cup KeysIndex
         /\ \A i \in 1..Len(file) : file[i] \in Keys =>
              file[i] \in KeysIndex \/ (~terminated /\ i = Len(file))
<1>1. CASE index = Unset
  BY <1>1, LineKinds DEF KeysIndex, DiskKeys, Range, IInv, TypeOK, FileOK, Present, Claimed
<1>2. CASE index # Unset
  BY <1>2, LineKinds DEF KeysIndex, IInv, TypeOK, FileOK, Present, IndexCoversFile, Claimed
<1>3. QED
  BY <1>1, <1>2

(* An append, cut or whole, after which the index is set to newindex (Unset *)
(* after a crash) and told to newtold, keeps the invariant: the three ways  *)
(* of enqueue to end differ in these only.                                  *)
LEMMA AppendStep ==
  ASSUME IInv, NEW k \in Keys, NEW cut \in Cuts, k \notin KeysIndex, WriteCut(k, cut),
         \/ cut = "whole" /\ index' = KeysIndex \cup {k} /\ told' = told \cup {k}
         \/ cut # "whole" /\ index' = KeysIndex /\ told' = told
         \/ index' = Unset /\ told' = told,
         UNCHANGED <<tmp, secured>>
  PROVE  IInv'
<1>1. /\ TypeOK /\ NoDuplicateKeys /\ IndexCoversFile /\ LossPaidFor /\ SecuredIsSynced
      /\ OldIsSound /\ old' = old
  BY DEF IInv, WriteCut
<1>2. \A i \in 1..Len(file) : file[i] = k => ~terminated /\ i = Len(file)
  BY NotIndexed
<1>3. /\ file' \in Seq(Lines) /\ terminated' \in BOOLEAN
      /\ synced' \in 0..Len(file') /\ (~terminated' => synced' < Len(file'))
      /\ tears' \in 0..MaxTears
      /\ NoDuplicateKeys'
      /\ SyncedKeys \subseteq SyncedKeys'
      /\ DiskKeys \subseteq DiskKeys' \cup Tail1
      /\ cut = "whole" /\ terminated => k \in DiskKeys'
      /\ \A i \in 1..Len(file') : file'[i] \in Keys =>
           \/ i \in 1..Len(file) /\ file[i] = file'[i] /\ (terminated \/ i # Len(file))
           \/ i = Len(file') /\ file'[i] = k /\ cut # "nothing"
           \/ cut = "nothing"
  BY <1>1, <1>2, WriteCutFacts
<1>4. /\ KeysIndex \in SUBSET Keys
      /\ KeysIndex # Unset
      /\ KeysIndex \subseteq Claimed \cup DiskKeys
      /\ \A i \in 1..Len(file) : file[i] \in Keys =>
           file[i] \in KeysIndex \/ (~terminated /\ i = Len(file))
  BY KeysIndexFacts
<1>5. KeysIndex \cup {k} # Unset
  BY <1>4, LineKinds
<1>6. TypeOK'
  BY <1>1, <1>3, <1>4 DEF TypeOK, FileOK, Present
<1>7. SecuredIsSynced' /\ OldIsSound'
  BY <1>1, <1>3 DEF SecuredIsSynced, OldIsSound
<1>8. IndexCoversFile'
  <2> SUFFICES ASSUME index' # Unset, NEW i \in 1..Len(file'), file'[i] \in Keys
               PROVE  file'[i] \in index' \/ (~terminated' /\ i = Len(file'))
    BY DEF IndexCoversFile
  <2>1. KeysIndex \subseteq index' /\ (cut = "whole" => k \in index')
    BY DEF Cuts
  <2>2. CASE cut = "nothing"
    <3>1. UNCHANGED <<file, terminated>>
      BY <2>2 DEF WriteCut
    <3>2. QED
      BY <1>4, <2>1, <3>1
  <2>3. CASE i \in 1..Len(file) /\ file[i] = file'[i] /\ (terminated \/ i # Len(file))
    BY <1>4, <2>1, <2>3
  <2>4. CASE i = Len(file') /\ file'[i] = k /\ cut # "nothing"
    <3>1. cut # "whole" => ~terminated'
      BY <2>4 DEF WriteCut
    <3>2. QED
      BY <2>1, <2>4, <3>1
  <2>5. QED
    BY <1>3, <2>2, <2>3, <2>4
<1>9. LossPaidFor'
  <2>1. IsFiniteSet(Missing) /\ Cardinality(Missing) \in Nat
        /\ Cardinality(Missing) + (IF terminated THEN 0 ELSE 2) + OldTail <= 2 * tears
        /\ tears \in Nat /\ terminated \in BOOLEAN
        /\ OldTail \in {0, 2} /\ OldTail' = OldTail
    BY <1>1, OldTailFacts, FS_CardinalityType DEF LossPaidFor, TypeOK, FileOK, Present
  <2>2. Claimed' \subseteq Claimed \cup DiskKeys \cup (IF cut = "whole" THEN {k} ELSE {})
    BY <1>4, <1>5 DEF Claimed
  <2>3. Missing' \subseteq Missing \cup Tail1 \cup (IF cut = "whole" THEN {k} ELSE {})
    BY <1>3, <2>2 DEF Missing
  <2>4. CASE cut = "nothing"
    <3>1. UNCHANGED <<file, terminated, tears>>
      BY <2>4 DEF WriteCut, TornCuts
    <3>2. Missing' \subseteq Missing
      BY <2>2, <2>4, <3>1 DEF Missing, DiskKeys
    <3>3. QED
      BY <2>1, <3>1, <3>2, FS_Subset, FS_CardinalityType DEF LossPaidFor
  <2>5. CASE cut = "whole"
    <3>1. terminated' = TRUE /\ tears' = tears
      BY <2>5 DEF WriteCut, TornCuts
    <3>2. CASE terminated
      <4>1. Missing' \subseteq Missing
        BY <1>3, <2>3, <2>5, <3>2 DEF Tail1, Missing
      <4>2. QED
        BY <2>1, <3>1, <3>2, <4>1, FS_Subset, FS_CardinalityType DEF LossPaidFor
    <3>3. CASE ~terminated
      <4>1. Missing' \subseteq Missing \cup {file[Len(file)], k}
        BY <2>3, <2>5, <3>3 DEF Tail1
      <4>2. /\ IsFiniteSet(Missing') /\ Cardinality(Missing') \in Nat
            /\ Cardinality(Missing') <= Cardinality(Missing) + 2
        BY <2>1, <4>1, TwoMore
      <4>3. QED
        BY <2>1, <3>1, <3>3, <4>2 DEF LossPaidFor
    <3>4. QED
      BY <3>2, <3>3
  <2>6. CASE cut \in TornCuts
    <3>1. terminated' = FALSE /\ tears' = tears + 1
      BY <2>6 DEF WriteCut, TornCuts
    <3>2. CASE terminated
      <4>1. Missing' \subseteq Missing
        BY <2>3, <2>6, <3>2 DEF Tail1, TornCuts
      <4>2. QED
        BY <2>1, <3>1, <3>2, <4>1, FS_Subset, FS_CardinalityType DEF LossPaidFor
    <3>3. CASE ~terminated
      <4>1. Missing' \subseteq Missing \cup {file[Len(file)], file[Len(file)]}
        BY <2>3, <2>6, <3>3 DEF Tail1, TornCuts
      <4>2. /\ IsFiniteSet(Missing') /\ Cardinality(Missing') \in Nat
            /\ Cardinality(Missing') <= Cardinality(Missing) + 1
        BY <2>1, <4>1, TwoMore
      <4>3. QED
        BY <2>1, <3>1, <3>3, <4>2 DEF LossPaidFor
    <3>4. QED
      BY <3>2, <3>3
  <2>7. QED
    BY <2>4, <2>5, <2>6 DEF Cuts
<1>10. QED
  BY <1>3, <1>6, <1>7, <1>8, <1>9 DEF IInv

(* Building the index from the file changes nothing else that matters.     *)
LEMMA ReadIndexStep ==
  ASSUME IInv, NEW ks \in SUBSET KeysIndex, index' = KeysIndex, told' = told \cup ks,
         UNCHANGED <<file, terminated, synced, old, tmp, secured, tears>>
  PROVE  IInv'
<1>1. /\ KeysIndex \in SUBSET Keys /\ KeysIndex # Unset
      /\ KeysIndex \subseteq Claimed \cup DiskKeys
      /\ \A i \in 1..Len(file) : file[i] \in Keys =>
           file[i] \in KeysIndex \/ (~terminated /\ i = Len(file))
  BY KeysIndexFacts
<1>2. TypeOK' /\ NoDuplicateKeys' /\ IndexCoversFile' /\ SecuredIsSynced' /\ OldIsSound'
  BY <1>1 DEF IInv, TypeOK, FileOK, Present, NoDuplicateKeys, IndexCoversFile, SecuredIsSynced,
              SyncedKeys, OldIsSound
<1>3. Missing' \subseteq Missing
  BY <1>1 DEF Missing, Claimed, DiskKeys
<1>4. LossPaidFor'
  <2>1. IsFiniteSet(Missing) /\ Cardinality(Missing) \in Nat
        /\ Cardinality(Missing) + (IF terminated THEN 0 ELSE 2) + OldTail <= 2 * tears
        /\ tears \in Nat /\ terminated \in BOOLEAN
        /\ OldTail \in {0, 2} /\ (old' = old => OldTail' = OldTail)
    BY OldTailFacts, FS_CardinalityType DEF IInv, LossPaidFor, TypeOK, FileOK, Present
  <2>2. QED
    BY <1>3, <2>1, FS_Subset, FS_CardinalityType DEF LossPaidFor
<1>5. QED
  BY <1>2, <1>4 DEF IInv

(* When the file holds exactly recs, indexed and fsynced, and the file from *)
(* before is what a power failure may bring back, all is in order.          *)
LEMMA RewriteStep ==
  ASSUME IInv, NEW recs \in Seq(Keys), IsInjective(recs),
         file' = recs, terminated' = TRUE, synced' = Len(recs),
         index' = Range(recs), told' = Range(recs), secured' = Range(recs),
         tmp' = <<>>, UNCHANGED tears, Superseded
  PROVE  IInv'
<1>1. Range(recs) \in SUBSET Keys /\ Range(recs) # Unset
  BY LineKinds DEF Range
<1>2. old' = {Present} \/ old' = old
  BY DEF Superseded
<1>3. TypeOK'
  <2>1. \A f \in old' : FileOK(f) /\ old' = {f}
    BY <1>2 DEF IInv, TypeOK
  <2>2. FileOK(Present)'
    BY <1>1 DEF FileOK, Present, Lines
  <2>3. QED
    BY <1>1, <2>1, <2>2 DEF IInv, TypeOK, IsInjective
<1>4. NoDuplicateKeys' /\ IndexCoversFile'
  BY DEF NoDuplicateKeys, IndexCoversFile, IsInjective, Range
<1>5. SecuredIsSynced'
  BY DEF SecuredIsSynced, SyncedKeys, Range
<1>6. OldIsSound'
  BY <1>2 DEF IInv, OldIsSound, NoDuplicateKeys, SecuredIsSynced, SyncedKeys, Present
<1>7. Missing' = {}
  BY <1>1 DEF Missing, Claimed, DiskKeys
<1>8. LossPaidFor'
  <2>1. /\ Cardinality(Missing) \in Nat /\ tears \in Nat /\ OldTail \in {0, 2}
        /\ Cardinality(Missing) + (IF terminated THEN 0 ELSE 2) + OldTail <= 2 * tears
    BY OldTailFacts, FS_CardinalityType DEF IInv, LossPaidFor, TypeOK
  <2>2. OldTail' = OldTail \/ OldTail' = IF terminated THEN 0 ELSE 2
    <3>1. CASE old' = old
      BY <3>1, OldTailFacts
    <3>2. CASE old' = {Present}
      <4>1. OldTail' = IF Present.terminated THEN 0 ELSE 2
        BY <3>2 DEF OldTail
      <4>2. QED
        BY <4>1 DEF Present
    <3>3. QED
      BY <1>2, <3>1, <3>2
  <2>3. OldTail' <= 2 * tears /\ OldTail' \in Nat
    BY <2>1, <2>2
  <2>4. QED
    BY <1>7, <2>3, FS_EmptySet DEF LossPaidFor
<1>9. QED
  BY <1>3, <1>4, <1>5, <1>6, <1>8 DEF IInv

(* A power failure keeps a prefix of the lines of the present file or of   *)
(* the old one that covers the fsynced ones, and drops from told what it   *)
(* took.                                                                   *)
LEMMA PowerLossStep ==
  ASSUME IInv, NEW f \in {Present} \cup old, NEW n, NEW cut, PowerLoss(f, n, cut)
  PROVE  IInv'
<1>1. /\ FileOK(f)
      /\ \A i, j \in 1..Len(f.lines) :
           f.lines[i] \in Keys /\ f.lines[i] = f.lines[j] => i = j
      /\ f.secured \subseteq {f.lines[i] : i \in 1..f.synced}
      /\ (IF f.terminated THEN 0 ELSE 2) <= (IF terminated THEN 0 ELSE 2) + OldTail
  <2>1. CASE f = Present
    <3>1. /\ f.lines = file /\ f.terminated = terminated
          /\ f.synced = synced /\ f.secured = secured
      BY <2>1 DEF Present
    <3>2. FileOK(f)
      BY <2>1 DEF IInv, TypeOK
    <3>3. QED
      BY <3>1, <3>2, OldTailFacts DEF IInv, NoDuplicateKeys, SecuredIsSynced, SyncedKeys
  <2>2. CASE f \in old
    BY <2>2 DEF IInv, TypeOK, OldIsSound, OldTail
  <2>3. QED
    BY <2>1, <2>2
<1> DEFINE s == f.lines
<1>2. /\ n \in f.synced..Len(s) /\ n \in Nat
      /\ f.synced \in Nat /\ f.synced <= n
      /\ s \in Seq(Lines) /\ f.terminated \in BOOLEAN
      /\ n # Len(s) => n + 1 \in 1..Len(s)
      /\ n = Len(s) => cut = "nothing"
  BY <1>1 DEF PowerLoss, FileOK
<1>3. /\ file' = IF cut = "nothing" THEN SubSeq(s, 1, n)
                                    ELSE Append(SubSeq(s, 1, n), LeftOf(s[n + 1], cut))
      /\ cut \in TornCuts \cup {"nothing"}
      /\ cut = "unterminated" => s[n + 1] \in Keys
      /\ terminated' = (cut = "nothing" /\ (n = Len(s) => f.terminated))
      /\ tears' = IF cut = "nothing" THEN tears ELSE tears + 1
      /\ tears' <= MaxTears
      /\ synced' = f.synced /\ secured' = f.secured
      /\ old' = {} /\ index' = Unset /\ tmp' = <<>>
      /\ told' = told \ (DiskKeys \ Range(file'))
  BY DEF PowerLoss
<1> HIDE DEF s
<1>4. /\ file' \in Seq(Lines)
      /\ Len(file') = IF cut = "nothing" THEN n ELSE n + 1
      /\ \A i \in 1..n : file'[i] = s[i]
      /\ \A i \in 1..Len(file') : i \in 1..Len(s) /\ (file'[i] \in Keys => file'[i] = s[i])
  <2> DEFINE line == LeftOf(s[n + 1], cut)
  <2>1. SubSeq(s, 1, n) \in Seq(Lines) /\ Len(SubSeq(s, 1, n)) = n
        /\ \A i \in 1..n : SubSeq(s, 1, n)[i] = s[i]
    BY <1>2
  <2>2. CASE cut = "nothing"
    BY <1>2, <1>3, <2>1, <2>2
  <2>3. CASE cut # "nothing"
    <3>1. file' = Append(SubSeq(s, 1, n), line)
      BY <1>3, <2>3
    <3>2. n + 1 \in 1..Len(s)
      BY <1>2, <2>3
    <3>3. line \in Lines /\ (line \in Keys => line = s[n + 1])
      BY <1>2, <1>3, <2>3, <3>2, LineKinds DEF LeftOf, Lines, TornCuts
    <3> HIDE DEF line
    <3>4. /\ file' \in Seq(Lines) /\ Len(file') = n + 1 /\ file'[n + 1] = line
          /\ \A i \in 1..n : file'[i] = s[i]
      BY <1>2, <2>1, <3>1, <3>3
    <3>5. QED
      BY <1>2, <2>3, <3>2, <3>3, <3>4
  <2>4. QED
    BY <2>2, <2>3
<1>5. TypeOK'
  <2>1. synced' \in 0..Len(file') /\ (~terminated' => synced' < Len(file'))
    <3>1. Len(file') \in Nat /\ f.synced <= Len(file')
          /\ (cut # "nothing" => f.synced < Len(file'))
      BY <1>2, <1>4
    <3>2. cut = "nothing" /\ ~terminated' => n = Len(s) /\ f.synced < Len(s)
      BY <1>1, <1>2, <1>3 DEF FileOK, s
    <3>3. cut = "nothing" /\ ~terminated' => synced' < Len(file')
      BY <1>3, <1>4, <3>2
    <3>4. QED
      BY <1>2, <1>3, <3>1, <3>3
  <2>2. tears' \in 0..MaxTears
    BY <1>3, Bounds DEF IInv, TypeOK
  <2>3. tmp' \in Seq(Keys) /\ IsInjective(tmp')
    BY <1>3 DEF IsInjective
  <2>4. terminated' \in BOOLEAN /\ secured' \in SUBSET Keys
    BY <1>1, <1>3 DEF FileOK
  <2>5. FileOK(Present)'
    BY <1>4, <2>1, <2>4 DEF FileOK, Present
  <2>6. QED
    BY <1>3, <2>2, <2>3, <2>5 DEF IInv, TypeOK
<1>6. NoDuplicateKeys'
  BY <1>1, <1>4 DEF NoDuplicateKeys, s
<1>7. IndexCoversFile' /\ OldIsSound'
  BY <1>3 DEF IndexCoversFile, OldIsSound
<1>8. SecuredIsSynced'
  <2>1. \A i \in 1..f.synced : file'[i] = s[i]
    BY <1>2, <1>4
  <2>2. QED
    BY <1>1, <1>3, <2>1 DEF SecuredIsSynced, SyncedKeys, s
<1>9. LossPaidFor'
  <2>1. Missing' \subseteq Missing
    BY <1>3 DEF Missing, Claimed, DiskKeys
  <2>2. /\ IsFiniteSet(Missing) /\ Cardinality(Missing) \in Nat
        /\ Cardinality(Missing) + (IF terminated THEN 0 ELSE 2) + OldTail <= 2 * tears
        /\ tears \in Nat /\ OldTail \in {0, 2}
    BY OldTailFacts, FS_CardinalityType DEF IInv, LossPaidFor, TypeOK
  <2>3. /\ IsFiniteSet(Missing') /\ Cardinality(Missing') \in Nat
        /\ Cardinality(Missing') <= Cardinality(Missing)
    BY <2>1, <2>2, FS_Subset, FS_CardinalityType
  <2>4. OldTail' = 0
    BY <1>3 DEF OldTail
  <2>5. CASE cut = "nothing"
    <3>1. tears' = tears /\ (~terminated' => ~f.terminated)
      BY <1>3, <2>5
    <3>2. Cardinality(Missing) + (IF f.terminated THEN 0 ELSE 2) <= 2 * tears
      BY <1>1, <2>2
    <3>3. Cardinality(Missing') + (IF terminated' THEN 0 ELSE 2) <= 2 * tears'
      BY <2>2, <2>3, <3>1, <3>2
    <3>4. QED
      BY <2>3, <2>4, <3>3 DEF LossPaidFor
  <2>6. CASE cut # "nothing"
    <3>1. tears' = tears + 1
      BY <1>3, <2>6
    <3>2. Cardinality(Missing') + (IF terminated' THEN 0 ELSE 2) <= 2 * tears'
      BY <2>2, <2>3, <3>1
    <3>3. QED
      BY <2>3, <2>4, <3>2 DEF LossPaidFor
  <2>7. QED
    BY <2>5, <2>6
<1>10. QED
  BY <1>5, <1>6, <1>7, <1>8, <1>9 DEF IInv

(* Once the directory is written the old file is of no account.            *)
LEMMA DirectoryWrittenStep ==
  ASSUME IInv, DirectoryWritten
  PROVE  IInv'
<1>1. /\ old' = {}
      /\ UNCHANGED <<file, terminated, synced, index, tmp, told, secured, tears>>
  BY DEF DirectoryWritten, disk, history
<1>2. TypeOK' /\ NoDuplicateKeys' /\ IndexCoversFile' /\ SecuredIsSynced' /\ OldIsSound'
  BY <1>1 DEF IInv, TypeOK, FileOK, Present, NoDuplicateKeys, IndexCoversFile,
              SecuredIsSynced, SyncedKeys, OldIsSound
<1>3. LossPaidFor'
  <2>1. Missing' = Missing /\ OldTail' = 0
    BY <1>1 DEF Missing, Claimed, DiskKeys, OldTail
  <2>2. /\ IsFiniteSet(Missing) /\ Cardinality(Missing) \in Nat
        /\ Cardinality(Missing) + (IF terminated THEN 0 ELSE 2) + OldTail <= 2 * tears
        /\ tears \in Nat /\ OldTail \in {0, 2}
    BY OldTailFacts, FS_CardinalityType DEF IInv, LossPaidFor, TypeOK
  <2>3. Cardinality(Missing) + (IF terminated THEN 0 ELSE 2) <= 2 * tears
    BY <2>2
  <2>4. QED
    BY <1>1, <2>1, <2>2, <2>3 DEF LossPaidFor
<1>4. QED
  BY <1>2, <1>3 DEF IInv

(* A crash drops the index and a rewrite in progress.                      *)
LEMMA CrashStep ==
  ASSUME IInv, Crash
  PROVE  IInv'
<1>1. TypeOK' /\ NoDuplicateKeys' /\ IndexCoversFile' /\ SecuredIsSynced' /\ OldIsSound'
  BY DEF Crash, disk, history, IInv, TypeOK, FileOK, Present, NoDuplicateKeys, IndexCoversFile,
         SecuredIsSynced, SyncedKeys, IsInjective, OldIsSound
<1>2. Missing' \subseteq Missing
  BY DEF Crash, disk, history, Missing, Claimed, DiskKeys
<1>3. LossPaidFor'
  <2>1. IsFiniteSet(Missing) /\ Cardinality(Missing) \in Nat
        /\ Cardinality(Missing) + (IF terminated THEN 0 ELSE 2) + OldTail <= 2 * tears
        /\ tears \in Nat /\ terminated \in BOOLEAN
        /\ OldTail \in {0, 2} /\ (old' = old => OldTail' = OldTail)
    BY OldTailFacts, FS_CardinalityType DEF IInv, LossPaidFor, TypeOK, FileOK, Present
  <2>2. UNCHANGED <<terminated, tears, old>>
    BY DEF Crash, disk, history
  <2>3. QED
    BY <1>2, <2>1, <2>2, FS_Subset, FS_CardinalityType DEF LossPaidFor
<1>4. QED
  BY <1>1, <1>3 DEF IInv

(* The invariant is inductive.                                             *)
LEMMA IInvInductive == IInv /\ [Next]_vars => IInv'
<1> SUFFICES ASSUME IInv, [Next]_vars PROVE IInv'
  OBVIOUS
<1>1. ASSUME NEW k \in Keys, Enqueue(k) PROVE IInv'
  BY <1>1, AppendStep DEF Enqueue, Cuts
<1>2. ASSUME NEW k \in Keys, EnqueueDuplicate(k) PROVE IInv'
  <2>1. {k} \in SUBSET KeysIndex
    BY <1>2 DEF EnqueueDuplicate
  <2>2. QED
    BY <1>2, <2>1, ReadIndexStep DEF EnqueueDuplicate, disk
<1>3. ASSUME NEW k \in Keys, NEW cut \in Cuts \ {"whole"}, EnqueueFails(k, cut)
      PROVE  IInv'
  BY <1>3, AppendStep DEF EnqueueFails
<1>4. CASE ReadKeys
  <2>1. {} \in SUBSET KeysIndex /\ told' = told \cup {}
    BY <1>4 DEF ReadKeys, history
  <2>2. QED
    BY <1>4, <2>1, ReadIndexStep DEF ReadKeys, disk, history
<1>5. CASE Clear
  <2>1. <<>> \in Seq(Keys) /\ Len(<<>>) = 0 /\ IsInjective(<<>>) /\ Range(<<>>) = {}
    BY DEF IsInjective, Range
  <2>2. tmp' = <<>>
    BY <1>5 DEF Clear, Unlink, Idle
  <2>3. QED
    BY <1>5, <2>1, <2>2, RewriteStep DEF Clear, Unlink
<1>6. ASSUME NEW recs \in Rewrites, ReplaceWrite(recs) PROVE IInv'
  <2>1. recs \in Seq(Keys) /\ IsInjective(recs)
    BY <1>6, Bounds DEF Rewrites, ReplaceWrite
  <2>2. TypeOK'
    BY <1>6, <2>1 DEF ReplaceWrite, disk, history, IInv, TypeOK, FileOK, Present
  <2>3. NoDuplicateKeys' /\ IndexCoversFile' /\ SecuredIsSynced' /\ OldIsSound'
    BY <1>6 DEF ReplaceWrite, disk, history, IInv, NoDuplicateKeys, IndexCoversFile,
                SecuredIsSynced, SyncedKeys, OldIsSound
  <2>4. LossPaidFor'
    BY <1>6 DEF ReplaceWrite, disk, history, IInv, LossPaidFor, Missing, Claimed, DiskKeys,
                OldTail
  <2>5. QED
    BY <2>2, <2>3, <2>4 DEF IInv
<1>7. CASE ReplaceRename
  <2>1. tmp \in Seq(Keys) /\ IsInjective(tmp)
    BY DEF IInv, TypeOK
  <2>2. QED
    BY <1>7, <2>1, RewriteStep DEF ReplaceRename, Rename
<1>8. CASE Crash
  BY <1>8, CrashStep
<1>9. ASSUME NEW k \in Keys, NEW cut \in Cuts, CrashInEnqueue(k, cut) PROVE IInv'
  BY <1>9, AppendStep DEF CrashInEnqueue
<1>10. ASSUME NEW f \in {Present} \cup old, NEW n, NEW cut, PowerLoss(f, n, cut)
       PROVE  IInv'
  BY <1>10, PowerLossStep
<1>11. CASE DirectoryWritten
  BY <1>11, DirectoryWrittenStep
<1>12. CASE UNCHANGED vars
  <2>1. UNCHANGED <<file, terminated, index, tmp, synced, old, told, secured, tears>>
    BY <1>12 DEF vars
  <2>2. TypeOK' /\ NoDuplicateKeys' /\ IndexCoversFile' /\ SecuredIsSynced' /\ OldIsSound'
    BY <2>1 DEF IInv, TypeOK, FileOK, Present, NoDuplicateKeys, IndexCoversFile, SecuredIsSynced,
                SyncedKeys, OldIsSound
  <2>3. LossPaidFor'
    BY <2>1 DEF IInv, LossPaidFor, Missing, Claimed, DiskKeys, OldTail
  <2>4. QED
    BY <2>2, <2>3 DEF IInv
<1>13. QED
  BY <1>1, <1>2, <1>3, <1>4, <1>5, <1>6, <1>7, <1>8, <1>9, <1>10, <1>11, <1>12
  DEF Next, Operations, Failures

LEMMA IInvInit == Init => IInv
<1> SUFFICES ASSUME Init PROVE IInv
  OBVIOUS
<1>1. TypeOK
  BY Bounds DEF Init, TypeOK, FileOK, Present, IsInjective, Lines
<1>2. NoDuplicateKeys /\ IndexCoversFile /\ SecuredIsSynced /\ OldIsSound
  BY DEF Init, NoDuplicateKeys, IndexCoversFile, SecuredIsSynced, SyncedKeys, OldIsSound
<1>3. Missing = {}
  BY DEF Init, Missing, Claimed
<1>4. LossPaidFor
  BY <1>3, FS_EmptySet DEF Init, LossPaidFor, OldTail
<1>5. QED
  BY <1>1, <1>2, <1>4 DEF IInv

LEMMA IInvAlways == Spec => []IInv
  BY IInvInit, IInvInductive, PTL DEF Spec

-----------------------------------------------------------------------------
(* Type correctness: lines, index and counters always have the shape that  *)
(* _read_lines and _keys_index produce.                                    *)
THEOREM TypeCorrect == Spec => []TypeOK
<1>1. IInv => TypeOK
  BY DEF IInv
<1>2. QED
  BY <1>1, IInvAlways, PTL

(* Apply-once at the queue (enqueue drops a queued key, through any crash, *)
(* torn write or rewrite): no two lines of the file parse to one record.   *)
THEOREM ApplyOnce == Spec => []NoDuplicateKeys
<1>1. IInv => NoDuplicateKeys
  BY DEF IInv
<1>2. QED
  BY <1>1, IInvAlways, PTL

(* The bounded blast radius of _read_lines: at most two claimed records    *)
(* are missing from the file per torn write, whatever else happened.       *)
THEOREM BlastRadius == Spec => []BoundedBlastRadius
<1>1. IInv => BoundedBlastRadius
  <2> SUFFICES ASSUME IInv PROVE BoundedBlastRadius
    OBVIOUS
  <2>1. Cardinality(Missing) \in Nat /\ tears \in Nat
        /\ Cardinality(Missing) + (IF terminated THEN 0 ELSE 2) + OldTail <= 2 * tears
        /\ OldTail \in {0, 2}
    BY OldTailFacts, FS_CardinalityType DEF IInv, LossPaidFor, TypeOK, FileOK, Present
  <2>2. QED
    BY <2>1 DEF BoundedBlastRadius
<1>2. QED
  BY <1>1, IInvAlways, PTL

(* replace's fsync before its rename: a replace is whole or undone.  What  *)
(* it wrote is in the file through crashes, torn appends and power         *)
(* failures, and when one of these undoes it, before the directory is      *)
(* written, all that an earlier replace wrote is back.                     *)
THEOREM RewriteSurvives == Spec => []SecuredSurvives
<1>1. IInv => SecuredSurvives
  <2> SUFFICES ASSUME IInv PROVE SecuredSurvives
    OBVIOUS
  <2>1. ASSUME NEW f, FileOK(f), f.secured \subseteq {f.lines[i] : i \in 1..f.synced}
        PROVE  f.secured \subseteq Range(f.lines) \cap Keys
    <3>1. 1..f.synced \subseteq DOMAIN f.lines
      BY <2>1 DEF FileOK
    <3>2. QED
      BY <2>1, <3>1 DEF FileOK, Range
  <2>2. /\ FileOK(Present) /\ Present.lines = file /\ Present.secured = secured
        /\ Present.secured \subseteq {Present.lines[i] : i \in 1..Present.synced}
    BY DEF IInv, TypeOK, SecuredIsSynced, SyncedKeys, Present
  <2>3. secured \subseteq DiskKeys
    BY <2>1, <2>2 DEF DiskKeys
  <2>4. \A f \in old : f.secured \subseteq Range(f.lines)
    BY <2>1 DEF IInv, TypeOK, OldIsSound
  <2>5. QED
    BY <2>3, <2>4 DEF SecuredSurvives
<1>2. QED
  BY <1>1, IInvAlways, PTL

-----------------------------------------------------------------------------
(* What the lines parse to *)

(* What holds of 0 and passes from each number to the next holds up to n.  *)
LEMMA UpTo ==
  ASSUME NEW n \in Nat, NEW S, 0 \in S, \A m \in 0..(n - 1) : m \in S => m + 1 \in S
  PROVE  \A m \in 0..n : m \in S
<1> DEFINE T == {m \in 0..n : m \notin S}
           R == {ss \in Nat \X Nat : ss[1] < ss[2]}
<1>1. SUFFICES ASSUME T # {}
               PROVE  FALSE
  OBVIOUS
<1>2. IsWellFoundedOn(R, Nat)
  BY NatLessThanWellFounded DEF OpToRel
<1>3. PICK x \in T : \A y \in T : ~(<<y, x>> \in R)
  <2>1. T \in SUBSET Nat
    OBVIOUS
  <2> HIDE DEF R, T
  <2>2. QED
    BY <1>1, <1>2, <2>1, WFMin
<1>4. x \in 0..n /\ x \notin S /\ x # 0
  OBVIOUS
<1>5. x - 1 \in 0..(n - 1) /\ (x - 1) + 1 = x /\ x - 1 < x /\ x \in Nat /\ x - 1 \in Nat
  BY <1>4
<1>6. x - 1 \in S
  <2>1. x - 1 \notin T
    BY <1>3, <1>5
  <2>2. QED
    BY <1>4, <1>5, <2>1
<1>7. QED
  BY <1>4, <1>5, <1>6

(* f is what has been read after each of the first n lines.                *)
Reading(lines, n, f) ==
  /\ f = [m \in 0..n |-> f[m]] /\ f[0] = <<>>
  /\ \A m \in 1..n : f[m] = IF lines[m] \in Keys THEN Append(f[m - 1], lines[m]) ELSE f[m - 1]

LEMMA ReadingExists ==
  ASSUME NEW lines, NEW n \in Nat
  PROVE  \E f : Reading(lines, n, f)
<1> DEFINE S == {m \in 0..n : \E f : Reading(lines, m, f)}
<1>1. 0 \in S
  <2> DEFINE f == [m \in 0..0 |-> <<>>]
  <2>1. f[0] = <<>> /\ f = [m \in 0..0 |-> f[m]]
    OBVIOUS
  <2> HIDE DEF f
  <2>2. Reading(lines, 0, f)
    BY <2>1 DEF Reading
  <2>3. QED
    BY <2>2
<1>2. ASSUME NEW m \in 0..(n - 1), m \in S
      PROVE  m + 1 \in S
  <2>1. PICK f : Reading(lines, m, f)
    BY <1>2
  <2> DEFINE x == IF lines[m + 1] \in Keys THEN Append(f[m], lines[m + 1]) ELSE f[m]
             g == [l \in 0..(m + 1) |-> IF l = m + 1 THEN x ELSE f[l]]
  <2>2. m \in Nat /\ m + 1 \in 0..n
    OBVIOUS
  <2> HIDE DEF x
  <2>3. /\ \A l \in 0..m : g[l] = f[l]
        /\ g[m + 1] = x /\ g = [l \in 0..(m + 1) |-> g[l]]
    BY <2>2
  <2> HIDE DEF g
  <2>4. g[0] = <<>>
    BY <2>1, <2>2, <2>3 DEF Reading
  <2>5. ASSUME NEW l \in 1..(m + 1)
        PROVE  g[l] = IF lines[l] \in Keys THEN Append(g[l - 1], lines[l]) ELSE g[l - 1]
    <3>1. CASE l = m + 1
      <4>1. m \in 0..m /\ l - 1 = m
        BY <2>2, <3>1
      <4>2. g[l] = x /\ g[l - 1] = f[m] /\ lines[l] = lines[m + 1]
        BY <2>3, <3>1, <4>1
      <4>3. QED
        BY <4>2 DEF x
    <3>2. CASE l # m + 1
      <4>1. l \in 1..m /\ l \in 0..m /\ l - 1 \in 0..m
        BY <2>2, <3>2
      <4>2. g[l] = f[l] /\ g[l - 1] = f[l - 1]
        BY <2>3, <4>1
      <4>3. QED
        BY <2>1, <4>1, <4>2 DEF Reading
    <3>3. QED
      BY <3>1, <3>2
  <2>6. Reading(lines, m + 1, g)
    BY <2>3, <2>4, <2>5 DEF Reading
  <2>7. QED
    BY <2>2, <2>6
<1>3. n \in S
  <2> HIDE DEF S
  <2>1. QED
    BY <1>1, <1>2, UpTo
<1>4. QED
  BY <1>3

LEMMA RecordsRead ==
  ASSUME NEW lines, Len(lines) \in Nat
  PROVE  \E f : Reading(lines, Len(lines), f) /\ Records(lines) = f[Len(lines)]
<1> DEFINE n == Len(lines)
           step(f) == [m \in 0..n |->
                         IF m = 0 THEN <<>>
                         ELSE IF lines[m] \in Keys THEN Append(f[m - 1], lines[m]) ELSE f[m - 1]]
           read == CHOOSE f : f = step(f)
<1>1. Records(lines) = read[n]
  BY DEF Records
<1>2. PICK g : Reading(lines, n, g)
  BY ReadingExists
<1>3. g = step(g)
  <2>1. \A m \in 0..n : g[m] = step(g)[m]
    <3>1. \A m \in 0..n : m = 0 \/ m \in 1..n
      OBVIOUS
    <3>2. QED
      BY <1>2, <3>1 DEF Reading
  <2>2. g = [m \in 0..n |-> g[m]] /\ step(g) = [m \in 0..n |-> step(g)[m]]
    BY <1>2 DEF Reading
  <2> HIDE DEF step
  <2>3. QED
    BY <2>1, <2>2
<1>4. read = step(read)
  <2> HIDE DEF step
  <2>1. QED
    BY <1>3
<1>5. PICK f : f = step(f) /\ Records(lines) = f[n]
  <2> HIDE DEF step, read
  <2>1. QED
    BY <1>1, <1>4
<1>6. Reading(lines, n, f)
  <2>1. f[0] = <<>> /\ f = [m \in 0..n |-> f[m]]
    BY <1>5
  <2>2. \A m \in 1..n : f[m] = IF lines[m] \in Keys THEN Append(f[m - 1], lines[m]) ELSE f[m - 1]
    <3>1. \A m \in 1..n : m \in 0..n /\ m # 0
      OBVIOUS
    <3>2. QED
      BY <1>5, <3>1
  <2>3. QED
    BY <2>1, <2>2 DEF Reading
<1>7. QED
  BY <1>5, <1>6

(* Lines that begin alike are read alike.                                  *)
LEMMA SameReading ==
  ASSUME NEW a, NEW b, NEW m \in Nat, NEW n \in Nat, NEW f, NEW g,
         Reading(a, m, f), Reading(b, n, g), NEW k \in Nat, k <= m, k <= n,
         \A l \in 1..k : a[l] = b[l]
  PROVE  f[k] = g[k]
<1> DEFINE S == {l \in 0..k : f[l] = g[l]}
<1>1. 0 \in S
  BY DEF Reading
<1>2. ASSUME NEW l \in 0..(k - 1), l \in S
      PROVE  l + 1 \in S
  <2>1. l + 1 \in 1..k /\ l + 1 \in 1..m /\ l + 1 \in 1..n /\ (l + 1) - 1 = l /\ l + 1 \in 0..k
    OBVIOUS
  <2>2. f[l] = g[l] /\ a[l + 1] = b[l + 1]
    BY <1>2, <2>1
  <2>3. f[l + 1] = IF a[l + 1] \in Keys THEN Append(f[l], a[l + 1]) ELSE f[l]
    BY <2>1 DEF Reading
  <2>4. g[l + 1] = IF b[l + 1] \in Keys THEN Append(g[l], b[l + 1]) ELSE g[l]
    BY <2>1 DEF Reading
  <2>5. QED
    BY <2>1, <2>2, <2>3, <2>4
<1>3. k \in S
  <2> HIDE DEF S
  <2>1. QED
    BY <1>1, <1>2, UpTo
<1>4. QED
  BY <1>3

LEMMA NoRecords == Records(<<>>) = <<>>
<1>1. PICK f : Reading(<<>>, Len(<<>>), f) /\ Records(<<>>) = f[Len(<<>>)]
  BY RecordsRead
<1>2. Len(<<>>) = 0
  OBVIOUS
<1>3. QED
  BY <1>1, <1>2 DEF Reading

LEMMA OneMoreLine ==
  ASSUME NEW lines \in Seq(Lines), NEW line \in Lines
  PROVE  Records(Append(lines, line)) =
           IF line \in Keys THEN Append(Records(lines), line) ELSE Records(lines)
<1> DEFINE more == Append(lines, line)
           n == Len(lines)
<1>1. /\ n \in Nat /\ Len(more) = n + 1 /\ more[n + 1] = line
      /\ \A l \in 1..n : lines[l] = more[l]
  OBVIOUS
<1> HIDE DEF more
<1>2. PICK f : Reading(lines, n, f) /\ Records(lines) = f[n]
  BY <1>1, RecordsRead
<1>3. PICK g : Reading(more, n + 1, g) /\ Records(more) = g[n + 1]
  <2>1. Len(more) \in Nat
    BY <1>1
  <2>2. QED
    BY <1>1, <2>1, RecordsRead
<1> HIDE DEF n
<1>4. f[n] = g[n]
  <2>1. n + 1 \in Nat /\ n <= n /\ n <= n + 1
    BY <1>1
  <2>2. QED
    BY <1>1, <1>2, <1>3, <2>1, SameReading
<1>5. g[n + 1] = IF more[n + 1] \in Keys THEN Append(g[n], more[n + 1]) ELSE g[n]
  <2>1. n + 1 \in 1..(n + 1) /\ (n + 1) - 1 = n
    BY <1>1
  <2>2. QED
    BY <1>3, <2>1 DEF Reading
<1>6. QED
  BY <1>1, <1>2, <1>3, <1>4, <1>5 DEF more

(* What has been read grows with the lines: it holds the records among     *)
(* them, and what was read before is where it starts.                      *)
LEMMA ReadingGrows ==
  ASSUME NEW s \in Seq(Lines), NEW f, Reading(s, Len(s), f)
  PROVE  \A m \in 0..Len(s) :
           /\ f[m] \in Seq(Keys)
           /\ Range(f[m]) = {s[i] : i \in 1..m} \cap Keys
           /\ \A n \in 0..m : Len(f[n]) <= Len(f[m]) /\ f[n] = SubSeq(f[m], 1, Len(f[n]))
<1> DEFINE Grown(m) ==
             /\ f[m] \in Seq(Keys)
             /\ Range(f[m]) = {s[i] : i \in 1..m} \cap Keys
             /\ \A n \in 0..m :
                  /\ f[n] \in Seq(Keys)
                  /\ Len(f[n]) <= Len(f[m]) /\ f[n] = SubSeq(f[m], 1, Len(f[n]))
           S == {m \in 0..Len(s) : Grown(m)}
<1>1. Len(s) \in Nat
  OBVIOUS
<1>2. 0 \in S
  <2>1. f[0] = <<>>
    BY DEF Reading
  <2>2. f[0] \in Seq(Keys) /\ Range(f[0]) = {} /\ Len(f[0]) = 0 /\ f[0] = SubSeq(f[0], 1, 0)
    BY <2>1 DEF Range
  <2>3. {s[i] : i \in 1..0} = {} /\ 0 \in 0..Len(s) /\ \A n \in 0..0 : n = 0
    BY <1>1
  <2>4. QED
    BY <2>2, <2>3
<1>3. ASSUME NEW m \in 0..(Len(s) - 1), m \in S
      PROVE  m + 1 \in S
  <2>1. /\ m \in Nat /\ m + 1 \in 1..Len(s) /\ m + 1 \in 0..Len(s) /\ (m + 1) - 1 = m
        /\ \A n \in 0..(m + 1) : n \in 0..m \/ n = m + 1
        /\ 1..(m + 1) = 1..m \cup {m + 1}
    BY <1>1
  <2>2. Grown(m)
    BY <1>3
  <2>3. f[m + 1] = IF s[m + 1] \in Keys THEN Append(f[m], s[m + 1]) ELSE f[m]
    BY <2>1 DEF Reading
  <2>4. {s[i] : i \in 1..(m + 1)} = {s[i] : i \in 1..m} \cup {s[m + 1]}
    BY <2>1
  <2>5. CASE s[m + 1] \in Keys
    <3> DEFINE t == f[m]
               u == Append(t, s[m + 1])
    <3>1. t \in Seq(Keys) /\ f[m + 1] = u
      BY <2>2, <2>3, <2>5
    <3>2. u \in Seq(Keys) /\ Len(u) = Len(t) + 1 /\ Len(t) \in Nat /\ u[Len(t) + 1] = s[m + 1]
      BY <2>5, <3>1
    <3>3. \A i \in 1..Len(t) : u[i] = t[i]
      BY <3>1
    <3>4. DOMAIN t = 1..Len(t) /\ DOMAIN u = 1..(Len(t) + 1)
      BY <3>1, <3>2
    <3> HIDE DEF t, u
    <3>5. Range(u) = Range(t) \cup {s[m + 1]}
      <4>1. \A i \in 1..(Len(t) + 1) : i \in 1..Len(t) \/ i = Len(t) + 1
        BY <3>2
      <4>2. \A i \in 1..Len(t) : i \in 1..(Len(t) + 1)
        BY <3>2
      <4>3. Len(t) + 1 \in 1..(Len(t) + 1)
        BY <3>2
      <4>4. QED
        BY <3>2, <3>3, <3>4, <4>1, <4>2, <4>3 DEF Range
    <3>6. \A n \in 0..m : Len(f[n]) <= Len(u) /\ f[n] = SubSeq(u, 1, Len(f[n]))
      <4> SUFFICES ASSUME NEW n \in 0..m
                   PROVE  Len(f[n]) <= Len(u) /\ f[n] = SubSeq(u, 1, Len(f[n]))
        OBVIOUS
      <4>1. f[n] \in Seq(Keys) /\ Len(f[n]) <= Len(t) /\ f[n] = SubSeq(t, 1, Len(f[n]))
        BY <2>2 DEF t
      <4>2. Len(f[n]) \in Nat /\ Len(f[n]) <= Len(u)
        BY <3>2, <4>1
      <4>3. SubSeq(u, 1, Len(f[n])) = SubSeq(t, 1, Len(f[n]))
        BY <3>1, <3>2, <3>3, <4>1, <4>2
      <4>4. QED
        BY <4>1, <4>2, <4>3
    <3>7. u = SubSeq(u, 1, Len(u)) /\ Len(u) <= Len(u)
      BY <3>2
    <3>8. \A n \in 0..(m + 1) :
            f[n] \in Seq(Keys) /\ Len(f[n]) <= Len(u) /\ f[n] = SubSeq(u, 1, Len(f[n]))
      BY <2>1, <2>2, <3>1, <3>2, <3>6, <3>7
    <3>9. Range(t) = {s[i] : i \in 1..m} \cap Keys
      BY <2>2 DEF t
    <3>10. Range(u) = {s[i] : i \in 1..(m + 1)} \cap Keys
      BY <2>4, <2>5, <3>5, <3>9
    <3>11. Grown(m + 1)
      BY <3>1, <3>2, <3>8, <3>10
    <3>12. QED
      BY <2>1, <3>11
  <2>6. CASE s[m + 1] \notin Keys
    <3>1. f[m + 1] = f[m]
      BY <2>3, <2>6
    <3>2. {s[i] : i \in 1..(m + 1)} \cap Keys = {s[i] : i \in 1..m} \cap Keys
      BY <2>4, <2>6
    <3>3. m \in 0..m
      BY <2>1
    <3>4. Grown(m + 1)
      BY <2>1, <2>2, <3>1, <3>2, <3>3
    <3>5. QED
      BY <2>1, <3>4
  <2>7. QED
    BY <2>5, <2>6
<1>4. \A m \in 0..Len(s) : m \in S
  <2> HIDE DEF S
  <2>1. QED
    BY <1>1, <1>2, <1>3, UpTo
<1>5. QED
  BY <1>4

(* The records of a file are those of its lines that parse.                *)
LEMMA RecordsFacts ==
  ASSUME NEW s \in Seq(Lines)
  PROVE  Records(s) \in Seq(Keys) /\ Range(Records(s)) = Range(s) \cap Keys
<1>1. Len(s) \in Nat /\ Len(s) \in 0..Len(s) /\ Range(s) = {s[i] : i \in 1..Len(s)}
  BY DEF Range
<1>2. PICK f : Reading(s, Len(s), f) /\ Records(s) = f[Len(s)]
  BY <1>1, RecordsRead
<1>3. \A m \in 0..Len(s) :
        f[m] \in Seq(Keys) /\ Range(f[m]) = {s[i] : i \in 1..m} \cap Keys
  BY <1>2, ReadingGrows
<1>4. f[Len(s)] \in Seq(Keys) /\ Range(f[Len(s)]) = {s[i] : i \in 1..Len(s)} \cap Keys
  BY <1>1, <1>3
<1>5. QED
  BY <1>1, <1>2, <1>4

(* The first lines of a file parse to its first records.                   *)
LEMMA RecordsOfPrefix ==
  ASSUME NEW s \in Seq(Lines), NEW n \in 0..Len(s)
  PROVE  \E k \in 0..Len(Records(s)) : Records(SubSeq(s, 1, n)) = SubSeq(Records(s), 1, k)
<1> DEFINE p == SubSeq(s, 1, n)
<1>1. Len(s) \in Nat /\ Len(s) \in 0..Len(s) /\ n \in Nat /\ n <= Len(s) /\ n <= n
  OBVIOUS
<1>2. Len(p) = n /\ \A l \in 1..n : p[l] = s[l]
  BY <1>1
<1> HIDE DEF p
<1>3. PICK f : Reading(s, Len(s), f) /\ Records(s) = f[Len(s)]
  BY <1>1, RecordsRead
<1>4. PICK g : Reading(p, n, g) /\ Records(p) = g[n]
  BY <1>1, <1>2, RecordsRead
<1>5. f[n] = g[n]
  BY <1>1, <1>2, <1>3, <1>4, SameReading
<1>6. /\ f[n] \in Seq(Keys) /\ Len(f[n]) <= Len(f[Len(s)])
      /\ f[n] = SubSeq(f[Len(s)], 1, Len(f[n]))
  BY <1>1, <1>3, ReadingGrows
<1>7. Len(f[n]) \in 0..Len(Records(s))
  <2>1. Records(s) \in Seq(Keys)
    BY RecordsFacts
  <2>2. QED
    BY <1>3, <1>6, <2>1
<1>8. QED
  BY <1>3, <1>4, <1>5, <1>6, <1>7 DEF p

(* A file without a torn line is its records.                              *)
LEMMA AllRecords ==
  ASSUME NEW s \in Seq(Keys)
  PROVE  Records(s) = s
<1>1. Len(s) \in Nat /\ Len(s) \in 0..Len(s)
  OBVIOUS
<1>2. PICK f : Reading(s, Len(s), f) /\ Records(s) = f[Len(s)]
  BY <1>1, RecordsRead
<1> DEFINE S == {m \in 0..Len(s) : f[m] = SubSeq(s, 1, m)}
<1>3. 0 \in S
  BY <1>1, <1>2 DEF Reading
<1>4. ASSUME NEW m \in 0..(Len(s) - 1), m \in S
      PROVE  m + 1 \in S
  <2>1. m + 1 \in 1..Len(s) /\ m + 1 \in 0..Len(s) /\ (m + 1) - 1 = m
    BY <1>1
  <2>2. s[m + 1] \in Keys
    BY <2>1
  <2>3. f[m + 1] = Append(f[m], s[m + 1])
    BY <1>2, <2>1, <2>2 DEF Reading
  <2>4. Append(SubSeq(s, 1, m), s[m + 1]) = SubSeq(s, 1, m + 1)
    BY <1>1, <2>1
  <2>5. QED
    BY <1>4, <2>1, <2>3, <2>4
<1>5. Len(s) \in S
  <2> HIDE DEF S
  <2>1. QED
    BY <1>1, <1>3, <1>4, UpTo
<1>6. QED
  BY <1>1, <1>2, <1>5

(* The last line of a file spoilt: its record, the newest, may go.         *)
LEMMA SpoiltLast ==
  ASSUME NEW s \in Seq(Lines), s # <<>>, NEW line \in Lines \ Keys
  PROVE  LET spoilt == [s EXCEPT ![Len(s)] = line]
         IN  \/ Records(spoilt) = Records(s)
             \/ /\ Records(s) # <<>>
                /\ Records(spoilt) = SubSeq(Records(s), 1, Len(Records(s)) - 1)
<1> DEFINE n == Len(s)
           front == SubSeq(s, 1, n - 1)
           spoilt == [s EXCEPT ![n] = line]
<1>1. n \in Nat /\ n # 0 /\ s[n] \in Lines
  OBVIOUS
<1>2. front \in Seq(Lines) /\ s = Append(front, s[n])
  BY <1>1
<1>3. spoilt = Append(front, line)
  <2>1. spoilt \in Seq(Lines) /\ Append(front, line) \in Seq(Lines)
    BY <1>1, <1>2
  <2>2. Len(front) = n - 1 /\ \A i \in 1..(n - 1) : front[i] = s[i]
    <3>1. n - 1 \in Nat /\ \A i \in 1..(n - 1) : s[i] \in Lines
      BY <1>1
    <3>2. Len(front) = IF 1 <= n - 1 THEN (n - 1) - 1 + 1 ELSE 0
      <4>1. 1 \in Int /\ n - 1 \in Int
        BY <3>1
      <4> HIDE DEF n
      <4>2. QED
        BY <3>1, <4>1, SubSeqProperties
    <3>3. Len(front) = n - 1
      <4>1. n - 1 >= 0 /\ (~(1 <= n - 1) => n - 1 = 0) /\ (n - 1) - 1 + 1 = n - 1
        <5> n \in Nat /\ n # 0
          BY <1>1
        <5> HIDE DEF n
        <5>1. QED
          OBVIOUS
      <4> HIDE DEF n, front
      <4>2. QED
        BY <3>2, <4>1
    <3>4. \A i \in 1..(n - 1) : front[i] = s[i]
      BY <1>1, <3>1
    <3>5. QED
      BY <3>3, <3>4
  <2>3. Len(spoilt) = n /\ spoilt[n] = line /\ \A i \in 1..(n - 1) : spoilt[i] = s[i]
    BY <1>1
  <2> HIDE DEF front, spoilt
  <2>4. /\ Len(Append(front, line)) = n /\ Append(front, line)[n] = line
        /\ \A i \in 1..(n - 1) : Append(front, line)[i] = s[i]
    BY <1>1, <1>2, <2>2
  <2>5. \A i \in 1..n : i \in 1..(n - 1) \/ i = n
    BY <1>1
  <2>6. \A i \in 1..n : spoilt[i] = Append(front, line)[i]
    BY <2>3, <2>4, <2>5
  <2>7. QED
    BY <2>1, <2>3, <2>4, <2>6
<1> HIDE DEF n, front, spoilt
<1>4. Records(spoilt) = Records(front)
  BY <1>2, <1>3, OneMoreLine
<1>5. Records(s) = IF s[n] \in Keys THEN Append(Records(front), s[n]) ELSE Records(front)
  BY <1>1, <1>2, OneMoreLine
<1>6. CASE s[n] \in Keys
  <2>1. Records(front) \in Seq(Keys)
    BY <1>2, RecordsFacts
  <2>2. Records(s) = Append(Records(front), s[n])
    BY <1>5, <1>6
  <2>3. Records(s) # <<>> /\ Records(front) = SubSeq(Records(s), 1, Len(Records(s)) - 1)
    BY <1>6, <2>1, <2>2
  <2>4. QED
    BY <1>4, <2>3 DEF spoilt, n
<1>7. CASE s[n] \notin Keys
  BY <1>4, <1>5, <1>7 DEF spoilt, n
<1>8. QED
  BY <1>6, <1>7

-----------------------------------------------------------------------------
(* The queue implements the buffer *)

(* A rewrite in progress is one a caller may ask for.                      *)
TmpIsRewrite == tmp # <<>> => tmp \in Rewrites

LEMMA TmpAlways == Spec => []TmpIsRewrite
<1>1. Init => TmpIsRewrite
  BY DEF Init, TmpIsRewrite
<1>2. TmpIsRewrite /\ [Next]_vars => TmpIsRewrite'
  <2> SUFFICES ASSUME TmpIsRewrite, [Next]_vars
               PROVE  TmpIsRewrite'
    OBVIOUS
  <2> USE DEF TmpIsRewrite
  <2>1. ASSUME NEW k \in Keys, Enqueue(k) \/ EnqueueDuplicate(k)
        PROVE  TmpIsRewrite'
    BY <2>1 DEF Enqueue, EnqueueDuplicate
  <2>2. ASSUME NEW k \in Keys, NEW cut \in Cuts, EnqueueFails(k, cut) \/ CrashInEnqueue(k, cut)
        PROVE  TmpIsRewrite'
    BY <2>2 DEF EnqueueFails, CrashInEnqueue
  <2>3. CASE ReadKeys \/ Clear
    BY <2>3 DEF ReadKeys, Clear, Unlink
  <2>4. ASSUME NEW recs \in Rewrites, ReplaceWrite(recs)
        PROVE  TmpIsRewrite'
    BY <2>4 DEF ReplaceWrite
  <2>5. CASE ReplaceRename \/ Crash
    BY <2>5 DEF ReplaceRename, Rename, Crash
  <2>6. ASSUME NEW f, NEW n, NEW cut, DirectoryWritten \/ PowerLoss(f, n, cut)
        PROVE  TmpIsRewrite'
    BY <2>6 DEF DirectoryWritten, PowerLoss
  <2>7. CASE UNCHANGED vars
    BY <2>7 DEF vars
  <2>8. QED
    BY <2>1, <2>2, <2>3, <2>4, <2>5, <2>6, <2>7 DEF Next, Operations, Failures
<1>3. QED
  BY <1>1, <1>2, PTL DEF Spec

(* What the next states of the buffer may be: a step of it, or none.       *)
BufferStep == [Buffer!AbstractNext]_<<DiskRecords, told, OldRecords>>

(* An append, cut or whole, of a record the index does not hold: it is     *)
(* queued, or lost, alone or with the newest record.                       *)
LEMMA AppendIsBufferStep ==
  ASSUME IInv, NEW k \in Keys, NEW cut \in Cuts, k \notin KeysIndex, WriteCut(k, cut),
         told' \in {told, told \cup {k}}, cut = "nothing" => told' = told
  PROVE  BufferStep
<1>1. /\ file \in Seq(Lines) /\ (~terminated => file # <<>>) /\ terminated \in BOOLEAN
      /\ OldRecords' = OldRecords
  BY DEF IInv, TypeOK, FileOK, Present, WriteCut, OldRecords
<1>2. CASE cut = "nothing"
  <2>1. file' = file /\ told' = told
    BY <1>2 DEF WriteCut
  <2>2. QED
    BY <1>1, <2>1 DEF BufferStep, DiskRecords
<1>3. CASE cut # "nothing"
  <2>1. PICK line \in {k, Torn, Undecodable} : file' = AppendLine(file, line)
    BY <1>3 DEF WriteCut, LeftOf
  <2>2. line \in Lines
    BY <2>1 DEF Lines
  <2>3. CASE terminated
    <3>1. Records(file') = IF line \in Keys THEN Append(Records(file), line) ELSE Records(file)
      BY <1>1, <2>1, <2>2, <2>3, OneMoreLine DEF AppendLine
    <3>2. k \notin Range(Records(file))
      <4>1. Range(Records(file)) = Range(file) \cap Keys
        BY <1>1, RecordsFacts
      <4>2. \A i \in 1..Len(file) : file[i] # k
        BY <2>3, NotIndexed
      <4>3. QED
        BY <1>1, <4>1, <4>2 DEF Range
    <3>3. CASE line \in Keys
      <4>1. line = k
        BY <2>1, <3>3, LineKinds
      <4>2. Buffer!Accept(k)
        BY <1>1, <3>1, <3>2, <3>3, <4>1 DEF Buffer!Accept, DiskRecords, Buffer!Range, Range
      <4>3. QED
        BY <4>2 DEF BufferStep, Buffer!AbstractNext
    <3>4. CASE line \notin Keys
      <4>1. Buffer!Wreck(k)
        BY <1>1, <3>1, <3>4 DEF Buffer!Wreck, DiskRecords
      <4>2. QED
        BY <4>1 DEF BufferStep, Buffer!AbstractNext
    <3>5. QED
      BY <3>3, <3>4
  <2>4. CASE ~terminated
    <3>1. PICK glued \in {Torn, Undecodable} : file' = [file EXCEPT ![Len(file)] = glued]
      BY <2>1, <2>4 DEF AppendLine, Glue
    <3>2. glued \in Lines \ Keys
      BY <3>1, LineKinds DEF Lines
    <3>3. \/ Records(file') = Records(file)
          \/ /\ Records(file) # <<>>
             /\ Records(file') = SubSeq(Records(file), 1, Len(Records(file)) - 1)
      BY <1>1, <2>4, <3>1, <3>2, SpoiltLast
    <3>4. Buffer!Wreck(k)
      BY <1>1, <3>3 DEF Buffer!Wreck, DiskRecords
    <3>5. QED
      BY <3>4 DEF BufferStep, Buffer!AbstractNext
  <2>5. QED
    BY <1>1, <2>3, <2>4
<1>4. QED
  BY <1>2, <1>3

(* A power failure keeps the oldest records of the file it leaves, with    *)
(* the one whose line lost only its end.                                   *)
LEMMA PowerLossIsOutage ==
  ASSUME IInv, NEW f \in {Present} \cup old, NEW n, NEW cut, PowerLoss(f, n, cut)
  PROVE  BufferStep
<1> DEFINE s == f.lines
<1>1. /\ s \in Seq(Lines) /\ Len(s) \in Nat /\ n \in 0..Len(s)
      /\ cut \in TornCuts \cup {"nothing"}
      /\ n = Len(s) => cut = "nothing"
      /\ cut = "unterminated" => s[n + 1] \in Keys
      /\ file' = IF cut = "nothing" THEN SubSeq(s, 1, n)
                 ELSE Append(SubSeq(s, 1, n), LeftOf(s[n + 1], cut))
      /\ told' = told \ (DiskKeys \ Range(file'))
      /\ old' = {}
  BY DEF PowerLoss, IInv, TypeOK, FileOK
<1>2. Records(s) \in {DiskRecords} \cup OldRecords
  BY DEF Present, DiskRecords, OldRecords
<1> HIDE DEF s
<1>3. n \in Nat /\ (cut # "nothing" => n + 1 \in 1..Len(s) /\ n + 1 \in 0..Len(s))
  BY <1>1
<1> DEFINE kept == SubSeq(s, 1, n)
<1>4. kept \in Seq(Lines)
  BY <1>1, <1>3
<1>5. cut # "nothing" => s[n + 1] \in Lines /\ SubSeq(s, 1, n + 1) = Append(kept, s[n + 1])
  BY <1>1, <1>3
<1> HIDE DEF kept
<1>6. \E m \in 0..Len(s) :
        file' \in Seq(Lines) /\ Records(file') = Records(SubSeq(s, 1, m))
  <2>1. CASE cut = "nothing"
    BY <1>1, <1>4, <2>1 DEF kept
  <2>2. CASE cut # "nothing"
    <3> DEFINE left == LeftOf(s[n + 1], cut)
    <3>1. file' = Append(kept, left)
      BY <1>1, <2>2 DEF kept
    <3>2. left \in {Torn, Undecodable} \/ (cut = "unterminated" /\ left = s[n + 1])
      BY <1>1, <2>2 DEF LeftOf, TornCuts
    <3> HIDE DEF left
    <3>3. CASE left \in {Torn, Undecodable}
      <4>1. left \in Lines /\ left \notin Keys
        BY <3>3, LineKinds DEF Lines
      <4>2. Records(file') = Records(kept) /\ file' \in Seq(Lines)
        BY <1>4, <3>1, <4>1, OneMoreLine
      <4>3. QED
        BY <1>1, <4>2 DEF kept
    <3>4. CASE cut = "unterminated" /\ left = s[n + 1]
      <4>1. file' = SubSeq(s, 1, n + 1)
        BY <1>5, <2>2, <3>1, <3>4
      <4>2. file' \in Seq(Lines)
        BY <1>4, <1>5, <2>2, <3>1, <3>4
      <4>3. QED
        BY <1>3, <2>2, <4>1, <4>2
    <3>5. QED
      BY <3>2, <3>3, <3>4
  <2>3. QED
    BY <2>1, <2>2
<1>7. PICK k \in 0..Len(Records(s)) : Records(file') = SubSeq(Records(s), 1, k)
  BY <1>1, <1>6, RecordsOfPrefix
<1>8. Range(DiskRecords) = DiskKeys /\ Range(Records(file')) = Range(file') \cap Keys
  <2>1. file \in Seq(Lines) /\ file' \in Seq(Lines)
    BY <1>6 DEF IInv, TypeOK, FileOK, Present
  <2>2. QED
    BY <2>1, RecordsFacts DEF DiskKeys, DiskRecords
<1>9. told' = told \ (Range(DiskRecords) \ Range(Records(file')))
  BY <1>1, <1>8 DEF DiskKeys
<1>10. OldRecords' = {}
  BY <1>1 DEF OldRecords
<1>11. Buffer!Outage(Records(s), k)
  BY <1>7, <1>9, <1>10 DEF Buffer!Outage, DiskRecords, Buffer!Range, Range
<1>12. QED
  BY <1>2, <1>7, <1>11 DEF BufferStep, Buffer!AbstractNext

(* replace and clear put a list of records in the place of all others, and *)
(* the first of them since the directory was written leaves what was there *)
(* before to be brought back.                                              *)
LEMMA RewriteIsBufferStep ==
  ASSUME NEW n \in 0..MaxRewrite, NEW recs \in [1..n -> Keys], IsInjective(recs),
         file' = recs, told' = Range(recs), Superseded
  PROVE  BufferStep
<1>1. n \in Nat
  BY Bounds
<1>2. recs \in Seq(Keys)
  BY <1>1
<1>3. Records(file') = recs
  BY <1>2, AllRecords
<1>4. OldRecords' = IF OldRecords = {} THEN {DiskRecords} ELSE OldRecords
  <2>1. CASE old = {}
    <3>1. old' = {Present} /\ Present.lines = file
      BY <2>1 DEF Superseded, Present
    <3>2. OldRecords = {} /\ OldRecords' = {DiskRecords}
      BY <2>1, <3>1 DEF OldRecords, DiskRecords
    <3>3. QED
      BY <3>2
  <2>2. CASE old # {}
    <3>1. old' = old
      BY <2>2 DEF Superseded
    <3>2. OldRecords # {} /\ OldRecords' = OldRecords
      BY <2>2, <3>1 DEF OldRecords
    <3>3. QED
      BY <3>2
  <2>3. QED
    BY <2>1, <2>2
<1>5. Buffer!Rewrite(recs)
  BY <1>3, <1>4 DEF Buffer!Rewrite, DiskRecords, Buffer!Range, Range,
                    Buffer!IsInjective, IsInjective
<1>6. QED
  BY <1>5 DEF BufferStep, Buffer!AbstractNext

(* The file behaves as the abstract FIFO buffer, at every step: records    *)
(* keep the order of their enqueue, a rewrite happens at once or not at    *)
(* all, only a torn append or a power failure loses records, the newest    *)
(* ones first, and only a power failure undoes a rewrite.                  *)
THEOREM QueueIsBuffer == Spec => ImplementsBuffer
<1>1. Init => Buffer!AbstractInit
  BY NoRecords DEF Init, Buffer!AbstractInit, DiskRecords, OldRecords
<1>2. IInv /\ TmpIsRewrite /\ [Next]_vars => BufferStep
  <2> SUFFICES ASSUME IInv, TmpIsRewrite, [Next]_vars
               PROVE  BufferStep
    OBVIOUS
  <2>1. ASSUME NEW k \in Keys, Enqueue(k)
        PROVE  BufferStep
    <3>1. WriteCut(k, "whole") /\ k \notin KeysIndex /\ told' = told \cup {k}
      BY <2>1 DEF Enqueue
    <3>2. "whole" \in Cuts /\ "whole" # "nothing"
      BY DEF Cuts
    <3>3. QED
      BY <3>1, <3>2, AppendIsBufferStep
  <2>2. ASSUME NEW k \in Keys, EnqueueDuplicate(k)
        PROVE  BufferStep
    <3>1. file' = file /\ told' = told \cup {k} /\ OldRecords' = OldRecords
      BY <2>2 DEF EnqueueDuplicate, disk, OldRecords
    <3>2. Buffer!Wreck(k)
      BY <3>1 DEF Buffer!Wreck, DiskRecords
    <3>3. QED
      BY <3>2 DEF BufferStep, Buffer!AbstractNext
  <2>3. ASSUME NEW k \in Keys, NEW cut \in Cuts, EnqueueFails(k, cut) \/ CrashInEnqueue(k, cut)
        PROVE  BufferStep
    <3>1. WriteCut(k, cut) /\ k \notin KeysIndex /\ told' = told
      BY <2>3 DEF EnqueueFails, CrashInEnqueue
    <3>2. QED
      BY <3>1, AppendIsBufferStep
  <2>4. CASE Clear
    <3>1. file' = <<>> /\ told' = {} /\ Superseded
      BY <2>4 DEF Clear, Unlink
    <3>2. <<>> \in [1..0 -> Keys] /\ Range(<<>>) = {} /\ IsInjective(<<>>)
      BY DEF Range, IsInjective
    <3>3. 0 \in 0..MaxRewrite
      BY Bounds
    <3>4. QED
      BY <3>1, <3>2, <3>3, RewriteIsBufferStep
  <2>5. CASE ReplaceRename
    <3>1. tmp # <<>> /\ file' = tmp /\ told' = Range(tmp) /\ Superseded
      BY <2>5 DEF ReplaceRename, Rename, Idle
    <3>2. PICK n \in 1..MaxRewrite : tmp \in [1..n -> Keys]
      BY <3>1 DEF TmpIsRewrite, Rewrites
    <3>3. n \in 0..MaxRewrite
      BY Bounds
    <3>4. IsInjective(tmp)
      BY DEF IInv, TypeOK, FileOK, Present
    <3>5. QED
      BY <3>1, <3>2, <3>3, <3>4, RewriteIsBufferStep
  <2>6. ASSUME NEW f \in {Present} \cup old, NEW n, NEW cut, PowerLoss(f, n, cut)
        PROVE  BufferStep
    BY <2>6, PowerLossIsOutage
  <2>7. CASE DirectoryWritten
    <3>1. file' = file /\ told' = told /\ OldRecords' = {}
      BY <2>7 DEF DirectoryWritten, disk, history, OldRecords
    <3>2. Buffer!Settle
      BY <3>1 DEF Buffer!Settle, DiskRecords
    <3>3. QED
      BY <3>2 DEF BufferStep, Buffer!AbstractNext
  <2>8. CASE ReadKeys \/ Crash \/ (\E recs \in Rewrites : ReplaceWrite(recs)) \/ UNCHANGED vars
    <3>1. file' = file /\ told' = told /\ OldRecords' = OldRecords
      BY <2>8 DEF ReadKeys, Crash, ReplaceWrite, disk, history, vars, OldRecords
    <3>2. QED
      BY <3>1 DEF BufferStep, DiskRecords
  <2>9. QED
    BY <2>1, <2>2, <2>3, <2>4, <2>5, <2>6, <2>7, <2>8 DEF Next, Operations, Failures
<1>3. QED
  BY <1>1, <1>2, IInvAlways, TmpAlways, PTL
     DEF Spec, ImplementsBuffer, Buffer!AbstractSpec, BufferStep
=============================================================================
