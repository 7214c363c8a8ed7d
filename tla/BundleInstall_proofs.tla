------------------------ MODULE BundleInstall_proofs ------------------------
(***************************************************************************)
(* The pull of a bundle, for any payloads, keys and contents.              *)
(*                                                                         *)
(* ReportIsTrue is not inductive: that an artifact lands with the bytes of *)
(* its pin comes from the verification of the whole bundle, so while files *)
(* move, what is still staged must be what was verified, and what has been *)
(* passed must have landed, although the loop never looks back and later   *)
(* artifacts may share a key with earlier ones.                            *)
(***************************************************************************)
EXTENDS BundleInstall, FiniteSetTheorems, TLAPS

Assets == {AssetOf[k] : k \in Keys} \ {None}

(* The files staged so far are whole reads of a response.                  *)
Staged ==
  /\ pc \in {"open", "stream"} => \A s \in 1..(i - 1) : scratch[s] \in Contents
  /\ pc = "verify" => i = 1 /\ \A s \in 1..Len(payload) : scratch[s] \in Contents
  /\ pc = "install" => \A s \in i..Len(payload) : scratch[s] \in Contents

(* A bundle is installed once all of it has been verified, and what is     *)
(* still to be moved is as it was.                                         *)
Verified ==
  pc = "install" =>
    /\ \E s \in 1..Len(payload) : payload[s].kind = "workflow_spec"
    /\ \A s \in 1..Len(payload) : Status(payload[s]) # "refused"
    /\ \A s \in i..Len(payload) : Clears(payload[s], scratch[s])

Passed(n) == \A s \in 1..n : Landed(payload[s]) /\ ~Refused(payload[s])

Backed ==
  /\ manifest \in Seq(Assets) /\ IsInjective(manifest)
  /\ \A m \in 1..Len(manifest) :
       \E k \in Keys : AssetOf[k] = manifest[m] /\ store[k] # None

BundleInv ==
  /\ BundleTypeOK /\ Staged /\ Verified /\ Backed
  /\ pc = "install" => Passed(i - 1)
  /\ pc = "merge" => Passed(Len(payload))

-----------------------------------------------------------------------------
(* What the actions have in common *)

LEMMA PayloadFacts ==
  ASSUME BundleTypeOK
  PROVE  /\ Len(payload) \in Nat /\ DOMAIN payload = 1..Len(payload)
         /\ 1..Len(payload) \subseteq Slots
         /\ \A s \in 1..Len(payload) : payload[s] \in Artifacts /\ payload[s].key \in Keys
<1>1. payload \in Seq(Artifacts)
  <2>1. Payloads \subseteq Seq(Artifacts)
    BY BundleConstants
  <2>2. <<>> \in Seq(Artifacts)
    OBVIOUS
  <2>3. payload \in Payloads \cup {<<>>}
    BY DEF BundleTypeOK
  <2>4. QED
    BY <2>1, <2>2, <2>3
<1>2. Len(payload) \in Nat /\ DOMAIN payload = 1..Len(payload)
  BY <1>1
<1>3. \A s \in 1..Len(payload) : payload[s] \in Artifacts
  BY <1>1
<1>4. \A s \in 1..Len(payload) : payload[s].key \in Keys
  BY <1>3 DEF Artifacts
<1>5. 1..Len(payload) \subseteq Slots
  <2>1. CASE payload \in Payloads
    BY <1>2, <2>1 DEF Slots
  <2>2. CASE payload = <<>>
    BY <1>2, <2>2
  <2>3. QED
    BY <2>1, <2>2 DEF BundleTypeOK
<1>6. QED
  BY <1>2, <1>3, <1>4, <1>5

(* One payload says the same thing of one key.                             *)
LEMMA SameKey ==
  ASSUME BundleTypeOK, NEW s \in 1..Len(payload), NEW t \in 1..Len(payload),
         payload[s].key = payload[t].key
  PROVE  payload[s].kind = payload[t].kind /\ payload[s].pin = payload[t].pin
<1>1. s \in DOMAIN payload /\ t \in DOMAIN payload
  BY PayloadFacts
<1>2. CASE payload \in Payloads
  <2>1. \A p \in Payloads : \A j, m \in DOMAIN p :
          p[j].key = p[m].key => p[j].kind = p[m].kind /\ p[j].pin = p[m].pin
    BY BundleConstants
  <2>2. QED
    BY <1>1, <1>2, <2>1
<1>3. CASE payload = <<>>
  BY <1>3
<1>4. QED
  BY <1>2, <1>3 DEF BundleTypeOK

LEMMA Advances ==
  ASSUME BundleTypeOK, i \in 1..Len(payload), NEW phase, NEW next, Advance(phase, next)
  PROVE  \/ i = Len(payload) /\ pc' = next /\ i' = 1
         \/ i < Len(payload) /\ pc' = phase /\ i' = i + 1 /\ i' \in 1..Len(payload)
<1>1. Len(payload) \in Nat /\ i \in Nat /\ i <= Len(payload)
  BY PayloadFacts
<1>2. /\ pc' = IF i = Len(payload) THEN next ELSE phase
      /\ i' = IF i = Len(payload) THEN 1 ELSE i + 1
  BY DEF Advance
<1>3. QED
  BY <1>1, <1>2

(* A file may change, but none goes: the manifest stays backed.            *)
LEMMA BackedStays ==
  ASSUME Backed, UNCHANGED manifest,
         \A k \in Keys : store[k] # None => store'[k] # None
  PROVE  Backed'
<1>1. \A m \in 1..Len(manifest) : \E k \in Keys : AssetOf[k] = manifest[m] /\ store'[k] # None
  BY DEF Backed
<1>2. QED
  BY <1>1 DEF Backed

(* The end of a pull, whatever it leaves.                                  *)
LEMMA LeftKeeps ==
  ASSUME BundleInv, NEW files, LeaveScratch(files), UNCHANGED <<store, rotten>>,
         trouble' \in BOOLEAN, Backed'
  PROVE  BundleInv'
<1>1. pc' = "idle" /\ payload' = <<>> /\ i' = 1 /\ store' = store /\ rotten' = rotten
  BY DEF LeaveScratch
<1>2. scratch' \in [Slots -> Contents \cup {Leftover, None}]
  BY DEF LeaveScratch
<1>3. BundleTypeOK'
  BY <1>1, <1>2 DEF BundleInv, BundleTypeOK, Busy
<1>4. Staged' /\ Verified'
  BY <1>1 DEF Staged, Verified
<1>5. QED
  BY <1>1, <1>3, <1>4 DEF BundleInv

LEMMA FailKeeps == ASSUME BundleInv, Fail, trouble' \in BOOLEAN PROVE BundleInv'
<1>1. LeaveScratch(scratch) /\ UNCHANGED <<store, rotten>> /\ manifest' = manifest
  BY DEF Fail
<1>2. Backed'
  BY <1>1, BackedStays DEF BundleInv
<1>3. QED
  BY <1>1, <1>2, LeftKeeps

LEMMA DisturbedKeeps == ASSUME BundleInv, Disturbed PROVE BundleInv'
BY FailKeeps DEF Disturbed

-----------------------------------------------------------------------------
(* Staging and verifying *)

LEMMA BundleStarts == BundleInit => BundleInv
<1> SUFFICES ASSUME BundleInit PROVE BundleInv
  OBVIOUS
<1>1. pc = "idle" /\ payload = <<>> /\ i = 1 /\ manifest = <<>>
  BY DEF BundleInit
<1>2. BundleTypeOK
  BY DEF BundleInit, BundleTypeOK, Busy
<1>3. Staged /\ Verified
  BY <1>1 DEF Staged, Verified
<1>4. Backed
  BY <1>1 DEF Backed, IsInjective
<1>5. QED
  BY <1>1, <1>2, <1>3, <1>4 DEF BundleInv

LEMMA BeginPullKeeps == ASSUME BundleInv, NEW p \in Payloads, BeginPull(p) PROVE BundleInv'
<1>1. /\ payload' = p /\ i' = 1 /\ pc' = IF p = <<>> THEN "verify" ELSE "open"
      /\ trouble' = FALSE /\ UNCHANGED <<scratch, store, manifest, rotten>>
  BY DEF BeginPull
<1>2. Len(p) \in Nat /\ (p = <<>> <=> Len(p) = 0)
  <2>1. p \in Seq(Artifacts)
    BY BundleConstants
  <2>2. QED
    BY <2>1
<1>3. BundleTypeOK'
  <2>1. pc' \in {"verify", "open"} /\ (pc' = "open" => 1 \in 1..Len(p))
    BY <1>1, <1>2
  <2>2. QED
    BY <1>1, <2>1 DEF BundleInv, BundleTypeOK, Busy
<1>4. Staged' /\ Verified'
  BY <1>1, <1>2 DEF Staged, Verified
<1>5. Backed'
  BY <1>1, BackedStays DEF BundleInv
<1>6. QED
  BY <1>1, <1>3, <1>4, <1>5 DEF BundleInv

LEMMA OpenKeeps == ASSUME BundleInv, Open PROVE BundleInv'
<1>1. /\ pc = "open" /\ scratch' = [scratch EXCEPT ![i] = Leftover] /\ pc' = "stream"
      /\ UNCHANGED <<payload, i, store, manifest, rotten, trouble>>
  BY DEF Open
<1>2. i \in 1..Len(payload) /\ i \in Slots /\ i \in Nat
  BY <1>1, PayloadFacts DEF BundleInv, BundleTypeOK, Busy
<1>3. BundleTypeOK'
  BY <1>1, <1>2 DEF BundleInv, BundleTypeOK, Busy
<1>4. \A s \in 1..(i - 1) : scratch'[s] = scratch[s]
  BY <1>1, <1>2 DEF BundleInv, BundleTypeOK
<1>5. Staged' /\ Verified'
  BY <1>1, <1>4 DEF BundleInv, Staged, Verified
<1>6. Backed'
  BY <1>1, BackedStays DEF BundleInv
<1>7. QED
  BY <1>1, <1>3, <1>5, <1>6 DEF BundleInv

LEMMA StreamEndsKeeps == ASSUME BundleInv, NEW c \in Contents, StreamEnds(c) PROVE BundleInv'
<1>1. /\ pc = "stream" /\ scratch' = [scratch EXCEPT ![i] = c] /\ Advance("open", "verify")
      /\ trouble' = (trouble \/ OtherBytes(Artifact, c))
      /\ UNCHANGED <<payload, store, manifest, rotten>>
  BY DEF StreamEnds
<1>2. /\ i \in 1..Len(payload) /\ i \in Slots /\ i \in Nat /\ Len(payload) \in Nat
      /\ 1..Len(payload) \subseteq Slots
  BY <1>1, PayloadFacts DEF BundleInv, BundleTypeOK, Busy
<1>3. \A s \in 1..i : scratch'[s] \in Contents
  BY <1>1, <1>2 DEF BundleInv, BundleTypeOK, Staged
<1>4. \/ i = Len(payload) /\ pc' = "verify" /\ i' = 1
      \/ i < Len(payload) /\ pc' = "open" /\ i' = i + 1 /\ i' \in 1..Len(payload)
  BY <1>1, <1>2, Advances DEF BundleInv
<1>5. trouble' \in BOOLEAN
  BY <1>1 DEF OtherBytes, BundleInv, BundleTypeOK
<1>6. BundleTypeOK'
  BY <1>1, <1>2, <1>4, <1>5 DEF BundleInv, BundleTypeOK, Busy
<1>7. Staged' /\ Verified'
  BY <1>1, <1>2, <1>3, <1>4 DEF Staged, Verified
<1>8. Backed'
  BY <1>1, BackedStays DEF BundleInv
<1>9. QED
  BY <1>4, <1>6, <1>7, <1>8 DEF BundleInv

LEMMA FetchFailsKeeps == ASSUME BundleInv, FetchFails PROVE BundleInv'
<1>1. /\ LeaveScratch([scratch EXCEPT ![i] = None]) /\ trouble' = TRUE
      /\ UNCHANGED <<store, rotten>> /\ manifest' = manifest /\ store' = store
  BY DEF FetchFails
<1>2. Backed'
  BY <1>1, BackedStays DEF BundleInv
<1>3. QED
  BY <1>1, <1>2, LeftKeeps

LEMMA VerifyKeeps == ASSUME BundleInv, Verify PROVE BundleInv'
<1>1. pc = "verify" /\ trouble' = trouble
  BY DEF Verify
<1>2. trouble' \in BOOLEAN
  BY <1>1 DEF BundleInv, BundleTypeOK
<1>3. CASE Fail
  BY <1>2, <1>3, FailKeeps
<1>4. CASE /\ \A s \in 1..Len(payload) : Clears(payload[s], scratch[s])
           /\ \E s \in 1..Len(payload) : payload[s].kind = "workflow_spec"
           /\ pc' = "install"
           /\ UNCHANGED <<payload, i, scratch, store, manifest, rotten>>
  <2>1. Len(payload) \in Nat /\ 1 \in 1..Len(payload)
    BY <1>4, PayloadFacts DEF BundleInv
  <2>2. i \in 1..Len(payload)
    BY <2>1 DEF BundleInv, BundleTypeOK
  <2>3. BundleTypeOK'
    BY <1>1, <1>4, <2>2 DEF BundleInv, BundleTypeOK, Busy
  <2>4. Staged' /\ Verified'
    BY <1>1, <1>4, <2>2 DEF BundleInv, Staged, Verified, Clears
  <2>5. Backed'
    BY <1>4, BackedStays DEF BundleInv
  <2>6. i' = 1 /\ pc' = "install"
    BY <1>1, <1>4 DEF BundleInv, Staged
  <2>7. QED
    BY <2>3, <2>4, <2>5, <2>6 DEF BundleInv, Passed
<1>5. QED
  BY <1>1, <1>3, <1>4 DEF Verify

-----------------------------------------------------------------------------
(* Installing *)

(* What one artifact that has landed leaves of those before it.            *)
LEMMA Landing ==
  ASSUME BundleInv, pc = "install", i \in 1..Len(payload), Advance("install", "merge"),
         UNCHANGED payload, ~Refused(payload[i]),
         store'[payload[i].key] # None,
         payload[i].kind = "workflow_spec" => store'[payload[i].key] = payload[i].pin,
         \A k \in Keys \ {payload[i].key} :
            store'[k] = store[k] /\ (k \in rotten => k \in rotten')
  PROVE  /\ pc' = "install" => Passed(i - 1)'
         /\ pc' = "merge" => Passed(Len(payload))'
<1>1. /\ Len(payload) \in Nat /\ i \in Nat
      /\ \A s \in 1..Len(payload) : payload[s].key \in Keys
  BY PayloadFacts DEF BundleInv
<1>2. \A s \in 1..(i - 1) : Landed(payload[s]) /\ ~Refused(payload[s])
  BY DEF BundleInv, Passed
<1>3. ASSUME NEW s \in 1..i
      PROVE  Landed(payload[s])' /\ ~Refused(payload[s])'
  <2>1. s \in 1..Len(payload) /\ payload'[s] = payload[s]
    BY <1>1
  <2>2. ~Refused(payload[s])'
    <3>1. ~Refused(payload[s])
      BY <1>1, <1>2
    <3>2. QED
      BY <2>1, <3>1 DEF Refused
  <2>3. CASE payload[s].key = payload[i].key
    <3>1. payload[s].kind = payload[i].kind /\ payload[s].pin = payload[i].pin
      BY <2>1, <2>3, SameKey DEF BundleInv
    <3>2. QED
      BY <2>1, <2>2, <2>3, <3>1 DEF Landed
  <2>4. CASE payload[s].key # payload[i].key
    <3>1. s \in 1..(i - 1)
      BY <1>1, <2>4
    <3>2. /\ store[payload[s].key] # None
          /\ payload[s].kind = "workflow_spec" =>
               store[payload[s].key] = payload[s].pin \/ payload[s].key \in rotten
      BY <1>2, <3>1 DEF Landed
    <3>3. payload[s].key \in Keys \ {payload[i].key}
      BY <1>1, <2>1, <2>4
    <3>4. QED
      BY <2>1, <2>2, <3>2, <3>3 DEF Landed
  <2>5. QED
    BY <2>3, <2>4
<1>4. \/ i = Len(payload) /\ pc' = "merge" /\ i' = 1
      \/ i < Len(payload) /\ pc' = "install" /\ i' = i + 1 /\ i' \in 1..Len(payload)
  BY Advances DEF BundleInv
<1>5. CASE i = Len(payload) /\ pc' = "merge"
  <2>1. \A s \in 1..Len(payload)' : Landed(payload[s])' /\ ~Refused(payload[s])'
    BY <1>3, <1>5
  <2>2. QED
    BY <1>5, <2>1 DEF Passed
<1>6. CASE pc' = "install" /\ i' = i + 1
  <2>1. \A s \in 1..(i' - 1) : Landed(payload[s])' /\ ~Refused(payload[s])'
    BY <1>1, <1>3, <1>6
  <2>2. QED
    BY <1>6, <2>1 DEF Passed
<1>7. QED
  BY <1>4, <1>5, <1>6

(* What is still staged is as it was verified.                             *)
LEMMA StillStaged ==
  ASSUME BundleInv, pc = "install", i \in 1..Len(payload), Advance("install", "merge"),
         UNCHANGED payload, \A s \in (i + 1)..Len(payload) : scratch'[s] = scratch[s]
  PROVE  Staged' /\ Verified'
<1>1. Len(payload) \in Nat /\ i \in Nat
  BY PayloadFacts DEF BundleInv
<1>2. \/ i = Len(payload) /\ pc' = "merge" /\ i' = 1
      \/ i < Len(payload) /\ pc' = "install" /\ i' = i + 1 /\ i' \in 1..Len(payload)
  BY Advances DEF BundleInv
<1>3. /\ \A s \in i..Len(payload) : scratch[s] \in Contents /\ Clears(payload[s], scratch[s])
      /\ \E s \in 1..Len(payload) : payload[s].kind = "workflow_spec"
      /\ \A s \in 1..Len(payload) : Status(payload[s]) # "refused"
  BY DEF BundleInv, Staged, Verified
<1>4. CASE pc' = "merge"
  BY <1>4 DEF Staged, Verified
<1>5. CASE pc' = "install" /\ i' = i + 1
  <2>1. \A s \in (i + 1)..Len(payload) : s \in i..Len(payload)
    BY <1>1
  <2>2. \A s \in i'..Len(payload) : scratch'[s] \in Contents /\ Clears(payload[s], scratch'[s])
    BY <1>3, <1>5, <2>1
  <2>3. Staged'
    BY <1>5, <2>2 DEF Staged
  <2>4. Verified'
    BY <1>3, <1>5, <2>2 DEF Verified, Clears, Status
  <2>5. QED
    BY <2>3, <2>4
<1>6. QED
  BY <1>2, <1>4, <1>5

(* A workflow spec that is not refused is byte-verified.                   *)
LEMMA SpecIsVerified ==
  ASSUME NEW a, a.kind = "workflow_spec", Status(a) # "refused"
  PROVE  Status(a) = "verified"
BY DEF Status, DigestRequired, DeviceSource

LEMMA InstallSkippedKeeps == ASSUME BundleInv, InstallSkipped PROVE BundleInv'
<1>1. /\ pc = "install" /\ ~Refused(payload[i]) /\ AlreadyInstalled(payload[i])
      /\ rotten' = IF Status(payload[i]) = "verified" THEN rotten \ {payload[i].key} ELSE rotten
      /\ Advance("install", "merge")
      /\ UNCHANGED <<payload, scratch, store, manifest, trouble>>
  BY DEF InstallSkipped, Artifact
<1>2. i \in 1..Len(payload) /\ i \in Nat /\ Len(payload) \in Nat
  BY <1>1, PayloadFacts DEF BundleInv, BundleTypeOK, Busy
<1>3. /\ store[payload[i].key] # None
      /\ payload[i].kind = "workflow_spec" => store[payload[i].key] = payload[i].pin
  <2>1. Status(payload[i]) # "refused"
    BY <1>1, <1>2 DEF BundleInv, Verified
  <2>2. QED
    BY <1>1, <2>1, SpecIsVerified DEF AlreadyInstalled
<1>4. /\ pc' = "install" => Passed(i - 1)'
      /\ pc' = "merge" => Passed(Len(payload))'
  <2>1. \A k \in Keys \ {payload[i].key} :
          store'[k] = store[k] /\ (k \in rotten => k \in rotten')
    BY <1>1
  <2>2. QED
    BY <1>1, <1>2, <1>3, <2>1, Landing
<1>5. BundleTypeOK'
  <2>1. pc' \in {"merge", "install"} /\ (i' = 1 \/ i' \in 1..Len(payload))
        /\ (pc' = "install" => i' \in 1..Len(payload))
    BY <1>1, <1>2, Advances DEF BundleInv
  <2>2. rotten' \subseteq Keys
    BY <1>1 DEF BundleInv, BundleTypeOK
  <2>3. QED
    BY <1>1, <2>1, <2>2 DEF BundleInv, BundleTypeOK, Busy
<1>6. Staged' /\ Verified'
  BY <1>1, <1>2, StillStaged
<1>7. Backed'
  BY <1>1, BackedStays DEF BundleInv
<1>8. QED
  BY <1>4, <1>5, <1>6, <1>7 DEF BundleInv

LEMMA InstalledKeeps == ASSUME BundleInv, Installed PROVE BundleInv'
<1>1. /\ pc = "install" /\ ~Refused(payload[i])
      /\ store' = [store EXCEPT ![payload[i].key] = scratch[i]]
      /\ scratch' = [scratch EXCEPT ![i] = None]
      /\ rotten' = rotten \ {payload[i].key}
      /\ Advance("install", "merge")
      /\ UNCHANGED <<payload, manifest, trouble>>
  BY DEF Installed, Artifact
<1>2. /\ i \in 1..Len(payload) /\ i \in Nat /\ Len(payload) \in Nat
      /\ 1..Len(payload) \subseteq Slots /\ payload[i].key \in Keys
  BY <1>1, PayloadFacts DEF BundleInv, BundleTypeOK, Busy
<1>3. /\ store \in [Keys -> Contents \cup {None}]
      /\ scratch \in [Slots -> Contents \cup {Leftover, None}]
      /\ rotten \subseteq Keys /\ None \notin Contents
  BY BundleConstants DEF BundleInv, BundleTypeOK
<1>4. scratch[i] \in Contents /\ Clears(payload[i], scratch[i])
  BY <1>1, <1>2 DEF BundleInv, Staged, Verified
<1>5. store'[payload[i].key] = scratch[i] /\ scratch[i] # None
  BY <1>1, <1>2, <1>3, <1>4
<1>6. payload[i].kind = "workflow_spec" => scratch[i] = payload[i].pin
  BY <1>4, SpecIsVerified DEF Clears
<1>7. \A k \in Keys \ {payload[i].key} :
        store'[k] = store[k] /\ (k \in rotten => k \in rotten')
  BY <1>1, <1>3
<1>8. /\ pc' = "install" => Passed(i - 1)'
      /\ pc' = "merge" => Passed(Len(payload))'
  BY <1>1, <1>2, <1>5, <1>6, <1>7, Landing
<1>9. BundleTypeOK'
  <2>1. pc' \in {"merge", "install"} /\ (i' = 1 \/ i' \in 1..Len(payload))
        /\ (pc' = "install" => i' \in 1..Len(payload))
    BY <1>1, <1>2, Advances DEF BundleInv
  <2>2. /\ store' \in [Keys -> Contents \cup {None}]
        /\ scratch' \in [Slots -> Contents \cup {Leftover, None}]
        /\ rotten' \subseteq Keys
    BY <1>1, <1>2, <1>3, <1>4
  <2>3. QED
    BY <1>1, <2>1, <2>2 DEF BundleInv, BundleTypeOK, Busy
<1>10. Staged' /\ Verified'
  <2>1. \A s \in (i + 1)..Len(payload) : scratch'[s] = scratch[s]
    BY <1>1, <1>2, <1>3
  <2>2. QED
    BY <1>1, <1>2, <2>1, StillStaged
<1>11. Backed'
  <2>1. \A k \in Keys : store[k] # None => store'[k] # None
    BY <1>5, <1>7
  <2>2. QED
    BY <1>1, <2>1, BackedStays DEF BundleInv
<1>12. QED
  BY <1>8, <1>9, <1>10, <1>11 DEF BundleInv

LEMMA RotKeeps ==
  ASSUME BundleInv, NEW k \in Keys, NEW c \in Decayed, Rot(k, c)
  PROVE  BundleInv'
<1>1. /\ store[k] \notin {None, c} /\ store' = [store EXCEPT ![k] = c]
      /\ rotten' = rotten \cup {k}
      /\ UNCHANGED <<pc, payload, i, scratch, manifest, trouble>>
  BY DEF Rot
<1>2. /\ store \in [Keys -> Contents \cup {None}] /\ rotten \subseteq Keys
      /\ c \in Contents /\ c # None
  BY BundleConstants DEF BundleInv, BundleTypeOK
<1>3. BundleTypeOK'
  <2>1. store' \in [Keys -> Contents \cup {None}] /\ rotten' \subseteq Keys
    BY <1>1, <1>2
  <2>2. QED
    BY <1>1, <2>1 DEF BundleInv, BundleTypeOK, Busy
<1>4. Staged' /\ Verified'
  BY <1>1 DEF BundleInv, Staged, Verified
<1>5. \A j \in Keys : /\ store[j] # None => store'[j] # None
                      /\ store'[j] # store[j] => j \in rotten'
                      /\ j \in rotten => j \in rotten'
  BY <1>1, <1>2
<1>6. ASSUME NEW s \in 1..Len(payload), Landed(payload[s]), ~Refused(payload[s])
      PROVE  Landed(payload[s])' /\ ~Refused(payload[s])'
  <2>1. payload[s].key \in Keys
    BY PayloadFacts DEF BundleInv
  <2>2. /\ store[payload[s].key] # None
        /\ payload[s].kind = "workflow_spec" =>
             store[payload[s].key] = payload[s].pin \/ payload[s].key \in rotten
    BY <1>6 DEF Landed
  <2>3. payload' = payload
    BY <1>1
  <2>4. Landed(payload[s])'
    BY <1>5, <2>1, <2>2, <2>3 DEF Landed
  <2>5. QED
    BY <1>6, <2>3, <2>4 DEF Refused
<1>7. /\ pc = "install" => Passed(i - 1)'
      /\ pc = "merge" => Passed(Len(payload))'
  <2>1. Len(payload) \in Nat /\ i' = i /\ payload' = payload
    BY <1>1, PayloadFacts DEF BundleInv
  <2>2. ASSUME pc = "install"
        PROVE  Passed(i - 1)'
    <3>1. i \in 1..Len(payload) /\ Passed(i - 1)
      BY <2>2 DEF BundleInv, BundleTypeOK, Busy
    <3>2. \A s \in 1..(i - 1) : Landed(payload[s])' /\ ~Refused(payload[s])'
      BY <1>6, <2>1, <3>1 DEF Passed
    <3>3. QED
      BY <2>1, <3>2 DEF Passed
  <2>3. ASSUME pc = "merge"
        PROVE  Passed(Len(payload))'
    <3>1. Passed(Len(payload))
      BY <2>3 DEF BundleInv
    <3>2. \A s \in 1..Len(payload) : Landed(payload[s])' /\ ~Refused(payload[s])'
      BY <1>6, <3>1 DEF Passed
    <3>3. QED
      BY <2>1, <3>2 DEF Passed
  <2>4. QED
    BY <2>2, <2>3
<1>8. Backed'
  BY <1>1, <1>5, BackedStays DEF BundleInv
<1>9. QED
  BY <1>1, <1>3, <1>4, <1>7, <1>8 DEF BundleInv, Passed

-----------------------------------------------------------------------------
(* The manifest *)

(* A set of positions has an order: each is at its rank.                   *)
LEMMA OrderOf ==
  ASSUME NEW n \in Nat, NEW S \in SUBSET (1..n)
  PROVE  /\ Cardinality(S) \in Nat
         /\ InOrder(S) \in [1..Cardinality(S) -> S]
         /\ \A a, b \in 1..Cardinality(S) : a < b => InOrder(S)[a] < InOrder(S)[b]
<1> DEFINE upto(s) == {r \in S : r <= s}
           rank == [s \in S |-> Cardinality(upto(s))]
           N == Cardinality(S)
<1>1. \A s \in S : s \in Nat
  OBVIOUS
<1>2. IsFiniteSet(S) /\ N \in Nat
  <2>1. IsFiniteSet(1..n)
    BY FS_Interval
  <2>2. IsFiniteSet(S)
    BY <2>1, FS_Subset
  <2>3. QED
    BY <2>2, FS_CardinalityType
<1>3. ASSUME NEW s \in S
      PROVE  /\ IsFiniteSet(upto(s)) /\ Cardinality(upto(s)) \in Nat
             /\ Cardinality(upto(s)) <= N /\ Cardinality(upto(s)) # 0
  <2>1. upto(s) \in SUBSET S /\ s \in upto(s)
    BY <1>1
  <2> HIDE DEF upto
  <2>2. IsFiniteSet(upto(s)) /\ Cardinality(upto(s)) <= N
    BY <1>2, <2>1, FS_Subset
  <2>3. Cardinality(upto(s)) \in Nat /\ Cardinality(upto(s)) # 0
    BY <2>1, <2>2, FS_CardinalityType, FS_EmptySet
  <2>4. QED
    BY <2>2, <2>3
<1>4. ASSUME NEW s \in S, NEW t \in S, s < t
      PROVE  Cardinality(upto(s)) < Cardinality(upto(t))
  <2>0. s \in Nat /\ t \in Nat /\ \A r \in S : r \in Nat
    BY <1>1
  <2>1. upto(s) \in SUBSET upto(t) /\ t \in upto(t) /\ t \notin upto(s)
    <3>1. ~(t <= s) /\ t <= t /\ \A r \in S : r <= s => r <= t
      BY <1>4, <2>0
    <3>2. QED
      BY <3>1
  <2> HIDE DEF upto
  <2>2. /\ Cardinality(upto(s)) <= Cardinality(upto(t))
        /\ Cardinality(upto(t)) = Cardinality(upto(s)) => upto(t) = upto(s)
    BY <1>3, <2>1, FS_Subset
  <2>3. QED
    BY <1>3, <2>1, <2>2
<1> HIDE DEF upto
<1>5. rank \in [S -> 1..N]
  <2>1. \A s \in S : Cardinality(upto(s)) \in 1..N
    BY <1>2, <1>3
  <2>2. QED
    BY <2>1
<1>6. \A s, t \in S : s < t => rank[s] < rank[t]
  BY <1>4
<1> HIDE DEF rank
<1>7. rank \in Surjection(S, 1..N)
  <2>1. \A s, t \in S : rank[s] = rank[t] => s = t
    <3>1. \A s, t \in S : rank[s] \in Nat /\ (s < t \/ t < s \/ s = t)
      BY <1>1, <1>2, <1>5
    <3>2. QED
      BY <1>6, <3>1
  <2>2. rank \in Injection(S, 1..N)
    BY <1>5, <2>1 DEF Injection, IsInjective
  <2>3. IsFiniteSet(1..N) /\ Cardinality(1..N) = N
    BY <1>2, FS_Interval
  <2>4. QED
    BY <2>2, <2>3, FS_Injection
<1> DEFINE f == [a \in 1..N |-> CHOOSE s \in S : rank[s] = a]
<1>8. \A a \in 1..N : f[a] \in S /\ rank[f[a]] = a
  BY <1>7 DEF Surjection
<1>9. f \in [1..N -> S]
  BY <1>8
<1>10. ASSUME NEW a \in 1..N, NEW b \in 1..N, a < b
       PROVE  f[a] < f[b]
  <2>1. f[a] \in S /\ f[b] \in S /\ rank[f[a]] = a /\ rank[f[b]] = b
    BY <1>8
  <2> HIDE DEF f
  <2>2. PICK s \in S, t \in S : s = f[a] /\ t = f[b]
    BY <2>1
  <2>3. a \in Nat /\ b \in Nat /\ s \in Nat /\ t \in Nat /\ rank[s] = a /\ rank[t] = b
    BY <1>1, <1>2, <2>1, <2>2
  <2>4. ~(t < s) /\ s # t
    BY <1>6, <1>10, <2>3
  <2>5. QED
    BY <2>2, <2>3, <2>4
<1> HIDE DEF f, N
<1>11. /\ InOrder(S) \in [1..N -> S]
       /\ \A a, b \in 1..N : a < b => InOrder(S)[a] < InOrder(S)[b]
  BY <1>9, <1>10 DEF InOrder, N
<1>12. QED
  BY <1>2, <1>11 DEF N

LEMMA MergeKeeps == ASSUME BundleInv, Merge PROVE BundleInv'
<1> DEFINE at == InOrder(NewAssets)
           N == Cardinality(NewAssets)
           new == [n \in 1..N |-> AssetOf[payload[at[n]].key]]
           whole == manifest \o new
<1>1. /\ pc = "merge" /\ manifest' = whole /\ LeaveScratch(scratch)
      /\ UNCHANGED <<store, rotten, trouble>>
  BY DEF Merge
<1>2. Len(payload) \in Nat /\ \A s \in 1..Len(payload) : payload[s].key \in Keys
  BY PayloadFacts DEF BundleInv
<1>3. \A s \in 1..Len(payload) : Landed(payload[s]) /\ ~Refused(payload[s])
  BY <1>1 DEF BundleInv, Passed
<1>4. /\ N \in Nat /\ at \in [1..N -> NewAssets]
      /\ \A a, b \in 1..N : a < b => at[a] < at[b]
  <2>1. NewAssets \in SUBSET (1..Len(payload))
    BY DEF NewAssets
  <2>2. QED
    BY <1>2, <2>1, OrderOf
<1>5. \A s \in NewAssets :
        /\ s \in 1..Len(payload) /\ payload[s].kind \in AssetKinds
        /\ AssetOf[payload[s].key] \notin Range(manifest)
        /\ \A r \in 1..(s - 1) : payload[r].kind \in AssetKinds =>
             AssetOf[payload[r].key] # AssetOf[payload[s].key]
  BY DEF NewAssets
<1> HIDE DEF at
<1>6. ASSUME NEW n \in 1..N
      PROVE  new[n] \in Assets \ Range(manifest)
             /\ \E k \in Keys : AssetOf[k] = new[n] /\ store[k] # None
  <2>1. PICK s \in NewAssets : s = at[n]
    BY <1>4
  <2>2. s \in 1..Len(payload) /\ payload[s].kind \in AssetKinds
        /\ AssetOf[payload[s].key] \notin Range(manifest)
    BY <1>5
  <2>3. new[n] = AssetOf[payload[s].key]
    BY <2>1
  <2>4. AssetOf[payload[s].key] # None /\ store[payload[s].key] # None
    BY <1>3, <2>2 DEF Landed, Refused
  <2>5. payload[s].key \in Keys
    BY <1>2, <2>2
  <2> HIDE DEF new
  <2>6. QED
    BY <2>2, <2>3, <2>4, <2>5 DEF Assets
<1>7. ASSUME NEW a \in 1..N, NEW b \in 1..N, a < b
      PROVE  new[a] # new[b]
  <2>1. PICK s \in NewAssets : s = at[a]
    BY <1>4
  <2>2. PICK t \in NewAssets : t = at[b]
    BY <1>4
  <2>3. s < t /\ s \in 1..Len(payload) /\ t \in 1..Len(payload)
    BY <1>4, <1>5, <1>7, <2>1, <2>2
  <2>4. s \in 1..(t - 1)
    BY <2>3
  <2>5. AssetOf[payload[s].key] # AssetOf[payload[t].key]
    BY <1>5, <2>4
  <2>6. new[a] = AssetOf[payload[s].key] /\ new[b] = AssetOf[payload[t].key]
    BY <2>1, <2>2
  <2> HIDE DEF new
  <2>7. QED
    BY <2>5, <2>6
<1>8. new \in Seq(Assets) /\ Len(new) = N /\ DOMAIN new = 1..N
  <2>1. \A n \in 1..N : new[n] \in Assets
    BY <1>6
  <2>2. DOMAIN new = 1..N /\ new \in [1..N -> Assets]
    BY <2>1
  <2> HIDE DEF new
  <2>3. new \in Seq(Assets)
    BY <1>4, <2>2
  <2>4. QED
    BY <1>4, <2>2, <2>3
<1> HIDE DEF new
<1>9. /\ manifest \in Seq(Assets) /\ IsInjective(manifest)
      /\ \A m \in 1..Len(manifest) : \E k \in Keys : AssetOf[k] = manifest[m] /\ store[k] # None
  BY DEF BundleInv, Backed
<1>10. /\ whole \in Seq(Assets) /\ Len(whole) = Len(manifest) + N
       /\ DOMAIN whole = 1..Len(whole) /\ Len(manifest) \in Nat
       /\ DOMAIN manifest = 1..Len(manifest)
       /\ \A m \in 1..Len(manifest) : whole[m] = manifest[m]
       /\ \A m \in (Len(manifest) + 1)..(Len(manifest) + N) : whole[m] = new[m - Len(manifest)]
  BY <1>4, <1>8, <1>9
<1> HIDE DEF whole
<1>11. ASSUME NEW m \in 1..Len(whole), m \notin 1..Len(manifest)
       PROVE  m - Len(manifest) \in 1..N /\ whole[m] = new[m - Len(manifest)]
  BY <1>4, <1>10, <1>11
<1>12. IsInjective(whole)
  <2>1. SUFFICES ASSUME NEW a \in 1..Len(whole), NEW b \in 1..Len(whole), a < b
                 PROVE  whole[a] # whole[b]
    <3>1. \A a, b \in 1..Len(whole) : a < b \/ b < a \/ a = b
      BY <1>4, <1>10
    <3>2. \A a, b \in 1..Len(whole) : whole[a] = whole[b] => a = b
      BY <2>1, <3>1
    <3>3. QED
      BY <1>10, <3>2 DEF IsInjective
  <2>2. CASE b \in 1..Len(manifest)
    <3>1. a \in 1..Len(manifest) /\ a # b
      BY <1>4, <1>10, <2>1, <2>2
    <3>2. manifest[a] # manifest[b]
      BY <1>9, <1>10, <2>2, <3>1 DEF IsInjective
    <3>3. QED
      BY <1>10, <2>2, <3>1, <3>2
  <2>3. CASE b \notin 1..Len(manifest) /\ a \in 1..Len(manifest)
    <3>1. whole[b] \notin Range(manifest)
      BY <1>6, <1>11, <2>3
    <3>2. whole[a] \in Range(manifest)
      BY <1>10, <2>3 DEF Range
    <3>3. QED
      BY <3>1, <3>2
  <2>4. CASE b \notin 1..Len(manifest) /\ a \notin 1..Len(manifest)
    <3>1. /\ a - Len(manifest) \in 1..N /\ whole[a] = new[a - Len(manifest)]
          /\ b - Len(manifest) \in 1..N /\ whole[b] = new[b - Len(manifest)]
      BY <1>11, <2>4
    <3>2. a - Len(manifest) < b - Len(manifest)
      BY <1>4, <1>10, <2>1
    <3>3. QED
      BY <1>7, <3>1, <3>2
  <2>5. QED
    BY <2>2, <2>3, <2>4
<1>13. \A m \in 1..Len(whole) : \E k \in Keys : AssetOf[k] = whole[m] /\ store[k] # None
  BY <1>6, <1>9, <1>10, <1>11
<1>14. Backed'
  BY <1>1, <1>10, <1>12, <1>13 DEF Backed
<1>15. trouble' \in BOOLEAN
  BY <1>1 DEF BundleInv, BundleTypeOK
<1>16. QED
  BY <1>1, <1>14, <1>15, LeftKeeps

-----------------------------------------------------------------------------
(* Every step *)

LEMMA BundleKept == ASSUME BundleInv, UNCHANGED vars PROVE BundleInv'
BY DEF vars, BundleInv, BundleTypeOK, Busy, Staged, Verified, Backed, Passed, Landed, Refused,
       Clears, Status

LEMMA BundleInductive == ASSUME BundleInv, [BundleNext]_vars PROVE BundleInv'
<1>1. ASSUME NEW p \in Payloads, BeginPull(p) PROVE BundleInv'
  BY <1>1, BeginPullKeeps
<1>2. ASSUME PullStep PROVE BundleInv'
  <2>1. CASE Open
    BY <2>1, OpenKeeps
  <2>2. ASSUME NEW c \in Contents, StreamEnds(c) PROVE BundleInv'
    BY <2>2, StreamEndsKeeps
  <2>3. CASE Verify
    BY <2>3, VerifyKeeps
  <2>4. CASE InstallRefused
    <3>1. trouble' \in BOOLEAN
      BY <2>4 DEF InstallRefused, BundleInv, BundleTypeOK
    <3>2. QED
      BY <2>4, <3>1, FailKeeps DEF InstallRefused
  <2>5. CASE InstallSkipped
    BY <2>5, InstallSkippedKeeps
  <2>6. CASE Installed
    BY <2>6, InstalledKeeps
  <2>7. CASE Merge
    BY <2>7, MergeKeeps
  <2>8. QED
    BY <1>2, <2>1, <2>2, <2>3, <2>4, <2>5, <2>6, <2>7 DEF PullStep, Installing
<1>3. ASSUME PullFails PROVE BundleInv'
  <2>1. CASE FetchFails
    BY <2>1, FetchFailsKeeps
  <2>2. CASE InstallFails
    BY <2>2, DisturbedKeeps DEF InstallFails
  <2>3. CASE Crash
    BY <2>3, DisturbedKeeps DEF Crash
  <2>4. QED
    BY <1>3, <2>1, <2>2, <2>3 DEF PullFails
<1>4. ASSUME NEW k \in Keys, NEW c \in Decayed, Rot(k, c) PROVE BundleInv'
  BY <1>4, RotKeeps
<1>5. QED
  BY <1>1, <1>2, <1>3, <1>4, BundleKept DEF BundleNext

(* install.py:210-240: a bundle reported complete is complete - each       *)
(* artifact has landed, the pinned ones with the bytes of their pins -     *)
(* whatever other pulls, crashes and bad disks left in the store.          *)
THEOREM CompleteIsComplete == BundleSpec => []ReportIsTrue
<1>1. BundleInv => ReportIsTrue
  BY DEF BundleInv, Passed, ReportIsTrue
<1>2. QED
  BY <1>1, BundleStarts, BundleInductive, PTL DEF BundleSpec

(* install.py:118-133 and 274-295: the manifest lists an asset once, and   *)
(* only one whose file is in the store.                                    *)
THEOREM ManifestIsBacked == BundleSpec => []ManifestBacked
<1>1. BundleInv => ManifestBacked
  BY DEF BundleInv, Backed, ManifestBacked
<1>2. QED
  BY <1>1, BundleStarts, BundleInductive, PTL DEF BundleSpec

(* verify.py: what lands in the store belongs to a bundle verified as a    *)
(* whole, and what has still to land is what was verified.                 *)
THEOREM UnverifiedStaysOut == BundleSpec => OnlyVerifiedLands
<1> DEFINE Lands == (\E k \in Keys : store'[k] # store[k] /\ k \notin rotten') =>
        /\ \E s \in 1..Len(payload) : payload[s].kind = "workflow_spec"
        /\ \A s \in 1..Len(payload) : payload[s].pin = None => payload[s].kind \notin DigestRequired
        /\ \A s \in i..Len(payload) :
             \/ payload[s].pin = None \/ payload[s].kind \in DeviceSource
             \/ scratch[s] = payload[s].pin
<1>1. ASSUME BundleInv, Installed PROVE Lands
  <2>1. pc = "install"
    BY <1>1 DEF Installed
  <2>2. /\ \E s \in 1..Len(payload) : payload[s].kind = "workflow_spec"
        /\ \A s \in 1..Len(payload) : Status(payload[s]) # "refused"
        /\ \A s \in i..Len(payload) : Clears(payload[s], scratch[s])
    BY <1>1, <2>1 DEF BundleInv, Verified
  <2>3. \A s \in 1..Len(payload) : payload[s].pin = None => payload[s].kind \notin DigestRequired
    BY <2>2 DEF Status
  <2>4. \A s \in i..Len(payload) :
          \/ payload[s].pin = None \/ payload[s].kind \in DeviceSource
          \/ scratch[s] = payload[s].pin
    BY <2>2 DEF Clears, Status
  <2>5. QED
    BY <2>2, <2>3, <2>4
<1>2. ASSUME BundleInv, NEW k \in Keys, NEW c \in Decayed, Rot(k, c) PROVE Lands
  <2>1. \A j \in Keys : store'[j] = store[j] \/ j \in rotten'
    BY <1>2 DEF Rot, BundleInv, BundleTypeOK
  <2>2. QED
    BY <2>1
<1>3. ASSUME store' = store PROVE Lands
  BY <1>3
<1>4. ASSUME BundleInv, [BundleNext]_vars PROVE [Lands]_vars
  <2> HIDE DEF Lands
  <2>1. Installed \/ (\E k \in Keys, c \in Decayed : Rot(k, c)) \/ store' = store
    BY <1>4 DEF vars, BundleNext, PullStep, PullFails, Installing, BeginPull, Open, StreamEnds,
       Verify, Fail, Disturbed, InstallRefused, InstallSkipped, Merge, FetchFails, InstallFails, Crash
  <2>2. QED
    BY <1>1, <1>2, <1>3, <1>4, <2>1
<1>5. BundleSpec => [][Lands]_vars
  <2> HIDE DEF Lands
  <2>1. QED
    BY <1>4, BundleStarts, BundleInductive, PTL DEF BundleSpec
<1>6. QED
  BY <1>5 DEF OnlyVerifiedLands
=============================================================================
