---------------------------- MODULE BundleInstall ----------------------------
(***************************************************************************)
(* convilyn_edge/bundle: one pull of a bundle - stage_bundle (staging.py,  *)
(* over fetch.py), verify_staged_bundle (verify.py),                       *)
(* install_verified_bundle and merge_installed_assets (install.py).        *)
(*                                                                         *)
(* The server, the network, the disk and the caller that pulls again are   *)
(* external.  A file's content is the object it was read from and how much *)
(* of it arrived; the digest of a content is the content.  A crash may     *)
(* fall between any two steps.                                             *)
(***************************************************************************)
EXTENDS Naturals, Sequences, FiniteSets, Functions

CONSTANTS
  Keys,         (* resolver keys; the store path is a digest of the key    *)
  Bodies,       (* objects the server may send                             *)
  MaxLen,       (* bound: the longest content                              *)
  Payloads,     (* payloads the push endpoint hands out                    *)
  AssetOf,      (* the InstalledAsset a key spells, None if malformed      *)
  Ceiling,      (* max_artifact_bytes, or None                             *)
  Malformed,    (* a content_hash that is no sha256 pin                    *)
  Leftover,     (* a scratch file nobody will read again                   *)
  Decayed,      (* what a stored file may hold after the disk went bad     *)
  None

Contents == [body : Bodies, len : 1..MaxLen]

Artifacts == [kind : STRING, key : Keys, pin : Contents \cup {Malformed, None},
              size : 1..MaxLen \cup {None}]

(* One payload says the same thing of one key, and payloads are bounded.   *)
ASSUME BundleConstants ==
  /\ Payloads \subseteq Seq(Artifacts)
  /\ \E p \in Payloads : \A q \in Payloads : Len(q) <= Len(p)
  /\ MaxLen \in Nat /\ Ceiling \in 1..MaxLen \cup {None}
  /\ None \notin Contents /\ Malformed \notin Contents /\ Leftover \notin Contents
  /\ Decayed \subseteq Contents
  /\ None # Leftover /\ None # Malformed
  /\ \A p \in Payloads : \A j, m \in DOMAIN p :
       p[j].key = p[m].key => p[j].kind = p[m].kind /\ p[j].pin = p[m].pin

DigestRequired == {"workflow_spec", "trusted_core"}
DeviceSource   == {"trusted_core"}
AssetKinds     == {"role_asset", "tool_asset"}
Installable    == {"workflow_spec", "role_asset", "tool_asset", "runtime", "trusted_core"}

VARIABLES
  pc,           (* "idle", "open", "stream", "verify", "install", "merge"  *)
  payload, i,   (* the payload being pulled and the artifact at hand       *)
  scratch,      (* the staging directory: content by index, None if absent *)
  store,        (* the device store: content by key                        *)
  manifest,     (* installed_assets of the device manifest                 *)
  rotten,       (* history: keys whose stored file went bad on disk since  *)
                (* it was last written or checked                          *)
  trouble       (* history: the world disturbed this pull                  *)

vars == <<pc, payload, i, scratch, store, manifest, rotten, trouble>>

Slots == UNION {DOMAIN p : p \in Payloads}

BundleInit ==
  /\ pc = "idle" /\ payload = <<>> /\ i = 1
  /\ scratch = [s \in Slots |-> None]
  /\ store = [k \in Keys |-> None]
  /\ manifest = <<>> /\ rotten = {} /\ trouble = FALSE

Artifact == payload[i]

-----------------------------------------------------------------------------
(* The pull as a whole *)

BeginPull(p) ==
  /\ pc = "idle"
  /\ payload' = p /\ i' = 1
  /\ pc' = IF p = <<>> THEN "verify" ELSE "open"
  /\ trouble' = FALSE
  /\ UNCHANGED <<scratch, store, manifest, rotten>>

(* Variant: one artifact too many.                                         *)
AdvanceBeyond(phase, next) ==
  /\ pc' = IF i > Len(payload) THEN next ELSE phase
  /\ i' = IF i > Len(payload) THEN 1 ELSE i + 1

Advance(phase, next) ==
  /\ pc' = IF i = Len(payload) THEN next ELSE phase
  /\ i' = IF i = Len(payload) THEN 1 ELSE i + 1

(* The pull is over; what it left in the scratch directory stays there.    *)
LeaveScratch(files) ==
  /\ pc' = "idle" /\ payload' = <<>> /\ i' = 1
  /\ scratch' = [s \in Slots |-> IF files[s] = None THEN None ELSE Leftover]

Fail ==
  /\ LeaveScratch(scratch)
  /\ UNCHANGED <<store, manifest, rotten>>

(* ... because of the world, not of what was being pulled.                 *)
Disturbed == Fail /\ trouble' = TRUE

-----------------------------------------------------------------------------
(* stage_bundle *)

(* Variant: the staging file is created, and must not exist.               *)
OpenExclusive ==
  /\ pc = "open" /\ scratch[i] = None
  /\ scratch' = [scratch EXCEPT ![i] = Leftover]
  /\ pc' = "stream"
  /\ UNCHANGED <<payload, i, store, manifest, rotten, trouble>>

(* O_CREAT | O_TRUNC.                                                      *)
Open ==
  /\ pc = "open"
  /\ scratch' = [scratch EXCEPT ![i] = Leftover]
  /\ pc' = "stream"
  /\ UNCHANGED <<payload, i, store, manifest, rotten, trouble>>

Limit(a) == IF Ceiling # None THEN Ceiling ELSE a.size

Fits(a, c) == Limit(a) # None => c.len <= Limit(a)

OtherBytes(a, c) == a.pin # None /\ a.kind \notin DeviceSource /\ c # a.pin

(* The response ended.  A connection that drops early ends it too: only    *)
(* the ceiling is compared with what arrived.                              *)
StreamEnds(c) ==
  /\ pc = "stream" /\ Fits(Artifact, c)
  /\ scratch' = [scratch EXCEPT ![i] = c]
  /\ trouble' = (trouble \/ OtherBytes(Artifact, c))
  /\ Advance("open", "verify")
  /\ UNCHANGED <<payload, store, manifest, rotten>>

(* A rejected or expired URL, a transport error, the deadline, a stream    *)
(* above its ceiling: the partial file is unlinked.                        *)
FetchFails ==
  /\ pc \in {"open", "stream"}
  /\ LeaveScratch([scratch EXCEPT ![i] = None])
  /\ trouble' = TRUE
  /\ UNCHANGED <<store, manifest, rotten>>

-----------------------------------------------------------------------------
(* verify_staged_bundle *)

(* Variant: a blank digest is out of band whatever the kind.               *)
StatusBlankAllowed(a) ==
  IF a.pin = None THEN "out_of_band"
  ELSE IF a.kind \in DeviceSource THEN "deferred_trusted_core" ELSE "verified"

Status(a) ==
  IF a.pin = None THEN IF a.kind \in DigestRequired THEN "refused" ELSE "out_of_band"
  ELSE IF a.kind \in DeviceSource THEN "deferred_trusted_core" ELSE "verified"

Clears(a, c) == Status(a) # "refused" /\ (Status(a) = "verified" => c = a.pin)

Verify ==
  /\ pc = "verify"
  /\ IF /\ \A s \in 1..Len(payload) : Clears(payload[s], scratch[s])
        /\ \E s \in 1..Len(payload) : payload[s].kind = "workflow_spec"
       THEN /\ pc' = "install"
            /\ UNCHANGED <<payload, i, scratch, store, manifest, rotten>>
       ELSE Fail
  /\ UNCHANGED trouble

-----------------------------------------------------------------------------
(* install_verified_bundle, one step for each artifact *)

Refused(a) == a.kind \notin Installable \/ (a.kind \in AssetKinds /\ AssetOf[a.key] = None)

(* Variant: presence is enough for every kind.                             *)
AlreadyByPresence(a) == store[a.key] # None

AlreadyInstalled(a) ==
  store[a.key] # None /\ (Status(a) = "verified" => store[a.key] = a.pin)

InstallRefused ==
  /\ pc = "install" /\ Refused(Artifact)
  /\ Fail /\ UNCHANGED trouble

InstallSkipped ==
  /\ pc = "install" /\ ~Refused(Artifact) /\ AlreadyInstalled(Artifact)
  /\ rotten' = IF Status(Artifact) = "verified" THEN rotten \ {Artifact.key} ELSE rotten
  /\ Advance("install", "merge")
  /\ UNCHANGED <<payload, scratch, store, manifest, trouble>>

(* os.replace moves the staged file: no other step of the pull writes the  *)
(* store.                                                                  *)
Installed ==
  /\ pc = "install" /\ ~Refused(Artifact) /\ ~AlreadyInstalled(Artifact)
  /\ scratch[i] # None
  /\ store' = [store EXCEPT ![Artifact.key] = scratch[i]]
  /\ scratch' = [scratch EXCEPT ![i] = None]
  /\ rotten' = rotten \ {Artifact.key}
  /\ Advance("install", "merge")
  /\ UNCHANGED <<payload, manifest, trouble>>

(* Variant: the failure of one artifact is passed over.                    *)
InstallFailsSilently ==
  /\ pc = "install" /\ ~Refused(Artifact)
  /\ Advance("install", "merge")
  /\ UNCHANGED <<payload, scratch, store, manifest, rotten, trouble>>

(* The re-hash or the move raised; what already landed stays.              *)
InstallFails ==
  /\ pc = "install" /\ ~Refused(Artifact)
  /\ Disturbed

-----------------------------------------------------------------------------
(* InstallReport.installed_assets and merge_installed_assets *)

(* Where the payload first spells an asset that the manifest has not.      *)
NewAssets ==
  {s \in 1..Len(payload) :
     /\ payload[s].kind \in AssetKinds
     /\ AssetOf[payload[s].key] \notin Range(manifest)
     /\ \A r \in 1..(s - 1) : payload[r].kind \in AssetKinds =>
          AssetOf[payload[r].key] # AssetOf[payload[s].key]}

InOrder(S) ==
  CHOOSE f \in [1..Cardinality(S) -> S] :
    \A a, b \in 1..Cardinality(S) : a < b => f[a] < f[b]

Merge ==
  /\ pc = "merge"
  /\ LET at == InOrder(NewAssets) IN
       manifest' = manifest \o [n \in 1..Cardinality(NewAssets) |-> AssetOf[payload[at[n]].key]]
  /\ LeaveScratch(scratch)
  /\ UNCHANGED <<store, rotten, trouble>>

-----------------------------------------------------------------------------
(* The environment *)

Crash == pc # "idle" /\ Disturbed

(* A stored file loses its bytes on the disk.                              *)
Rot(k, c) ==
  /\ store[k] \notin {None, c}
  /\ store' = [store EXCEPT ![k] = c]
  /\ rotten' = rotten \cup {k}
  /\ UNCHANGED <<pc, payload, i, scratch, manifest, trouble>>

-----------------------------------------------------------------------------
Installing == InstallRefused \/ InstallSkipped \/ Installed

PullStep ==
  \/ Open \/ (\E c \in Contents : StreamEnds(c))
  \/ Verify \/ Installing \/ Merge

PullFails == FetchFails \/ InstallFails \/ Crash

BundleNext ==
  \/ \E p \in Payloads : BeginPull(p)
  \/ PullStep \/ PullFails
  \/ \E k \in Keys, c \in Decayed : Rot(k, c)

BundleSpec == BundleInit /\ [][BundleNext]_vars

(* A pull goes on to its end unless it fails; nothing makes the caller     *)
(* begin one.                                                              *)
FairBundleSpec == BundleSpec /\ WF_vars(PullStep)

-----------------------------------------------------------------------------
(* Properties *)

Busy == pc \in {"open", "stream", "install"}

BundleTypeOK ==
  /\ pc \in {"idle", "open", "stream", "verify", "install", "merge"}
  /\ payload \in Payloads \cup {<<>>}
  /\ i = 1 \/ i \in 1..Len(payload)
  /\ Busy => i \in 1..Len(payload)
  /\ scratch \in [Slots -> Contents \cup {Leftover, None}]
  /\ store \in [Keys -> Contents \cup {None}]
  /\ rotten \subseteq Keys /\ trouble \in BOOLEAN

(* What the report claims of an artifact: its file is in the store, and a  *)
(* byte-verified one has the bytes its pin names - unless the disk lost    *)
(* them after the check.                                                   *)
Landed(a) ==
  /\ store[a.key] # None
  /\ a.kind = "workflow_spec" => store[a.key] = a.pin \/ a.key \in rotten

(* A bundle reported complete is complete: when every artifact has been    *)
(* passed, each one has landed and is of a kind and key the device knows,  *)
(* whatever earlier pulls, other bundles, crashes and bad disks left in    *)
(* the store.                                                              *)
ReportIsTrue ==
  pc = "merge" =>
    \A s \in 1..Len(payload) : Landed(payload[s]) /\ ~Refused(payload[s])

(* The store only takes files of a bundle that was verified as a whole:    *)
(* while one lands, the bundle has a workflow spec, the kinds that must be *)
(* pinned are, and the files still to be moved are those the pins name.    *)
OnlyVerifiedLands ==
  [][ (\E k \in Keys : store'[k] # store[k] /\ k \notin rotten') =>
        /\ \E s \in 1..Len(payload) : payload[s].kind = "workflow_spec"
        /\ \A s \in 1..Len(payload) : payload[s].pin = None => payload[s].kind \notin DigestRequired
        /\ \A s \in i..Len(payload) :
             \/ payload[s].pin = None \/ payload[s].kind \in DeviceSource
             \/ scratch[s] = payload[s].pin ]_vars

(* The manifest is additive, lists an asset once and only one the device   *)
(* holds a file for.                                                       *)
ManifestBacked ==
  /\ BundleTypeOK
  /\ IsInjective(manifest)
  /\ \A m \in 1..Len(manifest) :
       \E k \in Keys : AssetOf[k] = manifest[m] /\ store[k] # None

(* A payload the device can install.                                       *)
WellFormed(p) ==
  /\ \E s \in 1..Len(p) : p[s].kind = "workflow_spec"
  /\ \A s \in 1..Len(p) : /\ ~Refused(p[s])
                          /\ p[s].pin # Malformed
                          /\ p[s].pin = None => p[s].kind \notin DigestRequired

(* Re-running the pull completes the install: once the network, the disk   *)
(* and the process hold, every later pull of a payload the device can      *)
(* install is reported complete, whatever earlier pulls left in the scratch*)
(* directory and the store.                                                *)
RerunCompletes ==
  <>[]~trouble => (([]<>(Busy /\ WellFormed(payload))) => []<>(pc = "merge"))

(* install.py:32-33: "os.replace lands it atomically (a present file is    *)
(* always complete)".                                                      *)
PresentIsComplete ==
  [][ \A k \in Keys : store'[k] # store[k] /\ k \notin rotten'
        => (Artifact.size # None => store'[k].len >= Artifact.size) ]_vars
=============================================================================
