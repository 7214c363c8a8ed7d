---------------------------- MODULE DurableQueue ----------------------------
(***************************************************************************)
(* convilyn_edge/offline/queue.py: DurableQueue, a JSONL file with an      *)
(* in-memory index of the keys it holds.                                   *)
(*                                                                         *)
(* The file is a sequence of lines.  A line is the key of the record it    *)
(* parses to, Torn when json.loads refuses it, or Undecodable when its     *)
(* bytes are not UTF-8 (a write cut inside a multi-byte character; records *)
(* are written with ensure_ascii=False).  The last line may lack its "\n". *)
(* Records of equal key are equal: keys are content-addressed or unique.   *)
(*                                                                         *)
(* The process can stop between any two steps, the disk can refuse part of *)
(* a write (EnqueueFails) and the power can fail (PowerLoss).  A power     *)
(* failure loses what was appended since the last fsync: enqueue does not  *)
(* fsync, replace fsyncs its temp file.  Nothing fsyncs the directory, so  *)
(* a power failure may also undo a rename or an unlink, and bring back the *)
(* file that was there before, until the kernel has written the directory  *)
(* (DirectoryWritten).                                                     *)
(***************************************************************************)
EXTENDS Naturals, Sequences, FiniteSets, Functions

CONSTANTS
  Keys,         (* apply-once keys of the records offered to the queue     *)
  Torn,         (* a line that does not parse                              *)
  Undecodable,  (* a line whose bytes are not UTF-8                        *)
  Unset,        (* _index before its first use (None in the code)          *)
  MaxTears,     (* bound: torn writes in a behaviour                       *)
  MaxRewrite    (* bound: length of the list given to replace              *)

ASSUME LineKinds ==
  /\ Torn \notin Keys
  /\ Undecodable \notin Keys
  /\ Torn # Undecodable
  /\ \A ks \in SUBSET Keys : ks # Unset

ASSUME Bounds == MaxTears \in Nat /\ MaxRewrite \in Nat

VARIABLES
  file,         (* lines of the queue file; <<>> also when it is absent    *)
  terminated,   (* the file is empty or its last line ends with "\n"       *)
  index,        (* the cached key set, _index                              *)
  tmp,          (* records of a rewrite not yet renamed; <<>> if none      *)
  synced,       (* how many of the lines an fsync has covered              *)
  old,          (* the file the directory on the disk still names; {} when *)
                (* it names the present one                                *)
  (* history *)
  told,         (* keys the caller was told are queued, not removed since  *)
  secured,      (* keys written by the replace the file comes from         *)
  tears         (* torn writes so far                                      *)

disk    == <<file, terminated, synced>>
history == <<told, secured, tears>>
vars    == <<file, terminated, index, tmp, synced, old, told, secured, tears>>

Lines == Keys \cup {Torn, Undecodable}

(* Where a write of "<json>\n" can be cut short, and the line each cut     *)
(* leaves of the record k.                                                 *)
TornCuts == {"partial", "multibyte", "unterminated"}
Cuts     == TornCuts \cup {"nothing", "whole"}

LeftOf(k, cut) ==
  CASE cut = "partial"   -> Torn
    [] cut = "multibyte" -> Undecodable
    [] OTHER             -> k

Init ==
  /\ file = <<>> /\ terminated = TRUE /\ synced = 0
  /\ index = Unset /\ tmp = <<>> /\ old = {}
  /\ told = {} /\ secured = {} /\ tears = 0

-----------------------------------------------------------------------------
(* Reading the file *)

Readable == Undecodable \notin Range(file)

(* The records the lines parse to, in file order (_read_lines skips the    *)
(* lines that do not parse), and their keys.                               *)
Records(lines) ==
  LET read[n \in 0..Len(lines)] ==
        IF n = 0 THEN <<>>
        ELSE IF lines[n] \in Keys THEN Append(read[n - 1], lines[n]) ELSE read[n - 1]
  IN  read[Len(lines)]

DiskRecords == Records(file)
OldRecords  == {Records(f.lines) : f \in old}
DiskKeys    == Range(file) \cap Keys

(* pending() raises UnicodeDecodeError when the file is not UTF-8.         *)
PendingFails == ~Readable

(* Variants: lines that do not parse are indexed; the index starts empty.  *)
KeysIndexUnfiltered == IF index = Unset THEN Range(file) ELSE index
KeysIndexNoDisk     == IF index = Unset THEN {} ELSE index

(* _keys_index().                                                          *)
KeysIndex == IF index = Unset THEN DiskKeys ELSE index

(* _keys_index() reads the file when the index is unset.                   *)
IndexAvailable == index # Unset \/ Readable

-----------------------------------------------------------------------------
(* Writing the file *)

(* Two lines run together never parse: the first lacks its closing brace   *)
(* or the second is extra data.                                            *)
Glue(last, line) == IF Undecodable \in {last, line} THEN Undecodable ELSE Torn

(* Variant: the file is opened with O_TRUNC instead of O_APPEND.           *)
AppendLineTruncating(f, line) == <<line>>

AppendLine(f, line) ==
  IF terminated THEN Append(f, line)
                ELSE [f EXCEPT ![Len(f)] = Glue(@, line)]

(* The effect on the file of an append of k that is cut.                   *)
WriteCut(k, cut) ==
  /\ file' = IF cut = "nothing" THEN file ELSE AppendLine(file, LeftOf(k, cut))
  /\ terminated' = CASE cut = "nothing" -> terminated
                     [] cut = "whole"   -> TRUE
                     [] OTHER           -> FALSE
  /\ tears' = IF cut \in TornCuts THEN tears + 1 ELSE tears
  /\ tears' <= MaxTears
  /\ UNCHANGED <<synced, old>>

-----------------------------------------------------------------------------
(* Operations.  They are synchronous: none starts while a rewrite (tmp)    *)
(* is in progress.                                                         *)

Idle == tmp = <<>>

(* enqueue of a record whose key is not indexed: append, then index it.    *)
Enqueue(k) ==
  /\ Idle /\ IndexAvailable
  /\ k \notin KeysIndex
  /\ WriteCut(k, "whole")
  /\ index' = KeysIndex \cup {k}
  /\ told' = told \cup {k}
  /\ UNCHANGED <<tmp, secured>>

(* enqueue of an indexed key: nothing is written and False is returned.    *)
EnqueueDuplicate(k) ==
  /\ Idle /\ IndexAvailable
  /\ k \in KeysIndex
  /\ index' = KeysIndex
  /\ told' = told \cup {k}
  /\ UNCHANGED <<disk, old, tmp, secured, tears>>

(* enqueue raises OSError after part of the line was written (disk full).  *)
EnqueueFails(k, cut) ==
  /\ Idle /\ IndexAvailable
  /\ k \notin KeysIndex
  /\ WriteCut(k, cut)
  /\ index' = KeysIndex
  /\ UNCHANGED <<tmp, told, secured>>

(* keys(): builds the index, returns a copy.                               *)
ReadKeys ==
  /\ Idle /\ IndexAvailable
  /\ index' = KeysIndex
  /\ UNCHANGED <<disk, old, tmp, history>>

(* The file as a power failure would find it, and what a rename or an      *)
(* unlink leaves of it: the disk may name it still.  Renames and unlinks   *)
(* reach the disk in their order, so one file is all there is to keep.     *)
Present == [lines |-> file, terminated |-> terminated, synced |-> synced, secured |-> secured]

Superseded == old' = IF old = {} THEN {Present} ELSE old

(* clear(): the file is unlinked.                                          *)
Unlink ==
  /\ Idle
  /\ file' = <<>> /\ terminated' = TRUE /\ synced' = 0
  /\ index' = {}
  /\ told' = {} /\ secured' = {}
  /\ UNCHANGED <<tmp, tears>>

Clear == Unlink /\ Superseded

(* Variant: the records are written over the queue file itself.            *)
ReplaceWriteInPlace(recs) ==
  /\ Idle
  /\ recs # <<>> /\ IsInjective(recs)
  /\ tmp' = recs
  /\ file' = <<>> /\ terminated' = TRUE /\ synced' = 0
  /\ UNCHANGED <<index, old, history>>

(* replace(recs), recs not empty: the temp file is written and fsynced ... *)
ReplaceWrite(recs) ==
  /\ Idle
  /\ recs # <<>> /\ IsInjective(recs)
  /\ tmp' = recs
  /\ UNCHANGED <<disk, old, index, history>>

(* Variant: the temp file is renamed without an fsync.                     *)
RenameUnsynced ==
  /\ ~Idle
  /\ file' = tmp /\ terminated' = TRUE /\ synced' = 0
  /\ index' = Range(tmp)
  /\ told' = Range(tmp) /\ secured' = Range(tmp)
  /\ tmp' = <<>>
  /\ UNCHANGED tears

(* ... then renamed over the queue file, and the index rebuilt.            *)
Rename ==
  /\ ~Idle
  /\ file' = tmp /\ terminated' = TRUE /\ synced' = Len(tmp)
  /\ index' = Range(tmp)
  /\ told' = Range(tmp) /\ secured' = Range(tmp)
  /\ tmp' = <<>>
  /\ UNCHANGED tears

ReplaceRename == Rename /\ Superseded

-----------------------------------------------------------------------------
(* Failures.  A new process constructs a fresh queue: _index is None, and  *)
(* a leftover temp file is never read.                                     *)

Crash ==
  /\ index' = Unset /\ tmp' = <<>>
  /\ UNCHANGED <<disk, old, history>>

CrashInEnqueue(k, cut) ==
  /\ Idle /\ IndexAvailable
  /\ k \notin KeysIndex
  /\ WriteCut(k, cut)
  /\ index' = Unset
  /\ UNCHANGED <<tmp, told, secured>>

(* The kernel writes the directory: the last rename or unlink is there to  *)
(* stay.                                                                   *)
DirectoryWritten ==
  /\ old # {}
  /\ old' = {}
  /\ UNCHANGED <<disk, index, tmp, history>>

(* The power fails.  The file the directory names is left, the present one *)
(* or the old one; of its lines the first n survive, and of line n + 1     *)
(* what a cut leaves.  The callers' belief in the records a power failure  *)
(* took is not held against the queue here: told drops them.               *)
PowerLoss(f, n, cut) ==
  /\ f \in {Present} \cup old
  /\ n \in f.synced..Len(f.lines)
  /\ cut \in TornCuts \cup {"nothing"}
  /\ n = Len(f.lines) => cut = "nothing"
  /\ cut = "unterminated" => f.lines[n + 1] \in Keys
  /\ file' = IF cut = "nothing" THEN SubSeq(f.lines, 1, n)
                                ELSE Append(SubSeq(f.lines, 1, n), LeftOf(f.lines[n + 1], cut))
  /\ terminated' = (cut = "nothing" /\ (n = Len(f.lines) => f.terminated))
  /\ tears' = IF cut = "nothing" THEN tears ELSE tears + 1
  /\ tears' <= MaxTears
  /\ synced' = f.synced /\ secured' = f.secured
  /\ old' = {} /\ index' = Unset /\ tmp' = <<>>
  /\ told' = told \ (DiskKeys \ Range(file'))

-----------------------------------------------------------------------------
Rewrites == UNION {[1..n -> Keys] : n \in 1..MaxRewrite}

Operations ==
  \/ \E k \in Keys : Enqueue(k) \/ EnqueueDuplicate(k)
  \/ \E k \in Keys, cut \in Cuts \ {"whole"} : EnqueueFails(k, cut)
  \/ ReadKeys
  \/ Clear
  \/ \E recs \in Rewrites : ReplaceWrite(recs)
  \/ ReplaceRename

Failures ==
  \/ Crash
  \/ \E k \in Keys, cut \in Cuts : CrashInEnqueue(k, cut)
  \/ DirectoryWritten
  \/ \E f \in {Present} \cup old : \E n \in 0..Len(f.lines), cut \in Cuts : PowerLoss(f, n, cut)

Next == Operations \/ Failures

Spec == Init /\ [][Next]_vars

-----------------------------------------------------------------------------
(* Properties *)

(* Every variable keeps its shape: lines, the index and the counters are   *)
(* what _read_lines and _keys_index can produce, the unterminated tail is  *)
(* a line of its own beyond the fsynced ones, and the index never holds a  *)
(* line that is not a record.                                              *)
FileOK(f) ==
  /\ f.lines \in Seq(Lines)
  /\ f.terminated \in BOOLEAN
  /\ f.synced \in 0..Len(f.lines)
  /\ ~f.terminated => f.synced < Len(f.lines)
  /\ f.secured \in SUBSET Keys

TypeOK ==
  /\ FileOK(Present)
  /\ \A f \in old : FileOK(f) /\ old = {f}
  /\ index = Unset \/ index \in SUBSET Keys
  /\ tmp \in Seq(Keys) /\ IsInjective(tmp)
  /\ told \in SUBSET Keys
  /\ tears \in 0..MaxTears

(* Apply-once at the queue: whatever crashes, torn writes, failed appends, *)
(* restarts and rewrites happen in between, no two lines of the file parse *)
(* to the same record, so one flush cannot send a record twice.            *)
NoDuplicateKeys ==
  \A i, j \in 1..Len(file) : file[i] \in Keys /\ file[i] = file[j] => i = j

(* _read_lines' "bounded blast radius": of the records the queue says it   *)
(* holds - a caller was told so, or would be, since the index has the key -*)
(* at most two per torn write are not in the file: the one whose line was  *)
(* cut and the one the next append ran into it.  Without a torn write the  *)
(* index is never stale and nothing acknowledged is lost.                  *)
Claimed == told \cup (IF index = Unset THEN {} ELSE index)
Missing == Claimed \ DiskKeys
BoundedBlastRadius == Cardinality(Missing) <= 2 * tears

(* A replace is whole or undone.  The file holds all that the replace it   *)
(* comes from wrote, through later crashes, torn appends and power         *)
(* failures, since the temp file is fsynced before the rename.  A power    *)
(* failure before the directory is written may undo the replace itself,    *)
(* and then the file it brings back holds all that an earlier replace had  *)
(* written: never a part of one, nor of two.                               *)
SecuredSurvives ==
  /\ secured \subseteq DiskKeys
  /\ \A f \in old : f.secured \subseteq Range(f.lines)

(* The file behaves as the abstract FIFO buffer: records keep the order of *)
(* their enqueue, a rewrite happens at once or not at all, only a torn     *)
(* append or a power failure loses records, the newest ones first, and     *)
(* only a power failure soon after a rewrite undoes it.                    *)
Buffer == INSTANCE ApplyOnceBuffer
            WITH buffer <- DiskRecords, told <- told, before <- OldRecords
ImplementsBuffer == Buffer!AbstractSpec

(* _read_lines' docstring (queue.py:85-86): "one bad write can't lose      *)
(* every buffered record": pending() does not fail while the file holds    *)
(* records.                                                                *)
BadWriteSparesTheRest == PendingFails => DiskRecords = <<>>
=============================================================================
