------------------------ MODULE ThresholdAggregator ------------------------
(***************************************************************************)
(* convilyn_edge/runtime/aggregate.py: ThresholdAggregator.snapshot, over  *)
(* the JSONL store of offline/queue.py it is given for itself.  A snapshot *)
(* has no await: it is one step, unless the disk refuses a write or the    *)
(* process dies in it.  The clock is the device's wall clock, which may be *)
(* stepped either way.                                                     *)
(***************************************************************************)
EXTENDS Integers, Sequences, FiniteSets, Functions

CONSTANTS
  Events,       (* events, each with its own event_id                      *)
  Buckets,
  NoBucket,     (* key_of's None                                           *)
  BucketOf,     (* the pack's key_of                                       *)
  Window,       (* window_s                                                *)
  Threshold,
  MaxClock,     (* bound: readings of the clock                            *)
  MaxTears,     (* bound: torn appends                                     *)
  Torn,         (* a line that does not parse                              *)
  Unset         (* no index, or no snapshot, yet                           *)

Records == [key : Events, at : 0..MaxClock]

ASSUME AggregatorConstants ==
  /\ BucketOf \in [Events -> Buckets \cup {NoBucket}]
  /\ NoBucket \notin Buckets
  /\ Window \in Nat \ {0} /\ Threshold \in Nat \ {0}
  /\ MaxClock \in Nat /\ MaxTears \in Nat
  /\ Torn \notin Records /\ \A es \in SUBSET Events : es # Unset

VARIABLES
  lines, terminated, index,   (* the store, as in DurableQueue             *)
  clock,
  snap,         (* what the last snapshot returned                         *)
  (* history *)
  heard,        (* occurrences: events and when each was first received    *)
  tears

store == <<lines, terminated, index>>
aggregatorVars == <<store, clock, snap, heard, tears>>

AggregatorInit ==
  /\ lines = <<>> /\ terminated = TRUE /\ index = Unset
  /\ clock \in 0..MaxClock
  /\ snap = Unset
  /\ heard = {} /\ tears = 0

-----------------------------------------------------------------------------
(* The store *)

(* The lines of f that are in keep.                                        *)
Among(f, keep) ==
  LET read[n \in 0..Len(f)] ==
        IF n = 0 THEN <<>>
        ELSE IF f[n] \in keep THEN Append(read[n - 1], f[n]) ELSE read[n - 1]
  IN  read[Len(f)]

Pending(f) == Among(f, Records)

KeysOf(f) == {r.key : r \in Range(f) \ {Torn}}

(* Variants: the index starts empty; lines that do not parse are indexed.  *)
IndexNoDisk(ix, f) == IF ix = Unset THEN {} ELSE ix
IndexUnfiltered(ix, f) ==
  IF ix = Unset THEN {IF line = Torn THEN Torn ELSE line.key : line \in Range(f)} ELSE ix

Index(ix, f) == IF ix = Unset THEN KeysOf(f) ELSE ix

(* A line appended to an unterminated one spoils both.                     *)
AppendLine(f, closed, line) ==
  IF closed THEN Append(f, line) ELSE [f EXCEPT ![Len(f)] = Torn]

-----------------------------------------------------------------------------
(* The window *)

(* Variant: nothing dated after the reading is retained.                   *)
RetainedStrictly(at) == clock - Window <= at /\ at <= clock

Retained(at) == clock - Window <= at /\ at <= clock + Window

(* Variant: the band of retention is counted.                              *)
CountableLoosely(at) == clock - Window <= at /\ at <= clock + Window

Countable(at) == clock - Window <= at /\ at <= clock

Kept == Among(Pending(lines), {r \in Records : Retained(r.at)})

(* The store after "if len(kept) != len(records): replace(kept)".          *)
Prunes == Len(Kept) # Len(Pending(lines))
Pruned == IF Prunes THEN [lines |-> Kept, terminated |-> TRUE, index |-> KeysOf(Kept)]
                    ELSE [lines |-> lines, terminated |-> terminated, index |-> index]

(* The occurrences every snapshot since has been within one window of.     *)
StillHeard == {h \in heard : clock - Window <= h.at /\ h.at <= clock + Window}

Received(e) ==
  IF \E h \in StillHeard : h.key = e
    THEN StillHeard ELSE StillHeard \cup {[key |-> e, at |-> clock]}

-----------------------------------------------------------------------------
(* snapshot *)

(* The event is not an occurrence: the window is pruned, nothing counts.   *)
SnapshotPasses(e) ==
  /\ BucketOf[e] = NoBucket
  /\ lines' = Pruned.lines /\ terminated' = Pruned.terminated /\ index' = Pruned.index
  /\ snap' = [bucket |-> NoBucket, at |-> clock, count |-> 0, breached |-> FALSE]
  /\ heard' = StillHeard
  /\ UNCHANGED <<clock, tears>>

Counted(records, bucket) ==
  Cardinality({s \in 1..Len(records) :
    BucketOf[records[s].key] = bucket /\ Countable(records[s].at)})

Snapshot(e) ==
  LET p       == Pruned
      known   == Index(p.index, p.lines)
      record  == [key |-> e, at |-> clock]
      counted == IF e \in known THEN Kept ELSE Append(Kept, record)
      count   == Counted(counted, BucketOf[e])
  IN  /\ BucketOf[e] # NoBucket
      /\ lines' = IF e \in known THEN p.lines ELSE AppendLine(p.lines, p.terminated, record)
      /\ terminated' = (e \in known => p.terminated)
      /\ index' = known \cup {e}
      /\ snap' = [bucket |-> BucketOf[e], at |-> clock, count |-> count,
                  breached |-> count >= Threshold]
      /\ heard' = Received(e)
      /\ UNCHANGED <<clock, tears>>

(* The write of the new line stops short: nothing, part of it, or all but  *)
(* its "\n" is in the file; a process that dies may have written it all.   *)
SnapshotCut(e, cut, dies) ==
  LET p      == Pruned
      known  == Index(p.index, p.lines)
      record == [key |-> e, at |-> clock]
  IN  /\ BucketOf[e] # NoBucket /\ e \notin known
      /\ cut = "whole" => dies
      /\ lines' = CASE cut = "nothing" -> p.lines
                    [] cut = "partial" -> AppendLine(p.lines, p.terminated, Torn)
                    [] OTHER           -> AppendLine(p.lines, p.terminated, record)
      /\ terminated' = CASE cut = "nothing" -> p.terminated
                         [] cut = "whole"   -> TRUE
                         [] OTHER           -> FALSE
      /\ index' = IF dies THEN Unset ELSE known
      /\ snap' = Unset
      /\ heard' = IF cut \in {"unterminated", "whole"} THEN Received(e) ELSE StillHeard
      /\ tears' = IF cut \in {"partial", "unterminated"} THEN tears + 1 ELSE tears
      /\ tears' <= MaxTears
      /\ UNCHANGED clock

Restart ==
  /\ index' = Unset /\ snap' = Unset
  /\ UNCHANGED <<lines, terminated, clock, heard, tears>>

ClockReads(t) ==
  /\ clock' = t /\ snap' = Unset
  /\ UNCHANGED <<store, heard, tears>>

-----------------------------------------------------------------------------
Cuts == {"nothing", "partial", "unterminated", "whole"}

AggregatorNext ==
  \/ \E e \in Events : SnapshotPasses(e) \/ Snapshot(e)
  \/ \E e \in Events, cut \in Cuts, dies \in BOOLEAN : SnapshotCut(e, cut, dies)
  \/ Restart
  \/ \E t \in 0..MaxClock : ClockReads(t)

AggregatorSpec == AggregatorInit /\ [][AggregatorNext]_aggregatorVars

-----------------------------------------------------------------------------
(* Properties *)

AggregatorTypeOK ==
  /\ lines \in Seq(Records \cup {Torn}) /\ terminated \in BOOLEAN
  /\ lines = <<>> => terminated
  /\ index = Unset \/ index \subseteq Events
  /\ clock \in 0..MaxClock
  /\ heard \subseteq Records
  /\ tears \in 0..MaxTears

(* The occurrences of the bucket received in the window.                   *)
Exact == Cardinality({h \in heard : /\ BucketOf[h.key] = snap.bucket
                                    /\ snap.at - Window <= h.at /\ h.at <= snap.at})

Counts == snap # Unset /\ snap.bucket # NoBucket

(* A threshold is not breached by events that did not happen: replays,     *)
(* restarts, retries of a failed snapshot and steps of the clock never     *)
(* count an event twice or one from outside the window - except after a    *)
(* torn append: the two events it costs may be received anew, and a retry  *)
(* after one cut just before its "\n" finds its own record among those     *)
(* kept and adds it again.                                                 *)
CountsHeard == AggregatorTypeOK /\ (Counts => snap.count <= Exact + 2 * tears)

(* Nor is one missed: an occurrence the clock stayed within a window of    *)
(* counts, across restarts and backward steps, but for the two records     *)
(* each torn append can cost.                                              *)
MissesByTears == Counts => Exact <= snap.count + 2 * tears
=============================================================================
