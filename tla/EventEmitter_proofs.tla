------------------------ MODULE EventEmitter_proofs ------------------------
(***************************************************************************)
(* The emitter, for any set of events, flushers and disruptions, in an     *)
(* application that never overlaps flush with another flush or an emit:    *)
(* no event whose emit returned is lost, a flush sends in order, and what  *)
(* it sent leaves the queue.                                               *)
(*                                                                         *)
(* None of the three is inductive.  Whether a record survives depends on   *)
(* the snapshot of the flush in flight still being the file, on everything *)
(* before the record it sends having reached the server or been refused,   *)
(* and on a rewrite in progress leaving out only such records.             *)
(***************************************************************************)
EXTENDS EventEmitter, FiniteSetTheorems, SequenceTheorems, TLAPS

(* No write of a line is torn here: the file holds whole records, each     *)
(* once, and the index, when it is read, is the file's.                    *)
QueueShape ==
  /\ file \in Seq(Events) /\ IsInjective(file)
  /\ terminated = TRUE /\ synced \in 0..Len(file)
  /\ index = Unset \/ index = Range(file)
  /\ tmp \in Seq(Events) /\ IsInjective(tmp)
  /\ told \subseteq Events /\ secured \subseteq Events
  /\ tears = 0

TasksShape ==
  /\ emitting \subseteq Events
  /\ flush = [f \in Flushers |-> flush[f]]
  /\ online \in BOOLEAN
  /\ emits \in [Events -> 0..2]
  /\ answered \subseteq Events /\ server \subseteq Events
  /\ refused \subseteq Events /\ flushed \subseteq Events
  /\ disruptions \in 0..MaxDisruptions

Gone == server \cup refused

(* The flush in flight is alone, its snapshot is the file, what it passed  *)
(* is gone and what it has still to send was not sent.                     *)
Snapshot(f) ==
  /\ \A g \in Flushing : g = f
  /\ emitting = {} /\ tmp = <<>>
  /\ flush[f] = [records |-> file, at |-> flush[f].at]
  /\ flush[f].at \in 1..Len(file)
  /\ file[flush[f].at] \notin Unparseable
  /\ \A j \in 1..Len(file) : j < flush[f].at => file[j] \in flushed /\ file[j] \in Gone
  /\ disruptions = 0 => \A j \in 1..Len(file) : j >= flush[f].at => file[j] \notin flushed

SnapshotInv == \A f \in Flushing : Snapshot(f)

(* A rewrite leaves out records that are gone, and none it keeps was sent. *)
RewriteInv ==
  tmp # <<>> =>
    /\ Flushing = {} /\ emitting = {}
    /\ \A e \in Range(file) : e \in Range(tmp) \/ e \in Gone
    /\ disruptions = 0 => \A e \in Range(tmp) : e \notin flushed

Settled ==
  Flushing = {} /\ tmp = <<>> /\ disruptions = 0 => \A e \in Range(file) : e \notin flushed

Kept == \A e \in answered : e \in Gone \/ e \in Range(file)

EmitterInv ==
  /\ QueueShape
  /\ TasksShape
  /\ SnapshotInv
  /\ RewriteInv
  /\ Settled
  /\ Kept

-----------------------------------------------------------------------------
(* Numbers and the records of a file *)

LEMMA Least ==
  ASSUME NEW T \in SUBSET Nat, T # {}
  PROVE  \E x \in T : \A y \in T : x <= y
<1> DEFINE R == {ss \in Nat \X Nat : ss[1] < ss[2]}
<1>1. IsWellFoundedOn(R, Nat)
  BY NatLessThanWellFounded DEF OpToRel
<1>2. PICK x \in T : \A y \in T : ~(<<y, x>> \in R)
  <2> HIDE DEF R
  <2>1. QED
    BY <1>1, WFMin
<1>3. \A y \in T : y \in Nat /\ x \in Nat /\ ~(y < x)
  BY <1>2
<1>4. \A y \in T : x <= y
  BY <1>3
<1>5. QED
  BY <1>4

(* A file without a torn line is read as it is.                            *)
LEMMA AllRecords ==
  ASSUME NEW s \in Seq(Events)
  PROVE  Queue!Records(s) = s
<1> DEFINE n == Len(s)
           step(f) == [m \in 0..n |->
                         IF m = 0 THEN <<>>
                         ELSE IF s[m] \in Events THEN Append(f[m - 1], s[m]) ELSE f[m - 1]]
           read == CHOOSE f : f = step(f)
           g == [m \in 0..n |-> SubSeq(s, 1, m)]
<1>1. Queue!Records(s) = read[n]
  BY DEF Queue!Records
<1>2. n \in Nat /\ n \in 0..n
  OBVIOUS
<1>3. \A m \in 0..n : m # 0 =>
        /\ m \in 1..n /\ m - 1 \in 0..n /\ s[m] \in Events
        /\ SubSeq(s, 1, m) = Append(SubSeq(s, 1, m - 1), s[m])
  OBVIOUS
<1>4. g = step(g)
  <2>1. \A m \in 0..n : g[m] = step(g)[m]
    <3> SUFFICES ASSUME NEW m \in 0..n
                 PROVE  g[m] = step(g)[m]
      OBVIOUS
    <3>1. CASE m = 0
      BY <3>1
    <3>2. CASE m # 0
      <4>1. g[m] = SubSeq(s, 1, m) /\ g[m - 1] = SubSeq(s, 1, m - 1)
        BY <1>3, <3>2
      <4> HIDE DEF g
      <4>2. step(g)[m] = Append(g[m - 1], s[m])
        BY <1>3, <3>2
      <4>3. QED
        BY <1>3, <3>2, <4>1, <4>2
    <3>3. QED
      BY <3>1, <3>2
  <2>2. g = [m \in 0..n |-> g[m]] /\ step(g) = [m \in 0..n |-> step(g)[m]]
    OBVIOUS
  <2> HIDE DEF g, step
  <2>3. QED
    BY <2>1, <2>2
<1>5. PICK f : f = step(f) /\ Queue!Records(s) = f[n]
  <2>1. read = step(read)
    <3> HIDE DEF g, step
    <3>1. QED
      BY <1>4
  <2> HIDE DEF step, read
  <2>2. QED
    BY <1>1, <2>1
<1>6. \A m \in 0..n : f[m] = SubSeq(s, 1, m)
  <2> DEFINE T == {m \in 0..n : f[m] # SubSeq(s, 1, m)}
  <2>1. SUFFICES ASSUME T # {}
                 PROVE  FALSE
    OBVIOUS
  <2>2. PICK x \in T : \A y \in T : x <= y
    <3>1. T \in SUBSET Nat
      OBVIOUS
    <3> HIDE DEF T
    <3>2. QED
      BY <2>1, <3>1, Least
  <2>3. x \in 0..n /\ f[x] # SubSeq(s, 1, x)
    OBVIOUS
  <2>4. CASE x = 0
    BY <1>5, <2>3, <2>4
  <2>5. CASE x # 0
    <3>1. x - 1 \in 0..n /\ ~(x <= x - 1)
      BY <2>3, <2>5
    <3>2. f[x - 1] = SubSeq(s, 1, x - 1)
      BY <2>2, <3>1
    <3>3. f[x] = Append(f[x - 1], s[x])
      BY <1>3, <1>5, <2>3, <2>5
    <3>4. QED
      BY <1>3, <2>3, <2>5, <3>2, <3>3
  <2>6. QED
    BY <2>4, <2>5
<1>7. SubSeq(s, 1, n) = s
  OBVIOUS
<1>8. QED
  BY <1>2, <1>5, <1>6, <1>7

(* What the queue holds and what its index says are the lines of the file. *)
LEMMA QueueFacts ==
  ASSUME QueueShape
  PROVE  /\ Queue!DiskRecords = file /\ Queue!DiskKeys = Range(file)
         /\ Queue!KeysIndex = Range(file)
         /\ \A e \in Range(file) : e \in Events /\ \E j \in 1..Len(file) : file[j] = e
         /\ \A j \in 1..Len(file) : file[j] \in Range(file)
<1>1. Queue!DiskRecords = file
  BY AllRecords DEF QueueShape, Queue!DiskRecords
<1>2. \A e \in Range(file) : e \in Events /\ \E j \in 1..Len(file) : file[j] = e
  BY DEF QueueShape, Range
<1>3. Queue!DiskKeys = Range(file)
  <2>1. Queue!DiskKeys = Range(file) \cap Events
    BY DEF Queue!DiskKeys, Queue!Range, Range
  <2>2. QED
    BY <1>2, <2>1
<1>4. Queue!KeysIndex = Range(file)
  BY <1>3 DEF QueueShape, Queue!KeysIndex
<1>5. QED
  BY <1>1, <1>2, <1>3, <1>4 DEF QueueShape, Range

-----------------------------------------------------------------------------
(* The queue's operations, without torn writes *)

LEMMA Appended ==
  ASSUME QueueShape, NEW e \in Events,
         Queue!Enqueue(e) \/ Queue!CrashInEnqueue(e, "whole")
  PROVE  /\ QueueShape' /\ tmp = <<>> /\ tmp' = <<>>
         /\ Range(file') = Range(file) \cup {e}
<1>1. /\ tmp = <<>> /\ tmp' = tmp /\ e \notin Queue!KeysIndex /\ Queue!WriteCut(e, "whole")
      /\ index' = Queue!KeysIndex \cup {e} \/ index' = Unset
      /\ told' = told \cup {e} \/ told' = told
      /\ secured' = secured
  BY DEF Queue!Enqueue, Queue!CrashInEnqueue, Queue!Idle
<1>2. /\ file' = Append(file, e) /\ terminated' = TRUE /\ synced' = synced /\ tears' = tears
  BY <1>1 DEF Queue!WriteCut, Queue!AppendLine, Queue!LeftOf, Queue!TornCuts, QueueShape
<1>3. /\ file' \in Seq(Events) /\ Len(file') = Len(file) + 1 /\ Len(file) \in Nat
      /\ file'[Len(file) + 1] = e /\ \A j \in 1..Len(file) : file'[j] = file[j]
      /\ DOMAIN file = 1..Len(file) /\ DOMAIN file' = 1..(Len(file) + 1)
  BY <1>2 DEF QueueShape
<1>4. \A j \in 1..(Len(file) + 1) : j \in 1..Len(file) \/ j = Len(file) + 1
  BY <1>3
<1>5. \A j \in 1..Len(file) : j \in 1..(Len(file) + 1) /\ j # Len(file) + 1
  BY <1>3
<1>6. Len(file) + 1 \in 1..(Len(file) + 1)
  BY <1>3
<1>7. Range(file') = Range(file) \cup {e}
  BY <1>3, <1>4, <1>5, <1>6 DEF Range
<1>8. e \notin Range(file) /\ Queue!KeysIndex = Range(file)
  BY <1>1, QueueFacts
<1>9. IsInjective(file')
  <2> SUFFICES ASSUME NEW a \in 1..(Len(file) + 1), NEW b \in 1..(Len(file) + 1),
                      file'[a] = file'[b]
               PROVE  a = b
    BY <1>3 DEF IsInjective
  <2>1. \A j \in 1..Len(file) : file[j] # e
    BY <1>3, <1>8 DEF Range
  <2>2. CASE a \in 1..Len(file) /\ b \in 1..Len(file)
    BY <1>3, <2>2 DEF QueueShape, IsInjective
  <2>3. QED
    BY <1>3, <1>4, <2>1, <2>2
<1>10. synced' \in 0..Len(file')
  BY <1>2, <1>3 DEF QueueShape
<1>11. QED
  BY <1>1, <1>2, <1>3, <1>7, <1>8, <1>9, <1>10 DEF QueueShape

LEMMA Unappended ==
  ASSUME QueueShape, NEW e \in Events, Queue!EnqueueDuplicate(e)
  PROVE  QueueShape' /\ tmp = <<>> /\ tmp' = <<>> /\ file' = file /\ e \in Range(file)
<1>1. /\ tmp = <<>> /\ tmp' = tmp /\ e \in Queue!KeysIndex /\ index' = Queue!KeysIndex
      /\ told' = told \cup {e} /\ UNCHANGED <<file, terminated, synced, secured, tears>>
  BY DEF Queue!EnqueueDuplicate, Queue!Idle, Queue!disk
<1>2. Queue!KeysIndex = Range(file)
  BY QueueFacts
<1>3. QED
  BY <1>1, <1>2 DEF QueueShape

LEMMA Cleared ==
  ASSUME QueueShape, Queue!Unlink
  PROVE  QueueShape' /\ tmp = <<>> /\ tmp' = <<>> /\ file' = <<>> /\ Range(file') = {}
<1>1. /\ tmp = <<>> /\ tmp' = tmp /\ file' = <<>> /\ terminated' = TRUE /\ synced' = 0
      /\ index' = {} /\ told' = {} /\ secured' = {} /\ tears' = tears
  BY DEF Queue!Unlink, Queue!Idle
<1>2. Range(<<>>) = {} /\ IsInjective(<<>>) /\ <<>> \in Seq(Events) /\ Len(<<>>) = 0
  BY DEF Range, IsInjective
<1>3. QED
  BY <1>1, <1>2 DEF QueueShape

LEMMA RewriteWritten ==
  ASSUME QueueShape, NEW recs \in Seq(Events), Queue!ReplaceWrite(recs)
  PROVE  QueueShape' /\ tmp = <<>> /\ tmp' = recs /\ tmp' # <<>> /\ file' = file
<1>1. /\ tmp = <<>> /\ tmp' = recs /\ recs # <<>> /\ IsInjective(recs)
      /\ UNCHANGED <<file, terminated, synced, index, told, secured, tears>>
  BY DEF Queue!ReplaceWrite, Queue!Idle, Queue!disk, Queue!history,
         Queue!IsInjective, IsInjective
<1>2. QED
  BY <1>1 DEF QueueShape

LEMMA Renamed ==
  ASSUME QueueShape, Queue!Rename
  PROVE  QueueShape' /\ tmp # <<>> /\ tmp' = <<>> /\ file' = tmp
<1>1. /\ tmp # <<>> /\ tmp' = <<>> /\ file' = tmp /\ terminated' = TRUE /\ synced' = Len(tmp)
      /\ index' = Range(tmp) /\ told' = Range(tmp) /\ secured' = Range(tmp) /\ tears' = tears
  BY DEF Queue!Rename, Queue!Idle, Queue!Range, Range
<1>2. Range(tmp) \subseteq Events /\ Len(tmp) \in 0..Len(tmp)
  BY DEF QueueShape, Range
<1>3. <<>> \in Seq(Events) /\ IsInjective(<<>>)
  BY DEF IsInjective
<1>4. QED
  BY <1>1, <1>2, <1>3 DEF QueueShape

LEMMA Restarted ==
  ASSUME QueueShape, Queue!Crash
  PROVE  QueueShape' /\ tmp' = <<>> /\ file' = file
<1>1. /\ index' = Unset /\ tmp' = <<>>
      /\ UNCHANGED <<file, terminated, synced, told, secured, tears>>
  BY DEF Queue!Crash, Queue!disk, Queue!history
<1>2. <<>> \in Seq(Events) /\ IsInjective(<<>>)
  BY DEF IsInjective
<1>3. QED
  BY <1>1, <1>2 DEF QueueShape

-----------------------------------------------------------------------------
(* The next record a flush sends: all from i up to it are not parseable.   *)
LEMMA NextParseableFacts ==
  ASSUME NEW records \in Seq(Events), NEW i \in 1..(Len(records) + 1)
  PROVE  /\ NextParseable(records, i) \in i..(Len(records) + 1)
         /\ NextParseable(records, i) <= Len(records) =>
              records[NextParseable(records, i)] \notin Unparseable
<1> DEFINE ok == {j \in i..Len(records) : records[j] \notin Unparseable}
           j == NextParseable(records, i)
<1>1. Len(records) \in Nat /\ i \in Nat
  OBVIOUS
<1>2. CASE ok = {}
  <2>1. j = Len(records) + 1
    BY <1>2 DEF NextParseable
  <2>2. QED
    BY <1>1, <2>1
<1>3. CASE ok # {}
  <2>1. \E x \in ok : \A m \in ok : x <= m
    <3>1. ok \in SUBSET Nat
      BY <1>1
    <3> HIDE DEF ok
    <3>2. QED
      BY <1>3, <3>1, Least
  <2>2. j = CHOOSE x \in ok : \A m \in ok : x <= m
    BY <1>3 DEF NextParseable
  <2>3. j \in ok
    <3> HIDE DEF ok, j
    <3>1. QED
      BY <2>1, <2>2
  <2>4. QED
    BY <1>1, <2>3
<1>4. QED
  BY <1>2, <1>3

-----------------------------------------------------------------------------
(* Steps of emit *)

LEMMA ShapeInit == EmitterInit => EmitterInv
<1> SUFFICES ASSUME EmitterInit
             PROVE  EmitterInv
  OBVIOUS
<1>1. /\ file = <<>> /\ terminated = TRUE /\ synced = 0 /\ index = Unset /\ tmp = <<>>
      /\ told = {} /\ secured = {} /\ tears = 0
  BY DEF EmitterInit, Queue!Init
<1>2. <<>> \in Seq(Events) /\ IsInjective(<<>>) /\ Range(<<>>) = {} /\ Len(<<>>) = 0
  BY DEF IsInjective, Range
<1>3. QueueShape
  BY <1>1, <1>2 DEF QueueShape
<1>4. TasksShape
  BY EmitterConstants DEF EmitterInit, TasksShape
<1>5. Flushing = {}
  BY DEF EmitterInit, Flushing
<1>6. SnapshotInv /\ RewriteInv /\ Settled /\ Kept
  BY <1>1, <1>2, <1>5 DEF EmitterInit, SnapshotInv, RewriteInv, Settled, Kept
<1>7. QED
  BY <1>3, <1>4, <1>6 DEF EmitterInv

(* While an emit waits there is no flush in flight.                        *)
LEMMA AloneAtEmit ==
  ASSUME EmitterInv, emitting # {}
  PROVE  Flushing = {}
BY DEF EmitterInv, SnapshotInv, Snapshot

LEMMA EmitStartKeeps ==
  ASSUME Exclusive, EmitterInv, NEW e \in Events, EmitStart(e)
  PROVE  EmitterInv'
<1>1. /\ tmp = <<>> /\ Flushing = {}
      /\ emits[e] < IF e \in Reemitted THEN 2 ELSE 1
      /\ emitting' = emitting \cup {e} /\ emits' = [emits EXCEPT ![e] = @ + 1]
      /\ UNCHANGED <<file, terminated, index, tmp, synced, told, secured, tears>>
      /\ UNCHANGED <<flush, online, answered, server, refused, flushed, disruptions>>
  BY DEF EmitStart, Queue!Idle, queue
<1>2. QueueShape'
  BY <1>1 DEF EmitterInv, QueueShape
<1>3. TasksShape'
  <2>1. emits' \in [Events -> 0..2]
    <3>1. emits \in [Events -> 0..2] /\ emits[e] + 1 \in 0..2
      BY <1>1 DEF EmitterInv, TasksShape
    <3>2. QED
      BY <1>1, <3>1
  <2>2. QED
    BY <1>1, <2>1 DEF EmitterInv, TasksShape
<1>4. Flushing' = {}
  BY <1>1 DEF Flushing
<1>5. SnapshotInv' /\ RewriteInv' /\ Settled' /\ Kept'
  BY <1>1, <1>4 DEF EmitterInv, SnapshotInv, RewriteInv, Settled, Kept, Gone
<1>6. QED
  BY <1>2, <1>3, <1>5 DEF EmitterInv

(* An emit that ends has the event at the server, refused or in the file.  *)
LEMMA EmitEndKeeps ==
  ASSUME EmitterInv, NEW e \in Events, NEW outcome, EmitEnd(e, outcome)
  PROVE  EmitterInv'
<1>1. /\ tmp = <<>> /\ e \in emitting /\ outcome \in Outcomes
      /\ server' = IF outcome \in {"acked", "unacked"} THEN server \cup {e} ELSE server
      /\ emitting' = emitting \ {e}
      /\ IF IsOffline(outcome) THEN Buffer(e) ELSE UNCHANGED <<queue, flushed>>
      /\ refused'  = IF outcome = "refused" THEN refused \cup {e} ELSE refused
      /\ answered' = IF outcome = "refused" THEN answered ELSE answered \cup {e}
      /\ flush' = flush /\ online' = online /\ emits' = emits /\ disruptions' = disruptions
  BY DEF EmitEnd, Send, Queue!Idle
<1>2. Flushing = {} /\ Flushing' = {}
  BY <1>1, AloneAtEmit DEF Flushing
<1>3. QueueShape
  BY DEF EmitterInv
<1>4. /\ QueueShape' /\ tmp' = <<>>
      /\ \/ Range(file') = Range(file) \cup {e} /\ flushed' = flushed \ {e}
         \/ Range(file') = Range(file) /\ flushed' = flushed
      /\ e \in Range(file') \/ ~IsOffline(outcome)
  <2>1. CASE IsOffline(outcome)
    <3>1. CASE Queue!Enqueue(e) /\ flushed' = flushed \ {e}
      BY <1>3, <3>1, Appended
    <3>2. CASE Queue!EnqueueDuplicate(e) /\ UNCHANGED flushed
      <4>1. QueueShape' /\ tmp' = <<>> /\ file' = file /\ e \in Range(file)
        BY <1>3, <3>2, Unappended
      <4>2. QED
        BY <3>2, <4>1
    <3>3. QED
      BY <1>1, <2>1, <3>1, <3>2 DEF Buffer
  <2>2. CASE ~IsOffline(outcome)
    BY <1>1, <1>3, <2>2 DEF queue, QueueShape
  <2>3. QED
    BY <2>1, <2>2
<1>5. TasksShape'
  <2>1. flushed' \subseteq Events
    BY <1>4 DEF EmitterInv, TasksShape
  <2>2. QED
    BY <1>1, <2>1 DEF EmitterInv, TasksShape
<1>6. Kept'
  <2> SUFFICES ASSUME NEW x \in answered'
               PROVE  x \in Gone' \/ x \in Range(file')
    BY DEF Kept
  <2>1. CASE x \in answered
    <3>1. x \in Gone \/ x \in Range(file)
      BY <2>1 DEF EmitterInv, Kept
    <3>2. QED
      BY <1>1, <1>4, <3>1 DEF Gone
  <2>2. CASE x \notin answered
    <3>1. x = e /\ outcome # "refused"
      BY <1>1, <2>2
    <3>2. CASE outcome = "acked"
      BY <1>1, <3>1, <3>2 DEF Gone
    <3>3. CASE IsOffline(outcome)
      BY <1>4, <3>1, <3>3
    <3>4. QED
      BY <1>1, <3>1, <3>2, <3>3 DEF Outcomes, IsOffline
  <2>3. QED
    BY <2>1, <2>2
<1>7. Settled'
  <2>1. disruptions = 0 => \A x \in Range(file) : x \notin flushed
    BY <1>1, <1>2 DEF EmitterInv, Settled
  <2>2. QED
    BY <1>1, <1>4, <2>1 DEF Settled
<1>8. SnapshotInv' /\ RewriteInv'
  BY <1>2, <1>4 DEF SnapshotInv, RewriteInv
<1>9. QED
  BY <1>4, <1>5, <1>6, <1>7, <1>8 DEF EmitterInv

-----------------------------------------------------------------------------
(* Steps of flush *)

(* A flush that has passed the first i - 1 records of the file goes on to  *)
(* the next it can send, or leaves the queue empty.                        *)
LEMMA ProceedKeeps ==
  ASSUME EmitterInv, NEW f \in Flushers, NEW i \in 1..(Len(file) + 1), Proceed(f, file, i),
         \A g \in Flushing : g = f, emitting = {}, emitting' = {}, tmp = <<>>,
         \A j \in 1..Len(file) : j < i => file[j] \in flushed' /\ file[j] \in Gone',
         Skipped(file, i) \subseteq flushed', Skipped(file, i) \subseteq Gone',
         Gone \subseteq Gone', disruptions' = disruptions, answered' = answered,
         disruptions = 0 =>
           \A j \in 1..Len(file) : j >= i /\ file[j] \notin Skipped(file, i) => file[j] \notin flushed'
  PROVE  /\ QueueShape' /\ SnapshotInv' /\ RewriteInv' /\ Settled' /\ Kept'
         /\ flush' = [g \in Flushers |-> flush'[g]]
<1> DEFINE j0 == NextParseable(file, i)
<1>1. QueueShape /\ file \in Seq(Events) /\ Len(file) \in Nat /\ IsInjective(file)
      /\ flush = [g \in Flushers |-> flush[g]]
  BY DEF EmitterInv, QueueShape, TasksShape
<1>2. /\ j0 \in i..(Len(file) + 1)
      /\ j0 <= Len(file) => file[j0] \notin Unparseable
  BY <1>1, NextParseableFacts
<1>3. Skipped(file, i) = {file[j] : j \in i..(j0 - 1)}
  BY DEF Skipped
<1>4. /\ IF j0 <= Len(file)
           THEN /\ flush' = [flush EXCEPT ![f] = [records |-> file, at |-> j0]]
                /\ UNCHANGED queue
           ELSE Finish(f, <<>>)
  BY DEF Proceed
<1>5. j0 \in Nat /\ i \in Nat /\ i >= 1
  BY <1>1, <1>2
<1> HIDE DEF j0
<1>6. \A j \in 1..Len(file) : j < j0 => file[j] \in flushed' /\ file[j] \in Gone'
  <2> SUFFICES ASSUME NEW j \in 1..Len(file), j < j0
               PROVE  file[j] \in flushed' /\ file[j] \in Gone'
    OBVIOUS
  <2>1. CASE j < i
    BY <2>1
  <2>2. CASE ~(j < i)
    <3>1. j \in i..(j0 - 1)
      BY <1>1, <1>5, <2>2
    <3>2. QED
      BY <1>3, <3>1
  <2>3. QED
    BY <2>1, <2>2
<1>7. CASE j0 <= Len(file)
  <2>1. /\ flush' = [flush EXCEPT ![f] = [records |-> file, at |-> j0]]
        /\ UNCHANGED <<file, terminated, index, tmp, synced, told, secured, tears>>
    BY <1>4, <1>7 DEF queue
  <2>2. flush'[f] = [records |-> file', at |-> j0]
    BY <1>1, <2>1
  <2>3. \A g \in Flushing' : g = f
    BY <1>1, <2>1 DEF Flushing
  <2>4. f \in Flushing'
    <3>1. flush'[f].at = j0 /\ NoFlush.at = 0 /\ j0 # 0
      BY <1>2, <1>5, <2>2 DEF NoFlush
    <3>2. QED
      BY <3>1 DEF Flushing
  <2>5. j0 \in 1..Len(file)
    BY <1>1, <1>2, <1>5, <1>7
  <2>6. disruptions = 0 => \A j \in 1..Len(file) : j >= j0 => file[j] \notin flushed'
    <3> SUFFICES ASSUME disruptions = 0, NEW j \in 1..Len(file), j >= j0
                 PROVE  file[j] \notin flushed'
      OBVIOUS
    <3>1. j >= i
      BY <1>1, <1>2, <1>5
    <3>2. file[j] \notin Skipped(file, i)
      <4> SUFFICES ASSUME NEW l \in i..(j0 - 1), file[l] = file[j]
                   PROVE  FALSE
        BY <1>3
      <4>1. l \in 1..Len(file) /\ l # j
        BY <1>1, <1>5, <1>7
      <4>2. QED
        BY <1>1, <4>1 DEF IsInjective
    <3>3. QED
      BY <3>1, <3>2
  <2>7. Snapshot(f)'
    <3>1. flush'[f].at = j0
      BY <2>2
    <3>2. flush'[f] = [records |-> file', at |-> flush'[f].at]
      BY <2>2, <3>1
    <3>3. QED
      BY <1>2, <1>6, <1>7, <2>1, <2>3, <2>5, <2>6, <3>1, <3>2 DEF Snapshot, Gone
  <2>8. SnapshotInv'
    BY <2>3, <2>7 DEF SnapshotInv
  <2>9. RewriteInv' /\ Settled'
    BY <2>1, <2>4 DEF RewriteInv, Settled
  <2>10. Kept'
    BY <2>1 DEF EmitterInv, Kept
  <2>11. QueueShape'
    BY <1>1, <2>1 DEF QueueShape
  <2>12. QED
    BY <1>1, <2>1, <2>8, <2>9, <2>10, <2>11
<1>8. CASE ~(j0 <= Len(file))
  <2>1. Queue!Unlink /\ flush' = [flush EXCEPT ![f] = NoFlush]
    BY <1>4, <1>8 DEF Finish
  <2>2. QueueShape' /\ tmp' = <<>> /\ Range(file') = {}
    BY <1>1, <2>1, Cleared
  <2>3. Flushing' = {}
    BY <1>1, <2>1 DEF Flushing
  <2>4. \A x \in Range(file) : x \in Gone'
    <3> SUFFICES ASSUME NEW x \in Range(file)
                 PROVE  x \in Gone'
      OBVIOUS
    <3>1. PICK j \in 1..Len(file) : file[j] = x
      BY <1>1, QueueFacts
    <3>2. j < j0
      BY <1>1, <1>5, <1>8
    <3>3. QED
      BY <1>6, <3>1, <3>2
  <2>5. Kept'
    BY <2>4 DEF EmitterInv, Kept
  <2>6. SnapshotInv' /\ RewriteInv' /\ Settled'
    BY <2>2, <2>3 DEF SnapshotInv, RewriteInv, Settled
  <2>7. QED
    BY <1>1, <2>1, <2>2, <2>5, <2>6
<1>9. QED
  BY <1>7, <1>8

(* What one step of a flush adds to the flushed: the next record in the    *)
(* file and no gap before it.                                              *)
OrderKept ==
  LET q == Queue!DiskRecords IN
  \A i, j \in 1..Len(q) : i < j /\ q[j] \in flushed' \ flushed => q[i] \in flushed'

LEMMA SkippedFacts ==
  ASSUME NEW s \in Seq(Events), NEW i \in 1..(Len(s) + 1)
  PROVE  /\ Skipped(s, i) \subseteq Events
         /\ \A x \in Skipped(s, i) : \E j \in 1..Len(s) : j >= i /\ s[j] = x
         /\ \A j \in 1..Len(s), l \in 1..Len(s) :
              i <= l /\ l < j /\ IsInjective(s) /\ s[j] \in Skipped(s, i) => s[l] \in Skipped(s, i)
<1> DEFINE j0 == NextParseable(s, i)
<1>1. Len(s) \in Nat /\ i \in Nat /\ i >= 1 /\ \A j \in 1..Len(s) : s[j] \in Events
  OBVIOUS
<1>2. j0 \in i..(Len(s) + 1)
  BY NextParseableFacts
<1>3. Skipped(s, i) = {s[j] : j \in i..(j0 - 1)}
  BY DEF Skipped
<1>4. j0 \in Nat
  BY <1>1, <1>2
<1> HIDE DEF j0
<1>5. \A j \in i..(j0 - 1) : j \in 1..Len(s) /\ j >= i /\ j < j0
  BY <1>1, <1>2, <1>4
<1>6. \A x \in Skipped(s, i) : \E j \in 1..Len(s) : j >= i /\ j < j0 /\ s[j] = x
  BY <1>3, <1>5
<1>7. ASSUME NEW j \in 1..Len(s), NEW l \in 1..Len(s),
             i <= l, l < j, IsInjective(s), s[j] \in Skipped(s, i)
      PROVE  s[l] \in Skipped(s, i)
  <2>1. PICK m \in 1..Len(s) : m >= i /\ m < j0 /\ s[m] = s[j]
    BY <1>6, <1>7
  <2>2. m = j
    BY <1>7, <2>1 DEF IsInjective
  <2>3. l \in i..(j0 - 1)
    BY <1>1, <1>4, <1>7, <2>1, <2>2
  <2>4. QED
    BY <1>3, <2>3
<1>8. QED
  BY <1>1, <1>6, <1>7

LEMMA FlushStartKeeps ==
  ASSUME Exclusive, EmitterInv, NEW f \in Flushers, FlushStart(f)
  PROVE  EmitterInv' /\ OrderKept
<1>1. QueueShape /\ TasksShape /\ file \in Seq(Events) /\ Len(file) \in Nat /\ IsInjective(file)
  BY DEF EmitterInv, QueueShape
<1>2. /\ tmp = <<>> /\ emitting = {} /\ Flushing = {}
      /\ Proceed(f, file, 1)
      /\ refused' = refused \cup Skipped(file, 1)
      /\ flushed' = flushed \cup Skipped(file, 1)
      /\ UNCHANGED <<emitting, online, emits, answered, server, disruptions>>
  BY <1>1, QueueFacts DEF FlushStart, Queue!Idle
<1>3. 1 \in 1..(Len(file) + 1)
  BY <1>1
<1>4. /\ Skipped(file, 1) \subseteq Events
      /\ \A j \in 1..Len(file), l \in 1..Len(file) :
           1 <= l /\ l < j /\ IsInjective(file) /\ file[j] \in Skipped(file, 1)
             => file[l] \in Skipped(file, 1)
  BY <1>1, <1>3, SkippedFacts
<1>5. disruptions = 0 => \A j \in 1..Len(file) : file[j] \notin flushed
  BY <1>1, <1>2, QueueFacts DEF EmitterInv, Settled
<1>6. /\ QueueShape' /\ SnapshotInv' /\ RewriteInv' /\ Settled' /\ Kept'
      /\ flush' = [g \in Flushers |-> flush'[g]]
  <2>1. \A j \in 1..Len(file) : j < 1 => FALSE
    BY <1>1
  <2>2. /\ Skipped(file, 1) \subseteq flushed' /\ Skipped(file, 1) \subseteq Gone'
        /\ Gone \subseteq Gone' /\ emitting' = {}
    BY <1>2 DEF Gone
  <2>3. disruptions = 0 =>
          \A j \in 1..Len(file) :
            j >= 1 /\ file[j] \notin Skipped(file, 1) => file[j] \notin flushed'
    BY <1>2, <1>5
  <2>4. \A g \in Flushing : g = f
    BY <1>2
  <2>5. QED
    BY <1>2, <1>3, <2>1, <2>2, <2>3, <2>4, ProceedKeeps
<1>7. TasksShape'
  BY <1>1, <1>2, <1>4, <1>6 DEF TasksShape
<1>8. OrderKept
  <2> SUFFICES ASSUME NEW i \in 1..Len(file), NEW j \in 1..Len(file), i < j,
                      file[j] \in flushed' \ flushed
               PROVE  file[i] \in flushed'
    BY <1>1, QueueFacts DEF OrderKept
  <2>1. file[j] \in Skipped(file, 1) /\ 1 <= i
    BY <1>2
  <2>2. QED
    BY <1>1, <1>2, <1>4, <2>1
<1>9. QED
  BY <1>6, <1>7, <1>8 DEF EmitterInv

LEMMA FlushEndKeeps ==
  ASSUME EmitterInv, NEW f \in Flushers, NEW outcome, FlushEnd(f, outcome)
  PROVE  EmitterInv' /\ OrderKept
<1>1. QueueShape /\ TasksShape /\ file \in Seq(Events) /\ Len(file) \in Nat /\ IsInjective(file)
  BY DEF EmitterInv, QueueShape
<1>2. PICK i \in 1..Len(file) : flush[f] = [records |-> file, at |-> i] /\ Snapshot(f)
  BY DEF FlushEnd, Flushing, EmitterInv, SnapshotInv, Snapshot
<1>3. flush[f].records = file /\ flush[f].at = i
  BY <1>2
<1>4. /\ \A g \in Flushing : g = f
      /\ emitting = {} /\ tmp = <<>>
      /\ \A j \in 1..Len(file) : j < i => file[j] \in flushed /\ file[j] \in Gone
      /\ disruptions = 0 => \A j \in 1..Len(file) : j >= i => file[j] \notin flushed
  BY <1>2, <1>3 DEF Snapshot
<1>5. /\ Send(file[i], outcome)
      /\ FlushSent(f, outcome) \/ FlushOffline(f, outcome)
      /\ UNCHANGED <<emitting, online, emits, answered, disruptions>>
  BY <1>3 DEF FlushEnd
<1>6. /\ outcome \in Outcomes /\ file[i] \in Events
      /\ server' = IF outcome \in {"acked", "unacked"} THEN server \cup {file[i]} ELSE server
  BY <1>1, <1>5 DEF Send
<1>7. i + 1 \in 1..(Len(file) + 1) /\ i \in Nat /\ i >= 1
  BY <1>1
<1>8. CASE FlushSent(f, outcome)
  <2> DEFINE gone == {file[i]} \cup Skipped(file, i + 1)
  <2>1. /\ ~IsOffline(outcome)
        /\ Proceed(f, file, i + 1)
        /\ refused' = refused \cup (IF outcome = "refused" THEN gone ELSE gone \ {file[i]})
        /\ flushed' = flushed \cup gone
    BY <1>3, <1>8 DEF FlushSent
  <2>2. outcome = "acked" \/ outcome = "refused"
    BY <1>6, <2>1 DEF Outcomes, IsOffline
  <2>3. gone \subseteq flushed' /\ gone \subseteq Gone' /\ Gone \subseteq Gone'
    BY <1>6, <2>1, <2>2 DEF Gone
  <2>4. /\ Skipped(file, i + 1) \subseteq Events
        /\ \A j \in 1..Len(file), l \in 1..Len(file) :
             i + 1 <= l /\ l < j /\ IsInjective(file) /\ file[j] \in Skipped(file, i + 1)
               => file[l] \in Skipped(file, i + 1)
        /\ \A x \in Skipped(file, i + 1) : \E j \in 1..Len(file) : j >= i + 1 /\ file[j] = x
    BY <1>1, <1>7, SkippedFacts
  <2>5. \A j \in 1..Len(file) : j < i + 1 => file[j] \in flushed' /\ file[j] \in Gone'
    <3> SUFFICES ASSUME NEW j \in 1..Len(file), j < i + 1
                 PROVE  file[j] \in flushed' /\ file[j] \in Gone'
      OBVIOUS
    <3>1. j < i \/ j = i
      BY <1>7
    <3>2. CASE j < i
      BY <1>4, <2>1, <2>3, <3>2
    <3>3. CASE j = i
      BY <2>3, <3>3
    <3>4. QED
      BY <3>1, <3>2, <3>3
  <2>6. disruptions = 0 =>
          \A j \in 1..Len(file) :
            j >= i + 1 /\ file[j] \notin Skipped(file, i + 1) => file[j] \notin flushed'
    <3> SUFFICES ASSUME disruptions = 0, NEW j \in 1..Len(file), j >= i + 1,
                        file[j] \notin Skipped(file, i + 1)
                 PROVE  file[j] \notin flushed'
      OBVIOUS
    <3>1. j >= i /\ j # i
      BY <1>7
    <3>2. file[j] \notin flushed
      BY <1>4, <3>1
    <3>3. file[j] # file[i]
      BY <1>1, <3>1 DEF IsInjective
    <3>4. QED
      BY <2>1, <3>2, <3>3
  <2>7. Skipped(file, i + 1) \subseteq flushed' /\ Skipped(file, i + 1) \subseteq Gone' /\ emitting' = {}
    BY <1>4, <1>5, <2>3
  <2>8. /\ QueueShape' /\ SnapshotInv' /\ RewriteInv' /\ Settled' /\ Kept'
        /\ flush' = [g \in Flushers |-> flush'[g]]
    <3> HIDE DEF gone
    <3>1. QED
      BY <1>4, <1>5, <1>7, <2>1, <2>3, <2>5, <2>6, <2>7, ProceedKeeps
  <2>9. TasksShape'
    BY <1>1, <1>5, <1>6, <2>1, <2>4, <2>8 DEF TasksShape
  <2>10. OrderKept
    <3> SUFFICES ASSUME NEW k \in 1..Len(file), NEW j \in 1..Len(file), k < j,
                        file[j] \in flushed' \ flushed
                 PROVE  file[k] \in flushed'
      BY <1>1, QueueFacts DEF OrderKept
    <3>1. CASE k < i + 1
      BY <2>5, <3>1
    <3>2. CASE ~(k < i + 1)
      <4>1. i + 1 <= k /\ j # i
        BY <1>7, <3>2
      <4>2. file[j] \in Skipped(file, i + 1)
        <5>1. file[j] # file[i]
          BY <1>1, <4>1 DEF IsInjective
        <5>2. QED
          BY <2>1, <5>1
      <4>3. QED
        BY <1>1, <2>4, <2>7, <4>1, <4>2
    <3>3. QED
      BY <3>1, <3>2
  <2>11. QED
    BY <2>8, <2>9, <2>10 DEF EmitterInv
<1>9. CASE FlushOffline(f, outcome)
  <2> DEFINE rest == SubSeq(file, i, Len(file))
  <2>1. /\ Finish(f, rest) /\ refused' = refused /\ flushed' = flushed
    BY <1>3, <1>9 DEF FlushOffline, Survivors
  <2>2. /\ rest \in Seq(Events) /\ Len(rest) = Len(file) - i + 1
        /\ \A m \in 1..(Len(file) - i + 1) : rest[m] = file[i + m - 1]
    BY <1>1, <1>7
  <2> HIDE DEF rest
  <2>3. rest # <<>>
    <3>1. Len(rest) # 0 /\ Len(<<>>) = 0
      BY <1>1, <1>7, <2>2
    <3>2. QED
      BY <3>1
  <2>4. \A x \in Range(rest) : \E j \in 1..Len(file) : j >= i /\ file[j] = x
    <3> SUFFICES ASSUME NEW x \in Range(rest)
                 PROVE  \E j \in 1..Len(file) : j >= i /\ file[j] = x
      OBVIOUS
    <3>1. PICK m \in 1..(Len(file) - i + 1) : rest[m] = x
      <4>1. DOMAIN rest = 1..(Len(file) - i + 1)
        BY <2>2
      <4>2. QED
        BY <4>1 DEF Range
    <3>2. i + m - 1 \in 1..Len(file) /\ i + m - 1 >= i
      BY <1>1, <1>7
    <3>3. QED
      BY <2>2, <3>1, <3>2
  <2>5. \A j \in 1..Len(file) : j >= i => file[j] \in Range(rest)
    <3> SUFFICES ASSUME NEW j \in 1..Len(file), j >= i
                 PROVE  file[j] \in Range(rest)
      OBVIOUS
    <3>1. j - i + 1 \in 1..(Len(file) - i + 1) /\ i + (j - i + 1) - 1 = j
      BY <1>1, <1>7
    <3>2. rest[j - i + 1] = file[j] /\ j - i + 1 \in DOMAIN rest
      <4>1. DOMAIN rest = 1..(Len(file) - i + 1)
        BY <2>2
      <4>2. QED
        BY <2>2, <3>1, <4>1
    <3>3. QED
      BY <3>2 DEF Range
  <2>6. Queue!ReplaceWrite(rest) /\ flush' = [flush EXCEPT ![f] = NoFlush]
    BY <2>1, <2>3 DEF Finish
  <2>7. QueueShape' /\ tmp' = rest /\ tmp' # <<>> /\ file' = file
    BY <1>1, <2>2, <2>6, RewriteWritten
  <2>8. Flushing' = {}
    BY <1>1, <1>4, <2>6 DEF Flushing, TasksShape
  <2>9. Gone \subseteq Gone'
    BY <1>6, <2>1 DEF Gone
  <2>10. RewriteInv'
    <3>1. \A x \in Range(file) : x \in Range(rest) \/ x \in Gone
      <4> SUFFICES ASSUME NEW x \in Range(file)
                   PROVE  x \in Range(rest) \/ x \in Gone
        OBVIOUS
      <4>1. PICK j \in 1..Len(file) : file[j] = x
        BY <1>1, QueueFacts
      <4>2. j < i \/ j >= i
        BY <1>7
      <4>3. QED
        BY <1>4, <2>5, <4>1, <4>2
    <3>2. disruptions = 0 => \A x \in Range(rest) : x \notin flushed
      BY <1>4, <2>4
    <3>3. QED
      BY <1>4, <1>5, <2>1, <2>7, <2>8, <2>9, <3>1, <3>2 DEF RewriteInv
  <2>11. Kept'
    BY <1>5, <2>7, <2>9 DEF EmitterInv, Kept
  <2>12. SnapshotInv' /\ Settled'
    BY <2>7, <2>8 DEF SnapshotInv, Settled
  <2>13. TasksShape'
    BY <1>1, <1>5, <1>6, <2>1, <2>6 DEF TasksShape
  <2>14. OrderKept
    BY <2>1 DEF OrderKept
  <2>15. QED
    BY <2>7, <2>10, <2>11, <2>12, <2>13, <2>14 DEF EmitterInv
<1>10. QED
  BY <1>5, <1>8, <1>9

LEMMA FlushRenameKeeps ==
  ASSUME EmitterInv, FlushRename
  PROVE  EmitterInv'
<1>1. /\ Queue!Rename
      /\ UNCHANGED <<emitting, flush, online, emits, answered, server, refused, flushed,
                     disruptions>>
  BY DEF FlushRename, tasks
<1>2. QueueShape' /\ tmp # <<>> /\ tmp' = <<>> /\ file' = tmp
  BY <1>1, Renamed DEF EmitterInv
<1>3. /\ Flushing = {} /\ \A e \in Range(file) : e \in Range(tmp) \/ e \in Gone
      /\ disruptions = 0 => \A e \in Range(tmp) : e \notin flushed
  BY <1>2 DEF EmitterInv, RewriteInv
<1>4. Flushing' = {}
  BY <1>1, <1>3 DEF Flushing
<1>5. Kept'
  BY <1>1, <1>2, <1>3 DEF EmitterInv, Kept, Gone
<1>6. SnapshotInv' /\ RewriteInv' /\ Settled'
  BY <1>1, <1>2, <1>3, <1>4 DEF SnapshotInv, RewriteInv, Settled
<1>7. TasksShape'
  BY <1>1 DEF EmitterInv, TasksShape
<1>8. QED
  BY <1>2, <1>5, <1>6, <1>7 DEF EmitterInv

-----------------------------------------------------------------------------
(* Cancellations, crashes and the link *)

LEMMA CancelKeeps ==
  ASSUME EmitterInv,
         (\E e \in Events : CancelEmit(e)) \/ (\E f \in Flushers : CancelFlush(f))
  PROVE  EmitterInv'
<1>1. /\ tmp = <<>> /\ disruptions < MaxDisruptions /\ disruptions' = disruptions + 1
      /\ UNCHANGED <<file, terminated, index, tmp, synced, told, secured, tears>>
      /\ UNCHANGED <<online, emits, answered, server, refused, flushed>>
      /\ emitting' \subseteq emitting
  BY DEF CancelEmit, CancelFlush, Queue!Idle, queue
<1>2. TasksShape' /\ disruptions' # 0
  <2>1. flush' = [f \in Flushers |-> flush'[f]]
    BY DEF CancelEmit, CancelFlush, EmitterInv, TasksShape
  <2>2. disruptions' \in 0..MaxDisruptions /\ disruptions' # 0
    BY <1>1, EmitterConstants DEF EmitterInv, TasksShape
  <2>3. QED
    BY <1>1, <2>1, <2>2 DEF EmitterInv, TasksShape
<1>3. Flushing' = {}
  <2>1. CASE \E e \in Events : CancelEmit(e)
    <3>1. emitting # {} /\ flush' = flush
      BY <2>1 DEF CancelEmit
    <3>2. QED
      BY <3>1, AloneAtEmit DEF Flushing
  <2>2. ASSUME NEW f \in Flushers, CancelFlush(f)
        PROVE  Flushing' = {}
    <3>1. f \in Flushing /\ flush' = [flush EXCEPT ![f] = NoFlush]
      BY <2>2 DEF CancelFlush, Flushing
    <3>2. \A g \in Flushing : g = f
      BY <3>1 DEF EmitterInv, SnapshotInv, Snapshot
    <3>3. QED
      BY <3>1, <3>2 DEF Flushing, EmitterInv, TasksShape
  <2>3. QED
    BY <2>1, <2>2
<1>4. QueueShape' /\ Kept'
  BY <1>1 DEF EmitterInv, QueueShape, Kept, Gone
<1>5. SnapshotInv' /\ RewriteInv' /\ Settled'
  BY <1>1, <1>2, <1>3 DEF SnapshotInv, RewriteInv, Settled
<1>6. QED
  BY <1>2, <1>4, <1>5 DEF EmitterInv

LEMMA KilledKeeps ==
  ASSUME EmitterInv,
         Crash \/ (\E e \in Events, o \in Outcomes : CrashInEmit(e, o))
  PROVE  EmitterInv'
<1>1. Killed
  BY DEF Crash, CrashInEmit
<1>2. /\ disruptions < MaxDisruptions /\ disruptions' = disruptions + 1
      /\ emitting' = {} /\ flush' = [f \in Flushers |-> NoFlush]
      /\ UNCHANGED <<online, emits, answered, refused>>
  BY <1>1 DEF Killed
<1>3. /\ QueueShape' /\ tmp' = <<>>
      /\ Range(file) \subseteq Range(file')
      /\ server \subseteq server' /\ server' \subseteq Events /\ flushed' \subseteq flushed
  <2>1. CASE Crash
    <3>1. Queue!Crash /\ UNCHANGED <<server, flushed>>
      BY <2>1 DEF Crash
    <3>2. QED
      BY <3>1, Restarted DEF EmitterInv, TasksShape
  <2>2. ASSUME NEW e \in Events, NEW o \in Outcomes, CrashInEmit(e, o)
        PROVE  /\ QueueShape' /\ tmp' = <<>>
               /\ Range(file) \subseteq Range(file')
               /\ server \subseteq server' /\ server' \subseteq Events
               /\ flushed' \subseteq flushed
    <3>1. Send(e, o) /\ Queue!CrashInEnqueue(e, "whole") /\ flushed' = flushed \ {e}
      BY <2>2 DEF CrashInEmit
    <3>2. server' = server \cup {e} \/ server' = server
      BY <3>1 DEF Send
    <3>3. QED
      BY <3>1, <3>2, Appended DEF EmitterInv, TasksShape
  <2>3. QED
    BY <2>1, <2>2
<1>4. TasksShape' /\ disruptions' # 0
  <2>1. disruptions' \in 0..MaxDisruptions /\ disruptions' # 0
    BY <1>2, EmitterConstants DEF EmitterInv, TasksShape
  <2>2. QED
    BY <1>2, <1>3, <2>1 DEF EmitterInv, TasksShape
<1>5. Flushing' = {}
  BY <1>2 DEF Flushing
<1>6. Kept'
  BY <1>2, <1>3 DEF EmitterInv, Kept, Gone
<1>7. SnapshotInv' /\ RewriteInv' /\ Settled'
  BY <1>3, <1>4, <1>5 DEF SnapshotInv, RewriteInv, Settled
<1>8. QED
  BY <1>3, <1>4, <1>6, <1>7 DEF EmitterInv

LEMMA LinkKeeps ==
  ASSUME EmitterInv, LinkChanges \/ UNCHANGED vars
  PROVE  EmitterInv'
<1>1. /\ UNCHANGED <<file, terminated, index, tmp, synced, told, secured, tears>>
      /\ UNCHANGED <<emitting, flush, emits, answered, server, refused, flushed, disruptions>>
      /\ online' = online \/ online' = ~online
  BY DEF LinkChanges, vars, queue, tasks
<1>2. QueueShape' /\ TasksShape'
  BY <1>1 DEF EmitterInv, QueueShape, TasksShape
<1>3. Flushing' = Flushing
  BY <1>1 DEF Flushing
<1>4. SnapshotInv' /\ RewriteInv' /\ Settled' /\ Kept'
  BY <1>1, <1>3 DEF EmitterInv, SnapshotInv, Snapshot, RewriteInv, Settled, Kept, Gone
<1>5. QED
  BY <1>2, <1>4 DEF EmitterInv

-----------------------------------------------------------------------------
LEMMA EmitterStep ==
  ASSUME Exclusive, EmitterInv, [EmitterNext]_vars
  PROVE  EmitterInv' /\ OrderKept
<1>1. ASSUME flushed' \subseteq flushed
      PROVE  OrderKept
  BY <1>1 DEF OrderKept
<1>2. ASSUME NEW e \in Events, EmitStart(e)
      PROVE  EmitterInv' /\ OrderKept
  BY <1>1, <1>2, EmitStartKeeps DEF EmitStart
<1>3. ASSUME NEW e \in Events, NEW o \in Outcomes, EmitEnd(e, o)
      PROVE  EmitterInv' /\ OrderKept
  <2>1. flushed' \subseteq flushed
    BY <1>3 DEF EmitEnd, Buffer
  <2>2. QED
    BY <1>1, <1>3, <2>1, EmitEndKeeps
<1>4. ASSUME NEW e \in Events, CancelEmit(e)
      PROVE  EmitterInv' /\ OrderKept
  BY <1>1, <1>4, CancelKeeps DEF CancelEmit
<1>5. ASSUME NEW e \in Events, NEW o \in Outcomes, CrashInEmit(e, o)
      PROVE  EmitterInv' /\ OrderKept
  <2>1. flushed' \subseteq flushed
    BY <1>5 DEF CrashInEmit
  <2>2. QED
    BY <1>1, <1>5, <2>1, KilledKeeps
<1>6. ASSUME NEW f \in Flushers, FlushStart(f)
      PROVE  EmitterInv' /\ OrderKept
  BY <1>6, FlushStartKeeps
<1>7. ASSUME NEW f \in Flushers, NEW o \in Outcomes, FlushEnd(f, o)
      PROVE  EmitterInv' /\ OrderKept
  BY <1>7, FlushEndKeeps
<1>8. ASSUME NEW f \in Flushers, CancelFlush(f)
      PROVE  EmitterInv' /\ OrderKept
  BY <1>1, <1>8, CancelKeeps DEF CancelFlush
<1>9. CASE FlushRename
  BY <1>1, <1>9, FlushRenameKeeps DEF FlushRename
<1>10. CASE Crash
  BY <1>1, <1>10, KilledKeeps DEF Crash
<1>11. CASE LinkChanges \/ UNCHANGED vars
  BY <1>1, <1>11, LinkKeeps DEF LinkChanges, vars
<1>12. QED
  BY <1>2, <1>3, <1>4, <1>5, <1>6, <1>7, <1>8, <1>9, <1>10, <1>11 DEF EmitterNext, EmitSteps

LEMMA EmitterAlways == ASSUME Exclusive PROVE EmitterSpec => []EmitterInv
<1>1. EmitterInit => EmitterInv
  BY ShapeInit
<1>2. EmitterInv /\ [EmitterNext]_vars => EmitterInv'
  BY EmitterStep
<1>3. QED
  BY <1>1, <1>2, PTL DEF EmitterSpec

(* emit's promise: an event whose emit returned is at the server, refused  *)
(* by it, or in the queue, whatever crashes, cancellations and lost        *)
(* answers happen - as long as no flush overlaps an emit.                  *)
THEOREM NothingEmittedIsLost == ASSUME Exclusive PROVE EmitterSpec => []NoEventLost
<1>1. EmitterInv => NoEventLost
  <2> SUFFICES ASSUME EmitterInv
               PROVE  NoEventLost
    OBVIOUS
  <2>1. QueueShape /\ TasksShape /\ Queue!DiskKeys = Range(file)
    BY QueueFacts DEF EmitterInv
  <2>2. Queue!TypeOK
    <3>1. /\ file \in Seq(Events \cup {Torn, Undecodable})
          /\ Range(file) \subseteq Events
      BY <2>1, QueueFacts DEF QueueShape
    <3>2. tears \in 0..0
      BY <2>1 DEF QueueShape
    <3>3. Queue!FileOK(Queue!Present)
      BY <2>1, <3>1 DEF QueueShape, Queue!FileOK, Queue!Present, Queue!Lines
    <3>4. tmp \in Seq(Events) /\ Queue!IsInjective(tmp)
      BY <2>1 DEF QueueShape, Queue!IsInjective, IsInjective
    <3>5. QED
      BY <2>1, <3>1, <3>2, <3>3, <3>4 DEF QueueShape, Queue!TypeOK
  <2>3. \A f \in Flushing :
          /\ flush[f].records \in Seq(Events) /\ IsInjective(flush[f].records)
          /\ flush[f].at \in 1..Len(flush[f].records)
          /\ flush[f].records[flush[f].at] \notin Unparseable
    <3> SUFFICES ASSUME NEW f \in Flushing
                 PROVE  /\ flush[f].records \in Seq(Events) /\ IsInjective(flush[f].records)
                        /\ flush[f].at \in 1..Len(flush[f].records)
                        /\ flush[f].records[flush[f].at] \notin Unparseable
      OBVIOUS
    <3>1. Snapshot(f)
      BY DEF EmitterInv, SnapshotInv
    <3>2. flush[f].records = file
      BY <3>1 DEF Snapshot
    <3>3. QED
      BY <2>1, <3>1, <3>2 DEF Snapshot, QueueShape
  <2>4. EmitterTypeOK
    BY <2>1, <2>2, <2>3 DEF EmitterTypeOK, TasksShape
  <2>5. QED
    BY <2>1, <2>4 DEF NoEventLost, EmitterInv, Kept, Gone
<1>2. QED
  BY <1>1, EmitterAlways, PTL

(* A flush that ran to its end removed what it sent or dropped.            *)
THEOREM WhatIsFlushedLeaves == ASSUME Exclusive PROVE EmitterSpec => []FlushedLeaves
<1>1. EmitterInv => FlushedLeaves
  <2> SUFFICES ASSUME EmitterInv, Flushing = {}, Queue!Idle, disruptions = 0
               PROVE  flushed \cap Queue!DiskKeys = {}
    BY DEF FlushedLeaves
  <2>1. Queue!DiskKeys = Range(file)
    BY QueueFacts DEF EmitterInv
  <2>2. QED
    BY <2>1 DEF EmitterInv, Settled, Queue!Idle
<1>2. QED
  BY <1>1, EmitterAlways, PTL

(* FIFO: a step of a flush never sends or drops a buffered event while one *)
(* buffered before it stays.                                               *)
THEOREM FlushSendsInOrder == ASSUME Exclusive PROVE EmitterSpec => FlushInOrder
<1>1. EmitterInv /\ [EmitterNext]_vars => [OrderKept]_vars
  BY EmitterStep
<1>2. QED
  BY <1>1, EmitterAlways, PTL DEF EmitterSpec, FlushInOrder, OrderKept
=============================================================================
