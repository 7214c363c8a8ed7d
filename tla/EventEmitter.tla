---------------------------- MODULE EventEmitter ----------------------------
(***************************************************************************)
(* convilyn_edge/offline/emitter.py: EventEmitter over a DurableQueue.     *)
(*                                                                         *)
(* emit and flush are coroutines of one event loop: they are interleaved   *)
(* at their await of sink.send and nowhere else, so each is a step up to   *)
(* the await and a step from its outcome on.  The queue's operations are   *)
(* those of DurableQueue; replace holds the loop until its rename.  Here   *)
(* the process is killed but the power stays on, so no rename is undone    *)
(* and there is no old file to keep.                                       *)
(*                                                                         *)
(* The sink and the server behind it are external.  A send ends in         *)
(*   "acked"    the server has the event and the sink returned,            *)
(*   "unacked"  the server has it, but the answer was lost (an offline     *)
(*              exception reaches the emitter),                            *)
(*   "offline"  the server never saw it (an offline exception),            *)
(*   "refused"  the sink raised anything else.                             *)
(***************************************************************************)
EXTENDS Naturals, Sequences, FiniteSets, Functions

CONSTANTS
  Events,        (* event ids, the keys of the buffered records            *)
  Unparseable,   (* events whose buffered record from_wire refuses         *)
  Flushers,      (* tasks that call flush                                  *)
  Reemitted,     (* bound: events emitted twice; the others are emitted once *)
  MaxDisruptions,(* bound: crashes and cancellations                       *)
  Exclusive,     (* TRUE when the application never overlaps flush with    *)
                 (* another flush or an emit, as WorkflowDriver.run does   *)
  Torn, Undecodable, Unset

ASSUME EmitterConstants ==
  /\ Unparseable \subseteq Events
  /\ Reemitted \subseteq Events
  /\ MaxDisruptions \in Nat
  /\ Exclusive \in BOOLEAN

VARIABLES
  file, terminated, index, tmp, synced, told, secured, tears,  (* DurableQueue *)
  emitting,      (* events whose emit awaits sink.send                     *)
  flush,         (* per flusher: its snapshot and the record being sent    *)
  online,        (* the sink reaches the server                            *)
  (* history *)
  emits,         (* how often emit was called with each event              *)
  answered,      (* events whose emit returned                             *)
  server,        (* events the server has                                  *)
  refused,       (* events refused by the sink or dropped as unparseable   *)
  flushed,       (* events a flush sent or dropped, not buffered since     *)
  disruptions

queue == <<file, terminated, index, tmp, synced, told, secured, tears>>
tasks == <<emitting, flush>>
vars  == <<queue, tasks, online, emits, answered, server, refused, flushed, disruptions>>

Queue == INSTANCE DurableQueue
           WITH Keys <- Events, MaxTears <- 0, MaxRewrite <- Cardinality(Events),
                old <- {}

NoFlush == [records |-> <<>>, at |-> 0]

EmitterInit ==
  /\ Queue!Init
  /\ emitting = {} /\ flush = [f \in Flushers |-> NoFlush]
  /\ online \in BOOLEAN
  /\ emits = [e \in Events |-> 0]
  /\ answered = {} /\ server = {} /\ refused = {} /\ flushed = {}
  /\ disruptions = 0

Flushing == {f \in Flushers : flush[f] # NoFlush}

-----------------------------------------------------------------------------
(* The sink *)

Outcomes == IF online THEN {"acked", "refused"} ELSE {"unacked", "offline"}

(* What the outcome of sending e leaves behind at the server.              *)
Send(e, outcome) ==
  /\ outcome \in Outcomes
  /\ server' = IF outcome \in {"acked", "unacked"} THEN server \cup {e} ELSE server

IsOffline(outcome) == outcome \in {"unacked", "offline"}

-----------------------------------------------------------------------------
(* emit *)

EmitStart(e) ==
  /\ Queue!Idle
  /\ e \notin emitting /\ emits[e] < IF e \in Reemitted THEN 2 ELSE 1
  /\ Exclusive => Flushing = {}
  /\ emitting' = emitting \cup {e}
  /\ emits' = [emits EXCEPT ![e] = @ + 1]
  /\ UNCHANGED <<queue, flush, online, answered, server, refused, flushed, disruptions>>

(* The offline branch of emit: buffer the event.                           *)
Buffer(e) ==
  \/ Queue!Enqueue(e) /\ flushed' = flushed \ {e}
  \/ Queue!EnqueueDuplicate(e) /\ UNCHANGED flushed

EmitEnd(e, outcome) ==
  /\ Queue!Idle
  /\ e \in emitting
  /\ Send(e, outcome)
  /\ emitting' = emitting \ {e}
  /\ IF IsOffline(outcome) THEN Buffer(e) ELSE UNCHANGED <<queue, flushed>>
  /\ refused'  = IF outcome = "refused" THEN refused \cup {e} ELSE refused
  /\ answered' = IF outcome = "refused" THEN answered ELSE answered \cup {e}
  /\ UNCHANGED <<flush, online, emits, disruptions>>

-----------------------------------------------------------------------------
(* flush *)

(* Variant: the buffered record is sent without parsing it.                *)
NextParseableAny(records, i) == i

(* The first record from position i on that from_wire accepts; those       *)
(* before it are counted as rejected and not sent.                         *)
NextParseable(records, i) ==
  LET ok == {j \in i..Len(records) : records[j] \notin Unparseable}
  IN  IF ok = {} THEN Len(records) + 1 ELSE CHOOSE j \in ok : \A m \in ok : j <= m

Skipped(records, i) == {records[j] : j \in i..(NextParseable(records, i) - 1)}

(* replace(survivors), and the flush returns its report.                   *)
Finish(f, survivors) ==
  /\ IF survivors = <<>> THEN Queue!Unlink ELSE Queue!ReplaceWrite(survivors)
  /\ flush' = [flush EXCEPT ![f] = NoFlush]

(* Await the send of the first sendable record from i on, or finish.       *)
Proceed(f, records, i) ==
  LET j == NextParseable(records, i) IN
  IF j <= Len(records)
    THEN /\ flush' = [flush EXCEPT ![f] = [records |-> records, at |-> j]]
         /\ UNCHANGED queue
    ELSE Finish(f, <<>>)

FlushStart(f) ==
  /\ Queue!Idle
  /\ flush[f] = NoFlush
  /\ Exclusive => emitting = {} /\ Flushing = {}
  /\ LET records == Queue!DiskRecords IN
       /\ Proceed(f, records, 1)
       /\ refused' = refused \cup Skipped(records, 1)
       /\ flushed' = flushed \cup Skipped(records, 1)
  /\ UNCHANGED <<emitting, online, emits, answered, server, disruptions>>

(* Variants: off by one either way.                                        *)
SurvivorsSkippingOne(records, i) == SubSeq(records, i + 1, Len(records))
SurvivorsOneBack(records, i) == SubSeq(records, IF i = 1 THEN 1 ELSE i - 1, Len(records))

(* What stays queued when the send of record i is found offline.           *)
Survivors(records, i) == SubSeq(records, i, Len(records))

FlushSent(f, outcome) ==
  LET records == flush[f].records
      i       == flush[f].at
      gone    == {records[i]} \cup Skipped(records, i + 1)
  IN  /\ ~IsOffline(outcome)
      /\ Proceed(f, records, i + 1)
      /\ refused' = refused \cup (IF outcome = "refused" THEN gone ELSE gone \ {records[i]})
      /\ flushed' = flushed \cup gone

FlushOffline(f, outcome) ==
  LET records == flush[f].records
      i       == flush[f].at
  IN  /\ IsOffline(outcome)
      /\ Finish(f, Survivors(records, i))
      /\ UNCHANGED <<refused, flushed>>

(* Variant: flush with a refused send treated like an offline one.                  *)
FlushEndWedged(f, outcome) ==
  /\ Queue!Idle
  /\ flush[f] # NoFlush
  /\ Send(flush[f].records[flush[f].at], outcome)
  /\ \/ outcome = "acked" /\ FlushSent(f, outcome)
     \/ /\ outcome # "acked"
        /\ Finish(f, Survivors(flush[f].records, flush[f].at))
        /\ UNCHANGED <<refused, flushed>>
  /\ UNCHANGED <<emitting, online, emits, answered, disruptions>>

(* Variant: flush goes on past an offline record.                          *)
FlushEndSkipping(f, outcome) ==
  /\ Queue!Idle
  /\ flush[f] # NoFlush
  /\ Send(flush[f].records[flush[f].at], outcome)
  /\ \/ FlushSent(f, outcome)
     \/ /\ IsOffline(outcome)
        /\ Proceed(f, flush[f].records, flush[f].at + 1)
        /\ UNCHANGED <<refused, flushed>>
  /\ UNCHANGED <<emitting, online, emits, answered, disruptions>>

FlushEnd(f, outcome) ==
  /\ Queue!Idle
  /\ flush[f] # NoFlush
  /\ Send(flush[f].records[flush[f].at], outcome)
  /\ FlushSent(f, outcome) \/ FlushOffline(f, outcome)
  /\ UNCHANGED <<emitting, online, emits, answered, disruptions>>

FlushRename ==
  /\ Queue!Rename
  /\ UNCHANGED <<tasks, online, emits, answered, server, refused, flushed, disruptions>>

-----------------------------------------------------------------------------
(* Environment *)

(* asyncio cancels a task at its await: CancelledError is not an Exception,*)
(* so an emit buffers nothing and a flush skips its replace.               *)
CancelEmit(e) ==
  /\ Queue!Idle /\ e \in emitting /\ disruptions < MaxDisruptions
  /\ emitting' = emitting \ {e}
  /\ disruptions' = disruptions + 1
  /\ UNCHANGED <<queue, flush, online, emits, answered, server, refused, flushed>>

CancelFlush(f) ==
  /\ Queue!Idle /\ flush[f] # NoFlush /\ disruptions < MaxDisruptions
  /\ flush' = [flush EXCEPT ![f] = NoFlush]
  /\ disruptions' = disruptions + 1
  /\ UNCHANGED <<queue, emitting, online, emits, answered, server, refused, flushed>>

(* The process is killed: every task is gone, the queue restarts.  A line  *)
(* is one write, which a kill does not tear (DurableQueue has the tears).  *)
Killed ==
  /\ disruptions < MaxDisruptions
  /\ disruptions' = disruptions + 1
  /\ emitting' = {} /\ flush' = [f \in Flushers |-> NoFlush]
  /\ UNCHANGED <<online, emits, answered, refused>>

Crash ==
  /\ Killed
  /\ Queue!Crash
  /\ UNCHANGED <<server, flushed>>

(* ... or it is killed as emit has buffered e and not yet returned.        *)
CrashInEmit(e, outcome) ==
  /\ e \in emitting /\ IsOffline(outcome)
  /\ Killed
  /\ Send(e, outcome)
  /\ Queue!CrashInEnqueue(e, "whole")
  /\ flushed' = flushed \ {e}

LinkChanges ==
  /\ online' = ~online
  /\ UNCHANGED <<queue, tasks, emits, answered, server, refused, flushed, disruptions>>

-----------------------------------------------------------------------------
EmitSteps(e) == EmitStart(e) \/ \E o \in Outcomes : EmitEnd(e, o)

EmitterNext ==
  \/ \E e \in Events : EmitSteps(e) \/ CancelEmit(e) \/ \E o \in Outcomes : CrashInEmit(e, o)
  \/ \E f \in Flushers : FlushStart(f) \/ CancelFlush(f) \/ \E o \in Outcomes : FlushEnd(f, o)
  \/ FlushRename
  \/ Crash
  \/ LinkChanges

EmitterSpec == EmitterInit /\ [][EmitterNext]_vars

(* The event loop runs what is ready, every send ends, and the application *)
(* calls flush again and again.                                            *)
Fairness ==
  /\ WF_vars(FlushRename)
  /\ \A e \in Events : WF_vars(\E o \in Outcomes : EmitEnd(e, o))
  /\ \A f \in Flushers : WF_vars(\E o \in Outcomes : FlushEnd(f, o))
                         /\ WF_vars(FlushStart(f))

FairEmitterSpec == EmitterSpec /\ Fairness

-----------------------------------------------------------------------------
(* Properties *)

EmitterTypeOK ==
  /\ Queue!TypeOK
  /\ emitting \subseteq Events
  /\ \A f \in Flushing :
       /\ flush[f].records \in Seq(Events) /\ IsInjective(flush[f].records)
       /\ flush[f].at \in 1..Len(flush[f].records)
       /\ flush[f].records[flush[f].at] \notin Unparseable
  /\ online \in BOOLEAN
  /\ emits \in [Events -> 0..2]
  /\ answered \cup server \cup refused \cup flushed \subseteq Events
  /\ disruptions \in 0..MaxDisruptions

(* emitter.py:71-81: in every state of the right shape, an event whose emit*)
(* returned is not lost: the server has it, or refused it, or it is in the *)
(* queue - across crashes, cancelled flushes and lost answers.             *)
NoEventLost == EmitterTypeOK /\ answered \subseteq server \cup refused \cup Queue!DiskKeys

(* FIFO of flush: a buffered event is sent or dropped only when every event*)
(* buffered before it was, whatever the link does mid-drain.               *)
FlushInOrder ==
  [][ LET q == Queue!DiskRecords IN
      \A i, j \in 1..Len(q) : i < j /\ q[j] \in flushed' \ flushed => q[i] \in flushed' ]_vars

(* A flush that ran to its end removed what it sent or dropped: only a     *)
(* crash or a cancellation makes a later flush send a record again.        *)
FlushedLeaves ==
  Flushing = {} /\ Queue!Idle /\ disruptions = 0 => flushed \cap Queue!DiskKeys = {}

(* Head-of-line safety: once the link stays up, every buffered event leaves*)
(* the queue, refused and unparseable ones included.                       *)
BufferDrains ==
  <>[]online => \A e \in Events : e \in Queue!DiskKeys ~> e \notin Queue!DiskKeys

(* emitter.py:71-72 "Send envelope now, or buffer it durably if the sink   *)
(* is offline": the same as NoEventLost, for an application that flushes   *)
(* on reconnect while events are being emitted.                            *)
EmitNeverDrops == NoEventLost
=============================================================================
