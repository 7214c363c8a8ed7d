--------------------------- MODULE ModelOperator ---------------------------
(***************************************************************************)
(* convilyn_edge/clientcompute/operator.py: EdgeModelOperator's infer and  *)
(* close over the executor it owns, a queue and one worker thread.         *)
(*                                                                         *)
(* extract() blocks its thread and cannot be interrupted: it ends in any   *)
(* of the ways engine.py tells apart, or never.  Threads and the event     *)
(* loop interleave between the submission, the worker's pick, the end of   *)
(* extract and the return of infer.  close() lets go of the executor; the  *)
(* next infer makes a new one, while a thread of the old one runs on.      *)
(***************************************************************************)
EXTENDS Grounding

CONSTANTS
  Calls,         (* calls of infer                                         *)
  Deadlined,     (* those with a deadline_ms                               *)
  Outputs,       (* raw anchors the model may return                       *)
  Failures,      (* exceptions extract may end with, told apart as far as  *)
                 (* the operator does; "other" is none of engine.py's      *)
  MaxCloses      (* bound                                                  *)

(* How extract ends: with the raw anchors, or with an exception.           *)
Ends == [how : {"output"}, anchors : Outputs] \cup [how : Failures, anchors : {None}]

ASSUME OperatorConstants ==
  /\ IsFiniteSet(Calls) /\ Deadlined \subseteq Calls /\ MaxCloses \in Nat
  /\ None \notin Calls /\ None \notin Outputs /\ None \notin Ends
  /\ "output" \notin Failures

VARIABLES
  queue,         (* calls queued at the owned executor                     *)
  worker,        (* the call its thread runs, or None                      *)
  future,        (* per call: the concurrent.futures.Future                *)
  raw,           (* per call: how extract ended, until infer looks at it   *)
  infer,         (* per call: "new", "waiting", "returned" or "raised"     *)
  closes,
  disturbed      (* history: calls whose future close() cancelled, or whose*)
                 (* caller's task was cancelled                            *)

operatorVars == <<queue, worker, future, raw, infer, closes, disturbed>>

OperatorInit ==
  /\ queue = <<>> /\ worker = None
  /\ future = [c \in Calls |-> "none"]
  /\ raw = [c \in Calls |-> None]
  /\ infer = [c \in Calls |-> "new"]
  /\ closes = 0 /\ disturbed = {}

Waiting(c) == infer[c] = "waiting"

-----------------------------------------------------------------------------
(* infer: submit to the executor and await the future.                     *)
InferStart(c) ==
  /\ ~Waiting(c) /\ future[c] \notin {"pending", "running"}
  /\ infer' = [infer EXCEPT ![c] = "waiting"]
  /\ future' = [future EXCEPT ![c] = "pending"]
  /\ queue' = Append(queue, c)
  /\ UNCHANGED <<worker, raw, closes, disturbed>>

(* Variant: an executor with a thread for each call.                       *)
WorkerTakesUnbounded ==
  /\ queue # <<>>
  /\ queue' = Tail(queue)
  /\ IF future[Head(queue)] = "pending"
       THEN /\ worker' = Head(queue)
            /\ future' = [future EXCEPT ![Head(queue)] = "running"]
       ELSE UNCHANGED <<worker, future>>
  /\ UNCHANGED <<raw, infer, closes, disturbed>>

(* The thread takes the next call, passing over a cancelled one.           *)
WorkerTakes ==
  /\ worker = None /\ queue # <<>>
  /\ queue' = Tail(queue)
  /\ IF future[Head(queue)] = "pending"
       THEN /\ worker' = Head(queue)
            /\ future' = [future EXCEPT ![Head(queue)] = "running"]
       ELSE UNCHANGED <<worker, future>>
  /\ UNCHANGED <<raw, infer, closes, disturbed>>

(* extract returns or raises; nobody is told if infer has returned.        *)
ExtractEnds(c, end) ==
  /\ future[c] = "running"
  /\ future' = [future EXCEPT ![c] = "finished"]
  /\ raw' = [raw EXCEPT ![c] = IF Waiting(c) THEN end ELSE None]
  /\ worker' = IF worker = c THEN None ELSE worker
  /\ UNCHANGED <<queue, infer, closes, disturbed>>

(* cancel() of a future reaches one that waits in the queue, no other.     *)
Cancelled(fs, cs) ==
  [c \in Calls |-> IF c \in cs /\ fs[c] = "pending" THEN "cancelled" ELSE fs[c]]

(* Variant: wait_for leaves the call in the queue (a shielded future).     *)
DeadlineShielded(c) ==
  /\ Waiting(c) /\ c \in Deadlined
  /\ infer' = [infer EXCEPT ![c] = "returned"]
  /\ raw' = [raw EXCEPT ![c] = None]
  /\ UNCHANGED <<future, queue, worker, closes, disturbed>>

(* asyncio.wait_for gives up; a thread that runs the call runs on.         *)
DeadlineElapses(c) ==
  /\ Waiting(c) /\ c \in Deadlined
  /\ infer' = [infer EXCEPT ![c] = "returned"]
  /\ future' = Cancelled(future, {c})
  /\ raw' = [raw EXCEPT ![c] = None]
  /\ UNCHANGED <<queue, worker, closes, disturbed>>

(* Variant: only the two exceptions of engine.py are caught.               *)
RaisesUncaught(c) == future[c] = "cancelled" \/ raw[c].how = "other"

(* infer's except clauses turn every Exception into an unavailable result; *)
(* CancelledError is not an Exception.                                     *)
Raises(c) == future[c] = "cancelled"

InferEnds(c) ==
  /\ Waiting(c) /\ future[c] \in {"finished", "cancelled"}
  /\ infer' = [infer EXCEPT ![c] = IF Raises(c) THEN "raised" ELSE "returned"]
  /\ raw' = [raw EXCEPT ![c] = None]
  /\ UNCHANGED <<future, queue, worker, closes, disturbed>>

-----------------------------------------------------------------------------
(* close: shutdown(wait=False, cancel_futures=True).                       *)
Close ==
  /\ closes < MaxCloses
  /\ closes' = closes + 1
  /\ LET queued == {queue[i] : i \in 1..Len(queue)} IN
       /\ future' = Cancelled(future, queued)
       /\ disturbed' = disturbed \cup {c \in queued : future[c] = "pending"}
  /\ queue' = <<>> /\ worker' = None
  /\ UNCHANGED <<raw, infer>>

(* The task that awaits infer is cancelled.                                *)
InferCancelled(c) ==
  /\ Waiting(c)
  /\ infer' = [infer EXCEPT ![c] = "raised"]
  /\ future' = Cancelled(future, {c})
  /\ disturbed' = disturbed \cup {c}
  /\ raw' = [raw EXCEPT ![c] = None]
  /\ UNCHANGED <<queue, worker, closes>>

ThreadStep == WorkerTakes \/ \E c \in Calls, end \in Ends : ExtractEnds(c, end)

(* Types; and a thread runs on behind the executor's own one only for an   *)
(* executor that was closed (operator.py:124-126).                         *)
OperatorTypeOK ==
  /\ queue \in Seq(Calls) /\ worker \in Calls \cup {None}
  /\ future \in [Calls -> {"none", "pending", "running", "finished", "cancelled"}]
  /\ raw \in [Calls -> Ends \cup {None}]
  /\ infer \in [Calls -> {"new", "waiting", "returned", "raised"}]
  /\ worker # None => future[worker] = "running"
  /\ Cardinality({c \in Calls \ {worker} : future[c] = "running"}) <= closes
  /\ \A c \in Calls : raw[c] # None <=> future[c] = "finished" /\ Waiting(c)
=============================================================================
