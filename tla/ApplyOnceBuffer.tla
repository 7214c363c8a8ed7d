-------------------------- MODULE ApplyOnceBuffer --------------------------
(***************************************************************************)
(* What convilyn_edge/offline/queue.py promises its callers, without the   *)
(* file: a FIFO buffer of records with distinct keys.  "told" is the set   *)
(* of keys a caller was told are queued (enqueue returned, or replace      *)
(* did) and has not removed since.                                         *)
(*                                                                         *)
(* The promise has two holes, and only two: a torn append may take the     *)
(* newest record and the record being added with it (Wreck), and a power   *)
(* failure may undo the rewrites since the last Settle, bringing back the  *)
(* buffer from before them, and take the newest records (Outage).  Nothing *)
(* else ever reorders, duplicates, loses or brings back a record.          *)
(***************************************************************************)
EXTENDS Naturals, Sequences, Functions

CONSTANTS
  Keys,         (* apply-once keys of the records                          *)
  MaxRewrite    (* longest list a caller rewrites the buffer to            *)

VARIABLES
  buffer,       (* queued records, oldest first                            *)
  told,         (* keys the callers believe to be queued                   *)
  before        (* the buffer a power failure may bring back; {} if none   *)

AbstractInit ==
  /\ buffer = <<>>
  /\ told = {}
  /\ before = {}

(* A new record is queued; the caller may never hear of it (crash).        *)
Accept(k) ==
  /\ k \notin Range(buffer)
  /\ buffer' = Append(buffer, k)
  /\ told' \in {told, told \cup {k}}
  /\ UNCHANGED before

(* A caller that offers a queued record again learns that it is queued.    *)
Confirm(k) ==
  /\ k \in Range(buffer) \cup told
  /\ told' = told \cup {k}
  /\ UNCHANGED <<buffer, before>>

(* A torn append: the newest record may go, and the offered one is not     *)
(* added though its caller may be told it is.                              *)
Wreck(k) ==
  /\ \/ UNCHANGED buffer
     \/ buffer # <<>> /\ buffer' = SubSeq(buffer, 1, Len(buffer) - 1)
  /\ told' \in {told, told \cup {k}}
  /\ UNCHANGED before

(* A power failure keeps the oldest n records of the buffer, or of the one *)
(* it brings back.                                                         *)
Outage(b, n) ==
  /\ buffer' = SubSeq(b, 1, n)
  /\ told' = told \ (Range(buffer) \ Range(buffer'))
  /\ before' = {}

Rewrite(recs) ==
  /\ IsInjective(recs)
  /\ buffer' = recs
  /\ told' = Range(recs)
  /\ before' = IF before = {} THEN {buffer} ELSE before

(* The rewrites so far can no longer be undone.                            *)
Settle ==
  /\ before' = {}
  /\ UNCHANGED <<buffer, told>>

AbstractNext ==
  \/ \E k \in Keys : Accept(k) \/ Confirm(k) \/ Wreck(k)
  \/ \E b \in {buffer} \cup before : \E n \in 0..Len(b) : Outage(b, n)
  \/ Settle
  \/ \E n \in 0..MaxRewrite : \E recs \in [1..n -> Keys] : Rewrite(recs)

AbstractSpec == AbstractInit /\ [][AbstractNext]_<<buffer, told, before>>
=============================================================================
