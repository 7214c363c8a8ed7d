--------------------------- MODULE ClientCompute ---------------------------
(***************************************************************************)
(* convilyn_edge/clientcompute/bridge.py: ClientComputeBridge, which runs  *)
(* the operator of ModelOperator for a pending interrupt of a job and      *)
(* submits the grounded anchors with fill_slots.  Several handlers may     *)
(* share a bridge, and several may hold snapshots of one job.              *)
(*                                                                         *)
(* The goals service is external: fill_slots applies an answer unless it   *)
(* expects another version of the job, raises a conflict then, and may     *)
(* fail with or without effect.  Others move the job on.  The service      *)
(* grounds an answer again with the limits of its interrupt.               *)
(***************************************************************************)
EXTENDS ModelOperator

CONSTANTS
  Jobs,          (* jobs, each with one client_compute interrupt           *)
  Unreadable,    (* jobs whose payload is malformed, or whose files the    *)
                 (* device has no copy of                                  *)
  Limits,        (* per job: value and total caps of its interrupt         *)
  Anchors,       (* the required anchor keys                               *)
  MaxVersion     (* bound: versions of a job                               *)

ASSUME BridgeConstants ==
  /\ Unreadable \subseteq Jobs /\ MaxVersion \in Nat
  /\ Limits \in [Jobs -> [value : Nat, total : Nat]]
  /\ \A o \in Outputs : DOMAIN o = Anchors /\ o \in Seq(AnchorValues)
  /\ None \notin Nat /\ None \notin [id : Jobs, version : Nat]
  /\ None \notin [Anchors -> AnchorValues]

VARIABLES
  handler,       (* per call: "idle", "infer", "submit" or "over"          *)
  job,           (* per call: the id and version of its snapshot of a job  *)
  answer,        (* per call: the anchors being submitted, or None         *)
  version,       (* the service: item_version of each job ...              *)
  pending,       (* ... jobs whose interrupt is pending                    *)
  applied        (* history: versions the answers applied were worked out  *)
                 (* for and applied at                                     *)

bridgeVars == <<handler, job, answer, version, pending, applied>>
vars == <<operatorVars, bridgeVars>>

BridgeInit ==
  /\ OperatorInit
  /\ handler = [c \in Calls |-> "idle"]
  /\ job = [c \in Calls |-> None]
  /\ answer = [c \in Calls |-> None]
  /\ version = [j \in Jobs |-> 0]
  /\ pending = Jobs
  /\ applied = {}

-----------------------------------------------------------------------------
(* handle_if_present *)

(* find_client_compute_interrupt found none, or handle_interrupt raises    *)
(* before it awaits anything (KeyError, MissingLocalSourceError).          *)
NothingToDo(c, j) ==
  /\ handler[c] = "idle" /\ (j \notin pending \/ j \in Unreadable)
  /\ handler' = [handler EXCEPT ![c] = "over"]
  /\ UNCHANGED <<operatorVars, job, answer, version, pending, applied>>

HandleInterrupt(c, j) ==
  /\ handler[c] = "idle" /\ j \in pending \ Unreadable
  /\ handler' = [handler EXCEPT ![c] = "infer"]
  /\ job' = [job EXCEPT ![c] = [id |-> j, version |-> version[j]]]
  /\ InferStart(c)
  /\ UNCHANGED <<answer, version, pending, applied>>

(* The call returned or raised: its locals are gone.                       *)
Over(c) ==
  /\ handler' = [handler EXCEPT ![c] = "over"]
  /\ job' = [job EXCEPT ![c] = None]
  /\ answer' = [answer EXCEPT ![c] = None]

(* Variant: nothing is submitted for an unavailable result.                *)
AnswerIfAvailable(c, output) ==
  /\ answer' = [answer EXCEPT ![c] = output]
  /\ handler' = [handler EXCEPT ![c] = IF output = None THEN "over" ELSE "submit"]

(* "result.output or {sentinels}": an unavailable result is answered too.  *)
Answer(c, output) ==
  /\ answer' = [answer EXCEPT ![c] = IF output = None THEN Missing(Anchors) ELSE output]
  /\ handler' = [handler EXCEPT ![c] = "submit"]

(* The model's outputs as infer grounds them for each job.                 *)
GroundedFor == [j \in Jobs |-> [o \in Outputs |-> GroundAnchors(o, Limits[j])]]

(* The output of the ModelResult: None when it is unavailable.             *)
Output(c) == IF raw[c].how = "output" THEN GroundedFor[job[c].id][raw[c].anchors] ELSE None

(* From the end of infer up to the await of fill_slots.                    *)
Resume(c) ==
  /\ handler[c] = "infer"
  /\ InferEnds(c)
  /\ IF infer'[c] = "raised" THEN Over(c) ELSE Answer(c, Output(c)) /\ UNCHANGED job
  /\ UNCHANGED <<version, pending, applied>>

Expire(c) ==
  /\ handler[c] = "infer"
  /\ DeadlineElapses(c) /\ Answer(c, None)
  /\ UNCHANGED <<job, version, pending, applied>>

-----------------------------------------------------------------------------
(* fill_slots and the service *)

(* Variant: the answer is submitted without the version.                   *)
ExpectedNothing(c) == None

Expected(c) == job[c].version

Apply(c, j) ==
  /\ applied' = applied \cup {[read |-> job[c].version, at |-> version[j]]}
  /\ pending' = pending \ {j}
  /\ version' = [version EXCEPT ![j] = @ + 1]

(* The answer arrives (its own answer may be lost), or is refused, or is   *)
(* lost on the way.                                                        *)
Submit(c) ==
  /\ handler[c] = "submit"
  /\ Over(c)
  /\ LET j == job[c].id IN
       \/ j \in pending /\ Expected(c) \in {None, version[j]} /\ Apply(c, j)
       \/ UNCHANGED <<version, pending, applied>>
  /\ UNCHANGED operatorVars

(* Somebody else writes the job, or asks again with another version.       *)
JobMoves(j) ==
  /\ version[j] < MaxVersion
  /\ version' = [version EXCEPT ![j] = @ + 1]
  /\ pending' \in {pending \cup {j}, pending \ {j}}
  /\ UNCHANGED <<operatorVars, handler, job, answer, applied>>

-----------------------------------------------------------------------------
HandlerCancelled(c) ==
  /\ \/ handler[c] = "infer" /\ InferCancelled(c)
     \/ handler[c] = "submit" /\ UNCHANGED operatorVars
  /\ Over(c)
  /\ UNCHANGED <<version, pending, applied>>

Handling(c) == Resume(c) \/ Expire(c) \/ Submit(c)

Threads == ThreadStep /\ UNCHANGED bridgeVars

OperatorCloses == Close /\ UNCHANGED bridgeVars

BridgeNext ==
  \/ \E c \in Calls, j \in Jobs : NothingToDo(c, j) \/ HandleInterrupt(c, j)
  \/ \E c \in Calls : Handling(c) \/ HandlerCancelled(c)
  \/ \E j \in Jobs : JobMoves(j)
  \/ Threads \/ OperatorCloses

BridgeSpec == BridgeInit /\ [][BridgeNext]_vars

(* The timers of the event loop fire.  Nothing is assumed of the threads,  *)
(* where extract may hang for ever, nor of the service.                    *)
FairBridgeSpec == BridgeSpec /\ \A c \in Calls : WF_vars(Expire(c))

-----------------------------------------------------------------------------
(* Properties *)

BridgeTypeOK ==
  /\ OperatorTypeOK
  /\ handler \in [Calls -> {"idle", "infer", "submit", "over"}]
  /\ \A c \in Calls : /\ handler[c] = "infer" <=> Waiting(c)
                      /\ handler[c] \in {"infer", "submit"} <=> job[c] # None
                      /\ handler[c] = "submit" <=> answer[c] # None
                      /\ answer[c] # None => DOMAIN answer[c] = Anchors
  /\ version \in [Jobs -> 0..(MaxVersion + Cardinality(Calls))]
  /\ pending \subseteq Jobs

(* operator.py:139-148: a call whose deadline passed, whose caller is gone *)
(* or whose operator was closed while it queued is not run afterwards: the *)
(* model never works for nobody, but for the call it is at.                *)
AbandonedNeverStarts ==
  [][ \A c \in Calls : future[c] # "running" /\ future'[c] = "running"
        => Waiting(c) /\ c \notin disturbed ]_vars

(* "Degrade to unavailable, never raise" (operator.py:75): however extract *)
(* ends, infer returns a result - but for a caller that was cancelled and  *)
(* for close(), which cancels the calls still queued.                      *)
RaisesOnlyDisturbed ==
  BridgeTypeOK /\ \A c \in Calls : infer[c] = "raised" => c \in disturbed

(* bridge.py:145-146: "so the server can ... resume rather than hang": an  *)
(* interrupt taken on with a deadline is answered, even when the model     *)
(* hangs for ever and every call queues behind it.                         *)
InterruptAnswered ==
  \A c \in Deadlined : handler[c] = "infer" ~> handler[c] = "submit" \/ c \in disturbed

(* An answer is applied to the version of the job it was worked out for,   *)
(* however long the model took: an interrupt asked anew meanwhile, or a job*)
(* others moved on, does not get the answer to the old one.                *)
NoStaleAnswer == \A a \in applied : a.read = a.at

(* What the device submits survives the service grounding it again, within *)
(* the caps its interrupt named: every value is kept and the answer is not *)
(* refused for its length.                                                 *)
ShipsWhatIsAccepted ==
  \A c \in Calls :
    answer[c] # None =>
      LET limits == Limits[job[c].id] IN
        /\ GroundAnchors(answer[c], limits) = answer[c]
        /\ Fits(answer[c], limits)
=============================================================================
