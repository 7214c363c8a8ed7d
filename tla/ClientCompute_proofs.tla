------------------------ MODULE ClientCompute_proofs ------------------------
(***************************************************************************)
(* The bridge, the operator and its threads, for every number of calls,    *)
(* jobs and closes, every limit and everything a model may return.         *)
(*                                                                         *)
(* The operator is invariant by itself (OperatorInv).  BridgeInv relates   *)
(* a handler to its call, and the versions to the calls that are over;     *)
(* AnswerInv says where an answer comes from.                              *)
(***************************************************************************)
EXTENDS ClientCompute, ModelOperator_proofs

-----------------------------------------------------------------------------
(* The invariant *)

Finished == {c \in Calls : handler[c] = "over"}

BridgeInv ==
  /\ handler \in [Calls -> {"idle", "infer", "submit", "over"}]
  /\ job \in [Calls -> [id : Jobs, version : Nat] \cup {None}]
  /\ answer \in [Calls -> [Anchors -> AnchorValues] \cup {None}]
  /\ version \in [Jobs -> Nat]
  /\ pending \subseteq Jobs
  /\ \A c \in Calls :
       /\ handler[c] = "idle" => infer[c] = "new"
       /\ handler[c] = "infer" <=> Waiting(c)
       /\ handler[c] \in {"infer", "submit"} <=> job[c] # None
       /\ handler[c] = "submit" <=> answer[c] # None
  /\ \A j \in Jobs : version[j] <= MaxVersion + Cardinality(Finished)
  /\ NoStaleAnswer

(* An answer is all missing, or grounded with the limits of its interrupt. *)
AnswerInv ==
  \A c \in Calls :
    answer[c] # None =>
      \/ answer[c] = Missing(Anchors)
      \/ \E o \in Outputs : answer[c] = GroundAnchors(o, Limits[job[c].id])

ClientInv == OperatorInv /\ BridgeInv /\ AnswerInv

-----------------------------------------------------------------------------
(* Grounding: an answer grounded again *)

Stands(anchors, limits) ==
  /\ GroundAnchors(anchors, limits) = anchors
  /\ Fits(anchors, limits)
  /\ anchors \in [Anchors -> AnchorValues]

LEMMA MissingStands ==
  ASSUME NEW limits \in [value : Nat, total : Nat]
  PROVE  Stands(Missing(Anchors), limits)
<1>1. Missing(Anchors) \in [Anchors -> AnchorValues]
  BY DEF Missing, AnchorValues
<1>2. QED
  BY <1>1, MissingStays DEF Stands

LEMMA OutputStands ==
  ASSUME NEW o \in Outputs, NEW limits \in [value : Nat, total : Nat]
  PROVE  Stands(GroundAnchors(o, limits), limits)
<1>1. DOMAIN o = Anchors /\ o \in Seq(AnchorValues)
  BY BridgeConstants
<1>2. PICK n \in Nat : Anchors = 1..n /\ DOMAIN o = 1..n
  BY <1>1
<1>3. \A k \in 1..n : o[k] \in AnchorValues
  BY <1>1, <1>2
<1>4. \A v \in AnchorValues : IsValue(v)
  BY DEF AnchorValues, IsValue
<1>5. limits.total \in Nat
  OBVIOUS
<1>6. PICK kept : kept = GroundAnchors(o, limits)
  OBVIOUS
<1>7. /\ GroundAnchors(kept, limits) = kept /\ Fits(kept, limits)
      /\ kept = [k \in 1..n |-> kept[k]]
      /\ \A k \in 1..n : kept[k] \in {Sentinel, o[k]}
  BY <1>2, <1>3, <1>4, <1>5, <1>6, GroundedStands
<1>8. kept \in [Anchors -> AnchorValues]
  BY <1>2, <1>3, <1>7 DEF AnchorValues
<1>9. QED
  BY <1>6, <1>7, <1>8 DEF Stands

-----------------------------------------------------------------------------
(* The bridge *)

LEMMA FinishedFinite == IsFiniteSet(Finished) /\ Cardinality(Finished) \in Nat
<1>1. IsFiniteSet(Finished)
  BY OperatorConstants, FS_Subset DEF Finished
<1>2. QED
  BY <1>1, FS_CardinalityType

(* A call once over stays over: the bound on the versions never sinks.     *)
LEMMA VersionsKept ==
  ASSUME BridgeInv, UNCHANGED version, Finished \subseteq Finished'
  PROVE  \A j \in Jobs : version'[j] <= MaxVersion + Cardinality(Finished')
<1>1. IsFiniteSet(Finished')
  BY OperatorConstants, FS_Subset DEF Finished
<1>2. Cardinality(Finished) <= Cardinality(Finished') /\ Cardinality(Finished') \in Nat
  BY <1>1, FS_Subset, FS_CardinalityType
<1>3. \A j \in Jobs : version[j] \in Nat /\ version[j] <= MaxVersion + Cardinality(Finished)
  BY DEF BridgeInv
<1>4. MaxVersion \in Nat
  BY BridgeConstants
<1>5. QED
  BY <1>2, <1>3, <1>4, FinishedFinite

(* What relates a handler to its call.                                     *)
HandlerInv(c) ==
  /\ handler[c] = "idle" => infer[c] = "new"
  /\ handler[c] = "infer" <=> Waiting(c)
  /\ handler[c] \in {"infer", "submit"} <=> job[c] # None
  /\ handler[c] = "submit" <=> answer[c] # None

(* The handler of c is over, and infer does not wait for it.               *)
LEMMA OverKeeps ==
  ASSUME ClientInv, NEW c \in Calls, Over(c),
         infer'[c] # "waiting", \A d \in Calls \ {c} : infer'[d] = infer[d]
  PROVE  /\ handler' \in [Calls -> {"idle", "infer", "submit", "over"}]
         /\ job' \in [Calls -> [id : Jobs, version : Nat] \cup {None}]
         /\ answer' \in [Calls -> [Anchors -> AnchorValues] \cup {None}]
         /\ \A d \in Calls : HandlerInv(d)'
         /\ Finished' = Finished \cup {c}
         /\ AnswerInv'
<1>1. /\ handler' = [handler EXCEPT ![c] = "over"]
      /\ job' = [job EXCEPT ![c] = None]
      /\ answer' = [answer EXCEPT ![c] = None]
  BY DEF Over
<1>2. /\ handler' \in [Calls -> {"idle", "infer", "submit", "over"}]
      /\ job' \in [Calls -> [id : Jobs, version : Nat] \cup {None}]
      /\ answer' \in [Calls -> [Anchors -> AnchorValues] \cup {None}]
  BY <1>1 DEF ClientInv, BridgeInv
<1>3. handler'[c] = "over" /\ job'[c] = None /\ answer'[c] = None
  BY <1>1 DEF ClientInv, BridgeInv
<1>4. \A d \in Calls \ {c} : handler'[d] = handler[d] /\ job'[d] = job[d] /\ answer'[d] = answer[d]
  BY <1>1 DEF ClientInv, BridgeInv
<1>5. \A d \in Calls : HandlerInv(d)
  BY DEF ClientInv, BridgeInv, HandlerInv
<1>6. ASSUME NEW d \in Calls
      PROVE  HandlerInv(d)'
  BY <1>3, <1>4, <1>5 DEF HandlerInv, Waiting
<1>7. Finished' = Finished \cup {c}
  BY <1>3, <1>4 DEF Finished
<1>8. AnswerInv'
  BY <1>3, <1>4 DEF ClientInv, AnswerInv
<1>9. QED
  BY <1>2, <1>6, <1>7, <1>8

(* infer is over and c has an answer to submit.                            *)
LEMMA AnswerKeeps ==
  ASSUME ClientInv, NEW c \in Calls, handler[c] = "infer", NEW output, Answer(c, output),
         output = None \/ \E o \in Outputs : output = GroundAnchors(o, Limits[job[c].id]),
         infer'[c] # "waiting", \A d \in Calls \ {c} : infer'[d] = infer[d],
         UNCHANGED job
  PROVE  /\ handler' \in [Calls -> {"idle", "infer", "submit", "over"}]
         /\ answer' \in [Calls -> [Anchors -> AnchorValues] \cup {None}]
         /\ \A d \in Calls : HandlerInv(d)'
         /\ Finished' = Finished
         /\ AnswerInv'
<1> DEFINE given == IF output = None THEN Missing(Anchors) ELSE output
<1>1. /\ handler' = [handler EXCEPT ![c] = "submit"]
      /\ answer' = [answer EXCEPT ![c] = given]
  BY DEF Answer
<1>2. \A d \in Calls : HandlerInv(d)
  BY DEF ClientInv, BridgeInv, HandlerInv
<1>3. job[c] # None /\ job[c] \in [id : Jobs, version : Nat]
  <2>1. job[c] # None
    BY <1>2 DEF HandlerInv
  <2>2. QED
    BY <2>1 DEF ClientInv, BridgeInv
<1>4. Limits[job[c].id] \in [value : Nat, total : Nat]
  BY <1>3, BridgeConstants
<1>5. /\ given \in [Anchors -> AnchorValues]
      /\ given = Missing(Anchors) \/ \E o \in Outputs : given = GroundAnchors(o, Limits[job[c].id])
  BY <1>4, MissingStands, OutputStands DEF Stands
<1>6. given # None
  BY <1>5, BridgeConstants
<1> HIDE DEF given
<1>7. /\ handler' \in [Calls -> {"idle", "infer", "submit", "over"}]
      /\ answer' \in [Calls -> [Anchors -> AnchorValues] \cup {None}]
  BY <1>1, <1>5 DEF ClientInv, BridgeInv
<1>8. handler'[c] = "submit" /\ answer'[c] = given
  BY <1>1 DEF ClientInv, BridgeInv
<1>9. \A d \in Calls \ {c} : handler'[d] = handler[d] /\ answer'[d] = answer[d]
  BY <1>1 DEF ClientInv, BridgeInv
<1>10. ASSUME NEW d \in Calls
       PROVE  HandlerInv(d)'
  BY <1>2, <1>3, <1>6, <1>8, <1>9 DEF HandlerInv, Waiting
<1>11. Finished' = Finished
  BY <1>8, <1>9 DEF Finished
<1>12. AnswerInv'
  BY <1>5, <1>8, <1>9 DEF ClientInv, AnswerInv
<1>13. QED
  BY <1>7, <1>10, <1>11, <1>12

LEMMA NothingToDoKeeps ==
  ASSUME ClientInv, NEW c \in Calls, NEW j \in Jobs, NothingToDo(c, j)
  PROVE  ClientInv'
<1>1. /\ handler[c] = "idle" /\ handler' = [handler EXCEPT ![c] = "over"]
      /\ UNCHANGED <<operatorVars, job, answer, version, pending, applied>>
  BY DEF NothingToDo
<1>2. OperatorInv'
  BY <1>1 DEF ClientInv, OperatorInv, operatorVars, Orphans, Waiting
<1>3. /\ handler' \in [Calls -> {"idle", "infer", "submit", "over"}]
      /\ handler'[c] = "over" /\ \A d \in Calls \ {c} : handler'[d] = handler[d]
  BY <1>1 DEF ClientInv, BridgeInv
<1>4. ASSUME NEW d \in Calls
      PROVE  HandlerInv(d)'
  BY <1>1, <1>3 DEF HandlerInv, Waiting, operatorVars, ClientInv, BridgeInv
<1>5. Finished \subseteq Finished'
  BY <1>3 DEF Finished
<1>6. \A i \in Jobs : version'[i] <= MaxVersion + Cardinality(Finished')
  BY <1>1, <1>5, VersionsKept DEF ClientInv
<1>7. BridgeInv'
  BY <1>1, <1>3, <1>4, <1>6 DEF ClientInv, BridgeInv, HandlerInv, NoStaleAnswer
<1>8. AnswerInv'
  BY <1>1 DEF ClientInv, AnswerInv
<1>9. QED
  BY <1>2, <1>7, <1>8 DEF ClientInv

LEMMA HandleInterruptKeeps ==
  ASSUME ClientInv, NEW c \in Calls, NEW j \in Jobs, HandleInterrupt(c, j)
  PROVE  ClientInv'
<1>1. /\ handler[c] = "idle" /\ handler' = [handler EXCEPT ![c] = "infer"]
      /\ job' = [job EXCEPT ![c] = [id |-> j, version |-> version[j]]]
      /\ InferStart(c)
      /\ UNCHANGED <<answer, version, pending, applied>>
  BY DEF HandleInterrupt
<1>2. OperatorInv'
  <2>1. c \notin disturbed
    BY <1>1 DEF ClientInv, OperatorInv, BridgeInv
  <2>2. QED
    BY <1>1, <2>1, InferStartKeeps DEF ClientInv
<1>3. infer'[c] = "waiting" /\ \A d \in Calls \ {c} : infer'[d] = infer[d]
  BY <1>1 DEF InferStart, ClientInv, OperatorInv
<1>4. [id |-> j, version |-> version[j]] \in [id : Jobs, version : Nat]
  BY DEF ClientInv, BridgeInv
<1>5. [id |-> j, version |-> version[j]] # None
  BY <1>4, BridgeConstants
<1>6. /\ handler' \in [Calls -> {"idle", "infer", "submit", "over"}]
      /\ handler'[c] = "infer" /\ \A d \in Calls \ {c} : handler'[d] = handler[d]
  BY <1>1 DEF ClientInv, BridgeInv
<1>7. /\ job' \in [Calls -> [id : Jobs, version : Nat] \cup {None}]
      /\ job'[c] # None /\ \A d \in Calls \ {c} : job'[d] = job[d]
  BY <1>1, <1>4, <1>5 DEF ClientInv, BridgeInv
<1>8. ASSUME NEW d \in Calls
      PROVE  HandlerInv(d)'
  BY <1>1, <1>3, <1>6, <1>7 DEF HandlerInv, Waiting, ClientInv, BridgeInv
<1>9. Finished \subseteq Finished'
  BY <1>1, <1>6 DEF Finished
<1>10. \A i \in Jobs : version'[i] <= MaxVersion + Cardinality(Finished')
  BY <1>1, <1>9, VersionsKept DEF ClientInv
<1>11. BridgeInv'
  BY <1>1, <1>6, <1>7, <1>8, <1>10 DEF ClientInv, BridgeInv, HandlerInv, NoStaleAnswer
<1>12. answer[c] = None
  BY <1>1 DEF ClientInv, BridgeInv
<1>13. AnswerInv'
  BY <1>1, <1>7, <1>12 DEF ClientInv, AnswerInv
<1>14. QED
  BY <1>2, <1>11, <1>13 DEF ClientInv

LEMMA ResumeKeeps ==
  ASSUME ClientInv, NEW c \in Calls, Resume(c)
  PROVE  ClientInv'
<1>1. /\ handler[c] = "infer" /\ InferEnds(c)
      /\ UNCHANGED <<version, pending, applied>>
      /\ IF infer'[c] = "raised" THEN Over(c) ELSE Answer(c, Output(c)) /\ UNCHANGED job
  BY DEF Resume
<1>2. /\ OperatorInv' /\ infer'[c] \in {"returned", "raised"}
      /\ \A d \in Calls \ {c} : infer'[d] = infer[d]
  BY <1>1, InferOverKeeps DEF ClientInv
<1>3. CASE infer'[c] = "raised"
  <2>1. Over(c)
    BY <1>1, <1>3
  <2>2. /\ handler' \in [Calls -> {"idle", "infer", "submit", "over"}]
        /\ job' \in [Calls -> [id : Jobs, version : Nat] \cup {None}]
        /\ answer' \in [Calls -> [Anchors -> AnchorValues] \cup {None}]
        /\ \A d \in Calls : HandlerInv(d)'
        /\ Finished' = Finished \cup {c}
        /\ AnswerInv'
    BY <1>2, <2>1, OverKeeps
  <2>3. \A i \in Jobs : version'[i] <= MaxVersion + Cardinality(Finished')
    BY <1>1, <2>2, VersionsKept DEF ClientInv
  <2>4. BridgeInv'
    BY <1>1, <2>2, <2>3 DEF ClientInv, BridgeInv, HandlerInv, NoStaleAnswer
  <2>5. QED
    BY <1>2, <2>2, <2>4 DEF ClientInv
<1>4. CASE infer'[c] # "raised"
  <2>1. Answer(c, Output(c)) /\ UNCHANGED job
    BY <1>1, <1>4
  <2>2. raw[c] \in Ends
    <3>1. /\ Waiting(c) /\ future[c] \in {"finished", "cancelled"}
          /\ infer' = [infer EXCEPT ![c] = IF Raises(c) THEN "raised" ELSE "returned"]
      BY <1>1 DEF InferEnds
    <3>2. future[c] = "finished"
      BY <1>4, <3>1 DEF Raises, ClientInv, OperatorInv
    <3>3. QED
      BY <3>1, <3>2 DEF ClientInv, OperatorInv
  <2>3. job[c] \in [id : Jobs, version : Nat]
    BY <1>1 DEF ClientInv, BridgeInv
  <2>4. Output(c) = None \/ \E o \in Outputs : Output(c) = GroundAnchors(o, Limits[job[c].id])
    <3>1. CASE raw[c].how = "output"
      <4>1. raw[c].anchors \in Outputs
        BY <2>2, <3>1, OperatorConstants DEF Ends
      <4>2. Output(c) = GroundAnchors(raw[c].anchors, Limits[job[c].id])
        BY <2>3, <3>1, <4>1 DEF Output, GroundedFor
      <4>3. QED
        BY <4>1, <4>2
    <3>2. CASE raw[c].how # "output"
      BY <3>2 DEF Output
    <3>3. QED
      BY <3>1, <3>2
  <2>5. /\ handler' \in [Calls -> {"idle", "infer", "submit", "over"}]
        /\ answer' \in [Calls -> [Anchors -> AnchorValues] \cup {None}]
        /\ \A d \in Calls : HandlerInv(d)'
        /\ Finished' = Finished
        /\ AnswerInv'
    <3>1. PICK output : output = Output(c)
      OBVIOUS
    <3>2. /\ Answer(c, output)
          /\ output = None \/ \E o \in Outputs : output = GroundAnchors(o, Limits[job[c].id])
      BY <2>1, <2>4, <3>1
    <3>3. infer'[c] # "waiting"
      BY <1>2
    <3>4. QED
      BY <1>1, <1>2, <2>1, <3>2, <3>3, AnswerKeeps
  <2>6. \A i \in Jobs : version'[i] <= MaxVersion + Cardinality(Finished')
    BY <1>1, <2>5, VersionsKept DEF ClientInv
  <2>7. BridgeInv'
    BY <1>1, <2>1, <2>5, <2>6 DEF ClientInv, BridgeInv, HandlerInv, NoStaleAnswer
  <2>8. QED
    BY <1>2, <2>5, <2>7 DEF ClientInv
<1>5. QED
  BY <1>3, <1>4

LEMMA ExpireKeeps ==
  ASSUME ClientInv, NEW c \in Calls, Expire(c)
  PROVE  ClientInv'
<1>1. /\ handler[c] = "infer" /\ DeadlineElapses(c) /\ Answer(c, None)
      /\ UNCHANGED <<job, version, pending, applied>>
  BY DEF Expire
<1>2. /\ OperatorInv' /\ infer'[c] \in {"returned", "raised"}
      /\ \A d \in Calls \ {c} : infer'[d] = infer[d]
  BY <1>1, InferOverKeeps DEF ClientInv
<1>3. infer'[c] # "waiting" /\ UNCHANGED job
  BY <1>1, <1>2
<1>4. /\ handler' \in [Calls -> {"idle", "infer", "submit", "over"}]
      /\ answer' \in [Calls -> [Anchors -> AnchorValues] \cup {None}]
      /\ \A d \in Calls : HandlerInv(d)'
      /\ Finished' = Finished
      /\ AnswerInv'
  BY <1>1, <1>2, <1>3, AnswerKeeps
<1>5. \A i \in Jobs : version'[i] <= MaxVersion + Cardinality(Finished')
  BY <1>1, <1>4, VersionsKept DEF ClientInv
<1>6. BridgeInv'
  BY <1>1, <1>4, <1>5 DEF ClientInv, BridgeInv, HandlerInv, NoStaleAnswer
<1>7. QED
  BY <1>2, <1>4, <1>6 DEF ClientInv

(* The one step that applies an answer; it also ends the call, which pays  *)
(* for the version it adds.                                                *)
LEMMA SubmitKeeps ==
  ASSUME ClientInv, NEW c \in Calls, Submit(c)
  PROVE  ClientInv'
<1>1. /\ handler[c] = "submit" /\ Over(c) /\ UNCHANGED operatorVars
      /\ \/ /\ job[c].id \in pending /\ Expected(c) \in {None, version[job[c].id]}
            /\ Apply(c, job[c].id)
         \/ UNCHANGED <<version, pending, applied>>
  BY DEF Submit
<1>2. OperatorInv'
  BY <1>1 DEF ClientInv, OperatorInv, operatorVars, Orphans, Waiting
<1>3. infer'[c] # "waiting" /\ \A d \in Calls \ {c} : infer'[d] = infer[d]
  BY <1>1 DEF ClientInv, BridgeInv, Waiting, operatorVars
<1>4. /\ handler' \in [Calls -> {"idle", "infer", "submit", "over"}]
      /\ job' \in [Calls -> [id : Jobs, version : Nat] \cup {None}]
      /\ answer' \in [Calls -> [Anchors -> AnchorValues] \cup {None}]
      /\ \A d \in Calls : HandlerInv(d)'
      /\ Finished' = Finished \cup {c}
      /\ AnswerInv'
  BY <1>1, <1>3, OverKeeps
<1>5. CASE UNCHANGED <<version, pending, applied>>
  <2>1. \A i \in Jobs : version'[i] <= MaxVersion + Cardinality(Finished')
    BY <1>4, <1>5, VersionsKept DEF ClientInv
  <2>2. BridgeInv'
    BY <1>4, <1>5, <2>1 DEF ClientInv, BridgeInv, HandlerInv, NoStaleAnswer
  <2>3. QED
    BY <1>2, <1>4, <2>2 DEF ClientInv
<1>6. CASE /\ job[c].id \in pending /\ Expected(c) \in {None, version[job[c].id]}
           /\ Apply(c, job[c].id)
  <2>1. PICK j : j = job[c].id
    OBVIOUS
  <2>2. /\ applied' = applied \cup {[read |-> job[c].version, at |-> version[j]]}
        /\ pending' = pending \ {j}
        /\ version' = [version EXCEPT ![j] = @ + 1]
    BY <1>6, <2>1 DEF Apply
  <2>3. job[c] \in [id : Jobs, version : Nat]
    BY <1>1 DEF ClientInv, BridgeInv
  <2>4. j \in Jobs /\ job[c].version \in Nat
    BY <2>1, <2>3
  <2>5. job[c].version = version[j]
    BY <1>6, <2>1, <2>4, BridgeConstants DEF Expected
  <2>6. NoStaleAnswer'
    <3>1. NoStaleAnswer
      BY DEF ClientInv, BridgeInv
    <3>2. \A a \in applied' : a \in applied \/ a = [read |-> job[c].version, at |-> version[j]]
      BY <2>2
    <3>3. \A a \in applied' : a.read = a.at
      BY <2>5, <3>1, <3>2 DEF NoStaleAnswer
    <3>4. QED
      BY <3>3 DEF NoStaleAnswer
  <2>7. version' \in [Jobs -> Nat] /\ pending' \subseteq Jobs
    BY <2>2, <2>4 DEF ClientInv, BridgeInv
  <2>8. \A i \in Jobs : version'[i] <= MaxVersion + Cardinality(Finished')
    <3>1. c \notin Finished
      BY <1>1 DEF Finished
    <3>2. Cardinality(Finished') = Cardinality(Finished) + 1
      BY <1>4, <3>1, FinishedFinite, FS_AddElement
    <3>3. \A i \in Jobs : version[i] \in Nat /\ version[i] <= MaxVersion + Cardinality(Finished)
      BY DEF ClientInv, BridgeInv
    <3>4. \A i \in Jobs : version'[i] = version[i] \/ version'[i] = version[i] + 1
      BY <2>2 DEF ClientInv, BridgeInv
    <3>5. MaxVersion \in Nat
      BY BridgeConstants
    <3>6. QED
      BY <3>2, <3>3, <3>4, <3>5, FinishedFinite
  <2>9. BridgeInv'
    BY <1>4, <2>6, <2>7, <2>8 DEF BridgeInv, HandlerInv
  <2>10. QED
    BY <1>2, <1>4, <2>9 DEF ClientInv
<1>7. QED
  BY <1>1, <1>5, <1>6

LEMMA JobMovesKeeps ==
  ASSUME ClientInv, NEW j \in Jobs, JobMoves(j)
  PROVE  ClientInv'
<1>1. /\ version[j] < MaxVersion
      /\ version' = [version EXCEPT ![j] = @ + 1]
      /\ pending' \in {pending \cup {j}, pending \ {j}}
      /\ UNCHANGED <<operatorVars, handler, job, answer, applied>>
  BY DEF JobMoves
<1>2. OperatorInv'
  BY <1>1 DEF ClientInv, OperatorInv, operatorVars, Orphans, Waiting
<1>3. version' \in [Jobs -> Nat] /\ pending' \subseteq Jobs
  BY <1>1 DEF ClientInv, BridgeInv
<1>4. \A i \in Jobs : version'[i] <= MaxVersion + Cardinality(Finished')
  <2>1. Finished' = Finished
    BY <1>1 DEF Finished
  <2>2. version[j] \in Nat /\ MaxVersion \in Nat
    BY BridgeConstants DEF ClientInv, BridgeInv
  <2>3. \A i \in Jobs : version'[i] = IF i = j THEN version[j] + 1 ELSE version[i]
    BY <1>1 DEF ClientInv, BridgeInv
  <2>4. \A i \in Jobs : version[i] <= MaxVersion + Cardinality(Finished)
    BY DEF ClientInv, BridgeInv
  <2>5. QED
    BY <1>1, <2>1, <2>2, <2>3, <2>4, FinishedFinite
<1>5. \A d \in Calls : HandlerInv(d)'
  BY <1>1 DEF HandlerInv, Waiting, operatorVars, ClientInv, BridgeInv
<1>6. BridgeInv'
  BY <1>1, <1>3, <1>4, <1>5 DEF ClientInv, BridgeInv, HandlerInv, NoStaleAnswer
<1>7. AnswerInv'
  BY <1>1 DEF ClientInv, AnswerInv
<1>8. QED
  BY <1>2, <1>6, <1>7 DEF ClientInv

LEMMA HandlerCancelledKeeps ==
  ASSUME ClientInv, NEW c \in Calls, HandlerCancelled(c)
  PROVE  ClientInv'
<1>1. /\ \/ handler[c] = "infer" /\ InferCancelled(c)
         \/ handler[c] = "submit" /\ UNCHANGED operatorVars
      /\ Over(c) /\ UNCHANGED <<version, pending, applied>>
  BY DEF HandlerCancelled
<1>2. /\ OperatorInv' /\ infer'[c] # "waiting"
      /\ \A d \in Calls \ {c} : infer'[d] = infer[d]
  <2>1. CASE handler[c] = "infer" /\ InferCancelled(c)
    <3>1. /\ OperatorInv' /\ infer'[c] \in {"returned", "raised"}
          /\ \A d \in Calls \ {c} : infer'[d] = infer[d]
      BY <2>1, InferOverKeeps DEF ClientInv
    <3>2. QED
      BY <3>1
  <2>2. CASE handler[c] = "submit" /\ UNCHANGED operatorVars
    <3>1. OperatorInv'
      BY <2>2 DEF ClientInv, OperatorInv, operatorVars, Orphans, Waiting
    <3>2. QED
      BY <2>2, <3>1 DEF ClientInv, BridgeInv, Waiting, operatorVars
  <2>3. QED
    BY <1>1, <2>1, <2>2
<1>3. /\ handler' \in [Calls -> {"idle", "infer", "submit", "over"}]
      /\ job' \in [Calls -> [id : Jobs, version : Nat] \cup {None}]
      /\ answer' \in [Calls -> [Anchors -> AnchorValues] \cup {None}]
      /\ \A d \in Calls : HandlerInv(d)'
      /\ Finished' = Finished \cup {c}
      /\ AnswerInv'
  BY <1>1, <1>2, OverKeeps
<1>4. \A i \in Jobs : version'[i] <= MaxVersion + Cardinality(Finished')
  BY <1>1, <1>3, VersionsKept DEF ClientInv
<1>5. BridgeInv'
  BY <1>1, <1>3, <1>4 DEF ClientInv, BridgeInv, HandlerInv, NoStaleAnswer
<1>6. QED
  BY <1>2, <1>3, <1>5 DEF ClientInv

(* Threads and close leave the bridge alone, and who waits for infer.      *)
LEMMA BehindKeeps ==
  ASSUME ClientInv, Threads \/ OperatorCloses
  PROVE  ClientInv'
<1>1. (ThreadStep \/ Close) /\ UNCHANGED bridgeVars
  BY DEF Threads, OperatorCloses
<1>2. OperatorInv' /\ UNCHANGED infer
  <2>1. CASE WorkerTakes
    BY <2>1, WorkerTakesKeeps DEF WorkerTakes, ClientInv
  <2>2. ASSUME NEW c \in Calls, NEW end \in Ends, ExtractEnds(c, end)
        PROVE  OperatorInv' /\ UNCHANGED infer
    BY <2>2, ExtractEndsKeeps DEF ExtractEnds, ClientInv
  <2>3. CASE Close
    BY <2>3, CloseKeeps DEF Close, ClientInv
  <2>4. QED
    BY <1>1, <2>1, <2>2, <2>3 DEF ThreadStep
<1>3. \A c \in Calls : HandlerInv(c)'
  BY <1>1, <1>2 DEF HandlerInv, Waiting, bridgeVars, ClientInv, BridgeInv
<1>4. Finished' = Finished
  BY <1>1 DEF Finished, bridgeVars
<1>5. BridgeInv'
  BY <1>1, <1>3, <1>4 DEF ClientInv, BridgeInv, HandlerInv, NoStaleAnswer, bridgeVars
<1>6. AnswerInv'
  BY <1>1 DEF ClientInv, AnswerInv, bridgeVars
<1>7. QED
  BY <1>2, <1>5, <1>6 DEF ClientInv

-----------------------------------------------------------------------------
(* Theorems *)

LEMMA ClientStarts == BridgeInit => ClientInv
<1> SUFFICES ASSUME BridgeInit
             PROVE  ClientInv
  OBVIOUS
<1>1. OperatorInv
  BY OperatorStarts DEF BridgeInit
<1>2. \A j \in Jobs : version[j] <= MaxVersion + Cardinality(Finished)
  BY FinishedFinite, BridgeConstants DEF BridgeInit
<1>3. BridgeInv
  BY <1>2 DEF BridgeInit, BridgeInv, OperatorInit, NoStaleAnswer, Waiting
<1>4. AnswerInv
  BY DEF BridgeInit, AnswerInv
<1>5. QED
  BY <1>1, <1>3, <1>4 DEF ClientInv

LEMMA ClientStep == ClientInv /\ [BridgeNext]_vars => ClientInv'
<1> SUFFICES ASSUME ClientInv, [BridgeNext]_vars
             PROVE  ClientInv'
  OBVIOUS
<1>1. ASSUME NEW c \in Calls, NEW j \in Jobs, NothingToDo(c, j) \/ HandleInterrupt(c, j)
      PROVE  ClientInv'
  BY <1>1, NothingToDoKeeps, HandleInterruptKeeps
<1>2. ASSUME NEW c \in Calls, Handling(c) \/ HandlerCancelled(c)
      PROVE  ClientInv'
  BY <1>2, ResumeKeeps, ExpireKeeps, SubmitKeeps, HandlerCancelledKeeps DEF Handling
<1>3. ASSUME NEW j \in Jobs, JobMoves(j)
      PROVE  ClientInv'
  BY <1>3, JobMovesKeeps
<1>4. CASE Threads \/ OperatorCloses
  BY <1>4, BehindKeeps
<1>5. CASE UNCHANGED vars
  <2>1. UNCHANGED <<queue, worker, future, raw, infer, closes, disturbed,
                    handler, job, answer, version, pending, applied>>
    BY <1>5 DEF vars, operatorVars, bridgeVars
  <2>2. OperatorInv'
    BY <2>1 DEF ClientInv, OperatorInv, Orphans, Waiting
  <2>3. BridgeInv'
    BY <2>1 DEF ClientInv, BridgeInv, Finished, Waiting, NoStaleAnswer
  <2>4. AnswerInv'
    BY <2>1 DEF ClientInv, AnswerInv
  <2>5. QED
    BY <2>2, <2>3, <2>4 DEF ClientInv
<1>6. QED
  BY <1>1, <1>2, <1>3, <1>4, <1>5 DEF BridgeNext

LEMMA ClientInvariant == BridgeSpec => []ClientInv
<1>1. QED
  BY ClientStarts, ClientStep, PTL DEF BridgeSpec

(* infer degrades (operator.py:75): it raises to nobody but a caller that  *)
(* was cancelled or was queued when close() came, however extract ends;    *)
(* and the states of the operator and the bridge fit together.             *)
THEOREM InferDegrades == BridgeSpec => []RaisesOnlyDisturbed
<1>1. ClientInv => RaisesOnlyDisturbed
  <2> SUFFICES ASSUME ClientInv
               PROVE  RaisesOnlyDisturbed
    OBVIOUS
  <2>1. OperatorTypeOK
    BY DEF ClientInv, OperatorInv, OperatorTypeOK, Orphans
  <2>2. version \in [Jobs -> 0..(MaxVersion + Cardinality(Calls))]
    <3>1. Cardinality(Finished) <= Cardinality(Calls) /\ Cardinality(Calls) \in Nat
      BY OperatorConstants, FS_Subset, FS_CardinalityType DEF Finished
    <3>2. MaxVersion \in Nat
      BY BridgeConstants
    <3>3. ASSUME NEW j \in Jobs
          PROVE  version[j] \in 0..(MaxVersion + Cardinality(Calls))
      <4>1. version[j] \in Nat /\ version[j] <= MaxVersion + Cardinality(Finished)
        BY DEF ClientInv, BridgeInv
      <4>2. QED
        BY <3>1, <3>2, <4>1, FinishedFinite
    <3>4. QED
      BY <3>3 DEF ClientInv, BridgeInv
  <2>3. BridgeTypeOK
    BY <2>1, <2>2 DEF BridgeTypeOK, ClientInv, BridgeInv
  <2>4. QED
    BY <2>3 DEF RaisesOnlyDisturbed, ClientInv, OperatorInv
<1>2. QED
  BY <1>1, ClientInvariant, PTL

(* An answer is never applied to another version of the job than it was    *)
(* worked out for (bridge.py passes the version of its snapshot on).       *)
THEOREM AnswersAreFresh == BridgeSpec => []NoStaleAnswer
<1>1. ClientInv => NoStaleAnswer
  BY DEF ClientInv, BridgeInv
<1>2. QED
  BY <1>1, ClientInvariant, PTL

(* What is submitted is what the service would make of it: ground_anchors  *)
(* leaves its own result alone and within the caps, whatever the model     *)
(* returned and whatever the caps are.                                     *)
THEOREM AnswersStand == BridgeSpec => []ShipsWhatIsAccepted
<1>1. ClientInv => ShipsWhatIsAccepted
  <2> SUFFICES ASSUME ClientInv, NEW c \in Calls, answer[c] # None
               PROVE  /\ GroundAnchors(answer[c], Limits[job[c].id]) = answer[c]
                      /\ Fits(answer[c], Limits[job[c].id])
    BY DEF ShipsWhatIsAccepted
  <2>1. job[c] \in [id : Jobs, version : Nat]
    BY DEF ClientInv, BridgeInv
  <2>2. Limits[job[c].id] \in [value : Nat, total : Nat]
    BY <2>1, BridgeConstants
  <2>3. Stands(answer[c], Limits[job[c].id])
    BY <2>2, MissingStands, OutputStands DEF ClientInv, AnswerInv
  <2>4. QED
    BY <2>3 DEF Stands
<1>2. QED
  BY <1>1, ClientInvariant, PTL

(* The worker thread begins no call whose deadline passed, whose caller was*)
(* cancelled or that close() cancelled (operator.py:139-148).              *)
THEOREM AbandonedStaysQueued == BridgeSpec => AbandonedNeverStarts
<1> DEFINE Begins == \A c \in Calls : future[c] # "running" /\ future'[c] = "running"
                       => Waiting(c) /\ c \notin disturbed
<1>1. ClientInv /\ [BridgeNext]_vars => Begins
  <2> SUFFICES ASSUME ClientInv, [BridgeNext]_vars, NEW c \in Calls,
                      future[c] # "running", future'[c] = "running"
               PROVE  Waiting(c) /\ c \notin disturbed
    OBVIOUS
  <2>1. future[c] = "pending" => Waiting(c) /\ c \notin disturbed
    BY DEF ClientInv, OperatorInv
  <2>2. future \in [Calls -> {"none", "pending", "running", "finished", "cancelled"}]
    BY DEF ClientInv, OperatorInv
  <2>3. ASSUME NEW cs
        PROVE  future' # Cancelled(future, cs)
    BY <2>2 DEF Cancelled
  <2>4. CASE WorkerTakes
    BY <2>1, <2>2, <2>4 DEF WorkerTakes
  <2>5. ASSUME NEW d \in Calls, InferStart(d)
        PROVE  FALSE
    BY <2>2, <2>5 DEF InferStart
  <2>6. ASSUME NEW d \in Calls, NEW end \in Ends, ExtractEnds(d, end)
        PROVE  FALSE
    BY <2>2, <2>6 DEF ExtractEnds
  <2>7. future' # future
    OBVIOUS
  <2>8. CASE Threads \/ OperatorCloses
    BY <2>3, <2>4, <2>6, <2>8 DEF Threads, ThreadStep, OperatorCloses, Close
  <2>9. ASSUME NEW d \in Calls, Handling(d) \/ HandlerCancelled(d)
        PROVE  FALSE
    BY <2>3, <2>7, <2>9 DEF Handling, Resume, Expire, Submit, HandlerCancelled, InferEnds,
                            DeadlineElapses, InferCancelled, operatorVars
  <2>10. ASSUME NEW d \in Calls, NEW j \in Jobs, NothingToDo(d, j) \/ HandleInterrupt(d, j)
         PROVE  FALSE
    BY <2>5, <2>7, <2>10 DEF NothingToDo, HandleInterrupt, operatorVars
  <2>11. ASSUME NEW j \in Jobs, JobMoves(j)
         PROVE  FALSE
    BY <2>7, <2>11 DEF JobMoves, operatorVars
  <2>12. CASE UNCHANGED vars
    BY <2>7, <2>12 DEF vars, operatorVars
  <2>13. QED
    BY <2>8, <2>9, <2>10, <2>11, <2>12 DEF BridgeNext
<1>2. QED
  BY <1>1, ClientInvariant, PTL DEF BridgeSpec, AbandonedNeverStarts
=============================================================================
