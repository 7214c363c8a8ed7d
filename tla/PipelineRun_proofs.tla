------------------------ MODULE PipelineRun_proofs ------------------------
(***************************************************************************)
(* One event through a pipeline, for every pipeline the builders can build *)
(* (routers nested as deep as WithGate rebinds), every clock and every     *)
(* order of answer, expiry and cancellation.                               *)
(*                                                                         *)
(* RaceInv is the race on its own.  PipelineInv adds the fold: the frames  *)
(* hold steps bound to the outermost gate, whatever ended is on the trail  *)
(* or in the status, and a cancelled review only drains.                   *)
(***************************************************************************)
EXTENDS PipelineRun, FiniteSetTheorems, SequenceTheorems, NaturalsInduction,
        WellFoundedInduction, TLAPS

-----------------------------------------------------------------------------
(* What the operators above build: pipelines whose actions carry their     *)
(* gate, at every depth a branch can be.                                   *)

GatedStep(step, gate) ==
  \/ step \in [kind : {"normalize", "state", "decide", "model"}]
  \/ step \in [kind : {"review"}, request : Requests]
  \/ /\ step.kind = "act"
     /\ step = [kind |-> "act", risk |-> step.risk, approval |-> step.approval, gate |-> gate]

GatedRoute(step, gate, Branch(_, _)) ==
  /\ step.kind = "route"
  /\ step = [kind |-> "route", default |-> step.default, routes |-> step.routes]
  /\ \A k \in DOMAIN step.routes : Branch(step.routes[k], gate)

Gated(p, gate, Branch(_, _)) ==
  /\ p = [gate |-> gate, steps |-> p.steps]
  /\ p.steps \in Seq({p.steps[s] : s \in DOMAIN p.steps})
  /\ \A s \in DOMAIN p.steps :
       GatedStep(p.steps[s], gate) \/ GatedRoute(p.steps[s], gate, Branch)

NoBranch(p, gate) == FALSE

(* No router; routers over straight pipelines; routers over those.         *)
Straight(p, gate)  == Gated(p, gate, NoBranch)
Branching(p, gate) == Gated(p, gate, Straight)
Nested(p, gate)    == Gated(p, gate, Branching)

(* The pipelines that run are bound to their gate.                         *)
Bound == \A p \in Pipelines : Nested(p, p.gate)

-----------------------------------------------------------------------------
(* The invariant *)

(* Where the two tasks are while resolve_review waits, and who has won.    *)
RaceInv ==
  /\ RaceTypeOK
  /\ phase \in Parks => request \in Requests
  /\ phase \in {"off", "resolved", "raised", "cancelled"} =>
       answer # "asking" /\ timer # "sleeping"
  /\ phase \in {"ask", "race"} =>
       /\ answer \in {"asking", "answered", "raised"}
       /\ replied <=> answer = "answered"
  /\ phase = "drainTimer" =>
       answer \in {"answered", "raised"} /\ (replied <=> answer = "answered")
  /\ phase = "drainAnswer" => ~replied
  /\ phase = "abortTimer" => answer # "asking"
  /\ phase = "ask" => timer # "sleeping"
  /\ answer = "answered" => reply \in Decisions
  /\ AnswerHonoured
  /\ outcome # None /\ outcome.source = "human" => replied

(* A frame's steps answer to the gate.                                     *)
FrameOf(f, gate) ==
  /\ f = [steps |-> f.steps, done |-> f.done]
  /\ f.done \in 0..Len(f.steps)
  /\ Nested([gate |-> gate, steps |-> f.steps], gate)

IsSeq(s) == s \in Seq({s[i] : i \in DOMAIN s})

Frames(st, gate) ==
  /\ IsSeq(st)
  /\ \A d \in DOMAIN st : FrameOf(st[d], gate)

Open(st) == st # <<>> => st[Len(st)].done < Len(st[Len(st)].steps)

FoldInv ==
  /\ pipeline \in Pipelines
  /\ pc \in {"run", "review", "invoke", "over"}
  /\ Frames(stack, pipeline.gate)
  /\ pc # "over" => stack # <<>> /\ Open(stack)
  /\ status \in {None, "completed", "rejected", "denied", "halted", "raised", "cancelled"}
  /\ status = None <=> pc # "over"

TrailInv ==
  /\ trail \in Seq({"ok", "rejected", "denied", "halted"})
  /\ \A s \in 1..Len(trail) : trail[s] # "ok" => s = Len(trail) /\ status = trail[s]
  /\ status \in {None, "completed", "raised", "cancelled"} =>
       \A s \in 1..Len(trail) : trail[s] = "ok"

(* Where a cancelled run can still be.                                     *)
CancelInv ==
  /\ cancel \in {None, "parked", "draining"}
  /\ cancel = "parked" =>
       pc = "over" \/ (pc = "review" /\ phase \in {"abortAnswer", "abortTimer", "cancelled"})

PipelineInv ==
  RaceInv /\ FoldInv /\ TrailInv /\ CancelInv /\ OneGateGoverns /\ TimeoutIsNoGrant

-----------------------------------------------------------------------------
(* The race *)

LEMMA RaceStarts == RaceInit => RaceInv
BY PipelineConstants DEF RaceInit, RaceInv, RaceTypeOK, AnswerHonoured, Parks

(* A new review forgets the last one.                                      *)
LEMMA RaceAsked ==
  ASSUME RaceInv, NEW req \in Requests, Ask(req)
  PROVE  RaceInv'
<1>1. RaceTypeOK'
  BY DEF Ask, RaceInv, RaceTypeOK, Parks, ExpiredOutcome, Outcome, Decisions, Defaults, Requests
<1>2. CASE req.expires # None /\ req.expires <= now
  <2>1. phase' = "resolved" /\ outcome' = ExpiredOutcome(req) /\ answer' = "none"
        /\ timer' = "none" /\ request' = req /\ ~replied'
    BY <1>2 DEF Ask
  <2>2. QED
    BY <1>1, <2>1 DEF RaceInv, AnswerHonoured, Parks, ExpiredOutcome, Outcome
<1>3. CASE ~(req.expires # None /\ req.expires <= now)
  <2>1. /\ phase' \in {"ask", "race"} /\ outcome' = None /\ answer' = "asking"
        /\ request' = req /\ ~replied'
        /\ phase' = "ask" => timer' = "none"
    BY <1>3 DEF Ask
  <2>2. QED
    BY <1>1, <2>1 DEF RaceInv, AnswerHonoured, Parks
<1>4. QED
  BY <1>2, <1>3

LEMMA RaceGoesOn ==
  ASSUME RaceInv, RaceStep \/ Tick \/ Human \/ CancelRace \/ CancelAsk
  PROVE  RaceInv'
<1> USE DEF RaceInv, RaceTypeOK, AnswerHonoured, Parks
<1>1. CASE TimerFires
  BY <1>1 DEF TimerFires
<1>2. CASE Wake
  BY <1>2 DEF Wake, AnswerDone
<1>3. CASE AskReturns
  BY <1>3 DEF AskReturns, Return, AnswerDone, Outcome, Decisions
<1>4. CASE DrainTimer
  BY <1>4 DEF DrainTimer, Return, Outcome, Decisions
<1>5. CASE DrainAnswer
  BY <1>5 DEF DrainAnswer, ExpiredOutcome, Outcome, Decisions, Requests
<1>6. CASE AbortAnswer
  BY <1>6 DEF AbortAnswer
<1>7. CASE AbortTimer
  BY <1>7 DEF AbortTimer
<1>8. CASE Tick
  BY <1>8, PipelineConstants DEF Tick
<1>9. CASE Human
  <2>1. CASE AskRaises
    BY <2>1 DEF AskRaises
  <2>2. ASSUME NEW d \in Decisions, HumanAnswers(d)
        PROVE  RaceInv'
    BY <2>2 DEF HumanAnswers
  <2>3. QED
    BY <1>9, <2>1, <2>2 DEF Human
<1>10. CASE CancelRace
  BY <1>10 DEF CancelRace
<1>11. CASE CancelAsk
  BY <1>11 DEF CancelAsk
<1>12. QED
  BY <1>1, <1>2, <1>3, <1>4, <1>5, <1>6, <1>7, <1>8, <1>9, <1>10, <1>11 DEF RaceStep

LEMMA RaceLeft ==
  ASSUME RaceInv, phase \in {"resolved", "raised", "cancelled"}, phase' = "off",
         UNCHANGED <<request, answer, reply, timer, outcome, now, replied>>
  PROVE  RaceInv'
BY DEF RaceInv, RaceTypeOK, AnswerHonoured, Parks

-----------------------------------------------------------------------------
(* Sequences and naturals *)

LEMMA SeqIsSeq ==
  ASSUME NEW S, NEW s \in Seq(S)
  PROVE  IsSeq(s)
<1> DEFINE T == {s[i] : i \in DOMAIN s}
<1>1. Len(s) \in Nat /\ s \in [1..Len(s) -> S]
  BY LenProperties
<1>2. s \in [1..Len(s) -> T]
  BY <1>1
<1>3. s \in Seq(T)
  <2> HIDE DEF T
  <2>1. QED
    BY <1>1, <1>2, SeqDef
<1>4. QED
  BY <1>3 DEF IsSeq

LEMMA IsSeqProperties ==
  ASSUME NEW s, IsSeq(s)
  PROVE  /\ Len(s) \in Nat
         /\ DOMAIN s = 1..Len(s)
         /\ s = <<>> <=> Len(s) = 0
<1>1. /\ Len(s) \in Nat
      /\ DOMAIN s = 1..Len(s)
  BY LenProperties DEF IsSeq
<1>2. s # <<>> => Len(s) # 0
  <2>1. PICK T : s \in Seq(T)
    BY DEF IsSeq
  <2>2. QED
    BY <2>1, EmptySeq
<1>3. QED
  BY <1>1, <1>2

(* A bounded set of naturals that is not empty has a greatest member.      *)
LEMMA Greatest ==
  ASSUME NEW n \in Nat, NEW S \in SUBSET (0..n), S # {}
  PROVE  \E m \in S : \A s \in S : s <= m
<1> DEFINE T == {n - s : s \in S}
           R == {ss \in Nat \X Nat : ss[1] < ss[2]}
<1>1. IsWellFoundedOn(R, Nat)
  BY NatLessThanWellFounded DEF OpToRel
<1>2. T \subseteq Nat /\ T # {}
  <2>1. \A s \in S : n - s \in Nat /\ n - s \in T
    OBVIOUS
  <2>2. QED
    BY <2>1
<1>3. PICK x \in T : \A y \in T : ~(<<y, x>> \in R)
  <2> HIDE DEF T, R
  <2>1. QED
    BY <1>1, <1>2, WFMin
<1>4. \A y \in T : x <= y
  <2>1. ASSUME NEW y \in T
        PROVE  x <= y
    <3>1. x \in Nat /\ y \in Nat
      BY <1>2
    <3>2. ~(y < x)
      BY <1>3, <3>1
    <3>3. QED
      BY <3>1, <3>2
  <2>2. QED
    BY <2>1
<1>5. PICK m \in S : x = n - m
  OBVIOUS
<1>6. ASSUME NEW s \in S
      PROVE  s <= m
  <2>1. n - s \in T
    OBVIOUS
  <2>2. n - m <= n - s
    BY <2>1, <1>4, <1>5
  <2>3. m \in Nat /\ s \in Nat
    OBVIOUS
  <2> HIDE DEF T, R
  <2>4. QED
    BY <2>2, <2>3
<1>7. QED
  BY <1>6

LEMMA FcnIsSeq ==
  ASSUME NEW n \in Nat, NEW f, f = [i \in 1..n |-> f[i]]
  PROVE  IsSeq(f) /\ Len(f) = n /\ DOMAIN f = 1..n
<1> DEFINE T == {f[i] : i \in DOMAIN f}
<1>1. f \in [1..n -> T]
  OBVIOUS
<1>2. f \in Seq(T)
  <2> HIDE DEF T
  <2>1. QED
    BY <1>1, SeqDef
<1>3. Len(f) = n
  <2>1. DOMAIN f = 1..n
    OBVIOUS
  <2>2. Len(f) \in Nat /\ DOMAIN f = 1..Len(f)
    BY <1>2, LenProperties
  <2>3. QED
    BY <2>1, <2>2
<1>4. QED
  BY <1>2, <1>3 DEF IsSeq

LEMMA AppendIsSeq ==
  ASSUME NEW s, IsSeq(s), NEW e
  PROVE  /\ IsSeq(Append(s, e))
         /\ Len(Append(s, e)) = Len(s) + 1
         /\ \A i \in 1..Len(s) : Append(s, e)[i] = s[i]
         /\ Append(s, e)[Len(s) + 1] = e
<1>1. PICK S : s \in Seq(S)
  BY DEF IsSeq
<1>2. s \in Seq(S \cup {e})
  BY <1>1, SeqMonotonic
<1>3. Append(s, e) \in Seq(S \cup {e})
  BY <1>2, AppendProperties
<1>4. IsSeq(Append(s, e))
  BY <1>3, SeqIsSeq
<1>5. QED
  BY <1>2, <1>4, AppendProperties

LEMMA PrefixIsSeq ==
  ASSUME NEW s, IsSeq(s), NEW n \in 0..Len(s)
  PROVE  /\ IsSeq(SubSeq(s, 1, n))
         /\ Len(SubSeq(s, 1, n)) = n
         /\ \A i \in 1..n : SubSeq(s, 1, n)[i] = s[i]
<1>1. PICK S : s \in Seq(S)
  BY DEF IsSeq
<1>2. Len(s) \in Nat
  BY <1>1, LenProperties
<1>3. \A i \in 1..n : s[i] \in S
  BY <1>1, <1>2, ElementOfSeq
<1>4. /\ SubSeq(s, 1, n) \in Seq(S)
      /\ Len(SubSeq(s, 1, n)) = IF 1 <= n THEN n - 1 + 1 ELSE 0
      /\ \A i \in 1..(n - 1 + 1) : SubSeq(s, 1, n)[i] = s[1 + i - 1]
  BY <1>2, <1>3, SubSeqProperties
<1>5. IsSeq(SubSeq(s, 1, n))
  BY <1>4, SeqIsSeq
<1>6. \A i \in 1..n : i \in 1..(n - 1 + 1) /\ 1 + i - 1 = i
  BY <1>2
<1>7. Len(SubSeq(s, 1, n)) = n
  BY <1>2, <1>4
<1>8. QED
  BY <1>4, <1>5, <1>6, <1>7

LEMMA ExceptIsSeq ==
  ASSUME NEW s, IsSeq(s), NEW i \in 1..Len(s), NEW e
  PROVE  /\ IsSeq([s EXCEPT ![i] = e])
         /\ Len([s EXCEPT ![i] = e]) = Len(s)
         /\ \A j \in 1..Len(s) : [s EXCEPT ![i] = e][j] = IF j = i THEN e ELSE s[j]
<1>1. PICK S : s \in Seq(S)
  BY DEF IsSeq
<1>2. s \in Seq(S \cup {e})
  BY <1>1, SeqMonotonic
<1>3. /\ [s EXCEPT ![i] = e] \in Seq(S \cup {e})
      /\ Len([s EXCEPT ![i] = e]) = Len(s)
      /\ \A j \in 1..Len(s) : [s EXCEPT ![i] = e][j] = IF j = i THEN e ELSE s[j]
  <2>1. e \in S \cup {e}
    OBVIOUS
  <2> DEFINE T == S \cup {e}
  <2> HIDE DEF T
  <2>2. s \in Seq(T) /\ e \in T
    BY <1>2, <2>1 DEF T
  <2>3. /\ [s EXCEPT ![i] = e] \in Seq(T)
        /\ Len([s EXCEPT ![i] = e]) = Len(s)
        /\ \A j \in 1..Len(s) : [s EXCEPT ![i] = e][j] = IF j = i THEN e ELSE s[j]
    BY <2>2, ExceptSeq
  <2>4. QED
    BY <2>3 DEF T
<1>4. IsSeq([s EXCEPT ![i] = e])
  BY <1>3, SeqIsSeq
<1>5. QED
  BY <1>3, <1>4

-----------------------------------------------------------------------------
(* What the builders build *)

LEMMA NestedSteps ==
  ASSUME NEW p, NEW g, Nested(p, g)
  PROVE  /\ IsSeq(p.steps)
         /\ p.gate = g
         /\ \A s \in 1..Len(p.steps) :
              GatedStep(p.steps[s], g) \/ GatedRoute(p.steps[s], g, Branching)
BY IsSeqProperties DEF Nested, Gated, IsSeq

LEMMA NestedThen ==
  ASSUME NEW p, NEW g, Nested(p, g), NEW step,
         GatedStep(step, g) \/ GatedRoute(step, g, Branching)
  PROVE  Nested(Then(p, step), g)
<1> DEFINE q == Then(p, step)
<1>1. q = [gate |-> g, steps |-> Append(p.steps, step)]
  <2>1. p = [gate |-> g, steps |-> p.steps]
    BY DEF Nested, Gated
  <2>2. QED
    BY <2>1 DEF Then
<1>2. IsSeq(p.steps)
  BY DEF Nested, Gated, IsSeq
<1>3. q.steps = Append(p.steps, step) /\ IsSeq(q.steps)
  BY <1>1, <1>2, AppendIsSeq
<1>4. \A s \in DOMAIN q.steps :
        GatedStep(q.steps[s], g) \/ GatedRoute(q.steps[s], g, Branching)
  <2> HIDE DEF q
  <2>1. DOMAIN q.steps = 1..(Len(p.steps) + 1)
    BY <1>2, <1>3, AppendIsSeq, IsSeqProperties
  <2>2. \A s \in 1..Len(p.steps) : q.steps[s] = p.steps[s]
    BY <1>2, <1>3, AppendIsSeq
  <2>3. q.steps[Len(p.steps) + 1] = step
    BY <1>2, <1>3, AppendIsSeq
  <2>4. Len(p.steps) \in Nat
    BY <1>2, IsSeqProperties
  <2>5. QED
    BY <2>1, <2>2, <2>3, <2>4, NestedSteps
<1>5. QED
  BY <1>1, <1>3, <1>4 DEF Nested, Gated, IsSeq

(* Rebinding a straight pipeline binds every action of it.                 *)
LEMMA ShallowRebinds ==
  ASSUME NEW p, NEW h, Straight(p, h), NEW g
  PROVE  Straight(WithGateShallow(p, g), g)
<1> DEFINE q == WithGateShallow(p, g)
           rebound(s) == IF p.steps[s].kind = "act" THEN [p.steps[s] EXCEPT !.gate = g]
                                                    ELSE p.steps[s]
<1>1. IsSeq(p.steps) /\ Len(p.steps) \in Nat /\ DOMAIN p.steps = 1..Len(p.steps)
  <2>1. IsSeq(p.steps)
    BY DEF Straight, Gated, IsSeq
  <2>2. QED
    BY <2>1, IsSeqProperties
<1>2. q = [gate |-> g, steps |-> q.steps] /\ q.steps = [s \in 1..Len(p.steps) |-> rebound(s)]
  BY DEF WithGateShallow
<1>3. IsSeq(q.steps) /\ DOMAIN q.steps = 1..Len(p.steps)
  <2>1. q.steps = [s \in 1..Len(p.steps) |-> q.steps[s]]
    BY <1>2
  <2> HIDE DEF q
  <2>2. QED
    BY <1>1, <2>1, FcnIsSeq
<1>4. ASSUME NEW s \in 1..Len(p.steps)
      PROVE  GatedStep(q.steps[s], g) \/ GatedRoute(q.steps[s], g, NoBranch)
  <2>1. q.steps[s] = rebound(s)
    BY <1>2
  <2>2. GatedStep(p.steps[s], h) \/ GatedRoute(p.steps[s], h, NoBranch)
    BY <1>1 DEF Straight, Gated
  <2>3. CASE p.steps[s].kind = "act"
    <3>1. p.steps[s] = [kind |-> "act", risk |-> p.steps[s].risk,
                        approval |-> p.steps[s].approval, gate |-> h]
      BY <2>2, <2>3 DEF GatedStep, GatedRoute
    <3>2. q.steps[s] = [kind |-> "act", risk |-> p.steps[s].risk,
                        approval |-> p.steps[s].approval, gate |-> g]
      BY <2>1, <2>3, <3>1
    <3>3. QED
      BY <3>2 DEF GatedStep
  <2>4. CASE p.steps[s].kind # "act"
    <3>1. q.steps[s] = p.steps[s]
      BY <2>1, <2>4
    <3> HIDE DEF q
    <3>2. QED
      BY <2>2, <2>4, <3>1 DEF GatedStep, GatedRoute, NoBranch
  <2>5. QED
    BY <2>3, <2>4
<1>5. QED
  BY <1>2, <1>3, <1>4 DEF Straight, Gated, IsSeq

(* Rebinding one whose routers hold straight pipelines binds those too.    *)
LEMMA WithGateRebinds ==
  ASSUME NEW p, NEW h, Branching(p, h), NEW g
  PROVE  Branching(WithGate(p, g), g)
<1> DEFINE q == WithGateShallow(p, g)
           r == WithGate(p, g)
           again(routes) == [k \in DOMAIN routes |-> WithGateShallow(routes[k], g)]
           rebound(s) == IF q.steps[s].kind = "route"
                           THEN [q.steps[s] EXCEPT !.routes = again(q.steps[s].routes)]
                           ELSE q.steps[s]
<1>1. IsSeq(p.steps) /\ Len(p.steps) \in Nat /\ DOMAIN p.steps = 1..Len(p.steps)
  <2>1. IsSeq(p.steps)
    BY DEF Branching, Gated, IsSeq
  <2>2. QED
    BY <2>1, IsSeqProperties
<1>2. q = [gate |-> g, steps |-> [s \in 1..Len(p.steps) |->
             IF p.steps[s].kind = "act" THEN [p.steps[s] EXCEPT !.gate = g] ELSE p.steps[s]]]
  BY DEF WithGateShallow
<1>3. r = [gate |-> g, steps |-> r.steps] /\ r.steps = [s \in 1..Len(p.steps) |-> rebound(s)]
  <2>1. q = [gate |-> g, steps |-> q.steps] /\ DOMAIN q.steps = 1..Len(p.steps)
    BY <1>2
  <2>2. r = [gate |-> g, steps |-> [s \in DOMAIN q.steps |-> rebound(s)]]
    BY DEF WithGate
  <2> HIDE DEF q, r, rebound
  <2>3. QED
    BY <2>1, <2>2
<1>4. IsSeq(r.steps) /\ DOMAIN r.steps = 1..Len(p.steps)
  <2>1. r.steps = [s \in 1..Len(p.steps) |-> r.steps[s]]
    BY <1>3
  <2> HIDE DEF r
  <2>2. QED
    BY <1>1, <2>1, FcnIsSeq
<1>5. ASSUME NEW s \in 1..Len(p.steps)
      PROVE  GatedStep(r.steps[s], g) \/ GatedRoute(r.steps[s], g, Straight)
  <2> DEFINE step == p.steps[s]
  <2>1. r.steps[s] = rebound(s)
    BY <1>3
  <2>2. GatedStep(step, h) \/ GatedRoute(step, h, Straight)
    BY <1>1 DEF Branching, Gated
  <2>3. q.steps[s] = IF step.kind = "act" THEN [step EXCEPT !.gate = g] ELSE step
    BY <1>2
  <2>4. CASE step.kind = "act"
    <3>1. step = [kind |-> "act", risk |-> step.risk, approval |-> step.approval, gate |-> h]
      BY <2>2, <2>4 DEF GatedStep, GatedRoute
    <3>2. q.steps[s] = [kind |-> "act", risk |-> step.risk, approval |-> step.approval,
                        gate |-> g]
      BY <2>3, <2>4, <3>1
    <3>3. r.steps[s] = q.steps[s]
      BY <2>1, <3>2
    <3>4. QED
      BY <3>2, <3>3 DEF GatedStep
  <2>5. CASE step.kind = "route"
    <3>1. /\ step = [kind |-> "route", default |-> step.default, routes |-> step.routes]
          /\ \A k \in DOMAIN step.routes : Straight(step.routes[k], h)
      BY <2>2, <2>5 DEF GatedStep, GatedRoute
    <3>2. q.steps[s] = step
      BY <2>3, <2>5
    <3>3. r.steps[s] = [kind |-> "route", default |-> step.default,
                        routes |-> again(step.routes)]
      <4> HIDE DEF again, q, r, step
      <4>1. r.steps[s] = [step EXCEPT !.routes = again(step.routes)]
        BY <2>1, <2>5, <3>2
      <4>2. QED
        BY <3>1, <4>1
    <3> DEFINE branches == again(step.routes)
    <3>4. \A k \in DOMAIN branches : Straight(branches[k], g)
      BY <3>1, ShallowRebinds
    <3>5. GatedRoute([kind |-> "route", default |-> step.default, routes |-> branches], g,
                     Straight)
      <4> HIDE DEF branches, step
      <4>1. QED
        BY <3>4 DEF GatedRoute
    <3> HIDE DEF branches, again, q, r, step
    <3>6. QED
      BY <3>3, <3>5 DEF branches
  <2>6. CASE step.kind \notin {"act", "route"}
    <3>1. r.steps[s] = step
      BY <2>1, <2>3, <2>6
    <3>2. GatedStep(step, g)
      <4> HIDE DEF step
      <4>1. QED
        BY <2>2, <2>6 DEF GatedStep, GatedRoute
    <3> HIDE DEF q, r, step
    <3>3. QED
      BY <3>1, <3>2
  <2>7. QED
    BY <2>4, <2>5, <2>6
<1>6. QED
  BY <1>3, <1>4, <1>5 DEF Branching, Gated, IsSeq

(* Pipelines bound to their gate stay so whatever is added, at any depth   *)
(* the model has: Pipeline.route rebinds every branch, whatever gate it    *)
(* was built with.                                                         *)
THEOREM BuildersBind ==
  ASSUME NEW gate, NEW p, Nested(p, p.gate)
  PROVE  /\ Nested(New(gate), gate)
         /\ \A q \in {Normalize(p), State(p), Decide(p), Model(p)} : Nested(q, p.gate)
         /\ \A default \in Defaults, expires \in 0..MaxTime \cup {None} :
              Nested(Review(p, default, expires), p.gate)
         /\ \A risk, approval : Nested(Act(p, risk, approval), p.gate)
         /\ \A routes, default :
              (\A k \in DOMAIN routes : Branching(routes[k], routes[k].gate))
                => Nested(Route(p, routes, default), p.gate)
<1>1. Nested(New(gate), gate)
  <2>1. New(gate).steps = <<>> /\ New(gate) = [gate |-> gate, steps |-> New(gate).steps]
    BY DEF New
  <2>2. DOMAIN (<<>>) = {} /\ IsSeq(<<>>)
    BY EmptySeq DEF IsSeq
  <2>3. QED
    BY <2>1, <2>2 DEF Nested, Gated, IsSeq
<1>2. \A q \in {Normalize(p), State(p), Decide(p), Model(p)} : Nested(q, p.gate)
  <2>1. \A kind \in {"normalize", "state", "decide", "model"} :
          GatedStep([kind |-> kind], p.gate)
    BY DEF GatedStep
  <2>2. \A kind \in {"normalize", "state", "decide", "model"} :
          Nested(Then(p, [kind |-> kind]), p.gate)
    BY <2>1, NestedThen
  <2>3. QED
    BY <2>2 DEF Normalize, State, Decide, Model
<1>3. \A default \in Defaults, expires \in 0..MaxTime \cup {None} :
        Nested(Review(p, default, expires), p.gate)
  <2>1. ASSUME NEW default \in Defaults, NEW expires \in 0..MaxTime \cup {None}
        PROVE  GatedStep([kind |-> "review",
                          request |-> [default |-> default, expires |-> expires]], p.gate)
    BY DEF GatedStep, Requests
  <2>2. QED
    BY <2>1, NestedThen DEF Review
<1>4. ASSUME NEW risk, NEW approval
      PROVE  Nested(Act(p, risk, approval), p.gate)
  <2>1. GatedStep([kind |-> "act", risk |-> risk, approval |-> approval, gate |-> p.gate],
                  p.gate)
    BY DEF GatedStep
  <2>2. QED
    BY <2>1, NestedThen DEF Act
<1>5. ASSUME NEW routes, NEW default,
             \A k \in DOMAIN routes : Branching(routes[k], routes[k].gate)
      PROVE  Nested(Route(p, routes, default), p.gate)
  <2> DEFINE bound == [k \in DOMAIN routes |-> WithGate(routes[k], p.gate)]
             step == [kind |-> "route", default |-> default, routes |-> bound]
  <2>1. \A k \in DOMAIN bound : Branching(bound[k], p.gate)
    BY <1>5, WithGateRebinds
  <2>2. GatedRoute(step, p.gate, Branching)
    <3> HIDE DEF bound
    <3>1. QED
      BY <2>1 DEF GatedRoute
  <2>3. Nested(Then(p, step), p.gate)
    <3> HIDE DEF step
    <3>1. QED
      BY <2>2, NestedThen
  <2>4. QED
    BY <2>3 DEF Route
<1>6. QED
  BY <1>1, <1>2, <1>3, <1>4, <1>5

LEMMA BranchingIsNested ==
  ASSUME NEW p, NEW g, Branching(p, g)
  PROVE  Nested(p, g)
<1>1. ASSUME NEW q, Straight(q, g)
      PROVE  Branching(q, g)
  BY <1>1 DEF Straight, Branching, Gated, GatedRoute, NoBranch
<1>2. QED
  BY <1>1 DEF Branching, Nested, Gated, GatedRoute

-----------------------------------------------------------------------------
(* The stack *)

LEMMA PushKeepsFrames ==
  ASSUME NEW st, NEW g, Frames(st, g), NEW p, Nested(p, g)
  PROVE  Frames(Append(st, Frame(p)), g)
<1> DEFINE f == Frame(p)
           pushed == Append(st, f)
<1>1. FrameOf(f, g)
  <2>1. p = [gate |-> g, steps |-> p.steps]
    BY DEF Nested, Gated
  <2>2. f.steps = p.steps /\ f.done = 0 /\ f = [steps |-> f.steps, done |-> f.done]
    BY DEF Frame
  <2>3. Len(p.steps) \in Nat
    BY NestedSteps, IsSeqProperties
  <2>4. Nested([gate |-> g, steps |-> f.steps], g)
    BY <2>1, <2>2
  <2>5. f.done \in 0..Len(f.steps)
    BY <2>2, <2>3
  <2> HIDE DEF f
  <2>6. QED
    BY <2>2, <2>4, <2>5 DEF FrameOf
<1>2. IsSeq(st) /\ Len(st) \in Nat /\ DOMAIN st = 1..Len(st)
  BY IsSeqProperties DEF Frames
<1> HIDE DEF f
<1>3. /\ IsSeq(pushed) /\ DOMAIN pushed = 1..(Len(st) + 1)
      /\ \A d \in 1..Len(st) : pushed[d] = st[d]
      /\ pushed[Len(st) + 1] = f
  BY <1>2, AppendIsSeq, IsSeqProperties
<1> HIDE DEF pushed
<1>4. \A d \in DOMAIN pushed : FrameOf(pushed[d], g)
  BY <1>1, <1>2, <1>3 DEF Frames
<1>5. Frames(pushed, g)
  BY <1>3, <1>4 DEF Frames
<1>6. QED
  BY <1>5 DEF pushed, f

LEMMA DoneKeepsFrames ==
  ASSUME NEW st, NEW g, Frames(st, g), st # <<>>, Open(st)
  PROVE  Frames([st EXCEPT ![Len(st)].done = @ + 1], g)
<1> DEFINE n == Len(st)
           f == [steps |-> st[n].steps, done |-> st[n].done + 1]
           next == [st EXCEPT ![n] = f]
<1>1. IsSeq(st) /\ n \in Nat \ {0} /\ DOMAIN st = 1..n
  BY IsSeqProperties DEF Frames
<1>2. FrameOf(st[n], g)
  BY <1>1 DEF Frames
<1>3. st[n] = [steps |-> st[n].steps, done |-> st[n].done]
  BY <1>2 DEF FrameOf
<1>4. [st[n] EXCEPT !.done = @ + 1] = f
  <2> DEFINE top == st[n]
  <2> HIDE DEF top
  <2>1. top = [steps |-> top.steps, done |-> top.done]
    BY <1>3 DEF top
  <2>2. [top EXCEPT !.done = @ + 1] = [steps |-> top.steps, done |-> top.done + 1]
    BY <2>1
  <2>3. QED
    BY <2>2 DEF top
<1>5. [st EXCEPT ![n].done = @ + 1] = next
  BY <1>4
<1>6. FrameOf(f, g)
  <2>1. Len(st[n].steps) \in Nat
    <3>1. IsSeq(st[n].steps)
      BY <1>2, NestedSteps DEF FrameOf
    <3>2. QED
      BY <3>1, IsSeqProperties
  <2>2. st[n].done + 1 \in 0..Len(st[n].steps)
    BY <1>2, <2>1 DEF FrameOf, Open
  <2>3. f.steps = st[n].steps /\ f.done = st[n].done + 1
        /\ f = [steps |-> f.steps, done |-> f.done]
    OBVIOUS
  <2> HIDE DEF f
  <2>4. QED
    BY <1>2, <2>2, <2>3 DEF FrameOf
<1> HIDE DEF f
<1>7. /\ IsSeq(next) /\ Len(next) = n
      /\ \A d \in 1..n : next[d] = IF d = n THEN f ELSE st[d]
  <2> HIDE DEF n
  <2>1. n \in 1..Len(st) /\ n = Len(st)
    BY <1>1 DEF n
  <2>2. /\ IsSeq(next) /\ Len(next) = Len(st)
        /\ \A d \in 1..Len(st) : next[d] = IF d = n THEN f ELSE st[d]
    BY <1>1, <2>1, ExceptIsSeq
  <2>3. QED
    BY <2>1, <2>2
<1>8. Frames(next, g)
  <2>1. DOMAIN next = 1..n
    BY <1>7, IsSeqProperties
  <2> HIDE DEF next
  <2>2. \A d \in DOMAIN next : FrameOf(next[d], g)
    BY <1>1, <1>6, <1>7, <2>1 DEF Frames
  <2>3. QED
    BY <1>7, <2>2 DEF Frames
<1>9. QED
  BY <1>5, <1>8

LEMMA UnfinishedFrames ==
  ASSUME NEW st, NEW g, Frames(st, g)
  PROVE  Frames(Unfinished(st), g) /\ Open(Unfinished(st))
<1> DEFINE open == {d \in 1..Len(st) : st[d].done < Len(st[d].steps)}
           top  == IF open = {} THEN 0 ELSE CHOOSE d \in open : \A o \in open : o <= d
           left == SubSeq(st, 1, top)
<1>1. IsSeq(st) /\ Len(st) \in Nat /\ DOMAIN st = 1..Len(st)
  BY IsSeqProperties DEF Frames
<1>2. top \in 0..Len(st) /\ (top # 0 => top \in open)
  <2>1. CASE open = {}
    BY <1>1, <2>1
  <2>2. CASE open # {}
    <3>1. open \in SUBSET (0..Len(st))
      BY <1>1
    <3>2. \E d \in open : \A o \in open : o <= d
      <4> HIDE DEF open
      <4>1. QED
        BY <1>1, <2>2, <3>1, Greatest
    <3>3. top \in open
      BY <2>2, <3>2
    <3>4. QED
      BY <1>1, <3>1, <3>3
  <2>3. QED
    BY <2>1, <2>2
<1>3. Unfinished(st) = left
  BY DEF Unfinished
<1>4. top # 0 => st[top].done < Len(st[top].steps)
  BY <1>2
<1> HIDE DEF top
<1>5. /\ IsSeq(left) /\ Len(left) = top /\ DOMAIN left = 1..top
      /\ \A d \in 1..top : left[d] = st[d]
  BY <1>1, <1>2, PrefixIsSeq, IsSeqProperties
<1> HIDE DEF left
<1>6. \A d \in DOMAIN left : FrameOf(left[d], g)
  BY <1>1, <1>2, <1>5 DEF Frames
<1>7. Open(left)
  <2>1. left # <<>> => top # 0
    BY <1>5, IsSeqProperties
  <2>2. top # 0 => top \in 1..top
    BY <1>1, <1>2
  <2>3. QED
    BY <1>4, <1>5, <2>1, <2>2 DEF Open
<1>8. QED
  BY <1>3, <1>5, <1>6, <1>7 DEF Frames

-----------------------------------------------------------------------------
(* What a step of the fold does to the frames and to the trail *)

(* The gate of the run is its pipeline's, and the top frame has a step.    *)
LEMMA TopStep ==
  ASSUME FoldInv, pc # "over"
  PROVE  /\ stack # <<>> /\ Open(stack)
         /\ GatedStep(Step, pipeline.gate) \/ GatedRoute(Step, pipeline.gate, Branching)
<1>1. stack # <<>> /\ Open(stack) /\ Frames(stack, pipeline.gate)
  BY DEF FoldInv
<1>2. Len(stack) \in DOMAIN stack
  BY <1>1, IsSeqProperties DEF Frames
<1>3. FrameOf(Top, pipeline.gate)
  BY <1>1, <1>2 DEF Frames, Top
<1>4. Nested([gate |-> pipeline.gate, steps |-> Top.steps], pipeline.gate)
  BY <1>3 DEF FrameOf
<1>5. /\ Len(Top.steps) \in Nat
      /\ \A s \in 1..Len(Top.steps) : \/ GatedStep(Top.steps[s], pipeline.gate)
                                     \/ GatedRoute(Top.steps[s], pipeline.gate, Branching)
  <2> DEFINE q == [gate |-> pipeline.gate, steps |-> Top.steps]
  <2>1. q.steps = Top.steps
    OBVIOUS
  <2> HIDE DEF q
  <2>2. Nested(q, pipeline.gate)
    BY <1>4 DEF q
  <2>3. QED
    BY <2>1, <2>2, NestedSteps, IsSeqProperties
<1>6. Top.done + 1 \in 1..Len(Top.steps)
  BY <1>1, <1>3, <1>5 DEF FrameOf, Open, Top
<1>7. QED
  BY <1>1, <1>5, <1>6 DEF Step

LEMMA ContinueKeepsFold ==
  ASSUME FoldInv, pc # "over", NEW st, Frames(st, pipeline.gate), Continue(st)
  PROVE  FoldInv' /\ status' \in {None, "completed"}
<1>1. Frames(stack', pipeline.gate) /\ Open(stack')
  BY UnfinishedFrames DEF Continue
<1>2. pc' \in {"run", "over"} /\ (pc' = "run" => stack' # <<>>) /\ UNCHANGED pipeline
  BY DEF Continue
<1>3. pc' = "over" => status' = "completed"
  BY DEF Continue
<1>4. pc' = "run" => status' = None
  BY DEF Continue, FoldInv
<1>5. pipeline' \in Pipelines
  BY <1>2 DEF FoldInv
<1>6. QED
  BY <1>1, <1>2, <1>3, <1>4, <1>5, PipelineConstants DEF FoldInv

LEMMA OkKeeps ==
  ASSUME FoldInv, TrailInv, pc # "over", StepOk
  PROVE  FoldInv' /\ TrailInv'
<1>1. Frames(Done, pipeline.gate)
  BY TopStep, DoneKeepsFrames DEF FoldInv, Done
<1>2. FoldInv' /\ status' \in {None, "completed"}
  BY <1>1, ContinueKeepsFold DEF StepOk
<1>3. status = None
  BY DEF FoldInv
<1>4. trail' = Append(trail, "ok")
  BY DEF StepOk
<1>5. trail' \in Seq({"ok", "rejected", "denied", "halted"})
      /\ \A s \in 1..Len(trail') : trail'[s] = "ok"
  BY <1>3, <1>4 DEF TrailInv
<1>6. QED
  BY <1>2, <1>5 DEF TrailInv

LEMMA RouterKeeps ==
  ASSUME FoldInv, TrailInv, pc # "over", NEW p, Nested(p, pipeline.gate),
         Continue(Append(Done, Frame(p))), UNCHANGED trail
  PROVE  FoldInv' /\ TrailInv'
<1>1. Frames(Done, pipeline.gate)
  BY TopStep, DoneKeepsFrames DEF FoldInv, Done
<1>2. Frames(Append(Done, Frame(p)), pipeline.gate)
  BY <1>1, PushKeepsFrames
<1>3. FoldInv' /\ status' \in {None, "completed"}
  BY <1>2, ContinueKeepsFold
<1>4. status = None
  BY DEF FoldInv
<1>5. QED
  BY <1>3, <1>4 DEF TrailInv

LEMMA LeaveKeepsFold ==
  ASSUME FoldInv, pc # "over",
         NEW how \in {"rejected", "denied", "halted", "raised", "cancelled"}, Leave(how)
  PROVE  FoldInv'
BY PipelineConstants DEF FoldInv, Leave

LEMMA EndsKeeps ==
  ASSUME FoldInv, TrailInv, pc # "over",
         NEW how \in {"rejected", "denied", "halted"}, StepEnds(how)
  PROVE  FoldInv' /\ TrailInv'
<1>1. FoldInv'
  BY LeaveKeepsFold DEF StepEnds
<1>2. trail' = Append(trail, how) /\ status' = how
  BY DEF StepEnds, Leave
<1>3. status = None
  BY DEF FoldInv
<1>4. \A s \in 1..Len(trail) : trail[s] = "ok"
  BY <1>3 DEF TrailInv
<1>5. /\ trail' \in Seq({"ok", "rejected", "denied", "halted"})
      /\ \A s \in 1..Len(trail') : trail'[s] # "ok" => s = Len(trail') /\ status' = trail'[s]
  BY <1>2, <1>4 DEF TrailInv
<1>6. status' \notin {None, "completed", "raised", "cancelled"}
  BY <1>2, PipelineConstants
<1>7. QED
  BY <1>1, <1>5, <1>6 DEF TrailInv

LEMMA LeaveKeeps ==
  ASSUME FoldInv, TrailInv, pc # "over", NEW how \in {"raised", "cancelled"}, Leave(how),
         UNCHANGED trail
  PROVE  FoldInv' /\ TrailInv'
<1>1. FoldInv'
  BY LeaveKeepsFold
<1>2. status = None /\ status' = how
  BY DEF FoldInv, Leave
<1>3. \A s \in 1..Len(trail) : trail[s] = "ok"
  BY <1>2 DEF TrailInv
<1>4. QED
  BY <1>1, <1>3 DEF TrailInv

LEMMA MoveKeeps ==
  ASSUME FoldInv, TrailInv, pc # "over", pc' \in {"run", "review", "invoke"},
         UNCHANGED <<pipeline, stack, status, trail>>
  PROVE  FoldInv' /\ TrailInv'
BY DEF FoldInv, TrailInv

-----------------------------------------------------------------------------
(* The invariant *)

LEMMA PipelineStarts == ASSUME Bound, PipelineInit PROVE PipelineInv
<1> DEFINE g == pipeline.gate
<1>1. RaceInv
  BY RaceStarts DEF PipelineInit
<1>2. Nested(pipeline, g)
  BY DEF Bound, PipelineInit
<1>3. Frames(<<>>, g)
  <2>1. DOMAIN (<<>>) = {} /\ IsSeq(<<>>)
    BY EmptySeq DEF IsSeq
  <2>2. QED
    BY <2>1 DEF Frames
<1>4. Frames(<<Frame(pipeline)>>, g)
  <2>1. Frames(Append(<<>>, Frame(pipeline)), g)
    BY <1>2, <1>3, PushKeepsFrames
  <2>2. Append(<<>>, Frame(pipeline)) = <<Frame(pipeline)>>
    OBVIOUS
  <2>3. QED
    BY <2>1, <2>2
<1>5. Frames(stack, g) /\ Open(stack)
  BY <1>4, UnfinishedFrames DEF PipelineInit
<1>6. FoldInv
  BY <1>5, PipelineConstants DEF FoldInv, PipelineInit
<1>7. TrailInv
  BY DEF TrailInv, PipelineInit
<1>8. CancelInv /\ OneGateGoverns /\ TimeoutIsNoGrant
  BY PipelineConstants DEF PipelineInit, CancelInv, OneGateGoverns, TimeoutIsNoGrant
<1>9. QED
  BY <1>1, <1>6, <1>7, <1>8 DEF PipelineInv

(* What the invariant says of the history, where no sink is called.        *)
LEMMA HistoryKept ==
  ASSUME OneGateGoverns, TimeoutIsNoGrant, UNCHANGED <<pipeline, invoked>>
  PROVE  OneGateGoverns' /\ TimeoutIsNoGrant'
BY DEF OneGateGoverns, TimeoutIsNoGrant

(* A cancelled run is over or in a review that drains.                     *)
LEMMA NotParked ==
  ASSUME CancelInv, pc \in {"run", "invoke"}, UNCHANGED cancel
  PROVE  CancelInv'
BY DEF CancelInv

LEMMA RaceUnchanged ==
  ASSUME RaceInv, UNCHANGED raceVars
  PROVE  RaceInv'
BY DEF RaceInv, RaceTypeOK, AnswerHonoured, raceVars

LEMMA GateKeeps ==
  ASSUME PipelineInv, NEW auth \in Auths, Gate(auth)
  PROVE  PipelineInv'
<1> DEFINE granted == AutoGrantable(Step) \/ auth = "approved"
           call == [risk |-> Step.risk, approval |-> Step.approval,
                    auth |-> IF auth = None THEN "system" ELSE auth, human |-> replied]
<1>1. pc = "run" /\ Step.kind = "act" /\ UNCHANGED <<cancel, raceVars>>
  BY DEF Gate, Running
<1>2. Step.gate = pipeline.gate
  BY <1>1, TopStep DEF PipelineInv, GatedStep, GatedRoute
<1>3. RaceInv' /\ CancelInv'
  BY <1>1, RaceUnchanged, NotParked DEF PipelineInv
<1>4. CASE granted
  <2>1. /\ pc' = "invoke" /\ invoked' = invoked \cup {call}
        /\ UNCHANGED <<pipeline, stack, status, trail>>
    BY <1>4 DEF Gate
  <2>2. FoldInv' /\ TrailInv'
    BY <1>1, <2>1, MoveKeeps DEF PipelineInv
  <2>3. (call.risk <= pipeline.gate /\ ~call.approval) \/ call.auth = "approved"
    BY <1>2, <1>4, PipelineConstants DEF AutoGrantable
  <2>4. call.auth = "approved" => call.human
    BY PipelineConstants DEF Auths, PipelineInv, RaceInv
  <2> HIDE DEF call
  <2>5. OneGateGoverns' /\ TimeoutIsNoGrant'
    BY <2>1, <2>3, <2>4 DEF PipelineInv, OneGateGoverns, TimeoutIsNoGrant
  <2>6. QED
    BY <1>3, <2>2, <2>5 DEF PipelineInv
<1>5. CASE ~granted
  <2>1. StepEnds("denied") /\ UNCHANGED invoked
    BY <1>5 DEF Gate
  <2>2. FoldInv' /\ TrailInv'
    BY <1>1, <2>1, EndsKeeps DEF PipelineInv
  <2>3. QED
    BY <1>3, <2>1, <2>2, HistoryKept DEF PipelineInv, StepEnds, Leave
<1>6. QED
  BY <1>4, <1>5

LEMMA FoldStepKeeps ==
  ASSUME PipelineInv, FoldStep
  PROVE  PipelineInv'
<1>1. CASE Operator
  <2>1. pc = "run" /\ UNCHANGED <<invoked, cancel, raceVars>>
    BY <1>1 DEF Operator, Running
  <2>2. FoldInv' /\ TrailInv' /\ UNCHANGED pipeline
    BY <1>1, <2>1, OkKeeps, EndsKeeps, LeaveKeeps
       DEF PipelineInv, Operator, StepRaises, StepOk, Continue, StepEnds, Leave
  <2>3. QED
    BY <2>1, <2>2, RaceUnchanged, NotParked, HistoryKept DEF PipelineInv
<1>2. CASE Await
  <2>1. pc = "run" /\ UNCHANGED <<invoked, cancel, raceVars>>
    BY <1>2 DEF Await, Running
  <2>2. FoldInv' /\ TrailInv' /\ UNCHANGED pipeline
    BY <1>2, <2>1, OkKeeps, LeaveKeeps
       DEF PipelineInv, Await, StepRaises, StepOk, Continue, Leave
  <2>3. QED
    BY <2>1, <2>2, RaceUnchanged, NotParked, HistoryKept DEF PipelineInv
<1>3. ASSUME NEW key \in Keys, Router(key)
      PROVE  PipelineInv'
  <2> DEFINE chosen == IF key \in DOMAIN Step.routes THEN key ELSE Step.default
             branch == Step.routes[chosen]
  <2>1. pc = "run" /\ Step.kind = "route" /\ UNCHANGED <<invoked, cancel, raceVars>>
    BY <1>3 DEF Router, Running
  <2>2. CASE chosen \in DOMAIN Step.routes
    <3>1. Continue(Append(Done, Frame(branch))) /\ UNCHANGED trail
      BY <1>3, <2>2 DEF Router
    <3>2. Branching(branch, pipeline.gate)
      BY <2>1, <2>2, TopStep DEF PipelineInv, GatedStep, GatedRoute
    <3> HIDE DEF branch
    <3>3. Nested(branch, pipeline.gate)
      BY <3>2, BranchingIsNested
    <3>4. FoldInv' /\ TrailInv' /\ UNCHANGED pipeline
      BY <2>1, <3>1, <3>3, RouterKeeps DEF PipelineInv, Continue
    <3>5. QED
      BY <2>1, <3>4, RaceUnchanged, NotParked, HistoryKept DEF PipelineInv
  <2>3. CASE chosen \notin DOMAIN Step.routes
    <3>1. StepEnds("rejected")
      BY <1>3, <2>3 DEF Router
    <3>2. FoldInv' /\ TrailInv' /\ UNCHANGED pipeline
      BY <2>1, <3>1, EndsKeeps DEF PipelineInv, StepEnds, Leave
    <3>3. QED
      BY <2>1, <3>2, RaceUnchanged, NotParked, HistoryKept DEF PipelineInv
  <2>4. QED
    BY <2>2, <2>3
<1>4. CASE ReviewAsks
  <2>1. /\ pc = "run" /\ Step.kind = "review" /\ Ask(Step.request) /\ pc' = "review"
        /\ UNCHANGED <<pipeline, stack, status, trail, invoked, cancel>>
    BY <1>4 DEF ReviewAsks, Running
  <2>2. Step.request \in Requests
    BY <2>1, TopStep DEF PipelineInv, GatedStep, GatedRoute
  <2>3. RaceInv'
    BY <2>1, <2>2, RaceAsked DEF PipelineInv
  <2>4. FoldInv' /\ TrailInv'
    BY <2>1, MoveKeeps DEF PipelineInv
  <2>5. QED
    BY <2>1, <2>3, <2>4, NotParked, HistoryKept DEF PipelineInv
<1>5. CASE ReviewEnds
  <2>1. /\ pc = "review" /\ phase \in {"resolved", "raised", "cancelled"} /\ phase' = "off"
        /\ UNCHANGED <<request, answer, reply, timer, outcome, now, replied, invoked, cancel>>
    BY <1>5 DEF ReviewEnds
  <2>2. \/ phase = "resolved" /\ (StepEnds("halted") \/ StepOk)
        \/ phase = "raised" /\ StepRaises
        \/ phase = "cancelled" /\ Leave("cancelled") /\ UNCHANGED trail
    BY <1>5 DEF ReviewEnds
  <2>3. FoldInv' /\ TrailInv' /\ UNCHANGED pipeline
    BY <2>1, <2>2, OkKeeps, EndsKeeps, LeaveKeeps
       DEF PipelineInv, StepRaises, StepOk, Continue, StepEnds, Leave
  <2>4. CancelInv'
    BY <2>1, <2>2 DEF PipelineInv, CancelInv, Leave
  <2>5. RaceInv'
    BY <2>1, RaceLeft DEF PipelineInv
  <2>6. QED
    BY <2>1, <2>3, <2>4, <2>5, HistoryKept DEF PipelineInv
<1>6. ASSUME NEW auth \in Auths, Gate(auth)
      PROVE  PipelineInv'
  BY <1>6, GateKeeps
<1>7. CASE SinkReturns
  <2>1. pc = "invoke" /\ UNCHANGED <<invoked, cancel, raceVars>>
    BY <1>7 DEF SinkReturns
  <2>2. FoldInv' /\ TrailInv' /\ UNCHANGED pipeline
    BY <1>7, <2>1, OkKeeps, EndsKeeps, LeaveKeeps
       DEF PipelineInv, SinkReturns, StepRaises, StepOk, Continue, StepEnds, Leave
  <2>3. QED
    BY <2>1, <2>2, RaceUnchanged, NotParked, HistoryKept DEF PipelineInv
<1>8. QED
  BY <1>1, <1>2, <1>3, <1>4, <1>5, <1>6, <1>7 DEF FoldStep

(* The fold stands still.                                                  *)
LEMMA FoldUnchanged ==
  ASSUME FoldInv, TrailInv, UNCHANGED foldVars
  PROVE  FoldInv' /\ TrailInv' /\ UNCHANGED pipeline
BY DEF FoldInv, TrailInv, foldVars

LEMMA StepKeeps ==
  ASSUME PipelineInv, [PipelineNext]_vars
  PROVE  PipelineInv'
<1>1. CASE FoldStep
  BY <1>1, FoldStepKeeps
<1>2. ASSUME RaceStep \/ Tick \/ Human, UNCHANGED <<foldVars, invoked, cancel>>
      PROVE  PipelineInv'
  <2>1. RaceInv'
    BY <1>2, RaceGoesOn DEF PipelineInv
  <2>2. CancelInv'
    BY <1>2 DEF PipelineInv, CancelInv, foldVars, RaceStep, TimerFires, Wake, AskReturns,
       Return, DrainTimer, DrainAnswer, AbortAnswer, AbortTimer, Tick, Human, AskRaises,
       HumanAnswers
  <2>3. QED
    BY <1>2, <2>1, <2>2, FoldUnchanged, HistoryKept DEF PipelineInv
<1>3. CASE Cancel
  <2>1. /\ pc # "over" /\ Leave("cancelled") /\ cancel' = "parked"
        /\ UNCHANGED <<trail, invoked, raceVars>>
    BY <1>3 DEF Cancel, Running
  <2>2. FoldInv' /\ TrailInv' /\ UNCHANGED pipeline
    BY <2>1, LeaveKeeps DEF PipelineInv, Leave
  <2>3. CancelInv'
    BY <2>1 DEF CancelInv, Leave
  <2>4. QED
    BY <2>1, <2>2, <2>3, RaceUnchanged, HistoryKept DEF PipelineInv
<1>4. CASE CancelReview
  <2>1. /\ pc = "review" /\ (CancelRace \/ CancelAsk) /\ cancel' = "parked"
        /\ UNCHANGED <<foldVars, invoked>>
    BY <1>4 DEF CancelReview
  <2>2. RaceInv'
    BY <2>1, RaceGoesOn DEF PipelineInv
  <2>3. CancelInv'
    BY <2>1 DEF CancelInv, CancelRace, CancelAsk, foldVars
  <2>4. QED
    BY <2>1, <2>2, <2>3, FoldUnchanged, HistoryKept DEF PipelineInv
<1>5. CASE CancelDrain
  <2>1. cancel' = "draining" /\ UNCHANGED <<foldVars, invoked, raceVars>>
    BY <1>5 DEF CancelDrain
  <2>2. QED
    BY <2>1, RaceUnchanged, FoldUnchanged, HistoryKept DEF PipelineInv, CancelInv
<1>6. CASE UNCHANGED vars
  <2>1. UNCHANGED <<foldVars, invoked, cancel, raceVars>>
    BY <1>6 DEF vars
  <2>2. CancelInv'
    BY <2>1 DEF PipelineInv, CancelInv, foldVars, raceVars
  <2>3. QED
    BY <2>1, <2>2, RaceUnchanged, FoldUnchanged, HistoryKept DEF PipelineInv
<1>7. QED
  BY <1>1, <1>2, <1>3, <1>4, <1>5, <1>6 DEF PipelineNext, RaceRuns, Clock, Humans

-----------------------------------------------------------------------------
(* The theorems *)

LEMMA PipelineInvariant == ASSUME Bound PROVE PipelineSpec => []PipelineInv
<1>1. PipelineInit => PipelineInv
  BY PipelineStarts
<1>2. PipelineInv /\ [PipelineNext]_vars => PipelineInv'
  BY StepKeeps
<1>3. QED
  BY <1>1, <1>2, PTL DEF PipelineSpec

(* One gate governs the composition: whatever gates the branches were      *)
(* built with, no sink is called unless the outermost gate grants it or an *)
(* approved authorization is presented.                                    *)
THEOREM OneGate == ASSUME Bound PROVE PipelineSpec => []OneGateGoverns
<1>1. PipelineInv => OneGateGoverns
  BY DEF PipelineInv
<1>2. QED
  BY <1>1, PipelineInvariant, PTL

(* Behind every approved action is an answer a human gave before the       *)
(* review resolved; an expiry never grants one.                            *)
THEOREM ExpiryGrantsNothing == ASSUME Bound PROVE PipelineSpec => []TimeoutIsNoGrant
<1>1. PipelineInv => TimeoutIsNoGrant
  BY DEF PipelineInv
<1>2. QED
  BY <1>1, PipelineInvariant, PTL

(* Nothing runs after the first step that does not end ok, at any depth,   *)
(* and the run reports that status.                                        *)
THEOREM NothingAfterTheEnd == ASSUME Bound PROVE PipelineSpec => []FirstTerminalIsLast
<1>1. PipelineInv => FirstTerminalIsLast
  BY DEF PipelineInv, TrailInv, FirstTerminalIsLast
<1>2. QED
  BY <1>1, PipelineInvariant, PTL

(* A resolved review is the human's decision when there was one in time,   *)
(* and the request's default otherwise, in any order of the two tasks.     *)
THEOREM TheAnswerIsHonoured == ASSUME Bound PROVE PipelineSpec => []AnswerHonoured
<1>1. PipelineInv => AnswerHonoured
  BY DEF PipelineInv, RaceInv
<1>2. QED
  BY <1>1, PipelineInvariant, PTL

(* No task of a review outlives it, and the state has its shape: the fold  *)
(* has a step to run until it is over.                                     *)
THEOREM ReviewLeavesNoTask == ASSUME Bound PROVE PipelineSpec => []NoOrphanTask
<1>1. PipelineInv => NoOrphanTask
  <2>1. RaceInv => RaceTypeOK /\ (phase \notin Parks => answer # "asking" /\ timer # "sleeping")
    BY DEF RaceInv, RaceTypeOK
  <2>2. FoldInv /\ CancelInv /\ RaceInv => PipelineTypeOK
    BY DEF FoldInv, CancelInv, RaceInv, PipelineTypeOK, Open, Top
  <2>3. QED
    BY <2>1, <2>2 DEF PipelineInv, NoOrphanTask
<1>2. QED
  BY <1>1, PipelineInvariant, PTL

(* A cancellation delivered to a parked run ends it: no step completes and *)
(* no sink is called after it.                                             *)
THEOREM CancellationEnds == ASSUME Bound PROVE PipelineSpec => CancelEnds
<1>1. ASSUME PipelineInv, [PipelineNext]_vars, cancel = "parked"
      PROVE  invoked' = invoked /\ trail' = trail
  <2>1. cancel # None
    BY <1>1, PipelineConstants
  <2>2. \/ pc = "over"
        \/ pc = "review" /\ phase \in {"abortAnswer", "abortTimer", "cancelled"}
    BY <1>1 DEF PipelineInv, CancelInv
  <2>3. CASE FoldStep
    <3>1. ReviewEnds
      BY <2>2, <2>3 DEF FoldStep, Operator, Await, Router, ReviewAsks, Gate, SinkReturns, Running
    <3>2. phase = "cancelled"
      BY <2>2, <3>1 DEF ReviewEnds
    <3>3. QED
      BY <3>1, <3>2 DEF ReviewEnds
  <2>4. CASE RaceRuns \/ Clock \/ Humans
    BY <2>4 DEF RaceRuns, Clock, Humans, foldVars
  <2>5. CASE Cancel \/ CancelReview \/ CancelDrain
    BY <2>1, <2>5 DEF Cancel, CancelReview, CancelDrain
  <2>6. CASE UNCHANGED vars
    BY <2>6 DEF vars, foldVars
  <2>7. QED
    BY <1>1, <2>3, <2>4, <2>5, <2>6 DEF PipelineNext
<1>2. PipelineInv /\ [PipelineNext]_vars
        => [cancel = "parked" => invoked' = invoked /\ trail' = trail]_vars
  BY <1>1
<1>3. QED
  BY <1>2, PipelineInvariant, PTL DEF PipelineSpec, CancelEnds
=============================================================================
