---------------------------- MODULE PipelineRun ----------------------------
(***************************************************************************)
(* convilyn_edge/runtime/pipeline.py: one event through a Pipeline, with   *)
(* ActionGate (runtime/gate.py) at every action and resolve_review         *)
(* (ReviewRace) at every review.                                           *)
(*                                                                         *)
(* A pipeline is its gate and its steps; a router step holds pipelines.    *)
(* The fold is a stack of frames, one for each pipeline being folded.      *)
(* What the pack binds - operators, providers, sinks, selectors and the    *)
(* authorization - is external: each call ends in any way the code tells   *)
(* apart.  A binding grants a risky action only on a human's decision, as  *)
(* spi/review.py:27-30 requires of packs.                                  *)
(***************************************************************************)
EXTENDS ReviewRace, Sequences, FiniteSets

CONSTANTS
  Pipelines,    (* the pipelines run, built with the operators below       *)
  Keys          (* keys the selectors return                               *)

VARIABLES
  pc,           (* "run", "review", "invoke" or "over"                     *)
  pipeline,
  stack,        (* frames: steps of a pipeline and how many are done       *)
  status,       (* None, or the PipelineStatus, "raised" or "cancelled"    *)
  trail,        (* statuses of the steps that ended, in order              *)
  invoked,      (* history: sink calls, with the authorization presented   *)
  cancel        (* history: None, or where a cancellation was delivered    *)

foldVars == <<pc, pipeline, stack, status, trail>>
vars == <<foldVars, invoked, cancel, raceVars>>

-----------------------------------------------------------------------------
(* Building a pipeline *)

New(gate) == [gate |-> gate, steps |-> <<>>]

Then(p, step) == [p EXCEPT !.steps = Append(@, step)]

Normalize(p) == Then(p, [kind |-> "normalize"])
State(p)     == Then(p, [kind |-> "state"])
Decide(p)    == Then(p, [kind |-> "decide"])
Model(p)     == Then(p, [kind |-> "model"])

Review(p, default, expires) ==
  Then(p, [kind |-> "review", request |-> [default |-> default, expires |-> expires]])

Act(p, risk, approval) ==
  Then(p, [kind |-> "act", risk |-> risk, approval |-> approval, gate |-> p.gate])

(* _with_gate for a pipeline whose routers, if any, stay as they are.      *)
WithGateShallow(p, gate) ==
  [gate  |-> gate,
   steps |-> [s \in 1..Len(p.steps) |->
     IF p.steps[s].kind = "act" THEN [p.steps[s] EXCEPT !.gate = gate] ELSE p.steps[s]]]

(* _with_gate rebinds the routers' branches too; two levels are modelled.  *)
WithGate(p, gate) ==
  LET q == WithGateShallow(p, gate)
      rebound(routes) == [k \in DOMAIN routes |-> WithGateShallow(routes[k], gate)]
      bound(step) == IF step.kind = "route" THEN [step EXCEPT !.routes = rebound(@)] ELSE step
  IN  [gate |-> gate, steps |-> [s \in DOMAIN q.steps |-> bound(q.steps[s])]]

Route(p, routes, default) ==
  Then(p, [kind |-> "route", default |-> default,
           routes |-> [k \in DOMAIN routes |-> WithGate(routes[k], p.gate)]])

ASSUME PipelineConstants ==
  /\ MaxTime \in Nat
  /\ None \notin {"completed", "rejected", "denied", "halted", "raised", "cancelled"}
  /\ None \notin {"parked", "draining", "approved"}

-----------------------------------------------------------------------------
(* The fold *)

Top == stack[Len(stack)]

Step == Top.steps[Top.done + 1]

Frame(p) == [steps |-> p.steps, done |-> 0]

(* Variant: a frame stays when its last step is done.                      *)
UnfinishedKeepsDone(st) == IF Len(st) = 1 /\ st[1].done = Len(st[1].steps) THEN <<>> ELSE st

(* The frames left when those with nothing more to do are gone.            *)
Unfinished(st) ==
  LET open == {d \in 1..Len(st) : st[d].done < Len(st[d].steps)}
      top  == IF open = {} THEN 0 ELSE CHOOSE d \in open : \A o \in open : o <= d
  IN  SubSeq(st, 1, top)

(* Folding goes on with st, or is complete.                                *)
Continue(st) ==
  /\ stack' = Unfinished(st)
  /\ pc' = IF Unfinished(st) = <<>> THEN "over" ELSE "run"
  /\ status' = IF Unfinished(st) = <<>> THEN "completed" ELSE status
  /\ UNCHANGED pipeline

Done == [stack EXCEPT ![Len(stack)].done = @ + 1]

PipelineInit ==
  /\ RaceInit
  /\ pipeline \in Pipelines
  /\ stack = Unfinished(<<Frame(pipeline)>>)
  /\ pc = IF stack = <<>> THEN "over" ELSE "run"
  /\ status = IF stack = <<>> THEN "completed" ELSE None
  /\ trail = <<>> /\ invoked = {} /\ cancel = None

Leave(how) ==
  /\ pc' = "over" /\ status' = how
  /\ UNCHANGED <<pipeline, stack>>

StepOk ==
  /\ trail' = Append(trail, "ok")
  /\ Continue(Done)

(* Variant: a terminal status in a branch ends the branch only.            *)
StepEndsBranch(how) ==
  /\ trail' = Append(trail, how)
  /\ IF Len(stack) = 1 THEN Leave(how)
     ELSE Continue([SubSeq(stack, 1, Len(stack) - 1) EXCEPT ![Len(stack) - 1].done = @ + 1])

(* A terminal status: every router on the stack passes it on.              *)
StepEnds(how) ==
  /\ trail' = Append(trail, how)
  /\ Leave(how)

StepRaises == Leave("raised") /\ UNCHANGED trail

Running(kinds) == pc = "run" /\ Step.kind \in kinds

(* _NormalizeStep and _DecideStep: an Err rejects.                         *)
Operator ==
  /\ Running({"normalize", "decide"})
  /\ StepOk \/ StepEnds("rejected") \/ StepRaises
  /\ UNCHANGED <<invoked, cancel, raceVars>>

(* _StateStep and _ModelStep: whatever the model returns, the fold goes    *)
(* on; the disposition is for the bindings.                                *)
Await ==
  /\ Running({"state", "model"})
  /\ StepOk \/ StepRaises
  /\ UNCHANGED <<invoked, cancel, raceVars>>

(* _RouterStep: a key without a route goes to the default or nowhere.      *)
Router(key) ==
  /\ Running({"route"})
  /\ LET chosen == IF key \in DOMAIN Step.routes THEN key ELSE Step.default
     IN  IF chosen \in DOMAIN Step.routes
           THEN /\ Continue(Append(Done, Frame(Step.routes[chosen])))
                /\ UNCHANGED trail
           ELSE StepEnds("rejected")
  /\ UNCHANGED <<invoked, cancel, raceVars>>

-----------------------------------------------------------------------------
(* _ReviewStep *)

ReviewAsks ==
  /\ Running({"review"})
  /\ Ask(Step.request)
  /\ pc' = "review"
  /\ UNCHANGED <<pipeline, stack, status, trail, invoked, cancel>>

ReviewEnds ==
  /\ pc = "review"
  /\ \/ phase = "resolved"
        /\ IF outcome.decision = "stop" THEN StepEnds("halted") ELSE StepOk
     \/ phase = "raised" /\ StepRaises
     \/ phase = "cancelled" /\ Leave("cancelled") /\ UNCHANGED trail
  /\ phase' = "off"
  /\ UNCHANGED <<request, answer, reply, timer, outcome, now, replied, invoked, cancel>>

-----------------------------------------------------------------------------
(* _ActionStep and ActionGate.invoke *)

AutoGrantable(step) == step.risk <= step.gate /\ ~step.approval

(* What the binding may present: an approval only on a human decision.     *)
Auths ==
  {None, "unapproved"} \cup
    (IF outcome # None /\ outcome.source = "human" THEN {"approved"} ELSE {})

Gate(auth) ==
  /\ Running({"act"})
  /\ IF AutoGrantable(Step) \/ auth = "approved"
       THEN /\ pc' = "invoke"
            /\ invoked' = invoked \cup
                 {[risk |-> Step.risk, approval |-> Step.approval,
                   auth |-> IF auth = None THEN "system" ELSE auth, human |-> replied]}
            /\ UNCHANGED <<pipeline, stack, status, trail>>
       ELSE StepEnds("denied") /\ UNCHANGED invoked
  /\ UNCHANGED <<cancel, raceVars>>

SinkReturns ==
  /\ pc = "invoke"
  /\ StepOk \/ StepEnds("denied") \/ StepEnds("halted") \/ StepRaises
  /\ UNCHANGED <<invoked, cancel, raceVars>>

-----------------------------------------------------------------------------
(* Cancellation of the task the pipeline runs in.  It ends the run at the  *)
(* await it is delivered to - but one delivered while a review drains its  *)
(* loser is suppressed with the loser's own.                               *)
Cancel ==
  /\ cancel = None
  /\ pc = "invoke" \/ Running({"state", "model"})
  /\ Leave("cancelled")
  /\ cancel' = "parked"
  /\ UNCHANGED <<trail, invoked, raceVars>>

CancelReview ==
  /\ cancel = None /\ pc = "review"
  /\ CancelRace \/ CancelAsk
  /\ cancel' = "parked"
  /\ UNCHANGED <<foldVars, invoked>>

CancelDrain ==
  /\ cancel = None /\ pc = "review" /\ phase \in {"drainTimer", "drainAnswer"}
  /\ cancel' = "draining"
  /\ UNCHANGED <<foldVars, invoked, raceVars>>

-----------------------------------------------------------------------------
FoldStep ==
  \/ Operator \/ Await \/ (\E key \in Keys : Router(key))
  \/ ReviewAsks \/ ReviewEnds
  \/ (\E auth \in Auths : Gate(auth)) \/ SinkReturns

RaceRuns == RaceStep /\ UNCHANGED <<foldVars, invoked, cancel>>

Clock == Tick /\ UNCHANGED <<foldVars, invoked, cancel>>

Humans == Human /\ UNCHANGED <<foldVars, invoked, cancel>>

PipelineNext ==
  FoldStep \/ RaceRuns \/ Clock \/ Humans \/ Cancel \/ CancelReview \/ CancelDrain

PipelineSpec == PipelineInit /\ [][PipelineNext]_vars

(* The event loop runs what is ready, time passes, and what is awaited     *)
(* ends - but for the human, who may never answer.  A cancelled ask ends.  *)
FairPipelineSpec ==
  PipelineSpec /\ WF_vars(FoldStep) /\ WF_vars(RaceRuns) /\ WF_vars(Clock)

-----------------------------------------------------------------------------
(* Properties *)

PipelineTypeOK ==
  /\ RaceTypeOK
  /\ pc \in {"run", "review", "invoke", "over"}
  /\ pc # "over" => stack # <<>> /\ Top.done < Len(Top.steps)
  /\ status \in {None, "completed", "rejected", "denied", "halted", "raised", "cancelled"}
  /\ status = None <=> pc # "over"
  /\ cancel \in {None, "parked", "draining"}

(* One gate governs the composition: no sink is called, however deep its   *)
(* branch, unless the gate of the outermost pipeline grants it or an       *)
(* approved authorization is presented.                                    *)
OneGateGoverns ==
  \A a \in invoked : (a.risk <= pipeline.gate /\ ~a.approval) \/ a.auth = "approved"

(* A timeout is never mistaken for a human grant: behind every approved    *)
(* action is an answer a human gave before the review resolved.            *)
TimeoutIsNoGrant == \A a \in invoked : a.auth = "approved" => a.human

(* The first step that does not end ok is the last, in a branch as at the  *)
(* top: after a human's stop, a denial, a rejection or a failure nothing   *)
(* more runs, and the run reports that status.                             *)
FirstTerminalIsLast ==
  /\ \A s \in 1..Len(trail) : trail[s] # "ok" => s = Len(trail) /\ status = trail[s]
  /\ status = "completed" => \A s \in 1..Len(trail) : trail[s] = "ok"

(* The outcome is the human's if a human answered before the review woke,  *)
(* a tie with the timer included, and the workflow's default otherwise.    *)
AnswerHonoured ==
  phase = "resolved" =>
    IF replied THEN outcome = Outcome(reply, "human")
               ELSE outcome = Outcome(request.default, "expiry_default")

(* watchdog.py:106-118, 155-165: no task of a review outlives it, however  *)
(* it ended; the rest of the state has its shape.                          *)
NoOrphanTask == PipelineTypeOK /\ (phase \notin Parks => answer # "asking" /\ timer # "sleeping")

(* A review with a deadline is over some time, whether or not anybody      *)
(* answers.                                                                *)
ExpiryResolves == phase = "race" ~> phase \notin Parks

(* A cancellation delivered to a parked run ends it.                       *)
CancelEnds == [][cancel = "parked" => invoked' = invoked /\ trail' = trail]_vars
=============================================================================
