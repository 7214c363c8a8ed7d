----------------------------- MODULE ReviewRace -----------------------------
(***************************************************************************)
(* convilyn_edge/runtime/watchdog.py: resolve_review, the race of a human  *)
(* answer against the expiry of the request.  The ask and the timer are    *)
(* two tasks; the code that started them is parked at one await at a time. *)
(* The human is external.  PipelineRun composes this module.               *)
(***************************************************************************)
EXTENDS Integers

CONSTANTS
  MaxTime,      (* bound: readings of the clock                            *)
  None          (* no expires_at, or one that does not parse; no outcome   *)

Defaults  == {"stop", "escalate", "continue"}
Decisions == Defaults \cup {"selected"}

Requests == [default : Defaults, expires : 0..MaxTime \cup {None}]

VARIABLES
  phase,        (* where resolve_review is: "off" or one of Parks,         *)
                (* or how it ended: "resolved", "raised", "cancelled"      *)
  request,
  answer,       (* the ask: "none", "asking", "answered", "raised", "over" *)
  reply,        (* the decision the ask returned                           *)
  timer,        (* "none", "sleeping", "fired", "over"                     *)
  outcome,      (* decision and decision_source of the last review         *)
  now,
  replied       (* history: a human answered this review before it woke    *)

raceVars == <<phase, request, answer, reply, timer, outcome, now, replied>>

Parks == {"ask", "race", "drainTimer", "drainAnswer", "abortAnswer", "abortTimer"}

RaceInit ==
  /\ phase = "off" /\ request = None
  /\ answer = "none" /\ reply = None /\ timer = "none"
  /\ outcome = None /\ now = 0 /\ replied = FALSE

Outcome(decision, source) == [decision |-> decision, source |-> source]

(* Variant: the default decision_source is left in place.                  *)
ExpiredOutcomeUnmarked(req) == Outcome(req.default, "human")

ExpiredOutcome(req) == Outcome(req.default, "expiry_default")

(* seconds_until_expiry, read once: no deadline, one that has passed, or a *)
(* race.                                                                   *)
Ask(req) ==
  /\ request' = req /\ reply' = None /\ replied' = FALSE
  /\ IF req.expires # None /\ req.expires <= now
       THEN /\ phase' = "resolved" /\ outcome' = ExpiredOutcome(req)
            /\ answer' = "none" /\ timer' = "none"
       ELSE /\ phase' = IF req.expires = None THEN "ask" ELSE "race"
            /\ outcome' = None
            /\ answer' = "asking"
            /\ timer' = IF req.expires = None THEN "none" ELSE "sleeping"
  /\ UNCHANGED now

(* The human answers, or the ask fails.  An answer that comes while the    *)
(* ask is being drained is discarded.                                      *)
HumanAnswers(decision) ==
  /\ answer = "asking"
  /\ answer' = "answered" /\ reply' = decision
  /\ replied' = (replied \/ phase \in {"ask", "race"})
  /\ UNCHANGED <<phase, request, timer, outcome, now>>

AskRaises ==
  /\ answer = "asking"
  /\ answer' = "raised"
  /\ UNCHANGED <<phase, request, reply, timer, outcome, now, replied>>

TimerFires ==
  /\ timer = "sleeping" /\ now >= request.expires
  /\ timer' = "fired"
  /\ UNCHANGED <<phase, request, answer, reply, outcome, now, replied>>

Tick ==
  /\ now < MaxTime
  /\ now' = now + 1
  /\ UNCHANGED <<phase, request, answer, reply, timer, outcome, replied>>

AnswerDone == answer \in {"answered", "raised"}

(* Variant: the timer wins a tie.                                          *)
WakeForTimer ==
  /\ phase = "race" /\ (AnswerDone \/ timer = "fired")
  /\ phase' = IF timer = "fired" THEN "drainAnswer" ELSE "drainTimer"
  /\ UNCHANGED <<request, answer, reply, timer, outcome, now, replied>>

(* asyncio.wait returns; what is done is looked at when it has.            *)
Wake ==
  /\ phase = "race" /\ (AnswerDone \/ timer = "fired")
  /\ phase' = IF AnswerDone THEN "drainTimer" ELSE "drainAnswer"
  /\ UNCHANGED <<request, answer, reply, timer, outcome, now, replied>>

Return ==
  /\ phase' = IF answer = "raised" THEN "raised" ELSE "resolved"
  /\ outcome' = IF answer = "raised" THEN None ELSE Outcome(reply, "human")
  /\ answer' = "over"
  /\ UNCHANGED <<request, reply, now, replied>>

AskReturns ==
  /\ phase = "ask" /\ AnswerDone
  /\ Return /\ UNCHANGED timer

(* _drain(timer), then answer.result().                                    *)
DrainTimer ==
  /\ phase = "drainTimer"
  /\ timer' = "over"
  /\ Return

(* Variant: the ask is not cancelled and awaited.                          *)
AbandonAnswer ==
  /\ phase = "drainAnswer"
  /\ phase' = "resolved" /\ outcome' = ExpiredOutcome(request)
  /\ timer' = "over"
  /\ UNCHANGED <<request, answer, reply, now, replied>>

(* Variant: the ask is awaited, and not cancelled.                         *)
AwaitAnswer ==
  /\ phase = "drainAnswer" /\ AnswerDone
  /\ phase' = "resolved" /\ outcome' = ExpiredOutcome(request)
  /\ answer' = "over" /\ timer' = "over"
  /\ UNCHANGED <<request, reply, now, replied>>

(* _drain(answer) ends when the ask does, cancelled or not.                *)
DrainAnswer ==
  /\ phase = "drainAnswer"
  /\ phase' = "resolved" /\ outcome' = ExpiredOutcome(request)
  /\ answer' = "over" /\ timer' = "over"
  /\ UNCHANGED <<request, reply, now, replied>>

(* Variant: the cancelled race goes on as if the timer had fired.          *)
CancelledRaceExpires ==
  /\ phase = "race"
  /\ phase' = "drainAnswer"
  /\ UNCHANGED <<request, answer, reply, timer, outcome, now, replied>>

(* The run is cancelled while it waits for the race: both tasks are        *)
(* drained and the cancellation goes on.                                   *)
CancelRace ==
  /\ phase = "race"
  /\ phase' = "abortAnswer"
  /\ UNCHANGED <<request, answer, reply, timer, outcome, now, replied>>

AbortAnswer ==
  /\ phase = "abortAnswer"
  /\ answer' = "over" /\ phase' = "abortTimer"
  /\ UNCHANGED <<request, reply, timer, outcome, now, replied>>

AbortTimer ==
  /\ phase = "abortTimer"
  /\ timer' = "over" /\ phase' = "cancelled"
  /\ UNCHANGED <<request, answer, reply, outcome, now, replied>>

CancelAsk ==
  /\ phase = "ask"
  /\ answer' = "over" /\ phase' = "cancelled"
  /\ UNCHANGED <<request, reply, timer, outcome, now, replied>>

Human == AskRaises \/ \E d \in Decisions : HumanAnswers(d)

RaceStep ==
  \/ TimerFires \/ Wake \/ AskReturns
  \/ DrainTimer \/ DrainAnswer \/ AbortAnswer \/ AbortTimer

RaceTypeOK ==
  /\ phase \in Parks \cup {"off", "resolved", "raised", "cancelled"}
  /\ request \in Requests \cup {None}
  /\ answer \in {"none", "asking", "answered", "raised", "over"}
  /\ timer \in {"none", "sleeping", "fired", "over"}
  /\ reply \in Decisions \cup {None}
  /\ outcome \in [decision : Decisions, source : {"human", "expiry_default"}] \cup {None}
  /\ now \in 0..MaxTime
=============================================================================
