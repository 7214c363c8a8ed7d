-------------------------- MODULE ContractOperator --------------------------
(***************************************************************************)
(* convilyn_edge/authored/operator.py: ContractModelOperator, the executor *)
(* of ModelOperator over an extractor and a manufactured contract, against *)
(* a local inference server that loads its model, comes and goes.          *)
(*                                                                         *)
(* An extractor is one of LocalExtractor, which asks the server, or one    *)
(* scripted in the process.  The server is "down" while it answers nobody, *)
(* "cold" while its model is not loaded.                                   *)
(***************************************************************************)
EXTENDS AuthoredContract, ModelOperator, LocalExtractor

CONSTANTS
  Bodies,        (* contents a model may produce: None, NotText, or one of *)
                 (* Outputs                                                *)
  Scripted       (* what a scripted extractor returns: one of Outputs      *)

Said == [body : Bodies, think : {"none", "closed", "open"}]

(* None and NotText are like nothing the program says.                     *)
ASSUME ContractOperatorConstants ==
  /\ {"transport", "unparseable"} \subseteq Failures
  /\ Bodies \ {None, NotText} \subseteq Outputs /\ Scripted \in Outputs \cap Bodies
  /\ NotText \notin Outputs /\ None # NotText /\ Said \cap {None, NotText} = {}
  /\ None \notin {"problem", "unreachable", "server_unreachable", "output_unparseable",
                  "deadline_exceeded", "error"}

VARIABLES
  server,        (* "down", "cold" or "ready"                              *)
  heard,         (* history: per call, the response its request got        *)
  warm,          (* the last warmup and model_available: stage, result     *)
  seen           (* history: what the server was since they began          *)

serverVars == <<server, heard, warm, seen>>

Nothing == [stage |-> "none", state |-> None, available |-> None]

ServerInit(s) ==
  /\ server = s
  /\ heard = [c \in Calls |-> None]
  /\ warm = Nothing /\ seen = {}

-----------------------------------------------------------------------------
(* Assembly *)

(* _wire_guidance: guidance set by the caller is never overwritten, and    *)
(* None is an extractor that has no place for any.                         *)
WireGuidance(x, c) ==
  IF x.guidance = {} THEN [x EXCEPT !.guidance = Guidance(c)] ELSE x

(* ContractModelOperator.for_contract: its extractor, or None when it      *)
(* raises.  The model's tag is the caller's or the contract's binding.     *)
ForContract(c, call) ==
  LET tag == IF call.model # None THEN call.model
             ELSE IF c.binding # None THEN LocalTag(c.binding) ELSE None
      env == FromEnv(call.env, tag)
  IN  IF call.extractor = None
        THEN IF call.steering = "caller" THEN None
             ELSE [env EXCEPT !.guidance = Guidance(c), !.settings = call.generation @@ @]
      ELSE IF DOMAIN call.generation # {} THEN None
      ELSE IF call.steering = "caller" THEN call.extractor
      ELSE WireGuidance(call.extractor, c)

Asks(x) == x.kind # "scripted"

-----------------------------------------------------------------------------
(* The server *)

ServerIs(s) ==
  /\ server' = s
  /\ seen' = IF warm.stage = "none" THEN seen ELSE seen \cup {s}

(* It is started or killed, or unloads an idle model.                      *)
ServerMoves ==
  /\ \/ server = "down" /\ ServerIs("cold")
     \/ server # "down" /\ ServerIs("down")
     \/ server = "ready" /\ ServerIs("cold")
  /\ UNCHANGED <<operatorVars, heard, warm>>

Responses(x) ==
  {NotText} \cup [body : Bodies,
                  think : IF Thinks(RequestBody(x)) THEN {"none", "closed", "open"} ELSE {"none"}]

(* The thread's request fails (refused, timed out, an HTTP error: None) or *)
(* is answered, by a model that is loaded from then on.                    *)
ExtractHears(c, x, response) ==
  /\ Asks(x) /\ future[c] = "running"
  /\ response = None \/ server # "down"
  /\ ExtractEnds(c, Extracted(response))
  /\ heard' = [heard EXCEPT ![c] = IF Waiting(c) THEN response ELSE @]
  /\ IF response = None THEN UNCHANGED <<server, seen>> ELSE ServerIs("ready")
  /\ UNCHANGED warm

ExtractScripted(c, x) ==
  /\ ~Asks(x) /\ future[c] = "running"
  /\ ExtractEnds(c, [how |-> "output", anchors |-> Scripted])
  /\ heard' = [heard EXCEPT ![c] =
       IF Waiting(c) THEN [body |-> Scripted, think |-> "none"] ELSE @]
  /\ UNCHANGED <<server, warm, seen>>

-----------------------------------------------------------------------------
(* infer *)

Infer(c) ==
  /\ InferStart(c)
  /\ heard' = [heard EXCEPT ![c] = None]
  /\ UNCHANGED <<server, warm, seen>>

(* The except clauses around _run; grounded gives ground_fields' output.   *)
Concluded(end, grounded) ==
  CASE end.how = "output"      -> Result(grounded[end.anchors])
    [] end.how = "transport"   -> Unavailable("server_unreachable")
    [] end.how = "unparseable" -> Unavailable("output_unparseable")
    [] OTHER                   -> Unavailable("error")

-----------------------------------------------------------------------------
(* warmup and model_available, each called from the event loop, which they *)
(* block: no infer of this operator starts meanwhile.                      *)

(* HttpLocalExtractor.health                                               *)
Health == IF server = "down" THEN "problem" ELSE None

WarmupEnds(state) == warm' = [warm EXCEPT !.stage = "listed", !.state = state]

(* warmup_runner: without a hook there is nothing to wait for; else the    *)
(* server's health is the first thing looked at.                           *)
WarmupStarts(x) ==
  /\ warm.stage = "none"
  /\ seen' = {server}
  /\ warm' = IF ~Asks(x)
                THEN [Nothing EXCEPT !.stage = "done", !.state = "warm", !.available = "unknown"]
              ELSE IF Health # None
                THEN [Nothing EXCEPT !.stage = "listed", !.state = "unreachable"]
              ELSE [Nothing EXCEPT !.stage = "probe"]
  /\ UNCHANGED <<operatorVars, server, heard>>

(* A model that has to be loaded takes longer than warm_threshold_ms.      *)
ProbeAnswers ==
  /\ warm.stage = "probe" /\ server # "down"
  /\ \E slow \in BOOLEAN :
       /\ server = "cold" => slow
       /\ WarmupEnds(IF slow THEN "cold_started" ELSE "warm")
  /\ ServerIs("ready")
  /\ UNCHANGED <<operatorVars, heard>>

(* Variant: a probe that fails is a server that is not there.              *)
ProbeFailsOffline ==
  /\ warm.stage = "probe"
  /\ WarmupEnds("unreachable")
  /\ UNCHANGED <<operatorVars, server, heard, seen>>

(* The probe fails: refused, an HTTP error, or the deadline while loading. *)
ProbeFails ==
  /\ warm.stage = "probe"
  /\ warm' = [warm EXCEPT !.stage = "recheck"]
  /\ UNCHANGED <<operatorVars, server, heard, seen>>

Recheck ==
  /\ warm.stage = "recheck"
  /\ WarmupEnds(IF Health # None THEN "unreachable" ELSE "cold_started")
  /\ UNCHANGED <<operatorVars, server, heard, seen>>

(* model_available asks the server for its listing, which may fail too.    *)
ModelAvailable(x, listing) ==
  /\ warm.stage = "listed"
  /\ warm' = [warm EXCEPT !.stage = "done", !.available =
                Availability(x.model, IF server = "down" THEN None ELSE listing)]
  /\ UNCHANGED <<operatorVars, server, heard, seen>>

WarmupStep(x, listing) ==
  WarmupStarts(x) \/ ProbeAnswers \/ ProbeFails \/ Recheck \/ ModelAvailable(x, listing)

=============================================================================
