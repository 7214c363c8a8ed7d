------------------------------ MODULE PetPack ------------------------------
(***************************************************************************)
(* examples/pet_monitoring: the reference pack's bindings - its anomaly    *)
(* rules, its selectors and notices (pack.py, operators.py), and how its   *)
(* model node is assembled from the environment and a contract file        *)
(* (run_e2e.py, contract_node.py, model_node.py).                          *)
(*                                                                         *)
(* A reading is a number, None, or NotText for any other value.            *)
(***************************************************************************)
EXTENDS ContractOperator

Profile == INSTANCE DeviceProfile

-----------------------------------------------------------------------------
(* PetAnomalyRules *)

IsNumber(reading) == reading \notin {None, NotText}

(* The rule table; None is a normal event, and one without a rule.         *)
Verdict(e) ==
  CASE e.type = "feeder" /\ e.jammed                          -> "feeder_jam"
    [] e.type = "feeder" /\ ~e.jammed /\ IsNumber(e.value)    ->
         IF e.value < 10 THEN "feeder_low" ELSE None
    [] e.type = "water" /\ IsNumber(e.value)                  ->
         IF e.value < 100 THEN "water_low" ELSE None
    [] e.type = "litter" /\ IsNumber(e.value)                 ->
         IF e.value >= 12 THEN "litter_overuse" ELSE None
    [] OTHER                                                  -> None

(* anomaly_bucket *)
AnomalyBucket(e, perKind) ==
  IF Verdict(e) = None THEN None ELSE IF perKind THEN Verdict(e) ELSE "anomaly"

(* _alert_route and _dispatch_route                                        *)
AlertRoute(breached, online) ==
  IF ~breached THEN "quiet" ELSE IF online THEN "locate" ELSE "offline"

DispatchRoute(decision) == IF decision = "escalate" THEN "sister" ELSE "me"

-----------------------------------------------------------------------------
(* The model node *)

(* resolve_placement *)
Placement(manifest) ==
  IF "object_detection" \in manifest.assets THEN "edge" ELSE "cloud"

(* _http_backend: None is the built-in stand-in.                           *)
HttpBackend(env, guidance, up) ==
  IF env.url = None \/ ~up THEN None
  ELSE IF env.url.scheme \notin {"http", "https"} THEN None
  ELSE [kind     |-> IF env.url.v1 THEN "openai-compat" ELSE "ollama",
        url      |-> env.url, model |-> env.tag,
        guidance |-> guidance, settings |-> ExtractorDefaults]

ScriptedExtractor == [kind |-> "scripted", guidance |-> {}]

(* build_locator, with build_detector for a file that is not there; None   *)
(* when load_contract raises.                                              *)
Locator(file, env, up, placement) ==
  IF file = None
    THEN LET x == HttpBackend(env, {}, up)
         IN  [kind |-> IF x = None THEN "stub" ELSE "detector", extractor |-> x,
              contract |-> None, placement |-> placement]
  ELSE IF ~Loads(file) THEN None
  ELSE LET c == Load(file)
           x == HttpBackend(env, Guidance(c), up)
       IN  [kind |-> "contract", extractor |-> IF x = None THEN ScriptedExtractor ELSE x,
            contract |-> c, placement |-> placement]

-----------------------------------------------------------------------------
(* What the node answers *)

FieldOf(output, c, name) ==
  IF name \notin FieldNames(c) THEN Sentinel
  ELSE output[CHOOSE i \in DOMAIN c.fields : c.fields[i].name = name]

CatLocation(present, zone) == [present |-> present, zone |-> zone]

(* ContractCatLocator.infer: the reason is not passed on.                  *)
LocatedByContract(result, c) ==
  IF result.output = None THEN Unavailable(None)
  ELSE LET zone == FieldOf(result.output, c, "zone")
       IN  [status |-> result.status, reason |-> None,
            output |-> CatLocation(FieldOf(result.output, c, "present") = "true",
                                   IF zone = Sentinel THEN None ELSE zone)]

(* CatLocatorModel.infer: uncertain below min_confidence.                  *)
LocatedByDetector(location, confident) ==
  [status |-> IF confident THEN "success" ELSE "uncertain", output |-> location, reason |-> None]

(* _stub_detector *)
StubResult == LocatedByDetector(CatLocation(TRUE, "litter"), TRUE)

(* _extractor_detector: whatever goes wrong, there is no cat, and nobody   *)
(* is confident of it.  The server answers present first, then zone.       *)
DetectorResult(response) ==
  LET end  == Extracted(response)
      said(k) == Coerce(end.anchors[k])
  IN  IF end.how # "output" THEN LocatedByDetector(CatLocation(FALSE, None), FALSE)
      ELSE LocatedByDetector(
             CatLocation(/\ said(1) # None
                         /\ Norm(said(1)) \in {"true", "yes", "present", "1"},
                         IF said(2) \in {None, ""} THEN "unknown" ELSE said(2)), TRUE)

Told(what, zone) == [told |-> what, zone |-> zone]

(* _describe *)
Described(location) ==
  IF location = None THEN Told("camera unavailable", None)
  ELSE IF ~location.present THEN Told("not located", None)
  ELSE Told("located", IF location.zone = None THEN "unknown zone" ELSE location.zone)

(* Variant: whatever output there is is told.                              *)
SummaryOfAny(result) == Described(result.output)

(* _locate_summary: an output below the bar is not told as a fact.         *)
Summary(result) ==
  IF ModelDisposition(result, FALSE) = "accept" THEN Described(result.output)
  ELSE Told("not confidently located", None)
=============================================================================
