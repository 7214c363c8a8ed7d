---------------------------- MODULE EdgeDeviceMC ----------------------------
(* Devices of every kind, and a day of three events: breakfast, then two   *)
(* anomalies, the second of which breaches the threshold.                  *)
EXTENDS EdgeDevice

CONSTANTS e1, e2, e3

-----------------------------------------------------------------------------
(* Texts: the labels of the contract, spelled as models spell them.        *)

MCNorm(text) ==
  LET folded == ("True" :> "true") @@ (" Window" :> "window") @@ ("NOT SPECIFIED" :> "n/s")
                  @@ (Sentinel :> "n/s")
  IN  IF text \in DOMAIN folded THEN folded[text] ELSE text

Spelled(slug, digest, lower) == [slug |-> slug, digest |-> digest, lower |-> lower]

(* The slug and digest of "cat/log", as a name.                            *)
CatLog == "cat_log-d161b506e882"

MCSpellingOf ==
  ("events" :> Spelled("events", "862417b9e7c3", "events"))
    @@ ("pet log" :> Spelled("pet_log", "18f914b346ee", "pet log"))
    @@ ("pet/log" :> Spelled("pet_log", "4306de7ea47b", "pet/log"))
    @@ ("cat/log" :> Spelled("cat_log", "d161b506e882", "cat/log"))
    @@ (CatLog :> Spelled(CatLog, "c29472687faa", CatLog))
    @@ ("con" :> Spelled("con", "1143da2bc54c", "con"))

-----------------------------------------------------------------------------
(* Models *)

Scalar(type, n, found) == [type |-> type, len |-> n, verbatim |-> found]
Text(n, found) == Scalar("str", n, found)
Str(text) == ("text" :> text) @@ Scalar("str", 4, FALSE)
True == ("value" :> TRUE) @@ Scalar("bool", 0, FALSE)

MCScripted == <<True, Str(" Window"), Text(3, TRUE)>>

MCOutputs == {
  MCScripted,
  <<Str("perhaps"), Str("NOT SPECIFIED"), Text(3, FALSE)>>,
  <<("value" :> 1) @@ Scalar("int", 0, FALSE), ("halves" :> 3) @@ Scalar("float", 0, FALSE),
    Text(3, TRUE)>> }

MCBodies == MCOutputs \cup {None, NotText}

Tag(between) == [prefix |-> FALSE, name |-> "qwen3", between |-> between, size |-> "4b",
                 latest |-> FALSE]

-----------------------------------------------------------------------------
(* Contracts *)

Field(name, mode, allowed) == [name |-> name, mode |-> mode, allowed |-> allowed]

MCLimits == [value |-> 8, total |-> 7]

Contract(zones) ==
  [id |-> "pet-cat", prompt |-> "locate", limits |-> MCLimits,
   binding |-> [Tag("-") EXCEPT !.prefix = TRUE],
   fields |-> <<Field("present", "closed_set", <<"true", "false">>),
                Field("zone", "closed_set", zones),
                Field("evidence_snippet", None, None)>>]

Manufactured == [grounded_contract |-> Contract(<<"window", "litter">>)]

(* Rejected: a label that reads as the sentinel.                           *)
Ambiguous == Contract(<<"window", "NOT SPECIFIED">>)

-----------------------------------------------------------------------------
(* Machines *)

Generic == [tegra |-> FALSE, cpuinfo |-> "other", pages |-> 2048, pageSize |-> 4096,
            smi |-> None, disk |-> None]

Orin == [Generic EXCEPT !.tegra = TRUE, !.smi = <<8192>>, !.disk = 65536]

Snapdragon == [Generic EXCEPT !.cpuinfo = "qualcomm", !.pages = None, !.smi = <<NotText>>]

Url(v1) == [scheme |-> "http", v1 |-> v1]

NoSettings == [k \in DOMAIN ExtractorDefaults |-> None]

Plain ==
  [app |-> "pack", host |-> Generic, assets |-> {}, removable |-> FALSE, mediaStore |-> FALSE,
   optIn |-> FALSE, file |-> None, env |-> [url |-> None, tag |-> Tag(":")],
   call |-> None, schema |-> None, runner |-> None, limits |-> MCLimits, provider |-> FALSE,
   stores |-> [h \in Holders |-> IF h = "aggregator" THEN "pet log" ELSE "events"],
   alsoReceived |-> {}, deadline |-> FALSE, flaky |-> FALSE,
   serves |-> FALSE, server |-> "down", listing |-> None]

(* No contract and no server it would ask; a card that comes and goes, not opted in to, *)
(* stores whose names have one slug, and deliveries that fail.             *)
Bare ==
  [Plain EXCEPT !.removable = TRUE, !.alsoReceived = {e2}, !.flaky = TRUE,
                !.env.url = [scheme |-> "file", v1 |-> FALSE],
                !.stores = [h \in Holders |-> IF h = "aggregator" THEN "pet log" ELSE "pet/log"]]

(* Opted in to a card; the manufactured contract over the stand-in.        *)
Carded ==
  [Plain EXCEPT !.removable = TRUE, !.optIn = TRUE, !.file = Manufactured,
                !.stores = [h \in Holders |-> IF h = "aggregator" THEN "con" ELSE "events"]]

(* The contract over a server found at boot, or else the stand-in.         *)
Camera ==
  [Plain EXCEPT !.host = Orin, !.assets = {"object_detection"}, !.mediaStore = TRUE,
                !.file = Manufactured, !.env.url = Url(FALSE), !.serves = TRUE,
                !.server = "cold", !.listing = {Tag(":")}]

(* for_contract over a reasoning model, with a deadline.                   *)
Hub ==
  [Plain EXCEPT !.app = "for_contract", !.file = Manufactured, !.deadline = TRUE, !.serves = TRUE,
                !.server = "ready", !.listing = {},
                !.call = [extractor |-> None, steering |-> "auto", model |-> None,
                          generation |-> ("max_tokens" :> 64),
                          env |-> [openaiUrl |-> "hub/v1", model |-> Tag(":")]]]

(* The same with an extractor of the caller's, and a schema that drifted,  *)
(* over a server that gives no listing.                                    *)
Drifted ==
  [Hub EXCEPT !.schema = ("zone" :> <<"sofa">>), !.deadline = FALSE, !.listing = None,
              !.call = [@ EXCEPT !.generation = <<>>,
                                 !.extractor = HttpBackend([url |-> Url(TRUE), tag |-> Tag(":")],
                                                           {}, TRUE)]]

(* A detector over a server, and no contract.                              *)
Detector == [Plain EXCEPT !.env.url = Url(TRUE), !.serves = TRUE, !.server = "ready"]

(* Runners: one that has no provider, and emitters that share a file; one  *)
(* over a server; one too large.                                           *)
Npu ==
  [Plain EXCEPT !.app = "runner", !.host = Snapdragon, !.alsoReceived = {e2},
                !.stores = ("emitter" :> "cat/log") @@ ("second emitter" :> CatLog)
                             @@ ("aggregator" :> "events"),
                !.runner = [model |-> Tag(":"), url |-> None, minRam |-> None, strict |-> TRUE,
                            settings |-> NoSettings]]

Served == [Npu EXCEPT !.host = Generic, !.runner.minRam = 16384, !.runner.strict = FALSE,
                      !.serves = TRUE, !.server = "ready", !.listing = NotText]

Large == [Npu EXCEPT !.host = Generic, !.runner.minRam = 16384]

Broken == [Camera EXCEPT !.file = Ambiguous]

MCMachines == {Bare, Carded, Camera, Hub, Drifted, Detector, Npu, Served, Large, Broken}

MCReadings ==
  (e1 :> [type |-> "feeder", jammed |-> FALSE, value |-> 82])
    @@ (e2 :> [type |-> "water", value |-> 30])
    @@ (e3 :> [type |-> "litter", value |-> 15])

MCEvents == <<e1, e2, e3>>
=============================================================================
