----------------------------- MODULE EdgeDevice -----------------------------
(***************************************************************************)
(* A device that runs the pet-monitoring pack: it probes itself, chooses   *)
(* its storage tier and its model node, warms the model up, and takes the  *)
(* events of its source one at a time through the pack's pipeline under    *)
(* the driver's retries (runtime/driver.py: _process; runtime/policy.py:   *)
(* retry_async).  Its process dies at any time, and it boots again with its*)
(* files as they were: what a power failure does to one is DurableQueue's. *)
(*                                                                         *)
(* The pieces are RecordStores, ContractOperator and PetPack.  A second    *)
(* driver, which is external, may buffer the same events in a store of the *)
(* same name.  Deliveries, time and the human are external too; a review   *)
(* is what ReviewRace makes of it.                                         *)
(***************************************************************************)
EXTENDS RecordStores, PetPack

CONSTANTS
  Machines,      (* devices with their configurations                      *)
  Events,        (* the events of the source, in order                     *)
  ReadingOf,     (* per event: what its sensor read                        *)
  Threshold,     (* of the aggregator                                      *)
  MaxAttempts,   (* the retry policy's                                     *)
  MaxBoots       (* bound                                                  *)

Keys == {Events[i] : i \in DOMAIN Events}

(* Fields and labels are lists, labels are texts (from_wire makes them     *)
(* such), and what a model gives for a verbatim field is a text or none.   *)
Authored(c) ==
  /\ Len(c.fields) \in Nat /\ DOMAIN c.fields = 1..Len(c.fields)
  /\ c.limits.total \in Nat
  /\ \A i \in DOMAIN c.fields : LET f == c.fields[i] IN
       /\ Len(f.allowed) \in Nat /\ DOMAIN f.allowed = 1..Len(f.allowed)
       /\ None \notin Labels(f)
       /\ ~Closed(f) => \A o \in Outputs : o[i] \in {Sentinel, NotText} \/ o[i].len \in Nat

ASSUME DeviceConstants ==
  /\ DOMAIN ReadingOf = Keys /\ Events \in Seq(StoredRecords)
  /\ Holders = {"emitter", "second emitter", "aggregator"}
  /\ \A m \in Machines :
       /\ m.stores \in [Holders -> Names] /\ m.app \in {"pack", "for_contract", "runner"}
       /\ m.app = "for_contract" => m.file # None
       /\ m.file # None => (Loads(m.file) => Authored(Load(m.file)))
  /\ \A i, j \in DOMAIN Events : i # j => Events[i] # Events[j]
  /\ \E c, d \in Calls : c # d
  /\ Threshold \in Nat \ {0} /\ MaxAttempts \in Nat \ {0} /\ MaxBoots \in Nat

VARIABLES
  machine,
  removable,     (* a removable medium is in                               *)
  boots,
  pc,            (* "off", "warmup", "idle", or where the event is         *)
  node,          (* the model node, or None                                *)
  next,          (* the event the source delivers next                     *)
  attempt,       (* retry_async's, of this event                           *)
  result,        (* the node's last result: its inner ModelResult, the call*)
                 (* behind it, and the result the pipeline sees            *)
  notices        (* history: per event, the notices of this boot           *)

appVars == <<machine, removable, boots, pc, node, next, attempt, result, notices>>
vars == <<appVars, storeVars, operatorVars, serverVars>>

Event == Events[next]

AppInit ==
  /\ machine \in Machines
  /\ removable = machine.removable
  /\ boots = 0 /\ pc = "off" /\ node = None
  /\ next = 1 /\ attempt = 0 /\ result = None
  /\ notices = [e \in Keys |-> <<>>]

EdgeInit == AppInit /\ StoresInit /\ OperatorInit /\ ServerInit(machine.server)

-----------------------------------------------------------------------------
(* Booting *)

ManifestOf(m) == Profile!Manifest(m.host, m.assets, removable, m.mediaStore)

Medium(m) == Profile!Tier(ManifestOf(m), m.optIn)

(* The runner of an application without a contract, as a model node.       *)
RunnerNode(m) ==
  LET runner == Profile!SelectRunner(Profile!Runtime(ManifestOf(m).silicon), m.runner,
                                     ManifestOf(m).ram)
  IN  IF runner = None THEN None
      ELSE IF runner.kind = "qnn"
        THEN [kind |-> "qnn", extractor |-> None, contract |-> None,
              placement |-> Placement(ManifestOf(m))]
      ELSE [kind |-> "runner", contract |-> None, placement |-> Placement(ManifestOf(m)),
            extractor |-> [kind |-> runner.kind, url |-> runner.url, model |-> m.runner.model,
                           guidance |-> {},
                           settings |-> Profile!Tuned(m.runner.settings, ExtractorDefaults)]]

(* A locator over for_contract's operator.                                 *)
ForContractNode(m) ==
  IF ~Loads(m.file) THEN None
  ELSE LET x == ForContract(Load(m.file), m.call)
       IN  IF x = None THEN None
           ELSE [kind |-> "contract", extractor |-> x, contract |-> Load(m.file),
                 placement |-> Placement(ManifestOf(m))]

NodeOf(m, up) ==
  CASE m.app = "pack"         -> Locator(m.file, m.env, up, Placement(ManifestOf(m)))
    [] m.app = "for_contract" -> ForContractNode(m)
    [] m.app = "runner"       -> RunnerNode(m)

(* The application builds its node, which may raise: it does not come up.  *)
Boot ==
  /\ pc = "off" /\ boots < MaxBoots
  /\ boots' = boots + 1
  /\ node' = NodeOf(machine, server # "down")
  /\ pc' = IF node' = None THEN "off" ELSE "open"
  /\ UNCHANGED <<machine, removable, next, attempt, result, notices>>
  /\ UNCHANGED <<storeVars, operatorVars, serverVars>>

(* Every part of the application asks the provider for its store.          *)
OpensStore(h) ==
  /\ pc = "open" /\ held[h] = Nil
  /\ DurableStore(h, machine.stores[h], Medium(machine))
  /\ UNCHANGED <<appVars, operatorVars, serverVars>>

Opened ==
  /\ pc = "open" /\ \A h \in Holders : held[h] # Nil
  /\ pc' = "warmup"
  /\ UNCHANGED <<machine, removable, boots, node, next, attempt, result, notices>>
  /\ UNCHANGED <<storeVars, operatorVars, serverVars>>

(* warmup_runner finds a hook on what asks a server, and on nothing else.  *)
Hooked == IF node.kind \in {"contract", "runner"} THEN node.extractor ELSE ScriptedExtractor

WarmsUp ==
  /\ pc = "warmup"
  /\ WarmupStep(Hooked, machine.listing)
  /\ UNCHANGED <<appVars, storeVars>>

OpensForBusiness ==
  /\ pc = "warmup" /\ warm.stage = "done"
  /\ pc' = "idle" /\ warm' = Nothing /\ seen' = {}
  /\ UNCHANGED <<machine, removable, boots, node, next, attempt, result, notices>>
  /\ UNCHANGED <<storeVars, operatorVars, server, heard>>

(* The process is gone with its threads; the source delivers from where it *)
(* was, or all over again, and the medium may have been pulled or put in.  *)
ProcessDies ==
  /\ pc # "off"
  /\ pc' = "off" /\ node' = None /\ attempt' = 0 /\ result' = None
  /\ notices' = [e \in Keys |-> <<>>]
  /\ next' \in {1, next}
  /\ removable' \in {removable, machine.removable /\ ~removable}
  /\ StoresClosed
  /\ queue' = <<>> /\ worker' = None
  /\ future' = [c \in Calls |-> "none"] /\ raw' = [c \in Calls |-> None]
  /\ infer' = [c \in Calls |-> "new"] /\ disturbed' = {}
  /\ heard' = [c \in Calls |-> None] /\ warm' = Nothing /\ seen' = {}
  /\ UNCHANGED <<machine, boots, closes, server>>

-----------------------------------------------------------------------------
(* The loop of the driver *)

(* Every step of the pipeline leaves what is not its own alone.            *)
Moves(to) ==
  /\ pc' = to
  /\ UNCHANGED <<machine, removable, boots, node>>

(* drive: the envelope is emitted, here into the offline buffer, before it *)
(* is handled.                                                             *)
TakeEvent ==
  /\ pc = "idle" /\ next <= Len(Events)
  /\ StoreRecord("emitter", Event)
  /\ attempt' = 1
  /\ Moves("state") /\ UNCHANGED <<next, result, notices>>
  /\ UNCHANGED <<operatorVars, serverVars>>

(* A driver of another source receives the same event (bound: between two  *)
(* events of this one).                                                    *)
SecondEmitter(e) ==
  /\ pc = "idle" /\ e \in machine.alsoReceived
  /\ StoreRecord("second emitter", e)
  /\ UNCHANGED <<appVars, operatorVars, serverVars>>

EventOver ==
  /\ Moves("idle")
  /\ next' = next + 1 /\ attempt' = 0 /\ result' = None

(* should_retry *)
ShouldRetry(n) == n < MaxAttempts

(* Variants: whatever a handler raises is retried; one attempt too many;   *)
(* an attempt that is not counted.                                         *)
RaisedAny(transient) ==
  IF ShouldRetry(attempt)
    THEN Moves("state") /\ attempt' = attempt + 1 /\ result' = None /\ UNCHANGED next
    ELSE EventOver
RaisedUncounted(transient) ==
  IF transient /\ ShouldRetry(attempt)
    THEN Moves("state") /\ result' = None /\ UNCHANGED <<attempt, next>>
    ELSE EventOver

(* retry_async: the whole pipeline again, after a transient failure.       *)
Raised(transient) ==
  IF transient /\ ShouldRetry(attempt)
    THEN Moves("state") /\ attempt' = attempt + 1 /\ result' = None /\ UNCHANGED next
    ELSE EventOver

-----------------------------------------------------------------------------
(* The pipeline of pack.py *)

(* The connectivity probe raises, before the aggregator is asked.          *)
StateRaises ==
  /\ pc = "state" /\ machine.flaky
  /\ \E transient \in BOOLEAN : Raised(transient)
  /\ UNCHANGED <<notices, storeVars, operatorVars, serverVars>>

(* The window is as long as any run here: what the store holds counts.     *)
Routed(online, count) ==
  LET route == AlertRoute(count >= Threshold, online)
  IN  IF route = "quiet" THEN EventOver
      ELSE /\ Moves(IF route = "locate" THEN "locate" ELSE "notify me")
           /\ UNCHANGED <<next, attempt, result>>

(* Both snapshots and the route.                                           *)
Snapshot(online) ==
  /\ pc = "state"
  /\ IF AnomalyBucket(ReadingOf[Event], FALSE) = None
       THEN UNCHANGED storeVars /\ EventOver
       ELSE /\ StoreRecord("aggregator", Event)
            /\ LET path == queues[held["aggregator"]].path
               IN  Routed(online, Len(files'[path]))
  /\ UNCHANGED <<notices, operatorVars, serverVars>>

(* The model step: a call on the operator's thread, or an answer at once.  *)
ModelStep ==
  LET c == CHOOSE d \in Calls : ~Waiting(d) /\ future[d] \notin {"pending", "running"} IN
  /\ pc = "locate" /\ node.kind \in {"contract", "runner"}
  /\ IF node.kind = "contract" /\ ~SchemaOK(machine.schema, node.contract)
       THEN Raised(FALSE) /\ UNCHANGED <<operatorVars, serverVars>>
       ELSE /\ Infer(c)
            /\ Moves("locating") /\ UNCHANGED <<next, attempt>>
            /\ result' = [call |-> c, inner |-> None, seen |-> None]
  /\ UNCHANGED <<notices, storeVars>>

Grounds(c) ==
  IF node.kind = "contract" THEN [o \in Outputs |-> GroundFields(o, node.contract)]
  ELSE [o \in Outputs |-> GroundAnchors(o, machine.limits)]

Located(inner) == IF node.kind = "contract" THEN LocatedByContract(inner, node.contract) ELSE inner

Answered(inner) ==
  /\ Moves("review") /\ UNCHANGED <<next, attempt, notices, storeVars>>
  /\ result' = [result EXCEPT !.inner = inner, !.seen = Located(inner)]

InferAnswers ==
  /\ pc = "locating"
  /\ LET end == raw[result.call] IN
       /\ InferEnds(result.call)
       /\ Answered(Concluded(end, Grounds(result.call)))
  /\ UNCHANGED serverVars

InferTimesOut ==
  /\ pc = "locating" /\ machine.deadline
  /\ DeadlineElapses(result.call)
  /\ Answered(Unavailable("deadline_exceeded"))
  /\ UNCHANGED serverVars

(* The nodes that answer before anything else runs.                        *)
AnswersAtOnce ==
  /\ pc = "locate"
  /\ \E located \in
       CASE node.kind = "stub" -> {StubResult}
         [] node.kind = "qnn"  -> {Profile!QnnResult(machine.provider, FALSE, None)}
         [] node.kind = "detector" ->
              {DetectorResult(r) : r \in {None} \cup
                 IF server = "down" THEN {} ELSE Responses(node.extractor)}
         [] OTHER -> {} :
       result' = [call |-> None, inner |-> None, seen |-> located]
  /\ Moves("review")
  /\ UNCHANGED <<next, attempt, notices, storeVars, operatorVars, serverVars>>

(* The review: somebody decides, or it expires, which escalates.           *)
Decided(decision) ==
  /\ IF decision = "stop" THEN EventOver
     ELSE Moves(IF DispatchRoute(decision) = "me" THEN "notify me" ELSE "notify sister")
          /\ UNCHANGED <<next, attempt, result>>
  /\ UNCHANGED <<notices, storeVars, operatorVars, serverVars>>

Reviewed(decision) == pc = "review" /\ Decided(decision)

Expires == Reviewed("escalate")

(* What a notice says of the cat.                                          *)
Says ==
  IF result = None THEN Told("offline", None)
  ELSE IF node.kind \in {"runner", "qnn"}
    THEN Told(ModelDisposition(result.seen, FALSE), None)
  ELSE Summary(result.seen)

(* NotifySink.invoke: the notice is recorded, then delivered, which may    *)
(* raise - transiently or not, and delivered all the same or not.  (Bound: *)
(* the history keeps one notice more than the retries allow.)              *)
Notify(ended) ==
  /\ pc \in {"notify me", "notify sister"}
  /\ ended # "delivered" => machine.flaky
  /\ notices' = [notices EXCEPT ![Event] =
                  IF Len(@) > MaxAttempts THEN @
                  ELSE Append(@, [to |-> pc, says |-> Says, ended |-> ended])]
  /\ IF ended = "delivered" THEN EventOver ELSE Raised(ended = "transient")
  /\ UNCHANGED <<storeVars, operatorVars, serverVars>>

-----------------------------------------------------------------------------
Decisions == {"continue", "selected", "stop", "escalate"}

LoopStep ==
  \/ TakeEvent \/ StateRaises \/ (\E online \in BOOLEAN : Snapshot(online))
  \/ ModelStep \/ InferAnswers \/ AnswersAtOnce
  \/ \E ended \in {"delivered", "transient", "failed"} : Notify(ended)

(* The worker thread; every request ends, by its timeout if not before.    *)
Thread ==
  /\ pc \notin {"off", "open", "warmup"} /\ node.kind \in {"contract", "runner"}
  /\ \/ WorkerTakes /\ UNCHANGED serverVars
     \/ \E c \in Calls :
          \/ ExtractScripted(c, node.extractor)
          \/ \E response \in {None} \cup
               IF Asks(node.extractor) THEN Responses(node.extractor) ELSE {} :
               ExtractHears(c, node.extractor, response)
  /\ UNCHANGED <<appVars, storeVars>>

ServerChanges ==
  /\ machine.serves /\ ServerMoves
  /\ UNCHANGED <<appVars, storeVars>>

EdgeNext ==
  \/ Boot \/ (\E h \in Holders : OpensStore(h)) \/ Opened \/ WarmsUp \/ OpensForBusiness
  \/ ProcessDies
  \/ LoopStep \/ InferTimesOut \/ Thread \/ ServerChanges
  \/ \E d \in Decisions : Reviewed(d)
  \/ \E e \in Keys : SecondEmitter(e)

EdgeSpec == EdgeInit /\ [][EdgeNext]_vars

(* The event loop runs what is ready, a review expires, and the thread's   *)
(* requests end by their timeouts.  Nothing is assumed of the server, the  *)
(* human, or the deadline of infer.                                        *)
FairEdgeSpec == EdgeSpec /\ WF_vars(LoopStep) /\ WF_vars(Expires) /\ WF_vars(Thread)

-----------------------------------------------------------------------------
(* Properties *)

EdgeTypeOK ==
  /\ pc \in {"off", "open", "warmup", "idle", "state", "locate", "locating", "review",
             "notify me", "notify sister"}
  /\ pc = "off" => node = None
  /\ attempt \in 0..MaxAttempts /\ (attempt = 0 <=> pc \in {"off", "open", "warmup", "idle"})
  /\ pc = "locating" <=> \E c \in Calls : Waiting(c)
  /\ result # None => pc \in {"locating", "review", "notify me", "notify sister"}

(* storage/selection.py:45-57: a device that did not opt in to a removable *)
(* medium finds under the name of a store all that was ever acknowledged   *)
(* under it (or under the name it shares its file with), after every boot, *)
(* whatever was pulled out meanwhile.                                      *)
StoreKeepsItsRecords ==
  /\ EdgeTypeOK
  /\ ~machine.optIn =>
       \A h \in {g \in Holders : held[g] # Nil} :
         LinesOf(queues[held[h]].path) =
           UNION {AckedIn(m, machine.stores[h]) : m \in Media}

(* spi/model.py:78-82: the result says why.  A server is unreachable only  *)
(* if the request of this very call got no response, an output unusable    *)
(* only if the model did respond, and an output is made of what it said in *)
(* this call's response - not in one a thread left behind came back with.  *)
HonestReason ==
  result # None /\ pc # "locating" /\ result.inner # None =>
    LET inner == result.inner
        said  == heard[result.call]
        object == IF IsMessage(said) THEN ContentOf(said) \in Outputs ELSE FALSE
    IN  CASE inner.reason = "server_unreachable" -> said = None
          [] inner.reason = "output_unparseable" -> said # None /\ ~object
          [] inner.reason = "deadline_exceeded"  -> machine.deadline
          [] inner.reason = None                 ->
               object /\ inner.output = Grounds(result.call)[ContentOf(said)]
          [] OTHER                               -> FALSE

(* It survives being grounded again, as the server does; a closed-set field*)
(* holds an authored label or the sentinel, and no label reads as that.    *)
StaysGrounded(output, c) ==
  /\ GroundFields(Again(c, output), c) = output
  /\ \A i \in DOMAIN output : Closed(c.fields[i]) =>
       /\ output[i] \in Labels(c.fields[i]) \cup {Sentinel}
       /\ Norm(output[i]) = Norm(Sentinel) => output[i] = Sentinel

(* authored/contract.py:134-145 and pack.py:122-124: what a contract's     *)
(* output holds stays grounded; and a notice says where the cat is, or that*)
(* it is not there, only of an output that holds something grounded, and   *)
(* names no zone the contract does not, if its zones are a closed set.     *)
OnlyGroundedIsTold ==
  result # None /\ pc # "locating" /\ result.inner # None /\ node.kind = "contract" =>
    LET c == node.contract
        zones == UNION {Labels(c.fields[i]) : i \in DOMAIN c.fields}
        closed == \A i \in DOMAIN c.fields : c.fields[i].name = "zone" => Closed(c.fields[i])
    IN  /\ result.inner.output # None => StaysGrounded(result.inner.output, c)
        /\ Says.told \in {"located", "not located"} =>
             FailingFields(result.inner, c) # DOMAIN c.fields
        /\ closed /\ Says.told = "located" => Says.zone \in zones \cup {"unknown zone"}

(* Cold is not offline (warmup.py, engine.py:384-390): the server is       *)
(* reported unreachable only if it was down while it was being looked at,  *)
(* or if it is up and does not give its listing (engine.py:133), and warm  *)
(* or cold only if it was not down all along.                              *)
ColdIsNotOffline ==
  /\ warm.state = "unreachable" => "down" \in seen
  /\ warm.available = "unreachable" => "down" \in seen \/ machine.listing = None
  /\ warm.stage = "listed" /\ warm.state # "unreachable" => seen # {"down"}

(* policy.py:134-136: within one boot nobody is notified again of an event *)
(* but by a retry: every notice before the last failed in its delivery,    *)
(* transiently, and there are no more of them than attempts.               *)
NotifiedAgainOnlyByRetry ==
  \A e \in Keys :
    /\ Len(notices[e]) <= MaxAttempts
    /\ \A i \in 1..(Len(notices[e]) - 1) : notices[e][i].ended = "transient"

(* An event that is taken is over some time, or the process dies: whatever *)
(* the model does and with nobody answering.                               *)
EventEnds == attempt > 0 ~> attempt = 0
=============================================================================
