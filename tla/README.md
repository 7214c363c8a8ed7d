# convilyn-edge in TLA+

A verification project for `convilyn_edge` (`src/src/convilyn_edge/`): the on-device
runtime that reads events from a source, folds each through a pipeline of
operators, reviews and gated actions, buffers events durably while the cloud is
unreachable, and pulls and installs verified bundles. The modules here model its
control flow with TLA+, TLC checks them on small instances, and TLAPS proves all of
the safety properties that hold, and that the queue and the device's stores implement an
abstract buffer, for every instance. The reference pack
`src/examples/pet_monitoring/` is modelled too, as the application that composes the parts.

Paths below are relative to `src/src/convilyn_edge/`, or to `src/examples/pet_monitoring/` where
the text says it is the pack's.

## The system

| Part | Source | State it keeps | Operations |
|---|---|---|---|
| Durable queue | `offline/queue.py` | a JSONL file, an in-memory key index | `enqueue`, `pending`, `keys`, `replace`, `clear` |
| Event emitter | `offline/emitter.py` | the queue, a sink | `emit`, `flush` |
| Storage providers, tiers | `storage/` | memo of queues by store name, a root | `durable_store`, `select_storage_provider` |
| Workflow driver | `runtime/driver.py`, `runtime/policy.py` | loop position, retry attempt, cycle guard | `run`, teardown |
| Health watchdog | `runtime/watchdog.py` (`poll_health`) | last delivered status, stop event | the poll task |
| Review expiry | `runtime/watchdog.py` (`resolve_review`) | two tasks, their outcome | the race, the drains |
| Pipeline, router, gate | `runtime/pipeline.py`, `runtime/gate.py` | the fold, the nested branches | the built-in steps, `invoke` |
| Threshold aggregator | `runtime/aggregate.py` | a queue of its own, used as a window | `snapshot` |
| Bundle pull | `bundle/` | scratch directory, device store, device manifest | `stage_bundle`, `verify_staged_bundle`, `install_verified_bundle`, `merge_installed_assets` |
| Client-compute operator, bridge | `clientcompute/operator.py`, `clientcompute/bridge.py` | a one-thread executor, a job's version | `infer`, `close`, `handle_if_present` |
| Grounding | `clientcompute/contract.py` | none | `ground_anchors` and its total cap |
| Local extractor, warmup | `clientcompute/engine.py`, `warmup.py` | none; the server's model is loaded or not | `extract`, `health`, `model_available`, `warmup` |
| Authored contract and operator | `authored/` | a one-thread executor | `load_contract`, `ground_fields`, `for_contract`, `infer` |
| Runners | `runners/` | a registry by name | `select_runner` |
| Device probe | `probe.py` | none | `probe_device`, `resolve_runtime` |
| Pet-monitoring pack | `src/examples/pet_monitoring/` | the pipeline, its stores and its node | `build_locator`, `assemble_pet_alert_pipeline`, one `run` per event |
| Simulator, CLI, envelope, Result | the rest | none that changes | pure functions and I/O |

How the parts interact:

- **calls on one event loop.** `WorkflowDriver.run` awaits the source, the emitter and
  the handler in turn. The handler is normally `Pipeline.run`, which awaits its
  steps; a review step awaits `resolve_review`, which runs the human's answer and a
  timer as two tasks. `poll_health` is a task beside the run. Interleaving
  therefore happens at awaits and nowhere else, and each module's actions run from
  one await to the next.
- **shared state.** The emitter and an application that flushes on reconnect share
  one `DurableQueue`; a driver's runs share an injected `CycleGuard`; pulls of
  different bundles share the device store and the manifest.
- **the disk.** Queue, aggregator and bundle store outlive the process. A kill may
  fall between any two writes, a write may stop anywhere, and a power failure takes
  what no fsync covered. The directory is never fsynced, so it may also undo a rename.
- **threads.** A local model blocks: the operator runs it on an executor with one
  thread, which goes on when the deadline or the caller has given up on it.
- **the local server.** It is outside the process, loads its model at the first request,
  and may be started, killed or idle at any time; a request that fails and a model that
  answers nonsense reach the caller as the same status with different reasons.
- **cancellation.** The caller may cancel a task at any await; asyncio's
  `CancelledError` passes every `except Exception` of the code.

What makes it hard is therefore awaits around a read-modify-write (`flush`), teardown
with several parties (`run`, the watchdog, the source), ties and late answers
(`resolve_review`), torn and lost writes, clocks that step, and installs that
resume over whatever an earlier attempt left. What each part must get right:

| Part | Correct when |
|---|---|
| Durable queue | no record twice; a bad write costs a bounded number of records; a rewrite is all or nothing, also when a power failure undoes it; FIFO |
| Emitter | an answered event is at the server, refused, or queued; flush is FIFO; one bad record does not block the rest |
| Driver | aborts exactly when stuck; spends its retry budget on transient errors only; every exit stops the watchdog and the source |
| Watchdog | a change of health reaches the observer although the observer failed on it once |
| Review | a human's answer counts if it came in time; a timeout is never a grant; no task outlives its review |
| Pipeline | one gate governs all nesting levels; the first terminal status is the last |
| Aggregator | neither double counting nor missing occurrences in the window |
| Bundle pull | a report of completion is true; only verified bundles land; re-running completes; the manifest is backed by files |
| Operator, bridge | one thread works, and for nobody but who waits; a deadline always answers; no answer reaches a newer job |
| Grounding | what the device submits is accepted by the service that grounds it again |
| Storage | a store is found again under its name and its file is nobody else's unless the names are spelled to clash, whoever opens it and whatever is plugged in |
| Extractor, contract operator | a result that degrades says why; an output is grounded, made of this call's response, and stays grounded |
| Warmup | a server that loads is not taken for one that is not there, nor the other way round |
| Pack under the driver | an alert is repeated by a retry only; nothing below the bar is told as a fact; every event ends |

## The modules

### `DurableQueue`, with `ApplyOnceBuffer`

The queue file is a sequence of *lines*: the key of the record a line parses to,
`Torn` when it does not parse, `Undecodable` when its bytes are not UTF-8.
`terminated` says whether the last line has its newline, since the next append is
run together with one that has not. `index` is `_index` (`Unset` for `None`), `tmp`
the rewrite that is not yet renamed, `synced` how many lines an fsync covered, `old` the
file that the directory on the disk still names after a rename or an unlink.
`told`, `secured` and `tears` are histories.

| Action | Code |
|---|---|
| `Enqueue`, `EnqueueDuplicate`, `EnqueueFails` | `enqueue`, its early return, an `OSError` after part of the write |
| `ReadKeys`, `KeysIndex`, `DiskRecords` | `keys`, `_keys_index`, `_read_lines` |
| `Clear`, `ReplaceWrite`, `ReplaceRename` | `clear`; `replace`, split at its rename |
| `Crash`, `CrashInEnqueue` | a kill between or inside operations |
| `DirectoryWritten`, `PowerLoss` | the kernel writes the directory; a power failure |

`replace` fsyncs its temp file and nothing fsyncs the directory (`queue.py:158-162`). A kill
loses neither; a power failure may bring back the file from before the rename (or the
unlink), whose appends were never fsynced themselves, until the kernel has written the
directory. So a rewrite is not durable when `replace` returns, and `queue.py:145-147` does not
say it is: it says that the queue is never left half-written. `SecuredSurvives` is that
statement, for the present file and for the one that may come back.

`ApplyOnceBuffer` is the promise without the file: a FIFO buffer that loses records
to a torn append (`Wreck`) or a power failure (`Outage`) and to nothing else. An `Outage` may
also bring back the buffer from before the rewrites since the last `Settle`.
`ImplementsBuffer` checks that the file refines it, with the records the file parses
to as the buffer.

`replace` is given lists without repeated keys (`IsInjective`): the two callers,
`flush` and `snapshot`, pass a sub-sequence of `pending()`.

### `EventEmitter`

`emit` and `flush` as coroutines over the operations of `DurableQueue` (`INSTANCE`),
split at their await of `sink.send`. A send ends acked, unacked (the server has the
event and the answer was lost), offline or refused. `Exclusive` says whether the
application overlaps a flush with anything; the driver does not. The link changes
at any time, tasks may be cancelled, the process may be killed.

### `WorkflowDriver` and `HealthPoll`

`pc` is the await at which the run is parked; every action goes from one await to
the next. `Leave` is the head of the `finally` clause (the watchdog is told to stop
and cancelled in the step that leaves the loop); `Join`, `Close`, `StopSource` and
`Flush` follow. The handler raises one of `Kinds`, `RetryOn` and `OfflineOn` being
the policy's and the driver's classes. `HealthPoll` is the watchdog at its three
awaits; a cancellation reaches it there or is swallowed by the adapter it awaits.

### `ReviewRace` and `PipelineRun`

`ReviewRace` is `resolve_review`: `asyncio.wait` over the answer and the timer, the
tie, the drain of the loser, the cancellation in the race. `PipelineRun` folds one
event: a stack with a frame per pipeline, since a router step runs a nested one.
Pipelines are *built* with the operators the code has (`Then`, `Act`, `Route`,
`WithGate`), so the rebinding of gates is modelled and not assumed. `CancelDrain` is
the limitation `watchdog.py:112-114` accepts: a cancellation delivered while the
loser is drained is suppressed.

### `ThresholdAggregator`

One `snapshot` is one step (it has no await) unless the disk refuses a write or the
process dies in it. The clock is the wall clock and steps both ways. Its store is
the file format of `DurableQueue` at the grain it needs: records with a time.

### `BundleInstall`

One pull: `Open`, `StreamEnds`, `Verify`, one `Installed` or `InstallSkipped` per
artifact, `Merge`. A file's content is the object and how much of it arrived; a
digest is the content. `Rot` makes a stored file bad, `Crash` ends a pull between
any two steps, and what it left stays in the scratch directory and the store.

### `Grounding`, `ModelOperator` and `ClientCompute`

`Grounding` is `ground_anchors` over values of which only the length, and whether a
source holds them, are kept. `ModelOperator` is the executor: `queue` its work queue,
`worker` its one thread, `future` the `concurrent.futures.Future` of a call, `raw` how
`extract` ended. A thread cannot be interrupted: after `DeadlineElapses`, `InferCancelled`
or `Close` its call stays `running` until `ExtractEnds`, which may never come; a call in
the queue is cancelled. `Close` lets go of the executor and the next call makes another, so
one more thread may run for each close. `ClientCompute` is the bridge: `HandleInterrupt` up
to the await of `infer`, `Resume` or `Expire` up to the await of `fill_slots`, `Submit` to
the end; the goals service (`Submit`'s effect, `JobMoves`) is external. A snapshot of a
job is read when it is handled; `JobMoves` may make it stale at once.

`RaisesOnlyDisturbed` lets `close()` through: a call still queued then leaves `infer` with
`CancelledError`, which is not an `Exception`.

### `DeviceProfile`, `RecordStores`, `LocalExtractor`, `AuthoredContract`

The pure parts. `DeviceProfile` is `probe_device` over what a host's reads give (`None` for
one that fails), the tier and the runner that follow from it. `RecordStores` has state: the
files by tier and name, the provider's memo, the live queues with their indices, and who holds
which. `SafeFile` is the flat string the code makes of a name, by its conditions, from the slug and the
digest that `SpellingOf` gives of each name; `Sharing` says which names come out as one file, and
`Alone` that a name has its file to itself. `StoreBuffer(m, n)` sees the file of
one tier and name as an `ApplyOnceBuffer`. `LocalExtractor` is the request
body with its overrides merged, and what `extract` makes of a response: its content is a
reasoning block and a body, and nothing more of its text is kept. `AuthoredContract` parses and
validates a contract, derives its schema and guidance, and grounds a closed-set value to the
authored label of the same normal form; a verbatim one is `Grounding`'s.

### `ContractOperator`

`ModelOperator`'s executor with a contract and an extractor, against a server that is `"down"`,
`"cold"` or `"ready"`. `ExtractHears` is the end of a request on the thread, `Concluded` the
except clauses of `infer`. A warmup goes through the stages of the code (health, probe, second
health check, listing), between which the server moves; both block the event loop, so no
`infer` starts meanwhile. `heard` and `seen` are histories: the response of a call, and what the server
was while it was looked at.

### `PetPack` and `EdgeDevice`

`PetPack` is the pack's bindings as operators: rules, selectors, the model nodes and what a
notice says. `EdgeDevice` composes everything above into a device: `Boot` probes, chooses the
tier and builds the node (or fails to), the parts of the application open their stores
(`OpensStore`), the node is warmed up, and the loop takes one event at a time. `TakeEvent` is
the driver's emit, here into the offline buffer; `Snapshot` the two state steps and the route;
`ModelStep` to `InferAnswers`, `InferTimesOut` or `AnswersAtOnce` the model step; `Reviewed` the
review; `Notify` the sink. `Raised` is `retry_async`: the whole pipeline again. `ProcessDies`
falls anywhere and the source may deliver all over again; it leaves the files as they are, what a power
failure does to a queue's file being `DurableQueue`'s.

`app` says which application of the repository's parts the machine runs: the pack with
`build_locator`, an operator made by `for_contract`, or a runner from `select_runner` as the
node. The first is the pack's own; the other two put the operator and the runners, which the
repository ships without an application, behind the same pipeline. `run_e2e.py` calls the
pipeline without the driver; the retries are `WorkflowDriver`'s, which is how
`examples/drive_pipeline.py` runs a pipeline. The order of opening stores and warming up is
the application's and external.

| Action | Code |
|---|---|
| `Boot`, `NodeOf` | `build_locator`, `_http_backend` (pack); `for_contract`; `select_runner` |
| `OpensStore` | `LocalStorageProvider.durable_store` |
| `WarmsUp` | `warmup_runner`, `HttpLocalExtractor.warmup`, `model_available` |
| `TakeEvent`, `EventOver`, `Raised` | `WorkflowDriver.run`, `_process`, `retry_async` |
| `StateRaises`, `Snapshot` | `ConnectivityProvider`, `ThresholdAggregator.snapshot`, `_alert_route` |
| `ModelStep`, `InferAnswers`, `InferTimesOut`, `Thread` | `ContractModelOperator.infer`, `_run` |
| `AnswersAtOnce` | `CatLocatorModel.infer`, `QnnOnnxRunner.infer` |
| `Reviewed`, `Expires` | the review step, `_dispatch_route`, `default_alert_review` |
| `Notify` | `NotifySink.invoke` |

### Conventions

Definitions marked *Variant* are the code with a plausible bug (a missing reset, an
off-by-one, a dropped guard). They are used by no specification; each property is
known to fail when one of them takes the place of the definition it varies, so no
property holds by the shape of the model alone.

## Runs

Run from this directory: `tlc -workers 2 -config <run>.cfg <module>`, where the module is the
one named like the run's first word, or its `MC` module where there is one (`BundleInstallMC`,
`ClientComputeMC`, `DurableQueueMC`, `EdgeDeviceMC`, `PipelineRunMC`, `ThresholdAggregatorMC`); the
two runs of findings that need none, `DurableQueue_bytes` and those of `EventEmitter` and
`WorkflowDriver`, use the module itself.

| Run (cfg) | Specification | Shows |
|---|---|---|
| `DurableQueue` | safety and refinement | `NoDuplicateKeys`, `BoundedBlastRadius`, `SecuredSurvives`, `ImplementsBuffer` |
| `DurableQueue_bytes` | finding | one bad write makes every record unreadable |
| `EventEmitter` | with fairness | `NoEventLost`, `FlushInOrder`, `FlushedLeaves`, `BufferDrains` |
| `EventEmitter_overlap` | finding | an emit during a flush is deleted by it |
| `WorkflowDriver` | with fairness | `AbortIffStuck`, `BudgetSpent`, `LeavesNothingRunning`, `TeardownEnds`, `SilenceIsObserved` |
| `WorkflowDriver_stop` | finding | a failing `aclose` leaves the source running |
| `BundleInstall` | with fairness | `ReportIsTrue`, `ManifestBacked`, `OnlyVerifiedLands`, `RerunCompletes` |
| `BundleInstall_truncated` | finding | a truncated artifact is installed |
| `ThresholdAggregator` | safety | `CountsHeard`, `MissesByTears` |
| `ClientCompute` | with fairness | `RaisesOnlyDisturbed`, `NoStaleAnswer`, `ShipsWhatIsAccepted`, `AbandonedNeverStarts`, `InterruptAnswered` |
| `PipelineRun` | with fairness | `OneGateGoverns`, `TimeoutIsNoGrant`, `FirstTerminalIsLast`, `AnswerHonoured`, `NoOrphanTask`, `ExpiryResolves`, `CancelEnds` |
| `EdgeDevice` | with fairness | `FileOfOneName`, `StoreKeepsItsRecords`, `HonestReason`, `OnlyGroundedIsTold`, `ColdIsNotOffline`, `NotifiedAgainOnlyByRetry`, `StoresOnlyAccept`, `EventEnds` |

Where the table names no type invariant of a module, one of its invariants has it as a conjunct
(`NoEventLost`, `LeavesNothingRunning`, `CountsHeard`, `NoOrphanTask`, `RaisesOnlyDisturbed`,
`ManifestBacked`, `StoreKeepsItsRecords`).

### Bounds, and why they are enough

- `DurableQueue`: three keys, up to symmetry, and one torn write. A torn write costs the line cut
  and the line run into it, and the third record is the one that must not be lost; two tears that
  meet (one on what another left) are in the proofs, which hold for any number.
  `MaxRewrite = 2` rewrites to fewer, as many and other records than the file holds. `old` holds
  one file: renames reach the disk in their order, and a directory written between two of them is a
  behaviour with `DirectoryWritten` there. `DurableQueueMC` declares the symmetry of the keys, which no
  definition tells apart; the run has no liveness property.
- `EventEmitter`: three events, one of them unparseable at its record, one emitted
  twice, one flusher, one crash or cancellation. Order needs two events, and a third
  to stand behind a dropped one; re-buffering a delivered event needs the
  second emit. `MaxTears` is 0 there: the tears are `DurableQueue`'s run.
- `WorkflowDriver`: two runs of a source of two events, limits below and above it, one
  transient offline error, one transient busy one, one bug, two attempts, a guard of
  two. `retried` remembers the errors of the event at hand that another attempt followed. A streak can cross a retry, a buffered event and the boundary of a run.
- `BundleInstall`: seven payloads of up to three artifacts over four keys, two bodies,
  lengths 1 and 2; a bad disk leaves one of two contents (`Decayed`): a key twice in a bundle, one key with two pins in two bundles, two
  keys spelling one asset, a stripped pin, a malformed pin, an unknown kind, a
  malformed key, a bundle without a spec.
- `ThresholdAggregator`: two events of one bucket, one of another, one of none, a
  window of one and four readings of the clock: inside, on and beyond both bounds in
  both directions; one torn append.
- `PipelineRun`: five pipelines, up to three levels of nesting, gates laxer inside than
  outside, deadlines of one and two ticks and none.
- `ClientCompute`: three calls, two with a deadline: one runs, one queues behind it, one
  starts after a close. Two jobs, one of them unreadable, versions that others move once,
  one close. The model returns long, invented, oversized, absent and sentinel values under
  a cap that two long ones exceed.
- `EdgeDevice`: ten machines - with and without a contract, an opt-in, a card, a server, a
  deadline, drifted, ambiguous and missing assets, each kind of node - and a day of one normal
  event and two anomalies with a threshold of two: the first alert is quiet, the second or a
  third after a restart is not. Two boots, so that files outlive a process; two attempts, so
  that a retry fails again; two calls, so that one runs behind an abandoned one. Six store
  names with their real digests: one clean, two with one slug, one reserved, and a pair of which the clean one is spelled like
  the other's slug and digest. One machine's two emitters hold that pair, and their common file does get one
  record twice. The machines differ in their
  constants only; each is a behaviour of its own, and the flaky deliveries are those of one
  machine, the deadline another's. Within these bounds the aggregator's window holds the day.

Deadlock is checked where the system cannot stop (`BundleInstall`,
`ThresholdAggregator`). A queue at its bounds, a driver whose runs are spent, a
pipeline that is over and a device with no call left do stop, so those configurations turn
the check off, and so does a device after its last boot.

### Fairness, and why the code justifies it

- `FairEmitterSpec`: the event loop runs what is ready; every `sink.send` ends, since a
  sink has a timeout of its own; the application calls `flush` again and again (the driver
  does at the end of each run). Nothing is assumed of the link: `BufferDrains` is
  about an application whose link stays up from some time on.
- `FairDriverSpec`: ready tasks run; handlers, sinks, sleeps and health calls end. The
  source owes nothing (an iterator may be silent for ever), and nobody owes a
  `Start`. `TeardownEnds` has the premise that the caller does not cancel the join again
  and again for ever.
- `FairPipelineSpec`: the fold, the race and the clock run; the human never has to
  answer, which is what `ExpiryResolves` is about.
- `FairBundleSpec`: a pull goes on to its end unless it fails; nobody owes a
  pull. `RerunCompletes` has the premise that the world disturbs pulls (`trouble`: a
  failed fetch or move, a crash, other bytes than the pin) finitely often.
- `FairBridgeSpec`: the timers of the event loop fire. Nothing is assumed of the threads, of
  `extract` or of the service, so `InterruptAnswered` holds although a model hangs for ever.
- `FairEdgeSpec`: the event loop runs what is ready, a review's timer fires, and the requests of
  the worker thread end, since the transport has a timeout (`engine.py`, `timeout`) and its
  calls are taken one by one. Nobody owes an answer to a review, a working server or a
  deadline, and nobody owes a boot; `EventEnds` counts the death of the process as an end.

## What is proved

Thirty-eight theorems in eight modules (`<module>_proofs`, and `Runtime_proofs` for two that share no
state), each for every value of the constants that satisfies the named assumptions of the module it
extends. A theorem that is
named below with a property states it as `Spec => []Property` (or `Spec => Property` for an
action property and the refinement). The runs check the same definitions on the small
instances; the invariants below are strengthenings without which no induction goes through.

Three ways of arguing recur. An invariant is proved by one lemma per action, joined in a
lemma about `[Next]_vars`. What needs induction over numbers takes the least number that
fails (`UpTo`, `Least`, from the well-foundedness of `<`), applied to a set. A recursive
function (`Records`, a total of lengths) is unfolded from its definition once it
is shown that some function satisfies its equations.

### `DurableQueue_proofs`

| Theorem | Property |
|---|---|
| `TypeCorrect` | `TypeOK` |
| `ApplyOnce` | `NoDuplicateKeys` |
| `BlastRadius` | `BoundedBlastRadius` |
| `RewriteSurvives` | `SecuredSurvives` |
| `QueueIsBuffer` | `ImplementsBuffer` |

Assumed: `LineKinds` (markers are not keys, the unset index is not a set of keys) and `Bounds`
(both bounds are natural numbers). The invariant is

    IInv == TypeOK /\ NoDuplicateKeys /\ IndexCoversFile /\ LossPaidFor /\ SecuredIsSynced
              /\ OldIsSound

- `IndexCoversFile`: a set index holds every record of the file, but for one in an
  unterminated tail (an append that raised after writing all of the record). Without
  it an `Enqueue` could append a key the file already holds.
- `LossPaidFor`: the records claimed and missing are finite in number and at most two
  per tear, less two while the tail is unterminated: a torn tail has already paid for
  the two records the next append may cost, in the present file and in the one that may come back. `BoundedBlastRadius` alone does not
  survive that append.
- `SecuredIsSynced`: what a rewrite secured lies in the lines an fsync covered, which
  no append touches and no power failure takes from the file it leaves.
- `OldIsSound`: the file a power failure may bring back was once the present one, and has kept what these
  conjuncts said of it then. Without it nothing is known after the failure.

`QueueIsBuffer` maps each step of the file to one of `ApplyOnceBuffer` or to none. The buffer is
`Records(file)`, so the proof first shows what `Records` does: it grows with the lines
(`ReadingGrows`), one more line adds one record or none (`OneMoreLine`), a spoilt last line costs the
newest record or none (`SpoiltLast`), the first lines parse to the first records
(`RecordsOfPrefix`). An append is then an `Accept` or a `Wreck`, a power failure an `Outage`, and
`Clear` and `ReplaceRename` a `Rewrite`, `DirectoryWritten` a `Settle`; that an append is never of a record the buffer has is
`IndexCoversFile` again.

### `EventEmitter_proofs`

| Theorem | Property |
|---|---|
| `NothingEmittedIsLost` | `NoEventLost`, which holds the type invariant |
| `WhatIsFlushedLeaves` | `FlushedLeaves` |
| `FlushSendsInOrder` | `FlushInOrder` |

All three assume `Exclusive`: with it false the run `EventEmitter_overlap` refutes the first one.
`EmitterInv` adds to the shape of the state that the flush in flight is alone and its
snapshot is still the file, that everything before the record it sends is gone (at the server
or refused) and flushed, and that nothing from there on was flushed unless a crash or a cancellation
happened (`Snapshot`); that a rewrite in progress leaves out only records that are gone
(`RewriteInv`); and that the index, when it is read, is exactly the file's records (`QueueShape`;
no write is torn here).

### `Runtime_proofs`

Two components of `runtime/`, one after the other: the driver with its watchdog, and the aggregator.

| Theorem | Property |
|---|---|
| `AbortsIffStuck` | `AbortIffStuck` |
| `BudgetIsSpent` | `BudgetSpent` |
| `RunLeavesNothing` | `LeavesNothingRunning`, which holds the type invariant |
| `CountsOnlyHeard` | `CountsHeard`, which holds the type invariant |
| `MissesOnlyTorn` | `MissesByTears` |

Assumed of the driver: `DriverConstants`. `AbortIffStuck` speaks of the records of a run, the code counts a
streak. `GuardInv` joins them: the guard's streak is the length of the longest run of equal
failures at the end of the trail (`StreakIs`), across the runs that share the guard. `AttemptInv`
bounds the attempt where a handler may be called, and `retried` holds transient errors only since
`Retries` asks for one; `WatchInv` says at which of the driver's
awaits the watchdog can still be alive, and that the source is stopped behind them.

Assumed of the aggregator: `AggregatorConstants`. `CountsHeard` and `MissesByTears` compare two
counts, of lines and of occurrences, and neither is inductive: a snapshot that returned
nothing leaves no count to go on from. `WindowInv` adds

- `StoreInv`: no event is on two lines, and a set index holds the events of all of them but for a
  record in an unterminated tail.
- `HeardInv`: the occurrences are finite in number and no two are of the same event.
- `PairsInv`: an event that the index, a line or an occurrence knows is *paired* if its occurrence
  stands on a line of the same time. The unpaired events, and what the next append costs (`AtRisk`:
  nothing after a whole line, one record after a tail that does not parse, two after one that
  does), are together at most two per tear. An append into a torn tail pays from `AtRisk` what it
  unpairs, as in the queue's `LossPaidFor`.

Records that are counted inject into the occurrences of the window, and back, but for unpaired events.
The exception is the record of a torn append that is retried: it was read before the retry
spoils its line and is counted beside the new one, which is possible only while `AtRisk` is two
(`CountedTwice`). Pruning, a restart and a step of the clock unpair nothing: a line and its
occurrence have the same time, so the window takes both or none.

### `PipelineRun_proofs`

| Theorem | Property |
|---|---|
| `BuildersBind` | the builders make bound pipelines |
| `OneGate` | `OneGateGoverns` |
| `ExpiryGrantsNothing` | `TimeoutIsNoGrant` |
| `NothingAfterTheEnd` | `FirstTerminalIsLast` |
| `TheAnswerIsHonoured` | `AnswerHonoured` |
| `ReviewLeavesNoTask` | `NoOrphanTask` |
| `CancellationEnds` | `CancelEnds` |

Assumed: `PipelineConstants` and, in all but the first, `Bound`: at each of the depths that
`WithGate` rebinds, a pipeline's actions carry its gate. `BuildersBind` proves that
`New`, `Then`, `Act`, `Route` and `WithGate` make no other pipelines, whatever gates the branches
were built with, so `Bound` is what the code gives and not a restriction. The invariant
`PipelineInv` is the race on its own (`RaceInv`: where the two tasks are in each phase of
`resolve_review`, and who has won), the stack (`FoldInv`: every frame's steps answer to the
outermost gate), the trail (`TrailInv`: the first step that did not end ok is the last) and where a
cancelled run can be (`CancelInv`).

### `BundleInstall_proofs`

| Theorem | Property |
|---|---|
| `CompleteIsComplete` | `ReportIsTrue` |
| `ManifestIsBacked` | `ManifestBacked`, which holds the type invariant |
| `UnverifiedStaysOut` | `OnlyVerifiedLands` |

Assumed: `BundleConstants`. Payloads have some longest one, as any wire message has; and one payload
gives a key one kind and one pin, a key being what identifies an artifact in the bundle. Two payloads may
differ in both. `ReportIsTrue` is about all artifacts at the end, the loop about one at a time:
`BundleInv` carries that what was passed has landed (`Passed`), though a later artifact may be
written under the key of an earlier one, and that what is still to be moved is as it was when all of
the bundle was verified (`Staged`, `Verified`).

### `ModelOperator_proofs` and `ClientCompute_proofs`

| Theorem | Property |
|---|---|
| `InferDegrades` | `RaisesOnlyDisturbed`, which holds the type invariant |
| `AnswersAreFresh` | `NoStaleAnswer` |
| `AnswersStand` | `ShipsWhatIsAccepted` |
| `AbandonedStaysQueued` | `AbandonedNeverStarts` |

Assumed: `OperatorConstants`, `BridgeConstants`, `GroundingConstants`: limits are natural numbers, a
model returns a list as long as the anchors, there are finitely many calls.
`ModelOperator_proofs` has the lemmas that the bridge and the device share. `OperatorInv` bounds the
threads that run on by the closes and says that whatever is queued has somebody waiting for it.
`GroundedStands` is about `GroundAnchors` for lists of any length: grounding a
grounded list changes nothing and it fits the caps; it goes through the partial sums of the lengths.
`ClientInv` adds to `OperatorInv` which await each handler is at, that
versions grow by what others do and by the calls that are over (`BridgeInv`), and that an answer is all missing
or grounded with its own interrupt's limits (`AnswerInv`).

### `EdgeDevice_proofs`

| Theorem | Property |
|---|---|
| `WhoSharesAFile` | two names share a file exactly if one is spelled like the slug and digest of the other |
| `OneFilePerName` | `FileOfOneName`, of the stores by themselves (`StoresSpec`) |
| `DeviceFilesOfOneName` | `FileOfOneName` |
| `StoresAreBuffers` | each store under a name that is `Alone` implements `ApplyOnceBuffer` (`StoresSpec`) |
| `DeviceStoresAccept` | `StoresOnlyAccept` |
| `DeviceStoresAreBuffers` | each store of the device under such a name implements `ApplyOnceBuffer` |
| `ColdAndOffline` | `ColdIsNotOffline` |
| `StoresKept` | `StoreKeepsItsRecords`, which holds the type invariant |
| `ReasonsAreHonest` | `HonestReason` |
| `NotifiedByRetry` | `NotifiedAgainOnlyByRetry` |
| `GroundedIsTold` | `OnlyGroundedIsTold` |

Assumed: `StoreConstants` (the marker for no store is no store), `Spellings` (digests of different
names differ; what the code's alphabet gives of a reserved word: no slug begins with `_`, no reserved
word holds a `-`; it does not exclude that two names clash),
`ContractOperatorConstants` (the kinds of response are told apart) and `DeviceConstants`. Of the
last, the conjuncts that say something about the world: events are distinct, since an envelope's id is a
fresh `uuid4` (`envelope.py`); every machine has a store name for each of three holders;
a contract that loads has labels that are texts, since `from_wire` passes each through `str`
(`authored/contract.py`); there are at least two calls, so that one is free while another is abandoned.

The parts of the invariant, each stable under every step given the ones before it:

- `StoresInv`: a name's live store is the memo's, so there is one, and under a name that is alone with its
  file its index is unread or exactly the records of that file. An append then adds a record the file
  lacks. `WhoSharesAFile` is proved from the code's conditions by cases on which of the two names is lossy, clean or
  reserved. `StoresAreBuffers` then takes each step of the stores to an
  `Accept` of one named buffer and to none of the others. `ApplyOnceBuffer` also permits what a torn
  append or a power failure costs; `StoresOnlyAccept` says that nothing else in the storage
  layer - the memo, the names, who holds what, the restarts - costs a record. For two names that
  clash neither holds: each store's index misses what the other appends.
- `DeviceInv`: every part holds a store, and the pipeline has an event, whenever it writes.
  `HomeInv`: without the opt-in every store and every record is on the medium the manifest gives.
- `WarmInv`: what a stage of the warmup has concluded is something the server was since it began.
- `LoopInv`, `CallInv`: the attempt is within bounds, and the pipeline waits for at most one
  call, which nothing disturbs but its deadline. `HonestInv`: how `extract` ended is what it makes
  of the response that call heard.
- `NoticesInv`: what a recipient was told of the event at hand was told in earlier attempts, each of
  which ended transiently.
- `NodeInv`, `ToldInv`: a contract node was made of a file that loads, and what the pipeline sees
  of a result is what its node makes of a grounded output. Grounding again changes nothing
  field by field: a closed field by its normal form, the verbatim ones by `GroundedStands` and
  the ranks of their positions.

Two statements are weaker than one might write, since the code makes them so. `ColdIsNotOffline`
lets a server that is up and gives no listing be reported unreachable, which `model_available` does
(`clientcompute/engine.py:133`). `OnlyGroundedIsTold` promises a zone of the contract
only if the contract's zone is a closed set; a verbatim zone is whatever text a source holds.

Conditions that overlap are written as `IF`, in the order the code tests them, where the proofs need the value:
TLC takes the first branch of a `CASE` that holds, TLA+ any.

### Only model-checked

- Liveness: `BufferDrains`, `TeardownEnds`, `SilenceIsObserved`, `RerunCompletes`,
  `InterruptAnswered`, `ExpiryResolves`, `EventEnds`. TLAPS does not treat fairness or `ENABLED`.
- The four findings, which are counterexamples.

## Findings

1. **One bad write can put the whole buffer out of reach** (`offline/queue.py:91`,
   `BadWriteSparesTheRest`). A cut inside a multi-byte character makes `read_text`
   raise for all lines, against "one bad write can't lose every buffered record".
2. **An event emitted during a flush is lost** (`offline/emitter.py:113`,
   `EmitNeverDrops`). `flush` rewrites the queue from what it read before its awaits.
3. **The source is not stopped when closing its stream fails**
   (`runtime/driver.py:202`, `StoppedOnEveryExit`), against "torn down on every exit path".
4. **A truncated artifact is installed** (`bundle/fetch.py:202`,
   `PresentIsComplete`). An empty read ends the stream, the size is an upper
   bound only, and an unpinned artifact is later skipped on presence.

Disagreements met while modelling that no run condemns:

- **`enqueue` may acknowledge a record that is not stored** (`offline/queue.py:128`). After an
  append cut before its newline the next record is run together with the torn line;
  `enqueue` returned `True`, the key stays in the index and offering it again does nothing,
  against "Append record durably ... Returns True if it was written".
  `BoundedBlastRadius` says how many records this may cost, and no bound below two per torn
  write holds.
- **Two names can share a file** (`storage/provider.py:56-72`): a clean name spelled like the
  slug and digest of a lossy one is left as it is, against "two distinct names can never silently collide
  onto one file" (62-63) and 131-132. `"cat/log"` and `"cat_log-d161b506e882"` are such a pair, and
  in the run `EdgeDevice` both write into one file, which then holds a record twice. `FileOfOneName`
  says what such a file holds, and `WhoSharesAFile` that no other names share one.
- **A torn append that is retried is counted twice** (`runtime/aggregate.py:229`): cut just before
  its newline, the record is read back but is not in the index, and the snapshot that is retried
  counts its event beside the new line, against "a within-window replay is not double-counted"
  (`runtime/aggregate.py:165-166`). `CountsHeard` therefore allows two for each torn append; it fails
  without that allowance.
- **A rewrite may be undone** (`offline/queue.py:158-162`): nothing fsyncs the directory, so after a
  power failure a `flush` that returned may find the queue from before it. What it had sent is queued
  again, which the server deduplicates; of what it had kept, appends that were never fsynced by themselves may be gone
  although the rewrite fsynced them. The docstring promises no more than that the queue is not half-written.
- **A missing `present` is told as an absent cat** (pack, `contract_node.py:132-136`): if
  another field is grounded the result is `success`, `present` becomes false and the notice
  says "cat not located". `OnlyGroundedIsTold` therefore asks for something grounded, not
  for `present`.
- **A probe that fails for any reason is "still loading"** (`clientcompute/engine.py:407-419`): a
  server that is up and has no such model answers the probe with an HTTP error and
  is reported as `cold_started`. `ColdIsNotOffline` says what does hold.
- **`model_available` says "missing" of a server that serves one model under any id**
  (`clientcompute/engine.py:324-374`).
- **`server_unreachable` also stands for HTTP errors and bodies that are no JSON**
  (`clientcompute/engine.py:475-499`): in the model both are the response `None`.
- **`probe_device` "never raises"**, but a `UnicodeDecodeError` of its reads is not an
  `OSError` (`probe.py:172-186`).
- **A whitespace-only allowed value passes as not empty** (`authored/contract.py:87-110`).
- **`ContractCatLocator` drops the degrade reason** (pack, `contract_node.py:117-123`), so
  `HonestReason` is about the operator's result.
- **The pack's own `LOCATION_SCHEMA` names a field the shipped contract does not**
  (pack, `pack.py:47-55`): an operator from `for_contract` behind that pipeline raises at every
  event. `ContractCatLocator` passes the contract's schema instead. The machines with
  `for_contract` are given a schema that fits and one that does not.
- **A QNN runner without its execution provider is reported warm** (`runners/qnn.py`): it has
  no warmup hook.

## Hazards without a property

- Two overlapping flushes send every record twice (`offline/emitter.py:94`): the
  server removes duplicates by event id.
- `max_events` is tested after one more pull, which a silent source never answers
  (`runtime/driver.py:177`): no line promises otherwise.
- A cancellation in a drain is suppressed (`runtime/watchdog.py:117`): accepted in
  the source.

## Not modelled

Wire formats of events and payloads, log text, TLS and URL handling; the wording of prompts and notices; the CLI and
scaffolding; the pack's simulated sources, adapter registry and printed report; the simulator (a source like any other); envelope and `Result` (immutable data).
Bindings, sinks, sources, handlers, models, the server and the human are external: each
call ends in any of the ways the code tells apart. In `PipelineRun` the values that steps put into
the state are left out, in the driver the backoff delays, in the aggregator
timestamps that do not parse (a kind of line the window drops), in `ModelOperator` an executor
shared with other operators. In
`EdgeDevice` the operator is not closed (`ClientCompute` does that), a queue append is
whole or not at all (`DurableQueue` tears it), the window of the aggregator does not move
(`ThresholdAggregator` does), and the review is one step (`ReviewRace`). A job always has a version in `ClientCompute`; the
code also submits without one when the service gave none, and is then not protected by it. An
operator's `error` reason, that of a bug, does not arise in the model.

## Plan

1. Proofs: `HealthPoll`'s edges by themselves.
2. The device with torn appends (`RecordStores` over `DurableQueue`'s lines), a moving window,
   and two flaky machines at once.
3. The simulator's replay as a source, and the wire form of an event.
