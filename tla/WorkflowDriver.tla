--------------------------- MODULE WorkflowDriver ---------------------------
(***************************************************************************)
(* convilyn_edge/runtime/driver.py: WorkflowDriver.run, with retry_async   *)
(* and CycleGuard of runtime/policy.py and the watchdog of HealthPoll.     *)
(*                                                                         *)
(* pc is the await the run is parked at; one step runs from an await to    *)
(* the next.  The source, the handler, the emitter and the device are      *)
(* external: their awaits end in any of the ways the code tells apart.  A  *)
(* run may be cancelled at any await.                                      *)
(***************************************************************************)
EXTENDS Naturals, Sequences, FiniteSets

CONSTANTS
  SourceEvents,   (* bound: events one source delivers                     *)
  Limits,         (* values of max_events; one above SourceEvents is None  *)
  Kinds,          (* exception types the handler raises                    *)
  RetryOn,        (* those retry_async retries                             *)
  OfflineOn,      (* those that mean the cloud is unreachable              *)
  MaxAttempts,    (* RetryPolicy.max_attempts                              *)
  MaxConsecutive, (* CycleGuard.max_consecutive                            *)
  SharedGuard,    (* TRUE when the driver was given a CycleGuard           *)
  MaxRuns,        (* bound: runs of the driver                             *)
  Statuses, None

ASSUME DriverConstants ==
  /\ SourceEvents \in Nat /\ Limits \subseteq Nat
  /\ RetryOn \subseteq Kinds /\ OfflineOn \subseteq Kinds
  /\ MaxAttempts \in Nat \ {0} /\ MaxConsecutive \in Nat \ {0}
  /\ SharedGuard \in BOOLEAN /\ MaxRuns \in Nat
  /\ None \notin Kinds /\ None \notin Statuses

VARIABLES
  watch, stop, cancelled, last, reading, health, seen,    (* HealthPoll    *)
  pc,
  limit,        (* max_events of this run                                  *)
  count,        (* events taken in                                         *)
  attempt,      (* attempt of the handler on the current event, from 1     *)
  guard,        (* CycleGuard: its _last and _count                        *)
  aborted,
  source,       (* "idle", "started" or "stopped"                          *)
  exit,         (* why the loop was left: "returned", "raised",            *)
                (* "cancelled" or "closeFailed"                            *)
  (* history *)
  retried,      (* the errors of the current event that were tried again   *)
  trail,        (* the records the guard has counted, oldest first         *)
  runs

loopVars == <<limit, count, attempt, guard, aborted, retried, trail>>
pollVars == <<watch, stop, cancelled, last, reading, health, seen>>
vars == <<pc, loopVars, source, exit, runs, pollVars>>

Poll == INSTANCE HealthPoll

Fresh == [sig |-> None, streak |-> 0]

DriverInit ==
  /\ Poll!PollInit
  /\ pc = "idle" /\ source = "idle" /\ exit = "returned"
  /\ limit \in Limits /\ count = 0 /\ attempt = 0
  /\ guard = Fresh /\ aborted = FALSE
  /\ retried = {} /\ trail = <<>> /\ runs = 0

-----------------------------------------------------------------------------
(* CycleGuard *)

(* Variant: progress does not reset the streak.                            *)
GuardAfterSticky(g, signature) ==
  IF signature = None THEN g
  ELSE [sig |-> signature, streak |-> IF signature = g.sig THEN g.streak + 1 ELSE 1]

(* record(signature), or reset() when there is none.                       *)
GuardAfter(g, signature) ==
  IF signature = None THEN Fresh
  ELSE [sig |-> signature, streak |-> IF signature = g.sig THEN g.streak + 1 ELSE 1]

Stuck(g) == g.streak >= MaxConsecutive

-----------------------------------------------------------------------------
(* Entering and leaving a run *)

InRun == pc \notin {"idle", "done"}

(* source.start(ctx) is before the try: nothing is scheduled if it raises. *)
StartRaises ==
  /\ ~InRun /\ runs < MaxRuns
  /\ runs' = runs + 1
  /\ UNCHANGED <<pc, loopVars, source, exit, pollVars>>

(* A run on another source may follow one that is over.                    *)
Start(watched) ==
  /\ ~InRun /\ runs < MaxRuns
  /\ runs' = runs + 1
  /\ source' = "started" /\ exit' = "returned"
  /\ limit' \in Limits /\ count' = 0 /\ attempt' = 0 /\ aborted' = FALSE
  /\ guard' = IF SharedGuard THEN guard ELSE Fresh
  /\ retried' = {}
  /\ trail' = IF SharedGuard THEN trail ELSE <<>>
  /\ Poll!Schedule(watched)
  /\ pc' = "pull"

(* Variant: the task is cancelled and the stop event is not set.           *)
LeaveNoStop(why) ==
  /\ exit' = why
  /\ pc' = IF watch = "off" THEN "aclose" ELSE "join"
  /\ cancelled' = (watch # "off")
  /\ UNCHANGED <<stop, watch, last, reading, health, seen>>

(* Variant: the task is not awaited.                                       *)
LeaveNoJoin(why) ==
  /\ exit' = why
  /\ pc' = "aclose"
  /\ stop' = (watch # "off")
  /\ cancelled' = (watch # "off")
  /\ UNCHANGED <<watch, last, reading, health, seen>>

(* The finally clause: the watchdog is told to stop and cancelled, in one  *)
(* step with the exit that led here.                                       *)
Leave(why) ==
  /\ exit' = why
  /\ pc' = IF watch = "off" THEN "aclose" ELSE "join"
  /\ stop' = (watch # "off")
  /\ cancelled' = (watch # "off")
  /\ UNCHANGED <<watch, last, reading, health, seen>>

Continue(next) ==
  /\ pc' = next
  /\ UNCHANGED <<exit, pollVars>>

-----------------------------------------------------------------------------
(* The loop *)

(* The envelope pulled when max_events is reached is dropped.              *)
Pull ==
  /\ pc = "pull" /\ count <= SourceEvents
  /\ \/ /\ count >= limit
        /\ Leave("returned")
        /\ UNCHANGED loopVars
     \/ /\ count < limit /\ count < SourceEvents
        /\ count' = count + 1 /\ attempt' = 1
        /\ Continue("emit")
        /\ UNCHANGED <<limit, guard, aborted, retried, trail>>
  /\ UNCHANGED <<source, runs>>

SourceEnds ==
  /\ pc = "pull"
  /\ \E why \in {"returned", "raised"} : Leave(why)
  /\ UNCHANGED <<loopVars, source, runs>>

(* _emit swallows whatever the emitter raises.                             *)
Emit ==
  /\ pc = "emit"
  /\ Continue("handle")
  /\ UNCHANGED <<loopVars, source, runs>>

(* records.append(record), then the guard.                                 *)
Record(status, kind) ==
  LET signature == IF status = "failed" THEN kind ELSE None
      g         == GuardAfter(guard, signature)
  IN  /\ trail' = Append(trail, [status |-> status, kind |-> kind, attempts |-> attempt,
                               run |-> runs])
      /\ guard' = g
      /\ aborted' = (signature # None /\ Stuck(g))
      /\ IF aborted' THEN Leave("returned") ELSE Continue("pull")
      /\ attempt' = 0 /\ retried' = {}
      /\ UNCHANGED <<limit, count>>

HandlerReturns ==
  /\ pc = "handle"
  /\ Record("processed", None)
  /\ UNCHANGED <<source, runs>>

(* Variant: whatever is raised is retried.                                 *)
RetriesAnything(kind) == attempt < MaxAttempts

(* Variant: an offline error is recorded without being retried.            *)
RetriesHard(kind) == kind \notin OfflineOn /\ attempt < MaxAttempts

Retries(kind) == kind \in RetryOn /\ attempt < MaxAttempts

(* retry_async backs off and retries, or _process classifies the error.    *)
HandlerRaises(kind) ==
  /\ pc = "handle"
  /\ IF Retries(kind)
       THEN /\ Continue("backoff")
            /\ retried' = retried \cup {kind}
            /\ UNCHANGED <<limit, count, attempt, guard, aborted, trail>>
       ELSE Record(IF kind \in OfflineOn THEN "buffered" ELSE "failed", kind)
  /\ UNCHANGED <<source, runs>>

Backoff ==
  /\ pc = "backoff"
  /\ attempt' = attempt + 1
  /\ Continue("handle")
  /\ UNCHANGED <<limit, count, guard, aborted, retried, trail, source, runs>>

-----------------------------------------------------------------------------
(* Teardown *)

(* "await watch_task" returns when the watchdog has ended.                 *)
Join ==
  /\ pc = "join" /\ watch = "ended"
  /\ Continue("aclose")
  /\ UNCHANGED <<loopVars, source, runs>>

AfterClose == IF exit = "returned" THEN "flush" ELSE "done"

(* Variant: source.stop() is called after a run that returned only.        *)
CloseThenLeave ==
  /\ pc = "aclose"
  /\ Continue(IF exit = "returned" THEN "stop" ELSE "done")
  /\ UNCHANGED <<loopVars, source, runs>>

Close ==
  /\ pc = "aclose"
  /\ Continue("stop")
  /\ UNCHANGED <<loopVars, source, runs>>

(* aclose() raises, or the run is cancelled in it: source.stop() is not    *)
(* reached.                                                                *)
CloseRaises ==
  /\ pc = "aclose"
  /\ exit' = "closeFailed" /\ pc' = "done"
  /\ UNCHANGED <<loopVars, source, runs, pollVars>>

StopSource ==
  /\ pc = "stop"
  /\ source' = "stopped"
  /\ Continue(AfterClose)
  /\ UNCHANGED <<loopVars, runs>>

(* _flush swallows whatever flush raises.                                  *)
Flush ==
  /\ pc = "flush"
  /\ Continue("done")
  /\ UNCHANGED <<loopVars, source, runs>>

(* Cancellation at an await of the loop leaves it ...                      *)
CancelLoop ==
  /\ pc \in {"pull", "emit", "handle", "backoff"}
  /\ Leave("cancelled")
  /\ UNCHANGED <<loopVars, source, runs>>

(* ... while the watchdog is awaited it is passed on to the watchdog and   *)
(* suppressed with its outcome: the run goes on ...                        *)
CancelJoin ==
  /\ pc = "join" /\ watch # "ended" /\ ~cancelled
  /\ cancelled' = TRUE
  /\ UNCHANGED <<pc, loopVars, source, exit, runs, watch, stop, last, reading, health, seen>>

(* ... and in stop() or flush() the run ends, as it does when stop()       *)
(* raises; stop() has been entered.                                        *)
EndLate ==
  /\ \/ pc = "stop" /\ exit' \in {"raised", "cancelled"}
     \/ pc = "flush" /\ exit' = "cancelled"
  /\ source' = "stopped" /\ pc' = "done"
  /\ UNCHANGED <<loopVars, runs, pollVars>>

-----------------------------------------------------------------------------
DriverStep ==
  \/ Emit \/ HandlerReturns \/ (\E k \in Kinds : HandlerRaises(k)) \/ Backoff
  \/ Join \/ Close \/ CloseRaises \/ StopSource \/ Flush

SourceStep == Pull \/ SourceEnds

WatchStep == Poll!PollStep /\ UNCHANGED <<pc, loopVars, source, exit, runs>>

DeviceChanges == Poll!HealthChanges /\ UNCHANGED <<pc, loopVars, source, exit, runs>>

DriverNext ==
  \/ StartRaises \/ (\E watched \in BOOLEAN : Start(watched))
  \/ SourceStep \/ DriverStep \/ WatchStep \/ DeviceChanges
  \/ CancelLoop \/ CancelJoin \/ EndLate

DriverSpec == DriverInit /\ [][DriverNext]_vars

(* The event loop runs every ready task, and handlers, sinks, sleeps and   *)
(* health calls end.  The source may stay silent for ever.                 *)
FairDriverSpec == DriverSpec /\ WF_vars(DriverStep) /\ WF_vars(WatchStep)

-----------------------------------------------------------------------------
(* Properties *)

DriverTypeOK ==
  /\ Poll!PollTypeOK
  /\ pc \in {"idle", "pull", "emit", "handle", "backoff", "join", "aclose", "stop",
             "flush", "done"}
  /\ limit \in Limits /\ count \in 0..SourceEvents
  /\ attempt \in 0..MaxAttempts /\ retried \subseteq Kinds
  /\ guard.sig \in Kinds \cup {None} /\ guard.streak \in Nat
  /\ aborted \in BOOLEAN
  /\ source \in {"idle", "started", "stopped"}
  /\ exit \in {"returned", "raised", "cancelled", "closeFailed"}
  /\ runs \in 0..MaxRuns

(* The trailing failures of one kind, the streak the guard should count.   *)
TrailingStreak ==
  LET n       == Len(trail)
      same(m) == \A i \in (n - m + 1)..n : /\ trail[i].status = "failed"
                                           /\ trail[i].kind = trail[n].kind
  IN  Cardinality({m \in 1..n : same(m)})

(* Stuck-abort: a run is aborted exactly when the last MaxConsecutive      *)
(* records - of the run, or with a shared guard of the driver - failed     *)
(* with one exception type.  Retries, buffered and processed events in     *)
(* between neither hide a streak nor lengthen it.                          *)
AbortIffStuck ==
  InRun /\ trail # <<>> /\ trail[Len(trail)].run = runs
    => (aborted <=> TrailingStreak >= MaxConsecutive)

(* policy.py:144-147: an event is given up with a transient error only when*)
(* its whole retry budget is spent, and every error that another attempt   *)
(* followed was transient: a rejected event is not a rate limit.           *)
BudgetSpent ==
  /\ retried \subseteq RetryOn
  /\ \A i \in 1..Len(trail) :
       LET r == trail[i] IN
         /\ r.attempts \in 1..MaxAttempts
         /\ r.kind \in RetryOn => r.attempts = MaxAttempts

(* A run leaves nothing running.  The watchdog never reads or reports on a *)
(* source that is not started or already stopped, and is over when the     *)
(* source is stopped; and whatever ended the loop - exhaustion, the limit, *)
(* abort, an error or a cancellation - the run ends with the source        *)
(* stopped.  Only when closing the stream failed may it end otherwise.     *)
LeavesNothingRunning ==
  /\ DriverTypeOK
  /\ watch \in {"sleep", "poll", "observe"} => source = "started" /\ InRun
  /\ pc = "done" => source = "stopped" \/ exit = "closeFailed"

(* Teardown ends: a watchdog parked anywhere, even one whose adapter       *)
(* swallows the cancellation, cannot hold the run, unless the caller       *)
(* cancels again for ever.                                                 *)
TeardownEnds ==
  <>[][~CancelJoin]_vars => (pc \in {"join", "aclose", "stop", "flush"} ~> pc = "done")

(* A device that goes silent is still observed: if the run waits for its   *)
(* source for ever, polls and observer stop failing and the device settles *)
(* on a status, the observer gets that status.                             *)
Settled(s) == <>[](pc = "pull" /\ watch # "off" /\ health = s)
SilenceIsObserved ==
  <>[][~Poll!Hiccup]_vars => \A s \in Statuses : Settled(s) => <>[](seen = s)

(* driver.py:152-156: stop() is called "so a real hardware source ... is   *)
(* torn down on every exit path".                                          *)
StoppedOnEveryExit == pc = "done" => source = "stopped"
=============================================================================
