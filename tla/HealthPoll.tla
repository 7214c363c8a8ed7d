----------------------------- MODULE HealthPoll -----------------------------
(***************************************************************************)
(* convilyn_edge/runtime/watchdog.py: poll_health, the task that reads     *)
(* source.health() on an interval and hands changes to on_health.  It is   *)
(* interleaved with the driver at its three awaits: the sleep, the health  *)
(* call and the observer.  WorkflowDriver composes it.                     *)
(***************************************************************************)
CONSTANTS
  Statuses,     (* values of DeviceHealth.status                           *)
  None          (* no status yet                                           *)

VARIABLES
  watch,        (* the await the task is parked at, "off" or "ended"       *)
  stop,         (* the asyncio.Event the driver sets                       *)
  cancelled,    (* a cancel() not yet delivered                            *)
  last,         (* the status last delivered to on_health                  *)
  reading,      (* the reading on_health is looking at                     *)
  health,       (* the device's status                                     *)
  seen          (* history: the last status on_health accepted             *)

pollVars == <<watch, stop, cancelled, last, reading, health, seen>>

Parked == {"sleep", "poll", "observe"}

PollInit ==
  /\ watch = "off" /\ stop = FALSE /\ cancelled = FALSE
  /\ last = None /\ reading = None /\ seen = None
  /\ health \in Statuses

(* A run begins, with a watchdog or without.                               *)
Schedule(watched) ==
  /\ watch' = IF watched THEN "sleep" ELSE "off"
  /\ stop' = FALSE /\ cancelled' = FALSE
  /\ last' = None /\ reading' = None /\ seen' = None
  /\ health' \in Statuses

(* "while not stop.is_set()", then the sleep.                              *)
LoopTop == watch' = IF stop THEN "ended" ELSE "sleep"

Wake ==
  /\ watch = "sleep" /\ ~cancelled
  /\ watch' = IF stop THEN "ended" ELSE "poll"
  /\ UNCHANGED <<stop, cancelled, last, reading, health, seen>>

(* health() returned; transitions_only skips a status equal to last.       *)
PollRead ==
  /\ watch = "poll" /\ ~cancelled
  /\ IF health = last
       THEN LoopTop /\ UNCHANGED reading
       ELSE watch' = "observe" /\ reading' = health
  /\ UNCHANGED <<stop, cancelled, last, health, seen>>

PollFails ==
  /\ watch = "poll" /\ ~cancelled
  /\ LoopTop
  /\ UNCHANGED <<stop, cancelled, last, reading, health, seen>>

Observed ==
  /\ watch = "observe" /\ ~cancelled
  /\ last' = reading /\ seen' = reading /\ reading' = None
  /\ LoopTop
  /\ UNCHANGED <<stop, cancelled, health>>

(* Variant: the edge is recorded although the observer raised.             *)
ObserverFailsRecorded ==
  /\ watch = "observe" /\ ~cancelled
  /\ last' = reading /\ reading' = None
  /\ LoopTop
  /\ UNCHANGED <<stop, cancelled, health, seen>>

(* The observer raised: last stays, so the next reading tries again.       *)
ObserverFails ==
  /\ watch = "observe" /\ ~cancelled
  /\ reading' = None
  /\ LoopTop
  /\ UNCHANGED <<stop, cancelled, last, health, seen>>

(* CancelledError reaches the task at its await and ends it ...            *)
TaskCancelled ==
  /\ watch \in Parked /\ cancelled
  /\ watch' = "ended"
  /\ UNCHANGED <<stop, cancelled, last, reading, health, seen>>

(* ... unless the adapter or the observer being awaited swallows it.       *)
CancelSwallowed ==
  /\ watch \in {"poll", "observe"} /\ cancelled
  /\ cancelled' = FALSE
  /\ UNCHANGED <<watch, stop, last, reading, health, seen>>

(* The device (external); a change nobody can read is left out.            *)
HealthChanges ==
  /\ watch \in Parked
  /\ health' \in Statuses \ {health}
  /\ UNCHANGED <<watch, stop, cancelled, last, reading, seen>>

PollStep ==
  \/ Wake \/ PollRead \/ PollFails
  \/ Observed \/ ObserverFails
  \/ TaskCancelled \/ CancelSwallowed

(* A failure that costs something: a poll that fails when there is nothing *)
(* to report is the same step as one that succeeds.                        *)
Hiccup == (PollFails /\ health # last) \/ ObserverFails

PollTypeOK ==
  /\ watch \in Parked \cup {"off", "ended"}
  /\ stop \in BOOLEAN /\ cancelled \in BOOLEAN
  /\ {last, reading, seen} \subseteq Statuses \cup {None}
  /\ health \in Statuses
=============================================================================
