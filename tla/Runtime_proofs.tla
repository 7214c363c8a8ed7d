--------------------------- MODULE Runtime_proofs ---------------------------
(***************************************************************************)
(* Two components of convilyn_edge/runtime/ that share no state.           *)
(*                                                                         *)
(* The driver and its watchdog, for every retry policy, guard, source and  *)
(* number of runs.  AttemptInv says how far a handler call can be,         *)
(* WatchInv where the watchdog can be while the driver is where it is, and *)
(* GuardInv what the guard knows of the records: its streak is that of the *)
(* trail.                                                                  *)
(*                                                                         *)
(* The threshold aggregator, for every window, clock and number of events  *)
(* and torn appends.  PairsInv is the argument: the index, the lines and   *)
(* the occurrences agree on every event but at most two per torn append,   *)
(* less what the next append may yet cost.                                 *)
(***************************************************************************)
EXTENDS WorkflowDriver, ThresholdAggregator, FiniteSetTheorems, SequenceTheorems, TLAPS

-----------------------------------------------------------------------------
(* The driver: its invariant *)

TrailRecords == [status : {"processed", "buffered", "failed"}, kind : Kinds \cup {None},
                 attempts : 1..MaxAttempts, run : Nat]

AttemptInv ==
  /\ trail \in Seq(TrailRecords)
  /\ pc \in {"emit", "handle", "backoff"} => attempt >= 1
  /\ pc = "backoff" => attempt < MaxAttempts
  /\ BudgetSpent

WatchInv ==
  /\ pc \in {"pull", "emit", "handle", "backoff", "join"} => source = "started"
  /\ watch \in {"sleep", "poll", "observe"} => pc \in {"pull", "emit", "handle", "backoff", "join"}
  /\ pc = "flush" => source = "stopped"
  /\ pc = "done" => source = "stopped" \/ exit = "closeFailed"

(* The last m records are failures of one kind.                            *)
Same(t, m) ==
  \A i \in (Len(t) - m + 1)..Len(t) : /\ t[i].status = "failed"
                                      /\ t[i].kind = t[Len(t)].kind

(* The streak at the end of t is k long.                                   *)
StreakIs(t, k) ==
  /\ k \in 0..Len(t)
  /\ \A m \in 1..Len(t) : Same(t, m) <=> m <= k

GuardInv ==
  /\ StreakIs(trail, guard.streak)
  /\ guard.streak = 0 => guard.sig = None
  /\ guard.streak # 0 => guard.sig = trail[Len(trail)].kind
  /\ trail # <<>> => trail[Len(trail)].run <= runs
  /\ InRun /\ trail # <<>> /\ trail[Len(trail)].run = runs
       => (aborted <=> guard.streak >= MaxConsecutive)

DriverInv == DriverTypeOK /\ AttemptInv /\ WatchInv /\ GuardInv

-----------------------------------------------------------------------------
(* Streaks *)

LEMMA NoStreak == StreakIs(<<>>, 0)
BY DEF StreakIs

(* A record that did not fail ends the streak; one that failed as the last *)
(* ones did lengthens it; any other failure starts a new one.              *)
LEMMA StreakAppend ==
  ASSUME NEW S, NEW t \in Seq(S), NEW k, StreakIs(t, k), NEW r \in S
  PROVE  /\ r.status # "failed" => StreakIs(Append(t, r), 0)
         /\ r.status = "failed" /\ k # 0 /\ t[Len(t)].kind = r.kind
              => StreakIs(Append(t, r), k + 1)
         /\ r.status = "failed" /\ (k = 0 \/ t[Len(t)].kind # r.kind)
              => StreakIs(Append(t, r), 1)
<1> DEFINE u == Append(t, r)
           n == Len(t)
<1>1. n \in Nat /\ Len(u) = n + 1 /\ u[n + 1] = r /\ \A i \in 1..n : u[i] = t[i]
  BY AppendProperties
<1>2. k \in 0..n
  BY DEF StreakIs
<1> HIDE DEF u, n
<1>3. ASSUME r.status # "failed"
      PROVE  StreakIs(u, 0)
  <2>1. \A m \in 1..Len(u) : n + 1 \in (Len(u) - m + 1)..Len(u)
    BY <1>1
  <2>2. \A m \in 1..Len(u) : ~Same(u, m)
    BY <1>1, <1>3, <2>1 DEF Same
  <2>3. QED
    BY <1>1, <2>2 DEF StreakIs
<1>4. ASSUME r.status = "failed"
      PROVE  Same(u, 1)
  <2>1. \A i \in (Len(u) - 1 + 1)..Len(u) : i = n + 1
    BY <1>1
  <2>2. QED
    BY <1>1, <1>4, <2>1 DEF Same
<1>5. ASSUME r.status = "failed", NEW m \in 1..n
      PROVE  Same(u, m + 1) <=> Same(t, m) /\ t[n].kind = r.kind
  <2>1. n \in (n - m + 1)..n /\ (n - m + 1)..n \subseteq 1..n
    BY <1>1
  <2>2. ASSUME Same(u, m + 1)
        PROVE  Same(t, m) /\ t[n].kind = r.kind
    <3>1. \A i \in (n - m + 1)..n : t[i].status = "failed" /\ t[i].kind = r.kind
      <4>1. \A i \in (n - m + 1)..n : i \in (Len(u) - (m + 1) + 1)..Len(u)
        BY <1>1
      <4>2. QED
        BY <1>1, <2>1, <2>2, <4>1 DEF Same
    <3>2. QED
      BY <1>1, <2>1, <3>1 DEF Same, n
  <2>3. ASSUME Same(t, m), t[n].kind = r.kind
        PROVE  Same(u, m + 1)
    <3>1. \A i \in (n - m + 1)..n : t[i].status = "failed" /\ t[i].kind = r.kind
      BY <2>3 DEF Same, n
    <3>2. \A i \in (Len(u) - (m + 1) + 1)..Len(u) : i = n + 1 \/ i \in (n - m + 1)..n
      BY <1>1
    <3>3. QED
      BY <1>1, <1>5, <2>1, <3>1, <3>2 DEF Same
  <2>4. QED
    BY <2>2, <2>3
<1>6. ASSUME r.status = "failed", k # 0, t[n].kind = r.kind
      PROVE  StreakIs(u, k + 1)
  <2>1. ASSUME NEW m \in 1..Len(u)
        PROVE  Same(u, m) <=> m <= k + 1
    <3>1. CASE m = 1
      BY <1>2, <1>4, <1>6, <3>1
    <3>2. CASE m # 1
      <4>1. m - 1 \in 1..n /\ (m - 1) + 1 = m
        BY <1>1, <3>2
      <4>2. Same(u, m) <=> Same(t, m - 1)
        BY <1>5, <1>6, <4>1
      <4>3. Same(t, m - 1) <=> m - 1 <= k
        BY <4>1 DEF StreakIs, n
      <4>4. QED
        BY <1>2, <4>1, <4>2, <4>3
    <3>3. QED
      BY <3>1, <3>2
  <2>2. QED
    BY <1>1, <1>2, <2>1 DEF StreakIs
<1>7. ASSUME r.status = "failed", k = 0 \/ t[n].kind # r.kind
      PROVE  StreakIs(u, 1)
  <2>1. ASSUME NEW m \in 1..Len(u), m # 1
        PROVE  ~Same(u, m)
    <3>1. m - 1 \in 1..n /\ (m - 1) + 1 = m
      BY <1>1, <2>1
    <3>2. Same(u, m) <=> Same(t, m - 1) /\ t[n].kind = r.kind
      BY <1>5, <1>7, <3>1
    <3>3. k = 0 => ~Same(t, m - 1)
      BY <3>1 DEF StreakIs, n
    <3>4. QED
      BY <1>7, <3>2, <3>3
  <2>2. \A m \in 1..Len(u) : Same(u, m) <=> m <= 1
    BY <1>1, <1>4, <1>7, <2>1
  <2>3. QED
    BY <1>1, <2>2 DEF StreakIs
<1>8. QED
  BY <1>3, <1>6, <1>7 DEF u, n

(* The streak is the one AbortIffStuck counts.                             *)
LEMMA StreakCounted ==
  ASSUME NEW k, StreakIs(trail, k), Len(trail) \in Nat
  PROVE  TrailingStreak = k
<1> DEFINE n == Len(trail)
           same(m) == \A i \in (n - m + 1)..n : /\ trail[i].status = "failed"
                                              /\ trail[i].kind = trail[n].kind
<1>1. k \in 0..n
  BY DEF StreakIs
<1>2. \A m \in 1..n : same(m) <=> m <= k
  BY DEF StreakIs, Same
<1>3. {m \in 1..n : same(m)} = 1..k
  <2> HIDE DEF same
  <2>1. QED
    BY <1>1, <1>2
<1>4. Cardinality(1..k) = k
  BY <1>1, FS_Interval
<1>5. QED
  BY <1>3, <1>4 DEF TrailingStreak

-----------------------------------------------------------------------------
(* Steps that leave the records and the guard alone *)

LEMMA RecordsKept ==
  ASSUME DriverInv, InRun, UNCHANGED <<retried, trail, guard, aborted, runs>>
  PROVE  /\ GuardInv'
         /\ trail' \in Seq(TrailRecords) /\ BudgetSpent'
BY DEF DriverInv, AttemptInv, GuardInv, BudgetSpent

LEMMA LastRecord ==
  ASSUME DriverInv, trail # <<>>
  PROVE  trail[Len(trail)] \in TrailRecords /\ trail[Len(trail)].run \in Nat
<1>1. trail \in Seq(TrailRecords)
  BY DEF DriverInv, AttemptInv
<1>2. Len(trail) \in 1..Len(trail)
  BY <1>1, EmptySeq
<1>3. trail[Len(trail)] \in TrailRecords
  BY <1>1, <1>2, ElementOfSeq
<1>4. QED
  BY <1>3 DEF TrailRecords

(* The watchdog's part of the type, where the watchdog is left alone.      *)
LEMMA PollKept ==
  ASSUME DriverInv, UNCHANGED pollVars
  PROVE  Poll!PollTypeOK' /\ UNCHANGED watch
BY DEF DriverInv, DriverTypeOK, Poll!PollTypeOK, pollVars

(* Leaving the loop.                                                       *)
LEMMA LeaveWatches ==
  ASSUME DriverInv, pc \in {"pull", "emit", "handle", "backoff"},
         NEW why \in {"returned", "raised", "cancelled"}, Leave(why), UNCHANGED <<source, runs>>
  PROVE  /\ Poll!PollTypeOK' /\ WatchInv'
         /\ pc' \in {"aclose", "join"} /\ exit' = why
<1>1. /\ exit' = why /\ pc' = IF watch = "off" THEN "aclose" ELSE "join"
      /\ stop' = (watch # "off") /\ cancelled' = (watch # "off")
      /\ UNCHANGED <<watch, last, reading, health, seen>>
  BY DEF Leave
<1>2. Poll!PollTypeOK'
  BY <1>1 DEF DriverInv, DriverTypeOK, Poll!PollTypeOK, Poll!Parked
<1>3. WatchInv'
  BY <1>1 DEF DriverInv, WatchInv
<1>4. QED
  BY <1>1, <1>2, <1>3

LEMMA LeaveKeeps ==
  ASSUME DriverInv, pc \in {"pull", "emit", "handle", "backoff"},
         NEW why \in {"returned", "raised", "cancelled"}, Leave(why),
         UNCHANGED <<loopVars, source, runs>>
  PROVE  DriverInv'
<1>1. /\ Poll!PollTypeOK' /\ WatchInv' /\ pc' \in {"aclose", "join"} /\ exit' = why
  BY LeaveWatches
<1>2. GuardInv' /\ trail' \in Seq(TrailRecords) /\ BudgetSpent'
  BY RecordsKept DEF InRun, loopVars
<1>3. DriverTypeOK'
  BY <1>1 DEF DriverInv, DriverTypeOK, loopVars
<1>4. AttemptInv'
  BY <1>1, <1>2 DEF AttemptInv
<1>5. QED
  BY <1>1, <1>2, <1>3, <1>4 DEF DriverInv

(* A step of the driver from one await to the next, the watchdog running.  *)
LEMMA MoveKeeps ==
  ASSUME DriverInv, InRun, pc' # "backoff", pc' \notin {"emit", "handle"},
         DriverTypeOK', WatchInv', UNCHANGED <<loopVars, runs>>
  PROVE  DriverInv'
<1>1. GuardInv' /\ trail' \in Seq(TrailRecords) /\ BudgetSpent'
  BY RecordsKept DEF loopVars
<1>2. QED
  BY <1>1 DEF DriverInv, AttemptInv

-----------------------------------------------------------------------------
(* The loop *)

LEMMA StartKeeps ==
  ASSUME DriverInv, NEW watched \in BOOLEAN, Start(watched) \/ StartRaises
  PROVE  DriverInv'
<1>1. CASE StartRaises
  <2>1. /\ ~InRun /\ runs' = runs + 1 /\ runs < MaxRuns
        /\ UNCHANGED <<pc, loopVars, source, exit, pollVars>>
    BY <1>1 DEF StartRaises
  <2>2. pc \in {"idle", "done"} /\ pc' = pc
    BY <2>1 DEF InRun
  <2>3. DriverTypeOK'
    BY <2>1, PollKept, DriverConstants DEF DriverInv, DriverTypeOK, loopVars
  <2>4. AttemptInv' /\ WatchInv'
    BY <2>1, <2>2 DEF DriverInv, AttemptInv, WatchInv, BudgetSpent, loopVars, pollVars
  <2>5. GuardInv'
    <3>1. ~InRun'
      BY <2>2 DEF InRun
    <3>2. \A n \in Nat : n <= runs => n <= runs'
      BY <2>1 DEF DriverInv, DriverTypeOK
    <3>3. trail # <<>> => trail[Len(trail)].run \in Nat
      BY LastRecord
    <3>4. QED
      BY <2>1, <3>1, <3>2, <3>3 DEF DriverInv, GuardInv, loopVars
  <2>6. QED
    BY <2>3, <2>4, <2>5 DEF DriverInv
<1>2. CASE Start(watched)
  <2>1. /\ runs' = runs + 1 /\ runs < MaxRuns
        /\ source' = "started" /\ exit' = "returned" /\ pc' = "pull"
        /\ limit' \in Limits /\ count' = 0 /\ attempt' = 0 /\ aborted' = FALSE
        /\ retried' = {}
        /\ guard' = IF SharedGuard THEN guard ELSE Fresh
        /\ trail' = IF SharedGuard THEN trail ELSE <<>>
    BY <1>2 DEF Start
  <2>2. Poll!PollTypeOK'
    <3>1. Poll!Schedule(watched)
      BY <1>2 DEF Start
    <3>2. QED
      BY <3>1 DEF Poll!Schedule, Poll!PollTypeOK, Poll!Parked
  <2>3. DriverTypeOK'
    <3>1. guard'.sig \in Kinds \cup {None} /\ guard'.streak \in Nat
      <4>1. guard' = guard \/ guard' = [sig |-> None, streak |-> 0]
        BY <2>1 DEF Fresh
      <4>2. QED
        BY <4>1 DEF DriverInv, DriverTypeOK
    <3>2. runs' \in 0..MaxRuns /\ count' \in 0..SourceEvents /\ attempt' \in 0..MaxAttempts
      BY <2>1, DriverConstants DEF DriverInv, DriverTypeOK
    <3>3. QED
      BY <2>1, <2>2, <3>1, <3>2 DEF DriverTypeOK
  <2>4. AttemptInv'
    <3>1. trail' \in Seq(TrailRecords)
      BY <2>1 DEF DriverInv, AttemptInv
    <3>2. BudgetSpent'
      BY <2>1 DEF DriverInv, AttemptInv, BudgetSpent
    <3>3. QED
      BY <2>1, <3>1, <3>2 DEF AttemptInv
  <2>5. WatchInv'
    BY <2>1 DEF WatchInv
  <2>6. GuardInv'
    <3>1. \A n \in Nat : n <= runs => n <= runs' /\ n # runs'
      BY <2>1 DEF DriverInv, DriverTypeOK
    <3>2. trail # <<>> => trail[Len(trail)].run \in Nat
      BY LastRecord
    <3>3. CASE SharedGuard
      BY <2>1, <3>1, <3>2, <3>3 DEF DriverInv, GuardInv
    <3>4. CASE ~SharedGuard
      BY <2>1, <3>4, NoStreak DEF GuardInv, Fresh
    <3>5. QED
      BY <3>3, <3>4
  <2>7. QED
    BY <2>3, <2>4, <2>5, <2>6 DEF DriverInv
<1>3. QED
  BY <1>1, <1>2

LEMMA PullKeeps ==
  ASSUME DriverInv, SourceStep
  PROVE  DriverInv'
<1>1. CASE SourceEnds
  BY <1>1, LeaveKeeps DEF SourceEnds
<1>2. CASE Pull /\ count >= limit
  <2>1. Leave("returned") /\ UNCHANGED <<loopVars, source, runs>> /\ pc = "pull"
    BY <1>2, DriverConstants DEF Pull, DriverInv, DriverTypeOK
  <2>2. QED
    BY <2>1, LeaveKeeps
<1>3. CASE Pull /\ ~(count >= limit)
  <2>1. /\ pc = "pull" /\ pc' = "emit" /\ count < SourceEvents /\ count' = count + 1 /\ attempt' = 1
        /\ UNCHANGED <<limit, guard, aborted, retried, trail, source, runs, exit, pollVars>>
    BY <1>3 DEF Pull, Continue
  <2>2. Poll!PollTypeOK' /\ UNCHANGED watch
    BY <2>1, PollKept
  <2>3. DriverTypeOK'
    BY <2>1, <2>2, DriverConstants DEF DriverInv, DriverTypeOK
  <2>4. GuardInv' /\ trail' \in Seq(TrailRecords) /\ BudgetSpent'
    BY <2>1, RecordsKept DEF InRun
  <2>5. AttemptInv' /\ WatchInv'
    BY <2>1, <2>2, <2>4 DEF DriverInv, AttemptInv, WatchInv
  <2>6. QED
    BY <2>3, <2>4, <2>5 DEF DriverInv
<1>4. QED
  BY <1>1, <1>2, <1>3 DEF SourceStep

(* An event is done with: the guard hears of it after the trail.           *)
LEMMA RecordKeeps ==
  ASSUME DriverInv, pc = "handle",
         NEW status \in {"processed", "buffered", "failed"}, NEW kind \in Kinds \cup {None},
         status = "failed" => kind \in Kinds,
         kind \in RetryOn => attempt = MaxAttempts,
         Record(status, kind), UNCHANGED <<source, runs>>
  PROVE  DriverInv'
<1> DEFINE signature == IF status = "failed" THEN kind ELSE None
           g == GuardAfter(guard, signature)
           r == [status |-> status, kind |-> kind, attempts |-> attempt, run |-> runs]
<1>1. /\ trail' = Append(trail, r) /\ guard' = g /\ attempt' = 0 /\ retried' = {}
      /\ aborted' = (signature # None /\ Stuck(g))
      /\ UNCHANGED <<limit, count>>
      /\ IF aborted' THEN Leave("returned") ELSE Continue("pull")
  BY DEF Record
<1>2. signature # None <=> status = "failed"
  BY DriverConstants
<1>3. r \in TrailRecords
  <2>1. attempt \in 1..MaxAttempts /\ runs \in Nat
    BY DEF DriverInv, AttemptInv, DriverTypeOK
  <2>2. QED
    BY <2>1 DEF TrailRecords
<1>4. r.status = status /\ r.kind = kind /\ r.attempts = attempt /\ r.run = runs
  OBVIOUS
<1> HIDE DEF r
<1>5. /\ trail \in Seq(TrailRecords) /\ trail' \in Seq(TrailRecords) /\ Len(trail') = Len(trail) + 1
      /\ trail'[Len(trail')] = r /\ \A i \in 1..Len(trail) : trail'[i] = trail[i]
      /\ Len(trail) \in Nat
  BY <1>1, <1>3, AppendProperties, LenProperties DEF DriverInv, AttemptInv
<1>6. BudgetSpent'
  <2>1. r.attempts \in 1..MaxAttempts /\ (r.kind \in RetryOn => r.attempts = MaxAttempts)
    BY <1>3, <1>4 DEF TrailRecords
  <2>2. ASSUME NEW i \in 1..Len(trail')
        PROVE  /\ trail'[i].attempts \in 1..MaxAttempts
               /\ trail'[i].kind \in RetryOn => trail'[i].attempts = MaxAttempts
    <3>1. CASE i \in 1..Len(trail)
      BY <1>5, <3>1 DEF DriverInv, AttemptInv, BudgetSpent
    <3>2. CASE i \notin 1..Len(trail)
      <4>1. i = Len(trail')
        BY <1>5, <3>2
      <4>2. QED
        BY <1>5, <2>1, <4>1
    <3>3. QED
      BY <3>1, <3>2
  <2>3. QED
    BY <1>1, <2>2 DEF BudgetSpent
<1>7. /\ Poll!PollTypeOK' /\ WatchInv'
      /\ pc' \in {"aclose", "join", "pull"} /\ exit' \in {"returned", exit}
  <2>1. CASE aborted'
    BY <1>1, <2>1, LeaveWatches
  <2>2. CASE ~aborted'
    <3>1. pc' = "pull" /\ UNCHANGED <<exit, pollVars>>
      BY <1>1, <2>2 DEF Continue
    <3>2. Poll!PollTypeOK' /\ UNCHANGED watch
      BY <3>1, PollKept
    <3>3. QED
      BY <3>1, <3>2 DEF DriverInv, WatchInv
  <2>3. QED
    BY <2>1, <2>2
<1>8. g = IF status = "failed"
            THEN [sig |-> kind, streak |-> IF kind = guard.sig THEN guard.streak + 1 ELSE 1]
            ELSE [sig |-> None, streak |-> 0]
  BY <1>2 DEF GuardAfter, Fresh
<1>9. guard.streak \in Nat /\ guard.sig \in Kinds \cup {None}
  BY DEF DriverInv, DriverTypeOK
<1>10. g.sig \in Kinds \cup {None} /\ g.streak \in Nat
  BY <1>8, <1>9
<1>11. aborted' \in BOOLEAN /\ (aborted' <=> g.streak >= MaxConsecutive)
  <2>1. status # "failed" => g.streak = 0
    BY <1>8
  <2>2. MaxConsecutive \in Nat /\ MaxConsecutive > 0
    BY DriverConstants
  <2>3. aborted' <=> (signature # None /\ g.streak >= MaxConsecutive)
    BY <1>1 DEF Stuck
  <2> HIDE DEF g, signature
  <2>4. g.streak >= MaxConsecutive => signature # None
    BY <1>2, <2>1, <2>2
  <2>5. aborted' \in BOOLEAN
    BY <1>1
  <2>6. QED
    BY <2>3, <2>4, <2>5
<1>12. /\ StreakIs(trail', g.streak)
       /\ g.streak = 0 => g.sig = None
       /\ g.streak # 0 => g.sig = r.kind
  <2>1. /\ StreakIs(trail, guard.streak)
        /\ guard.streak = 0 => guard.sig = None
        /\ guard.streak # 0 => guard.sig = trail[Len(trail)].kind
    BY DEF DriverInv, GuardInv
  <2>2. CASE status # "failed"
    <3>1. StreakIs(trail', 0)
      BY <1>1, <1>3, <1>4, <1>5, <2>1, <2>2, StreakAppend
    <3>2. QED
      BY <1>8, <2>2, <3>1
  <2>3. CASE status = "failed" /\ kind = guard.sig
    <3>1. guard.streak # 0 /\ trail[Len(trail)].kind = r.kind
      BY <1>4, <2>1, <2>3, DriverConstants
    <3>2. StreakIs(trail', guard.streak + 1)
      BY <1>1, <1>3, <1>4, <1>5, <2>1, <2>3, <3>1, StreakAppend
    <3>3. g.sig = kind /\ g.streak = guard.streak + 1
      BY <1>8, <2>3
    <3> HIDE DEF g
    <3>4. QED
      BY <1>4, <1>9, <3>2, <3>3
  <2>4. CASE status = "failed" /\ kind # guard.sig
    <3>1. guard.streak = 0 \/ trail[Len(trail)].kind # r.kind
      BY <1>4, <2>1, <2>4
    <3>2. StreakIs(trail', 1)
      BY <1>1, <1>3, <1>4, <1>5, <2>1, <2>4, <3>1, StreakAppend
    <3>3. g.sig = kind /\ g.streak = 1
      BY <1>8, <2>4
    <3> HIDE DEF g
    <3>4. QED
      BY <1>4, <3>2, <3>3
  <2>5. QED
    BY <2>2, <2>3, <2>4
<1>13. GuardInv'
  <2>1. runs' = runs /\ runs \in Nat
    BY DEF DriverInv, DriverTypeOK
  <2> HIDE DEF g
  <2>2. /\ StreakIs(trail', guard'.streak)
        /\ guard'.streak = 0 => guard'.sig = None
        /\ guard'.streak # 0 => guard'.sig = trail'[Len(trail')].kind
    BY <1>1, <1>5, <1>12
  <2>3. trail' # <<>> => trail'[Len(trail')].run <= runs'
    BY <1>4, <1>5, <2>1
  <2>4. aborted' <=> guard'.streak >= MaxConsecutive
    BY <1>1, <1>11
  <2>5. QED
    BY <2>2, <2>3, <2>4 DEF GuardInv
<1>14. DriverTypeOK'
  <2> HIDE DEF g, signature
  <2>1. attempt' \in 0..MaxAttempts /\ runs' \in 0..MaxRuns
    BY <1>1, DriverConstants DEF DriverInv, DriverTypeOK
  <2>2. QED
    BY <1>1, <1>7, <1>10, <1>11, <2>1 DEF DriverInv, DriverTypeOK
<1>15. QED
  BY <1>5, <1>6, <1>7, <1>13, <1>14 DEF DriverInv, AttemptInv

LEMMA HandlerKeeps ==
  ASSUME DriverInv, Emit \/ HandlerReturns \/ (\E k \in Kinds : HandlerRaises(k)) \/ Backoff
  PROVE  DriverInv'
<1>1. CASE Emit
  <2>1. pc = "emit" /\ pc' = "handle" /\ UNCHANGED <<loopVars, source, runs, exit, pollVars>>
    BY <1>1 DEF Emit, Continue
  <2>2. Poll!PollTypeOK' /\ UNCHANGED watch
    BY <2>1, PollKept
  <2>3. DriverTypeOK' /\ WatchInv'
    BY <2>1, <2>2 DEF DriverInv, DriverTypeOK, WatchInv, loopVars
  <2>4. GuardInv' /\ trail' \in Seq(TrailRecords) /\ BudgetSpent'
    BY <2>1, RecordsKept DEF InRun, loopVars
  <2>5. AttemptInv'
    BY <2>1, <2>4 DEF DriverInv, AttemptInv, loopVars
  <2>6. QED
    BY <2>3, <2>4, <2>5 DEF DriverInv
<1>2. CASE HandlerReturns
  <2>1. None \notin RetryOn
    BY DriverConstants
  <2>2. QED
    BY <1>2, <2>1, RecordKeeps DEF HandlerReturns
<1>3. ASSUME NEW k \in Kinds, HandlerRaises(k)
      PROVE  DriverInv'
  <2>1. CASE Retries(k)
    <3>1. /\ pc = "handle" /\ pc' = "backoff" /\ attempt < MaxAttempts
          /\ k \in RetryOn /\ retried' = retried \cup {k}
          /\ UNCHANGED <<limit, count, attempt, guard, aborted, trail, source, runs, exit, pollVars>>
      BY <1>3, <2>1 DEF HandlerRaises, Continue, Retries
    <3>2. Poll!PollTypeOK' /\ UNCHANGED watch
      BY <3>1, PollKept
    <3>3. DriverTypeOK' /\ WatchInv'
      BY <3>1, <3>2 DEF DriverInv, DriverTypeOK, WatchInv
    <3>4. GuardInv' /\ trail' \in Seq(TrailRecords) /\ BudgetSpent'
      BY <3>1 DEF InRun, DriverInv, AttemptInv, GuardInv, BudgetSpent
    <3>5. AttemptInv'
      BY <3>1, <3>4 DEF DriverInv, AttemptInv
    <3>6. QED
      BY <3>3, <3>4, <3>5 DEF DriverInv
  <2>2. CASE ~Retries(k)
    <3>1. Record(IF k \in OfflineOn THEN "buffered" ELSE "failed", k) /\ pc = "handle"
          /\ UNCHANGED <<source, runs>>
      BY <1>3, <2>2 DEF HandlerRaises
    <3>2. k \in RetryOn => attempt = MaxAttempts
      BY <2>2, DriverConstants DEF Retries, DriverInv, DriverTypeOK
    <3>3. QED
      BY <3>1, <3>2, RecordKeeps
  <2>3. QED
    BY <2>1, <2>2
<1>4. CASE Backoff
  <2>1. /\ pc = "backoff" /\ pc' = "handle" /\ attempt' = attempt + 1
        /\ UNCHANGED <<limit, count, guard, aborted, retried, trail, source, runs, exit, pollVars>>
    BY <1>4 DEF Backoff, Continue
  <2>2. Poll!PollTypeOK' /\ UNCHANGED watch
    BY <2>1, PollKept
  <2>3. attempt \in Nat /\ attempt < MaxAttempts
    BY <2>1 DEF DriverInv, AttemptInv, DriverTypeOK
  <2>4. attempt' \in 1..MaxAttempts
    BY <2>1, <2>3, DriverConstants
  <2>5. DriverTypeOK' /\ WatchInv'
    BY <2>1, <2>2, <2>4 DEF DriverInv, DriverTypeOK, WatchInv
  <2>6. GuardInv' /\ trail' \in Seq(TrailRecords) /\ BudgetSpent'
    BY <2>1, RecordsKept DEF InRun
  <2>7. AttemptInv'
    BY <2>1, <2>4, <2>6 DEF DriverInv, AttemptInv
  <2>8. QED
    BY <2>5, <2>6, <2>7 DEF DriverInv
<1>5. QED
  BY <1>1, <1>2, <1>3, <1>4

-----------------------------------------------------------------------------
(* Teardown, cancellation and the watchdog *)

LEMMA TeardownKeeps ==
  ASSUME DriverInv, Join \/ Close \/ CloseRaises \/ StopSource \/ Flush \/ EndLate
  PROVE  DriverInv'
<1>1. /\ pc \in {"join", "aclose", "stop", "flush"}
      /\ pc' \in {"aclose", "stop", "flush", "done"}
      /\ exit' \in {"returned", "raised", "cancelled", "closeFailed"}
      /\ source' \in {source, "stopped"}
      /\ UNCHANGED <<loopVars, runs, pollVars>>
  BY DEF Join, Close, CloseRaises, StopSource, Flush, EndLate, Continue, AfterClose,
         DriverInv, DriverTypeOK
<1>2. Poll!PollTypeOK' /\ UNCHANGED watch
  BY <1>1, PollKept
<1>3. DriverTypeOK'
  BY <1>1, <1>2 DEF DriverInv, DriverTypeOK, loopVars
<1>4. WatchInv'
  <2>1. CASE Join
    BY <1>2, <2>1 DEF Join, Continue, DriverInv, WatchInv
  <2>2. CASE Close
    BY <1>2, <2>2 DEF Close, Continue, DriverInv, WatchInv
  <2>3. CASE CloseRaises
    BY <1>2, <2>3 DEF CloseRaises, DriverInv, WatchInv
  <2>4. CASE StopSource
    BY <1>2, <2>4 DEF StopSource, Continue, AfterClose, DriverInv, WatchInv
  <2>5. CASE Flush
    BY <1>2, <2>5 DEF Flush, Continue, DriverInv, WatchInv
  <2>6. CASE EndLate
    BY <1>2, <2>6 DEF EndLate, DriverInv, WatchInv
  <2>7. QED
    BY <2>1, <2>2, <2>3, <2>4, <2>5, <2>6
<1>5. QED
  BY <1>1, <1>3, <1>4, MoveKeeps DEF InRun

(* The watchdog moves among its awaits, or ends; the device changes.       *)
LEMMA WatchKeeps ==
  ASSUME DriverInv, WatchStep \/ DeviceChanges
  PROVE  DriverInv'
<1>1. UNCHANGED <<pc, loopVars, source, exit, runs>>
  BY DEF WatchStep, DeviceChanges
<1>2. Poll!PollTypeOK' /\ watch \in {"sleep", "poll", "observe"}
  <2>1. Poll!PollTypeOK
    BY DEF DriverInv, DriverTypeOK
  <2>2. CASE Poll!PollStep
    BY <2>1, <2>2 DEF Poll!PollStep, Poll!Wake, Poll!PollRead, Poll!PollFails, Poll!Observed,
       Poll!ObserverFails, Poll!TaskCancelled, Poll!CancelSwallowed, Poll!LoopTop,
       Poll!PollTypeOK, Poll!Parked
  <2>3. CASE Poll!HealthChanges
    BY <2>1, <2>3 DEF Poll!HealthChanges, Poll!PollTypeOK, Poll!Parked
  <2>4. QED
    BY <2>2, <2>3 DEF WatchStep, DeviceChanges
<1>3. pc \in {"pull", "emit", "handle", "backoff", "join"}
  BY <1>2 DEF DriverInv, WatchInv
<1>4. DriverTypeOK' /\ WatchInv'
  BY <1>1, <1>2, <1>3 DEF DriverInv, DriverTypeOK, WatchInv, loopVars
<1>5. GuardInv' /\ trail' \in Seq(TrailRecords) /\ BudgetSpent'
  BY <1>1, <1>3, RecordsKept DEF InRun, loopVars
<1>6. AttemptInv'
  BY <1>1, <1>5 DEF DriverInv, AttemptInv, loopVars
<1>7. QED
  BY <1>4, <1>5, <1>6 DEF DriverInv

LEMMA CancelKeeps ==
  ASSUME DriverInv, CancelLoop \/ CancelJoin
  PROVE  DriverInv'
<1>1. CASE CancelLoop
  BY <1>1, LeaveKeeps DEF CancelLoop
<1>2. CASE CancelJoin
  <2>1. /\ pc = "join" /\ pc' = "join" /\ cancelled' = TRUE
        /\ UNCHANGED <<loopVars, source, exit, runs, watch, stop, last, reading, health, seen>>
    BY <1>2 DEF CancelJoin
  <2>2. DriverTypeOK' /\ WatchInv'
    BY <2>1 DEF DriverInv, DriverTypeOK, WatchInv, Poll!PollTypeOK, Poll!Parked, loopVars
  <2>3. QED
    BY <2>1, <2>2, MoveKeeps DEF InRun
<1>3. QED
  BY <1>1, <1>2

-----------------------------------------------------------------------------
(* The theorems *)

LEMMA DriverStarts == DriverInit => DriverInv
<1> SUFFICES ASSUME DriverInit
             PROVE  DriverInv
  OBVIOUS
<1>1. DriverTypeOK
  <2>1. Poll!PollTypeOK
    BY DEF DriverInit, Poll!PollInit, Poll!PollTypeOK, Poll!Parked
  <2>2. 0 \in 0..SourceEvents /\ 0 \in 0..MaxAttempts /\ 0 \in 0..MaxRuns
    BY DriverConstants
  <2>3. guard.sig = None /\ guard.streak = 0
    BY DEF DriverInit, Fresh
  <2>4. aborted \in BOOLEAN
    BY DEF DriverInit
  <2>5. /\ pc = "idle" /\ limit \in Limits /\ count = 0 /\ attempt = 0
        /\ source = "idle" /\ exit = "returned" /\ runs = 0 /\ retried = {}
    BY DEF DriverInit
  <2>6. QED
    BY <2>1, <2>2, <2>3, <2>4, <2>5 DEF DriverTypeOK
<1>2. AttemptInv
  BY DEF DriverInit, AttemptInv, BudgetSpent
<1>3. WatchInv
  BY DEF DriverInit, Poll!PollInit, WatchInv
<1>4. GuardInv
  BY NoStreak DEF DriverInit, GuardInv, Fresh, InRun
<1>5. QED
  BY <1>1, <1>2, <1>3, <1>4 DEF DriverInv

LEMMA DriverStepKeeps ==
  ASSUME DriverInv, [DriverNext]_vars
  PROVE  DriverInv'
<1>1. CASE StartRaises \/ (\E watched \in BOOLEAN : Start(watched))
  BY <1>1, StartKeeps
<1>2. CASE SourceStep
  BY <1>2, PullKeeps
<1>3. CASE DriverStep
  BY <1>3, HandlerKeeps, TeardownKeeps DEF DriverStep
<1>4. CASE WatchStep \/ DeviceChanges
  BY <1>4, WatchKeeps
<1>5. CASE CancelLoop \/ CancelJoin
  BY <1>5, CancelKeeps
<1>6. CASE EndLate
  BY <1>6, TeardownKeeps
<1>7. CASE UNCHANGED vars
  <2>1. UNCHANGED <<pc, loopVars, source, exit, runs, pollVars>>
    BY <1>7 DEF vars
  <2>2. Poll!PollTypeOK' /\ UNCHANGED watch
    BY <2>1, PollKept
  <2>3. DriverTypeOK' /\ WatchInv'
    BY <2>1, <2>2 DEF DriverInv, DriverTypeOK, WatchInv, loopVars
  <2>4. AttemptInv' /\ GuardInv'
    BY <2>1 DEF DriverInv, AttemptInv, GuardInv, BudgetSpent, InRun, loopVars
  <2>5. QED
    BY <2>3, <2>4 DEF DriverInv
<1>8. QED
  BY <1>1, <1>2, <1>3, <1>4, <1>5, <1>6, <1>7 DEF DriverNext

LEMMA DriverInvariant == DriverSpec => []DriverInv
<1>1. DriverInit => DriverInv
  BY DriverStarts
<1>2. DriverInv /\ [DriverNext]_vars => DriverInv'
  BY DriverStepKeeps
<1>3. QED
  BY <1>1, <1>2, PTL DEF DriverSpec

(* A run aborts exactly when the guard should: after MaxConsecutive        *)
(* failures of one kind in a row, retries and buffered events in between   *)
(* notwithstanding, whether the guard is the run's or the driver's.        *)
THEOREM AbortsIffStuck == DriverSpec => []AbortIffStuck
<1>1. DriverInv => AbortIffStuck
  <2> SUFFICES ASSUME DriverInv, InRun, trail # <<>>, trail[Len(trail)].run = runs
               PROVE  aborted <=> TrailingStreak >= MaxConsecutive
    BY DEF AbortIffStuck
  <2>1. TrailingStreak = guard.streak
    BY StreakCounted DEF DriverInv, AttemptInv, GuardInv
  <2>2. QED
    BY <2>1 DEF DriverInv, GuardInv
<1>2. QED
  BY <1>1, DriverInvariant, PTL

(* An event is given up with a transient error only with its attempts      *)
(* spent, never tried more often than that, and never tried again after an *)
(* error that is not transient.                                            *)
THEOREM BudgetIsSpent == DriverSpec => []BudgetSpent
<1>1. DriverInv => BudgetSpent
  BY DEF DriverInv, AttemptInv
<1>2. QED
  BY <1>1, DriverInvariant, PTL

(* The watchdog runs only while the source is started, and a run that ends *)
(* has stopped the source unless closing the stream failed.                *)
THEOREM RunLeavesNothing == DriverSpec => []LeavesNothingRunning
<1>1. DriverInv => LeavesNothingRunning
  BY DEF DriverInv, WatchInv, LeavesNothingRunning, InRun
<1>2. QED
  BY <1>1, DriverInvariant, PTL

-----------------------------------------------------------------------------
(* The aggregator: reading the lines *)

LEMMA UpTo ==
  ASSUME NEW n \in Nat, NEW S, 0 \in S, \A m \in 0..(n - 1) : m \in S => m + 1 \in S
  PROVE  \A m \in 0..n : m \in S
<1> DEFINE T == {m \in 0..n : m \notin S}
           R == {ss \in Nat \X Nat : ss[1] < ss[2]}
<1>1. SUFFICES ASSUME T # {}
               PROVE  FALSE
  OBVIOUS
<1>2. IsWellFoundedOn(R, Nat)
  BY NatLessThanWellFounded DEF OpToRel
<1>3. PICK x \in T : \A y \in T : ~(<<y, x>> \in R)
  <2>1. T \in SUBSET Nat
    OBVIOUS
  <2> HIDE DEF R, T
  <2>2. QED
    BY <1>1, <1>2, <2>1, WFMin
<1>4. x \in 0..n /\ x \notin S /\ x # 0
  OBVIOUS
<1>5. x - 1 \in 0..(n - 1) /\ (x - 1) + 1 = x /\ x - 1 < x /\ x \in Nat /\ x - 1 \in Nat
  BY <1>4
<1>6. x - 1 \in S
  <2>1. x - 1 \notin T
    BY <1>3, <1>5
  <2>2. QED
    BY <1>4, <1>5, <2>1
<1>7. QED
  BY <1>4, <1>5, <1>6

(* g is what is left of the first m of n lines, for every m.               *)
Sifting(f, keep, n, g) ==
  /\ g = [m \in 0..n |-> g[m]] /\ g[0] = <<>>
  /\ \A m \in 1..n : g[m] = IF f[m] \in keep THEN Append(g[m - 1], f[m]) ELSE g[m - 1]

LEMMA SiftingExists ==
  ASSUME NEW f, NEW keep, NEW n \in Nat
  PROVE  \E g : Sifting(f, keep, n, g)
<1> DEFINE S == {m \in 0..n : \E g : Sifting(f, keep, m, g)}
<1>1. 0 \in S
  <2> DEFINE g == [m \in 0..0 |-> <<>>]
  <2>1. g[0] = <<>> /\ g = [m \in 0..0 |-> g[m]]
    OBVIOUS
  <2> HIDE DEF g
  <2>2. Sifting(f, keep, 0, g)
    BY <2>1 DEF Sifting
  <2>3. QED
    BY <2>2
<1>2. ASSUME NEW m \in 0..(n - 1), m \in S
      PROVE  m + 1 \in S
  <2>1. PICK g : Sifting(f, keep, m, g)
    BY <1>2
  <2> DEFINE x == IF f[m + 1] \in keep THEN Append(g[m], f[m + 1]) ELSE g[m]
             h == [l \in 0..(m + 1) |-> IF l = m + 1 THEN x ELSE g[l]]
  <2>2. m \in Nat /\ m + 1 \in 0..n
    OBVIOUS
  <2> HIDE DEF x
  <2>3. /\ \A l \in 0..m : h[l] = g[l]
        /\ h[m + 1] = x /\ h = [l \in 0..(m + 1) |-> h[l]]
    BY <2>2
  <2> HIDE DEF h
  <2>4. h[0] = <<>>
    BY <2>1, <2>2, <2>3 DEF Sifting
  <2>5. ASSUME NEW l \in 1..(m + 1)
        PROVE  h[l] = IF f[l] \in keep THEN Append(h[l - 1], f[l]) ELSE h[l - 1]
    <3>1. CASE l = m + 1
      <4>1. m \in 0..m /\ l - 1 = m
        BY <2>2, <3>1
      <4>2. h[l] = x /\ h[l - 1] = g[m] /\ f[l] = f[m + 1]
        BY <2>3, <3>1, <4>1
      <4>3. QED
        BY <4>2 DEF x
    <3>2. CASE l # m + 1
      <4>1. l \in 1..m /\ l \in 0..m /\ l - 1 \in 0..m
        BY <2>2, <3>2
      <4>2. h[l] = g[l] /\ h[l - 1] = g[l - 1]
        BY <2>3, <4>1
      <4>3. QED
        BY <2>1, <4>1, <4>2 DEF Sifting
    <3>3. QED
      BY <3>1, <3>2
  <2>6. Sifting(f, keep, m + 1, h)
    BY <2>3, <2>4, <2>5 DEF Sifting
  <2>7. QED
    BY <2>2, <2>6
<1>3. n \in S
  <2> HIDE DEF S
  <2>1. QED
    BY <1>1, <1>2, UpTo
<1>4. QED
  BY <1>3

LEMMA AmongSifts ==
  ASSUME NEW f, NEW keep, Len(f) \in Nat
  PROVE  \E g : Sifting(f, keep, Len(f), g) /\ Among(f, keep) = g[Len(f)]
<1> DEFINE n == Len(f)
           step(g) == [m \in 0..n |->
                         IF m = 0 THEN <<>>
                         ELSE IF f[m] \in keep THEN Append(g[m - 1], f[m]) ELSE g[m - 1]]
           read == CHOOSE g : g = step(g)
<1>1. Among(f, keep) = read[n]
  BY DEF Among
<1>2. PICK g : Sifting(f, keep, n, g)
  BY SiftingExists
<1>3. g = step(g)
  <2>1. \A m \in 0..n : g[m] = step(g)[m]
    <3>1. \A m \in 0..n : m = 0 \/ m \in 1..n
      OBVIOUS
    <3>2. QED
      BY <1>2, <3>1 DEF Sifting
  <2>2. g = [m \in 0..n |-> g[m]] /\ step(g) = [m \in 0..n |-> step(g)[m]]
    BY <1>2 DEF Sifting
  <2> HIDE DEF step
  <2>3. QED
    BY <2>1, <2>2
<1>4. read = step(read)
  <2> HIDE DEF step
  <2>1. QED
    BY <1>3
<1>5. PICK h : h = step(h) /\ Among(f, keep) = h[n]
  <2> HIDE DEF step, read
  <2>1. QED
    BY <1>1, <1>4
<1>6. Sifting(f, keep, n, h)
  <2>1. h[0] = <<>> /\ h = [m \in 0..n |-> h[m]]
    BY <1>5
  <2>2. \A m \in 1..n : h[m] = IF f[m] \in keep THEN Append(h[m - 1], f[m]) ELSE h[m - 1]
    <3>1. \A m \in 1..n : m \in 0..n /\ m # 0
      OBVIOUS
    <3>2. QED
      BY <1>5, <3>1
  <2>3. QED
    BY <2>1, <2>2 DEF Sifting
<1>7. QED
  BY <1>5, <1>6

(* s reads the lines of f in keep from different places among its first m, *)
(* leaves none of them out, and is shorter if one of the m is not in keep. *)
Reads(s, f, m, keep) ==
  /\ s \in Seq(keep) /\ Len(s) <= m
  /\ (\E i \in 1..m : f[i] \notin keep) => Len(s) < m
  /\ \A i \in 1..m : f[i] \in keep => \E j \in 1..Len(s) : s[j] = f[i]
  /\ \E p \in [1..Len(s) -> 1..m] :
       /\ \A j \in 1..Len(s) : s[j] = f[p[j]]
       /\ \A j, k \in 1..Len(s) : p[j] = p[k] => j = k

LEMMA ReadsNothing ==
  ASSUME NEW f, NEW keep
  PROVE  Reads(<<>>, f, 0, keep)
<1>1. PICK s : s = <<>>
  OBVIOUS
<1>2. s \in Seq(keep) /\ Len(s) = 0
  BY <1>1
<1>3. 1..0 = {}
  OBVIOUS
<1>4. PICK p : p = [j \in 1..0 |-> 0]
  OBVIOUS
<1>5. p \in [1..0 -> 1..0]
  BY <1>3, <1>4
<1>6. \E r \in [1..Len(s) -> 1..0] :
        /\ \A j \in 1..Len(s) : s[j] = f[r[j]]
        /\ \A j, k \in 1..Len(s) : r[j] = r[k] => j = k
  BY <1>2, <1>3, <1>5
<1>7. /\ Len(s) <= 0
      /\ (\E i \in 1..0 : f[i] \notin keep) => Len(s) < 0
      /\ \A i \in 1..0 : f[i] \in keep => \E j \in 1..Len(s) : s[j] = f[i]
  BY <1>2, <1>3
<1>8. Reads(s, f, 0, keep)
  BY ONLY <1>2, <1>6, <1>7 DEF Reads
<1>9. QED
  BY <1>1, <1>8

LEMMA ReadsOneMore ==
  ASSUME NEW f, NEW keep, NEW m \in Nat, NEW s, Reads(s, f, m, keep), f[m + 1] \in keep
  PROVE  Reads(Append(s, f[m + 1]), f, m + 1, keep)
<1> DEFINE x == f[m + 1]
           t == Append(s, x)
           n == Len(s)
<1>1. /\ s \in Seq(keep) /\ Len(s) <= m
      /\ (\E i \in 1..m : f[i] \notin keep) => Len(s) < m
      /\ \A i \in 1..m : f[i] \in keep => \E j \in 1..Len(s) : s[j] = f[i]
  BY DEF Reads
<1>2. PICK p \in [1..n -> 1..m] :
        /\ \A j \in 1..n : s[j] = f[p[j]]
        /\ \A j, k \in 1..n : p[j] = p[k] => j = k
  BY DEF Reads
<1>3. n \in Nat
  BY <1>1
<1>4. t \in Seq(keep) /\ Len(t) = n + 1 /\ t[n + 1] = x /\ \A j \in 1..n : t[j] = s[j]
  BY <1>1
<1> HIDE DEF n, t, x
<1>5. Len(t) <= m + 1
  BY <1>1, <1>3, <1>4 DEF n
<1>6. ASSUME NEW i \in 1..(m + 1), f[i] \notin keep
      PROVE  Len(t) < m + 1
  <2>1. i \in 1..m
    BY <1>6
  <2>2. Len(s) < m
    BY <1>1, <1>6, <2>1
  <2>3. QED
    BY <1>3, <1>4, <2>2 DEF n
<1>7. ASSUME NEW i \in 1..(m + 1), f[i] \in keep
      PROVE  \E j \in 1..Len(t) : t[j] = f[i]
  <2>1. CASE i = m + 1
    BY <1>3, <1>4, <2>1 DEF x
  <2>2. CASE i # m + 1
    <3>1. i \in 1..m
      BY <2>2
    <3>2. PICK j \in 1..n : s[j] = f[i]
      BY <1>1, <1>7, <3>1 DEF n
    <3>3. t[j] = s[j]
      BY <1>4, <3>2
    <3>4. j \in 1..(n + 1)
      BY <1>3, <3>2
    <3>5. QED
      BY <1>4, <3>2, <3>3, <3>4
  <2>3. QED
    BY <2>1, <2>2
<1> DEFINE q == [j \in 1..(n + 1) |-> IF j = n + 1 THEN m + 1 ELSE p[j]]
<1>8. \A j \in 1..(n + 1) : j = n + 1 \/ (j \in 1..n /\ j # n + 1)
  BY <1>3
<1>9. \A j \in 1..n : p[j] \in 1..m /\ p[j] \in 1..(m + 1) /\ p[j] # m + 1
  BY <1>2
<1>10. q[n + 1] = m + 1 /\ (\A j \in 1..n : q[j] = p[j]) /\ q \in [1..(n + 1) -> 1..(m + 1)]
  <2>1. n + 1 \in 1..(n + 1) /\ m + 1 \in 1..(m + 1)
    BY <1>3
  <2>2. \A j \in 1..n : j \in 1..(n + 1) /\ j # n + 1
    BY <1>3
  <2>3. QED
    BY <1>8, <1>9, <2>1, <2>2
<1> HIDE DEF q
<1>11. \A j \in 1..(n + 1) : t[j] = f[q[j]]
  BY <1>2, <1>4, <1>8, <1>10 DEF x
<1>12. \A j, k \in 1..(n + 1) : q[j] = q[k] => j = k
  BY <1>2, <1>8, <1>9, <1>10
<1>13. \E r \in [1..Len(t) -> 1..(m + 1)] :
         /\ \A j \in 1..Len(t) : t[j] = f[r[j]]
         /\ \A j, k \in 1..Len(t) : r[j] = r[k] => j = k
  BY <1>4, <1>10, <1>11, <1>12
<1>14. Reads(t, f, m + 1, keep)
  BY <1>4, <1>5, <1>6, <1>7, <1>13 DEF Reads
<1>15. QED
  BY <1>14 DEF t, x

LEMMA ReadsNoMore ==
  ASSUME NEW f, NEW keep, NEW m \in Nat, NEW s, Reads(s, f, m, keep), f[m + 1] \notin keep
  PROVE  Reads(s, f, m + 1, keep)
<1>1. /\ s \in Seq(keep) /\ Len(s) <= m /\ Len(s) \in Nat
      /\ \A i \in 1..m : f[i] \in keep => \E j \in 1..Len(s) : s[j] = f[i]
  BY DEF Reads
<1>2. PICK p \in [1..Len(s) -> 1..m] :
        /\ \A j \in 1..Len(s) : s[j] = f[p[j]]
        /\ \A j, k \in 1..Len(s) : p[j] = p[k] => j = k
  BY DEF Reads
<1>3. Len(s) <= m + 1 /\ Len(s) < m + 1
  BY <1>1
<1>4. \A i \in 1..(m + 1) : f[i] \in keep => i \in 1..m
  OBVIOUS
<1>5. p \in [1..Len(s) -> 1..(m + 1)]
  <2>1. 1..m \subseteq 1..(m + 1)
    OBVIOUS
  <2>2. QED
    BY <2>1
<1>6. QED
  BY <1>1, <1>2, <1>3, <1>4, <1>5 DEF Reads

LEMMA AmongReads ==
  ASSUME NEW S, NEW f \in Seq(S), NEW keep
  PROVE  Reads(Among(f, keep), f, Len(f), keep)
<1>1. Len(f) \in Nat
  OBVIOUS
<1>2. PICK n : n = Len(f)
  OBVIOUS
<1>3. PICK g : Sifting(f, keep, n, g) /\ Among(f, keep) = g[n]
  BY <1>1, <1>2, AmongSifts
<1> DEFINE G == {m \in 0..n : Reads(g[m], f, m, keep)}
<1>4. 0 \in G
  BY <1>1, <1>2, <1>3, ReadsNothing DEF Sifting
<1>5. ASSUME NEW m \in 0..(n - 1), m \in G
      PROVE  m + 1 \in G
  <2>1. m \in Nat /\ m + 1 \in 0..n /\ m + 1 \in 1..n /\ (m + 1) - 1 = m
    BY <1>1, <1>2
  <2>2. Reads(g[m], f, m, keep)
    BY <1>5
  <2>3. g[m + 1] = IF f[m + 1] \in keep THEN Append(g[m], f[m + 1]) ELSE g[m]
    BY <1>3, <2>1 DEF Sifting
  <2>4. Reads(g[m + 1], f, m + 1, keep)
    BY <2>1, <2>2, <2>3, ReadsOneMore, ReadsNoMore
  <2>5. QED
    BY <2>1, <2>4
<1>6. n \in G
  <2> HIDE DEF G
  <2>1. n \in Nat /\ n \in 0..n
    BY <1>1, <1>2
  <2>2. QED
    BY <1>4, <1>5, <2>1, UpTo
<1>7. QED
  BY <1>2, <1>3, <1>6

-----------------------------------------------------------------------------
(* The aggregator: its invariant *)

Line == Records \cup {Torn}

(* No two lines of f are records of one event.                             *)
Distinct(f) ==
  \A i, j \in DOMAIN f :
    f[i] \in Records /\ f[j] \in Records /\ f[i].key = f[j].key => i = j

(* The index has the key of every record but one that ends without "\n".   *)
StoreInv(f, closed, ix) ==
  /\ f \in Seq(Line) /\ closed \in BOOLEAN /\ (f = <<>> => closed)
  /\ ix = Unset \/ ix \subseteq Events
  /\ Distinct(f)
  /\ ix # Unset => \A i \in DOMAIN f : f[i] \in Records /\ (closed \/ i # Len(f)) => f[i].key \in ix

HeardInv(hd) ==
  /\ hd \subseteq Records /\ IsFiniteSet(hd)
  /\ \A g, h \in hd : g.key = h.key => g = h

(* The events the index, the lines or the occurrences know of, and those   *)
(* that are no occurrence on a line of its own time.                       *)
Known(ix, f, hd) ==
  (IF ix = Unset THEN {} ELSE ix) \cup KeysOf(f) \cup {h.key : h \in hd}

Unpaired(ix, f, hd) == {k \in Known(ix, f, hd) : \A r \in hd \cap Range(f) : r.key # k}

(* Records the next append to f costs.                                     *)
AtRisk(f, closed) == IF closed THEN 0 ELSE IF f[Len(f)] = Torn THEN 1 ELSE 2

PairsInv(f, closed, ix, hd, n) ==
  /\ IsFiniteSet(Unpaired(ix, f, hd))
  /\ Cardinality(Unpaired(ix, f, hd)) + AtRisk(f, closed) <= 2 * n

WindowInv ==
  /\ CountsHeard /\ MissesByTears
  /\ StoreInv(lines, terminated, index)
  /\ HeardInv(heard)
  /\ PairsInv(lines, terminated, index, heard, tears)

-----------------------------------------------------------------------------
(* Lines *)

LEMMA RecordsAreNotTorn == Torn \notin Records /\ \A es \in SUBSET Events : es # Unset
BY AggregatorConstants

LEMMA AmongKeeps ==
  ASSUME NEW f \in Seq(Line), Distinct(f), NEW keep \in SUBSET Records
  PROVE  /\ Among(f, keep) \in Seq(keep)
         /\ Distinct(Among(f, keep))
         /\ Range(Among(f, keep)) = Range(f) \cap keep
         /\ (\E r \in Range(f) : r \notin keep) => Len(Among(f, keep)) < Len(f)
<1>1. PICK s : s = Among(f, keep)
  OBVIOUS
<1>2. Reads(s, f, Len(f), keep)
  BY <1>1, AmongReads
<1>3. /\ s \in Seq(keep) /\ Len(s) <= Len(f)
      /\ (\E i \in 1..Len(f) : f[i] \notin keep) => Len(s) < Len(f)
      /\ \A i \in 1..Len(f) : f[i] \in keep => \E j \in 1..Len(s) : s[j] = f[i]
  BY <1>2 DEF Reads
<1>4. PICK p \in [1..Len(s) -> 1..Len(f)] :
        /\ \A j \in 1..Len(s) : s[j] = f[p[j]]
        /\ \A j, k \in 1..Len(s) : p[j] = p[k] => j = k
  BY <1>2 DEF Reads
<1>5. DOMAIN s = 1..Len(s) /\ DOMAIN f = 1..Len(f) /\ \A j \in 1..Len(s) : s[j] \in keep
  BY <1>3
<1>6. Distinct(s)
  <2>1. ASSUME NEW i \in DOMAIN s, NEW j \in DOMAIN s, s[i].key = s[j].key
        PROVE  i = j
    <3>1. i \in 1..Len(s) /\ j \in 1..Len(s) /\ p[i] \in DOMAIN f /\ p[j] \in DOMAIN f
      BY <1>4, <1>5
    <3>2. s[i] = f[p[i]] /\ s[j] = f[p[j]] /\ s[i] \in Records /\ s[j] \in Records
      BY <1>4, <1>5, <3>1
    <3>3. p[i] = p[j]
      BY <2>1, <3>1, <3>2 DEF Distinct
    <3>4. QED
      BY <1>4, <3>1, <3>3
  <2>2. QED
    BY <2>1 DEF Distinct
<1>7. Range(s) = Range(f) \cap keep
  <2>1. ASSUME NEW r \in Range(s)
        PROVE  r \in Range(f) \cap keep
    <3>1. PICK j \in 1..Len(s) : r = s[j]
      BY <1>5 DEF Range
    <3>2. p[j] \in DOMAIN f /\ r = f[p[j]] /\ r \in keep
      BY <1>4, <1>5, <3>1
    <3>3. QED
      BY <3>2 DEF Range
  <2>2. ASSUME NEW r \in Range(f) \cap keep
        PROVE  r \in Range(s)
    <3>1. PICK i \in 1..Len(f) : r = f[i]
      BY <1>5 DEF Range
    <3>2. PICK j \in 1..Len(s) : s[j] = r
      BY <1>3, <3>1
    <3>3. QED
      BY <1>5, <3>2 DEF Range
  <2>3. QED
    BY <2>1, <2>2
<1>8. ASSUME NEW r \in Range(f), r \notin keep
      PROVE  Len(s) < Len(f)
  <2>1. PICK i \in 1..Len(f) : r = f[i]
    BY <1>5 DEF Range
  <2>2. QED
    BY <1>3, <1>8, <2>1
<1>9. QED
  BY <1>1, <1>3, <1>6, <1>7, <1>8

(* What is kept are the records within a window of the clock; if a record  *)
(* is not, the store is rewritten.                                         *)
LEMMA KeptFacts ==
  ASSUME lines \in Seq(Line), Distinct(lines)
  PROVE  /\ Kept \in Seq(Records) /\ Distinct(Kept)
         /\ \A r : r \in Range(Kept) <=> r \in Range(lines) /\ r \in Records /\ Retained(r.at)
         /\ (\E r \in Range(lines) : r \in Records /\ ~Retained(r.at)) => Prunes
<1>1. PICK keep : keep = {r \in Records : Retained(r.at)}
  OBVIOUS
<1>2. PICK f : f = Pending(lines)
  OBVIOUS
<1>3. PICK k : k = Kept
  OBVIOUS
<1>4. f \in Seq(Records) /\ Distinct(f) /\ Range(f) = Range(lines) \cap Records
  BY <1>2, AmongKeeps DEF Pending
<1>5. f \in Seq(Line) /\ keep \in SUBSET Records
  <2>1. Records \subseteq Line
    BY DEF Line
  <2>2. QED
    BY <1>1, <1>4, <2>1
<1>6. k = Among(f, keep)
  BY <1>1, <1>2, <1>3 DEF Kept
<1>7. /\ k \in Seq(keep) /\ Distinct(k) /\ Range(k) = Range(f) \cap keep
      /\ (\E r \in Range(f) : r \notin keep) => Len(k) < Len(f)
  BY <1>4, <1>5, <1>6, AmongKeeps
<1>8. k \in Seq(Records)
  BY <1>5, <1>7
<1>9. \A r : r \in Range(k) <=> r \in Range(lines) /\ r \in Records /\ Retained(r.at)
  BY <1>1, <1>4, <1>7
<1>10. ASSUME NEW r \in Range(lines), r \in Records, ~Retained(r.at)
       PROVE  Len(k) # Len(f)
  <2>1. r \in Range(f) /\ r \notin keep
    BY <1>1, <1>4, <1>10
  <2>2. Len(k) < Len(f) /\ Len(k) \in Nat /\ Len(f) \in Nat
    BY <1>4, <1>7, <2>1
  <2>3. QED
    BY <2>2
<1>11. QED
  BY <1>2, <1>3, <1>7, <1>8, <1>9, <1>10 DEF Prunes

(* The keys of lines are those of their records.                           *)
LEMMA KeysAre ==
  ASSUME NEW f \in Seq(Line)
  PROVE  /\ \A k : k \in KeysOf(f) <=> \E i \in DOMAIN f : f[i] \in Records /\ f[i].key = k
         /\ \A k : k \in KeysOf(f) <=> \E r \in Range(f) : r \in Records /\ r.key = k
         /\ KeysOf(f) \subseteq Events
<1>1. DOMAIN f = 1..Len(f) /\ \A i \in DOMAIN f : f[i] \in Line
  OBVIOUS
<1>2. \A r \in Range(f) : r # Torn <=> r \in Records
  BY <1>1, RecordsAreNotTorn DEF Range, Line
<1>3. \A r \in Records : r.key \in Events
  BY DEF Records
<1>4. \A k : k \in KeysOf(f) <=> \E r \in Range(f) : r \in Records /\ r.key = k
  BY <1>2 DEF KeysOf
<1>5. \A k : k \in KeysOf(f) <=> \E i \in DOMAIN f : f[i] \in Records /\ f[i].key = k
  BY <1>4 DEF Range
<1>6. QED
  BY <1>3, <1>4, <1>5

(* After a terminated line an append adds one; after a torn one it spoils  *)
(* the last.                                                               *)
LEMMA AppendAdds ==
  ASSUME NEW f \in Seq(Line), NEW x \in Line
  PROVE  /\ AppendLine(f, TRUE, x) \in Seq(Line) /\ AppendLine(f, TRUE, x) # <<>>
         /\ Len(AppendLine(f, TRUE, x)) = Len(f) + 1
         /\ AppendLine(f, TRUE, x)[Len(f) + 1] = x
         /\ DOMAIN AppendLine(f, TRUE, x) = DOMAIN f \cup {Len(f) + 1}
         /\ Len(f) + 1 \notin DOMAIN f
         /\ \A i \in DOMAIN f : AppendLine(f, TRUE, x)[i] = f[i]
         /\ Range(AppendLine(f, TRUE, x)) = Range(f) \cup {x}
<1>1. PICK g : g = Append(f, x)
  OBVIOUS
<1>2. AppendLine(f, TRUE, x) = g
  BY <1>1 DEF AppendLine
<1>3. /\ g \in Seq(Line) /\ Len(g) = Len(f) + 1 /\ g[Len(f) + 1] = x /\ Len(f) \in Nat
      /\ DOMAIN f = 1..Len(f) /\ DOMAIN g = 1..(Len(f) + 1) /\ \A i \in DOMAIN f : g[i] = f[i]
  BY <1>1
<1>4. DOMAIN g = DOMAIN f \cup {Len(f) + 1} /\ Len(f) + 1 \notin DOMAIN f
  BY <1>3
<1>5. Range(g) = Range(f) \cup {x}
  BY <1>3, <1>4 DEF Range
<1>6. g # <<>>
  BY <1>3
<1>7. QED
  BY <1>2, <1>3, <1>4, <1>5, <1>6

LEMMA AppendSpoils ==
  ASSUME NEW f \in Seq(Line), f # <<>>, NEW x
  PROVE  /\ Len(f) \in DOMAIN f /\ f[Len(f)] \in Line
         /\ AppendLine(f, FALSE, x) \in Seq(Line) /\ AppendLine(f, FALSE, x) # <<>>
         /\ Len(AppendLine(f, FALSE, x)) = Len(f)
         /\ DOMAIN AppendLine(f, FALSE, x) = DOMAIN f
         /\ AppendLine(f, FALSE, x)[Len(f)] = Torn
         /\ \A i \in DOMAIN f : i # Len(f) => AppendLine(f, FALSE, x)[i] = f[i]
         /\ \A r \in Range(AppendLine(f, FALSE, x)) : r = Torn \/ r \in Range(f)
         /\ \A r \in Range(f) : r = f[Len(f)] \/ r \in Range(AppendLine(f, FALSE, x))
<1>1. PICK g : g = [f EXCEPT ![Len(f)] = Torn]
  OBVIOUS
<1>2. AppendLine(f, FALSE, x) = g
  BY <1>1 DEF AppendLine
<1>3. DOMAIN f = 1..Len(f) /\ Len(f) \in Nat /\ Len(f) \in DOMAIN f /\ f[Len(f)] \in Line
  <2>1. Len(f) \in Nat /\ Len(f) # 0 /\ DOMAIN f = 1..Len(f)
    OBVIOUS
  <2>2. Len(f) \in 1..Len(f)
    BY <2>1
  <2>3. QED
    BY <2>1, <2>2
<1>4. Torn \in Line
  BY DEF Line
<1>5. /\ g \in Seq(Line) /\ Len(g) = Len(f) /\ DOMAIN g = DOMAIN f
      /\ g[Len(f)] = Torn /\ \A i \in DOMAIN f : i # Len(f) => g[i] = f[i]
  BY <1>1, <1>3, <1>4
<1>6. g # <<>>
  BY <1>3, <1>5
<1>7. /\ \A r \in Range(g) : r = Torn \/ r \in Range(f)
      /\ \A r \in Range(f) : r = f[Len(f)] \/ r \in Range(g)
  BY <1>5 DEF Range
<1>8. QED
  BY <1>2, <1>3, <1>5, <1>6, <1>7

-----------------------------------------------------------------------------
(* One append, or none *)

(* An event is an occurrence at t unless it is one already.                *)
Adds(hd, e, t) == IF \E h \in hd : h.key = e THEN hd ELSE hd \cup {[key |-> e, at |-> t]}

LEMMA RecordIs ==
  ASSUME NEW e \in Events, NEW t \in 0..MaxClock
  PROVE  [key |-> e, at |-> t] \in Records /\ [key |-> e, at |-> t].key = e
BY DEF Records

LEMMA AddsKeeps ==
  ASSUME NEW hd, HeardInv(hd), NEW e \in Events, NEW t \in 0..MaxClock
  PROVE  /\ HeardInv(Adds(hd, e, t)) /\ hd \subseteq Adds(hd, e, t)
         /\ \A h \in Adds(hd, e, t) : h \in hd \/ (h = [key |-> e, at |-> t] /\ h.key = e)
         /\ \/ \E h \in hd : h.key = e
            \/ [key |-> e, at |-> t] \in Adds(hd, e, t)
<1>1. PICK r : r = [key |-> e, at |-> t]
  OBVIOUS
<1>2. r \in Records /\ r.key = e
  BY <1>1, RecordIs
<1>3. hd \subseteq Records /\ IsFiniteSet(hd) /\ \A g, h \in hd : g.key = h.key => g = h
  BY DEF HeardInv
<1>4. CASE \E h \in hd : h.key = e
  <2>1. Adds(hd, e, t) = hd
    BY <1>4 DEF Adds
  <2>2. QED
    BY <1>4, <2>1
<1>5. CASE ~\E h \in hd : h.key = e
  <2>1. Adds(hd, e, t) = hd \cup {r}
    BY <1>1, <1>5 DEF Adds
  <2>2. IsFiniteSet(hd \cup {r})
    BY <1>3, FS_AddElement
  <2>3. HeardInv(hd \cup {r})
    BY <1>2, <1>3, <1>5, <2>2 DEF HeardInv
  <2>4. QED
    BY <1>1, <1>2, <2>1, <2>3
<1>6. QED
  BY <1>4, <1>5

(* The store after the append of a record its index did not have.          *)
LEMMA AppendStores ==
  ASSUME NEW f, NEW closed, NEW ix \in SUBSET Events, StoreInv(f, closed, ix),
         NEW e \in Events, e \notin ix, NEW t \in 0..MaxClock
  PROVE  LET r == [key |-> e, at |-> t] IN
         /\ StoreInv(AppendLine(f, closed, r), TRUE, ix \cup {e})
         /\ StoreInv(AppendLine(f, closed, r), FALSE, ix)
         /\ StoreInv(AppendLine(f, closed, Torn), FALSE, ix)
<1> DEFINE Indexes(g, c, x) ==
             \A i \in DOMAIN g : g[i] \in Records /\ (c \/ i # Len(g)) => g[i].key \in x
<1>1. /\ f \in Seq(Line) /\ closed \in BOOLEAN /\ (f = <<>> => closed) /\ Distinct(f)
      /\ Indexes(f, closed, ix)
  BY RecordsAreNotTorn DEF StoreInv
<1>2. PICK r : r = [key |-> e, at |-> t]
  OBVIOUS
<1>3. r \in Records /\ r.key = e /\ r \in Line /\ Torn \in Line /\ Torn \notin Records
  BY <1>2, RecordIs, RecordsAreNotTorn DEF Line
<1>4. ix \cup {e} \subseteq Events
  OBVIOUS
<1> HIDE DEF Indexes
<1>5. SUFFICES ASSUME NEW x \in {r, Torn}
               PROVE  LET g == AppendLine(f, closed, x) IN
                      /\ g \in Seq(Line) /\ g # <<>> /\ Distinct(g)
                      /\ Indexes(g, TRUE, ix \cup {e}) /\ Indexes(g, FALSE, ix)
  BY <1>2, <1>4 DEF StoreInv, Indexes
<1>6. PICK g : g = AppendLine(f, closed, x)
  OBVIOUS
<1>7. CASE closed
  <2>1. /\ g \in Seq(Line) /\ g # <<>> /\ Len(g) = Len(f) + 1 /\ g[Len(f) + 1] = x
        /\ DOMAIN g = DOMAIN f \cup {Len(f) + 1}
        /\ Len(f) + 1 \notin DOMAIN f
        /\ \A i \in DOMAIN f : g[i] = f[i]
    <3>1. closed = TRUE
      BY <1>1, <1>7
    <3>2. f \in Seq(Line) /\ x \in Line /\ g = AppendLine(f, TRUE, x)
      BY <1>1, <1>3, <1>6, <3>1
    <3>3. /\ AppendLine(f, TRUE, x) \in Seq(Line) /\ AppendLine(f, TRUE, x) # <<>>
          /\ Len(AppendLine(f, TRUE, x)) = Len(f) + 1
          /\ AppendLine(f, TRUE, x)[Len(f) + 1] = x
          /\ DOMAIN AppendLine(f, TRUE, x) = DOMAIN f \cup {Len(f) + 1}
          /\ Len(f) + 1 \notin DOMAIN f
          /\ \A i \in DOMAIN f : AppendLine(f, TRUE, x)[i] = f[i]
      BY ONLY <3>2, AppendAdds
    <3>4. QED
      BY ONLY <3>2, <3>3
  <2>2. \A i \in DOMAIN f : f[i] \in Records => f[i].key \in ix /\ f[i].key # e
    BY <1>1, <1>7 DEF Indexes
  <2>3. x \in Records => x.key = e
    BY <1>3
  <2>4. Distinct(g)
    <3>1. ASSUME NEW i \in DOMAIN g, NEW j \in DOMAIN g,
                 g[i] \in Records, g[j] \in Records, g[i].key = g[j].key
          PROVE  i = j
      <4>1. CASE i \in DOMAIN f /\ j \in DOMAIN f
        BY <1>1, <2>1, <3>1, <4>1 DEF Distinct
      <4>2. CASE ~(i \in DOMAIN f /\ j \in DOMAIN f)
        BY <2>1, <2>2, <2>3, <3>1, <4>2
      <4>3. QED
        BY <4>1, <4>2
    <3>2. QED
      BY <3>1 DEF Distinct
  <2>5. Indexes(g, TRUE, ix \cup {e}) /\ Indexes(g, FALSE, ix)
    BY <2>1, <2>2, <2>3 DEF Indexes
  <2>6. QED
    BY <1>6, <2>1, <2>4, <2>5
<1>8. CASE ~closed
  <2>1. /\ g \in Seq(Line) /\ g # <<>> /\ Len(g) = Len(f) /\ DOMAIN g = DOMAIN f
        /\ g[Len(f)] = Torn /\ \A i \in DOMAIN f : i # Len(f) => g[i] = f[i]
    <3>1. closed = FALSE /\ f # <<>>
      BY <1>1, <1>8
    <3>2. QED
      BY <1>1, <1>6, <3>1, AppendSpoils
  <2>2. \A i \in DOMAIN f : g[i] \in Records => g[i] = f[i] /\ i # Len(f)
    BY <1>3, <2>1
  <2>3. Distinct(g)
    BY <1>1, <2>1, <2>2 DEF Distinct
  <2>4. Indexes(g, TRUE, ix \cup {e}) /\ Indexes(g, FALSE, ix)
    BY <1>1, <2>1, <2>2 DEF Indexes
  <2>5. QED
    BY <1>6, <2>1, <2>3, <2>4
<1>9. QED
  BY <1>1, <1>7, <1>8

LEMMA KnownTo ==
  ASSUME NEW f, NEW closed, NEW ix, StoreInv(f, closed, ix), NEW hd, HeardInv(hd)
  PROVE  \A k : /\ k \in Known(ix, f, hd)
                     <=> \/ ix # Unset /\ k \in ix
                         \/ \E r \in Range(f) : r \in Records /\ r.key = k
                         \/ \E h \in hd : h.key = k
                /\ k \in Unpaired(ix, f, hd)
                     <=> /\ k \in Known(ix, f, hd)
                         /\ ~\E r \in hd : r \in Range(f) /\ r \in Records /\ r.key = k
<1>1. f \in Seq(Line) /\ hd \subseteq Records
  BY DEF StoreInv, HeardInv
<1>2. \A k : k \in KeysOf(f) <=> \E r \in Range(f) : r \in Records /\ r.key = k
  BY <1>1, KeysAre
<1>3. TAKE k
<1>4. k \in Known(ix, f, hd)
        <=> \/ ix # Unset /\ k \in ix
            \/ \E r \in Range(f) : r \in Records /\ r.key = k
            \/ \E h \in hd : h.key = k
  BY <1>2 DEF Known
<1>5. k \in Unpaired(ix, f, hd)
        <=> /\ k \in Known(ix, f, hd)
            /\ ~\E r \in hd : r \in Range(f) /\ r \in Records /\ r.key = k
  BY <1>1 DEF Unpaired
<1>6. QED
  BY <1>4, <1>5

(* A replay of an event the index has unpairs none.                        *)
LEMMA ReplayUnpairs ==
  ASSUME NEW f, NEW closed, NEW ix \in SUBSET Events, StoreInv(f, closed, ix),
         NEW hd, HeardInv(hd), NEW e \in ix, NEW t \in 0..MaxClock
  PROVE  Unpaired(ix, f, Adds(hd, e, t)) \subseteq Unpaired(ix, f, hd)
<1>1. PICK h2 : h2 = Adds(hd, e, t)
  OBVIOUS
<1>2. /\ HeardInv(h2) /\ hd \subseteq h2 /\ \A h \in h2 : h \in hd \/ h.key = e
  BY <1>1, AddsKeeps
<1>3. ix # Unset
  BY RecordsAreNotTorn
<1>4. ASSUME NEW k \in Unpaired(ix, f, h2)
      PROVE  k \in Unpaired(ix, f, hd)
  <2>1. /\ k \in Known(ix, f, h2)
        /\ ~\E r \in h2 : r \in Range(f) /\ r \in Records /\ r.key = k
    BY <1>2, KnownTo
  <2>2. k \in Known(ix, f, hd)
    BY <1>2, <1>3, <2>1, KnownTo
  <2>3. ~\E r \in hd : r \in Range(f) /\ r \in Records /\ r.key = k
    BY <1>2, <2>1
  <2>4. QED
    BY <2>2, <2>3, KnownTo
<1>5. QED
  BY <1>1, <1>4

(* An append to a terminated line unpairs none: an event appended anew was *)
(* lost before.                                                            *)
LEMMA AppendUnpairs ==
  ASSUME NEW f, NEW ix \in SUBSET Events, StoreInv(f, TRUE, ix),
         NEW hd, HeardInv(hd), NEW e \in Events, e \notin ix, NEW t \in 0..MaxClock,
         NEW closed \in BOOLEAN, NEW i2 \in {ix, ix \cup {e}},
         NEW g, StoreInv(g, closed, i2)
  PROVE  /\ g = AppendLine(f, TRUE, [key |-> e, at |-> t])
              => Unpaired(i2, g, Adds(hd, e, t)) \subseteq Unpaired(ix, f, hd)
         /\ g = AppendLine(f, TRUE, Torn)
              => Unpaired(ix, g, hd) \subseteq Unpaired(ix, f, hd)
<1>1. PICK r : r = [key |-> e, at |-> t]
  OBVIOUS
<1>2. r \in Records /\ r.key = e /\ r \in Line /\ Torn \in Line /\ Torn \notin Records
  BY <1>1, RecordIs, RecordsAreNotTorn DEF Line
<1>3. ix # Unset /\ i2 # Unset /\ f \in Seq(Line)
  BY RecordsAreNotTorn DEF StoreInv
<1>4. ASSUME g = AppendLine(f, TRUE, r), NEW k \in Unpaired(i2, g, Adds(hd, e, t))
      PROVE  k \in Unpaired(ix, f, hd)
  <2>1. PICK h2 : h2 = Adds(hd, e, t)
    OBVIOUS
  <2>2. /\ HeardInv(h2) /\ hd \subseteq h2 /\ \A h \in h2 : h \in hd \/ h.key = e
        /\ (\E h \in hd : h.key = e) \/ r \in h2
    BY <1>1, <2>1, AddsKeeps
  <2>3. Range(g) = Range(f) \cup {r}
    BY <1>2, <1>3, <1>4, AppendAdds
  <2>4. /\ k \in Known(i2, g, h2)
        /\ ~\E q \in h2 : q \in Range(g) /\ q \in Records /\ q.key = k
    <3>1. k \in Unpaired(i2, g, h2) /\ HeardInv(h2) /\ StoreInv(g, closed, i2)
      BY <1>4, <2>1, <2>2
    <3>2. QED
      BY ONLY <3>1, KnownTo
  <2>5. k \in Known(ix, f, hd)
    <3>1. CASE k = e
      BY <1>2, <2>2, <2>3, <2>4, <3>1, KnownTo
    <3>2. CASE k # e
      <4>1. \/ k \in i2
            \/ \E q \in Range(g) : q \in Records /\ q.key = k
            \/ \E h \in h2 : h.key = k
        BY <2>2, <2>4, KnownTo
      <4>2. \/ k \in ix
            \/ \E q \in Range(f) : q \in Records /\ q.key = k
            \/ \E h \in hd : h.key = k
        BY <1>2, <2>2, <2>3, <3>2, <4>1
      <4>3. QED
        BY <1>3, <4>2, KnownTo
    <3>3. QED
      BY <3>1, <3>2
  <2>6. ~\E q \in hd : q \in Range(f) /\ q \in Records /\ q.key = k
    BY <2>2, <2>3, <2>4
  <2>7. QED
    BY <2>5, <2>6, KnownTo
<1>5. ASSUME g = AppendLine(f, TRUE, Torn), NEW k \in Unpaired(ix, g, hd)
      PROVE  k \in Unpaired(ix, f, hd)
  <2>1. Range(g) = Range(f) \cup {Torn}
    BY <1>2, <1>3, <1>5, AppendAdds
  <2>2. Unpaired(ix, g, hd) \subseteq Unpaired(ix, f, hd)
    <3>1. KeysOf(g) = KeysOf(f)
      BY <2>1 DEF KeysOf
    <3>2. hd \cap Range(g) = hd \cap Range(f)
      BY <1>2, <2>1 DEF HeardInv
    <3>3. QED
      BY <3>1, <3>2 DEF Unpaired, Known
  <2>3. QED
    BY <1>5, <2>2
<1>6. QED
  BY <1>1, <1>4, <1>5

(* An append to a torn line unpairs the event of the record that ended     *)
(* without "\n", if one did, and its own.                                  *)
LEMMA SpoiltUnpairs ==
  ASSUME NEW f, NEW ix \in SUBSET Events, StoreInv(f, FALSE, ix),
         NEW hd, HeardInv(hd), NEW e \in Events, NEW t \in 0..MaxClock,
         NEW closed \in BOOLEAN, NEW i2 \in {ix, ix \cup {e}},
         NEW x, NEW g, StoreInv(g, closed, i2), g = AppendLine(f, FALSE, x)
  PROVE  LET final == f[Len(f)] IN
         /\ Unpaired(i2, g, Adds(hd, e, t))
              \subseteq Unpaired(ix, f, hd) \cup {e, IF final = Torn THEN e ELSE final.key}
         /\ final = Torn => Unpaired(ix, g, hd) \subseteq Unpaired(ix, f, hd)
         /\ Unpaired(ix, g, hd)
              \subseteq Unpaired(ix, f, hd) \cup {IF final = Torn THEN e ELSE final.key}
<1>1. PICK final : final = f[Len(f)]
  OBVIOUS
<1>2. Torn \notin Records /\ ix # Unset /\ i2 # Unset /\ f \in Seq(Line) /\ f # <<>>
  BY RecordsAreNotTorn DEF StoreInv
<1>3. /\ final \in Line
      /\ \A r \in Range(g) : r = Torn \/ r \in Range(f)
      /\ \A r \in Range(f) : r = final \/ r \in Range(g)
  BY <1>1, <1>2, AppendSpoils
<1>4. hd \subseteq Records
  BY DEF HeardInv
(* What is unpaired by the append, but for the event itself.               *)
<1>5. ASSUME NEW h2, HeardInv(h2), hd \subseteq h2, \A h \in h2 : h \in hd \/ h.key = e,
             NEW k \in Unpaired(i2, g, h2), k # e, k \notin Unpaired(ix, f, hd)
      PROVE  final # Torn /\ k = final.key
  <2>1. /\ k \in Known(i2, g, h2)
        /\ ~\E q \in h2 : q \in Range(g) /\ q \in Records /\ q.key = k
    <3>1. k \in Unpaired(i2, g, h2) /\ HeardInv(h2) /\ StoreInv(g, closed, i2)
      BY <1>5
    <3>2. QED
      BY ONLY <3>1, KnownTo
  <2>2. \/ k \in i2
        \/ \E q \in Range(g) : q \in Records /\ q.key = k
        \/ \E h \in h2 : h.key = k
    <3>1. k \in Known(i2, g, h2) /\ HeardInv(h2) /\ StoreInv(g, closed, i2)
      BY <1>5, <2>1
    <3>2. QED
      BY ONLY <3>1, KnownTo
  <2>3. \/ k \in ix
        \/ \E q \in Range(f) : q \in Records /\ q.key = k
        \/ \E h \in hd : h.key = k
    BY <1>2, <1>3, <1>5, <2>2
  <2>4. k \in Known(ix, f, hd)
    BY <1>2, <2>3, KnownTo
  <2>5. PICK q \in hd : q \in Range(f) /\ q \in Records /\ q.key = k
    BY <1>5, <2>4, KnownTo
  <2>6. q \notin Range(g)
    BY <1>5, <2>1, <2>5
  <2>7. q = final
    BY <1>3, <2>5, <2>6
  <2>8. QED
    BY <1>2, <2>5, <2>7
<1>6. HeardInv(hd) /\ hd \subseteq hd /\ \A h \in hd : h \in hd \/ h.key = e
  OBVIOUS
<1>7. /\ HeardInv(Adds(hd, e, t)) /\ hd \subseteq Adds(hd, e, t)
      /\ \A h \in Adds(hd, e, t) : h \in hd \/ h.key = e
  BY AddsKeeps
<1>8. Unpaired(i2, g, Adds(hd, e, t))
        \subseteq Unpaired(ix, f, hd) \cup {e, IF final = Torn THEN e ELSE final.key}
  <2>1. PICK h2 : h2 = Adds(hd, e, t)
    OBVIOUS
  <2>2. ASSUME NEW k \in Unpaired(i2, g, h2)
        PROVE  k \in Unpaired(ix, f, hd) \cup {e, IF final = Torn THEN e ELSE final.key}
    BY <1>5, <1>7, <2>1, <2>2
  <2>3. QED
    BY <2>1, <2>2
(* Without a record of its own, the event is unpaired only if it was.      *)
<1>9. ASSUME NEW k \in Unpaired(ix, g, hd), k \notin Unpaired(ix, f, hd)
      PROVE  final # Torn /\ k = final.key
  <2>1. k \in Known(ix, g, hd) /\ ~\E q \in hd : q \in Range(g) /\ q.key = k
    BY <1>4, <1>9 DEF Unpaired
  <2>2. KeysOf(g) \subseteq KeysOf(f)
    BY <1>3 DEF KeysOf
  <2>3. k \in Known(ix, f, hd)
    BY <2>1, <2>2 DEF Known
  <2>4. PICK q \in hd : q \in Range(f) /\ q \in Records /\ q.key = k
    BY <1>9, <2>3, KnownTo
  <2>5. q = final
    BY <1>3, <2>1, <2>4
  <2>6. QED
    BY <1>2, <2>4, <2>5
<1>10. QED
  BY <1>1, <1>8, <1>9

(* At most as many more elements as are added.                             *)
LEMMA TwoMore ==
  ASSUME NEW S, IsFiniteSet(S), NEW a, NEW b, NEW T, T \subseteq S \cup {a, b}
  PROVE  /\ IsFiniteSet(T)
         /\ Cardinality(T) \in Nat /\ Cardinality(S) \in Nat
         /\ Cardinality(T) <= Cardinality(S) + 2
         /\ a = b => Cardinality(T) <= Cardinality(S) + 1
         /\ T \subseteq S => Cardinality(T) <= Cardinality(S)
<1>1. PICK S1 : S1 = S \cup {a}
  OBVIOUS
<1>2. PICK S2 : S2 = S1 \cup {b}
  OBVIOUS
<1>3. /\ IsFiniteSet(S1) /\ Cardinality(S) \in Nat /\ Cardinality(S1) \in Nat
      /\ Cardinality(S1) <= Cardinality(S) + 1
  BY <1>1, FS_AddElement, FS_CardinalityType
<1>4. /\ IsFiniteSet(S2) /\ Cardinality(S2) \in Nat
      /\ Cardinality(S2) <= Cardinality(S1) + 1
  <2>1. /\ IsFiniteSet(S2)
        /\ Cardinality(S2) = IF b \in S1 THEN Cardinality(S1) ELSE Cardinality(S1) + 1
    BY <1>2, <1>3, FS_AddElement
  <2>2. QED
    BY <1>3, <2>1, FS_CardinalityType
<1>5. T \subseteq S2 /\ (a = b => T \subseteq S1)
  BY <1>1, <1>2
<1>6. IsFiniteSet(T) /\ Cardinality(T) \in Nat /\ Cardinality(T) <= Cardinality(S2)
  BY <1>4, <1>5, FS_Subset, FS_CardinalityType
<1>7. a = b => Cardinality(T) <= Cardinality(S1)
  BY <1>3, <1>5, FS_Subset
<1>8. T \subseteq S => Cardinality(T) <= Cardinality(S)
  BY FS_Subset
<1>9. QED
  BY <1>3, <1>4, <1>6, <1>7, <1>8

(* The pairing after an append, torn in each of the ways, or after none.   *)
LEMMA AppendPairs ==
  ASSUME NEW f, NEW closed, NEW ix \in SUBSET Events, StoreInv(f, closed, ix),
         NEW hd, HeardInv(hd), NEW n \in Nat, PairsInv(f, closed, ix, hd, n),
         NEW e \in Events, e \notin ix, NEW t \in 0..MaxClock
  PROVE  LET r == [key |-> e, at |-> t] IN
         /\ PairsInv(AppendLine(f, closed, r), TRUE, ix \cup {e}, Adds(hd, e, t), n)
         /\ PairsInv(AppendLine(f, closed, r), FALSE, ix, Adds(hd, e, t), n + 1)
         /\ PairsInv(AppendLine(f, closed, Torn), FALSE, ix, hd, n + 1)
<1>1. PICK r : r = [key |-> e, at |-> t]
  OBVIOUS
<1>2. PICK h2 : h2 = Adds(hd, e, t)
  OBVIOUS
<1>3. PICK whole : whole = AppendLine(f, closed, r)
  OBVIOUS
<1>4. PICK torn : torn = AppendLine(f, closed, Torn)
  OBVIOUS
<1>5. r \in Line /\ Torn \in Line /\ r \in Records /\ Torn # r
  BY <1>1, RecordIs, RecordsAreNotTorn DEF Line
<1>6. /\ StoreInv(whole, TRUE, ix \cup {e}) /\ StoreInv(whole, FALSE, ix)
      /\ StoreInv(torn, FALSE, ix)
  BY <1>1, <1>3, <1>4, AppendStores
<1>7. f \in Seq(Line) /\ closed \in BOOLEAN /\ (f = <<>> => closed)
  BY DEF StoreInv
<1>8. PICK D : D = Unpaired(ix, f, hd)
  OBVIOUS
<1>9. PICK A, B, C : /\ A = Unpaired(ix \cup {e}, whole, h2)
                     /\ B = Unpaired(ix, whole, h2)
                     /\ C = Unpaired(ix, torn, hd)
  OBVIOUS
<1>10. IsFiniteSet(D) /\ Cardinality(D) \in Nat /\ Cardinality(D) + AtRisk(f, closed) <= 2 * n
  BY <1>8, FS_CardinalityType DEF PairsInv
<1>11. /\ IsFiniteSet(A) /\ IsFiniteSet(B) /\ IsFiniteSet(C) /\ Cardinality(A) \in Nat
       /\ Cardinality(A) <= 2 * n
       /\ Cardinality(B) + AtRisk(whole, FALSE) <= 2 * n + 2
       /\ Cardinality(C) + AtRisk(torn, FALSE) <= 2 * n + 2
  <2>1. CASE closed
    <3>1. closed = TRUE
      BY <1>7, <2>1
    <3>2. /\ StoreInv(f, TRUE, ix)
          /\ whole = AppendLine(f, TRUE, r) /\ torn = AppendLine(f, TRUE, Torn)
      BY <1>3, <1>4, <3>1
    <3>3. A \subseteq D /\ B \subseteq D /\ C \subseteq D
      <4>1. A \subseteq D
        BY <1>1, <1>2, <1>6, <1>8, <1>9, <3>2, AppendUnpairs
      <4>2. B \subseteq D
        BY <1>1, <1>2, <1>6, <1>8, <1>9, <3>2, AppendUnpairs
      <4>3. C \subseteq D
        BY <1>1, <1>2, <1>6, <1>8, <1>9, <3>2, AppendUnpairs
      <4>4. QED
        BY <4>1, <4>2, <4>3
    <3>4. /\ IsFiniteSet(A) /\ Cardinality(A) \in Nat /\ Cardinality(A) <= Cardinality(D)
          /\ IsFiniteSet(B) /\ Cardinality(B) \in Nat /\ Cardinality(B) <= Cardinality(D)
          /\ IsFiniteSet(C) /\ Cardinality(C) \in Nat /\ Cardinality(C) <= Cardinality(D)
      BY <1>10, <3>3, FS_Subset, FS_CardinalityType
    <3>5. AtRisk(f, closed) = 0 /\ AtRisk(whole, FALSE) = 2 /\ AtRisk(torn, FALSE) = 1
      <4>1. whole[Len(whole)] = r /\ torn[Len(torn)] = Torn
        <5>1. /\ Len(whole) = Len(f) + 1 /\ whole[Len(f) + 1] = r
              /\ Len(torn) = Len(f) + 1 /\ torn[Len(f) + 1] = Torn
          BY <1>5, <1>7, <3>2, AppendAdds
        <5>2. QED
          BY ONLY <5>1
      <4>2. QED
        BY <1>5, <3>1, <4>1 DEF AtRisk
    <3>6. Cardinality(D) <= 2 * n
      BY <1>10, <3>5
    <3>7. Cardinality(A) <= 2 * n /\ Cardinality(B) <= 2 * n /\ Cardinality(C) <= 2 * n
      BY ONLY <1>10, <3>4, <3>6, n \in Nat
    <3>8. Cardinality(B) + 2 <= 2 * n + 2 /\ Cardinality(C) + 1 <= 2 * n + 2
      BY ONLY <3>4, <3>7, n \in Nat
    <3>9. QED
      BY ONLY <3>4, <3>5, <3>7, <3>8
  <2>2. CASE ~closed
    <3>1. closed = FALSE /\ f # <<>>
      BY <1>7, <2>2
    <3>2. /\ StoreInv(f, FALSE, ix)
          /\ whole = AppendLine(f, FALSE, r) /\ torn = AppendLine(f, FALSE, Torn)
      BY <1>3, <1>4, <3>1
    <3>3. PICK k : k = IF f[Len(f)] = Torn THEN e ELSE f[Len(f)].key
      OBVIOUS
    <3>4. A \subseteq D \cup {e, k} /\ B \subseteq D \cup {e, k}
      <4>1. A \subseteq D \cup {e, k}
        BY <1>2, <1>6, <1>8, <1>9, <3>2, <3>3, SpoiltUnpairs
      <4>2. B \subseteq D \cup {e, k}
        BY <1>2, <1>6, <1>8, <1>9, <3>2, <3>3, SpoiltUnpairs
      <4>3. QED
        BY <4>1, <4>2
    <3>5. C \subseteq D \cup {k, k} /\ (f[Len(f)] = Torn => C \subseteq D)
      <4>1. /\ f[Len(f)] = Torn => Unpaired(ix, torn, hd) \subseteq Unpaired(ix, f, hd)
            /\ Unpaired(ix, torn, hd) \subseteq Unpaired(ix, f, hd)
                 \cup {IF f[Len(f)] = Torn THEN e ELSE f[Len(f)].key}
        <5>1. ix \in {ix, ix \cup {e}} /\ FALSE \in BOOLEAN
          OBVIOUS
        <5>2. QED
          BY <1>6, <3>2, <5>1, SpoiltUnpairs
      <4>2. QED
        BY <1>8, <1>9, <3>3, <4>1
    <3>6. AtRisk(whole, FALSE) = 1 /\ AtRisk(torn, FALSE) = 1
      <4>1. whole[Len(whole)] = Torn /\ torn[Len(torn)] = Torn
        <5>1. /\ Len(whole) = Len(f) /\ whole[Len(f)] = Torn
              /\ Len(torn) = Len(f) /\ torn[Len(f)] = Torn
          BY <1>7, <3>1, <3>2, AppendSpoils
        <5>2. QED
          BY ONLY <5>1
      <4>2. QED
        BY <4>1 DEF AtRisk
    <3>7. AtRisk(f, closed) = IF f[Len(f)] = Torn THEN 1 ELSE 2
      BY <3>1 DEF AtRisk
    <3>8. /\ IsFiniteSet(A) /\ Cardinality(A) \in Nat /\ Cardinality(A) <= Cardinality(D) + 2
          /\ e = k => Cardinality(A) <= Cardinality(D) + 1
      BY <1>10, <3>4, TwoMore
    <3>9. /\ IsFiniteSet(B) /\ Cardinality(B) \in Nat /\ Cardinality(B) <= Cardinality(D) + 2
          /\ e = k => Cardinality(B) <= Cardinality(D) + 1
      BY <1>10, <3>4, TwoMore
    <3>10. /\ IsFiniteSet(C) /\ Cardinality(C) \in Nat /\ Cardinality(C) <= Cardinality(D) + 1
      BY <1>10, <3>5, TwoMore
    <3>11. Cardinality(A) <= 2 * n /\ Cardinality(B) <= 2 * n /\ Cardinality(C) <= 2 * n
      <4>1. CASE f[Len(f)] = Torn
        BY <1>10, <3>3, <3>7, <3>8, <3>9, <3>10, <4>1
      <4>2. CASE f[Len(f)] # Torn
        BY <1>10, <3>7, <3>8, <3>9, <3>10, <4>2
      <4>3. QED
        BY <4>1, <4>2
    <3>12. Cardinality(B) + 1 <= 2 * n + 2 /\ Cardinality(C) + 1 <= 2 * n + 2
      BY ONLY <3>9, <3>10, <3>11, n \in Nat
    <3>13. QED
      BY ONLY <3>6, <3>8, <3>9, <3>10, <3>11, <3>12
  <2>3. QED
    BY <2>1, <2>2
<1>12. PairsInv(whole, TRUE, ix \cup {e}, h2, n)
  BY <1>9, <1>11 DEF PairsInv, AtRisk
<1>13. 2 * n + 2 = 2 * (n + 1)
  OBVIOUS
<1>14. PairsInv(whole, FALSE, ix, h2, n + 1) /\ PairsInv(torn, FALSE, ix, hd, n + 1)
  BY <1>9, <1>11, <1>13 DEF PairsInv
<1>15. QED
  BY <1>1, <1>2, <1>3, <1>4, <1>12, <1>14

-----------------------------------------------------------------------------
(* Counting *)

(* Where in c there is an element of W.                                    *)
Places(c, W) == {s \in 1..Len(c) : c[s] \in W}

LEMMA NoMore ==
  ASSUME NEW S, NEW T, IsFiniteSet(T),
         NEW m \in [S -> T], \A x, y \in S : m[x] = m[y] => x = y
  PROVE  IsFiniteSet(S) /\ Cardinality(S) <= Cardinality(T)
<1>1. m \in Injection(S, T)
  BY DEF Injection, IsInjective
<1>2. QED
  BY <1>1, FS_Injection

LEMMA TwoParts ==
  ASSUME NEW S, NEW T, IsFiniteSet(S), IsFiniteSet(T)
  PROVE  /\ Cardinality(S) \in Nat /\ Cardinality(T) \in Nat /\ Cardinality(S \cup T) \in Nat
         /\ Cardinality(S \cup T) <= Cardinality(S) + Cardinality(T)
<1>1. /\ IsFiniteSet(S \cup T)
      /\ Cardinality(S \cup T) = Cardinality(S) + Cardinality(T) - Cardinality(S \cap T)
  BY FS_Union
<1>2. IsFiniteSet(S \cap T)
  <2>1. S \cap T \in SUBSET S
    OBVIOUS
  <2>2. QED
    BY <2>1, FS_Subset
<1>3. /\ Cardinality(S) \in Nat /\ Cardinality(T) \in Nat /\ Cardinality(S \cup T) \in Nat
      /\ Cardinality(S \cap T) \in Nat
  BY <1>1, <1>2, FS_CardinalityType
<1>4. QED
  BY ONLY <1>1, <1>3

(* A record that is counted is of an occurrence, or its event is unpaired. *)
LEMMA CountedHeard ==
  ASSUME NEW f, NEW closed, NEW ix, StoreInv(f, closed, ix), NEW hd, HeardInv(hd),
         IsFiniteSet(Unpaired(ix, f, hd)),
         NEW e \in Events, NEW t \in 0..MaxClock, NEW W \in SUBSET Records,
         NEW c \in Seq(Records), Distinct(c),
         \A s \in 1..Len(c) :
           \/ c[s] \in Range(f)
           \/ c[s] = [key |-> e, at |-> t] /\ e \notin KeysOf(f)
  PROVE  Cardinality(Places(c, W))
           <= Cardinality(Adds(hd, e, t) \cap W) + Cardinality(Unpaired(ix, f, hd))
<1>1. PICK h2, D : h2 = Adds(hd, e, t) /\ D = Unpaired(ix, f, hd)
  OBVIOUS
<1>2. PICK r : r = [key |-> e, at |-> t]
  OBVIOUS
<1>3. r \in Records /\ r.key = e /\ f \in Seq(Line)
  BY <1>2, RecordIs DEF StoreInv
<1>4. /\ IsFiniteSet(h2) /\ hd \subseteq h2 /\ ((\E h \in hd : h.key = e) \/ r \in h2)
  BY <1>1, <1>2, AddsKeeps DEF HeardInv
<1>5. PICK E : E = h2 \cap W
  OBVIOUS
<1>6. IsFiniteSet(E)
  <2>1. E \in SUBSET h2
    BY <1>5
  <2>2. QED
    BY <1>4, <2>1, FS_Subset
<1>7. PICK S, S1 : /\ S = Places(c, W) /\ S = {s \in 1..Len(c) : c[s] \in W}
                   /\ S1 = {s \in S : c[s] \in E}
  BY DEF Places
<1>8. PICK S2 : S2 = S \ S1
  OBVIOUS
<1>9. \A s \in S : s \in DOMAIN c /\ c[s] \in Records /\ c[s] \in W
  BY <1>7
<1>10. PICK m1 : m1 = [s \in S1 |-> c[s]]
  OBVIOUS
<1>11. PICK m2 : m2 = [s \in S2 |-> c[s].key]
  OBVIOUS
<1>12. m1 \in [S1 -> E] /\ \A x, y \in S1 : m1[x] = m1[y] => x = y
  <2>1. \A x \in S1 : x \in S /\ c[x] \in E /\ m1[x] = c[x]
    BY <1>7, <1>10
  <2>2. m1 \in [S1 -> E]
    BY <1>10, <2>1
  <2>3. \A x, y \in S1 : m1[x] = m1[y] => x = y
    BY <1>9, <2>1 DEF Distinct
  <2>4. QED
    BY <2>2, <2>3
<1>13. ASSUME NEW s \in S2
       PROVE  c[s].key \in D
  <2>1. /\ s \in S /\ c[s] \notin E /\ c[s] \notin h2
        /\ c[s] \in Records /\ c[s] \in W /\ s \in 1..Len(c)
    BY <1>5, <1>7, <1>8, <1>9
  <2>2. PICK k : k = c[s].key
    OBVIOUS
  <2>3. CASE c[s] \in Range(f)
    <3>1. k \in Known(ix, f, hd)
      BY <2>1, <2>2, <2>3, KnownTo
    <3>2. ~\E q \in hd : q \in Range(f) /\ q \in Records /\ q.key = k
      <4>1. ASSUME NEW q \in hd, q \in Range(f), q \in Records, q.key = k
            PROVE  FALSE
        <5>1. PICK i \in DOMAIN f : f[i] = q
          BY <4>1 DEF Range
        <5>2. PICK j \in DOMAIN f : f[j] = c[s]
          BY <2>3 DEF Range
        <5>3. i = j
          BY <2>1, <2>2, <4>1, <5>1, <5>2 DEF StoreInv, Distinct
        <5>4. QED
          BY <1>4, <2>1, <5>1, <5>2, <5>3
      <4>2. QED
        BY <4>1
    <3>3. QED
      BY <1>1, <2>2, <3>1, <3>2, KnownTo
  <2>4. CASE c[s] \notin Range(f)
    <3>1. c[s] = r /\ k = e /\ e \notin KeysOf(f)
      BY <1>2, <1>3, <2>1, <2>2, <2>4
    <3>2. \E h \in hd : h.key = k
      BY <1>4, <2>1, <3>1
    <3>3. k \in Known(ix, f, hd)
      BY <3>2, KnownTo
    <3>4. ~\E q \in hd : q \in Range(f) /\ q \in Records /\ q.key = k
      BY <1>3, <3>1, KeysAre
    <3>5. QED
      BY <1>1, <2>2, <3>3, <3>4, KnownTo
  <2>5. QED
    BY <2>3, <2>4
<1>14. m2 \in [S2 -> D] /\ \A x, y \in S2 : m2[x] = m2[y] => x = y
  <2>1. \A x \in S2 : x \in S /\ m2[x] = c[x].key
    BY <1>8, <1>11
  <2>2. m2 \in [S2 -> D]
    BY <1>11, <1>13
  <2>3. \A x, y \in S2 : m2[x] = m2[y] => x = y
    BY <1>9, <2>1 DEF Distinct
  <2>4. QED
    BY <2>2, <2>3
<1>15. S = S1 \cup S2 /\ IsFiniteSet(D)
  BY <1>1, <1>7, <1>8
<1>16. Cardinality(S) <= Cardinality(E) + Cardinality(D)
  <2>1. IsFiniteSet(S1) /\ Cardinality(S1) <= Cardinality(E)
    BY <1>6, <1>12, NoMore
  <2>2. IsFiniteSet(S2) /\ Cardinality(S2) <= Cardinality(D)
    BY <1>15, <1>14, NoMore
  <2>3. /\ Cardinality(S) <= Cardinality(S1) + Cardinality(S2)
        /\ Cardinality(S) \in Nat /\ Cardinality(S1) \in Nat /\ Cardinality(S2) \in Nat
    BY <1>15, <2>1, <2>2, TwoParts
  <2>4. Cardinality(E) \in Nat /\ Cardinality(D) \in Nat
    BY <1>6, <1>15, FS_CardinalityType
  <2>5. QED
    BY ONLY <2>1, <2>2, <2>3, <2>4
<1>17. QED
  BY <1>1, <1>5, <1>7, <1>16

(* An occurrence is counted, or its event is unpaired.                     *)
LEMMA HeardCounted ==
  ASSUME NEW f, NEW closed, NEW ix \in SUBSET Events, StoreInv(f, closed, ix),
         NEW hd, HeardInv(hd), IsFiniteSet(Unpaired(ix, f, hd)),
         NEW e \in Events, NEW t \in 0..MaxClock, NEW W \in SUBSET Records,
         NEW c \in Seq(Records), Range(f) \cap Records \subseteq Range(c),
         e \in ix \/ [key |-> e, at |-> t] \in Range(c)
  PROVE  Cardinality(Adds(hd, e, t) \cap W)
           <= Cardinality(Places(c, W)) + Cardinality(Unpaired(ix, f, hd))
<1>1. PICK h2, D : h2 = Adds(hd, e, t) /\ D = Unpaired(ix, f, hd)
  OBVIOUS
<1>2. PICK r : r = [key |-> e, at |-> t]
  OBVIOUS
<1>3. r \in Records /\ r.key = e /\ f \in Seq(Line) /\ ix # Unset
  BY <1>2, RecordIs, RecordsAreNotTorn DEF StoreInv
<1>4. /\ HeardInv(h2) /\ hd \subseteq h2 /\ \A h \in h2 : h \in hd \/ h = r
      /\ (\E h \in hd : h.key = e) \/ r \in h2
  BY <1>1, <1>2, AddsKeeps
<1>5. PICK E, E1 : E = h2 \cap W /\ E1 = E \cap Range(c)
  OBVIOUS
<1>6. PICK E2 : E2 = E \ E1
  OBVIOUS
<1>7. PICK P : P = Places(c, W) /\ P = {s \in 1..Len(c) : c[s] \in W}
  BY DEF Places
<1>8. IsFiniteSet(P)
  <2>1. Len(c) \in Nat /\ P \in SUBSET (1..Len(c))
    BY <1>7
  <2>2. IsFiniteSet(1..Len(c))
    BY <2>1, FS_Interval
  <2>3. QED
    BY <2>1, <2>2, FS_Subset
<1>9. PICK m1 : m1 = [h \in E1 |-> CHOOSE s \in 1..Len(c) : c[s] = h]
  OBVIOUS
<1>10. PICK m2 : m2 = [h \in E2 |-> h.key]
  OBVIOUS
<1>11. m1 \in [E1 -> P] /\ \A x, y \in E1 : m1[x] = m1[y] => x = y
  <2>1. ASSUME NEW h \in E1
        PROVE  m1[h] \in P /\ c[m1[h]] = h
    <3>1. \E s \in 1..Len(c) : c[s] = h
      BY <1>5 DEF Range
    <3>2. m1[h] \in 1..Len(c) /\ c[m1[h]] = h
      BY <1>9, <3>1
    <3>3. h \in W
      BY <1>5
    <3>4. QED
      BY <1>7, <3>2, <3>3
  <2>2. m1 \in [E1 -> P]
    BY <1>9, <2>1
  <2>3. QED
    BY <2>1, <2>2
<1>12. ASSUME NEW h \in E2
       PROVE  h.key \in D
  <2>1. h \in h2 /\ h \notin Range(c) /\ h \in Records
    BY <1>4, <1>5, <1>6 DEF HeardInv
  <2>2. h \notin Range(f)
    BY <2>1
  <2>3. PICK k : k = h.key
    OBVIOUS
  <2>4. CASE h \in hd
    <3>1. k \in Known(ix, f, hd)
      BY <2>3, <2>4, KnownTo
    <3>2. ~\E q \in hd : q \in Range(f) /\ q \in Records /\ q.key = k
      BY <2>2, <2>3, <2>4 DEF HeardInv
    <3>3. QED
      BY <1>1, <2>3, <3>1, <3>2, KnownTo
  <2>5. CASE h \notin hd
    <3>1. h = r /\ k = e
      BY <1>3, <1>4, <2>1, <2>3, <2>5
    <3>2. e \in ix
      BY <1>2, <2>1, <3>1
    <3>3. ~\E q \in hd : q.key = e
      <4>1. ASSUME NEW q \in hd, q.key = e
            PROVE  q = h
        BY <1>3, <1>4, <2>1, <3>1, <4>1 DEF HeardInv
      <4>2. QED
        BY <2>5, <4>1
    <3>4. k \in Known(ix, f, hd)
      BY <1>3, <3>1, <3>2, KnownTo
    <3>5. QED
      BY <1>1, <2>3, <3>1, <3>3, <3>4, KnownTo
  <2>6. QED
    BY <2>4, <2>5
<1>13. m2 \in [E2 -> D] /\ \A x, y \in E2 : m2[x] = m2[y] => x = y
  <2>1. \A h \in E2 : h \in h2 /\ m2[h] = h.key
    BY <1>5, <1>6, <1>10
  <2>2. m2 \in [E2 -> D]
    BY <1>10, <1>12
  <2>3. \A x, y \in E2 : m2[x] = m2[y] => x = y
    BY <1>4, <2>1 DEF HeardInv
  <2>4. QED
    BY <2>2, <2>3
<1>14. E = E1 \cup E2 /\ IsFiniteSet(D)
  BY <1>1, <1>5, <1>6
<1>15. Cardinality(E) <= Cardinality(P) + Cardinality(D)
  <2>1. IsFiniteSet(E1) /\ Cardinality(E1) <= Cardinality(P)
    BY <1>8, <1>11, NoMore
  <2>2. IsFiniteSet(E2) /\ Cardinality(E2) <= Cardinality(D)
    BY <1>14, <1>13, NoMore
  <2>3. /\ Cardinality(E) <= Cardinality(E1) + Cardinality(E2)
        /\ Cardinality(E) \in Nat /\ Cardinality(E1) \in Nat /\ Cardinality(E2) \in Nat
    BY <1>14, <2>1, <2>2, TwoParts
  <2>4. Cardinality(P) \in Nat /\ Cardinality(D) \in Nat
    BY <1>8, <1>14, FS_CardinalityType
  <2>5. QED
    BY ONLY <2>1, <2>2, <2>3, <2>4
<1>16. QED
  BY <1>1, <1>5, <1>7, <1>15

-----------------------------------------------------------------------------
(* The window moves *)

LEMMA RiskIs == ASSUME NEW f, NEW closed PROVE AtRisk(f, closed) \in 0..2
BY DEF AtRisk

(* Where fewer are unpaired and no more at risk.                           *)
LEMMA PairsShrink ==
  ASSUME NEW f, NEW closed, NEW ix, NEW hd, NEW n \in Nat, PairsInv(f, closed, ix, hd, n),
         NEW f2, NEW closed2, NEW ix2, NEW hd2,
         AtRisk(f2, closed2) <= AtRisk(f, closed),
         Unpaired(ix2, f2, hd2) \subseteq Unpaired(ix, f, hd)
  PROVE  PairsInv(f2, closed2, ix2, hd2, n)
<1>1. PICK D, E : D = Unpaired(ix, f, hd) /\ E = Unpaired(ix2, f2, hd2)
  OBVIOUS
<1>2. IsFiniteSet(D) /\ Cardinality(D) + AtRisk(f, closed) <= 2 * n
  BY <1>1 DEF PairsInv
<1>3. E \in SUBSET D
  BY <1>1
<1>4. IsFiniteSet(E) /\ Cardinality(E) <= Cardinality(D)
  BY <1>2, <1>3, FS_Subset
<1>5. Cardinality(E) \in Nat /\ Cardinality(D) \in Nat
  BY <1>2, <1>4, FS_CardinalityType
<1>6. PICK x, y : x = AtRisk(f, closed) /\ y = AtRisk(f2, closed2)
  OBVIOUS
<1>7. x \in Int /\ y \in Int /\ y <= x /\ Cardinality(D) + x <= 2 * n
  BY <1>2, <1>6, RiskIs
<1>8. Cardinality(E) + y <= 2 * n
  BY ONLY <1>4, <1>5, <1>7, n \in Nat
<1>9. QED
  BY <1>1, <1>4, <1>6, <1>8 DEF PairsInv

(* Building the index, and losing it, change what is known of no event     *)
(* for the worse.                                                          *)
LEMMA IndexBuilt ==
  ASSUME NEW f, NEW closed, NEW ix, StoreInv(f, closed, ix), NEW hd
  PROVE  /\ Index(ix, f) \in SUBSET Events
         /\ StoreInv(f, closed, Index(ix, f)) /\ StoreInv(f, closed, Unset)
         /\ Unpaired(Index(ix, f), f, hd) \subseteq Unpaired(ix, f, hd)
         /\ Unpaired(Unset, f, hd) \subseteq Unpaired(ix, f, hd)
<1>1. f \in Seq(Line) /\ (ix = Unset \/ ix \subseteq Events)
  BY DEF StoreInv
<1>2. KeysOf(f) \subseteq Events /\ KeysOf(f) # Unset
  BY <1>1, KeysAre, RecordsAreNotTorn
<1>3. \A i \in DOMAIN f : f[i] \in Records => f[i].key \in KeysOf(f)
  BY <1>1, KeysAre
<1>4. Index(ix, f) \in SUBSET Events
  BY <1>1, <1>2 DEF Index
<1>5. StoreInv(f, closed, Unset)
  BY DEF StoreInv
<1>6. StoreInv(f, closed, Index(ix, f))
  <2>1. CASE ix = Unset
    <3>1. Index(ix, f) = KeysOf(f)
      BY <2>1 DEF Index
    <3>2. StoreInv(f, closed, KeysOf(f))
      BY <1>2, <1>3 DEF StoreInv
    <3>3. QED
      BY <3>1, <3>2
  <2>2. CASE ix # Unset
    BY <2>2 DEF Index
  <2>3. QED
    BY <2>1, <2>2
<1>7. Known(Index(ix, f), f, hd) \subseteq Known(ix, f, hd)
  BY <1>2 DEF Known, Index
<1>8. Known(Unset, f, hd) \subseteq Known(ix, f, hd)
  BY DEF Known
<1>9. QED
  BY <1>4, <1>5, <1>6, <1>7, <1>8 DEF Unpaired

LEMMA StillHeardIs ==
  ASSUME HeardInv(heard)
  PROVE  /\ HeardInv(StillHeard)
         /\ \A h : h \in StillHeard <=> h \in heard /\ Retained(h.at)
<1>1. \A h : h \in StillHeard <=> h \in heard /\ Retained(h.at)
  BY DEF StillHeard, Retained
<1>2. StillHeard \in SUBSET heard
  BY <1>1
<1>3. IsFiniteSet(StillHeard)
  BY <1>2, FS_Subset DEF HeardInv
<1>4. QED
  BY <1>1, <1>2, <1>3 DEF HeardInv

LEMMA PruneKeeps ==
  ASSUME StoreInv(lines, terminated, index), HeardInv(heard), tears \in Nat,
         PairsInv(lines, terminated, index, heard, tears)
  PROVE  /\ StoreInv(Pruned.lines, Pruned.terminated, Pruned.index)
         /\ PairsInv(Pruned.lines, Pruned.terminated, Pruned.index, StillHeard, tears)
         /\ Kept \in Seq(Records) /\ Distinct(Kept)
         /\ Range(Kept) = Range(Pruned.lines) \cap Records
<1>1. /\ lines \in Seq(Line) /\ Distinct(lines)
  BY DEF StoreInv
<1>2. /\ Kept \in Seq(Records) /\ Distinct(Kept)
      /\ \A r : r \in Range(Kept) <=> r \in Range(lines) /\ r \in Records /\ Retained(r.at)
      /\ (\E r \in Range(lines) : r \in Records /\ ~Retained(r.at)) => Prunes
  BY <1>1, KeptFacts
<1>3. HeardInv(StillHeard) /\ \A h : h \in StillHeard <=> h \in heard /\ Retained(h.at)
  BY StillHeardIs
<1>4. CASE ~Prunes
  <2>1. Pruned.lines = lines /\ Pruned.terminated = terminated /\ Pruned.index = index
    BY <1>4 DEF Pruned
  <2>2. \A r \in Range(lines) : r \in Records => Retained(r.at)
    BY <1>2, <1>4
  <2>3. Range(Kept) = Range(lines) \cap Records
    BY <1>2, <2>2
  <2>4. Unpaired(index, lines, StillHeard) \subseteq Unpaired(index, lines, heard)
    <3>1. ASSUME NEW k \in Unpaired(index, lines, StillHeard)
          PROVE  k \in Unpaired(index, lines, heard)
      <4>1. /\ k \in Known(index, lines, StillHeard)
            /\ ~\E r \in StillHeard : r \in Range(lines) /\ r \in Records /\ r.key = k
        BY <1>3, <3>1, KnownTo
      <4>2. k \in Known(index, lines, heard)
        BY <1>3, <4>1, KnownTo
      <4>3. ~\E r \in heard : r \in Range(lines) /\ r \in Records /\ r.key = k
        BY <1>3, <2>2, <4>1
      <4>4. QED
        BY <4>2, <4>3, KnownTo
    <3>2. QED
      BY <3>1
  <2>5. AtRisk(lines, terminated) <= AtRisk(lines, terminated)
    BY RiskIs
  <2>6. PairsInv(lines, terminated, index, StillHeard, tears)
    BY <2>4, <2>5, PairsShrink
  <2>7. QED
    BY <1>2, <2>1, <2>3, <2>6
<1>5. CASE Prunes
  <2>1. Pruned.lines = Kept /\ Pruned.terminated = TRUE /\ Pruned.index = KeysOf(Kept)
    BY <1>5 DEF Pruned
  <2>2. Kept \in Seq(Line) /\ Range(Kept) \subseteq Records
    <3>1. Records \subseteq Line
      BY DEF Line
    <3>2. QED
      BY <1>2, <3>1
  <2>3. KeysOf(Kept) \subseteq Events /\ KeysOf(Kept) # Unset
    BY <2>2, KeysAre, RecordsAreNotTorn
  <2>4. StoreInv(Kept, TRUE, KeysOf(Kept))
    <3>1. \A i \in DOMAIN Kept : Kept[i] \in Records => Kept[i].key \in KeysOf(Kept)
      BY <2>2, KeysAre
    <3>2. QED
      BY <1>2, <2>2, <2>3, <3>1 DEF StoreInv
  <2>5. Unpaired(KeysOf(Kept), Kept, StillHeard) \subseteq Unpaired(index, lines, heard)
    <3>1. ASSUME NEW k \in Unpaired(KeysOf(Kept), Kept, StillHeard)
          PROVE  k \in Unpaired(index, lines, heard)
      <4>1. /\ k \in Known(KeysOf(Kept), Kept, StillHeard)
            /\ ~\E r \in StillHeard : r \in Range(Kept) /\ r \in Records /\ r.key = k
        <5>1. PICK c : StoreInv(Kept, c, KeysOf(Kept))
          BY <2>4
        <5>2. QED
          BY ONLY <1>3, <3>1, <5>1, KnownTo
      <4>2. \/ \E r \in Range(Kept) : r \in Records /\ r.key = k
            \/ \E h \in StillHeard : h.key = k
        BY <2>2, <4>1, KeysAre DEF Known
      <4>3. k \in Known(index, lines, heard)
        <5>1. \/ \E r \in Range(lines) : r \in Records /\ r.key = k
              \/ \E h \in heard : h.key = k
          BY <1>2, <1>3, <4>2
        <5>2. QED
          BY <5>1, KnownTo
      <4>4. ASSUME NEW r \in heard, r \in Range(lines), r \in Records, r.key = k
            PROVE  FALSE
        <5>1. ~Retained(r.at)
          BY <1>2, <1>3, <4>1, <4>4
        <5>2. CASE \E q \in Range(Kept) : q \in Records /\ q.key = k
          <6>1. PICK q \in Range(Kept) : q \in Records /\ q.key = k
            BY <5>2
          <6>2. q \in Range(lines) /\ Retained(q.at)
            BY <1>2, <6>1
          <6>3. PICK i \in DOMAIN lines : lines[i] = q
            BY <6>2 DEF Range
          <6>4. PICK j \in DOMAIN lines : lines[j] = r
            BY <4>4 DEF Range
          <6>5. i = j
            BY <1>1, <4>4, <6>1, <6>3, <6>4 DEF Distinct
          <6>6. QED
            BY <5>1, <6>2, <6>3, <6>4, <6>5
        <5>3. CASE \E h \in StillHeard : h.key = k
          <6>1. PICK h \in StillHeard : h.key = k
            BY <5>3
          <6>2. h \in heard /\ Retained(h.at)
            BY <1>3
          <6>3. h = r
            BY <4>4, <6>1, <6>2 DEF HeardInv
          <6>4. QED
            BY <5>1, <6>2, <6>3
        <5>4. QED
          BY <4>2, <5>2, <5>3
      <4>5. QED
        BY <4>3, <4>4, KnownTo
    <3>2. QED
      BY <3>1
  <2>6. AtRisk(Kept, TRUE) <= AtRisk(lines, terminated)
    BY DEF AtRisk
  <2>7. PairsInv(Kept, TRUE, KeysOf(Kept), StillHeard, tears)
    BY <2>5, <2>6, PairsShrink
  <2>8. Range(Kept) = Range(Kept) \cap Records
    BY <2>2
  <2>9. QED
    BY <1>2, <2>1, <2>4, <2>7, <2>8
<1>6. QED
  BY <1>4, <1>5

LEMMA IndexKeeps ==
  ASSUME NEW f, NEW closed, NEW ix, StoreInv(f, closed, ix), NEW hd, NEW n \in Nat,
         PairsInv(f, closed, ix, hd, n)
  PROVE  /\ Index(ix, f) \in SUBSET Events
         /\ StoreInv(f, closed, Index(ix, f)) /\ PairsInv(f, closed, Index(ix, f), hd, n)
         /\ StoreInv(f, closed, Unset) /\ PairsInv(f, closed, Unset, hd, n)
<1>1. AtRisk(f, closed) <= AtRisk(f, closed)
  BY RiskIs
<1>2. /\ Index(ix, f) \in SUBSET Events
      /\ StoreInv(f, closed, Index(ix, f)) /\ StoreInv(f, closed, Unset)
      /\ Unpaired(Index(ix, f), f, hd) \subseteq Unpaired(ix, f, hd)
      /\ Unpaired(Unset, f, hd) \subseteq Unpaired(ix, f, hd)
  BY IndexBuilt
<1>3. PairsInv(f, closed, Index(ix, f), hd, n)
  BY <1>1, <1>2, PairsShrink
<1>4. PairsInv(f, closed, Unset, hd, n)
  BY <1>1, <1>2, PairsShrink
<1>5. QED
  BY <1>2, <1>3, <1>4

-----------------------------------------------------------------------------
(* A snapshot *)

(* What a snapshot finds once the window is pruned, the index built.       *)
Found(f, closed, ix, hd) ==
  /\ ix \in SUBSET Events
  /\ StoreInv(f, closed, ix) /\ HeardInv(hd) /\ PairsInv(f, closed, ix, hd, tears)
  /\ Kept \in Seq(Records) /\ Distinct(Kept) /\ Range(Kept) = Range(f) \cap Records

LEMMA SnapshotFinds ==
  ASSUME WindowInv
  PROVE  /\ tears \in Nat /\ clock \in 0..MaxClock
         /\ StoreInv(Pruned.lines, Pruned.terminated, Pruned.index)
         /\ PairsInv(Pruned.lines, Pruned.terminated, Pruned.index, StillHeard, tears)
         /\ Found(Pruned.lines, Pruned.terminated, Index(Pruned.index, Pruned.lines), StillHeard)
         /\ \A e : Received(e) = Adds(StillHeard, e, clock)
<1>1. /\ StoreInv(lines, terminated, index) /\ HeardInv(heard)
      /\ PairsInv(lines, terminated, index, heard, tears)
      /\ tears \in 0..MaxTears /\ clock \in 0..MaxClock
  BY DEF WindowInv, CountsHeard, AggregatorTypeOK
<1>2. tears \in Nat
  BY <1>1, AggregatorConstants
<1>3. /\ StoreInv(Pruned.lines, Pruned.terminated, Pruned.index)
      /\ PairsInv(Pruned.lines, Pruned.terminated, Pruned.index, StillHeard, tears)
      /\ Kept \in Seq(Records) /\ Distinct(Kept)
      /\ Range(Kept) = Range(Pruned.lines) \cap Records
  BY <1>1, <1>2, PruneKeeps
<1>4. HeardInv(StillHeard)
  BY <1>1, StillHeardIs
<1>5. Found(Pruned.lines, Pruned.terminated, Index(Pruned.index, Pruned.lines), StillHeard)
  BY <1>2, <1>3, <1>4, IndexKeeps DEF Found
<1>6. \A e : Received(e) = Adds(StillHeard, e, clock)
  BY DEF Received, Adds
<1>7. QED
  BY <1>1, <1>2, <1>3, <1>5, <1>6

(* Nothing is counted without a snapshot of an occurrence.                 *)
LEMMA InvAgain ==
  ASSUME StoreInv(lines', terminated', index'), HeardInv(heard'),
         PairsInv(lines', terminated', index', heard', tears'),
         clock' \in 0..MaxClock, tears' \in 0..MaxTears,
         Counts' => /\ snap'.count <= Exact' + 2 * tears'
                    /\ Exact' <= snap'.count + 2 * tears'
  PROVE  WindowInv'
<1>1. AggregatorTypeOK'
  BY DEF AggregatorTypeOK, StoreInv, HeardInv, Line
<1>2. CountsHeard' /\ MissesByTears'
  BY <1>1 DEF CountsHeard, MissesByTears
<1>3. QED
  BY <1>2 DEF WindowInv

LEMMA PassesKeeps ==
  ASSUME WindowInv, NEW e \in Events, SnapshotPasses(e)
  PROVE  WindowInv'
<1>1. /\ lines' = Pruned.lines /\ terminated' = Pruned.terminated /\ index' = Pruned.index
      /\ heard' = StillHeard /\ tears' = tears /\ clock' = clock
      /\ snap' = [bucket |-> NoBucket, at |-> clock, count |-> 0, breached |-> FALSE]
  BY DEF SnapshotPasses
<1>2. /\ clock \in 0..MaxClock /\ tears \in 0..MaxTears
      /\ StoreInv(Pruned.lines, Pruned.terminated, Pruned.index)
      /\ PairsInv(Pruned.lines, Pruned.terminated, Pruned.index, StillHeard, tears)
      /\ HeardInv(StillHeard)
  BY SnapshotFinds DEF Found, WindowInv, CountsHeard, AggregatorTypeOK
<1>3. ~Counts'
  BY <1>1 DEF Counts
<1>4. QED
  BY <1>1, <1>2, <1>3, InvAgain

LEMMA CutKeeps ==
  ASSUME WindowInv, NEW e \in Events, NEW cut \in Cuts, NEW dies \in BOOLEAN,
         SnapshotCut(e, cut, dies)
  PROVE  WindowInv'
<1>1. PICK f, closed, ix, hd :
        /\ f = Pruned.lines /\ closed = Pruned.terminated
        /\ ix = Index(Pruned.index, Pruned.lines) /\ hd = StillHeard
  OBVIOUS
<1>2. PICK r : r = [key |-> e, at |-> clock]
  OBVIOUS
<1>3. /\ e \notin ix /\ (cut = "whole" => dies)
      /\ lines' = CASE cut = "nothing" -> f
                    [] cut = "partial" -> AppendLine(f, closed, Torn)
                    [] OTHER           -> AppendLine(f, closed, r)
      /\ terminated' = CASE cut = "nothing" -> closed
                         [] cut = "whole"   -> TRUE
                         [] OTHER           -> FALSE
      /\ index' = IF dies THEN Unset ELSE ix
      /\ snap' = Unset /\ clock' = clock
      /\ heard' = IF cut \in {"unterminated", "whole"} THEN Received(e) ELSE hd
      /\ tears' = IF cut \in {"partial", "unterminated"} THEN tears + 1 ELSE tears
      /\ tears' <= MaxTears
  BY <1>1, <1>2 DEF SnapshotCut
<1>4. /\ tears \in Nat /\ clock \in 0..MaxClock /\ ix \in SUBSET Events
      /\ StoreInv(f, closed, ix) /\ HeardInv(hd) /\ PairsInv(f, closed, ix, hd, tears)
      /\ Received(e) = Adds(hd, e, clock)
  BY <1>1, SnapshotFinds DEF Found
<1>5. /\ StoreInv(AppendLine(f, closed, r), TRUE, ix \cup {e})
      /\ StoreInv(AppendLine(f, closed, r), FALSE, ix)
      /\ StoreInv(AppendLine(f, closed, Torn), FALSE, ix)
  BY <1>2, <1>3, <1>4, AppendStores
<1>6. /\ PairsInv(AppendLine(f, closed, r), TRUE, ix \cup {e}, Adds(hd, e, clock), tears)
      /\ PairsInv(AppendLine(f, closed, r), FALSE, ix, Adds(hd, e, clock), tears + 1)
      /\ PairsInv(AppendLine(f, closed, Torn), FALSE, ix, hd, tears + 1)
  BY <1>2, <1>3, <1>4, AppendPairs
<1>7. HeardInv(Adds(hd, e, clock))
  BY <1>4, AddsKeeps
(* With the index of a process that goes on - the record of one that died  *)
(* of a whole write is in no index - and with that of one that died.       *)
<1>8. \E x \in {ix, ix \cup {e}} :
        /\ StoreInv(lines', terminated', x) /\ HeardInv(heard')
        /\ PairsInv(lines', terminated', x, heard', tears')
        /\ tears' \in Nat /\ (dies \/ x = ix)
  <2>1. CASE cut = "nothing"
    <3>1. lines' = f /\ terminated' = closed /\ heard' = hd /\ tears' = tears
      BY <1>3, <2>1
    <3>2. QED
      BY <1>4, <3>1
  <2>2. CASE cut = "partial"
    <3>1. /\ lines' = AppendLine(f, closed, Torn) /\ terminated' = FALSE
          /\ heard' = hd /\ tears' = tears + 1
      BY <1>3, <2>2
    <3>2. StoreInv(lines', terminated', ix)
      BY <1>5, <3>1 DEF StoreInv
    <3>3. PairsInv(lines', terminated', ix, heard', tears')
      BY <1>6, <3>1 DEF PairsInv, AtRisk
    <3>4. QED
      BY <1>4, <3>1, <3>2, <3>3
  <2>3. CASE cut = "unterminated"
    <3>1. /\ lines' = AppendLine(f, closed, r) /\ terminated' = FALSE
          /\ heard' = Adds(hd, e, clock) /\ tears' = tears + 1
      BY <1>3, <1>4, <2>3
    <3>2. StoreInv(lines', terminated', ix)
      BY <1>5, <3>1 DEF StoreInv
    <3>3. PairsInv(lines', terminated', ix, heard', tears')
      BY <1>6, <3>1 DEF PairsInv, AtRisk
    <3>4. QED
      BY <1>4, <1>7, <3>1, <3>2, <3>3
  <2>4. CASE cut = "whole"
    <3>1. /\ lines' = AppendLine(f, closed, r) /\ terminated' = TRUE
          /\ heard' = Adds(hd, e, clock) /\ tears' = tears /\ dies
      BY <1>3, <1>4, <2>4
    <3>2. StoreInv(lines', terminated', ix \cup {e})
      BY <1>5, <3>1 DEF StoreInv
    <3>3. PairsInv(lines', terminated', ix \cup {e}, heard', tears')
      BY <1>6, <3>1 DEF PairsInv, AtRisk
    <3>4. QED
      BY <1>4, <1>7, <3>1, <3>2, <3>3
  <2>5. QED
    BY <2>1, <2>2, <2>3, <2>4 DEF Cuts
<1>9. StoreInv(lines', terminated', index') /\ PairsInv(lines', terminated', index', heard', tears')
  <2>1. PICK x \in {ix, ix \cup {e}} :
          /\ StoreInv(lines', terminated', x)
          /\ PairsInv(lines', terminated', x, heard', tears')
          /\ tears' \in Nat /\ (dies \/ x = ix)
    BY <1>8
  <2>2. CASE dies
    <3>1. index' = Unset
      BY <1>3, <2>2
    <3>2. QED
      BY <2>1, <3>1, IndexKeeps
  <2>3. CASE ~dies
    <3>1. index' = x
      BY <1>3, <2>1, <2>3
    <3>2. QED
      BY <2>1, <3>1
  <2>4. QED
    BY <2>2, <2>3
<1>10. clock' \in 0..MaxClock /\ tears' \in 0..MaxTears /\ HeardInv(heard')
  BY <1>3, <1>4, <1>8, AggregatorConstants
<1>11. ~Counts'
  BY <1>3 DEF Counts
<1>12. QED
  BY <1>9, <1>10, <1>11, InvAgain

(* A record that is counted twice is the one that ended without "\n".      *)
LEMMA CountedTwice ==
  ASSUME NEW f, NEW closed, NEW ix, NEW hd, Found(f, closed, ix, hd), tears \in Nat,
         NEW e \in Events, e \notin ix, e \in KeysOf(f)
  PROVE  Cardinality(Unpaired(ix, f, hd)) + 2 <= 2 * tears
<1>1. /\ f \in Seq(Line) /\ closed \in BOOLEAN /\ ix # Unset
      /\ \A i \in DOMAIN f : f[i] \in Records /\ (closed \/ i # Len(f)) => f[i].key \in ix
  BY RecordsAreNotTorn DEF Found, StoreInv
<1>2. PICK i \in DOMAIN f : f[i] \in Records /\ f[i].key = e
  BY <1>1, KeysAre
<1>3. ~closed /\ i = Len(f)
  BY <1>1, <1>2
<1>4. f[Len(f)] # Torn
  BY <1>2, <1>3, RecordsAreNotTorn
<1>5. AtRisk(f, closed) = 2
  BY <1>3, <1>4 DEF AtRisk
<1>6. QED
  BY <1>5 DEF Found, PairsInv

(* What a snapshot counts from: what is kept and the record it wrote.      *)
Considered(ix, e) == IF e \in ix THEN Kept ELSE Append(Kept, [key |-> e, at |-> clock])

(* What it counts, against the occurrences it is heard with.               *)
LEMMA SnapshotCounts ==
  ASSUME NEW f, NEW closed, NEW ix, NEW hd, Found(f, closed, ix, hd), tears \in Nat,
         NEW e \in Events, clock \in 0..MaxClock, NEW W \in SUBSET Records, NEW c,
         c = Considered(ix, e)
  PROVE  /\ c \in Seq(Records)
         /\ Cardinality(Places(c, W)) <= Cardinality(Adds(hd, e, clock) \cap W) + 2 * tears
         /\ Cardinality(Adds(hd, e, clock) \cap W) <= Cardinality(Places(c, W)) + 2 * tears
<1>1. PICK r : r = [key |-> e, at |-> clock]
  OBVIOUS
<1>2. r \in Records /\ r.key = e
  BY <1>1, RecordIs
<1>3. /\ ix \in SUBSET Events /\ StoreInv(f, closed, ix) /\ HeardInv(hd)
      /\ IsFiniteSet(Unpaired(ix, f, hd))
      /\ Kept \in Seq(Records) /\ Distinct(Kept) /\ Range(Kept) = Range(f) \cap Records
      /\ f \in Seq(Line)
  BY DEF Found, PairsInv, StoreInv
<1>4. PICK kept : kept = Kept
  OBVIOUS
<1>5. /\ kept \in Seq(Records) /\ Distinct(kept) /\ Range(kept) = Range(f) \cap Records
      /\ DOMAIN kept = 1..Len(kept) /\ Len(kept) \in Nat
  BY <1>3, <1>4
<1>6. PICK d \in Nat : d = Cardinality(Unpaired(ix, f, hd)) /\ d <= 2 * tears
  <2>1. Cardinality(Unpaired(ix, f, hd)) \in Nat
    BY <1>3, FS_CardinalityType
  <2>2. Cardinality(Unpaired(ix, f, hd)) + AtRisk(f, closed) <= 2 * tears
    BY DEF Found, PairsInv
  <2>3. Cardinality(Unpaired(ix, f, hd)) <= 2 * tears
    BY <2>1, <2>2 DEF AtRisk
  <2>4. QED
    BY <2>1, <2>3
<1>7. PICK exact : exact = Cardinality(Adds(hd, e, clock) \cap W)
  OBVIOUS
<1>8. PICK P : P = Places(c, W) /\ P = {s \in 1..Len(c) : c[s] \in W}
  BY DEF Places
<1>9. exact \in Nat
  <2>1. IsFiniteSet(Adds(hd, e, clock))
    BY <1>3, AddsKeeps DEF HeardInv
  <2>2. Adds(hd, e, clock) \cap W \in SUBSET Adds(hd, e, clock)
    OBVIOUS
  <2>3. IsFiniteSet(Adds(hd, e, clock) \cap W)
    BY <2>1, <2>2, FS_Subset
  <2>4. QED
    BY <1>7, <2>3, FS_CardinalityType
<1>10. /\ c \in Seq(Records) /\ DOMAIN c = 1..Len(c)
       /\ Range(f) \cap Records \subseteq Range(c) /\ (e \in ix \/ r \in Range(c))
  <2>1. CASE e \in ix
    <3>1. c = kept
      BY <1>4, <2>1 DEF Considered
    <3>2. QED
      BY <1>5, <2>1, <3>1
  <2>2. CASE e \notin ix
    <3>1. c = Append(kept, r)
      BY <1>1, <1>4, <2>2 DEF Considered
    <3>2. /\ c \in Seq(Records) /\ DOMAIN c = 1..Len(c) /\ Len(c) = Len(kept) + 1
          /\ c[Len(kept) + 1] = r /\ \A i \in 1..Len(kept) : c[i] = kept[i]
      <4>1. r \in Records /\ kept \in Seq(Records)
        BY <1>2, <1>5
      <4>2. QED
        BY ONLY <3>1, <4>1
    <3>3. Len(kept) + 1 \in DOMAIN c /\ \A i \in 1..Len(kept) : i \in DOMAIN c
      BY <1>5, <3>2
    <3>4. r \in Range(c) /\ Range(kept) \subseteq Range(c)
      BY <1>5, <3>2, <3>3 DEF Range
    <3>5. QED
      BY <1>5, <3>2, <3>4
  <2>3. QED
    BY <2>1, <2>2
<1>11. PICK n \in Nat : n = Cardinality(P)
  <2>1. Len(c) \in Nat /\ P \in SUBSET (1..Len(c))
    BY <1>8, <1>10
  <2>2. IsFiniteSet(1..Len(c))
    BY <2>1, FS_Interval
  <2>3. IsFiniteSet(P)
    BY <2>1, <2>2, FS_Subset
  <2>4. QED
    BY <2>3, FS_CardinalityType
<1>12. exact <= n + 2 * tears
  <2>1. exact <= n + d
    <3>1. e \in ix \/ [key |-> e, at |-> clock] \in Range(c)
      BY <1>1, <1>10
    <3>2. Cardinality(Adds(hd, e, clock) \cap W)
            <= Cardinality(Places(c, W)) + Cardinality(Unpaired(ix, f, hd))
      BY <1>3, <1>10, <3>1, HeardCounted
    <3>3. QED
      BY <1>6, <1>7, <1>8, <1>11, <3>2
  <2>2. QED
    BY ONLY <1>6, <1>9, <1>11, <2>1, tears \in Nat
<1>13. n <= exact + 2 * tears
  <2>1. \A s \in 1..Len(kept) : kept[s] \in Range(f) /\ kept[s] \in Records
    BY <1>5 DEF Range
  <2>2. CASE e \in ix
    <3>1. c = kept
      BY <1>4, <2>2 DEF Considered
    <3>2. n <= exact + d
      BY <1>3, <1>5, <1>6, <1>7, <1>8, <1>11, <2>1, <3>1, CountedHeard
    <3>3. QED
      BY ONLY <1>6, <1>9, <1>11, <3>2, tears \in Nat
  <2>3. ASSUME e \notin ix
        PROVE  /\ Len(c) = Len(kept) + 1 /\ c[Len(kept) + 1] = r
               /\ \A i \in 1..Len(kept) : c[i] = kept[i]
    <3>1. c = Append(kept, r)
      BY <1>1, <1>4, <2>3 DEF Considered
    <3>2. QED
      BY <1>5, <3>1
  <2>4. CASE e \notin ix /\ e \notin KeysOf(f)
    <3>1. /\ Len(c) = Len(kept) + 1 /\ c[Len(kept) + 1] = r
          /\ \A i \in 1..Len(kept) : c[i] = kept[i]
      BY <2>3, <2>4
    <3>2. \A s \in 1..Len(c) : s \in 1..Len(kept) \/ s = Len(kept) + 1
      BY <1>5, <3>1
    <3>3. \A s \in 1..Len(c) : c[s] \in Range(f) \/ (c[s] = r /\ e \notin KeysOf(f))
      BY <2>1, <2>4, <3>1, <3>2
    <3>4. \A s \in 1..Len(kept) : kept[s].key # e
      BY <1>3, <2>1, <2>4, KeysAre
    <3>5. Distinct(c)
      <4>1. ASSUME NEW i \in 1..Len(c), NEW j \in 1..Len(c), c[i].key = c[j].key
            PROVE  i = j
        <5>1. CASE i \in 1..Len(kept) /\ j \in 1..Len(kept)
          BY <1>5, <2>1, <3>1, <4>1, <5>1 DEF Distinct
        <5>2. CASE ~(i \in 1..Len(kept) /\ j \in 1..Len(kept))
          BY <1>2, <3>1, <3>2, <3>4, <4>1, <5>2
        <5>3. QED
          BY <5>1, <5>2
      <4>2. QED
        BY <1>10, <4>1 DEF Distinct
    <3>6. n <= exact + d
      BY <1>1, <1>3, <1>6, <1>7, <1>8, <1>10, <1>11, <3>3, <3>5, CountedHeard
    <3>7. QED
      BY ONLY <1>6, <1>9, <1>11, <3>6, tears \in Nat
  <2>5. CASE e \notin ix /\ e \in KeysOf(f)
    <3>1. d + 2 <= 2 * tears
      BY <1>6, <2>5, CountedTwice
    <3>2. PICK Q : Q = Places(kept, W) /\ Q = {s \in 1..Len(kept) : kept[s] \in W}
      BY DEF Places
    <3>3. Cardinality(Q) <= exact + d
      BY <1>3, <1>5, <1>6, <1>7, <2>1, <3>2, CountedHeard
    <3>4. P \subseteq Q \cup {Len(kept) + 1, Len(kept) + 1}
      <4>1. /\ Len(c) = Len(kept) + 1 /\ \A i \in 1..Len(kept) : c[i] = kept[i]
        BY <2>3, <2>5
      <4>2. \A s \in 1..Len(c) : s \in 1..Len(kept) \/ s = Len(kept) + 1
        BY <1>5, <4>1
      <4>3. QED
        BY <1>8, <3>2, <4>1, <4>2
    <3>5. IsFiniteSet(Q)
      <4>1. IsFiniteSet(1..Len(kept)) /\ Q \in SUBSET (1..Len(kept))
        BY <1>5, <3>2, FS_Interval
      <4>2. QED
        BY <4>1, FS_Subset
    <3>6. Cardinality(P) <= Cardinality(Q) + 1 /\ Cardinality(Q) \in Nat
      BY <3>4, <3>5, TwoMore
    <3>7. QED
      BY ONLY <1>6, <1>9, <1>11, <3>1, <3>3, <3>6, tears \in Nat
  <2>6. QED
    BY <2>2, <2>4, <2>5
<1>14. QED
  BY <1>7, <1>8, <1>10, <1>11, <1>12, <1>13

LEMMA SnapshotKeeps ==
  ASSUME WindowInv, NEW e \in Events, Snapshot(e)
  PROVE  WindowInv'
<1>1. PICK f, closed, ix, hd :
        /\ f = Pruned.lines /\ closed = Pruned.terminated
        /\ ix = Index(Pruned.index, Pruned.lines) /\ hd = StillHeard
  OBVIOUS
<1>2. PICK r : r = [key |-> e, at |-> clock]
  OBVIOUS
<1>3. PICK c : c = IF e \in ix THEN Kept ELSE Append(Kept, r)
  OBVIOUS
<1>4. PICK b : b = BucketOf[e]
  OBVIOUS
<1>5. /\ lines' = IF e \in ix THEN f ELSE AppendLine(f, closed, r)
      /\ terminated' = (e \in ix => closed)
      /\ index' = ix \cup {e}
      /\ snap'.bucket = b /\ snap'.at = clock /\ snap'.count = Counted(c, b)
      /\ heard' = Received(e) /\ clock' = clock /\ tears' = tears
  BY <1>1, <1>2, <1>3, <1>4 DEF Snapshot
<1>6. /\ tears \in Nat /\ clock \in 0..MaxClock /\ Found(f, closed, ix, hd)
      /\ Received(e) = Adds(hd, e, clock)
  BY <1>1, SnapshotFinds
<1>7. /\ ix \in SUBSET Events
      /\ StoreInv(f, closed, ix) /\ HeardInv(hd) /\ PairsInv(f, closed, ix, hd, tears)
      /\ closed \in BOOLEAN
  BY <1>6 DEF Found, StoreInv
<1>8. HeardInv(heard')
  <2>1. HeardInv(Adds(hd, e, clock))
    BY <1>6, <1>7, AddsKeeps
  <2>2. QED
    BY <1>5, <1>6, <2>1
<1>9. StoreInv(lines', terminated', index') /\ PairsInv(lines', terminated', index', heard', tears')
  <2>1. CASE e \in ix
    <3>1. lines' = f /\ terminated' = closed /\ index' = ix
      BY <1>5, <1>7, <2>1
    <3>2. Unpaired(ix, f, Adds(hd, e, clock)) \subseteq Unpaired(ix, f, hd)
      BY <1>6, <1>7, <2>1, ReplayUnpairs
    <3>3. AtRisk(f, closed) <= AtRisk(f, closed)
      BY RiskIs
    <3>4. PairsInv(f, closed, ix, Adds(hd, e, clock), tears)
      BY <1>6, <1>7, <3>2, <3>3, PairsShrink
    <3>5. QED
      BY <1>5, <1>6, <1>7, <3>1, <3>4
  <2>2. CASE e \notin ix
    <3>1. lines' = AppendLine(f, closed, r) /\ terminated' = TRUE /\ index' = ix \cup {e}
      BY <1>5, <2>2
    <3>2. StoreInv(AppendLine(f, closed, r), TRUE, ix \cup {e})
      BY <1>2, <1>6, <1>7, <2>2, AppendStores
    <3>3. PairsInv(AppendLine(f, closed, r), TRUE, ix \cup {e}, Adds(hd, e, clock), tears)
      BY <1>2, <1>6, <1>7, <2>2, AppendPairs
    <3>4. StoreInv(lines', terminated', index')
      BY <3>1, <3>2 DEF StoreInv
    <3>5. PairsInv(lines', terminated', index', heard', tears')
      BY <1>5, <1>6, <3>1, <3>3 DEF PairsInv, AtRisk
    <3>6. QED
      BY <3>4, <3>5
  <2>3. QED
    BY <2>1, <2>2
<1>10. PICK W : W = {q \in Records : BucketOf[q.key] = b /\ Countable(q.at)}
  OBVIOUS
<1>11. PICK n, exact : /\ n = Cardinality(Places(c, W))
                       /\ exact = Cardinality(Adds(hd, e, clock) \cap W)
  OBVIOUS
<1>12. c \in Seq(Records) /\ n <= exact + 2 * tears /\ exact <= n + 2 * tears
  <2>1. W \in SUBSET Records
    BY <1>10
  <2>2. c = Considered(ix, e)
    BY <1>2, <1>3 DEF Considered
  <2>3. QED
    <3>1. /\ c \in Seq(Records)
          /\ Cardinality(Places(c, W))
               <= Cardinality(Adds(hd, e, clock) \cap W) + 2 * tears
          /\ Cardinality(Adds(hd, e, clock) \cap W)
               <= Cardinality(Places(c, W)) + 2 * tears
      BY ONLY <1>6, <2>1, <2>2, SnapshotCounts
    <3>2. QED
      BY <1>11, <3>1
<1>13. snap'.count = n
  <2>1. \A s \in 1..Len(c) : c[s] \in Records
    BY <1>12
  <2>2. Places(c, W)
          = {s \in 1..Len(c) : BucketOf[c[s].key] = b /\ Countable(c[s].at)}
    BY <1>10, <2>1 DEF Places
  <2>3. QED
    BY <1>5, <1>11, <2>2 DEF Counted
<1>14. Exact' = exact
  <2>1. Adds(hd, e, clock) \subseteq Records /\ heard' = Adds(hd, e, clock)
    BY <1>5, <1>6, <1>8 DEF HeardInv
  <2>2. {h \in heard' : /\ BucketOf[h.key] = snap'.bucket
                        /\ snap'.at - Window <= h.at /\ h.at <= snap'.at}
          = Adds(hd, e, clock) \cap W
    BY <1>5, <1>10, <2>1 DEF Countable
  <2>3. QED
    BY <1>11, <2>2 DEF Exact
<1>15. clock' \in 0..MaxClock /\ tears' \in 0..MaxTears
  BY <1>5 DEF WindowInv, CountsHeard, AggregatorTypeOK
<1>16. snap'.count <= Exact' + 2 * tears' /\ Exact' <= snap'.count + 2 * tears'
  BY <1>5, <1>12, <1>13, <1>14
<1>17. QED
  BY <1>8, <1>9, <1>15, <1>16, InvAgain

-----------------------------------------------------------------------------
(* The aggregator: its theorems *)

LEMMA WindowStarts == AggregatorInit => WindowInv
<1> SUFFICES ASSUME AggregatorInit PROVE WindowInv
  OBVIOUS
<1>1. /\ lines = <<>> /\ terminated = TRUE /\ index = Unset /\ clock \in 0..MaxClock
      /\ snap = Unset /\ heard = {} /\ tears = 0
  BY DEF AggregatorInit
<1>2. StoreInv(lines, terminated, index)
  <2>1. <<>> \in Seq(Line) /\ DOMAIN <<>> = {}
    OBVIOUS
  <2>2. Distinct(<<>>)
    BY <2>1 DEF Distinct
  <2>3. QED
    BY <1>1, <2>1, <2>2 DEF StoreInv
<1>3. HeardInv(heard)
  BY <1>1, FS_EmptySet DEF HeardInv
<1>4. Unpaired(index, lines, heard) = {}
  <2>1. Range(lines) = {}
    BY <1>1 DEF Range
  <2>2. QED
    BY <1>1, <2>1 DEF Unpaired, Known, KeysOf
<1>5. PairsInv(lines, terminated, index, heard, tears)
  <2>1. AtRisk(lines, terminated) = 0
    BY <1>1 DEF AtRisk
  <2>2. IsFiniteSet({}) /\ Cardinality({}) = 0
    BY FS_EmptySet
  <2>3. QED
    <3>1. /\ Cardinality(Unpaired(index, lines, heard)) = 0
          /\ IsFiniteSet(Unpaired(index, lines, heard))
      BY <1>4, <2>2
    <3>2. Cardinality(Unpaired(index, lines, heard)) + AtRisk(lines, terminated) <= 2 * tears
      <4>1. tears = 0
        BY <1>1
      <4>2. QED
        BY ONLY <2>1, <3>1, <4>1
    <3>3. QED
      BY ONLY <3>1, <3>2 DEF PairsInv
<1>6. AggregatorTypeOK
  BY <1>1, <1>2, <1>3, AggregatorConstants DEF AggregatorTypeOK, StoreInv, HeardInv, Line
<1>7. ~Counts
  BY <1>1 DEF Counts
<1>8. QED
  BY <1>2, <1>3, <1>5, <1>6, <1>7 DEF WindowInv, CountsHeard, MissesByTears

LEMMA WindowStepKeeps == WindowInv /\ [AggregatorNext]_aggregatorVars => WindowInv'
<1> SUFFICES ASSUME WindowInv, [AggregatorNext]_aggregatorVars PROVE WindowInv'
  OBVIOUS
<1>1. ASSUME NEW e \in Events, SnapshotPasses(e) PROVE WindowInv'
  BY <1>1, PassesKeeps
<1>2. ASSUME NEW e \in Events, Snapshot(e) PROVE WindowInv'
  BY <1>2, SnapshotKeeps
<1>3. ASSUME NEW e \in Events, NEW cut \in Cuts, NEW dies \in BOOLEAN, SnapshotCut(e, cut, dies)
      PROVE  WindowInv'
  BY <1>3, CutKeeps
<1>4. /\ StoreInv(lines, terminated, index) /\ HeardInv(heard)
      /\ PairsInv(lines, terminated, index, heard, tears)
      /\ clock \in 0..MaxClock /\ tears \in 0..MaxTears /\ tears \in Nat
  BY AggregatorConstants DEF WindowInv, CountsHeard, AggregatorTypeOK
<1>5. CASE Restart
  <2>1. /\ lines' = lines /\ terminated' = terminated /\ index' = Unset /\ heard' = heard
        /\ tears' = tears /\ clock' = clock /\ snap' = Unset
    BY <1>5 DEF Restart
  <2>2. StoreInv(lines, terminated, Unset) /\ PairsInv(lines, terminated, Unset, heard, tears)
    BY <1>4, IndexKeeps
  <2>3. ~Counts'
    BY <2>1 DEF Counts
  <2>4. QED
    BY <1>4, <2>1, <2>2, <2>3, InvAgain
<1>6. ASSUME NEW t \in 0..MaxClock, ClockReads(t) PROVE WindowInv'
  <2>1. /\ lines' = lines /\ terminated' = terminated /\ index' = index /\ heard' = heard
        /\ tears' = tears /\ clock' = t /\ snap' = Unset
    BY <1>6 DEF ClockReads, store
  <2>2. ~Counts'
    BY <2>1 DEF Counts
  <2>3. QED
    BY <1>4, <1>6, <2>1, <2>2, InvAgain
<1>7. CASE UNCHANGED aggregatorVars
  <2>1. /\ lines' = lines /\ terminated' = terminated /\ index' = index /\ heard' = heard
        /\ tears' = tears /\ clock' = clock /\ snap' = snap
    BY <1>7 DEF aggregatorVars, store
  <2>2. Counts' = Counts /\ Exact' = Exact
    BY <2>1 DEF Counts, Exact
  <2>3. Counts => snap.count <= Exact + 2 * tears /\ Exact <= snap.count + 2 * tears
    BY DEF WindowInv, CountsHeard, MissesByTears
  <2>4. QED
    BY <1>4, <2>1, <2>2, <2>3, InvAgain
<1>8. QED
  BY <1>1, <1>2, <1>3, <1>5, <1>6, <1>7 DEF AggregatorNext

LEMMA WindowInvariant == AggregatorSpec => []WindowInv
BY WindowStarts, WindowStepKeeps, PTL DEF AggregatorSpec

(* A snapshot never counts an event twice, or one that did not happen in   *)
(* the window, but for the two each torn append of the log can cost        *)
(* (ThresholdAggregator.snapshot over DurableQueue.enqueue): for every     *)
(* window, clock and number of events and of torn appends.                 *)
THEOREM CountsOnlyHeard == AggregatorSpec => []CountsHeard
<1>1. WindowInv => CountsHeard
  BY DEF WindowInv
<1>2. QED
  BY <1>1, WindowInvariant, PTL

(* Nor does it miss an occurrence of the window, but for the two each torn *)
(* append can cost.                                                        *)
THEOREM MissesOnlyTorn == AggregatorSpec => []MissesByTears
<1>1. WindowInv => MissesByTears
  BY DEF WindowInv
<1>2. QED
  BY <1>1, WindowInvariant, PTL
=============================================================================
