------------------------ MODULE ModelOperator_proofs ------------------------
(***************************************************************************)
(* The executor of an operator and the grounding of what a model returns,  *)
(* for every set of calls, every list of values and every cap.             *)
(*                                                                         *)
(* OperatorInv counts the threads that run on for a closed executor and    *)
(* says that whatever is queued still has somebody waiting for it.  Every  *)
(* step of the operator keeps it, whoever composes them.                   *)
(*                                                                         *)
(* A total is a recursive function of a list: what is proved of it goes    *)
(* through its partial sums, and by the least number that would fail.      *)
(***************************************************************************)
EXTENDS ModelOperator, FiniteSetTheorems, SequenceTheorems, WellFoundedInduction, TLAPS

(* The threads of executors let go of.                                     *)
Orphans == {c \in Calls \ {worker} : future[c] = "running"}

OperatorInv ==
  /\ queue \in Seq(Calls) /\ worker \in Calls \cup {None}
  /\ future \in [Calls -> {"none", "pending", "running", "finished", "cancelled"}]
  /\ raw \in [Calls -> Ends \cup {None}]
  /\ infer \in [Calls -> {"new", "waiting", "returned", "raised"}]
  /\ closes \in Nat
  /\ worker # None => future[worker] = "running"
  /\ Cardinality(Orphans) <= closes
  /\ \A c \in Calls :
       /\ raw[c] # None <=> future[c] = "finished" /\ Waiting(c)
       /\ future[c] = "pending" => Waiting(c) /\ c \notin disturbed
       /\ Waiting(c) /\ future[c] = "cancelled" => c \in disturbed
       /\ infer[c] = "raised" => c \in disturbed
       /\ infer[c] = "new" => c \notin disturbed

-----------------------------------------------------------------------------
(* The operator *)

LEMMA OrphansFinite == IsFiniteSet(Orphans) /\ Cardinality(Orphans) \in Nat
<1>1. IsFiniteSet(Calls)
  BY OperatorConstants
<1>2. IsFiniteSet(Orphans)
  BY <1>1, FS_Subset DEF Orphans
<1>3. QED
  BY <1>2, FS_CardinalityType

(* No step but close leaves another thread behind.                         *)
LEMMA OrphansKept ==
  ASSUME OperatorInv, Orphans' \subseteq Orphans, UNCHANGED closes
  PROVE  Cardinality(Orphans') <= closes'
<1>1. Cardinality(Orphans') <= Cardinality(Orphans) /\ Cardinality(Orphans') \in Nat
  BY OrphansFinite, FS_Subset, FS_CardinalityType
<1>2. QED
  BY <1>1, OrphansFinite DEF OperatorInv

LEMMA OperatorStarts == OperatorInit => OperatorInv
<1> SUFFICES ASSUME OperatorInit
             PROVE  OperatorInv
  OBVIOUS
<1>1. Orphans = {}
  BY DEF OperatorInit, Orphans
<1>2. Cardinality(Orphans) = 0
  BY <1>1, FS_EmptySet
<1>3. QED
  BY <1>2 DEF OperatorInit, OperatorInv, Waiting

LEMMA OperatorKept == ASSUME OperatorInv, UNCHANGED operatorVars PROVE OperatorInv'
BY DEF OperatorInv, operatorVars, Orphans, Waiting

(* Frames are per call; the rest of the calls keep what they have.         *)
LEMMA InferStartKeeps ==
  ASSUME OperatorInv, NEW c \in Calls, InferStart(c), c \notin disturbed
  PROVE  OperatorInv'
<1>1. /\ ~Waiting(c) /\ future[c] \notin {"pending", "running"}
      /\ infer' = [infer EXCEPT ![c] = "waiting"]
      /\ future' = [future EXCEPT ![c] = "pending"]
      /\ queue' = Append(queue, c)
      /\ UNCHANGED <<worker, raw, closes, disturbed>>
  BY DEF InferStart
<1>2. Orphans' \subseteq Orphans
  BY <1>1 DEF Orphans, OperatorInv
<1>3. Cardinality(Orphans') <= closes'
  BY <1>1, <1>2, OrphansKept
<1>4. /\ queue' \in Seq(Calls) /\ worker' \in Calls \cup {None}
      /\ future' \in [Calls -> {"none", "pending", "running", "finished", "cancelled"}]
      /\ raw' \in [Calls -> Ends \cup {None}]
      /\ infer' \in [Calls -> {"new", "waiting", "returned", "raised"}]
      /\ closes' \in Nat
  BY <1>1 DEF OperatorInv
<1>5. worker' # None => future'[worker'] = "running"
  BY <1>1 DEF OperatorInv
<1>6. ASSUME NEW d \in Calls
      PROVE  /\ raw'[d] # None <=> future'[d] = "finished" /\ Waiting(d)'
             /\ future'[d] = "pending" => Waiting(d)' /\ d \notin disturbed'
             /\ Waiting(d)' /\ future'[d] = "cancelled" => d \in disturbed'
             /\ infer'[d] = "raised" => d \in disturbed'
             /\ infer'[d] = "new" => d \notin disturbed'
  BY <1>1 DEF OperatorInv, Waiting
<1>7. QED
  BY <1>3, <1>4, <1>5, <1>6 DEF OperatorInv

LEMMA WorkerTakesKeeps ==
  ASSUME OperatorInv, WorkerTakes
  PROVE  OperatorInv'
<1> DEFINE h == Head(queue)
<1>1. /\ worker = None /\ queue # <<>> /\ queue' = Tail(queue)
      /\ UNCHANGED <<raw, infer, closes, disturbed>>
      /\ IF future[h] = "pending"
           THEN worker' = h /\ future' = [future EXCEPT ![h] = "running"]
           ELSE UNCHANGED <<worker, future>>
  BY DEF WorkerTakes
<1>2. h \in Calls /\ queue' \in Seq(Calls)
  BY <1>1, HeadTailProperties DEF OperatorInv
<1>3. None \notin Calls
  BY OperatorConstants
<1> HIDE DEF h
<1>4. CASE future[h] = "pending"
  <2>1. worker' = h /\ future' = [future EXCEPT ![h] = "running"]
    BY <1>1, <1>4
  <2>2. Orphans' \subseteq Orphans
    BY <1>1, <1>2, <1>3, <2>1 DEF Orphans, OperatorInv
  <2>3. Cardinality(Orphans') <= closes'
    BY <1>1, <2>2, OrphansKept
  <2>4. /\ worker' \in Calls \cup {None}
        /\ future' \in [Calls -> {"none", "pending", "running", "finished", "cancelled"}]
        /\ raw' \in [Calls -> Ends \cup {None}]
        /\ infer' \in [Calls -> {"new", "waiting", "returned", "raised"}]
        /\ closes' \in Nat /\ future'[worker'] = "running"
    BY <1>1, <1>2, <2>1 DEF OperatorInv
  <2>5. ASSUME NEW d \in Calls
        PROVE  /\ raw'[d] # None <=> future'[d] = "finished" /\ Waiting(d)'
               /\ future'[d] = "pending" => Waiting(d)' /\ d \notin disturbed'
               /\ Waiting(d)' /\ future'[d] = "cancelled" => d \in disturbed'
               /\ infer'[d] = "raised" => d \in disturbed'
               /\ infer'[d] = "new" => d \notin disturbed'
    BY <1>1, <1>2, <1>4, <2>1 DEF OperatorInv, Waiting
  <2>6. QED
    BY <1>2, <2>3, <2>4, <2>5 DEF OperatorInv
<1>5. CASE future[h] # "pending"
  <2>1. UNCHANGED <<worker, future, raw, infer, closes, disturbed>>
    BY <1>1, <1>5
  <2>2. QED
    BY <1>2, <2>1 DEF OperatorInv, Orphans, Waiting
<1>6. QED
  BY <1>4, <1>5

LEMMA ExtractEndsKeeps ==
  ASSUME OperatorInv, NEW c \in Calls, NEW end \in Ends, ExtractEnds(c, end)
  PROVE  OperatorInv'
<1>1. /\ future[c] = "running"
      /\ future' = [future EXCEPT ![c] = "finished"]
      /\ raw' = [raw EXCEPT ![c] = IF Waiting(c) THEN end ELSE None]
      /\ worker' = IF worker = c THEN None ELSE worker
      /\ UNCHANGED <<queue, infer, closes, disturbed>>
  BY DEF ExtractEnds
<1>2. None \notin Calls /\ end # None
  BY OperatorConstants
<1>3. Orphans' \subseteq Orphans
  BY <1>1, <1>2 DEF Orphans, OperatorInv
<1>4. Cardinality(Orphans') <= closes'
  BY <1>1, <1>3, OrphansKept
<1>5. /\ queue' \in Seq(Calls) /\ worker' \in Calls \cup {None}
      /\ future' \in [Calls -> {"none", "pending", "running", "finished", "cancelled"}]
      /\ raw' \in [Calls -> Ends \cup {None}]
      /\ infer' \in [Calls -> {"new", "waiting", "returned", "raised"}]
      /\ closes' \in Nat
  BY <1>1 DEF OperatorInv
<1>6. worker' # None => future'[worker'] = "running"
  BY <1>1 DEF OperatorInv
<1>7. ASSUME NEW d \in Calls
      PROVE  /\ raw'[d] # None <=> future'[d] = "finished" /\ Waiting(d)'
             /\ future'[d] = "pending" => Waiting(d)' /\ d \notin disturbed'
             /\ Waiting(d)' /\ future'[d] = "cancelled" => d \in disturbed'
             /\ infer'[d] = "raised" => d \in disturbed'
             /\ infer'[d] = "new" => d \notin disturbed'
  BY <1>1, <1>2 DEF OperatorInv, Waiting
<1>8. QED
  BY <1>4, <1>5, <1>6, <1>7 DEF OperatorInv

(* The three ways infer ends.  Cancelling its future reaches a queued one. *)
LEMMA InferOverKeeps ==
  ASSUME OperatorInv, NEW c \in Calls,
         DeadlineElapses(c) \/ InferEnds(c) \/ InferCancelled(c)
  PROVE  OperatorInv' /\ infer'[c] \in {"returned", "raised"}
         /\ \A d \in Calls \ {c} : infer'[d] = infer[d]
<1>1. /\ Waiting(c) /\ raw' = [raw EXCEPT ![c] = None]
      /\ UNCHANGED <<queue, worker, closes>>
  BY DEF DeadlineElapses, InferEnds, InferCancelled
<1>2. PICK how \in {"returned", "raised"} : infer' = [infer EXCEPT ![c] = how]
  BY DEF DeadlineElapses, InferEnds, InferCancelled
<1>3. \/ future' = future /\ future[c] \in {"finished", "cancelled"}
      \/ future' = Cancelled(future, {c})
  BY DEF DeadlineElapses, InferEnds, InferCancelled
<1>4. /\ future' \in [Calls -> {"none", "pending", "running", "finished", "cancelled"}]
      /\ future'[c] # "pending"
      /\ \A d \in Calls \ {c} : future'[d] = future[d]
      /\ \A d \in Calls : future'[d] = "running" <=> future[d] = "running"
  BY <1>3 DEF Cancelled, OperatorInv
<1>5. disturbed' = disturbed \/ disturbed' = disturbed \cup {c}
  BY DEF DeadlineElapses, InferEnds, InferCancelled
<1>6. how = "raised" => c \in disturbed'
  <2>1. CASE DeadlineElapses(c)
    <3>1. infer' = [infer EXCEPT ![c] = "returned"]
      BY <2>1 DEF DeadlineElapses
    <3>2. how = "returned"
      BY <1>2, <3>1 DEF OperatorInv
    <3>3. QED
      BY <3>2
  <2>2. CASE InferEnds(c)
    <3>1. /\ infer' = [infer EXCEPT ![c] = IF Raises(c) THEN "raised" ELSE "returned"]
          /\ UNCHANGED disturbed
      BY <2>2 DEF InferEnds
    <3>2. how = "raised" => future[c] = "cancelled"
      BY <1>2, <3>1 DEF OperatorInv, Raises
    <3>3. QED
      BY <1>1, <3>1, <3>2 DEF OperatorInv
  <2>3. CASE InferCancelled(c)
    BY <2>3 DEF InferCancelled
  <2>4. QED
    BY <2>1, <2>2, <2>3
<1>7. Orphans' \subseteq Orphans
  BY <1>1, <1>4 DEF Orphans
<1>8. Cardinality(Orphans') <= closes'
  BY <1>1, <1>7, OrphansKept
<1>9. /\ queue' \in Seq(Calls) /\ worker' \in Calls \cup {None}
      /\ raw' \in [Calls -> Ends \cup {None}]
      /\ infer' \in [Calls -> {"new", "waiting", "returned", "raised"}]
      /\ closes' \in Nat
  BY <1>1, <1>2 DEF OperatorInv
<1>10. worker' # None => future'[worker'] = "running"
  BY <1>1, <1>4 DEF OperatorInv
<1>11. ASSUME NEW d \in Calls
       PROVE  /\ raw'[d] # None <=> future'[d] = "finished" /\ Waiting(d)'
              /\ future'[d] = "pending" => Waiting(d)' /\ d \notin disturbed'
              /\ Waiting(d)' /\ future'[d] = "cancelled" => d \in disturbed'
              /\ infer'[d] = "raised" => d \in disturbed'
              /\ infer'[d] = "new" => d \notin disturbed'
  BY <1>1, <1>2, <1>4, <1>5, <1>6 DEF OperatorInv, Waiting
<1>12. QED
  BY <1>2, <1>4, <1>8, <1>9, <1>10, <1>11 DEF OperatorInv

(* close() leaves at most one thread more behind: the executor had one.    *)
LEMMA CloseKeeps ==
  ASSUME OperatorInv, Close
  PROVE  OperatorInv'
<1> DEFINE queued == {queue[i] : i \in 1..Len(queue)}
<1>1. /\ closes' = closes + 1 /\ queue' = <<>> /\ worker' = None
      /\ future' = Cancelled(future, queued)
      /\ disturbed' = disturbed \cup {c \in queued : future[c] = "pending"}
      /\ UNCHANGED <<raw, infer>>
  BY DEF Close
<1> HIDE DEF queued
<1>2. /\ future' \in [Calls -> {"none", "pending", "running", "finished", "cancelled"}]
      /\ \A d \in Calls : future'[d] = IF d \in queued /\ future[d] = "pending"
                                       THEN "cancelled" ELSE future[d]
  BY <1>1 DEF Cancelled, OperatorInv
<1>3. Cardinality(Orphans') <= closes'
  <2>1. Orphans' \subseteq Orphans \cup {worker}
    BY <1>1, <1>2 DEF Orphans
  <2>2. /\ IsFiniteSet(Orphans \cup {worker})
        /\ Cardinality(Orphans \cup {worker}) <= Cardinality(Orphans) + 1
    BY OrphansFinite, FS_AddElement
  <2>3. Cardinality(Orphans \cup {worker}) \in Nat
    BY <2>2, FS_CardinalityType
  <2>4. Cardinality(Orphans') <= Cardinality(Orphans \cup {worker}) /\ Cardinality(Orphans') \in Nat
    BY <2>1, <2>2, FS_Subset, FS_CardinalityType
  <2>5. QED
    BY <1>1, <2>2, <2>3, <2>4, OrphansFinite DEF OperatorInv
<1>4. /\ queue' \in Seq(Calls) /\ worker' \in Calls \cup {None}
      /\ raw' \in [Calls -> Ends \cup {None}]
      /\ infer' \in [Calls -> {"new", "waiting", "returned", "raised"}]
      /\ closes' \in Nat /\ worker' = None
  BY <1>1 DEF OperatorInv
<1>5. ASSUME NEW d \in Calls
      PROVE  /\ raw'[d] # None <=> future'[d] = "finished" /\ Waiting(d)'
             /\ future'[d] = "pending" => Waiting(d)' /\ d \notin disturbed'
             /\ Waiting(d)' /\ future'[d] = "cancelled" => d \in disturbed'
             /\ infer'[d] = "raised" => d \in disturbed'
             /\ infer'[d] = "new" => d \notin disturbed'
  BY <1>1, <1>2 DEF OperatorInv, Waiting
<1>6. QED
  BY <1>2, <1>3, <1>4, <1>5 DEF OperatorInv

-----------------------------------------------------------------------------
(* Counting *)

LEMMA Least ==
  ASSUME NEW T \in SUBSET Nat, T # {}
  PROVE  \E x \in T : \A y \in T : x <= y
<1> DEFINE R == {ss \in Nat \X Nat : ss[1] < ss[2]}
<1>1. IsWellFoundedOn(R, Nat)
  BY NatLessThanWellFounded DEF OpToRel
<1>2. PICK x \in T : \A y \in T : ~(<<y, x>> \in R)
  <2> HIDE DEF R
  <2>1. QED
    BY <1>1, WFMin
<1>3. ASSUME NEW y \in T
      PROVE  x <= y
  <2>1. x \in Nat /\ y \in Nat
    OBVIOUS
  <2>2. ~(y < x)
    BY <1>2, <2>1
  <2>3. QED
    BY <2>1, <2>2
<1>4. QED
  BY <1>3

(* What holds of 0 and passes from each number to the next holds up to n.  *)
LEMMA UpTo ==
  ASSUME NEW n \in Nat, NEW S, 0 \in S, \A m \in 0..(n - 1) : m \in S => m + 1 \in S
  PROVE  \A m \in 0..n : m \in S
<1> DEFINE T == {m \in 0..n : m \notin S}
<1>1. SUFFICES ASSUME T # {}
               PROVE  FALSE
  OBVIOUS
<1>2. PICK x \in T : \A y \in T : x <= y
  <2>1. T \in SUBSET Nat
    OBVIOUS
  <2> HIDE DEF T
  <2>2. QED
    BY <1>1, <2>1, Least
<1>3. x \in 0..n /\ x \notin S /\ x # 0
  OBVIOUS
<1>4. x - 1 \in 0..(n - 1) /\ (x - 1) + 1 = x /\ ~(x <= x - 1)
  BY <1>3
<1>5. x - 1 \in S
  BY <1>2, <1>3, <1>4
<1>6. QED
  BY <1>3, <1>4, <1>5

-----------------------------------------------------------------------------
(* Grounding: the total of a list of values *)

List(a, n) ==
  /\ a = [k \in 1..n |-> a[k]]
  /\ \A k \in 1..n : LenOf(a[k]) \in Nat

(* The partial sums of a.                                                  *)
Sums(a, n, f) ==
  /\ f = [m \in 0..n |-> f[m]]
  /\ f[0] = 0
  /\ \A m \in 0..n : f[m] \in Nat
  /\ \A m \in 1..n : f[m] = f[m - 1] + LenOf(a[m])

LEMMA ListLen ==
  ASSUME NEW n \in Nat, NEW a, List(a, n)
  PROVE  Len(a) = n /\ DOMAIN a = 1..n
<1> DEFINE T == {a[k] : k \in 1..n}
<1>1. a \in [1..n -> T]
  BY DEF List
<1>2. a \in Seq(T)
  <2> HIDE DEF T
  <2>1. QED
    BY <1>1, SeqDef
<1>3. DOMAIN a = 1..n
  BY DEF List
<1>4. Len(a) \in Nat /\ DOMAIN a = 1..Len(a)
  BY <1>2, LenProperties
<1>5. QED
  BY <1>3, <1>4

LEMMA SumsExist ==
  ASSUME NEW n \in Nat, NEW a, List(a, n)
  PROVE  \E f : Sums(a, n, f)
<1> DEFINE S == {m \in 0..n : \E f : Sums(a, m, f)}
<1>1. 0 \in S
  <2> DEFINE f == [m \in 0..0 |-> 0]
  <2>1. f[0] = 0 /\ f = [m \in 0..0 |-> f[m]]
    OBVIOUS
  <2> HIDE DEF f
  <2>2. Sums(a, 0, f)
    BY <2>1 DEF Sums
  <2>3. QED
    BY <2>2
<1>2. ASSUME NEW m \in 0..(n - 1), m \in S
      PROVE  m + 1 \in S
  <2>1. PICK f : Sums(a, m, f)
    BY <1>2
  <2> DEFINE g == [l \in 0..(m + 1) |-> IF l = m + 1 THEN f[m] + LenOf(a[m + 1]) ELSE f[l]]
  <2>2. m \in Nat /\ m + 1 \in 1..n /\ LenOf(a[m + 1]) \in Nat
    BY DEF List
  <2>3. \A l \in 0..m : g[l] = f[l] /\ f[l] \in Nat
    BY <2>1, <2>2 DEF Sums
  <2>4. g[m + 1] = f[m] + LenOf(a[m + 1])
    BY <2>2
  <2>5. g = [l \in 0..(m + 1) |-> g[l]]
    OBVIOUS
  <2> HIDE DEF g
  <2>6. g[0] = 0 /\ \A l \in 0..(m + 1) : g[l] \in Nat
    BY <2>1, <2>2, <2>3, <2>4 DEF Sums
  <2>7. ASSUME NEW l \in 1..(m + 1)
        PROVE  g[l] = g[l - 1] + LenOf(a[l])
    <3>1. CASE l = m + 1
      BY <2>2, <2>3, <2>4, <3>1
    <3>2. CASE l # m + 1
      <4>1. l \in 1..m /\ l \in 0..m /\ l - 1 \in 0..m
        BY <2>2, <3>2
      <4>2. f[l] = f[l - 1] + LenOf(a[l])
        BY <2>1, <4>1 DEF Sums
      <4>3. g[l] = f[l] /\ g[l - 1] = f[l - 1]
        BY <2>3, <4>1
      <4>4. QED
        BY <4>2, <4>3
    <3>3. QED
      BY <3>1, <3>2
  <2>8. Sums(a, m + 1, g)
    BY <2>5, <2>6, <2>7 DEF Sums
  <2>9. QED
    BY <2>2, <2>8
<1>3. n \in S
  <2> HIDE DEF S
  <2>1. QED
    BY <1>1, <1>2, UpTo
<1>4. QED
  BY <1>3

(* Total is the last partial sum.                                          *)
LEMMA TotalIsSum ==
  ASSUME NEW n \in Nat, NEW a, List(a, n)
  PROVE  \E f : Sums(a, n, f) /\ Total(a) = f[n]
<1> DEFINE step(f) == [m \in 0..n |-> IF m = 0 THEN 0 ELSE f[m - 1] + LenOf(a[m])]
           sum == CHOOSE f : f = step(f)
<1>1. Total(a) = sum[n]
  <2>1. Len(a) = n
    BY ListLen
  <2>2. QED
    BY <2>1 DEF Total
<1>2. PICK g : Sums(a, n, g)
  BY SumsExist
<1>3. g = step(g)
  <2>1. ASSUME NEW m \in 0..n
        PROVE  g[m] = IF m = 0 THEN 0 ELSE g[m - 1] + LenOf(a[m])
    <3>1. CASE m = 0
      BY <1>2, <3>1 DEF Sums
    <3>2. CASE m # 0
      <4>1. m \in 1..n
        BY <3>2
      <4>2. g[m] = g[m - 1] + LenOf(a[m])
        BY <1>2, <4>1 DEF Sums
      <4>3. QED
        BY <3>2, <4>2
    <3>3. QED
      BY <3>1, <3>2
  <2>2. QED
    BY <1>2, <2>1 DEF Sums
<1>4. sum = step(sum)
  <2> HIDE DEF step
  <2>1. QED
    BY <1>3
<1> HIDE DEF sum
<1>5. /\ sum = [m \in 0..n |-> sum[m]] /\ sum[0] = 0
      /\ \A m \in 1..n : sum[m] = sum[m - 1] + LenOf(a[m])
  BY <1>4
<1>6. \A m \in 0..n : sum[m] \in Nat
  <2> DEFINE S == {m \in 0..n : sum[m] \in Nat}
  <2>1. 0 \in S
    BY <1>5
  <2>2. \A m \in 0..(n - 1) : m \in S => m + 1 \in S
    <3>1. ASSUME NEW m \in 0..(n - 1), m \in S
          PROVE  m + 1 \in S
      <4>1. m + 1 \in 1..n /\ (m + 1) - 1 = m
        OBVIOUS
      <4>2. sum[m + 1] = sum[m] + LenOf(a[m + 1]) /\ LenOf(a[m + 1]) \in Nat
        BY <1>5, <4>1 DEF List
      <4>3. sum[m] \in Nat
        BY <3>1
      <4>4. QED
        BY <4>1, <4>2, <4>3
    <3>2. QED
      BY <3>1
  <2> HIDE DEF S
  <2>3. \A m \in 0..n : m \in S
    BY <2>1, <2>2, UpTo
  <2>4. QED
    BY <2>3 DEF S
<1>7. QED
  BY <1>1, <1>5, <1>6 DEF Sums

(* No value gets longer: the total does not either.                        *)
LEMMA TotalMonotone ==
  ASSUME NEW n \in Nat, NEW a, List(a, n), NEW b, List(b, n),
         \A k \in 1..n : LenOf(a[k]) <= LenOf(b[k])
  PROVE  Total(a) <= Total(b) /\ Total(a) \in Nat /\ Total(b) \in Nat
<1>1. PICK f : Sums(a, n, f) /\ Total(a) = f[n]
  BY TotalIsSum
<1>2. PICK g : Sums(b, n, g) /\ Total(b) = g[n]
  BY TotalIsSum
<1> DEFINE S == {m \in 0..n : f[m] <= g[m]}
<1>3. 0 \in S
  BY <1>1, <1>2 DEF Sums
<1>4. ASSUME NEW m \in 0..(n - 1), m \in S
      PROVE  m + 1 \in S
  <2>1. m + 1 \in 1..n /\ (m + 1) - 1 = m /\ m \in 0..n /\ m + 1 \in 0..n
    OBVIOUS
  <2>2. f[m + 1] = f[m] + LenOf(a[m + 1]) /\ g[m + 1] = g[m] + LenOf(b[m + 1])
    BY <1>1, <1>2, <2>1 DEF Sums
  <2>3. /\ f[m] \in Nat /\ g[m] \in Nat /\ f[m] <= g[m]
        /\ LenOf(a[m + 1]) \in Nat /\ LenOf(b[m + 1]) \in Nat
        /\ LenOf(a[m + 1]) <= LenOf(b[m + 1])
    BY <1>1, <1>2, <1>4, <2>1 DEF Sums, List
  <2>4. f[m + 1] <= g[m + 1]
    BY <2>2, <2>3
  <2>5. QED
    BY <2>1, <2>4
<1>5. n \in S
  <2> HIDE DEF S
  <2>1. QED
    BY <1>3, <1>4, UpTo
<1>6. f[n] \in Nat /\ g[n] \in Nat
  BY <1>1, <1>2 DEF Sums
<1>7. QED
  BY <1>1, <1>2, <1>5, <1>6
-----------------------------------------------------------------------------
(* Grounding: the cap on the total *)

LEMMA DegradedList ==
  ASSUME NEW n \in Nat, NEW a, List(a, n), NEW keys
  PROVE  /\ List(Degrade(a, keys), n)
         /\ \A k \in 1..n : Degrade(a, keys)[k] = IF k \in keys THEN Sentinel ELSE a[k]
<1>1. DOMAIN a = 1..n
  BY ListLen
<1>2. Degrade(a, keys) = [k \in 1..n |-> IF k \in keys THEN Sentinel ELSE a[k]]
  BY <1>1 DEF Degrade
<1>3. \A k \in 1..n : Degrade(a, keys)[k] = IF k \in keys THEN Sentinel ELSE a[k]
  BY <1>2
<1>4. LenOf(Sentinel) \in Nat
  BY GroundingConstants DEF LenOf
<1>5. \A k \in 1..n : LenOf(Degrade(a, keys)[k]) \in Nat
  BY <1>3, <1>4 DEF List
<1>6. Degrade(a, keys) = [k \in 1..n |-> Degrade(a, keys)[k]]
  BY <1>2
<1>7. QED
  BY <1>3, <1>5, <1>6 DEF List

(* Degrading more of the candidates makes the total no longer.             *)
LEMMA DegradedMore ==
  ASSUME NEW n \in Nat, NEW a, List(a, n),
         NEW keys, NEW more \in SUBSET Candidates(a), keys \subseteq more
  PROVE  /\ Total(Degrade(a, more)) <= Total(Degrade(a, keys))
         /\ Total(Degrade(a, more)) \in Nat /\ Total(Degrade(a, keys)) \in Nat
<1>1. /\ List(Degrade(a, more), n) /\ List(Degrade(a, keys), n)
      /\ \A k \in 1..n : Degrade(a, more)[k] = IF k \in more THEN Sentinel ELSE a[k]
      /\ \A k \in 1..n : Degrade(a, keys)[k] = IF k \in keys THEN Sentinel ELSE a[k]
  BY DegradedList
<1>2. SentinelLen \in Nat /\ LenOf(Sentinel) = SentinelLen
  BY GroundingConstants DEF LenOf
<1>3. ASSUME NEW k \in 1..n
      PROVE  LenOf(Degrade(a, more)[k]) <= LenOf(Degrade(a, keys)[k])
  <2>1. LenOf(a[k]) \in Nat
    BY DEF List
  <2>2. k \in more => LenOf(a[k]) > SentinelLen
    BY DEF Candidates
  <2>3. QED
    BY <1>1, <1>2, <2>1, <2>2
<1>4. QED
  BY <1>1, <1>3, TotalMonotone

Earlier(a, k) == {j \in Candidates(a) : Before(a, j, k)}

Degraded(a, cap) == {k \in Candidates(a) : Total(Degrade(a, Earlier(a, k))) > cap}

(* The order in which values are degraded is linear.                       *)
LEMMA BeforeIsLinear ==
  ASSUME NEW n \in Nat, NEW a, List(a, n), NEW i \in 1..n, NEW j \in 1..n, NEW k \in 1..n
  PROVE  /\ Before(a, i, j) /\ Before(a, j, k) => Before(a, i, k)
         /\ Before(a, i, j) \/ i = j \/ Before(a, j, i)
         /\ ~Before(a, i, i)
<1>1. LenOf(a[i]) \in Nat /\ LenOf(a[j]) \in Nat /\ LenOf(a[k]) \in Nat
  BY DEF List
<1>2. QED
  BY <1>1 DEF Before

LEMMA FirstCandidate ==
  ASSUME NEW n \in Nat, NEW a, List(a, n), Candidates(a) # {}
  PROVE  \E k \in Candidates(a) : Earlier(a, k) = {}
<1>1. Candidates(a) \subseteq 1..n
  BY ListLen DEF Candidates
<1>2. IsFiniteSet(1..n)
  BY FS_Interval
<1>3. \A k \in Candidates(a) : IsFiniteSet(Earlier(a, k)) /\ Cardinality(Earlier(a, k)) \in Nat
  BY <1>1, <1>2, FS_Subset, FS_CardinalityType DEF Earlier
<1> DEFINE T == {Cardinality(Earlier(a, k)) : k \in Candidates(a)}
<1>4. T \in SUBSET Nat /\ T # {}
  BY <1>3
<1>5. PICK x \in T : \A y \in T : x <= y
  <2> HIDE DEF T
  <2>1. QED
    BY <1>4, Least
<1>6. PICK k \in Candidates(a) : x = Cardinality(Earlier(a, k))
  OBVIOUS
<1>7. ASSUME NEW j \in Earlier(a, k)
      PROVE  FALSE
  <2>1. j \in Candidates(a) /\ Before(a, j, k) /\ j \in 1..n /\ k \in 1..n
    BY <1>1 DEF Earlier
  <2>2. Earlier(a, j) \subseteq Earlier(a, k)
    BY <1>1, <2>1, BeforeIsLinear DEF Earlier
  <2>3. j \notin Earlier(a, j)
    BY <2>1, BeforeIsLinear DEF Earlier
  <2>4. Cardinality(Earlier(a, j)) < Cardinality(Earlier(a, k))
    <3>1. /\ Cardinality(Earlier(a, j)) <= Cardinality(Earlier(a, k))
          /\ Cardinality(Earlier(a, j)) = Cardinality(Earlier(a, k))
               => Earlier(a, j) = Earlier(a, k)
      BY <1>3, <2>2, FS_Subset
    <3>2. QED
      BY <1>3, <2>1, <2>3, <3>1
  <2>5. Cardinality(Earlier(a, k)) <= Cardinality(Earlier(a, j))
    BY <1>5, <1>6, <2>1
  <2>6. QED
    BY <1>3, <2>1, <2>4, <2>5
<1>8. QED
  BY <1>7

(* What the cap leaves stands when the cap is applied again, and is within *)
(* it unless nothing is left to degrade.                                   *)
LEMMA CapStands ==
  ASSUME NEW n \in Nat, NEW a, List(a, n), NEW cap \in Nat, NEW kept,
         kept = EnforceTotalCap(a, cap)
  PROVE  /\ EnforceTotalCap(kept, cap) = kept
         /\ Total(kept) <= cap \/ Candidates(kept) = {}
         /\ List(kept, n)
         /\ \A k \in 1..n : kept[k] \in {Sentinel, a[k]}
<1> DEFINE D == Degraded(a, cap)
<1>1. kept = Degrade(a, D)
  BY DEF EnforceTotalCap, Degraded, Earlier
<1>2. D \subseteq Candidates(a) /\ Candidates(a) \subseteq 1..n /\ DOMAIN a = 1..n
  BY ListLen DEF Degraded, Candidates
<1>3. \A k \in Candidates(a) : k \in D <=> Total(Degrade(a, Earlier(a, k))) > cap
  BY DEF Degraded
<1> HIDE DEF D
<1>4. List(kept, n) /\ \A k \in 1..n : kept[k] = IF k \in D THEN Sentinel ELSE a[k]
  BY <1>1, DegradedList
<1>5. Candidates(kept) = Candidates(a) \ D
  <2>1. DOMAIN kept = 1..n
    BY <1>4, ListLen
  <2>2. LenOf(Sentinel) = SentinelLen /\ ~(SentinelLen > SentinelLen)
    BY GroundingConstants DEF LenOf
  <2>3. \A k \in 1..n : LenOf(kept[k]) > SentinelLen <=> k \notin D /\ LenOf(a[k]) > SentinelLen
    BY <1>4, <2>2
  <2>4. QED
    BY <1>2, <2>1, <2>3 DEF Candidates
<1>6. ASSUME NEW j \in Candidates(a), NEW k \in D, Before(a, j, k)
      PROVE  j \in D
  <2>1. j \in 1..n /\ k \in 1..n /\ k \in Candidates(a)
    BY <1>2
  <2>2. Earlier(a, j) \subseteq Earlier(a, k) /\ Earlier(a, k) \in SUBSET Candidates(a)
    BY <1>2, <1>6, <2>1, BeforeIsLinear DEF Earlier
  <2>3. /\ Total(Degrade(a, Earlier(a, k))) <= Total(Degrade(a, Earlier(a, j)))
        /\ Total(Degrade(a, Earlier(a, k))) \in Nat /\ Total(Degrade(a, Earlier(a, j))) \in Nat
    BY <2>2, DegradedMore
  <2>4. Total(Degrade(a, Earlier(a, k))) > cap
    BY <1>3, <2>1
  <2>5. Total(Degrade(a, Earlier(a, j))) > cap
    BY <2>3, <2>4
  <2>6. QED
    BY <1>3, <2>5
<1>7. ASSUME NEW k \in Candidates(kept)
      PROVE  /\ Degrade(kept, Earlier(kept, k)) = Degrade(a, Earlier(a, k))
             /\ Total(Degrade(kept, Earlier(kept, k))) <= cap
  <2>1. k \in Candidates(a) /\ k \notin D /\ k \in 1..n
    BY <1>2, <1>5
  <2>2. ASSUME NEW j \in D
        PROVE  j \in Earlier(a, k)
    <3>1. j \in Candidates(a) /\ j \in 1..n /\ j # k
      BY <1>2, <2>1
    <3>2. ~Before(a, k, j)
      BY <1>6, <2>1
    <3>3. Before(a, j, k)
      BY <2>1, <3>1, <3>2, BeforeIsLinear
    <3>4. QED
      BY <3>1, <3>3 DEF Earlier
  <2>3. \A j \in Candidates(kept) : Before(kept, j, k) <=> Before(a, j, k)
    <3>1. \A j \in Candidates(kept) : kept[j] = a[j]
      BY <1>2, <1>4, <1>5
    <3>2. QED
      BY <3>1 DEF Before
  <2>4. Earlier(a, k) = D \cup Earlier(kept, k)
    BY <1>5, <2>2, <2>3 DEF Earlier
  <2>5. \A keys : Degrade(kept, keys) = [i \in 1..n |-> IF i \in keys THEN Sentinel ELSE kept[i]]
    BY <1>4, ListLen DEF Degrade
  <2>6. \A keys : Degrade(a, keys) = [i \in 1..n |-> IF i \in keys THEN Sentinel ELSE a[i]]
    BY <1>2 DEF Degrade
  <2>7. Degrade(kept, Earlier(kept, k)) = Degrade(a, Earlier(a, k))
    BY <1>4, <2>4, <2>5, <2>6
  <2>8. Total(Degrade(a, Earlier(a, k))) \in Nat
    BY DegradedMore DEF Earlier
  <2>9. ~(Total(Degrade(a, Earlier(a, k))) > cap)
    BY <1>3, <2>1
  <2>10. QED
    BY <2>7, <2>8, <2>9
<1>8. Degrade(kept, {}) = kept
  BY <1>4, ListLen DEF Degrade, List
<1>9. EnforceTotalCap(kept, cap) = kept
  <2>1. \A k \in Candidates(kept) : Total(Degrade(kept, Earlier(kept, k))) \in Nat
    BY <1>4, DegradedMore DEF Earlier
  <2>2. Degraded(kept, cap) = {}
    BY <1>7, <2>1 DEF Degraded
  <2>3. EnforceTotalCap(kept, cap) = Degrade(kept, Degraded(kept, cap))
    BY DEF EnforceTotalCap, Degraded, Earlier
  <2>4. QED
    BY <1>8, <2>2, <2>3
<1>10. Total(kept) <= cap \/ Candidates(kept) = {}
  <2>1. SUFFICES ASSUME Candidates(kept) # {}
                 PROVE  Total(kept) <= cap
    OBVIOUS
  <2>2. PICK k \in Candidates(kept) : Earlier(kept, k) = {}
    BY <1>4, <2>1, FirstCandidate
  <2>3. QED
    BY <1>7, <1>8, <2>2
<1>11. QED
  BY <1>4, <1>9, <1>10

-----------------------------------------------------------------------------
(* Grounding: what is grounded stays grounded *)

(* A text of some length, or none.                                         *)
IsValue(v) == v \in {Sentinel, NotText} \/ v.len \in Nat

LEMMA GroundedStands ==
  ASSUME NEW n \in Nat, NEW o, DOMAIN o = 1..n, \A k \in 1..n : IsValue(o[k]),
         NEW limits, limits.total \in Nat,
         NEW kept, kept = GroundAnchors(o, limits)
  PROVE  /\ GroundAnchors(kept, limits) = kept
         /\ Fits(kept, limits)
         /\ kept = [k \in 1..n |-> kept[k]]
         /\ \A k \in 1..n : kept[k] \in {Sentinel, o[k]}
<1> DEFINE a == [k \in 1..n |-> Grounded(o[k], limits)]
           good(v) == LenOf(v) \in Nat /\ Grounded(v, limits) = v
<1>1. good(Sentinel)
  BY GroundingConstants DEF LenOf, Grounded
<1>2. ASSUME NEW k \in 1..n
      PROVE  good(Grounded(o[k], limits)) /\ Grounded(o[k], limits) \in {Sentinel, o[k]}
  <2>1. CASE Grounded(o[k], limits) = Sentinel
    BY <1>1, <2>1
  <2>2. CASE Grounded(o[k], limits) # Sentinel
    <3>1. /\ Grounded(o[k], limits) = o[k] /\ o[k] \notin {Sentinel, NotText}
      BY <2>2 DEF Grounded
    <3>2. LenOf(o[k]) \in Nat
      BY <3>1 DEF LenOf, IsValue
    <3>3. QED
      BY <3>1, <3>2
  <2>3. QED
    BY <2>1, <2>2
<1>3. \A k \in 1..n : a[k] = Grounded(o[k], limits)
  OBVIOUS
<1>4. a = [k \in 1..n |-> a[k]]
  OBVIOUS
<1>5. kept = EnforceTotalCap(a, limits.total)
  BY DEF GroundAnchors
<1> HIDE DEF a
<1>6. List(a, n)
  BY <1>2, <1>3, <1>4 DEF List
<1>7. /\ EnforceTotalCap(kept, limits.total) = kept
      /\ Total(kept) <= limits.total \/ Candidates(kept) = {}
      /\ List(kept, n)
      /\ \A k \in 1..n : kept[k] \in {Sentinel, a[k]}
  BY <1>5, <1>6, CapStands
<1>8. \A k \in 1..n : good(kept[k]) /\ kept[k] \in {Sentinel, o[k]}
  <2> HIDE DEF good
  <2>1. QED
    BY <1>1, <1>2, <1>3, <1>7
<1>9. kept = [k \in 1..n |-> kept[k]] /\ DOMAIN kept = 1..n
  BY <1>7, ListLen DEF List
<1>10. [k \in DOMAIN kept |-> Grounded(kept[k], limits)] = kept
  BY <1>8, <1>9
<1>11. GroundAnchors(kept, limits) = kept /\ Fits(kept, limits)
  BY <1>7, <1>10 DEF GroundAnchors, Fits
<1>12. QED
  BY <1>8, <1>9, <1>11

(* Nothing but sentinels stays so, whatever the caps.                      *)
LEMMA MissingStays ==
  ASSUME NEW keys, NEW limits
  PROVE  /\ GroundAnchors(Missing(keys), limits) = Missing(keys)
         /\ Fits(Missing(keys), limits)
<1> DEFINE m == Missing(keys)
<1>1. m = [k \in keys |-> Sentinel]
  BY DEF Missing
<1>2. [k \in DOMAIN m |-> Grounded(m[k], limits)] = m
  BY <1>1 DEF Grounded
<1>3. Candidates(m) = {}
  BY <1>1, GroundingConstants DEF Candidates, LenOf
<1>4. Degrade(m, {}) = m
  BY <1>1 DEF Degrade
<1> HIDE DEF m
<1>5. EnforceTotalCap(m, limits.total) = m
  BY <1>3, <1>4 DEF EnforceTotalCap
<1>6. GroundAnchors(m, limits) = m /\ Fits(m, limits)
  BY <1>2, <1>3, <1>5 DEF GroundAnchors, Fits
<1>7. QED
  BY <1>6 DEF m
=============================================================================
