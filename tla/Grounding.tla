----------------------------- MODULE Grounding -----------------------------
(***************************************************************************)
(* convilyn_edge/clientcompute/contract.py: ground_anchors, the device's   *)
(* own check of what a local model returned.                               *)
(*                                                                         *)
(* A value is a text, of which only the length and whether some source     *)
(* holds it verbatim (whitespace collapsed) matter, the missing sentinel,  *)
(* or NotText: absent, no string, or blank once control characters are     *)
(* stripped.  Anchors are a sequence of values: keys are numbered in their *)
(* sorting order.                                                          *)
(***************************************************************************)
EXTENDS Naturals, Sequences, FiniteSets

CONSTANTS
  Sentinel,      (* missing_sentinel                                       *)
  SentinelLen,   (* its length                                             *)
  NotText,
  None           (* absent                                                 *)

ASSUME GroundingConstants == SentinelLen \in Nat /\ Sentinel # NotText

AnchorValues == [len : Nat, verbatim : BOOLEAN] \cup {Sentinel, NotText}

LenOf(value) == IF value = Sentinel THEN SentinelLen ELSE value.len

(* _clean_value and the test against the sources.                          *)
Grounded(value, limits) ==
  IF value \notin {Sentinel, NotText} /\ value.len <= limits.value /\ value.verbatim
    THEN value ELSE Sentinel

Total(anchors) ==
  LET sum[n \in 0..Len(anchors)] == IF n = 0 THEN 0 ELSE sum[n - 1] + LenOf(anchors[n])
  IN  sum[Len(anchors)]

Degrade(anchors, keys) == [k \in DOMAIN anchors |-> IF k \in keys THEN Sentinel ELSE anchors[k]]

(* Only a value longer than the sentinel gets shorter by it.               *)
Candidates(anchors) == {k \in DOMAIN anchors : LenOf(anchors[k]) > SentinelLen}

Before(anchors, j, k) ==
  \/ LenOf(anchors[j]) > LenOf(anchors[k])
  \/ LenOf(anchors[j]) = LenOf(anchors[k]) /\ j < k

(* Variant: the loop stops one value early.                                *)
EnforceTotalCapEarly(anchors, cap) ==
  LET earlier(k) == {j \in Candidates(anchors) : Before(anchors, j, k) \/ j = k}
  IN  Degrade(anchors,
        {k \in Candidates(anchors) : Total(Degrade(anchors, earlier(k))) > cap})

(* _enforce_total_cap: a value is degraded when the total is still above   *)
(* the cap with every longer one degraded (ties by key).                   *)
EnforceTotalCap(anchors, cap) ==
  LET earlier(k) == {j \in Candidates(anchors) : Before(anchors, j, k)}
  IN  Degrade(anchors,
        {k \in Candidates(anchors) : Total(Degrade(anchors, earlier(k))) > cap})

GroundAnchors(raw, limits) ==
  EnforceTotalCap([k \in DOMAIN raw |-> Grounded(raw[k], limits)], limits.total)

Missing(keys) == [k \in keys |-> Sentinel]

Fits(anchors, limits) == Total(anchors) <= limits.total \/ Candidates(anchors) = {}
=============================================================================
