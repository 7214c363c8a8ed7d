----------------------- MODULE ThresholdAggregatorMC -----------------------
(* Two jams, one low-water reading and an event that counts for nothing.   *)
EXTENDS ThresholdAggregator, TLC

CONSTANTS jam, low, e1, e2, e3, e4

MCEvents == {e1, e2, e3, e4}

MCBucketOf == (e1 :> jam) @@ (e2 :> jam) @@ (e3 :> low) @@ (e4 :> NoBucket)
=============================================================================
