-------------------------- MODULE ClientComputeMC --------------------------
(* A job with wide caps and one with narrow ones that the device cannot    *)
(* read, and a model that returns long, short, invented, oversized and no  *)
(* values.                                                                 *)
EXTENDS ClientCompute

CONSTANTS j1, j2

Text(n, found) == [len |-> n, verbatim |-> found]

MCOutputs == {
  <<Text(4, TRUE), Text(4, TRUE), Text(1, TRUE)>>,
  <<Text(3, TRUE), Sentinel, Text(9, TRUE)>>,
  <<NotText, Text(3, FALSE), Sentinel>> }

MCLimits == [j \in {j1, j2} |->
               IF j = j1 THEN [value |-> 8, total |-> 7] ELSE [value |-> 3, total |-> 5]]
=============================================================================
