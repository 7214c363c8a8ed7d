--------------------------- MODULE DurableQueueMC ---------------------------
(* DurableQueue's instance for TLC.  No definition tells one key from      *)
(* another and no property of the run is a liveness one, so permuting the  *)
(* keys is sound.                                                          *)
EXTENDS DurableQueue, TLC

KeySymmetry == Permutations(Keys)
=============================================================================
