--------------------------- MODULE PipelineRunMC ---------------------------
(* Pipelines for TLC: a strict gate over a router whose branches were      *)
(* built with laxer ones, one of them with a router of its own; a review   *)
(* that expires into a risky action; a review without a deadline.          *)
EXTENDS PipelineRun, TLC

CONSTANTS a, b, other

Inner == Act(Decide(New(2)), 1, FALSE)

Branch ==
  Act(Route(Review(New(1), "continue", 1), a :> Inner @@ b :> New(1), None), 0, TRUE)

MCPipelines == {
  Act(Route(Normalize(New(0)), a :> Branch @@ b :> Act(Model(New(1)), 1, FALSE), b), 0, FALSE),
  Act(Review(State(New(1)), "continue", 2), 2, FALSE),
  Act(Review(Review(New(1), "stop", 1), "escalate", None), 3, TRUE),
  Route(New(1), a :> New(1), None),
  New(1) }
=============================================================================
