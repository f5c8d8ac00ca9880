--------------------------- MODULE MCPlanHandoff ---------------------------
(* Small instances of PlanHandoff for TLC. *)
EXTENDS PlanHandoff

\* Every compare-and-set PlanHandoff asks for.
MCMoves ==
    { [to |-> "running",  expected |-> {"waiting", "paused"}],
      [to |-> "paused",   expected |-> {"running"}],
      [to |-> "finished", expected |-> {"running"}],
      [to |-> "finished", expected |-> {"waiting", "running", "paused"}] }

MCRankMoves ==
    { [to |-> "running", expected |-> {"launching"}],
      [to |-> "stopped", expected |-> ActiveRankStatuses],
      [to |-> "failed",  expected |-> ActiveRankStatuses] }
=============================================================================
