--------------------------- MODULE MCRunningJobs ---------------------------
(* A small instance of RunningJobs for TLC. *)
EXTENDS RunningJobs

MCMoves ==
    { [to |-> "running",  expected |-> {"waiting", "paused"}],
      [to |-> "paused",   expected |-> {"running"}],
      [to |-> "finished", expected |-> {"waiting", "running", "paused"}] }

MCRankMoves ==
    { [to |-> "running", expected |-> {"launching"}],
      [to |-> "stopped", expected |-> {"launching", "running"}] }
=============================================================================
