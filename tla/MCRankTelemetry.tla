--------------------------- MODULE MCRankTelemetry ---------------------------
(* A small instance for TLC.  Batches of two ranks in both orders, for one   *)
(* job and for another, and one rank twice in a list.  Two samples of a rank *)
(* both jobs ask for, stamped with one job and the other, beside an earlier  *)
(* sample of a GPU nobody owned; a flush that repeats it never lands.        *)
EXTENDS RankTelemetry

CONSTANTS j1, j2, u1, u2

MCRow(j) == [job_id |-> j, plan_id |-> NULL, status |-> "launching", reason_code |-> NULL]
MCEntry(r, j) == [rank |-> r, row |-> MCRow(j)]

MCLists ==
    { <<MCEntry(1, j1), MCEntry(2, j1)>>, <<MCEntry(2, j1), MCEntry(1, j1)>>,
      <<MCEntry(2, j2), MCEntry(3, j2)>>, <<MCEntry(3, j2), MCEntry(1, j2), MCEntry(3, j2)>> }

MCRankMoves == { [to |-> "stopped", expected |-> {"launching", "running"}] }

MCUserOf == [j \in Jobs |-> IF j = j1 THEN u1 ELSE u2]

MCSample(t, j, r, role) == [ts |-> t, job_id |-> j, rank_id |-> r, role |-> role]

MCMetricOf == [m \in Metrics |->
    CASE m = 1 -> MCSample(2, j1, 2, "prefill")
      [] m = 2 -> MCSample(1, j2, 2, "decode")
      [] m = 3 -> MCSample(2, NULL, NULL, NULL)]

MCFlushes == {{1, 2}, {2, 3}}
=============================================================================
