---------------------------- MODULE RankTelemetry ----------------------------
(***************************************************************************)
(* The collector's samples beside the launch_ranks transactions they       *)
(* describe.  A GPU is scraped for a rank whose transaction is still open, *)
(* or will roll back, and Koi reads in between.                            *)
(***************************************************************************)
EXTENDS RankTxn, Telemetry

RankTelemetryTypeOK == TxnTypeOK /\ gpu_metrics \subseteq Metrics

RankTelemetryInit == TxnInit /\ gpu_metrics = Earlier

RankTelemetryNext ==
    \/ Next /\ UNCHANGED gpu_metrics
    \/ \E batch \in Flushes : PutMany(batch) /\ UNCHANGED vars

RankTelemetrySpec ==
    RankTelemetryInit /\ [][RankTelemetryNext]_<<vars, gpu_metrics>> /\ Fairness
=============================================================================
