------------------------------ MODULE Telemetry ------------------------------
(***************************************************************************)
(* The gpu_metrics table and the operations of clients/gpu_metric_store.py *)
(* beside the jobs and ranks tables.  The collector builds a sample when   *)
(* it scrapes a GPU and stores it with its batch some time later; job_id   *)
(* and rank_id are what it believes then, not foreign keys.  Koi's reads   *)
(* join the samples with the ranks and jobs committed at the time of the   *)
(* read.                                                                   *)
(*                                                                         *)
(* Of a sample the model keeps what the reads select and order by; its     *)
(* metric values are payload.                                              *)
(***************************************************************************)
EXTENDS JobStore

CONSTANTS
    Users,
    UserOf,      \* user_id of each job
    Metrics,     \* metric ids
    MetricOf,    \* the sample each id was minted for
    Flushes,     \* the batches of put_many
    Earlier,     \* the samples already stored at the start
    Limits,      \* the limits callers pass
    Times        \* the window bounds callers pass

\* NULL for a GPU no worker owns, and for what the collector cannot tell.
GpuMetric == [ ts : Nat, job_id : Jobs \cup {NULL}, rank_id : Ranks \cup {NULL},
               role : {"prefill", "decode", NULL} ]

ASSUME SamplesAreMetrics ==
    /\ UserOf \in [Jobs -> Users]
    /\ MetricOf \in [Metrics -> GpuMetric]
    /\ Flushes \subseteq (SUBSET Metrics) \ {{}} /\ Earlier \subseteq Metrics
    /\ Limits \subseteq Nat /\ Times \subseteq Nat

ASSUME BatchesAreFinite ==
    IsFiniteSet(Earlier) /\ \A batch \in Flushes : IsFiniteSet(batch)

VARIABLE gpu_metrics   \* ids of the rows of the table

telemetryVars == <<jobVars, gpu_metrics>>

TelemetryInit == JobInit /\ gpu_metrics = Earlier

-----------------------------------------------------------------------------
(* Writes *)

\* put_many (put: of one sample): INSERTs in one transaction.  A sample that
\* is there already, as in a flush tried again, fails the batch whole.
PutMany(batch) ==
    /\ batch \cap gpu_metrics = {}
    /\ gpu_metrics' = gpu_metrics \cup batch

-----------------------------------------------------------------------------
(* Reads by the columns of the sample *)

JobSamples(j) == {m \in gpu_metrics : MetricOf[m].job_id = j}

\* ORDER BY ts DESC LIMIT limit: the answers there can be, for among samples
\* of one stamp nothing says which are kept.
Newest(rows, limit) ==
    {kept \in SUBSET rows :
        /\ Cardinality(kept) = IF limit < Cardinality(rows) THEN limit ELSE Cardinality(rows)
        /\ \A m \in kept, n \in rows \ kept : MetricOf[n].ts <= MetricOf[m].ts}

Latest(limit) == Newest(gpu_metrics, limit)

Recent(j, limit) == Newest(JobSamples(j), limit)

RowsForRank(j, r, limit) == Newest({m \in JobSamples(j) : MetricOf[m].rank_id = r}, limit)

RowsForRole(j, role, limit) == Newest({m \in JobSamples(j) : MetricOf[m].role = role}, limit)

RowsInWindow(j, start, end) == {m \in JobSamples(j) : MetricOf[m].ts \in start..end}

-----------------------------------------------------------------------------
(* Koi's reads *)

\* The inner joins: the sample's rank is committed and of the sample's job.
OfItsRank(m) ==
    LET r == MetricOf[m].rank_id IN
    r # NULL /\ ranks[r] # NULL /\ ranks[r].job_id = MetricOf[m].job_id

RowsForJobWindow(u, j, start, end) ==
    IF UserOf[j] # u \/ jobs[j] = NULL THEN {}
    ELSE {m \in RowsInWindow(j, start, end) : OfItsRank(m)}

RowsForRankWindow(u, j, r, start, end) ==
    {m \in RowsForJobWindow(u, j, start, end) : MetricOf[m].rank_id = r}

-----------------------------------------------------------------------------
\* The collector flushes while the writers of JobStore go on.
TelemetryNext ==
    \/ JobNext /\ UNCHANGED gpu_metrics
    \/ \E batch \in Flushes : PutMany(batch) /\ UNCHANGED jobVars

TelemetrySpec == TelemetryInit /\ [][TelemetryNext]_telemetryVars

-----------------------------------------------------------------------------
(* Properties *)

\* What Koi's windows show of job j, as a set of reads and samples.
Shown(j) ==
    LET u == UserOf[j]
        Windows == {w \in Times \X Times : w[1] <= w[2]}
    IN  {s \in Windows \X gpu_metrics :
            \/ s[2] \in RowsForJobWindow(u, j, s[1][1], s[1][2])
            \/ \E r \in Ranks : s[2] \in RowsForRankWindow(u, j, r, s[1][1], s[1][2])}

\* The newest samples a read of `limit` rows returns never get older.
Advances(answers, limit) ==
    \A old \in answers, new \in answers' :
        limit > 0 /\ Cardinality(old) = limit =>
            \A n \in new : \E m \in old : MetricOf[m].ts <= MetricOf[n].ts

\* Koi may rely on a window it has read: whatever ranks are launched,
\* refreshed or refused, and however late a flush comes, a sample that a
\* window of a job or of one of its ranks once held it holds for good, and no
\* read of the newest samples goes back in time.
TelemetryStays ==
    [][/\ ranks' # ranks \/ gpu_metrics' # gpu_metrics =>
             \A j \in Jobs : Shown(j) \subseteq Shown(j)'
       /\ gpu_metrics' # gpu_metrics => \A limit \in Limits :
             /\ Advances(Latest(limit), limit)
             /\ \A j \in Jobs :
                   /\ Advances(Recent(j, limit), limit)
                   /\ \A r \in Ranks : Advances(RowsForRank(j, r, limit), limit)
                   /\ \A role \in {"prefill", "decode"} :
                         Advances(RowsForRole(j, role, limit), limit)]_telemetryVars
=============================================================================
