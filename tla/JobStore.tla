------------------------------ MODULE JobStore ------------------------------
(***************************************************************************)
(* The jobs and ranks tables and the operations of clients/jobs.py on      *)
(* them.  Every operation is one database transaction of one statement per *)
(* row, so each is one action here.                                        *)
(*                                                                         *)
(* A call that writes nothing (a compare-and-set whose guard fails, a      *)
(* launch that raises) is a stuttering step.                               *)
(***************************************************************************)
EXTENDS Naturals, Sequences, FiniteSets

CONSTANTS
    Jobs,      \* job ids
    Ranks,     \* rank ids
    Plans,     \* plan ids a rank may name
    Reasons,   \* reason codes and error texts
    NULL,      \* SQL NULL, Python None; also: no row under this key
    Moves,     \* the [to, expected] pairs callers give to transition()
    RankMoves  \* the [to, expected] pairs callers give to set_rank_status()

JobStatus == {"waiting", "running", "paused", "finished"}
RankStatus == {"launching", "running", "stopped", "failed"}
ActiveRankStatuses == {"launching", "running"}

\* The catalog of events.py: no caller asks for a move out of "finished",
\* and a rank's status is only set from launching or running.
ASSUME MovesRespectLifecycle ==
    /\ Moves \subseteq [to : JobStatus, expected : SUBSET (JobStatus \ {"finished"})]
    /\ RankMoves \subseteq [to : RankStatus, expected : SUBSET ActiveRankStatuses]

VARIABLES
    jobs,      \* jobs table
    ranks,     \* ranks table
    announced, \* jobs whose job.submitted event row is in the events table
    told       \* history: reasons of the finishing calls that returned True

jobVars == <<jobs, ranks, announced, told>>

-----------------------------------------------------------------------------
JobRow == [ status        : JobStatus,
            finish_reason : Reasons \cup {NULL},
            error_message : Reasons \cup {NULL},
            has_finished_at : BOOLEAN ]

RankRow == [ job_id      : Jobs,
             plan_id     : Plans \cup {NULL},
             status      : RankStatus,
             reason_code : Reasons \cup {NULL} ]

ASSUME NullIsNoValue == NULL \notin Reasons \cup JobRow \cup RankRow

TypeOK ==
    /\ jobs \in [Jobs -> JobRow \cup {NULL}]
    /\ ranks \in [Ranks -> RankRow \cup {NULL}]
    /\ announced \subseteq Jobs
    /\ told \in [Jobs -> Seq(Reasons \cup {NULL})]

NewJob == [ status |-> "waiting", finish_reason |-> NULL,
            error_message |-> NULL, has_finished_at |-> FALSE ]

Finished(j) == jobs[j] # NULL /\ jobs[j].status = "finished"

JobInit ==
    /\ jobs = [j \in Jobs |-> NULL]
    /\ ranks = [r \in Ranks |-> NULL]
    /\ announced = {}
    /\ told = [j \in Jobs |-> <<>>]

-----------------------------------------------------------------------------
(* Writes to the jobs table *)

Submit(j) ==
    /\ jobs[j] = NULL
    /\ jobs' = [jobs EXCEPT ![j] = NewJob]
    /\ announced' = announced \cup {j}
    /\ UNCHANGED <<ranks, told>>

\* Fault: the update is keyed by the job alone.
MatchesAnyStatus(j, expected) == jobs[j] # NULL

\* The WHERE clause of the compare-and-set: rowcount is 1.
Matches(j, expected) == jobs[j] # NULL /\ jobs[j].status \in expected

\* The values transition() writes for `to`.
Moved(row, to, reason) ==
    IF to = "finished"
    THEN [row EXCEPT !.status = to, !.finish_reason = reason, !.has_finished_at = TRUE]
    ELSE IF to = "running"
    THEN [row EXCEPT !.status = to, !.error_message = NULL]
    ELSE [row EXCEPT !.status = to]

Transition(j, to, expected, reason) ==
    /\ Matches(j, expected)
    /\ jobs' = [jobs EXCEPT ![j] = Moved(jobs[j], to, reason)]
    /\ told' = IF to = "finished" THEN [told EXCEPT ![j] = Append(@, reason)] ELSE told
    /\ UNCHANGED <<ranks, announced>>

\* Fault: fail() does not look at the status.
FailAnyStatus(j, expected, reason, message) ==
    /\ jobs[j] # NULL
    /\ jobs' = [jobs EXCEPT ![j] = [@ EXCEPT !.status = "finished", !.finish_reason = reason,
                                             !.error_message = message, !.has_finished_at = TRUE]]
    /\ told' = [told EXCEPT ![j] = Append(@, reason)]
    /\ UNCHANGED <<ranks, announced>>

Fail(j, expected, reason, message) ==
    /\ Matches(j, expected)
    /\ jobs' = [jobs EXCEPT ![j] = [@ EXCEPT !.status = "finished",
                                             !.finish_reason = reason,
                                             !.error_message = message,
                                             !.has_finished_at = TRUE]]
    /\ told' = [told EXCEPT ![j] = Append(@, reason)]
    /\ UNCHANGED <<ranks, announced>>

SetError(j, message) ==
    /\ jobs[j] # NULL
    /\ jobs' = [jobs EXCEPT ![j].error_message = message]
    /\ UNCHANGED <<ranks, announced, told>>

-----------------------------------------------------------------------------
(* Writes to the ranks table *)

\* Fault: the conflicting row is overwritten whatever job it belongs to.
UpsertsAny(r, row) == TRUE

\* INSERT .. ON CONFLICT (rank_id) DO UPDATE .. WHERE the row's job_id is
\* the new row's: returns the rank_id, so the call does not raise.
Upsertable(r, row) == ranks[r] # NULL => ranks[r].job_id = row.job_id

\* Fault: no foreign key on job_id.
LaunchUnchecked(batch) ==
    /\ \A r \in DOMAIN batch : Upsertable(r, batch[r])
    /\ ranks' = [r \in Ranks |-> IF r \in DOMAIN batch THEN batch[r] ELSE ranks[r]]
    /\ UNCHANGED <<jobs, announced, told>>

\* batch maps the rank ids of one call to their rows.  One rank that belongs
\* to another job, or whose job does not exist (foreign key), rolls back all.
LaunchRanks(batch) ==
    /\ \A r \in DOMAIN batch :
          jobs[batch[r].job_id] # NULL /\ Upsertable(r, batch[r])
    /\ ranks' = [r \in Ranks |-> IF r \in DOMAIN batch THEN batch[r] ELSE ranks[r]]
    /\ UNCHANGED <<jobs, announced, told>>

\* Fault: the two values of the update are swapped.
SetRankSwapped(r, to, expected, reason) ==
    /\ ranks[r] # NULL
    /\ ranks[r].status \in expected
    /\ ranks' = [ranks EXCEPT ![r].status = reason, ![r].reason_code = to]
    /\ UNCHANGED <<jobs, announced, told>>

\* Fault: only the reason is written.
SetRankReason(r, to, expected, reason) ==
    /\ ranks[r] # NULL
    /\ ranks[r].status \in expected
    /\ ranks' = [ranks EXCEPT ![r].reason_code = reason]
    /\ UNCHANGED <<jobs, announced, told>>

SetRankStatus(r, to, expected, reason) ==
    /\ ranks[r] # NULL
    /\ ranks[r].status \in expected
    /\ ranks' = [ranks EXCEPT ![r].status = to, ![r].reason_code = reason]
    /\ UNCHANGED <<jobs, announced, told>>

-----------------------------------------------------------------------------
(* Reads *)

JobsWithStatus(status) == {j \in Jobs : Matches(j, {status})}

RanksOf(j) == {r \in Ranks : ranks[r] # NULL /\ ranks[r].job_id = j}

ActiveRanks(j) == {r \in RanksOf(j) : ranks[r].status \in ActiveRankStatuses}

-----------------------------------------------------------------------------
(* Any number of callers, each at any moment *)

Batches == UNION {[rs -> RankRow] : rs \in (SUBSET Ranks) \ {{}}}

NextJob ==
    \E j \in Jobs :
        \/ Submit(j)
        \/ \E m \in Moves, reason \in Reasons \cup {NULL} :
              Transition(j, m.to, m.expected, reason)
        \/ \E m \in Moves, reason, message \in Reasons :
              m.to = "finished" /\ Fail(j, m.expected, reason, message)
        \/ \E message \in Reasons \cup {NULL} : SetError(j, message)

NextRank ==
    \/ \E batch \in Batches : LaunchRanks(batch)
    \/ \E r \in Ranks, m \in RankMoves, reason \in Reasons \cup {NULL} :
          SetRankStatus(r, m.to, m.expected, reason)

JobNext == NextJob \/ NextRank

JobSpec == JobInit /\ [][JobNext]_jobVars

-----------------------------------------------------------------------------
(* Properties *)

\* "Concurrent writers cannot clobber a terminal state or double-fire a
\* transition": of all the calls that tried to finish a job exactly one was
\* told True, and the row still carries that call's reason and a finish time,
\* while a job nobody finished carries neither.
OneVerdict ==
    \A j \in Jobs :
        IF Finished(j)
        THEN told[j] = <<jobs[j].finish_reason>> /\ jobs[j].has_finished_at
        ELSE /\ told[j] = <<>>
             /\ jobs[j] # NULL =>
                   jobs[j].finish_reason = NULL /\ ~jobs[j].has_finished_at

\* Once finished, a job stays finished with the same reason and finish time
\* (only set_error, which has no guard on the status, still writes its row).
FinishedIsFinal ==
    [][\A j \in Jobs : Finished(j) =>
          /\ Finished(j)'
          /\ jobs'[j].finish_reason = jobs[j].finish_reason
          /\ jobs'[j].has_finished_at = jobs[j].has_finished_at]_jobVars

\* A rank keeps the job it was first launched for, through every refresh by
\* launch_ranks, and that job's row exists and was announced to consumers.
RankKeepsItsJob ==
    [][\A r \in Ranks : ranks[r] # NULL =>
          ranks'[r] # NULL /\ ranks'[r].job_id = ranks[r].job_id]_jobVars

\* Rows that refer to each other do: a rank's job exists, and a job row and
\* its job.submitted event were written by the same transaction.
References ==
    /\ \A r \in Ranks : ranks[r] # NULL => jobs[ranks[r].job_id] # NULL
    /\ announced = {j \in Jobs : jobs[j] # NULL}
=============================================================================
