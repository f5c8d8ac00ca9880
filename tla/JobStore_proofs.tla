-------------------------- MODULE JobStore_proofs --------------------------
(***************************************************************************)
(* The guarantees of the job store for any sets of jobs, ranks and reason  *)
(* codes and any lifecycle-respecting set of moves.                        *)
(***************************************************************************)
EXTENDS JobStore, TLAPS

\* Each call builds rows of the row types.
LEMMA JobTypeStep == TypeOK /\ [JobNext]_jobVars => TypeOK'
<1> USE DEF TypeOK, JobRow, RankRow, JobStatus, RankStatus
<1> SUFFICES ASSUME TypeOK, [JobNext]_jobVars PROVE TypeOK'
  OBVIOUS
<1>1. ASSUME NEW j \in Jobs, Submit(j) PROVE TypeOK'
  BY <1>1 DEF Submit, NewJob
<1>2. ASSUME NEW j \in Jobs, NEW m \in Moves, NEW reason \in Reasons \cup {NULL},
             Transition(j, m.to, m.expected, reason)
      PROVE TypeOK'
  <2>1. m.to \in JobStatus
    BY MovesRespectLifecycle
  <2>2. jobs[j] \in JobRow
    BY <1>2 DEF Transition, Matches
  <2>3. Moved(jobs[j], m.to, reason) \in JobRow
    BY <2>1, <2>2 DEF Moved
  <2>4. told' \in [Jobs -> Seq(Reasons \cup {NULL})]
    BY <1>2 DEF Transition
  <2>5. QED
    BY <1>2, <2>3, <2>4 DEF Transition
<1>3. ASSUME NEW j \in Jobs, NEW expected, NEW reason \in Reasons, NEW message \in Reasons,
             Fail(j, expected, reason, message)
      PROVE TypeOK'
  <2>1. jobs[j] \in JobRow
    BY <1>3 DEF Fail, Matches
  <2>2. [jobs[j] EXCEPT !.status = "finished", !.finish_reason = reason,
                        !.error_message = message, !.has_finished_at = TRUE] \in JobRow
    BY <2>1
  <2>3. told' \in [Jobs -> Seq(Reasons \cup {NULL})]
    BY <1>3 DEF Fail
  <2>4. QED
    BY <1>3, <2>2, <2>3 DEF Fail
<1>4. ASSUME NEW j \in Jobs, NEW message \in Reasons \cup {NULL}, SetError(j, message)
      PROVE TypeOK'
  BY <1>4 DEF SetError
<1>5. ASSUME NEW batch \in Batches, LaunchRanks(batch) PROVE TypeOK'
  BY <1>5 DEF LaunchRanks, Batches
<1>6. ASSUME NEW r \in Ranks, NEW m \in RankMoves, NEW reason \in Reasons \cup {NULL},
             SetRankStatus(r, m.to, m.expected, reason)
      PROVE TypeOK'
  <2>1. m.to \in RankStatus
    BY MovesRespectLifecycle
  <2>2. QED
    BY <1>6, <2>1 DEF SetRankStatus
<1>7. CASE UNCHANGED jobVars
  BY <1>7 DEF jobVars
<1>8. QED
  BY <1>1, <1>2, <1>3, <1>4, <1>5, <1>6, <1>7 DEF JobNext, NextJob, NextRank

\* Every reachable state of the two tables is well typed: each row has the
\* columns of db/orm.py and statuses of models/enums.py.
THEOREM JobTypeCorrect == JobSpec => []TypeOK
<1>1. JobInit => TypeOK
  BY DEF JobInit, TypeOK
<1>2. QED
  BY <1>1, JobTypeStep, PTL DEF JobSpec

-----------------------------------------------------------------------------
\* A guard that matches a job never matches a finished one.
LEMMA GuardSparesFinished ==
    ASSUME NEW j \in Jobs, NEW m \in Moves, Matches(j, m.expected)
    PROVE  jobs[j] # NULL /\ ~Finished(j)
BY MovesRespectLifecycle DEF Matches, Finished

\* No call deletes a job's row.
LEMMA JobsStay ==
    ASSUME TypeOK, [JobNext]_jobVars, NEW j \in Jobs, jobs[j] # NULL
    PROVE  jobs'[j] # NULL
<1> USE DEF TypeOK, JobRow, JobStatus
<1>1. ASSUME NEW i \in Jobs, Submit(i) PROVE jobs'[j] # NULL
  BY <1>1, NullIsNoValue DEF Submit, NewJob
<1>2. ASSUME NEW i \in Jobs, NEW m \in Moves, NEW reason \in Reasons \cup {NULL},
             Transition(i, m.to, m.expected, reason)
      PROVE  jobs'[j] # NULL
  <2>1. jobs[i] \in JobRow /\ m.to \in JobStatus
    BY <1>2, MovesRespectLifecycle DEF Transition, Matches
  <2>2. Moved(jobs[i], m.to, reason) \in JobRow
    BY <2>1 DEF Moved
  <2>3. QED
    BY <1>2, <2>2, NullIsNoValue DEF Transition
<1>3. ASSUME NEW i \in Jobs, NEW expected, NEW reason \in Reasons, NEW message \in Reasons,
             Fail(i, expected, reason, message)
      PROVE  jobs'[j] # NULL
  <2>1. jobs[i] \in JobRow
    BY <1>3 DEF Fail, Matches
  <2>2. [jobs[i] EXCEPT !.status = "finished", !.finish_reason = reason,
                        !.error_message = message, !.has_finished_at = TRUE] \in JobRow
    BY <2>1
  <2>3. QED
    BY <1>3, <2>2, NullIsNoValue DEF Fail
<1>4. ASSUME NEW i \in Jobs, NEW message \in Reasons \cup {NULL}, SetError(i, message)
      PROVE  jobs'[j] # NULL
  <2>1. [jobs[i] EXCEPT !.error_message = message] \in JobRow
    BY <1>4 DEF SetError
  <2>2. QED
    BY <1>4, <2>1, NullIsNoValue DEF SetError
<1>5. ASSUME NextRank \/ UNCHANGED jobVars PROVE jobs'[j] # NULL
  BY <1>5 DEF NextRank, LaunchRanks, SetRankStatus, jobVars
<1>6. QED
  BY <1>1, <1>2, <1>3, <1>4, <1>5 DEF JobNext, NextJob

\* At any moment exactly the finished jobs have had a finishing call answered
\* True, one call each, and the row carries that call's reason: the
\* compare-and-set of transition() and fail() never fires twice.
THEOREM JobOneVerdict == JobSpec => []OneVerdict
<1> USE DEF OneVerdict, Finished, TypeOK
<1>1. JobInit => OneVerdict
  BY DEF JobInit
<1>2. TypeOK /\ OneVerdict /\ [JobNext]_jobVars => OneVerdict'
  <2> SUFFICES ASSUME TypeOK, OneVerdict, [JobNext]_jobVars PROVE OneVerdict'
    OBVIOUS
  <2>1. ASSUME NEW j \in Jobs, Submit(j) PROVE OneVerdict'
    BY <2>1, NullIsNoValue DEF Submit, NewJob
  <2>2. ASSUME NEW j \in Jobs, NEW m \in Moves, NEW reason \in Reasons \cup {NULL},
               Transition(j, m.to, m.expected, reason)
        PROVE OneVerdict'
    <3>1. jobs[j] \in JobRow /\ jobs[j] # NULL /\ ~Finished(j)
      BY <2>2, GuardSparesFinished DEF Transition, Matches
    <3>2. told[j] = <<>> /\ jobs[j].finish_reason = NULL /\ ~jobs[j].has_finished_at
      BY <3>1
    <3>3. Moved(jobs[j], m.to, reason) \in JobRow
      BY <3>1, MovesRespectLifecycle DEF Moved, JobRow, JobStatus
    <3>4. CASE m.to = "finished"
      <4>1. told' = [told EXCEPT ![j] = <<reason>>]
        BY <2>2, <3>2, <3>4 DEF Transition
      <4>2. /\ Moved(jobs[j], m.to, reason).status = "finished"
            /\ Moved(jobs[j], m.to, reason).finish_reason = reason
            /\ Moved(jobs[j], m.to, reason).has_finished_at
        BY <3>1, <3>4 DEF Moved, JobRow
      <4>3. QED
        BY <2>2, <3>3, <4>1, <4>2, NullIsNoValue DEF Transition
    <3>5. CASE m.to # "finished"
      <4>1. told' = told
        BY <2>2, <3>5 DEF Transition
      <4>2. /\ Moved(jobs[j], m.to, reason).status # "finished"
            /\ Moved(jobs[j], m.to, reason).finish_reason = NULL
            /\ ~Moved(jobs[j], m.to, reason).has_finished_at
        BY <3>1, <3>2, <3>5 DEF Moved, JobRow
      <4>3. QED
        BY <2>2, <3>2, <3>3, <4>1, <4>2, NullIsNoValue DEF Transition
    <3>6. QED
      BY <3>4, <3>5
  <2>3. ASSUME NEW j \in Jobs, NEW m \in Moves, NEW reason \in Reasons, NEW message \in Reasons,
               Fail(j, m.expected, reason, message)
        PROVE OneVerdict'
    <3> DEFINE row == [jobs[j] EXCEPT !.status = "finished", !.finish_reason = reason,
                                      !.error_message = message, !.has_finished_at = TRUE]
    <3>1. jobs[j] \in JobRow /\ ~Finished(j)
      BY <2>3, GuardSparesFinished DEF Fail, Matches
    <3>2. told' = [told EXCEPT ![j] = <<reason>>]
      <4>1. told[j] = <<>>
        BY <3>1
      <4>2. QED
        BY <2>3, <4>1 DEF Fail
    <3>3. /\ row # NULL
          /\ row.status = "finished" /\ row.finish_reason = reason /\ row.has_finished_at
      BY <3>1, NullIsNoValue DEF JobRow, JobStatus
    <3>4. jobs' = [jobs EXCEPT ![j] = row]
      BY <2>3 DEF Fail
    <3> HIDE DEF row
    <3>5. QED
      BY <3>2, <3>3, <3>4
  <2>4. ASSUME NEW j \in Jobs, NEW message \in Reasons \cup {NULL}, SetError(j, message)
        PROVE OneVerdict'
    <3> DEFINE row == [jobs[j] EXCEPT !.error_message = message]
    <3>1. jobs[j] \in JobRow
      BY <2>4 DEF SetError
    <3>2. /\ row # NULL
          /\ row.status = jobs[j].status /\ row.finish_reason = jobs[j].finish_reason
          /\ row.has_finished_at = jobs[j].has_finished_at
      BY <3>1, NullIsNoValue DEF JobRow
    <3>3. jobs' = [jobs EXCEPT ![j] = row] /\ told' = told
      BY <2>4 DEF SetError
    <3> HIDE DEF row
    <3>4. ASSUME NEW i \in Jobs
          PROVE  IF Finished(i)'
                 THEN (told[i] = <<jobs[i].finish_reason>> /\ jobs[i].has_finished_at)'
                 ELSE /\ told'[i] = <<>>
                      /\ jobs'[i] # NULL =>
                            jobs'[i].finish_reason = NULL /\ ~jobs'[i].has_finished_at
      <4>1. CASE i = j
        <5>1. jobs'[i] = row /\ jobs[i] # NULL
          BY <2>4, <3>3, <4>1 DEF SetError
        <5>2. QED
          BY <3>2, <3>3, <4>1, <5>1
      <4>2. CASE i # j
        BY <3>3, <4>2
      <4>3. QED
        BY <4>1, <4>2
    <3>5. QED
      BY <3>4
  <2>5. CASE NextRank
    BY <2>5 DEF NextRank, LaunchRanks, SetRankStatus
  <2>6. CASE UNCHANGED jobVars
    BY <2>6 DEF jobVars
  <2>7. QED
    BY <2>1, <2>2, <2>3, <2>4, <2>5, <2>6 DEF JobNext, NextJob
<1>3. QED
  BY <1>1, <1>2, JobTypeCorrect, PTL DEF JobSpec

-----------------------------------------------------------------------------
\* A rank row stays with the job it was launched for; launch_ranks cannot
\* move it and nothing deletes it.
THEOREM JobRankKeepsItsJob == JobSpec => RankKeepsItsJob
<1> DEFINE Keeps == \A r \in Ranks : ranks[r] # NULL =>
                       ranks'[r] # NULL /\ ranks'[r].job_id = ranks[r].job_id
<1>1. TypeOK /\ [JobNext]_jobVars => Keeps
  <2> SUFFICES ASSUME TypeOK, [JobNext]_jobVars, NEW q \in Ranks, ranks[q] # NULL
               PROVE  ranks'[q] # NULL /\ ranks'[q].job_id = ranks[q].job_id
    OBVIOUS
  <2>1. CASE ranks' = ranks
    BY <2>1
  <2>2. ASSUME NEW batch \in Batches, LaunchRanks(batch)
        PROVE  ranks'[q] # NULL /\ ranks'[q].job_id = ranks[q].job_id
    <3>1. \A r \in DOMAIN batch : batch[r] \in RankRow
      BY DEF Batches
    <3>2. CASE q \in DOMAIN batch
      BY <2>2, <3>1, <3>2, NullIsNoValue DEF LaunchRanks, Upsertable
    <3>3. CASE q \notin DOMAIN batch
      BY <2>2, <3>3 DEF LaunchRanks
    <3>4. QED
      BY <3>2, <3>3
  <2>3. ASSUME NEW r \in Ranks, NEW m \in RankMoves, NEW reason \in Reasons \cup {NULL},
               SetRankStatus(r, m.to, m.expected, reason)
        PROVE  ranks'[q] # NULL /\ ranks'[q].job_id = ranks[q].job_id
    <3> DEFINE row == [ranks[r] EXCEPT !.status = m.to, !.reason_code = reason]
    <3>1. ranks[r] \in RankRow
      BY <2>3 DEF SetRankStatus, TypeOK
    <3>2. row # NULL /\ row.job_id = ranks[r].job_id
      BY <3>1, NullIsNoValue, MovesRespectLifecycle DEF RankRow
    <3>3. ranks' = [ranks EXCEPT ![r] = row]
      BY <2>3 DEF SetRankStatus
    <3> HIDE DEF row
    <3>4. QED
      BY <3>2, <3>3 DEF TypeOK
  <2>4. QED
    BY <2>1, <2>2, <2>3
       DEF JobNext, NextJob, NextRank, jobVars, Submit, Transition, Fail, SetError
<1>2. QED
  BY <1>1, JobTypeCorrect, PTL DEF JobSpec, RankKeepsItsJob

\* The terminal state: no step of any caller moves a finished job, changes
\* its reason or its finish time.
THEOREM JobFinishedIsFinal == JobSpec => FinishedIsFinal
<1> DEFINE Same(i) == /\ Finished(i)'
                      /\ jobs'[i].finish_reason = jobs[i].finish_reason
                      /\ jobs'[i].has_finished_at = jobs[i].has_finished_at
<1>1. TypeOK /\ [JobNext]_jobVars => \A j \in Jobs : Finished(j) => Same(j)
  <2> SUFFICES ASSUME TypeOK, [JobNext]_jobVars, NEW i \in Jobs, Finished(i)
               PROVE  Same(i)
    OBVIOUS
  <2>1. jobs[i] \in JobRow /\ jobs[i] # NULL
    BY DEF Finished, TypeOK
  <2>2. CASE jobs'[i] = jobs[i]
    BY <2>2 DEF Finished
  <2>3. ASSUME NEW j \in Jobs, NEW message \in Reasons \cup {NULL}, SetError(j, message)
        PROVE  Same(i)
    <3> DEFINE row == [jobs[i] EXCEPT !.error_message = message]
    <3>1. CASE i = j
      <4>1. jobs'[i] = row
        BY <2>3, <3>1 DEF SetError, TypeOK
      <4>2. /\ row \in JobRow /\ row.status = jobs[i].status
            /\ row.finish_reason = jobs[i].finish_reason
            /\ row.has_finished_at = jobs[i].has_finished_at
        BY <2>1 DEF JobRow
      <4>3. QED
        BY <4>1, <4>2, NullIsNoValue DEF Finished
    <3>2. CASE i # j
      BY <2>2, <2>3, <3>2 DEF SetError, TypeOK
    <3>3. QED
      BY <3>1, <3>2
  <2>4. ASSUME NEW j \in Jobs, Submit(j) PROVE jobs'[i] = jobs[i]
    BY <2>1, <2>4 DEF Submit, TypeOK
  <2>5. ASSUME NEW j \in Jobs, NEW m \in Moves, NEW reason,
               Transition(j, m.to, m.expected, reason)
        PROVE  jobs'[i] = jobs[i]
    BY <2>5, GuardSparesFinished DEF Transition, TypeOK
  <2>6. ASSUME NEW j \in Jobs, NEW m \in Moves, NEW reason, NEW message,
               Fail(j, m.expected, reason, message)
        PROVE  jobs'[i] = jobs[i]
    BY <2>6, GuardSparesFinished DEF Fail, TypeOK
  <2>7. CASE NextRank \/ UNCHANGED jobVars
    BY <2>2, <2>7 DEF NextRank, LaunchRanks, SetRankStatus, jobVars
  <2>8. QED
    BY <2>2, <2>3, <2>4, <2>5, <2>6, <2>7 DEF JobNext, NextJob
<1>2. QED
  BY <1>1, JobTypeCorrect, PTL DEF JobSpec, FinishedIsFinal

\* jobs.py submit and launch_ranks: a rank row only ever refers to a job that
\* exists, and exactly the jobs that exist were announced to consumers, since
\* the job row and its event are written by one transaction.
THEOREM JobReferences == JobSpec => []References
<1>1. JobInit => References
  BY DEF JobInit, References
<1>2. TypeOK /\ References /\ [JobNext]_jobVars => References'
  <2> SUFFICES ASSUME TypeOK, References, [JobNext]_jobVars PROVE References'
    OBVIOUS
  <2> USE DEF References
  <2>1. \A j \in Jobs : jobs[j] # NULL => jobs'[j] # NULL
    BY JobsStay
  <2>2. ASSUME NEW i \in Jobs, Submit(i) PROVE References'
    <3>1. jobs' = [jobs EXCEPT ![i] = NewJob]
      BY <2>2 DEF Submit
    <3>2. NewJob \in JobRow
      BY DEF NewJob, JobRow, JobStatus
    <3>3. jobs'[i] = NewJob /\ \A j \in Jobs \ {i} : jobs'[j] = jobs[j]
      BY <3>1 DEF TypeOK
    <3>4. jobs'[i] # NULL
      BY <3>2, <3>3, NullIsNoValue
    <3>5. QED
      BY <2>1, <2>2, <3>3, <3>4 DEF Submit, TypeOK, RankRow
  <2>3. ASSUME NextJob, announced' = announced, ranks' = ranks,
               \A j \in Jobs : jobs[j] = NULL => jobs'[j] = NULL
        PROVE  References'
    BY <2>1, <2>3 DEF TypeOK, RankRow
  <2>4. ASSUME NEW i \in Jobs, NEW to, NEW expected, NEW reason,
               Transition(i, to, expected, reason)
        PROVE  /\ announced' = announced /\ ranks' = ranks
               /\ \A j \in Jobs : jobs[j] = NULL => jobs'[j] = NULL
    BY <2>4 DEF Transition, Matches, TypeOK
  <2>5. ASSUME NEW i \in Jobs, NEW expected, NEW reason, NEW message,
               Fail(i, expected, reason, message)
        PROVE  /\ announced' = announced /\ ranks' = ranks
               /\ \A j \in Jobs : jobs[j] = NULL => jobs'[j] = NULL
    BY <2>5 DEF Fail, Matches, TypeOK
  <2>6. ASSUME NEW i \in Jobs, NEW message, SetError(i, message)
        PROVE  /\ announced' = announced /\ ranks' = ranks
               /\ \A j \in Jobs : jobs[j] = NULL => jobs'[j] = NULL
    BY <2>6 DEF SetError, TypeOK
  <2>7. CASE NextJob
    BY <2>2, <2>3, <2>4, <2>5, <2>6, <2>7 DEF NextJob
  <2>8. ASSUME NEW batch \in Batches, LaunchRanks(batch) PROVE References'
    <3>1. ASSUME NEW r \in Ranks, ranks'[r] # NULL PROVE jobs'[ranks'[r].job_id] # NULL
      BY <2>8, <3>1 DEF LaunchRanks
    <3>2. QED
      BY <2>8, <3>1 DEF LaunchRanks
  <2>9. ASSUME NEW r \in Ranks, NEW to, NEW expected, NEW reason,
               SetRankStatus(r, to, expected, reason)
        PROVE  References'
    <3>1. ranks'[r].job_id = ranks[r].job_id /\ \A q \in Ranks \ {r} : ranks'[q] = ranks[q]
      BY <2>9 DEF SetRankStatus, TypeOK, RankRow
    <3>2. QED
      BY <2>9, <3>1 DEF SetRankStatus
  <2>10. CASE UNCHANGED jobVars
    BY <2>10 DEF jobVars
  <2>11. QED
    BY <2>7, <2>8, <2>9, <2>10 DEF JobNext, NextRank
<1>3. QED
  BY <1>1, <1>2, JobTypeCorrect, PTL DEF JobSpec
=============================================================================
