--------------------------- MODULE JobClients_proofs ---------------------------
(***************************************************************************)
(* What the clients of the job store may rely on, for any jobs, ranks and  *)
(* callers: the two-statement read of the running jobs, launch_ranks       *)
(* statement by statement, and telemetry joined to the ranks it is about.  *)
(***************************************************************************)
EXTENDS RankTelemetry, RunningJobs, JobStore_proofs, Ascending_proofs

-----------------------------------------------------------------------------
(* The torn read running_jobs *)

Serving == UNION {[js -> SUBSET Ranks] : js \in SUBSET Jobs}

\* Between the statements, the true answers since the first one include the
\* one its list was taken from and the present one.
InBetween ==
    read.pc = "ranks" =>
        /\ \E a \in truths : DOMAIN a = read.listed
        /\ Answer \in truths

ReadInv ==
    /\ read \in [pc : {"start", "ranks", "done"}, listed : SUBSET Jobs, serving : Serving]
    /\ read.pc = "done" => DOMAIN read.serving = read.listed
    /\ InBetween
    /\ NothingStableIsMissed

LEMMA EmptyServing == <<>> \in Serving /\ DOMAIN <<>> = {}
<1>1. <<>> \in [{} -> SUBSET Ranks]
  OBVIOUS
<1>2. QED
  BY <1>1 DEF Serving

\* The reader writes no table.
LEMMA ReadKeepsJobSpec == ReadSpec => JobSpec
<1>1. ReadInit => JobInit
  BY DEF ReadInit
<1>2. [ReadNext]_readVars => [JobNext]_jobVars
  BY DEF ReadNext, SelectJobs, SelectRanks, Return, Write, readVars
<1>3. QED
  BY <1>1, <1>2, PTL DEF ReadSpec, JobSpec

LEMMA ReadStep == ReadInv /\ [ReadNext]_readVars => ReadInv'
<1> SUFFICES ASSUME ReadInv, [ReadNext]_readVars PROVE ReadInv'
  OBVIOUS
<1> USE DEF ReadInv
<1>1. CASE SelectJobs
  <2>1. JobsWithStatus("running") \subseteq Jobs /\ DOMAIN Answer = JobsWithStatus("running")
    BY DEF JobsWithStatus, Answer
  <2>2. Answer' = Answer
    BY <1>1 DEF SelectJobs, jobVars, Answer, JobsWithStatus, Matches, ActiveRanks, RanksOf
  <2>3. InBetween'
    BY <1>1, <2>1, <2>2 DEF SelectJobs, InBetween
  <2>4. NothingStableIsMissed'
    BY <1>1, <2>1 DEF SelectJobs, NothingStableIsMissed
  <2>5. QED
    BY <1>1, <2>1, <2>3, <2>4, EmptyServing DEF SelectJobs
<1>2. CASE SelectRanks
  <2> DEFINE serving == [j \in read.listed |-> ActiveRanks(j)]
  <2>1. serving \in Serving
    <3>1. serving \in [read.listed -> SUBSET Ranks]
      BY DEF ActiveRanks, RanksOf
    <3>2. QED
      BY <3>1 DEF Serving
  <2>2. read.pc = "ranks" /\ UNCHANGED truths
        /\ read' = [read EXCEPT !.pc = "done", !.serving = serving]
    BY <1>2 DEF SelectRanks
  <2>3. PICK a \in truths : DOMAIN a = read.listed
    BY <2>2 DEF InBetween
  <2>4. \A j \in DOMAIN Answer : Answer[j] = ActiveRanks(j)
    BY DEF Answer
  <2>5. NothingStableIsMissed'
    BY <2>2, <2>3, <2>4 DEF InBetween, NothingStableIsMissed
  <2>6. QED
    BY <2>1, <2>2, <2>5 DEF InBetween
<1>3. CASE Return
  BY <1>3, EmptyServing DEF Return, NoRead, InBetween, NothingStableIsMissed
<1>4. CASE Write
  BY <1>4 DEF Write, InBetween, NothingStableIsMissed
<1>5. CASE UNCHANGED readVars
  <2>1. Answer' = Answer
    BY <1>5 DEF readVars, jobVars, Answer, JobsWithStatus, Matches, ActiveRanks, RanksOf
  <2>2. QED
    BY <1>5, <2>1 DEF readVars, InBetween, NothingStableIsMissed
<1>6. QED
  BY <1>1, <1>2, <1>3, <1>4, <1>5 DEF ReadNext

LEMMA ReadInvariant == ReadSpec => []ReadInv
<1>1. ReadInit => ReadInv
  BY EmptyServing DEF ReadInit, NoRead, ReadInv, InBetween, NothingStableIsMissed
<1>2. QED
  BY <1>1, ReadStep, PTL DEF ReadSpec

\* The reader's results are sets of jobs and of their ranks.
THEOREM RunningJobsTypeCorrect == ReadSpec => []ReadTypeOK
<1>1. ReadInv /\ TypeOK => ReadTypeOK
  <2> SUFFICES ASSUME ReadInv, TypeOK, read.pc = "done", NEW j \in read.listed
               PROVE  read.serving[j] \subseteq Ranks
    BY DEF ReadInv, ReadTypeOK
  <2>1. PICK js \in SUBSET Jobs : read.serving \in [js -> SUBSET Ranks]
    BY DEF ReadInv, Serving
  <2>2. QED
    BY <2>1 DEF ReadInv
<1>2. QED
  BY <1>1, ReadInvariant, ReadKeepsJobSpec, JobTypeCorrect, PTL

\* jobs.py running_jobs: however many writers commit between its statements,
\* a rank that was active on a running job throughout is in the answer, so
\* Koi never takes capacity for free that was in use all along.
THEOREM RunningJobsMissesNothingStable == ReadSpec => []NothingStableIsMissed
<1>1. ReadInv => NothingStableIsMissed
  BY DEF ReadInv
<1>2. QED
  BY <1>1, ReadInvariant, PTL

-----------------------------------------------------------------------------
(* launch_ranks: the row locks keep what a transaction has checked true
   until it commits. *)

Uncommitted == UNION {[rs -> RankRow] : rs \in SUBSET Ranks}

TxnType == txn \in [Calls -> [list : Lists \cup {<<>>}, todo : Seq(Entry), done : Uncommitted]]

\* No two transactions hold one rank.
Exclusive ==
    \A c, d \in Calls : c # d => DOMAIN txn[c].done \cap DOMAIN txn[d].done = {}

\* What an upsert found of the rows it depends on still is so.
StillGood(row, r) ==
    /\ jobs[row.job_id] # NULL
    /\ ranks[r] # NULL => ranks[r].job_id = row.job_id

Held == \A c \in Calls : \A r \in DOMAIN txn[c].done : StillGood(txn[c].done[r], r)

TxnInv == TypeOK /\ TxnType /\ Exclusive /\ Held

LEMMA UncommittedRows ==
    ASSUME NEW done \in Uncommitted
    PROVE  /\ DOMAIN done \subseteq Ranks
           /\ done \in [DOMAIN done -> RankRow]
           /\ done # <<>> => DOMAIN done # {}
<1>1. PICK rs \in SUBSET Ranks : done \in [rs -> RankRow]
  BY DEF Uncommitted
<1>2. rs = {} => done = <<>>
  BY <1>1
<1>3. QED
  BY <1>1, <1>2

\* The end of a transaction, committed or not, lets go of its ranks.
LEMMA Release ==
    ASSUME TxnInv, NEW c \in Calls, txn' = [txn EXCEPT ![c] = NoTxn], UNCHANGED jobs,
           \A r \in Ranks : r \notin DOMAIN txn[c].done => ranks'[r] = ranks[r]
    PROVE  (TxnType /\ Exclusive /\ Held)'
<1> USE DEF TxnInv
<1>1. <<>> \in Uncommitted /\ DOMAIN <<>> = {} /\ <<>> \in Seq(Entry)
  <2>1. <<>> \in [{} -> RankRow]
    OBVIOUS
  <2>2. QED
    BY <2>1 DEF Uncommitted
<1>2. TxnType'
  BY <1>1 DEF TxnType, NoTxn
<1>3. txn'[c].done = <<>> /\ \A d \in Calls \ {c} : txn'[d] = txn[d]
  BY DEF TxnType, NoTxn
<1>4. Exclusive'
  BY <1>1, <1>3 DEF Exclusive
<1>5. ASSUME NEW d \in Calls, NEW r \in DOMAIN txn'[d].done
      PROVE  /\ jobs'[txn'[d].done[r].job_id] # NULL
             /\ ranks'[r] # NULL => ranks'[r].job_id = txn'[d].done[r].job_id
  <2>1. d # c /\ txn'[d] = txn[d]
    BY <1>1, <1>3, <1>5
  <2>2. r \in Ranks /\ r \notin DOMAIN txn[c].done
    BY <1>5, <2>1, UncommittedRows DEF Exclusive, TxnType
  <2>3. ranks'[r] = ranks[r]
    BY <2>2
  <2>4. QED
    BY <1>5, <2>1, <2>3 DEF Held, StillGood
<1>6. QED
  BY <1>2, <1>4, <1>5 DEF Held, StillGood

\* A commit writes what launch_ranks writes.
LEMMA CommitLaunches ==
    ASSUME TxnInv, NEW c \in Calls, Commit(c) PROVE JobNext
<1> DEFINE batch == txn[c].done
<1>1. batch \in Uncommitted
  BY DEF TxnInv, TxnType
<1>2. batch \in Batches
  <2>1. DOMAIN batch \in (SUBSET Ranks) \ {{}} /\ batch \in [DOMAIN batch -> RankRow]
    BY <1>1, UncommittedRows DEF Commit
  <2>2. QED
    BY <2>1 DEF Batches
<1>3. LaunchRanks(batch)
  BY DEF Commit, LaunchRanks, Upsertable, TxnInv, Held, StillGood
<1>4. QED
  BY <1>2, <1>3 DEF JobNext, NextRank

LEMMA OnlyLaunchSteps == ASSUME TxnInv, [Next]_vars PROVE [JobNext]_jobVars
<1>1. ASSUME NEW c \in Calls, Step(c) PROVE [JobNext]_jobVars
  BY <1>1, CommitLaunches DEF Step, Upsert, Refuse, DeadlockVictim, Rollback
<1>2. ASSUME NEW c \in Calls, Lost(c) \/ \E list \in Lists : Begin(c, list)
      PROVE  UNCHANGED jobVars
  BY <1>2 DEF Lost, Rollback, Begin
<1>3. ASSUME NEW j \in Jobs, SubmitJob(j) PROVE JobNext
  BY <1>3 DEF SubmitJob, JobNext, NextJob
<1>4. ASSUME NEW r \in Ranks, NEW m \in RankMoves, NEW reason \in Reasons \cup {NULL},
             SetStatus(r, m, reason)
      PROVE  JobNext
  BY <1>4 DEF SetStatus, JobNext, NextRank
<1>5. QED
  BY <1>1, <1>2, <1>3, <1>4 DEF Next, vars

\* Another row joins those c holds.
LEMMA UpsertHolds ==
    ASSUME TxnInv, NEW c \in Calls, Upsert(c) PROVE (TxnType /\ Exclusive /\ Held)'
<1> USE DEF TxnInv
<1> DEFINE e == Wanted(c)
           done == txn[c].done
           more == [r \in DOMAIN done \cup {e.rank} |-> IF r = e.rank THEN e.row ELSE done[r]]
<1>1. txn[c].todo \in Seq(Entry) /\ txn[c].todo # <<>> /\ done \in Uncommitted
  BY DEF TxnType, Upsert
<1>2. e \in Entry /\ Tail(txn[c].todo) \in Seq(Entry)
  BY <1>1 DEF Wanted
<1>3. e.rank \in Ranks /\ e.row \in RankRow
  BY <1>2 DEF Entry
<1>4. txn' = [txn EXCEPT ![c].done = more, ![c].todo = Tail(@)] /\ UNCHANGED jobVars
  BY DEF Upsert
<1>5. more \in Uncommitted
  <2>1. DOMAIN done \cup {e.rank} \in SUBSET Ranks
    BY <1>1, <1>3, UncommittedRows
  <2>2. more \in [DOMAIN done \cup {e.rank} -> RankRow]
    BY <1>1, <1>3, UncommittedRows
  <2>3. QED
    BY <2>1, <2>2 DEF Uncommitted
<1>6. TxnType'
  BY <1>2, <1>4, <1>5 DEF TxnType
<1>7. txn'[c].done = more /\ \A d \in Calls \ {c} : txn'[d] = txn[d]
  BY <1>4 DEF TxnType
<1>8. \A d \in Calls \ {c} : e.rank \notin DOMAIN txn[d].done
  BY DEF Upsert, Locked
<1>9. Exclusive'
  BY <1>7, <1>8 DEF Exclusive
<1>10. StillGood(e.row, e.rank)
  <2>1. jobs[e.row.job_id] # NULL
    BY DEF Upsert, Refused
  <2>2. Seen(c, e.rank) # NULL => Seen(c, e.rank).job_id = e.row.job_id
    BY DEF Upsert, Refused
  <2>3. CASE e.rank \in DOMAIN done
    <3>1. done[e.rank] \in RankRow
      BY <1>1, <2>3, UncommittedRows
    <3>2. done[e.rank].job_id = e.row.job_id
      BY <2>2, <2>3, <3>1, NullIsNoValue DEF Seen
    <3>3. QED
      BY <2>1, <2>3, <3>2 DEF Held, StillGood
  <2>4. CASE e.rank \notin DOMAIN done
    BY <2>1, <2>2, <2>4 DEF Seen, StillGood
  <2>5. QED
    BY <2>3, <2>4
<1>11. ASSUME NEW d \in Calls, NEW r \in DOMAIN txn'[d].done
       PROVE  /\ jobs'[txn'[d].done[r].job_id] # NULL
              /\ ranks'[r] # NULL => ranks'[r].job_id = txn'[d].done[r].job_id
  <2>1. ASSUME d # c PROVE StillGood(txn'[d].done[r], r)
    BY <1>7, <1>11, <2>1 DEF Held
  <2>2. ASSUME d = c PROVE StillGood(txn'[d].done[r], r)
    BY <1>7, <1>10, <1>11, <2>2 DEF Held
  <2>3. QED
    BY <1>4, <2>1, <2>2 DEF StillGood, jobVars
<1>12. QED
  BY <1>6, <1>9, <1>11 DEF Held, StillGood

LEMMA TxnStep == ASSUME TxnInv, [Next]_vars PROVE TxnInv'
<1> USE DEF TxnInv
<1>1. TypeOK'
  BY OnlyLaunchSteps, JobTypeStep
<1>2. ASSUME NEW c \in Calls, Rollback(c) PROVE (TxnType /\ Exclusive /\ Held)'
  BY <1>2, Release DEF Rollback, jobVars
<1>3. ASSUME NEW c \in Calls, Commit(c) PROVE (TxnType /\ Exclusive /\ Held)'
  <2>1. \A r \in Ranks : r \notin DOMAIN txn[c].done => ranks'[r] = ranks[r]
    BY <1>3 DEF Commit
  <2>2. QED
    BY <1>3, <2>1, Release DEF Commit
<1>4. ASSUME NEW c \in Calls, NEW list \in Lists, Begin(c, list)
      PROVE  (TxnType /\ Exclusive /\ Held)'
  <2>1. /\ txn' = [txn EXCEPT ![c] = [list |-> list, todo |-> list, done |-> <<>>]]
        /\ txn[c].done = <<>> /\ UNCHANGED jobVars
    BY <1>4 DEF Begin, NoTxn
  <2>2. list \in Seq(Entry)
    BY ListsAreBatches
  <2>3. TxnType' /\ \A d \in Calls : txn'[d].done = txn[d].done
    BY <2>1, <2>2 DEF TxnType
  <2>4. QED
    BY <2>1, <2>3 DEF Exclusive, Held, StillGood, jobVars
<1>5. ASSUME NEW j \in Jobs, SubmitJob(j) PROVE (TxnType /\ Exclusive /\ Held)'
  <2>1. \A i \in Jobs : jobs[i] # NULL => jobs'[i] # NULL
    BY OnlyLaunchSteps, JobsStay
  <2>2. UNCHANGED <<txn, ranks>>
    BY <1>5 DEF SubmitJob, Submit
  <2>3. \A c \in Calls : \A r \in DOMAIN txn[c].done : txn[c].done[r].job_id \in Jobs
    BY UncommittedRows DEF TxnType, RankRow
  <2>4. QED
    BY <2>1, <2>2, <2>3 DEF TxnType, Exclusive, Held, StillGood
<1>6. ASSUME NEW r \in Ranks, NEW m \in RankMoves, NEW reason \in Reasons \cup {NULL},
             SetStatus(r, m, reason)
      PROVE  (TxnType /\ Exclusive /\ Held)'
  <2>1. /\ UNCHANGED <<txn, jobs>> /\ \A c \in Calls : r \notin DOMAIN txn[c].done
        /\ \A q \in Ranks \ {r} : ranks'[q] = ranks[q]
    BY <1>6 DEF SetStatus, SetRankStatus, TypeOK
  <2>2. ASSUME NEW c \in Calls, NEW q \in DOMAIN txn[c].done
        PROVE  StillGood(txn[c].done[q], q)'
    <3>1. q \in Ranks \ {r}
      BY <2>1, <2>2, UncommittedRows DEF TxnType
    <3>2. QED
      BY <2>1, <2>2, <3>1 DEF Held, StillGood
  <2>3. QED
    BY <2>1, <2>2 DEF TxnType, Exclusive, Held
<1>7. ASSUME UNCHANGED vars PROVE (TxnType /\ Exclusive /\ Held)'
  BY <1>7 DEF vars, jobVars, TxnType, Exclusive, Held, StillGood
<1>8. ASSUME NEW c \in Calls, Step(c) \/ Lost(c) PROVE (TxnType /\ Exclusive /\ Held)'
  BY <1>2, <1>3, <1>8, UpsertHolds DEF Step, Refuse, DeadlockVictim, Lost
<1>9. (TxnType /\ Exclusive /\ Held)'
  BY <1>4, <1>5, <1>6, <1>7, <1>8 DEF Next
<1>10. QED
  BY <1>1, <1>9

LEMMA LocksHold == Spec => []TxnInv
<1>1. TxnInit => TypeOK
  BY DEF TxnInit, JobInit, TypeOK
<1>2. TxnInit => TxnType /\ Exclusive /\ Held
  <2>1. <<>> \in Uncommitted /\ DOMAIN <<>> = {} /\ <<>> \in Seq(Entry)
    <3>1. <<>> \in [{} -> RankRow]
      OBVIOUS
    <3>2. QED
      BY <3>1 DEF Uncommitted
  <2>2. QED
    BY <2>1 DEF TxnInit, NoTxn, TxnType, Exclusive, Held
<1>3. QED
  BY <1>1, <1>2, TxnStep, PTL DEF Spec, TxnInv

\* The tables are well typed, and what a call has left to do or holds
\* uncommitted are entries and rows.
THEOREM RankTxnTypeCorrect == Spec => []TxnTypeOK
<1>1. TxnInv => TxnTypeOK
  BY UncommittedRows DEF TxnInv, TxnType, TxnTypeOK
<1>2. QED
  BY <1>1, LocksHold, PTL

-----------------------------------------------------------------------------
(* Progress along the list: whole launches, and deadlocks *)

\* A call has upserted the entries of its list up to some place, holds their
\* ranks and the row its last entry gave each, and has the entries after it
\* to do.
Progress(t) ==
    \E n \in 0..Len(t.list) :
        /\ Len(t.todo) = Len(t.list) - n
        /\ \A i \in 1..Len(t.todo) : t.todo[i] = t.list[n + i]
        /\ \A r \in DOMAIN t.done : \E i \in 1..n : t.list[i].rank = r
        /\ \A i \in 1..n :
              /\ t.list[i].rank \in DOMAIN t.done
              /\ (\A k \in 1..n : k > i => t.list[k].rank # t.list[i].rank)
                    => t.done[t.list[i].rank] = t.list[i].row

InOrder(c) == Progress(txn[c])

LEMMA InOrderStep ==
    ASSUME TxnInv, [Next]_vars, NEW c \in Calls, InOrder(c)
    PROVE  InOrder(c)'
<1>1. txn \in [Calls -> [list : Lists \cup {<<>>}, todo : Seq(Entry), done : Uncommitted]]
  BY DEF TxnInv, TxnType
<1>2. CASE txn'[c] = txn[c]
  BY <1>2 DEF InOrder
<1>3. CASE txn'[c] = NoTxn
  <2>1. txn'[c].list = <<>> /\ txn'[c].todo = <<>> /\ txn'[c].done = <<>>
    BY <1>3 DEF NoTxn
  <2>2. Len(<<>>) = 0 /\ DOMAIN <<>> = {} /\ 0 \in 0..0 /\ 1..0 = {} /\ 0 - 0 = 0
    OBVIOUS
  <2>3. QED
    BY <2>1, <2>2 DEF InOrder, Progress
<1>4. ASSUME NEW list \in Lists, Begin(c, list) PROVE InOrder(c)'
  <2>1. txn'[c].list = list /\ txn'[c].todo = list /\ txn'[c].done = <<>>
    BY <1>1, <1>4 DEF Begin
  <2>2. list \in Seq(Entry)
    BY ListsAreBatches
  <2>3. 0 \in 0..Len(list) /\ Len(list) - 0 = Len(list) /\ DOMAIN <<>> = {} /\ 1..0 = {}
        /\ \A i \in 1..Len(list) : 0 + i = i
    BY <2>2
  <2>4. QED
    BY <2>1, <2>3 DEF InOrder, Progress
<1>5. CASE Upsert(c)
  <2> DEFINE e == Wanted(c)
             list == txn[c].list
             todo == txn[c].todo
             done == txn[c].done
  <2>1. /\ txn'[c].list = list /\ txn'[c].todo = Tail(todo)
        /\ txn'[c].done = [r \in DOMAIN done \cup {e.rank} |->
                             IF r = e.rank THEN e.row ELSE done[r]]
        /\ todo # <<>> /\ todo \in Seq(Entry) /\ e = todo[1]
    BY <1>1, <1>5 DEF Upsert, Wanted
  <2>2. list \in Seq(Entry)
    <3>1. list \in Lists \cup {<<>>} /\ <<>> \in Seq(Entry)
      BY <1>1
    <3>2. QED
      BY <3>1, ListsAreBatches
  <2>3. PICK n \in 0..Len(list) :
           /\ Len(todo) = Len(list) - n
           /\ \A i \in 1..Len(todo) : todo[i] = list[n + i]
           /\ \A r \in DOMAIN done : \E i \in 1..n : list[i].rank = r
           /\ \A i \in 1..n :
                 /\ list[i].rank \in DOMAIN done
                 /\ (\A k \in 1..n : k > i => list[k].rank # list[i].rank)
                       => done[list[i].rank] = list[i].row
    BY DEF InOrder, Progress
  <2> HIDE DEF e, list, todo, done
  <2>4. /\ Len(list) \in Nat /\ Len(todo) \in Nat /\ Len(todo) > 0
        /\ Len(Tail(todo)) = Len(todo) - 1
        /\ \A i \in 1..Len(Tail(todo)) : Tail(todo)[i] = todo[i + 1]
    BY <2>1, <2>2
  <2>5. n + 1 \in 0..Len(list) /\ Len(Tail(todo)) = Len(list) - (n + 1)
    BY <2>3, <2>4
  <2>6. \A i \in 1..Len(Tail(todo)) : Tail(todo)[i] = list[(n + 1) + i]
    <3>1. ASSUME NEW i \in 1..Len(Tail(todo)) PROVE Tail(todo)[i] = list[(n + 1) + i]
      <4>1. i + 1 \in 1..Len(todo) /\ n + (i + 1) = (n + 1) + i
        BY <2>3, <2>4
      <4>2. QED
        BY <2>3, <2>4, <4>1
    <3>2. QED
      BY <3>1
  <2>7. e = list[n + 1]
    <3>1. 1 \in 1..Len(todo)
      BY <2>4
    <3>2. QED
      BY <2>1, <2>3, <3>1
  <2>8. \A r \in DOMAIN txn'[c].done : \E i \in 1..(n + 1) : list[i].rank = r
    <3>1. DOMAIN txn'[c].done = DOMAIN done \cup {e.rank}
      BY <2>1
    <3>2. n + 1 \in 1..(n + 1) /\ \A i \in 1..n : i \in 1..(n + 1)
      BY <2>3
    <3>3. QED
      BY <2>3, <2>7, <3>1, <3>2
  <2>9. /\ n + 1 \in 0..Len(txn'[c].list)
        /\ Len(txn'[c].todo) = Len(txn'[c].list) - (n + 1)
    BY <2>1, <2>5
  <2>10. \A i \in 1..Len(txn'[c].todo) : txn'[c].todo[i] = txn'[c].list[(n + 1) + i]
    BY <2>1, <2>6
  <2>11. \A r \in DOMAIN txn'[c].done : \E i \in 1..(n + 1) : txn'[c].list[i].rank = r
    BY <2>1, <2>8
  <2>12. ASSUME NEW i \in 1..(n + 1)
         PROVE  /\ list[i].rank \in DOMAIN txn'[c].done
                /\ (\A k \in 1..(n + 1) : k > i => list[k].rank # list[i].rank)
                      => txn'[c].done[list[i].rank] = list[i].row
    <3>1. CASE i = n + 1
      BY <2>1, <2>7, <3>1
    <3>2. CASE i # n + 1
      <4>1. i \in 1..n /\ n + 1 \in 1..(n + 1) /\ n + 1 > i
            /\ \A k \in 1..n : k \in 1..(n + 1)
        BY <2>3, <3>2
      <4>2. list[i].rank \in DOMAIN done
        BY <2>3, <4>1
      <4>3. ASSUME \A k \in 1..(n + 1) : k > i => list[k].rank # list[i].rank
            PROVE  txn'[c].done[list[i].rank] = list[i].row
        <5>1. list[i].rank # e.rank
          BY <2>7, <4>1, <4>3
        <5>2. done[list[i].rank] = list[i].row
          BY <2>3, <4>1, <4>3
        <5>3. QED
          BY <2>1, <4>2, <5>1, <5>2
      <4>4. QED
        BY <2>1, <4>2, <4>3
    <3>3. QED
      BY <3>1, <3>2
  <2>13. \A i \in 1..(n + 1) :
           /\ txn'[c].list[i].rank \in DOMAIN txn'[c].done
           /\ (\A k \in 1..(n + 1) : k > i => txn'[c].list[k].rank # txn'[c].list[i].rank)
                 => txn'[c].done[txn'[c].list[i].rank] = txn'[c].list[i].row
    BY <2>1, <2>12
  <2>14. QED
    BY <2>9, <2>10, <2>11, <2>13 DEF InOrder, Progress
<1>6. \/ txn'[c] = txn[c] \/ txn'[c] = NoTxn
      \/ Upsert(c) \/ \E list \in Lists : Begin(c, list)
  <2>1. ASSUME NEW d \in Calls, Step(d) \/ Lost(d) \/ \E list \in Lists : Begin(d, list)
        PROVE  \/ d = c /\ (Upsert(c) \/ \E list \in Lists : Begin(c, list))
               \/ txn' = [txn EXCEPT ![d] = NoTxn]
               \/ txn'[c] = txn[c]
    <3>1. CASE Upsert(d)
      BY <1>1, <3>1 DEF Upsert
    <3>2. ASSUME NEW list \in Lists, Begin(d, list), d # c PROVE txn'[c] = txn[c]
      BY <1>1, <3>2 DEF Begin
    <3>3. QED
      BY <2>1, <3>1, <3>2 DEF Step, Refuse, DeadlockVictim, Commit, Lost, Rollback
  <2>2. ASSUME NEW d \in Calls, txn' = [txn EXCEPT ![d] = NoTxn]
        PROVE  txn'[c] = txn[c] \/ txn'[c] = NoTxn
    BY <1>1, <2>2
  <2>3. QED
    BY <2>1, <2>2 DEF Next, SubmitJob, SetStatus, vars
<1>7. QED
  BY <1>2, <1>3, <1>4, <1>5, <1>6

LEMMA ListsInOrder == Spec => [](\A c \in Calls : InOrder(c))
<1>1. TxnInit => \A c \in Calls : InOrder(c)
  <2>1. NoTxn.list = <<>> /\ NoTxn.todo = <<>> /\ NoTxn.done = <<>>
    BY DEF NoTxn
  <2>2. Len(<<>>) = 0 /\ DOMAIN <<>> = {} /\ 0 \in 0..0 /\ 1..0 = {} /\ 0 - 0 = 0
    OBVIOUS
  <2>3. QED
    BY <2>1, <2>2 DEF TxnInit, InOrder, Progress
<1>2. TxnInv /\ (\A c \in Calls : InOrder(c)) /\ [Next]_vars => (\A c \in Calls : InOrder(c))'
  BY InOrderStep
<1>3. QED
  BY <1>1, <1>2, LocksHold, PTL DEF Spec

\* What a call has written when nothing of its list is left is its list.
LEMMA CommitIsWhole ==
    ASSUME TxnInv, NEW c \in Calls, InOrder(c), Commit(c)
    PROVE  txn[c] # NoTxn /\ txn'[c] = NoTxn /\ Leaves(txn[c].list)
<1> DEFINE list == txn[c].list
           done == txn[c].done
<1>1. txn \in [Calls -> [list : Lists \cup {<<>>}, todo : Seq(Entry), done : Uncommitted]]
  BY DEF TxnInv, TxnType
<1>2. /\ txn[c].todo = <<>> /\ done # <<>> /\ txn'[c] = NoTxn
      /\ ranks' = [r \in Ranks |-> IF r \in DOMAIN done THEN done[r] ELSE ranks[r]]
  BY <1>1 DEF Commit
<1>3. list \in Seq(Entry)
  <2>1. list \in Lists \cup {<<>>} /\ <<>> \in Seq(Entry)
    BY <1>1
  <2>2. QED
    BY <2>1, ListsAreBatches
<1>4. PICK n \in 0..Len(list) :
         /\ Len(txn[c].todo) = Len(list) - n
         /\ \A r \in DOMAIN done : \E i \in 1..n : list[i].rank = r
         /\ \A i \in 1..n :
               /\ list[i].rank \in DOMAIN done
               /\ (\A k \in 1..n : k > i => list[k].rank # list[i].rank)
                     => done[list[i].rank] = list[i].row
  BY DEF InOrder, Progress
<1>5. 1..n = DOMAIN list
  <2>1. Len(list) \in Nat /\ DOMAIN list = 1..Len(list) /\ Len(<<>>) = 0
    BY <1>3
  <2>2. n = Len(list)
    BY <1>2, <1>4, <2>1
  <2>3. QED
    BY <2>1, <2>2
<1>6. \A i \in DOMAIN list : list[i].rank \in Ranks
  <2>1. \A i \in DOMAIN list : list[i] \in Entry
    BY <1>3
  <2>2. QED
    BY <2>1 DEF Entry
<1> HIDE DEF list, done
<1>7. ASSUME NEW i \in DOMAIN list,
             \A k \in DOMAIN list : k > i => list[k].rank # list[i].rank
      PROVE  ranks'[list[i].rank] = list[i].row
  BY <1>2, <1>4, <1>5, <1>6, <1>7
<1>8. ASSUME NEW r \in Ranks, \A i \in DOMAIN list : list[i].rank # r
      PROVE  ranks'[r] = ranks[r]
  BY <1>2, <1>4, <1>5, <1>8
<1>9. Leaves(list)
  BY <1>7, <1>8 DEF Leaves
<1>10. txn[c] # NoTxn
  BY <1>2 DEF NoTxn, done
<1>11. QED
  BY <1>2, <1>9, <1>10 DEF list

\* jobs.py launch_ranks: of a call's list nobody ever sees a part, for any
\* callers and lists, whatever they collide with and wherever they fail.
THEOREM LaunchIsAtomic == Spec => LaunchIsWhole
<1> DEFINE Whole == \/ UNCHANGED ranks
                    \/ \E c \in Calls : txn[c] # NoTxn /\ txn'[c] = NoTxn
                                        /\ Leaves(txn[c].list)
                    \/ \E r \in Ranks, m \in RankMoves, reason \in Reasons \cup {NULL} :
                          SetRankStatus(r, m.to, m.expected, reason)
<1>1. ASSUME TxnInv, \A c \in Calls : InOrder(c), [Next]_vars PROVE Whole
  <2>1. ASSUME NEW c \in Calls, Step(c) \/ Lost(c) \/ \E list \in Lists : Begin(c, list)
        PROVE  Whole
    <3>1. CASE Commit(c)
      BY <1>1, <3>1, CommitIsWhole
    <3>2. CASE ~Commit(c)
      BY <2>1, <3>2 DEF Step, Upsert, Refuse, DeadlockVictim, Lost, Rollback, Begin, jobVars
    <3>3. QED
      BY <3>1, <3>2
  <2>2. QED
    BY <1>1, <2>1 DEF Next, SubmitJob, Submit, SetStatus, vars, jobVars
<1>2. QED
  BY <1>1, LocksHold, ListsInOrder, PTL DEF Spec, LaunchIsWhole

\* Along a wait the rank waited for grows, if the list of the call that holds
\* it is in rank id order.
LEMMA WaitsAscend ==
    ASSUME TxnInv, NEW x \in Calls, NEW y \in Calls, NEW z \in Calls, InOrder(y),
           Waits(x, y), Waits(y, z),
           ~\E i, k \in DOMAIN txn[y].list :
               i < k /\ txn[y].list[k].rank < txn[y].list[i].rank
    PROVE  Wanted(x).rank < Wanted(y).rank
<1> DEFINE list == txn[y].list
           todo == txn[y].todo
<1>1. /\ Wanted(x).rank \in DOMAIN txn[y].done
      /\ Wanted(y).rank \in DOMAIN txn[z].done
      /\ todo # <<>> /\ y # z
  BY DEF Waits
<1>2. Wanted(x).rank # Wanted(y).rank
  BY <1>1 DEF TxnInv, Exclusive
<1>3. todo \in Seq(Entry) /\ list \in Seq(Entry)
  <2>1. todo \in Seq(Entry) /\ list \in Lists \cup {<<>>} /\ <<>> \in Seq(Entry)
    BY DEF TxnInv, TxnType
  <2>2. QED
    BY <2>1, ListsAreBatches
<1>4. PICK n \in 0..Len(list) :
         /\ Len(todo) = Len(list) - n
         /\ \A i \in 1..Len(todo) : todo[i] = list[n + i]
         /\ \A r \in DOMAIN txn[y].done : \E i \in 1..n : list[i].rank = r
  BY DEF InOrder, Progress
<1>5. Wanted(y) = todo[1]
  BY <1>1, <1>3 DEF Wanted
<1>6. \A i, k \in DOMAIN list : i < k => ~(list[k].rank < list[i].rank)
  OBVIOUS
<1> HIDE DEF list, todo
<1>7. Len(list) \in Nat /\ Len(todo) \in Nat /\ 1 \in 1..Len(todo) /\ DOMAIN list = 1..Len(list)
  BY <1>1, <1>3
<1>8. Wanted(y) = list[n + 1] /\ n + 1 \in DOMAIN list
  BY <1>4, <1>5, <1>7
<1>9. PICK i \in 1..n : list[i].rank = Wanted(x).rank
  BY <1>1, <1>4
<1>10. i \in DOMAIN list /\ i < n + 1
  BY <1>4, <1>7, <1>9
<1>11. ~(Wanted(y).rank < Wanted(x).rank)
  BY <1>6, <1>8, <1>9, <1>10
<1>12. \A k \in DOMAIN list : list[k].rank \in Nat
  <2>1. \A k \in DOMAIN list : list[k] \in Entry
    BY <1>3
  <2>2. QED
    BY <2>1, ListsAreBatches DEF Entry
<1>13. QED
  BY <1>2, <1>8, <1>9, <1>10, <1>11, <1>12

\* jobs.py launch_ranks locks in the order of its argument: calls that deadlock
\* have one among them whose ranks are not in rank id order, whatever the number
\* of calls on the cycle.
THEOREM DeadlocksNeedDisorder == Spec => []DeadlockNeedsDisorder
<1>1. ASSUME TxnInv, \A c \in Calls : InOrder(c) PROVE DeadlockNeedsDisorder
  <2> DEFINE Disordered(d) == \E i, k \in DOMAIN txn[d].list :
                                 i < k /\ txn[d].list[k].rank < txn[d].list[i].rank
  <2> SUFFICES ASSUME NEW c \in Calls, InCycle(c),
                      \A d \in Calls : InCycle(d) => ~Disordered(d)
               PROVE  FALSE
    BY DEF DeadlockNeedsDisorder
  <2>1. PICK S \in SUBSET Calls :
           /\ c \in S
           /\ \A x \in S : (\E y \in S : Waits(x, y)) /\ (\E y \in S : Waits(y, x))
    BY DEF InCycle
  <2>2. \A d \in S : ~Disordered(d)
    BY <2>1 DEF InCycle
  <2> DEFINE wanted == {Wanted(x).rank : x \in S}
  <2>3. wanted \in SUBSET Nat
    <3>1. ASSUME NEW x \in S PROVE Wanted(x).rank \in Nat
      <4>1. txn[x].todo \in Seq(Entry) /\ txn[x].todo # <<>>
        BY <1>1, <2>1 DEF TxnInv, TxnType, Waits
      <4>2. Wanted(x) \in Entry
        BY <4>1 DEF Wanted
      <4>3. QED
        BY <4>2, ListsAreBatches DEF Entry
    <3>2. QED
      BY <3>1
  <2>4. wanted # {}
    BY <2>1
  <2>5. PICK least \in wanted : \A r \in wanted : least <= r
    <3> HIDE DEF wanted
    <3>1. QED
      BY <2>3, <2>4, LeastOf
  <2>6. PICK y \in S : least = Wanted(y).rank
    BY <2>5
  <2>7. PICK x \in S, z \in S : Waits(x, y) /\ Waits(y, z)
    BY <2>1
  <2>8. Wanted(x).rank < Wanted(y).rank
    BY <1>1, <2>2, <2>7, WaitsAscend
  <2>9. Wanted(x).rank \in wanted /\ Wanted(y).rank \in wanted
    OBVIOUS
  <2> HIDE DEF wanted
  <2>10. least <= Wanted(x).rank /\ Wanted(x).rank \in Nat /\ least \in Nat
    BY <2>3, <2>5, <2>9
  <2>11. QED
    BY <2>6, <2>8, <2>10
<1>2. QED
  BY <1>1, LocksHold, ListsInOrder, PTL

-----------------------------------------------------------------------------
(* Telemetry *)

Stored == gpu_metrics \subseteq Metrics /\ IsFiniteSet(gpu_metrics)

\* The collector writes no job and no rank, so the store goes on as before.
LEMMA TelemetryKeepsJobSpec == TelemetrySpec => JobSpec
<1>1. TelemetryInit => JobInit
  BY DEF TelemetryInit
<1>2. [TelemetryNext]_telemetryVars => [JobNext]_jobVars
  BY DEF TelemetryNext, telemetryVars
<1>3. QED
  BY <1>1, <1>2, PTL DEF TelemetrySpec, JobSpec

LEMMA AlwaysStored == TelemetrySpec => []Stored
<1>1. TelemetryInit => Stored
  BY SamplesAreMetrics, BatchesAreFinite DEF TelemetryInit, Stored
<1>2. Stored /\ [TelemetryNext]_telemetryVars => Stored'
  <2> SUFFICES ASSUME Stored, [TelemetryNext]_telemetryVars PROVE Stored'
    OBVIOUS
  <2>1. ASSUME NEW batch \in Flushes, PutMany(batch) PROVE Stored'
    <3>1. gpu_metrics' = gpu_metrics \cup batch
      BY <2>1 DEF PutMany
    <3>2. batch \subseteq Metrics /\ IsFiniteSet(batch)
      BY SamplesAreMetrics, BatchesAreFinite
    <3>3. IsFiniteSet(gpu_metrics \cup batch)
      BY <3>2, FS_Union DEF Stored
    <3>4. QED
      BY <3>1, <3>2, <3>3 DEF Stored
  <2>2. CASE gpu_metrics' = gpu_metrics
    BY <2>2 DEF Stored
  <2>3. QED
    BY <2>1, <2>2 DEF TelemetryNext, telemetryVars
<1>3. QED
  BY <1>1, <1>2, PTL DEF TelemetrySpec

\* No call deletes a job, no call a sample.
LEMMA NothingIsDeleted ==
    ASSUME TypeOK, [TelemetryNext]_telemetryVars
    PROVE  /\ gpu_metrics \subseteq gpu_metrics'
           /\ \A j \in Jobs : jobs[j] # NULL => jobs'[j] # NULL
<1>1. gpu_metrics \subseteq gpu_metrics'
  BY DEF TelemetryNext, telemetryVars, PutMany
<1>2. [JobNext]_jobVars
  BY DEF TelemetryNext, telemetryVars
<1>3. QED
  BY <1>1, <1>2, JobsStay

\* A window of a job or a rank loses no sample.
LEMMA WindowsGrow ==
    ASSUME gpu_metrics \subseteq gpu_metrics',
           \A i \in Jobs : jobs[i] # NULL => jobs'[i] # NULL,
           \A r \in Ranks : ranks[r] # NULL =>
               ranks'[r] # NULL /\ ranks'[r].job_id = ranks[r].job_id,
           gpu_metrics \subseteq Metrics,
           NEW j \in Jobs
    PROVE  Shown(j) \subseteq Shown(j)'
<1>1. ASSUME NEW m \in gpu_metrics, OfItsRank(m) PROVE OfItsRank(m)'
  BY <1>1, SamplesAreMetrics DEF OfItsRank, GpuMetric
<1>2. ASSUME NEW u, NEW s, NEW e
      PROVE  RowsForJobWindow(u, j, s, e) \subseteq RowsForJobWindow(u, j, s, e)'
  BY <1>1 DEF RowsForJobWindow, RowsInWindow, JobSamples
<1>3. ASSUME NEW u, NEW r, NEW s, NEW e
      PROVE  RowsForRankWindow(u, j, r, s, e) \subseteq RowsForRankWindow(u, j, r, s, e)'
  BY <1>2 DEF RowsForRankWindow
<1>4. QED
  BY <1>2, <1>3 DEF Shown

\* Of a growing set of samples, the newest `limit` never get older.
LEMMA NewestAdvance ==
    ASSUME NEW rows, NEW more, rows \subseteq more, more \subseteq Metrics, IsFiniteSet(more),
           NEW limit \in Nat, limit > 0,
           NEW old \in Newest(rows, limit), NEW new \in Newest(more, limit),
           Cardinality(old) = limit, NEW n \in new
    PROVE  \E m \in old : MetricOf[m].ts <= MetricOf[n].ts
<1> SUFFICES ASSUME \A m \in old : ~(MetricOf[m].ts <= MetricOf[n].ts) PROVE FALSE
  OBVIOUS
<1>1. old \subseteq more /\ new \subseteq more
  BY DEF Newest
<1>2. IsFiniteSet(old) /\ IsFiniteSet(new)
  BY <1>1, FS_Subset
<1>3. \A m \in more : MetricOf[m].ts \in Nat
  BY SamplesAreMetrics DEF GpuMetric
<1>4. n \notin old
  BY <1>1, <1>3
<1>5. old \subseteq new
  BY <1>1 DEF Newest
<1>6. Cardinality(old \cup {n}) = limit + 1
  BY <1>2, <1>4, FS_AddElement
<1>7. Cardinality(old \cup {n}) <= Cardinality(new)
  BY <1>2, <1>5, FS_Subset
<1>8. Cardinality(new) <= limit
  BY FS_CardinalityType DEF Newest
<1>9. QED
  BY <1>2, <1>6, <1>7, <1>8, FS_CardinalityType

\* gpu_metric_store.py, the reads, against every write of jobs.py and
\* put_many: what a window of a job or a rank has shown it shows for good,
\* and no read of the newest samples goes back in time.
THEOREM TelemetryStaysTrue == TelemetrySpec => TelemetryStays
<1> DEFINE Keeps == \A r \in Ranks : ranks[r] # NULL =>
                        ranks'[r] # NULL /\ ranks'[r].job_id = ranks[r].job_id
           Grow == /\ ranks' # ranks \/ gpu_metrics' # gpu_metrics =>
                         \A j \in Jobs : Shown(j) \subseteq Shown(j)'
                   /\ gpu_metrics' # gpu_metrics => \A limit \in Limits :
                         /\ Advances(Latest(limit), limit)
                         /\ \A j \in Jobs :
                               /\ Advances(Recent(j, limit), limit)
                               /\ \A r \in Ranks : Advances(RowsForRank(j, r, limit), limit)
                               /\ \A role \in {"prefill", "decode"} :
                                     Advances(RowsForRole(j, role, limit), limit)
<1>1. ASSUME TypeOK, Stored, Stored', [TelemetryNext]_telemetryVars, Keeps
      PROVE  Grow
  <2>1. gpu_metrics \subseteq gpu_metrics' /\ gpu_metrics' \subseteq Metrics
        /\ IsFiniteSet(gpu_metrics')
    BY <1>1, NothingIsDeleted DEF Stored
  <2>2. \A j \in Jobs : Shown(j) \subseteq Shown(j)'
    BY <1>1, <2>1, NothingIsDeleted, WindowsGrow DEF Stored
  <2>3. ASSUME NEW limit \in Limits PROVE Advances(Latest(limit), limit)
    <3>1. limit \in Nat
      BY SamplesAreMetrics
    <3>2. QED
      BY <2>1, <3>1, NewestAdvance DEF Advances, Latest
  <2>4. ASSUME NEW limit \in Limits, NEW j \in Jobs PROVE Advances(Recent(j, limit), limit)
    <3>1. limit \in Nat
      BY SamplesAreMetrics
    <3>2. /\ JobSamples(j) \subseteq JobSamples(j)' /\ JobSamples(j)' \subseteq Metrics
          /\ IsFiniteSet(JobSamples(j)')
      BY <2>1, FS_Subset DEF JobSamples
    <3>3. QED
      BY <3>1, <3>2, NewestAdvance DEF Advances, Recent
  <2>5. ASSUME NEW limit \in Limits, NEW j \in Jobs, NEW r \in Ranks
        PROVE  Advances(RowsForRank(j, r, limit), limit)
    <3>1. limit \in Nat
      BY SamplesAreMetrics
    <3> DEFINE Rows == {m \in JobSamples(j) : MetricOf[m].rank_id = r}
               More == {m \in JobSamples(j)' : MetricOf[m].rank_id = r}
    <3>2. Rows \subseteq More /\ More \subseteq Metrics /\ IsFiniteSet(More)
      BY <2>1, FS_Subset DEF JobSamples
    <3>3. RowsForRank(j, r, limit)' = Newest(More, limit)
      BY DEF RowsForRank, Newest
    <3>4. RowsForRank(j, r, limit) = Newest(Rows, limit)
      BY DEF RowsForRank
    <3> HIDE DEF Rows, More
    <3>5. QED
      BY <3>1, <3>2, <3>3, <3>4, NewestAdvance DEF Advances
  <2>6. ASSUME NEW limit \in Limits, NEW j \in Jobs, NEW role \in {"prefill", "decode"}
        PROVE  Advances(RowsForRole(j, role, limit), limit)
    <3>1. limit \in Nat
      BY SamplesAreMetrics
    <3> DEFINE Rows == {m \in JobSamples(j) : MetricOf[m].role = role}
               More == {m \in JobSamples(j)' : MetricOf[m].role = role}
    <3>2. Rows \subseteq More /\ More \subseteq Metrics /\ IsFiniteSet(More)
      BY <2>1, FS_Subset DEF JobSamples
    <3>3. RowsForRole(j, role, limit)' = Newest(More, limit)
      BY DEF RowsForRole, Newest
    <3>4. RowsForRole(j, role, limit) = Newest(Rows, limit)
      BY DEF RowsForRole
    <3> HIDE DEF Rows, More
    <3>5. QED
      BY <3>1, <3>2, <3>3, <3>4, NewestAdvance DEF Advances
  <2>7. QED
    BY <2>2, <2>3, <2>4, <2>5, <2>6
<1>2. TelemetrySpec => []TypeOK
  BY TelemetryKeepsJobSpec, JobTypeCorrect, PTL
<1>3. TelemetrySpec => [][Keeps]_jobVars
  BY TelemetryKeepsJobSpec, JobRankKeepsItsJob, PTL DEF RankKeepsItsJob
<1>4. UNCHANGED jobVars /\ TypeOK => Keeps
  BY DEF jobVars
<1>5. QED
  BY <1>1, <1>2, <1>3, <1>4, AlwaysStored, PTL DEF TelemetrySpec, TelemetryStays

-----------------------------------------------------------------------------
(* Telemetry beside launches that are still open.  launch_ranks is atomic,
   so what holds of telemetry beside the atomic job store holds here. *)

\* The collector takes no part in a launch.
LEMMA TelemetryKeepsTxnSpec == RankTelemetrySpec => Spec
<1>1. RankTelemetryInit => TxnInit
  BY DEF RankTelemetryInit
<1>2. [RankTelemetryNext]_<<vars, gpu_metrics>> => [Next]_vars
  BY DEF RankTelemetryNext
<1>3. QED
  BY <1>1, <1>2, PTL DEF RankTelemetrySpec, Spec

\* Statement by statement or call by call, a read of telemetry cannot tell.
LEMMA ReadersSeeStoreSteps == RankTelemetrySpec => TelemetrySpec
<1>1. RankTelemetryInit => TelemetryInit
  BY DEF RankTelemetryInit, TxnInit, TelemetryInit
<1>2. ASSUME TxnInv, [RankTelemetryNext]_<<vars, gpu_metrics>>
      PROVE  [TelemetryNext]_telemetryVars
  <2>1. CASE Next /\ UNCHANGED gpu_metrics
    <3>1. [JobNext]_jobVars
      BY <1>2, <2>1, OnlyLaunchSteps
    <3>2. QED
      BY <2>1, <3>1 DEF TelemetryNext, telemetryVars
  <2>2. ASSUME NEW batch \in Flushes, PutMany(batch), UNCHANGED vars
        PROVE  TelemetryNext
    BY <2>2 DEF TelemetryNext, vars
  <2>3. CASE UNCHANGED <<vars, gpu_metrics>>
    BY <2>3 DEF vars, telemetryVars
  <2>4. QED
    BY <1>2, <2>1, <2>2, <2>3 DEF RankTelemetryNext
<1>3. QED
  BY <1>1, <1>2, TelemetryKeepsTxnSpec, LocksHold, PTL DEF RankTelemetrySpec, TelemetrySpec

\* The tables are well typed, what an open call holds are rows, and stored
\* samples are samples.
THEOREM RankTelemetryTypeCorrect == RankTelemetrySpec => []RankTelemetryTypeOK
<1>1. Stored /\ TxnTypeOK => RankTelemetryTypeOK
  BY DEF Stored, RankTelemetryTypeOK
<1>2. QED
  BY <1>1, TelemetryKeepsTxnSpec, RankTxnTypeCorrect, ReadersSeeStoreSteps, AlwaysStored, PTL

\* gpu_metric_store.py _koi_window against launch_ranks: nothing a window has
\* shown is taken back, although the launches that its joins wait for are
\* under way, collide and roll back while it is read.
THEOREM TelemetryStaysDuringLaunches == RankTelemetrySpec => TelemetryStays
BY ReadersSeeStoreSteps, TelemetryStaysTrue, PTL
=============================================================================
