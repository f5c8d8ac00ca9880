-------------------------- MODULE PlanHandoff_proofs --------------------------
(***************************************************************************)
(* The handoff for any number of jobs, ranks, plans, loops that apply      *)
(* plans, finishers and crashes.                                           *)
(* The processes' own variables are typed without looking at the tables    *)
(* they share with the job store (HandInv); so every step of theirs is one *)
(* the store allows, and what JobStore_proofs shows of it holds here.      *)
(***************************************************************************)
EXTENDS PlanHandoff, JobStore_proofs, FiniteSetTheorems, WellFoundedInduction

\* What a worker carries from call to call: polled plans exist, and while it
\* tears down or launches it knows the job.
Sound(local) ==
    /\ local \in Local
    /\ \A p \in local.todo : plans[p] # NULL
    /\ local.pc \in {"read_ranks", "stop", "launch"} => local.job \in Jobs

HandInv == PlanTypeOK /\ LocalTypeOK /\ \A w \in Orca : Sound(worker[w])

-----------------------------------------------------------------------------
(* The plans table *)

PlanStep ==
    \/ \E p \in Plans, actions \in Actions : NextPlan(p) /\ Create(p, actions)
    \/ \E p \in Unapplied : MarkApplied(p)

\* Whoever takes a step, the plans table changes by create and mark_applied.
LEMMA OnlyPlanSteps == ASSUME [Next]_vars PROVE [PlanStep]_planVars
<1>1. ASSUME KoiCreate PROVE [PlanStep]_planVars
  <2> DEFINE seen == {j \in Jobs : koi.view[j] # {}}
  <2>1. PICK p \in Plans, actions \in [seen -> ActionType] : NextPlan(p) /\ Create(p, actions)
    BY <1>1 DEF KoiCreate
  <2>2. actions \in Actions
    <3>1. seen \in SUBSET Jobs
      OBVIOUS
    <3>2. QED
      BY <3>1 DEF Actions
  <2>3. QED
    BY <2>1, <2>2 DEF PlanStep
<1>2. ASSUME NEW w \in Orca, Mark(w) PROVE [PlanStep]_planVars
  <2>1. CASE worker[w].plan \in Unapplied
    BY <1>2, <2>1 DEF Mark, PlanStep
  <2>2. CASE worker[w].plan \notin Unapplied
    BY <1>2, <2>2 DEF Mark, MarkApplied
  <2>3. QED
    BY <2>1, <2>2
<1>3. CASE UNCHANGED vars
  BY <1>3 DEF vars
<1>4. ASSUME NEW w \in Orca, WorkerStep(w), ~Mark(w) PROVE UNCHANGED planVars
  BY <1>4 DEF WorkerStep, Poll, ReadRanks, Skip, Place, Preempt, Swap, StopRank, Launch
<1>5. ASSUME NEW w \in Orca, Crash(w) \/ \E j \in Jobs : Finish(w, j)
      PROVE  UNCHANGED planVars
  BY <1>5 DEF Crash, Finish
<1>6. CASE KoiRead \/ \E j \in Jobs : SubmitJob(j)
  BY <1>6 DEF KoiRead, SubmitJob
<1>7. CASE \E r \in Ranks : RankUp(r) \/ RankFails(r)
  BY <1>7 DEF RankUp, RankFails
<1>8. QED
  BY <1>1, <1>2, <1>3, <1>4, <1>5, <1>6, <1>7 DEF Next

\* create and mark_applied keep the table typed and delete no plan.
LEMMA PlansStay ==
    ASSUME PlanTypeOK, [PlanStep]_planVars
    PROVE  /\ PlanTypeOK'
           /\ \A p \in Plans : plans[p] # NULL =>
                 /\ plans'[p] # NULL
                 /\ plans'[p].actions = plans[p].actions
                 /\ plans[p].status = "applied" => plans'[p].status = "applied"
<1>1. ASSUME NEW p \in Plans, NEW actions \in Actions, Create(p, actions)
      PROVE  /\ PlanTypeOK'
             /\ plans' = [plans EXCEPT ![p] = [status |-> "created", actions |-> actions]]
             /\ plans[p] = NULL
  BY <1>1 DEF Create, PlanTypeOK, PlanRow
<1>2. ASSUME NEW p \in Unapplied, MarkApplied(p)
      PROVE  /\ PlanTypeOK'
             /\ plans' = [plans EXCEPT ![p].status = "applied"]
             /\ plans[p] \in PlanRow /\ plans'[p] \in PlanRow
  <2>1. plans[p] \in PlanRow
    BY <1>2 DEF PlanTypeOK, Unapplied
  <2>2. /\ plans' = [plans EXCEPT ![p].status = "applied"]
        /\ markers' = [markers EXCEPT ![p] = @ + 1]
        /\ UNCHANGED plan_announced
    BY <1>2 DEF MarkApplied
  <2>3. [plans[p] EXCEPT !.status = "applied"] \in PlanRow
    BY <2>1 DEF PlanRow
  <2>4. p \in Plans
    BY DEF Unapplied
  <2>5. QED
    BY <2>1, <2>2, <2>3, <2>4 DEF PlanTypeOK
<1>3. CASE UNCHANGED planVars
  BY <1>3 DEF planVars, PlanTypeOK
<1>4. CASE \E p \in Plans, actions \in Actions : Create(p, actions)
  BY <1>1, <1>4 DEF PlanTypeOK
<1>5. CASE \E p \in Unapplied : MarkApplied(p)
  <2>1. PICK p \in Unapplied : MarkApplied(p)
    BY <1>5
  <2>2. /\ \A q \in Plans \ {p} : plans'[q] = plans[q]
        /\ plans'[p].actions = plans[p].actions /\ plans'[p].status = "applied"
    BY <1>2, <2>1 DEF PlanTypeOK, Unapplied, PlanRow
  <2>3. plans'[p] # NULL
    BY <1>2, <2>1, NullIsNoPlan
  <2>4. QED
    BY <1>2, <2>1, <2>2, <2>3
<1>6. QED
  BY <1>3, <1>4, <1>5 DEF PlanStep

-----------------------------------------------------------------------------
(* The processes' local variables *)

\* The oldest of some plans is one of them, and no younger than any.
LEMMA OldestIsOne ==
    ASSUME NEW ps \in SUBSET Plans, ps # {}
    PROVE  Oldest(ps) \in ps /\ \A p \in ps : Oldest(ps) <= p
<1> DEFINE Less == {pair \in Nat \X Nat : pair[1] < pair[2]}
<1>1. IsWellFoundedOn(Less, Nat)
  BY NatLessThanWellFounded, Zenon DEF OpToRel
<1>2. ps \subseteq Nat
  BY PlansAreOrdered
<1>3. PICK p \in ps : \A q \in ps : <<q, p>> \notin Less
  <2> HIDE DEF Less
  <2>1. QED
    BY <1>1, <1>2, WFMin
<1>4. ASSUME NEW q \in ps PROVE p <= q
  <2>1. <<q, p>> \in Nat \X Nat
    BY <1>2
  <2>2. ~(<<q, p>>[1] < <<q, p>>[2])
    BY <1>3, <2>1
  <2>3. QED
    BY <1>2, <2>2
<1>5. QED
  BY <1>4 DEF Oldest

LEMMA TakeIsSound ==
    ASSUME PlanTypeOK, NEW w \in Orca, NEW ps \in SUBSET Plans, \A p \in ps : plans[p] # NULL
    PROVE  Sound(Take(w, ps))
<1>1. CASE ps = {}
  BY <1>1 DEF Take, Idle, Sound, Local
<1>2. CASE ps # {}
  <2>1. Oldest(ps) \in ps /\ Oldest(ps) \in Plans
    BY <1>2, OldestIsOne
  <2>2. plans[Oldest(ps)] \in PlanRow
    BY <2>1 DEF PlanTypeOK
  <2>3. DOMAIN plans[Oldest(ps)].actions \subseteq Jobs
    BY <2>2 DEF PlanRow, Actions
  <2>4. QED
    BY <1>2, <2>1, <2>3 DEF Take, Idle, Sound, Local
<1>3. QED
  BY <1>1, <1>2

LEMMA PastIsSound ==
    ASSUME HandInv, NEW w \in Orca, NEW j \in Jobs
    PROVE  Sound(Past(w, j))
  BY DEF HandInv, Sound, Past, Local

LEMMA TeardownIsSound ==
    ASSUME HandInv, NEW w \in Orca, worker[w].job \in Jobs
    PROVE  Sound(AfterTeardown(w))
<1>1. CASE worker[w].after = "act"
  BY <1>1, PastIsSound DEF AfterTeardown
<1>2. CASE worker[w].after = "launch"
  BY <1>2 DEF AfterTeardown, HandInv, Sound, Local
<1>3. CASE worker[w].after = "idle"
  BY <1>3 DEF AfterTeardown, Idle, Sound, Local
<1>4. QED
  BY <1>1, <1>2, <1>3 DEF HandInv, Sound, Local

\* Wherever a worker goes, it goes there soundly.
LEMMA WorkersGoSoundly ==
    ASSUME HandInv, NEW w \in Orca, WorkerStep(w)
    PROVE  \E local : Sound(local) /\ Steps(w, local) /\ disturbed' \subseteq Jobs
<1> USE DEF HandInv, LocalTypeOK, Goes, TakesUp
<1>1. CASE Poll(w)
  BY <1>1, TakeIsSound DEF Poll, Unapplied
<1>2. CASE ReadRanks(w)
  <2>1. worker[w].job \in Jobs /\ Sound(worker[w])
    BY <1>2 DEF ReadRanks, Sound
  <2>2. Sound(AfterTeardown(w))
    BY <2>1, TeardownIsSound
  <2>3. Sound([worker[w] EXCEPT !.pc = "stop", !.stopping = ActiveRanks(worker[w].job)])
    BY <2>1 DEF Sound, Local, ActiveRanks, RanksOf
  <2>4. QED
    BY <1>2, <2>2, <2>3 DEF ReadRanks
<1>3. CASE Mark(w)
  <2>1. Sound(worker[w]) /\ worker[w].todo \in SUBSET Plans
    BY DEF Sound, Local
  <2>2. Sound(Take(w, worker[w].todo \ {worker[w].plan}))
    BY <2>1, TakeIsSound DEF Sound
  <2>3. QED
    BY <1>3, <2>2 DEF Mark
<1>4. ASSUME NEW j \in Jobs, Skip(w, j) \/ Place(w, j) \/ Preempt(w, j) \/ Swap(w, j)
      PROVE  \E local : Sound(local) /\ Steps(w, local) /\ disturbed' \subseteq Jobs
  <2>1. Sound(worker[w]) /\ Sound(Past(w, j))
    BY PastIsSound
  <2>2. Sound([worker[w] EXCEPT !.pc = "launch", !.job = j])
    BY <2>1 DEF Sound, Local
  <2>3. Sound([worker[w] EXCEPT !.pc = "read_ranks", !.job = j, !.after = "act"])
    BY <2>1 DEF Sound, Local
  <2>4. Sound([worker[w] EXCEPT !.pc = "read_ranks", !.job = j, !.after = "launch"])
    BY <2>1 DEF Sound, Local
  <2>5. QED
    BY <1>4, <2>1, <2>2, <2>3, <2>4 DEF Skip, Place, Preempt, Swap
<1>5. ASSUME NEW r \in Ranks, StopRank(w, r)
      PROVE  \E local : Sound(local) /\ Steps(w, local) /\ disturbed' \subseteq Jobs
  <2>1. worker[w].job \in Jobs /\ Sound(worker[w])
    BY <1>5 DEF StopRank, Sound
  <2>2. Sound(AfterTeardown(w))
    BY <2>1, TeardownIsSound
  <2>3. Sound([worker[w] EXCEPT !.stopping = @ \ {r}])
    BY <2>1 DEF Sound, Local
  <2>4. QED
    BY <1>5, <2>2, <2>3 DEF StopRank
<1>6. ASSUME NEW r \in Ranks, Launch(w, r)
      PROVE  \E local : Sound(local) /\ Steps(w, local) /\ disturbed' \subseteq Jobs
  BY <1>6, PastIsSound DEF Launch, Sound
<1>7. QED
  BY <1>1, <1>2, <1>3, <1>4, <1>5, <1>6 DEF WorkerStep

LEMMA HandStep == ASSUME HandInv, [Next]_vars PROVE HandInv'
<1>1. PlanTypeOK' /\ \A p \in Plans : plans[p] # NULL => plans'[p] # NULL
  BY OnlyPlanSteps, PlansStay DEF HandInv
<1>2. ASSUME NEW local, Sound(local)
      PROVE  /\ local \in Local
             /\ \A p \in local.todo : plans'[p] # NULL
             /\ local.pc \in {"read_ranks", "stop", "launch"} => local.job \in Jobs
  BY <1>1, <1>2 DEF Sound, Local
<1>3. ASSUME NEW w \in Orca, NEW local, Sound(local), Steps(w, local), disturbed' \subseteq Jobs
      PROVE  HandInv'
  <2>1. worker' = [worker EXCEPT ![w] = local] /\ UNCHANGED <<koi, crashes, stale, dead_jobs>>
    BY <1>3 DEF Steps
  <2>2. (\A v \in Orca : Sound(worker[v]))'
    BY <1>2, <1>3, <2>1 DEF HandInv, LocalTypeOK, Sound
  <2>3. LocalTypeOK'
    BY <1>2, <1>3, <2>1 DEF HandInv, LocalTypeOK
  <2>4. QED
    BY <1>1, <2>2, <2>3 DEF HandInv
<1>4. ASSUME UNCHANGED worker, LocalTypeOK' PROVE HandInv'
  <2>1. (\A v \in Orca : Sound(worker[v]))'
    BY <1>2, <1>4 DEF HandInv, Sound
  <2>2. QED
    BY <1>1, <1>4, <2>1 DEF HandInv
<1>5. CASE KoiRead
  <2>1. koi.pc \in 1..3 /\ ListedStatuses[koi.pc] \in JobStatus
    BY <1>5 DEF KoiRead, HandInv, LocalTypeOK, ListedStatuses, JobStatus
  <2>2. koi' \in [pc : 1..4, view : [Jobs -> SUBSET JobStatus]]
    BY <1>5, <2>1 DEF KoiRead, HandInv, LocalTypeOK
  <2>3. QED
    BY <1>4, <1>5, <2>2 DEF KoiRead, HandInv, LocalTypeOK
<1>6. CASE KoiCreate
  <2>1. koi' \in [pc : 1..4, view : [Jobs -> SUBSET JobStatus]]
    BY <1>6 DEF KoiCreate
  <2>2. dead_jobs' \subseteq Plans
    BY <1>6 DEF KoiCreate, HandInv, LocalTypeOK
  <2>3. QED
    BY <1>4, <1>6, <2>1, <2>2 DEF KoiCreate, HandInv, LocalTypeOK
<1>7. ASSUME NEW w \in Orca, WorkerStep(w) PROVE HandInv'
  BY <1>3, <1>7, WorkersGoSoundly
<1>8. ASSUME NEW w \in Orca, Crash(w) PROVE HandInv'
  <2>1. worker' = [worker EXCEPT ![w] = Idle] /\ crashes' \in 0..MaxCrashes
        /\ UNCHANGED <<koi, stale, dead_jobs>> /\ disturbed' \subseteq Jobs
    BY <1>8, CrashBound DEF Crash, HandInv, LocalTypeOK
  <2>2. Sound(Idle)
    BY DEF Sound, Idle, Local
  <2>3. (\A v \in Orca : Sound(worker[v]))'
    BY <1>2, <2>1, <2>2 DEF HandInv, LocalTypeOK, Sound
  <2>4. LocalTypeOK'
    BY <1>2, <2>1, <2>2 DEF HandInv, LocalTypeOK
  <2>5. QED
    BY <1>1, <2>3, <2>4 DEF HandInv
<1>9. ASSUME NEW w \in Orca, NEW j \in Jobs, Finish(w, j) PROVE HandInv'
  <2>1. Sound([Idle EXCEPT !.pc = "read_ranks", !.job = j])
    BY DEF Sound, Idle, Local
  <2>2. QED
    BY <1>3, <1>9, <2>1 DEF Finish, TakesUp, HandInv, LocalTypeOK
<1>10. CASE UNCHANGED handoffVars
  BY <1>4, <1>10 DEF handoffVars, HandInv, LocalTypeOK
<1>11. QED
  BY <1>5, <1>6, <1>7, <1>8, <1>9, <1>10
     DEF Next, vars, SubmitJob, RankUp, RankFails

\* The processes' locals and the plans table are well typed and plans in
\* hand exist, whatever the job store does.
LEMMA HandsAreSound == Spec => []HandInv
<1>1. HandoffInit => HandInv
  BY CrashBound DEF HandoffInit, PlanInit, HandInv, PlanTypeOK, LocalTypeOK, Idle, Local, Sound
<1>2. QED
  BY <1>1, HandStep, PTL DEF Spec

-----------------------------------------------------------------------------
(* The job store under the handoff *)

\* Every compare-and-set Orca asks for is one of the store's moves.
LEMMA OnlyStoreSteps == ASSUME HandInv, [Next]_vars PROVE [JobNext]_jobVars
<1> USE DEF JobNext
<1>1. ASSUME NEW j \in Jobs, NEW m \in Moves, NEW reason \in Reasons \cup {NULL},
             Transition(j, m.to, m.expected, reason)
      PROVE  JobNext
  BY <1>1 DEF NextJob
<1>2. ASSUME NEW r \in Ranks, NEW m \in RankMoves, NEW reason \in Reasons \cup {NULL},
             SetRankStatus(r, m.to, m.expected, reason)
      PROVE  JobNext
  BY <1>2 DEF NextRank
<1>3. ASSUME NEW w \in Orca, NEW j \in Jobs, Place(w, j) PROVE [JobNext]_jobVars
  <2> DEFINE m == [to |-> "running", expected |-> {"waiting", "paused"}]
  <2>1. m \in Moves /\ m.to = "running" /\ m.expected = {"waiting", "paused"}
    BY OrcaMoves
  <2>2. Transition(j, m.to, m.expected, NULL) \/ UNCHANGED jobVars
    BY <1>3, <2>1 DEF Place
  <2>3. QED
    BY <1>1, <2>1, <2>2
<1>4. ASSUME NEW w \in Orca, NEW j \in Jobs, Preempt(w, j) PROVE [JobNext]_jobVars
  <2> DEFINE m == [to |-> "paused", expected |-> {"running"}]
  <2>1. m \in Moves /\ m.to = "paused" /\ m.expected = {"running"}
    BY OrcaMoves
  <2>2. Transition(j, m.to, m.expected, NULL) \/ UNCHANGED jobVars
    BY <1>4, <2>1 DEF Preempt
  <2>3. QED
    BY <1>1, <2>1, <2>2
<1>5. ASSUME NEW w \in Orca, NEW j \in Jobs, Finish(w, j) PROVE [JobNext]_jobVars
  <2> DEFINE m == [to |-> "finished", expected |-> {"running"}]
             n == [to |-> "finished", expected |-> {"waiting", "running", "paused"}]
  <2>1. /\ m \in Moves /\ m.to = "finished" /\ m.expected = {"running"}
        /\ n \in Moves /\ n.to = "finished" /\ n.expected = {"waiting", "running", "paused"}
    BY OrcaMoves
  <2>2. \/ Transition(j, m.to, m.expected, NULL)
        \/ \E reason \in Reasons : Transition(j, n.to, n.expected, reason)
    BY <1>5, <2>1 DEF Finish
  <2>3. QED
    BY <1>1, <2>1, <2>2
<1>6. ASSUME NEW r \in Ranks, NEW reason \in Reasons \cup {NULL},
             \/ SetRankStatus(r, "running", {"launching"}, reason)
             \/ SetRankStatus(r, "stopped", ActiveRankStatuses, reason)
             \/ SetRankStatus(r, "failed", ActiveRankStatuses, reason)
      PROVE  JobNext
  <2> DEFINE up == [to |-> "running", expected |-> {"launching"}]
             stop == [to |-> "stopped", expected |-> ActiveRankStatuses]
             fail == [to |-> "failed", expected |-> ActiveRankStatuses]
  <2>1. /\ up \in RankMoves /\ up.to = "running" /\ up.expected = {"launching"}
        /\ stop \in RankMoves /\ stop.to = "stopped" /\ stop.expected = ActiveRankStatuses
        /\ fail \in RankMoves /\ fail.to = "failed" /\ fail.expected = ActiveRankStatuses
    BY OrcaMoves
  <2>2. \/ SetRankStatus(r, up.to, up.expected, reason)
        \/ SetRankStatus(r, stop.to, stop.expected, reason)
        \/ SetRankStatus(r, fail.to, fail.expected, reason)
    BY <1>6, <2>1
  <2>3. QED
    BY <1>2, <2>1, <2>2
<1>7. ASSUME NEW w \in Orca, NEW r \in Ranks, StopRank(w, r) PROVE [JobNext]_jobVars
  BY <1>6, <1>7 DEF StopRank
<1>8. ASSUME NEW w \in Orca, NEW r \in Ranks, Launch(w, r) PROVE [JobNext]_jobVars
  <2> DEFINE row == [ job_id |-> worker[w].job, plan_id |-> worker[w].plan,
                      status |-> "launching", reason_code |-> NULL ]
  <2>1. row \in RankRow
    BY <1>8 DEF Launch, HandInv, Sound, Local, RankRow, RankStatus
  <2>2. [q \in {r} |-> row] \in Batches
    <3>1. {r} \in (SUBSET Ranks) \ {{}} /\ [q \in {r} |-> row] \in [{r} -> RankRow]
      BY <2>1
    <3>2. QED
      BY <3>1 DEF Batches
  <2>3. LaunchRanks([q \in {r} |-> row])
    BY <1>8 DEF Launch
  <2>4. QED
    BY <2>2, <2>3 DEF NextRank
<1>9. ASSUME NEW w \in Orca, WorkerStep(w) PROVE [JobNext]_jobVars
  BY <1>3, <1>4, <1>7, <1>8, <1>9 DEF WorkerStep, Poll, ReadRanks, Mark, Skip, Swap
<1>10. ASSUME NEW j \in Jobs, SubmitJob(j) PROVE [JobNext]_jobVars
  BY <1>10 DEF SubmitJob, NextJob
<1>11. ASSUME NEW r \in Ranks, RankUp(r) \/ RankFails(r) PROVE [JobNext]_jobVars
  BY <1>6, <1>11 DEF RankUp, RankFails
<1>12. QED
  BY <1>5, <1>9, <1>10, <1>11 DEF Next, KoiRead, KoiCreate, Crash, vars

\* Orca and Koi over the stores are callers of the job store like any other:
\* what JobStore_proofs shows of the store holds of the handoff.
LEMMA HandoffUsesTheStore == Spec => JobSpec
<1>1. HandoffInit => JobInit
  BY DEF HandoffInit
<1>2. QED
  BY <1>1, HandsAreSound, OnlyStoreSteps, PTL DEF Spec, JobSpec

\* Every state of the handoff is well typed: the tables, what each process
\* has in hand, and the histories.
THEOREM HandoffTypeCorrect == Spec => []HandoffTypeOK
<1>1. HandInv /\ TypeOK => HandoffTypeOK
  BY DEF HandInv, HandoffTypeOK
<1>2. QED
  BY <1>1, HandsAreSound, HandoffUsesTheStore, JobTypeCorrect, PTL

-----------------------------------------------------------------------------
(* What the handoff promises *)

\* plans.py mark_applied: however many workers poll, crash and restart, one
\* call is told True for each applied plan.
THEOREM HandoffOneMarker == Spec => []OneMarker
<1>1. HandoffInit => OneMarker
  BY DEF HandoffInit, PlanInit, OneMarker
<1>2. PlanTypeOK /\ OneMarker /\ [PlanStep]_planVars => OneMarker'
  <2> SUFFICES ASSUME PlanTypeOK, OneMarker, [PlanStep]_planVars PROVE OneMarker'
    OBVIOUS
  <2>1. \A p \in Plans : plans[p] # NULL => plans'[p] # NULL
    BY PlansStay
  <2>2. ASSUME NEW p \in Plans, NEW actions \in Actions, Create(p, actions) PROVE OneMarker'
    <3>1. plans'[p].status = "created" /\ \A q \in Plans \ {p} : plans'[q] = plans[q]
      BY <2>2 DEF Create, PlanTypeOK
    <3>2. QED
      BY <2>2, <3>1 DEF Create, OneMarker, Unapplied
  <2>3. ASSUME NEW p \in Unapplied, MarkApplied(p) PROVE OneMarker'
    <3>1. /\ p \in Plans /\ plans[p] # NULL /\ plans[p] \in PlanRow
          /\ plans' = [plans EXCEPT ![p].status = "applied"]
          /\ markers' = [markers EXCEPT ![p] = @ + 1]
      BY <2>3 DEF MarkApplied, Unapplied, PlanTypeOK
    <3>2. plans'[p].status = "applied" /\ \A q \in Plans \ {p} : plans'[q] = plans[q]
      BY <3>1 DEF PlanTypeOK, PlanRow
    <3>3. markers'[p] = 1 /\ \A q \in Plans \ {p} : markers'[q] = markers[q]
      BY <2>3, <3>1 DEF OneMarker, PlanTypeOK
    <3>4. QED
      BY <2>1, <3>1, <3>2, <3>3 DEF OneMarker, Unapplied
  <2>4. CASE UNCHANGED planVars
    BY <2>4 DEF planVars, OneMarker, Unapplied
  <2>5. QED
    BY <2>2, <2>3, <2>4 DEF PlanStep
<1>3. HandInv /\ [Next]_vars => PlanTypeOK /\ [PlanStep]_planVars
  BY OnlyPlanSteps DEF HandInv
<1>4. QED
  BY <1>1, <1>2, <1>3, HandsAreSound, PTL DEF Spec

\* The plans table says from the start what it always will: announced as soon
\* as it is there, the actions Koi wrote, applied for good.
THEOREM HandoffPlansAreImmutable == Spec => PlansAreImmutable
<1> DEFINE Announced == plan_announced = {p \in Plans : plans[p] # NULL}
           Keeps == \A p \in Plans : plans[p] # NULL =>
                       /\ plans'[p] # NULL
                       /\ plans'[p].actions = plans[p].actions
                       /\ plans[p].status = "applied" => plans'[p].status = "applied"
<1>1. HandoffInit => Announced
  BY DEF HandoffInit, PlanInit
<1>2. ASSUME PlanTypeOK, Announced, [PlanStep]_planVars PROVE Announced'
  <2>1. ASSUME NEW p \in Plans, NEW actions \in Actions, Create(p, actions) PROVE Announced'
    <3>1. /\ plans' = [plans EXCEPT ![p] = [status |-> "created", actions |-> actions]]
          /\ plan_announced' = plan_announced \cup {p}
      BY <2>1 DEF Create
    <3>2. [status |-> "created", actions |-> actions] \in PlanRow
      BY DEF PlanRow
    <3>3. /\ plans'[p] = [status |-> "created", actions |-> actions]
          /\ \A q \in Plans \ {p} : plans'[q] = plans[q]
      BY <1>2, <3>1 DEF PlanTypeOK
    <3>4. plans'[p] # NULL
      BY <3>2, <3>3, NullIsNoPlan
    <3>5. QED
      BY <1>2, <3>1, <3>3, <3>4
  <2>2. ASSUME NEW p \in Unapplied, MarkApplied(p) PROVE Announced'
    <3>1. UNCHANGED plan_announced /\ plans' = [plans EXCEPT ![p].status = "applied"]
      BY <2>2 DEF MarkApplied
    <3>2. p \in Plans /\ plans[p] # NULL /\ \A q \in Plans \ {p} : plans'[q] = plans[q]
      BY <1>2, <3>1 DEF Unapplied, PlanTypeOK
    <3>3. plans'[p] # NULL
      BY <1>2, <3>2, PlansStay
    <3>4. QED
      BY <1>2, <3>1, <3>2, <3>3
  <2>3. CASE UNCHANGED planVars
    BY <1>2, <2>3 DEF planVars
  <2>4. QED
    BY <1>2, <2>1, <2>2, <2>3 DEF PlanStep
<1>3. HandInv /\ [Next]_vars => PlanTypeOK /\ [PlanStep]_planVars
  BY OnlyPlanSteps DEF HandInv
<1>4. HandInv /\ [Next]_vars => Keeps
  BY <1>3, PlansStay
<1>5. Spec => [][Announced' /\ Keeps]_vars
  BY <1>1, <1>2, <1>3, <1>4, HandsAreSound, PTL DEF Spec
<1>6. Announced' /\ Keeps =>
         /\ plan_announced' = {p \in Plans : plans'[p] # NULL}
         /\ Keeps
  OBVIOUS
<1>7. QED
  BY <1>5, <1>6, PTL DEF PlansAreImmutable

\* Koi reads waiting, running and paused jobs one after the other, while jobs
\* move from list to list; a job that was finished when it began is in none.
THEOREM HandoffNoDeadJobPlanned == Spec => []NoDeadJobPlanned
<1> DEFINE Unseen == \A j \in Jobs : koi.pc = 1 => koi.view[j] = {}
           Gone == \A j \in stale : Finished(j) /\ koi.view[j] = {}
           Inv == Unseen /\ Gone /\ NoDeadJobPlanned
           Stay == \A j \in Jobs : Finished(j) => Finished(j)'
           Final == \A j \in Jobs : Finished(j) =>
                       /\ Finished(j)'
                       /\ jobs'[j].finish_reason = jobs[j].finish_reason
                       /\ jobs'[j].has_finished_at = jobs[j].has_finished_at
<1>1. HandoffInit => Inv
  BY DEF HandoffInit, NoDeadJobPlanned
<1>2. ASSUME HandoffTypeOK, Inv, [Next]_vars, Stay PROVE Inv'
  <2> USE DEF HandoffTypeOK, LocalTypeOK, NoDeadJobPlanned
  <2>1. CASE KoiRead
    <3>1. koi.pc \in 1..3 /\ koi'.pc # 1 /\ UNCHANGED jobVars
      BY <1>2, <2>1 DEF KoiRead
    <3>2. ASSUME NEW j \in Jobs, Finished(j), koi.view[j] = {} PROVE koi'.view[j] = {}
      <4>1. j \notin JobsWithStatus(ListedStatuses[koi.pc])
        BY <3>1, <3>2 DEF JobsWithStatus, Matches, Finished, ListedStatuses
      <4>2. QED
        BY <2>1, <3>2, <4>1 DEF KoiRead
    <3>3. stale' = IF koi.pc = 1 THEN {j \in Jobs : Finished(j)} ELSE stale
      BY <2>1 DEF KoiRead
    <3>4. QED
      BY <1>2, <2>1, <3>1, <3>2, <3>3 DEF KoiRead
  <2>2. CASE KoiCreate
    <3>1. {j \in Jobs : koi.view[j] # {}} \cap stale = {}
      BY <1>2
    <3>2. dead_jobs' = dead_jobs
      BY <2>2, <3>1 DEF KoiCreate
    <3>3. QED
      BY <1>2, <2>2, <3>2 DEF KoiCreate
  <2>3. CASE UNCHANGED <<koi, stale, dead_jobs>>
    BY <1>2, <2>3
  <2>4. ASSUME NEW w \in Orca, WorkerStep(w) PROVE UNCHANGED <<koi, stale, dead_jobs>>
    BY <2>4 DEF WorkerStep, Poll, ReadRanks, Mark, Skip, Place, Preempt, Swap, StopRank,
                Launch, Goes, TakesUp, Steps
  <2>5. QED
    BY <1>2, <2>1, <2>2, <2>3, <2>4
       DEF Next, Finish, TakesUp, Steps, Crash, SubmitJob, RankUp, RankFails, vars, handoffVars
<1>3. Final => Stay
  OBVIOUS
<1>4. UNCHANGED jobVars => Stay
  BY DEF jobVars, Finished
<1>5. Spec => [][Final]_jobVars
  BY HandoffUsesTheStore, JobFinishedIsFinal, PTL DEF FinishedIsFinal
<1>6. QED
  BY <1>1, <1>2, <1>3, <1>4, <1>5, HandoffTypeCorrect, PTL DEF Spec

\* Plans are written in the order of their ids.
Dense == \A p, q \in Plans : q < p /\ plans[p] # NULL => plans[q] # NULL

\* A process that has plans in hand is at the oldest of them, and misses none
\* that is older than one it has.
InTurn(local) ==
    /\ local.pc \in {"act", "launch"} \/ local.after # "idle" => local.todo # {}
    /\ local.todo # {} =>
          /\ local.plan \in local.todo
          /\ \A p \in local.todo : local.plan <= p
          /\ \A p \in local.todo, q \in Unapplied : q < p => q \in local.todo

TurnInv == Dense /\ \A w \in Orca : InTurn(worker[w])

\* No step makes a plan unapplied that is older than an existing one.
LEMMA NoneComesBefore ==
    ASSUME PlanTypeOK, Dense, [PlanStep]_planVars
    PROVE  /\ Dense'
           /\ \A p \in Plans, q \in Unapplied' : q < p /\ plans[p] # NULL => q \in Unapplied
<1>1. \A p \in Plans : plans[p] # NULL => plans'[p] # NULL
  BY PlansStay
<1>2. ASSUME NEW p \in Plans, NEW actions \in Actions, NextPlan(p), Create(p, actions)
      PROVE  /\ Dense'
             /\ \A o \in Plans, q \in Unapplied' : q < o /\ plans[o] # NULL => q \in Unapplied
  <2>1. plans[p] = NULL /\ \A q \in Plans \ {p} : plans'[q] = plans[q]
    BY <1>2 DEF Create, PlanTypeOK
  <2>2. \A q \in Plans : q < p => plans[q] # NULL
    BY <1>2 DEF NextPlan
  <2>3. Dense'
    BY <1>1, <2>1, <2>2, PlansAreOrdered DEF Dense
  <2>4. \A o \in Plans : p < o => plans[o] = NULL
    BY <2>1 DEF Dense
  <2>5. QED
    BY <2>1, <2>3, <2>4 DEF Unapplied
<1>3. ASSUME NEW p \in Unapplied, MarkApplied(p)
      PROVE  Dense' /\ Unapplied' \subseteq Unapplied
  <2>1. p \in Plans /\ plans[p] # NULL /\ \A q \in Plans \ {p} : plans'[q] = plans[q]
    BY <1>3 DEF Unapplied, MarkApplied, PlanTypeOK
  <2>2. QED
    BY <1>1, <2>1 DEF Dense, Unapplied
<1>4. CASE UNCHANGED planVars
  BY <1>4 DEF planVars, Dense, Unapplied
<1>5. QED
  BY <1>2, <1>3, <1>4 DEF PlanStep

\* What a process goes on with stays in turn.
LEMMA TakenInTurn ==
    ASSUME NEW ps \in SUBSET Plans, NEW w, \A p \in ps, q \in Unapplied' : q < p => q \in ps,
           NEW local, local = Take(w, ps)
    PROVE  InTurn(local)'
<1>1. CASE ps = {}
  BY <1>1 DEF Take, Idle, InTurn
<1>2. CASE ps # {}
  <2>1. local.todo = ps /\ local.plan = Oldest(ps)
    BY <1>2 DEF Take, Idle
  <2>2. QED
    BY <1>2, <2>1, OldestIsOne DEF InTurn
<1>3. QED
  BY <1>1, <1>2

LEMMA TurnStep == ASSUME HandInv, TurnInv, [Next]_vars PROVE TurnInv'
<1>1. /\ Dense'
      /\ \A p \in Plans, q \in Unapplied' : q < p /\ plans[p] # NULL => q \in Unapplied
  BY OnlyPlanSteps, NoneComesBefore DEF HandInv, TurnInv
<1>2. \A v \in Orca : /\ worker[v] \in Local /\ InTurn(worker[v])
                     /\ \A p \in worker[v].todo : p \in Plans /\ plans[p] # NULL
  BY DEF HandInv, LocalTypeOK, Sound, Local, TurnInv
\* A process that keeps its plans and starts none of their actions stays in turn.
<1>3. ASSUME NEW w \in Orca, NEW local, local.todo = worker[w].todo, local.plan = worker[w].plan,
             local.todo = {} => local.pc \notin {"act", "launch"} /\ local.after = "idle"
      PROVE  InTurn(local)'
  BY <1>1, <1>2, <1>3 DEF InTurn
<1>4. ASSUME NEW w \in Orca, NEW local, Steps(w, local), InTurn(local)' PROVE TurnInv'
  <2>1. worker' = [worker EXCEPT ![w] = local] /\ worker \in [Orca -> Local]
    BY <1>4 DEF Steps, HandInv, LocalTypeOK
  <2>2. ASSUME NEW v \in Orca PROVE InTurn(worker[v])'
    <3>1. PICK it : it = worker'[v]
      OBVIOUS
    <3>2. CASE v = w
      BY <1>4, <2>1, <3>1, <3>2 DEF InTurn
    <3>3. CASE v # w
      <4>1. it = worker[v]
        BY <2>1, <3>1, <3>3
      <4>2. InTurn(it)'
        BY <1>2, <1>3, <4>1 DEF InTurn
      <4>3. QED
        BY <3>1, <4>2 DEF InTurn
    <3>4. QED
      BY <3>2, <3>3
  <2>3. QED
    BY <1>1, <2>2 DEF TurnInv
<1>5. ASSUME worker' = worker PROVE TurnInv'
  <2>1. ASSUME NEW v \in Orca PROVE InTurn(worker[v])'
    <3>1. PICK it : it = worker[v]
      OBVIOUS
    <3>2. InTurn(it)'
      BY <1>2, <1>3, <3>1 DEF InTurn
    <3>3. QED
      BY <1>5, <3>1, <3>2 DEF InTurn
  <2>2. QED
    BY <1>1, <2>1 DEF TurnInv
\* The worker goes on with the same plans, or with none.
<1>6. ASSUME NEW w \in Orca, NEW local, Steps(w, local),
             \/ local = Idle
             \/ /\ local.todo = worker[w].todo /\ local.plan = worker[w].plan
                /\ local.todo = {} => local.pc \notin {"act", "launch"} /\ local.after = "idle"
      PROVE  TurnInv'
  <2>1. local = Idle => InTurn(local)'
    BY DEF InTurn, Idle
  <2>2. QED
    BY <1>3, <1>4, <1>6, <2>1
<1>7. ASSUME NEW w \in Orca, Poll(w) PROVE TurnInv'
  <2>1. PICK local : local = Take(w, Unapplied)
    OBVIOUS
  <2>2. Steps(w, local) /\ Unapplied' = Unapplied
    BY <1>7, <2>1 DEF Poll, Goes, planVars, Unapplied
  <2>3. InTurn(local)'
    <3>1. Unapplied \in SUBSET Plans /\ \A p \in Unapplied, q \in Unapplied' : q < p => q \in Unapplied
      BY <2>2 DEF Unapplied
    <3>2. QED
      BY <2>1, <3>1, TakenInTurn
  <2>4. QED
    BY <1>4, <2>2, <2>3
<1>8. ASSUME NEW w \in Orca, Mark(w) PROVE TurnInv'
  <2> DEFINE rest == worker[w].todo \ {worker[w].plan}
  <2>1. PICK local : local = Take(w, rest)
    OBVIOUS
  <2>2. Steps(w, local)
    BY <1>8, <2>1 DEF Mark, Goes
  <2>3. rest \in SUBSET Plans
    BY <1>2
  <2>4. worker[w].plan \notin Unapplied'
    <3>1. MarkApplied(worker[w].plan)
      BY <1>8 DEF Mark
    <3>2. CASE worker[w].plan \in Unapplied
      <4>1. plans[worker[w].plan] \in PlanRow /\ plans' = [plans EXCEPT ![worker[w].plan].status = "applied"]
            /\ worker[w].plan \in Plans
        BY <3>1, <3>2 DEF MarkApplied, Unapplied, HandInv, PlanTypeOK
      <4>2. plans'[worker[w].plan].status = "applied"
        BY <4>1 DEF HandInv, PlanTypeOK, PlanRow
      <4>3. QED
        BY <4>2 DEF Unapplied
    <3>3. CASE worker[w].plan \notin Unapplied
      BY <3>1, <3>3 DEF MarkApplied, planVars, Unapplied
    <3>4. QED
      BY <3>2, <3>3
  <2>5. \A p \in rest, q \in Unapplied' : q < p => q \in rest
    BY <1>1, <1>2, <2>4 DEF InTurn
  <2>6. InTurn(local)'
    BY <2>1, <2>3, <2>5, TakenInTurn
  <2>7. QED
    BY <1>4, <2>2, <2>6
<1>9. ASSUME NEW w \in Orca, NEW j \in Jobs, Skip(w, j) \/ Place(w, j) \/ Preempt(w, j) \/ Swap(w, j)
      PROVE  TurnInv'
  <2>1. worker[w].todo # {}
    BY <1>2, <1>9 DEF Skip, Place, Preempt, Swap, Acting, InTurn
  <2>2. PICK local : /\ Steps(w, local)
                     /\ \/ local = Past(w, j)
                        \/ local = [worker[w] EXCEPT !.pc = "launch", !.job = j]
                        \/ local = [worker[w] EXCEPT !.pc = "read_ranks", !.job = j, !.after = "act"]
                        \/ local = [worker[w] EXCEPT !.pc = "read_ranks", !.job = j, !.after = "launch"]
    BY <1>9 DEF Skip, Place, Preempt, Swap, Goes, TakesUp
  <2>3. local.todo = worker[w].todo /\ local.plan = worker[w].plan
    BY <1>2, <2>2 DEF Past, Local
  <2>4. QED
    BY <1>6, <2>1, <2>2, <2>3
<1>10. ASSUME NEW w \in Orca, ReadRanks(w) \/ \E r \in Ranks : StopRank(w, r) PROVE TurnInv'
  <2>1. PICK local : /\ Steps(w, local)
                     /\ \/ local = AfterTeardown(w)
                        \/ \E left : local = [worker[w] EXCEPT !.stopping = left]
                        \/ \E left : local = [worker[w] EXCEPT !.pc = "stop", !.stopping = left]
    BY <1>10 DEF ReadRanks, StopRank, Goes
  <2>2. worker[w].pc \in {"read_ranks", "stop"}
    BY <1>10 DEF ReadRanks, StopRank
  <2>3. CASE local # AfterTeardown(w)
    <3>1. /\ local.todo = worker[w].todo /\ local.plan = worker[w].plan
          /\ local.after = worker[w].after /\ local.pc \in {"read_ranks", "stop"}
      BY <1>2, <2>1, <2>2, <2>3 DEF Local
    <3>2. QED
      BY <1>2, <1>6, <2>1, <3>1 DEF InTurn
  <2>4. CASE local = AfterTeardown(w)
    <3>1. CASE worker[w].after = "idle"
      BY <1>6, <2>1, <2>4, <3>1 DEF AfterTeardown
    <3>2. CASE worker[w].after # "idle"
      <4>1. worker[w].todo # {}
        BY <1>2, <3>2 DEF InTurn
      <4>2. \/ local = Past(w, worker[w].job)
            \/ local = [worker[w] EXCEPT !.pc = "launch", !.stopping = {}]
        BY <1>2, <2>4, <3>2 DEF AfterTeardown, Local
      <4>3. local.todo = worker[w].todo /\ local.plan = worker[w].plan
        BY <1>2, <4>2 DEF Past, Local
      <4>4. QED
        BY <1>6, <2>1, <4>1, <4>3
    <3>3. QED
      BY <3>1, <3>2
  <2>5. QED
    BY <2>3, <2>4
<1>11. ASSUME NEW w \in Orca, NEW r \in Ranks, Launch(w, r) PROVE TurnInv'
  <2>1. PICK local : local = Past(w, worker[w].job) /\ Steps(w, local)
    BY <1>11 DEF Launch, Goes
  <2>2. local.todo = worker[w].todo /\ local.plan = worker[w].plan /\ worker[w].todo # {}
    BY <1>2, <1>11, <2>1 DEF Launch, Past, Local, InTurn
  <2>3. QED
    BY <1>6, <2>1, <2>2
<1>12. ASSUME NEW w \in Orca, NEW j \in Jobs, Finish(w, j) PROVE TurnInv'
  <2>1. PICK local : local = [Idle EXCEPT !.pc = "read_ranks", !.job = j] /\ Steps(w, local)
    BY <1>12 DEF Finish, TakesUp
  <2>2. InTurn(local)'
    BY <2>1 DEF Idle, InTurn
  <2>3. QED
    BY <1>4, <2>1, <2>2
<1>13. ASSUME NEW w \in Orca, Crash(w) PROVE TurnInv'
  <2>1. worker' = [worker EXCEPT ![w] = Idle]
    BY <1>13 DEF Crash
  <2>2. \A v \in Orca : InTurn(Idle)' /\ (v # w => worker'[v] = worker[v]) /\ worker'[w] = Idle
    BY <2>1 DEF InTurn, Idle, HandInv, LocalTypeOK
  <2>3. ASSUME NEW v \in Orca PROVE InTurn(worker[v])'
    <3>1. PICK it : it = worker'[v]
      OBVIOUS
    <3>2. InTurn(it)'
      <4>1. CASE v = w
        BY <2>2, <3>1, <4>1 DEF InTurn, Idle
      <4>2. CASE v # w
        BY <1>2, <1>3, <2>2, <3>1, <4>2 DEF InTurn
      <4>3. QED
        BY <4>1, <4>2
    <3>3. QED
      BY <3>1, <3>2 DEF InTurn
  <2>4. QED
    BY <1>1, <2>3 DEF TurnInv
<1>14. QED
  BY <1>5, <1>7, <1>8, <1>9, <1>10, <1>11, <1>12, <1>13
     DEF Next, WorkerStep, KoiRead, KoiCreate, SubmitJob, RankUp, RankFails, vars, handoffVars

\* Whoever confirms a plan has confirmed, or found confirmed, those before it.
LEMMA ConfirmedInTurn ==
    ASSUME HandInv, TurnInv, [Next]_vars, NEW p \in Unapplied, MarkApplied(p)
    PROVE  \A q \in Unapplied : p <= q
<1>1. p \in Plans /\ markers' = [markers EXCEPT ![p] = @ + 1] /\ markers \in [Plans -> Nat]
  BY DEF MarkApplied, Unapplied, HandInv, PlanTypeOK
<1>2. markers' # markers
  BY <1>1
<1>3. PICK w \in Orca : Mark(w)
  BY <1>2 DEF Next, vars, planVars, handoffVars, WorkerStep, KoiRead, KoiCreate, Create, Poll, ReadRanks,
              Skip, Place, Preempt, Swap, StopRank, Launch, Finish, Crash, SubmitJob, RankUp, RankFails
<1>4. worker[w].plan = p
  <2>1. MarkApplied(worker[w].plan)
    BY <1>3 DEF Mark
  <2>2. worker[w].plan \in Unapplied /\ markers' = [markers EXCEPT ![worker[w].plan] = @ + 1]
    BY <1>2, <2>1 DEF MarkApplied, planVars
  <2>3. QED
    BY <1>1, <2>2 DEF Unapplied
<1>5. InTurn(worker[w]) /\ worker[w].pc = "act" /\ worker[w].todo \subseteq Plans
  BY <1>3 DEF TurnInv, Mark, HandInv, Sound, Local
<1>6. QED
  BY <1>1, <1>4, <1>5, PlansAreOrdered DEF InTurn, Unapplied

\* PlanHandoff implements the safety of PlanQueue: every step of Koi, of a
\* worker, of a crash posts a plan, confirms one, or is none of its business.
THEOREM HandoffIsAQueue == Spec => Queue!SafeSpec
<1>1. HandoffInit => Queue!Init /\ TurnInv
  BY DEF HandoffInit, PlanInit, Queue!Init, Unapplied, TurnInv, Dense, InTurn, Idle
<1>2. ASSUME HandInv, TurnInv, [Next]_vars PROVE [Queue!Next]_(Queue!queueVars)
  <2>0. PlanTypeOK /\ [PlanStep]_planVars
    BY <1>2, OnlyPlanSteps DEF HandInv
  <2> USE DEF Queue!Next, Queue!queueVars, Queue!Post, Queue!Confirm
  <2>1. ASSUME NEW p \in Plans, NEW actions \in Actions, Create(p, actions)
        PROVE  Queue!Post(p, actions)
    <3>1. /\ plans' = [plans EXCEPT ![p] = [status |-> "created", actions |-> actions]]
          /\ plan_announced' = plan_announced \cup {p}
          /\ UNCHANGED markers /\ plans[p] = NULL
      BY <2>1 DEF Create
    <3>2. [status |-> "created", actions |-> actions] \in PlanRow
      BY DEF PlanRow
    <3>3. /\ plans'[p] = [status |-> "created", actions |-> actions]
          /\ \A q \in Plans \ {p} : plans'[q] = plans[q]
      BY <2>0, <3>1 DEF PlanTypeOK
    <3>4. plans'[p] # NULL
      BY <3>2, <3>3, NullIsNoPlan
    <3>5. {q \in Plans : plans[q] # NULL /\ q \notin Unapplied}'
             = {q \in Plans : plans[q] # NULL /\ q \notin Unapplied}
      BY <3>1, <3>3 DEF Unapplied
    <3>6. [q \in Plans |-> IF plans[q] = NULL THEN NULL ELSE plans[q].actions]'
             = [[q \in Plans |-> IF plans[q] = NULL THEN NULL ELSE plans[q].actions]
                   EXCEPT ![p] = actions]
      <4>1. \A q \in Plans :
               (IF plans'[q] = NULL THEN NULL ELSE plans'[q].actions)
                  = IF q = p THEN actions
                    ELSE IF plans[q] = NULL THEN NULL ELSE plans[q].actions
        BY <3>3, <3>4
      <4>2. QED
        BY <4>1
    <3>7. QED
      BY <3>1, <3>5, <3>6
  <2>2. ASSUME NEW p \in Unapplied, MarkApplied(p) PROVE Queue!Confirm(p)
    <3>1. /\ p \in Plans /\ plans[p] # NULL /\ plans[p] \in PlanRow
          /\ plans' = [plans EXCEPT ![p].status = "applied"]
          /\ markers' = [markers EXCEPT ![p] = @ + 1] /\ UNCHANGED plan_announced
      BY <2>0, <2>2 DEF MarkApplied, Unapplied, PlanTypeOK
    <3>2. /\ plans'[p] # NULL /\ plans'[p].actions = plans[p].actions
          /\ plans'[p].status = "applied" /\ \A q \in Plans \ {p} : plans'[q] = plans[q]
      BY <2>0, <2>2, <3>1, PlansStay DEF PlanTypeOK, PlanRow
    <3>3. plans[p].actions # NULL
      BY <3>1, NullIsNoPlan DEF PlanRow
    <3>4. \A q \in Unapplied : p <= q
      BY <1>2, <2>2, ConfirmedInTurn
    <3>5. \A q \in Plans : q < p => q \notin Unapplied
      BY <3>1, <3>4, PlansAreOrdered
    <3>6. QED
      BY <3>1, <3>2, <3>3, <3>5 DEF Unapplied
  <2>3. CASE UNCHANGED planVars
    BY <2>3 DEF planVars, Unapplied
  <2>4. QED
    BY <2>0, <2>1, <2>2, <2>3 DEF PlanStep, Unapplied
<1>3. HandInv /\ TurnInv /\ [Next]_vars => TurnInv'
  BY TurnStep
<1>4. QED
  BY <1>1, <1>2, <1>3, HandsAreSound, PTL DEF Spec, Queue!SafeSpec

-----------------------------------------------------------------------------
(* The status semantics of the scheduler *)

\* A job whose ranks are those its status calls for.
Rest(j) ==
    /\ Matches(j, {"running"}) =>
          RanksOf(j) # {} /\ \A r, s \in ActiveRanks(j) : ranks[r].plan_id = ranks[s].plan_id
    /\ ~Matches(j, {"running"}) => ActiveRanks(j) = {}

\* What holds in the middle of a job that is in nobody else's hands: a job to be
\* relaunched runs and one that is torn down for good does not, every rank still
\* to stop is known, and a launch finds none.
Halfway(local) ==
    /\ local.pc \in {"read_ranks", "stop"} =>
          (local.after = "launch" <=> Matches(local.job, {"running"}))
    /\ local.pc = "stop" => ActiveRanks(local.job) \subseteq local.stopping
    /\ local.pc = "launch" => Matches(local.job, {"running"}) /\ ActiveRanks(local.job) = {}

\* No other process is in the middle of j.
Alone(w, j) == \A v \in Orca \ {w} : ~Mid(worker[v], j)

\* j is in order, or in the hands of one process that is putting it in order.
Tended(j) ==
    \/ Rest(j) /\ \A v \in Orca : ~Mid(worker[v], j)
    \/ \E w \in Orca : Mid(worker[w], j) /\ Halfway(worker[w]) /\ Alone(w, j)

AllTended == \A j \in Jobs \ disturbed : Tended(j)

\* A step that leaves j's row alone, launches nothing for it and moves no rank
\* of it to another plan.
Quiet(j) ==
    /\ jobs'[j] = jobs[j] /\ RanksOf(j)' = RanksOf(j)
    /\ ActiveRanks(j)' \subseteq ActiveRanks(j)
    /\ \A r \in ActiveRanks(j)' : ranks'[r].plan_id = ranks[r].plan_id

LEMMA QuietKeepsRest == ASSUME NEW j, Quiet(j), Rest(j) PROVE Rest(j)'
<1>1. Matches(j, {"running"})' <=> Matches(j, {"running"})
  BY DEF Quiet, Matches
<1>2. QED
  BY <1>1 DEF Quiet, Rest

\* A job in the middle of things stays so through a quiet step.
LEMMA QuietKeepsHalfway ==
    ASSUME NEW local, Halfway(local), Quiet(local.job)
    PROVE  Halfway(local)'
<1>1. Matches(local.job, {"running"})' <=> Matches(local.job, {"running"})
  BY DEF Quiet, Matches
<1>2. QED
  BY <1>1 DEF Quiet, Halfway

LEMMA NothingIsQuiet == ASSUME NEW j, UNCHANGED jobVars PROVE Quiet(j)
  BY DEF Quiet, jobVars, RanksOf, ActiveRanks

\* An update of a job is quiet for the others, and leaves its own ranks alone.
LEMMA JobUpdateIsQuiet ==
    ASSUME TypeOK, NEW i \in Jobs, NEW row, jobs' = [jobs EXCEPT ![i] = row], UNCHANGED ranks
    PROVE  /\ \A j \in Jobs \ {i} : Quiet(j)
           /\ ActiveRanks(i)' = ActiveRanks(i) /\ RanksOf(i)' = RanksOf(i)
           /\ jobs'[i] = row
<1>1. \A j \in Jobs : ActiveRanks(j)' = ActiveRanks(j) /\ RanksOf(j)' = RanksOf(j)
  BY DEF ActiveRanks, RanksOf
<1>2. jobs'[i] = row /\ \A j \in Jobs \ {i} : jobs'[j] = jobs[j]
  BY DEF TypeOK
<1>3. QED
  BY <1>1, <1>2 DEF Quiet, ActiveRanks, RanksOf

\* So is a new status of a rank that was active, for every job.
LEMMA RankUpdateIsQuiet ==
    ASSUME TypeOK, NEW r \in Ranks, NEW to \in RankStatus, NEW reason \in Reasons \cup {NULL},
           NEW expected \in SUBSET ActiveRankStatuses, SetRankStatus(r, to, expected, reason),
           NEW j \in Jobs
    PROVE  Quiet(j) /\ (to \notin ActiveRankStatuses => r \notin ActiveRanks(j)')
<1>1. /\ ranks[r] \in RankRow /\ ranks[r] # NULL /\ ranks[r].status \in ActiveRankStatuses
      /\ ranks' = [ranks EXCEPT ![r].status = to, ![r].reason_code = reason] /\ jobs' = jobs
  BY DEF TypeOK, SetRankStatus
<1>2. /\ \A q \in Ranks \ {r} : ranks'[q] = ranks[q]
      /\ ranks'[r] = [ranks[r] EXCEPT !.status = to, !.reason_code = reason]
  BY <1>1 DEF TypeOK
<1>3. /\ ranks'[r].job_id = ranks[r].job_id /\ ranks'[r].plan_id = ranks[r].plan_id
      /\ ranks'[r].status = to
  BY <1>1, <1>2 DEF RankRow
<1>4. ranks'[r] # NULL
  <2>1. [ranks[r] EXCEPT !.status = to, !.reason_code = reason] \in RankRow
    BY <1>1 DEF RankRow
  <2>2. QED
    BY <1>2, <2>1, NullIsNoValue
<1>5. RanksOf(j)' = RanksOf(j)
  BY <1>1, <1>2, <1>3, <1>4 DEF RanksOf
<1>6. ActiveRanks(j)' \subseteq ActiveRanks(j)
  <2>1. \A q \in RanksOf(j) : ranks'[q].status \in ActiveRankStatuses =>
           ranks[q].status \in ActiveRankStatuses
    BY <1>1, <1>2 DEF RanksOf
  <2>2. QED
    BY <1>5, <2>1 DEF ActiveRanks
<1>7. \A q \in ActiveRanks(j)' : ranks'[q].plan_id = ranks[q].plan_id
  BY <1>2, <1>3 DEF ActiveRanks, RanksOf
<1>8. QED
  BY <1>1, <1>3, <1>5, <1>6, <1>7 DEF Quiet, ActiveRanks

\* A job that only other processes' steps could have to do with stays tended.
LEMMA QuietKeepsTended ==
    ASSUME NEW j, Quiet(j), Tended(j),
           \A v \in Orca : Mid(worker[v], j) \/ Mid(worker'[v], j) => worker'[v] = worker[v]
    PROVE  Tended(j)'
<1>1. CASE Rest(j) /\ \A v \in Orca : ~Mid(worker[v], j)
  <2>1. Rest(j)' /\ \A v \in Orca : ~Mid(worker'[v], j)
    BY <1>1, QuietKeepsRest
  <2>2. QED
    BY <2>1 DEF Tended, Mid
<1>2. ASSUME NEW w \in Orca, Mid(worker[w], j), Halfway(worker[w]), Alone(w, j) PROVE Tended(j)'
  <2>1. PICK local : local = worker[w]
    OBVIOUS
  <2>2. Halfway(local)'
    BY <1>2, <2>1, QuietKeepsHalfway DEF Mid
  <2>3. worker'[w] = local /\ Mid(worker'[w], j) /\ \A v \in Orca \ {w} : ~Mid(worker'[v], j)
    BY <1>2, <2>1 DEF Alone
  <2>4. Halfway(worker[w])'
    BY <2>2, <2>3 DEF Halfway
  <2>5. QED
    BY <2>3, <2>4 DEF Tended, Alone, Mid
<1>3. QED
  BY <1>1, <1>2 DEF Tended

\* A process that has i to itself leaves it tended if it goes on rightly.
LEMMA AloneKeepsTended ==
    ASSUME NEW w \in Orca, worker \in [Orca -> Local], NEW i, Alone(w, i), NEW local, Steps(w, local),
           IF Mid(local, i) THEN Halfway(local)' ELSE Rest(i)'
    PROVE  Tended(i)'
<1>1. worker'[w] = local /\ \A v \in Orca \ {w} : ~Mid(worker'[v], i)
  BY DEF Steps, Alone
<1>2. CASE Mid(local, i)
  <2>1. Halfway(worker[w])'
    BY <1>1, <1>2 DEF Halfway
  <2>2. QED
    BY <1>1, <1>2, <2>1 DEF Tended, Alone, Mid
<1>3. CASE ~Mid(local, i)
  BY <1>1, <1>3 DEF Tended, Mid
<1>4. QED
  BY <1>2, <1>3

\* What the worker goes on to when it is through with a job, or turns to plans.
LEMMA ThroughWith ==
    ASSUME NEW w \in Orca, worker \in [Orca -> Local], NEW local,
           \/ \E j \in Jobs : local = Past(w, j)
           \/ \E ps \in SUBSET Plans : local = Take(w, ps)
    PROVE  Halfway(local)' /\ \A i : ~Mid(local, i)
<1>1. ASSUME NEW j \in Jobs, local = Past(w, j) PROVE local.pc = "act"
  <2>1. worker[w] \in Local
    OBVIOUS
  <2>2. Past(w, j).pc = "act"
    BY <2>1 DEF Past, Local
  <2>3. QED
    BY <1>1, <2>2
<1>2. ASSUME NEW ps \in SUBSET Plans, local = Take(w, ps) PROVE local.pc \in {"act", "idle"}
  <2>1. CASE ps = {}
    BY <1>2, <2>1 DEF Take, Idle
  <2>2. CASE ps # {}
    <3>1. Take(w, ps).pc = "act"
      BY <2>2 DEF Take, Idle
    <3>2. QED
      BY <1>2, <3>1
  <2>3. QED
    BY <2>1, <2>2
<1>3. QED
  BY <1>1, <1>2 DEF Halfway, Mid

\* Once no rank of it is active, its teardown is over.
LEMMA TornDown ==
    ASSUME NEW w \in Orca, worker \in [Orca -> Local], NEW i \in Jobs, Halfway(worker[w]),
           worker[w].pc \in {"read_ranks", "stop"}, worker[w].job = i,
           Matches(i, {"running"})' <=> Matches(i, {"running"}), ActiveRanks(i)' = {},
           NEW local, local = AfterTeardown(w)
    PROVE  IF Mid(local, i) THEN Halfway(local)' ELSE Rest(i)'
<1>1. worker[w] \in Local /\ (worker[w].after = "launch" <=> Matches(i, {"running"}))
  BY DEF Halfway
<1>2. CASE worker[w].after # "launch"
  <2>1. local = Past(w, i) \/ local = Take(w, {})
    BY <1>1, <1>2 DEF AfterTeardown, Local, Take
  <2>2. Halfway(local)'
    BY <2>1, ThroughWith
  <2>3. Rest(i)'
    BY <1>1, <1>2 DEF Rest
  <2>4. QED
    BY <2>2, <2>3
<1>3. CASE worker[w].after = "launch"
  <2>1. local = [worker[w] EXCEPT !.pc = "launch", !.stopping = {}]
    BY <1>3 DEF AfterTeardown
  <2>2. local.pc = "launch" /\ local.job = i
    BY <1>1, <2>1 DEF Local
  <2>3. Halfway(local)' /\ Mid(local, i)
    BY <1>1, <1>3, <2>2 DEF Halfway, Mid
  <2>4. QED
    BY <2>3
<1>4. QED
  BY <1>2, <1>3

\* A teardown is followed by nothing about another job.
LEMMA TornInHand ==
    ASSUME NEW w \in Orca, worker \in [Orca -> Local], NEW i \in Jobs, worker[w].job = i,
           NEW local, local = AfterTeardown(w), NEW j, Mid(local, j)
    PROVE  j = i
<1>1. worker[w] \in Local
  OBVIOUS
<1>2. CASE worker[w].after = "launch"
  <2>1. local = [worker[w] EXCEPT !.pc = "launch", !.stopping = {}]
    BY <1>2 DEF AfterTeardown
  <2>2. QED
    BY <1>1, <2>1 DEF Local, Mid
<1>3. CASE worker[w].after # "launch"
  <2>1. local = Past(w, i) \/ local = Take(w, {})
    BY <1>1, <1>3 DEF AfterTeardown, Take, Local
  <2>2. QED
    BY <2>1, ThroughWith
<1>4. QED
  BY <1>2, <1>3

\* Whatever anybody does, the jobs that nobody disturbed are in order or in
\* good hands.
LEMMA TendedStep == ASSUME TypeOK, HandInv, AllTended, [Next]_vars PROVE AllTended'
<1> SUFFICES ASSUME NEW j \in Jobs, j \notin disturbed' PROVE Tended(j)'
  BY DEF AllTended
<1>1. worker \in [Orca -> Local] /\ \A v \in Orca : worker[v] \in Local /\ Sound(worker[v])
  BY DEF HandInv, LocalTypeOK
<1>2. j \notin disturbed => Tended(j)
  BY DEF AllTended
\* Steps that have nothing to do with j.
<1>3. ASSUME Quiet(j), UNCHANGED <<worker, disturbed>> PROVE Tended(j)'
  BY <1>2, <1>3, QuietKeepsTended
<1>4. ASSUME Quiet(j), j \notin disturbed, NEW w \in Orca, NEW local, Steps(w, local),
             ~Mid(worker[w], j), ~Mid(local, j)
      PROVE  Tended(j)'
  <2>1. worker'[w] = local /\ \A v \in Orca \ {w} : worker'[v] = worker[v]
    BY <1>1, <1>4 DEF Steps
  <2>2. \A v \in Orca : Mid(worker[v], j) \/ Mid(worker'[v], j) => worker'[v] = worker[v]
    BY <1>4, <2>1
  <2>3. QED
    BY <1>2, <1>4, <2>2, QuietKeepsTended
\* A process goes on with the job i that it is in the middle of.
<1>5. ASSUME NEW w \in Orca, NEW local, Goes(w, local), NEW i \in Jobs, Mid(worker[w], i),
             Mid(local, j) => j = i, Quiet(j) \/ j = i,
             j = i /\ Halfway(worker[w]) => IF Mid(local, j) THEN Halfway(local)' ELSE Rest(j)'
      PROVE  Tended(j)'
  <2>1. Steps(w, local) /\ j \notin disturbed /\ Tended(j)
    BY <1>2, <1>5 DEF Goes
  <2>2. CASE j = i
    <3>1. Halfway(worker[w]) /\ Alone(w, j)
      BY <1>5, <2>1, <2>2 DEF Tended, Alone
    <3>2. QED
      BY <1>1, <1>5, <2>1, <2>2, <3>1, AloneKeepsTended
  <2>3. CASE j # i
    BY <1>4, <1>5, <2>1, <2>3 DEF Mid
  <2>4. QED
    BY <2>2, <2>3
\* A process takes up the job i.
<1>6. ASSUME NEW w \in Orca, NEW i \in Jobs, NEW local, TakesUp(w, i, local),
             \A k : ~Mid(worker[w], k), local.job = i, local.pc \in {"read_ranks", "launch"},
             Quiet(j) \/ j = i,
             j = i /\ (local.pc = "launch" => Rest(j)) => Halfway(local)'
      PROVE  Tended(j)'
  <2>1. Steps(w, local)
    BY <1>6 DEF TakesUp
  <2>2. CASE j = i
    <3>1. \A v \in Orca : ~Mid(worker[v], j)
      BY <1>6, <2>2 DEF TakesUp
    <3>2. local.pc = "launch" => j \notin disturbed
      BY <1>6, <2>2, <3>1 DEF TakesUp
    <3>3. local.pc = "launch" => Rest(j)
      BY <1>2, <3>1, <3>2 DEF Tended
    <3>4. Mid(local, j) /\ Halfway(local)'
      BY <1>6, <2>2, <3>3 DEF Mid
    <3>5. QED
      BY <1>1, <2>1, <3>1, <3>4, AloneKeepsTended DEF Alone
  <2>3. CASE j # i
    <3>1. j \notin disturbed
      BY <1>6, <2>3 DEF TakesUp
    <3>2. ~Mid(local, j)
      BY <1>6, <2>3 DEF Mid
    <3>3. QED
      BY <1>4, <1>6, <2>1, <2>3, <3>1, <3>2
  <2>4. QED
    BY <2>2, <2>3
<1>7. ASSUME UNCHANGED jobVars, NEW w \in Orca, worker[w].pc \in {"act", "idle"},
             NEW local, Goes(w, local), \A k : ~Mid(local, k)
      PROVE  Tended(j)'
  BY <1>4, <1>7, NothingIsQuiet DEF Goes, Mid
<1>8. ASSUME NEW w \in Orca, Poll(w) \/ Mark(w) PROVE Tended(j)'
  <2>1. PICK ps \in SUBSET Plans : Goes(w, Take(w, ps)) /\ UNCHANGED jobVars
    BY <1>1, <1>8 DEF Poll, Mark, Unapplied, Local
  <2>2. PICK local : local = Take(w, ps)
    OBVIOUS
  <2>3. \A k : ~Mid(local, k)
    BY <1>1, <2>2, ThroughWith
  <2>4. QED
    BY <1>7, <1>8, <2>1, <2>2, <2>3 DEF Poll, Mark
<1>9. ASSUME NEW w \in Orca, NEW i \in Jobs, Goes(w, Past(w, i)), UNCHANGED jobVars, worker[w].pc = "act"
      PROVE  Tended(j)'
  <2>1. PICK local : local = Past(w, i)
    OBVIOUS
  <2>2. \A k : ~Mid(local, k)
    BY <1>1, <2>1, ThroughWith
  <2>3. QED
    BY <1>7, <1>9, <2>1, <2>2
<1>10. ASSUME NEW w \in Orca, NEW i \in Jobs, NEW to \in {"running", "paused", "finished"},
              NEW expected, NEW reason, Transition(i, to, expected, reason),
              NEW local, TakesUp(w, i, local), worker[w].pc \in {"act", "idle"}, local.job = i,
              IF to = "running" THEN local.pc = "launch" /\ ~Matches(i, {"running"})
              ELSE local.pc = "read_ranks" /\ local.after # "launch"
       PROVE  Tended(j)'
  <2>1. /\ jobs' = [jobs EXCEPT ![i] = Moved(jobs[i], to, reason)] /\ UNCHANGED ranks
        /\ jobs[i] # NULL
    BY <1>10 DEF Transition, Matches
  <2>2. jobs[i] \in JobRow
    BY <2>1 DEF TypeOK
  <2>3. /\ j # i => Quiet(j)
        /\ ActiveRanks(i)' = ActiveRanks(i)
        /\ jobs'[i] = Moved(jobs[i], to, reason)
    BY <2>1, JobUpdateIsQuiet
  <2>4. jobs'[i].status = to
    BY <2>2, <2>3 DEF Moved, JobRow
  <2>5. to = "running" => Matches(i, {"running"})'
    <3>1. jobs'[i] # NULL
      BY <2>1, OnlyStoreSteps, JobsStay
    <3>2. QED
      BY <2>4, <3>1 DEF Matches
  <2>6. to # "running" => ~Matches(i, {"running"})'
    BY <2>4 DEF Matches
  <2>7. \A k : ~Mid(worker[w], k)
    BY <1>10 DEF Mid
  <2>8. ASSUME j = i, local.pc = "launch" => Rest(j) PROVE Halfway(local)'
    <3>1. to = "running" => ActiveRanks(i) = {}
      BY <1>10, <2>8 DEF Rest
    <3>2. QED
      BY <1>10, <2>3, <2>5, <2>6, <2>8, <3>1 DEF Halfway
  <2>9. QED
    BY <1>6, <1>10, <2>3, <2>7, <2>8
<1>11. ASSUME NEW w \in Orca, NEW i \in Jobs, Skip(w, i) PROVE Tended(j)'
  BY <1>9, <1>11 DEF Skip, Acting
<1>12. ASSUME NEW w \in Orca, NEW i \in Jobs, Place(w, i) PROVE Tended(j)'
  <2>1. worker[w].pc = "act"
    BY <1>12 DEF Place, Acting
  <2>2. CASE Matches(i, {"waiting", "paused"})
    <3>1. PICK local : local = [worker[w] EXCEPT !.pc = "launch", !.job = i]
      OBVIOUS
    <3>2. local.pc = "launch" /\ local.job = i
      BY <1>1, <3>1 DEF Local
    <3>3. Transition(i, "running", {"waiting", "paused"}, NULL) /\ TakesUp(w, i, local)
      BY <1>12, <2>2, <3>1 DEF Place
    <3>4. ~Matches(i, {"running"})
      BY <2>2 DEF Matches
    <3>5. QED
      BY <1>10, <2>1, <3>2, <3>3, <3>4
  <2>3. CASE ~Matches(i, {"waiting", "paused"})
    BY <1>9, <1>12, <2>1, <2>3 DEF Place
  <2>4. QED
    BY <2>2, <2>3
<1>13. ASSUME NEW w \in Orca, NEW i \in Jobs, Preempt(w, i) PROVE Tended(j)'
  <2>1. worker[w].pc = "act"
    BY <1>13 DEF Preempt, Acting
  <2>2. CASE Matches(i, {"running"})
    <3>1. PICK local : local = [worker[w] EXCEPT !.pc = "read_ranks", !.job = i, !.after = "act"]
      OBVIOUS
    <3>2. local.pc = "read_ranks" /\ local.job = i /\ local.after = "act"
      BY <1>1, <3>1 DEF Local
    <3>3. Transition(i, "paused", {"running"}, NULL) /\ TakesUp(w, i, local)
      BY <1>13, <2>2, <3>1 DEF Preempt
    <3>4. QED
      BY <1>10, <2>1, <3>2, <3>3
  <2>3. CASE ~Matches(i, {"running"})
    BY <1>9, <1>13, <2>1, <2>3 DEF Preempt
  <2>4. QED
    BY <2>2, <2>3
<1>14. ASSUME NEW w \in Orca, NEW i \in Jobs, Finish(w, i) PROVE Tended(j)'
  <2>1. PICK local : local = [Idle EXCEPT !.pc = "read_ranks", !.job = i]
    OBVIOUS
  <2>2. local.pc = "read_ranks" /\ local.job = i /\ local.after = "idle"
    BY <2>1 DEF Idle
  <2>3. worker[w].pc = "idle" /\ TakesUp(w, i, local)
        /\ \E expected, reason : Transition(i, "finished", expected, reason)
    BY <1>14, <2>1 DEF Finish
  <2>4. QED
    BY <1>10, <2>2, <2>3
<1>15. ASSUME NEW w \in Orca, NEW i \in Jobs, Swap(w, i) PROVE Tended(j)'
  <2>1. worker[w].pc = "act" /\ UNCHANGED jobVars
    BY <1>15 DEF Swap, Acting
  <2>2. CASE Matches(i, {"running"})
    <3>1. PICK local : local = [worker[w] EXCEPT !.pc = "read_ranks", !.job = i, !.after = "launch"]
      OBVIOUS
    <3>2. local.pc = "read_ranks" /\ local.job = i /\ local.after = "launch"
      BY <1>1, <3>1 DEF Local
    <3>3. TakesUp(w, i, local)
      BY <1>15, <2>2, <3>1 DEF Swap
    <3>4. Matches(i, {"running"})'
      BY <2>1, <2>2 DEF Matches, jobVars
    <3>5. Halfway(local)'
      BY <3>2, <3>4 DEF Halfway
    <3>6. \A k : ~Mid(worker[w], k)
      BY <2>1 DEF Mid
    <3>7. QED
      BY <1>6, <2>1, <3>2, <3>3, <3>5, <3>6, NothingIsQuiet
  <2>3. CASE ~Matches(i, {"running"})
    BY <1>9, <1>15, <2>1, <2>3 DEF Swap
  <2>4. QED
    BY <2>2, <2>3
\* The steps in the middle of a job i.
<1>16. ASSUME NEW w \in Orca, ReadRanks(w) PROVE Tended(j)'
  <2>1. PICK i \in Jobs : worker[w].job = i
    BY <1>1, <1>16 DEF ReadRanks, Sound
  <2>2. worker[w].pc = "read_ranks" /\ UNCHANGED jobVars /\ Mid(worker[w], i)
    BY <1>16, <2>1 DEF ReadRanks, Mid
  <2>3. /\ Quiet(j)
        /\ Matches(i, {"running"})' <=> Matches(i, {"running"})
        /\ ActiveRanks(i)' = ActiveRanks(i)
    BY <2>2, NothingIsQuiet DEF Matches, jobVars, ActiveRanks, RanksOf
  <2>4. CASE ActiveRanks(i) = {}
    <3>1. PICK local : local = AfterTeardown(w)
      OBVIOUS
    <3>2. Goes(w, local)
      BY <1>16, <2>1, <2>4, <3>1 DEF ReadRanks
    <3>3. Halfway(worker[w]) => IF Mid(local, i) THEN Halfway(local)' ELSE Rest(i)'
      BY <1>1, <2>1, <2>2, <2>3, <2>4, <3>1, TornDown
    <3>4. Mid(local, j) => j = i
      BY <1>1, <2>1, <3>1, TornInHand
    <3>5. QED
      BY <1>5, <2>2, <2>3, <3>2, <3>3, <3>4
  <2>5. CASE ActiveRanks(i) # {}
    <3>1. PICK local : local = [worker[w] EXCEPT !.pc = "stop", !.stopping = ActiveRanks(worker[w].job)]
      OBVIOUS
    <3>2. /\ local.pc = "stop" /\ local.job = i /\ local.after = worker[w].after
          /\ local.stopping = ActiveRanks(i)
      BY <1>1, <2>1, <3>1 DEF Local
    <3>3. Goes(w, local)
      BY <1>16, <2>1, <2>5, <3>1 DEF ReadRanks
    <3>4. Mid(local, i) /\ (Mid(local, j) => j = i) /\ (Halfway(worker[w]) => Halfway(local)')
      BY <2>1, <2>2, <2>3, <3>2 DEF Halfway, Mid
    <3>5. QED
      BY <1>5, <2>2, <2>3, <3>3, <3>4
  <2>6. QED
    BY <2>4, <2>5
<1>17. ASSUME NEW w \in Orca, NEW r \in Ranks, StopRank(w, r) PROVE Tended(j)'
  <2>1. PICK i \in Jobs : worker[w].job = i
    BY <1>1, <1>17 DEF StopRank, Sound
  <2>2. worker[w].pc = "stop" /\ r \in worker[w].stopping /\ Mid(worker[w], i)
    BY <1>17, <2>1 DEF StopRank, Mid
  <2>3. \A k \in Jobs : Quiet(k) /\ r \notin ActiveRanks(k)'
    <3>1. CASE SetRankStatus(r, "stopped", ActiveRankStatuses, NULL)
      BY <3>1, RankUpdateIsQuiet DEF RankStatus, ActiveRankStatuses
    <3>2. CASE UNCHANGED jobVars /\ ranks[r].status \notin ActiveRankStatuses
      BY <3>2, NothingIsQuiet DEF jobVars, ActiveRanks
    <3>3. QED
      BY <1>17, <3>1, <3>2 DEF StopRank
  <2>4. Matches(i, {"running"})' <=> Matches(i, {"running"})
    BY <2>3 DEF Quiet, Matches
  <2>5. Halfway(worker[w]) => ActiveRanks(i)' \subseteq worker[w].stopping \ {r}
    BY <2>1, <2>2, <2>3 DEF Halfway, Quiet
  <2>6. CASE worker[w].stopping = {r}
    <3>1. PICK local : local = AfterTeardown(w)
      OBVIOUS
    <3>2. Goes(w, local)
      BY <1>17, <2>6, <3>1 DEF StopRank
    <3>3. Halfway(worker[w]) => IF Mid(local, i) THEN Halfway(local)' ELSE Rest(i)'
      BY <1>1, <2>1, <2>2, <2>4, <2>5, <2>6, <3>1, TornDown
    <3>4. Mid(local, j) => j = i
      BY <1>1, <2>1, <3>1, TornInHand
    <3>5. QED
      BY <1>5, <2>2, <2>3, <3>2, <3>3, <3>4
  <2>7. CASE worker[w].stopping # {r}
    <3>1. PICK local : local = [worker[w] EXCEPT !.stopping = @ \ {r}]
      OBVIOUS
    <3>2. /\ local.pc = "stop" /\ local.job = i /\ local.after = worker[w].after
          /\ local.stopping = worker[w].stopping \ {r}
      BY <1>1, <2>1, <2>2, <3>1 DEF Local
    <3>3. Goes(w, local)
      BY <1>17, <2>7, <3>1 DEF StopRank
    <3>4. Mid(local, i) /\ (Mid(local, j) => j = i) /\ (Halfway(worker[w]) => Halfway(local)')
      BY <2>1, <2>2, <2>4, <2>5, <3>2 DEF Halfway, Mid
    <3>5. QED
      BY <1>5, <2>2, <2>3, <3>3, <3>4
  <2>8. QED
    BY <2>6, <2>7
<1>18. ASSUME NEW w \in Orca, NEW r \in Ranks, Launch(w, r) PROVE Tended(j)'
  <2>1. PICK i \in Jobs : worker[w].job = i
    BY <1>1, <1>18 DEF Launch, Sound
  <2>2. worker[w].pc = "launch" /\ ranks[r] = NULL /\ Mid(worker[w], i)
    BY <1>18, <2>1 DEF Launch, FreshRank, Mid
  <2> DEFINE row == [ job_id |-> worker[w].job, plan_id |-> worker[w].plan,
                      status |-> "launching", reason_code |-> NULL ]
             batch == [q \in {r} |-> row]
  <2>3. LaunchRanks(batch) /\ row \in RankRow /\ row.job_id = i
    BY <1>1, <1>18, <2>1 DEF Launch, Sound, Local, RankRow, RankStatus
  <2>4. DOMAIN batch = {r} /\ batch[r] = row
    OBVIOUS
  <2> HIDE DEF row, batch
  <2>5. /\ jobs' = jobs /\ ranks'[r] = row /\ row # NULL
        /\ \A q \in Ranks \ {r} : ranks'[q] = ranks[q]
    BY <2>3, <2>4, NullIsNoValue DEF LaunchRanks
  <2>6. ASSUME j # i PROVE Quiet(j)
    <3>1. RanksOf(j)' = RanksOf(j)
      BY <2>2, <2>3, <2>5, <2>6 DEF RanksOf
    <3>2. \A q \in RanksOf(j) : ranks'[q] = ranks[q]
      BY <2>2, <2>5 DEF RanksOf
    <3>3. QED
      BY <2>5, <3>1, <3>2 DEF Quiet, ActiveRanks
  <2>7. ASSUME j = i, Halfway(worker[w]) PROVE Rest(j)'
    <3>1. Matches(j, {"running"}) /\ ActiveRanks(j) = {}
      BY <2>1, <2>2, <2>7 DEF Halfway
    <3>2. r \in RanksOf(j)' /\ ActiveRanks(j)' \subseteq {r}
      <4>1. \A q \in Ranks \ {r} : q \notin ActiveRanks(j)
        BY <3>1
      <4>2. QED
        BY <2>3, <2>5, <2>7, <4>1 DEF RanksOf, ActiveRanks
    <3>3. Matches(j, {"running"})'
      BY <2>5, <3>1 DEF Matches
    <3>4. QED
      BY <3>2, <3>3 DEF Rest
  <2>8. PICK local : local = Past(w, i)
    OBVIOUS
  <2>9. Goes(w, local)
    BY <1>18, <2>1, <2>8 DEF Launch
  <2>10. ~Mid(local, j)
    BY <1>1, <2>8, ThroughWith
  <2>11. QED
    BY <1>5, <2>2, <2>6, <2>7, <2>9, <2>10
\* The other processes, and one that dies.
<1>19. ASSUME NEW i \in Jobs, SubmitJob(i) PROVE Tended(j)'
  <2>1. /\ jobs[i] = NULL /\ jobs' = [jobs EXCEPT ![i] = NewJob]
        /\ UNCHANGED ranks /\ worker' = worker /\ disturbed' = disturbed
    BY <1>19 DEF SubmitJob, Submit, handoffVars
  <2>2. /\ j # i => Quiet(j)
        /\ ActiveRanks(i)' = ActiveRanks(i) /\ jobs'[i] = NewJob
    BY <2>1, JobUpdateIsQuiet
  <2>3. CASE j # i
    BY <1>3, <2>1, <2>2, <2>3
  <2>4. CASE j = i
    <3>1. ~Matches(j, {"running"}) /\ ~Matches(j, {"running"})' /\ ActiveRanks(j)' = ActiveRanks(j)
      BY <2>1, <2>2, <2>4 DEF Matches, NewJob
    <3>2. ASSUME Rest(j) PROVE Rest(j)'
      BY <3>1, <3>2 DEF Rest
    <3>3. ASSUME NEW w \in Orca, Mid(worker[w], j), Halfway(worker[w]) PROVE Halfway(worker[w])'
      BY <2>1, <3>1, <3>3 DEF Mid, Halfway
    <3>4. QED
      BY <1>2, <2>1, <3>2, <3>3 DEF Tended, Alone, Mid
  <2>5. QED
    BY <2>3, <2>4
<1>20. ASSUME NEW r \in Ranks, RankUp(r) \/ RankFails(r) PROVE Tended(j)'
  <2>1. UNCHANGED <<worker, disturbed>>
    BY <1>20 DEF RankUp, RankFails, handoffVars
  <2>2. Quiet(j)
    BY <1>20, RankUpdateIsQuiet DEF RankUp, RankFails, RankStatus, ActiveRankStatuses
  <2>3. QED
    BY <1>3, <2>1, <2>2
<1>21. CASE KoiRead \/ KoiCreate \/ UNCHANGED vars
  <2>1. UNCHANGED <<jobVars, worker, disturbed>>
    BY <1>21 DEF KoiRead, KoiCreate, vars, handoffVars
  <2>2. QED
    BY <1>3, <2>1, NothingIsQuiet
<1>22. ASSUME NEW w \in Orca, Crash(w) PROVE Tended(j)'
  <2>1. /\ worker' = [worker EXCEPT ![w] = Idle] /\ UNCHANGED jobVars
        /\ ~Mid(worker[w], j) /\ j \notin disturbed
    BY <1>22 DEF Crash
  <2>2. Quiet(j) /\ Tended(j)
    BY <1>2, <2>1, NothingIsQuiet
  <2>3. ~Mid(Idle, j) /\ worker'[w] = Idle /\ \A v \in Orca \ {w} : worker'[v] = worker[v]
    BY <1>1, <2>1 DEF Mid, Idle
  <2>4. QED
    BY <2>1, <2>2, <2>3, QuietKeepsTended
<1>23. QED
  BY <1>8, <1>11, <1>12, <1>13, <1>14, <1>15, <1>16, <1>17, <1>18, <1>19, <1>20, <1>21, <1>22
     DEF Next, WorkerStep

\* models/plan.py and docs/KOI_INTEGRATION.md, for any number of apply loops
\* and of processes that finish jobs, each of which may die and be replaced at
\* any time: with nobody in the middle of an operation a running job is served
\* by the ranks of one plan and no other job holds an active rank, but for the
\* jobs that two of them had in hand at once or that one died with, and that
\* nobody has torn down alone since.
THEOREM HandoffSettled == Spec => []Settled
<1>1. HandoffInit => AllTended
  BY DEF HandoffInit, JobInit, AllTended, Tended, Mid, Rest, Idle, Matches, ActiveRanks, RanksOf
<1>2. TypeOK /\ HandInv /\ AllTended /\ [Next]_vars => AllTended'
  BY TendedStep
<1>3. ASSUME AllTended PROVE Settled
  <2> SUFFICES ASSUME AtRest, NEW j \in Jobs \ disturbed PROVE Consistent(j)
    BY DEF Settled
  <2>1. Rest(j)
    BY <1>3 DEF AllTended, Tended, AtRest, Mid, Idle
  <2> DEFINE serving == {ranks[r].plan_id : r \in ActiveRanks(j)}
  <2>2. ASSUME Matches(j, {"running"}) PROVE Cardinality(serving) <= 1
    <3>1. serving = {} \/ \E p : serving = {p}
      BY <2>1, <2>2 DEF Rest
    <3> HIDE DEF serving
    <3>2. ASSUME serving = {} PROVE Cardinality(serving) = 0
      BY <3>2, FS_EmptySet
    <3>3. ASSUME NEW p, serving = {p} PROVE Cardinality(serving) = 1
      <4>1. Cardinality({p}) = 1
        BY FS_Singleton
      <4>2. QED
        BY <3>3, <4>1
    <3>4. QED
      BY <3>1, <3>2, <3>3
  <2>3. QED
    BY <2>1, <2>2 DEF Rest, Consistent
<1>4. QED
  BY <1>1, <1>2, <1>3, HandsAreSound, HandoffTypeCorrect, PTL DEF Spec, HandoffTypeOK
=============================================================================
