----------------------------- MODULE PlanHandoff -----------------------------
(***************************************************************************)
(* The Koi -> Orca handoff: Koi's tick reads the job store and creates a   *)
(* plan; Orca workers poll unapplied plans, apply the actions through the  *)
(* job store and mark the plan applied, while other Orca processes finish  *)
(* jobs and watch ranks.  Koi and Orca live outside the repository; their  *)
(* loops are those of docs/KOI_INTEGRATION.md (the tick, and "Orca side":  *)
(* the apply loop is a loop of its own), with the moves of models/plan.py. *)
(*                                                                         *)
(* Each store call is one step.  Between two calls any other process may   *)
(* run, and a process may crash and restart with nothing but the tables.   *)
(***************************************************************************)
EXTENDS PlanStore

CONSTANTS
    Workers,     \* Orca apply-plan loops sharing the database
    Finishers,   \* Orca processes that finish jobs: done, failed or cancelled
    MaxCrashes   \* bound: crashes of them in a behaviour

ASSUME CrashBound == MaxCrashes \in Nat

\* ids.py: rank ids are ULIDs, drawn in the order of time.
ASSUME RanksAreOrdered == Ranks \subseteq Nat

Orca == Workers \cup Finishers

\* The moves of JobStore cover every compare-and-set Orca uses below.
ASSUME OrcaMoves ==
    /\ { [to |-> "running",  expected |-> {"waiting", "paused"}],
         [to |-> "paused",   expected |-> {"running"}],
         [to |-> "finished", expected |-> {"running"}],
         [to |-> "finished", expected |-> {"waiting", "running", "paused"}] } \subseteq Moves
    /\ { [to |-> "running", expected |-> {"launching"}],
         [to |-> "stopped", expected |-> ActiveRankStatuses],
         [to |-> "failed",  expected |-> ActiveRankStatuses] } \subseteq RankMoves

VARIABLES
    koi,      \* [pc, view]: the tick's place in its reads and what they returned
    worker,   \* per Orca process: its place in its loop and its local variables
    crashes,  \* number of crashes so far
    stale,    \* history: jobs finished when the current tick began
    dead_jobs,\* history: plans that name a job finished before their tick began
    disturbed \* history: jobs two processes had in hand at once, or one died with,
              \* since a process that had the job to itself began to tear it down

handoffVars == <<koi, worker, crashes, stale, dead_jobs, disturbed>>
vars == <<jobVars, planVars, handoffVars>>

ListedStatuses == <<"waiting", "running", "paused">>  \* the tick's reads, in order

Idle == [ pc |-> "idle", todo |-> {}, plan |-> NULL, left |-> {},
          job |-> NULL, after |-> "idle", stopping |-> {} ]

HandoffInit ==
    /\ JobInit /\ PlanInit
    /\ koi = [pc |-> 1, view |-> [j \in Jobs |-> {}]]
    /\ worker = [w \in Orca |-> Idle]
    /\ crashes = 0
    /\ stale = {}
    /\ dead_jobs = {}
    /\ disturbed = {}

Local == [ pc       : {"idle", "act", "read_ranks", "stop", "launch"},
           todo     : SUBSET Plans,         \* the polled plans in hand
           plan     : Plans \cup {NULL},    \* the one being applied
           left     : SUBSET Jobs,          \* its jobs still to do
           job      : Jobs \cup {NULL},     \* the job being worked on,
           stopping : SUBSET Ranks,         \* its ranks being torn down,
           after    : {"idle", "act", "launch"} ]   \* and what follows

LocalTypeOK ==
    /\ koi \in [pc : 1..4, view : [Jobs -> SUBSET JobStatus]]
    /\ worker \in [Orca -> Local]
    /\ crashes \in 0..MaxCrashes
    /\ stale \subseteq Jobs /\ dead_jobs \subseteq Plans /\ disturbed \subseteq Jobs

HandoffTypeOK == TypeOK /\ PlanTypeOK /\ LocalTypeOK

-----------------------------------------------------------------------------
(* Koi *)

\* waiting_jobs, running_jobs, paused_jobs: three reads in three sessions.
\* Bound: no pass begins when no plan id is left to write.
KoiRead ==
    /\ koi.pc <= 3
    /\ \E p \in Plans : plans[p] = NULL
    /\ koi' = [ pc   |-> koi.pc + 1,
                view |-> [j \in Jobs |->
                            IF j \in JobsWithStatus(ListedStatuses[koi.pc])
                            THEN koi.view[j] \cup {ListedStatuses[koi.pc]}
                            ELSE koi.view[j]] ]
    /\ stale' = IF koi.pc = 1 THEN {j \in Jobs : Finished(j)} ELSE stale
    /\ UNCHANGED <<jobVars, planVars, worker, crashes, dead_jobs, disturbed>>

\* The actions that make sense for a status the tick saw the job in.
ActionsFor(status) ==
    CASE status = "waiting" -> {"place", "defer"}
      [] status = "running" -> {"keep", "preempt", "swap"}
      [] status = "paused"  -> {"place"}

NextPlan(p) == plans[p] = NULL /\ \A q \in Plans : q < p => plans[q] # NULL

\* The solver's choice: one action per job the tick saw.  Every pass writes
\* one plan, an empty one when there is no job.
KoiCreate ==
    LET seen == {j \in Jobs : koi.view[j] # {}} IN
    /\ koi.pc = 4
    /\ koi' = [pc |-> 1, view |-> [j \in Jobs |-> {}]]
    /\ stale' = {}
    /\ \E p \in Plans, actions \in [seen -> ActionType] :
          /\ NextPlan(p)
          /\ \A j \in seen : actions[j] \in UNION {ActionsFor(s) : s \in koi.view[j]}
          /\ Create(p, actions)
          /\ dead_jobs' = IF seen \cap stale # {} THEN dead_jobs \cup {p} ELSE dead_jobs
    /\ UNCHANGED <<jobVars, worker, crashes, disturbed>>

-----------------------------------------------------------------------------
(* Orca's processes *)

\* A process there is in the middle of an operation on j: between its calls.
Mid(local, j) == local.pc \in {"read_ranks", "stop", "launch"} /\ local.job = j

\* Fault: unapplied() lists the newest plan first.
Newest(ps) == CHOOSE p \in ps : \A q \in ps : q <= p

Oldest(ps) == CHOOSE p \in ps : \A q \in ps : p <= q

\* worker w turns to the oldest of the plans `ps` it still has in hand.
Take(w, ps) ==
    IF ps = {} THEN Idle
    ELSE [Idle EXCEPT !.pc = "act", !.todo = ps, !.plan = Oldest(ps),
                      !.left = DOMAIN plans[Oldest(ps)].actions]

Steps(w, local) ==
    /\ worker' = [worker EXCEPT ![w] = local]
    /\ UNCHANGED <<koi, crashes, stale, dead_jobs>>

Goes(w, local) == Steps(w, local) /\ UNCHANGED disturbed

\* w takes up j, to tear its ranks down or to launch some.
TakesUp(w, j, local) ==
    /\ Steps(w, local)
    /\ disturbed' = IF \E v \in Orca : Mid(worker[v], j) THEN disturbed \cup {j}
                    ELSE IF local.pc = "read_ranks" THEN disturbed \ {j}
                    ELSE disturbed

Poll(w) ==
    /\ w \in Workers
    /\ worker[w].pc = "idle"
    /\ Unapplied # {}
    /\ Goes(w, Take(w, Unapplied))
    /\ UNCHANGED <<jobVars, planVars>>

\* The action on job j is over; the worker goes on with the plan.
Past(w, j) == [worker[w] EXCEPT !.pc = "act", !.left = @ \ {j}, !.job = NULL,
                                !.after = "idle", !.stopping = {}]

\* `act` is the plan's action for j, next in the loop over plan.actions.
Acting(w, j, act) ==
    /\ worker[w].pc = "act"
    /\ j \in worker[w].left
    /\ plans[worker[w].plan].actions[j] = act

\* keep, defer: pass.
Skip(w, j) ==
    /\ Acting(w, j, "keep") \/ Acting(w, j, "defer")
    /\ Goes(w, Past(w, j))
    /\ UNCHANGED <<jobVars, planVars>>

\* place: waiting|paused -> running, then launch_ranks.
Place(w, j) ==
    /\ Acting(w, j, "place")
    /\ IF Matches(j, {"waiting", "paused"})
       THEN /\ Transition(j, "running", {"waiting", "paused"}, NULL)
            /\ TakesUp(w, j, [worker[w] EXCEPT !.pc = "launch", !.job = j])
       ELSE Goes(w, Past(w, j)) /\ UNCHANGED jobVars
    /\ UNCHANGED planVars

\* preempt: running -> paused, then tear down the ranks.
Preempt(w, j) ==
    /\ Acting(w, j, "preempt")
    /\ IF Matches(j, {"running"})
       THEN /\ Transition(j, "paused", {"running"}, NULL)
            /\ TakesUp(w, j, [worker[w] EXCEPT !.pc = "read_ranks", !.job = j, !.after = "act"])
       ELSE Goes(w, Past(w, j)) /\ UNCHANGED jobVars
    /\ UNCHANGED planVars

\* swap: stays running, tear down the ranks and relaunch.
Swap(w, j) ==
    /\ Acting(w, j, "swap")
    /\ IF Matches(j, {"running"})
       THEN TakesUp(w, j, [worker[w] EXCEPT !.pc = "read_ranks", !.job = j, !.after = "launch"])
       ELSE Goes(w, Past(w, j))
    /\ UNCHANGED <<jobVars, planVars>>

\* Where a teardown leads once no rank is left to stop.
AfterTeardown(w) ==
    CASE worker[w].after = "act"    -> Past(w, worker[w].job)
      [] worker[w].after = "launch" -> [worker[w] EXCEPT !.pc = "launch", !.stopping = {}]
      [] worker[w].after = "idle"   -> Idle

ReadRanks(w) ==
    /\ worker[w].pc = "read_ranks"
    /\ Goes(w, IF ActiveRanks(worker[w].job) = {} THEN AfterTeardown(w)
               ELSE [worker[w] EXCEPT !.pc = "stop", !.stopping = ActiveRanks(worker[w].job)])
    /\ UNCHANGED <<jobVars, planVars>>

StopRank(w, r) ==
    /\ worker[w].pc = "stop"
    /\ r \in worker[w].stopping
    /\ IF ranks[r].status \in ActiveRankStatuses
       THEN SetRankStatus(r, "stopped", ActiveRankStatuses, NULL)
       ELSE UNCHANGED jobVars
    /\ Goes(w, IF worker[w].stopping = {r} THEN AfterTeardown(w)
               ELSE [worker[w] EXCEPT !.stopping = @ \ {r}])
    /\ UNCHANGED planVars

\* Rank() mints a fresh rank_id for every launch: the next that no row has.
FreshRank(r) == ranks[r] = NULL /\ \A q \in Ranks : ranks[q] = NULL => r <= q

Launch(w, r) ==
    /\ worker[w].pc = "launch"
    /\ FreshRank(r)
    /\ LaunchRanks([q \in {r} |-> [ job_id |-> worker[w].job, plan_id |-> worker[w].plan,
                                    status |-> "launching", reason_code |-> NULL ]])
    /\ Goes(w, Past(w, worker[w].job))
    /\ UNCHANGED planVars

Mark(w) ==
    /\ worker[w].pc = "act"
    /\ worker[w].left = {}
    /\ MarkApplied(worker[w].plan)
    /\ Goes(w, Take(w, worker[w].todo \ {worker[w].plan}))
    /\ UNCHANGED jobVars

\* A job is done, has failed or is cancelled, whatever the apply loops are
\* doing; its ranks are torn down.
Finish(w, j) ==
    /\ w \in Finishers
    /\ worker[w].pc = "idle"
    /\ \/ Transition(j, "finished", {"running"}, NULL)
       \/ \E reason \in Reasons :
             Transition(j, "finished", {"waiting", "running", "paused"}, reason)
    /\ TakesUp(w, j, [Idle EXCEPT !.pc = "read_ranks", !.job = j])
    /\ UNCHANGED planVars

\* The process dies between two calls; its replacement starts afresh.
Crash(w) ==
    /\ crashes < MaxCrashes
    /\ worker[w] # Idle
    /\ crashes' = crashes + 1
    /\ worker' = [worker EXCEPT ![w] = Idle]
    /\ disturbed' = disturbed \cup {j \in Jobs : Mid(worker[w], j)}
    /\ UNCHANGED <<jobVars, planVars, koi, stale, dead_jobs>>

-----------------------------------------------------------------------------
(* Orca's other callers of the job store: intake and rank monitoring *)

SubmitJob(j) == Submit(j) /\ UNCHANGED <<planVars, handoffVars>>

RankUp(r) ==
    /\ SetRankStatus(r, "running", {"launching"}, NULL)
    /\ UNCHANGED <<planVars, handoffVars>>

RankFails(r) ==
    /\ \E reason \in Reasons : SetRankStatus(r, "failed", ActiveRankStatuses, reason)
    /\ UNCHANGED <<planVars, handoffVars>>

-----------------------------------------------------------------------------
WorkerStep(w) ==
    \/ Poll(w) \/ ReadRanks(w) \/ Mark(w)
    \/ \E j \in Jobs : Skip(w, j) \/ Place(w, j) \/ Preempt(w, j) \/ Swap(w, j)
    \/ \E r \in Ranks : StopRank(w, r) \/ Launch(w, r)

Next ==
    \/ KoiRead \/ KoiCreate
    \/ \E w \in Orca : WorkerStep(w) \/ Crash(w) \/ \E j \in Jobs : Finish(w, j)
    \/ \E j \in Jobs : SubmitJob(j)
    \/ \E r \in Ranks : RankUp(r) \/ RankFails(r)

\* Orca's loops run for as long as they have something to do; nothing obliges
\* Koi to plan, a job to finish or a rank to come up.
Fairness == \A w \in Orca : WF_vars(WorkerStep(w))

Spec == HandoffInit /\ [][Next]_vars /\ Fairness

-----------------------------------------------------------------------------
(* Properties *)

AtRest == \A w \in Orca : worker[w] = Idle

\* mark_applied is answered True exactly once per applied plan, however many
\* workers and restarted workers hold it.
OneMarker ==
    \A p \in Plans :
        markers[p] = IF plans[p] # NULL /\ p \notin Unapplied THEN 1 ELSE 0

\* A tick reads three lists in three sessions while jobs move on; the plan it
\* writes may be stale, but it never names a job that was already finished
\* when the tick began.
NoDeadJobPlanned == dead_jobs = {}

\* A plan is applied for good and its actions are what Koi wrote; the event
\* that wakes Orca is there exactly when the row is.
PlansAreImmutable ==
    [][/\ plan_announced' = {p \in Plans : plans'[p] # NULL}
       /\ \A p \in Plans : plans[p] # NULL =>
             /\ plans'[p] # NULL
             /\ plans'[p].actions = plans[p].actions
             /\ plans[p].status = "applied" => plans'[p].status = "applied"]_vars

\* What a job's status means for its ranks: a running job is served by the
\* ranks of one plan, and a waiting, paused or finished one holds no active rank.
Consistent(j) ==
    /\ Matches(j, {"running"}) =>
          /\ RanksOf(j) # {}
          /\ Cardinality({ranks[r].plan_id : r \in ActiveRanks(j)}) <= 1
    /\ ~Matches(j, {"running"}) => ActiveRanks(j) = {}

\* The status semantics of the scheduler: with nobody in the middle of an
\* operation every job is in order, but for those that two processes had in
\* hand at once (a finish, or a second worker, between the transition and the
\* launch that no status guards) or that one died with; and the next swap,
\* preempt or finish that has such a job to itself puts it in order again,
\* however many died or raced before.
Settled == AtRest => \A j \in Jobs \ disturbed : Consistent(j)

\* plans.py: "mark_applied is a compare-and-set so two Orca workers cannot
\* apply the same plan twice": no plan launches ranks twice for one job.
PlanAppliedOnce ==
    \A p \in Plans, j \in Jobs :
        Cardinality({r \in RanksOf(j) : ranks[r].plan_id = p}) <= 1

\* The handoff as Koi and Orca may think of it: the plans table, with any
\* number of workers that crash and restart at any point, is a PlanQueue.  In
\* particular every plan is confirmed once, by one worker, and none is left.
Queue == INSTANCE PlanQueue WITH
            Contents  <- Actions,
            content   <- [p \in Plans |-> IF plans[p] = NULL THEN NULL ELSE plans[p].actions],
            announced <- plan_announced,
            applied   <- {p \in Plans : plans[p] # NULL /\ p \notin Unapplied},
            verdicts  <- markers

IsAPlanQueue == Queue!Spec
=============================================================================
