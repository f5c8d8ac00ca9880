# TLA+ models of tandemn-store

This directory holds TLA+ modules that model the state and the operations of
`tandemn_system_data` (the Postgres stores that Orca and Koi share) and
`tandemn_user_data` (the path of user bytes between a bucket and a worker), the
TLC configurations that check them, and theorems about them that TLAPS proves.

Paths below are relative to the repository; `clients/x.py` stands for
`src/tandemn_system_data/clients/x.py`.

## 1. The system

### 1.1 Actors

| actor | where its code is | what it does with the stores |
|---|---|---|
| **Orca** | another repository; its calls are described in `docs/KOI_INTEGRATION.md` and the docstrings of `clients/*.py` | accepts jobs, applies Koi's plans, launches and stops ranks, records events, mints, revokes and purges credentials. Several workers may share one database. |
| **Koi** | another repository; the tick is described in `docs/KOI_INTEGRATION.md` | reads jobs, ranks, telemetry, the resource map and its own evidence; writes one plan per tick and its causal graph. |
| **credentials endpoint** | `clients/credentials_server.py` | turns a `credentials_ref` into a secret over HTTP. |
| **workers** | `tandemn_user_data/worker/client.py` | read chunks from S3 and write outputs, with credentials resolved per call. |

All coordination runs through Postgres. There is no lock, queue or broadcast in
this code: the unit of atomicity is one transaction
(`PostgresClient.begin`, `clients/postgres.py:72-83`) at Postgres' default
isolation level READ COMMITTED (`clients/postgres.py:36-47` sets no other), and a
read that needs two statements or two sessions sees two states.

### 1.2 Components, their state and operations

| component | state | operations | what makes it correct |
|---|---|---|---|
| `JobStore` (`clients/jobs.py`) | `jobs`, `ranks`, event rows | `submit`, `transition`, `fail`, `set_error`, `launch_ranks`, `set_rank_status`, reads | one caller finishes a job and its verdict stays; ranks never change hands; a job and its event row appear together; a read misses nothing that stayed true |
| `PlanStore` (`clients/plans.py`) | `plans`, event rows | `create`, `unapplied`, `mark_applied` | plans are immutable but for the one move created → applied |
| Koi → Orca handoff | the loops of Koi and Orca | read, plan, poll, apply, mark | every plan gets applied; a job is served by the ranks of one plan; no dead job is planned |
| `PostgresEventLog` (`clients/event_log.py`) | `events`, `event_consumer_offsets` | `append`, `read_after`, `get_cursor`, `read_for_consumer`, `initialize_consumer_at_user_tail`, `ack` | at-least-once delivery in `(created_at, event_id)` order |
| `CredentialStore`, endpoint, resolver | `credentials` | `put`, `get`, `list_for_user`, `revoke`, `purge_expired`, `GET /credentials/<ref>` behind a token, `resolve` | no secret after its end; no refusal before it; a purge keeps to its cutoff; a removal is reported, a report was a removal |
| S3 connector, `WorkerClient`, `index_source` | a bucket; a worker's call in progress | `index`, `read`, `write` to a prefix or an exact key, `fetch_payload`, `write_outputs` | outputs are whole, parts are kept and not duplicated by a resent request; an index is complete |
| `ResourceMapStore`, `models/resource_map.py` | one document per map | `get`, `replace`, `scheduling_summary` | what is read back means what was written; the summary counts what the map holds |
| `HardwareCatalogStore` | one document per hardware | `get`, `all`, `replace` | last writer wins |
| `ModelCatalogStore` | one document per model | `get`, `replace`, `set_min_chain_warmup_minutes` | a patch of one field keeps the others |
| `EvidenceStore` | evidence rows, merged by `{tick}_{job}_{rank}` | `put_many`, `recent`, `current_tick`, `latest*`, windowed and per-entity reads | a tick is seen whole; no row is overwritten; a replay run again differs only by late rows |
| `CausalGraphStore` | nodes, edges, mechanisms | `is_empty`, `load_*`, `sync_edge_metadata`, `put_mechanism`, `sync_mechanisms` | after a crash, stored confidence lags the evidence by that pass at most |
| `GpuMetricStore` | append-only samples, joined with jobs and ranks | `put*`, `latest`, `recent`, `rows_for_rank`, `rows_for_role`, `rows_in_window`, Koi's job and rank windows | what a window has shown it shows for good |
| `UserStore`, ids, migrations, ORM | `users`; DDL | insert if absent; ULIDs; schema | not modelled, see section 6 |

### 1.3 Interactions

```
   submit/transition/launch           plans (create)
 Orca ------------------> jobs, ranks <------------ Koi   reads three job lists
   |  \                       |                      |    in three sessions,
   |   \--- unapplied, ------ plans <----------------/    writes one plan
   |        mark_applied      |
   |                          +--> events --> consumer loops: cursor, batch, ack
   |-- put, revoke, purge --> credentials <-- endpoint <-- worker: resolve
   \-- index_source --------> bucket <------------------- worker: get, put
```

### 1.4 What is hard here

* **Compare-and-set races.** `transition`, `fail`, `set_rank_status` and
  `mark_applied` are guarded UPDATEs; everything else (`set_error`,
  `launch_ranks`, `ack`) is not guarded by the state the caller believed in.
* **Torn reads.** `running_jobs`, `read_for_consumer`, `recent` and Koi's tick
  take several statements; writers commit between them.
* **At-least-once everything.** A worker or consumer can die between acting and
  saying so; plans and batches come again.
* **Order of visibility.** An event's `created_at` is stamped before its commit,
  so rows can appear behind a cursor that has moved on.
* **Joined telemetry.** Koi's windows join samples with rank rows that may not be
  committed yet, or never; batches of samples come late and are retried.
* **Row locks.** `launch_ranks` takes several in one transaction in the order of
  its argument.
* **Time.** Credentials end while requests are open and tasks run.
* **Lost answers.** A `put_object` may have happened although its caller saw an
  error.

`PROJECT.json` lists each hazard at its line with the properties that cover it.

## 2. Modules

| module | models | main variables ↔ code |
|---|---|---|
| `JobStore` | `clients/jobs.py`, one action per call | `jobs`, `ranks`: the two tables by key; `announced`: jobs with a `job.submitted` event row; `told`: history of True answers to finishing calls |
| `RunningJobs` | `running_jobs`, its two statements apart, on top of `JobStore` | `read`: the reader's place and results; `truths`: history of right answers during the read |
| `RankTxn` | `launch_ranks` statement by statement: row locks, invisibility until commit, rollback, deadlock victims | `txn`: per caller, the argument, the rows left and the uncommitted rows |
| `PlanStore` | `clients/plans.py` on top of `JobStore` | `plans`; `plan_announced`: `plan.created` event rows; `markers`: history of True answers |
| `PlanQueue` | what the plans table promises the programs that meet over it; abstract | `content`, `announced`, `applied`, `verdicts` per plan |
| `PlanHandoff` | Koi's tick, Orca's apply loops and the Orca processes that finish jobs over both stores, one action per store call | `koi`, `worker`: place in the loop and local variables; `crashes`; histories `stale`, `dead_jobs`, `disturbed` (jobs two processes had in hand at once, or one died with) |
| `EventLog` | `clients/event_log.py` and the loop of a consumer, one action per statement | `log`: committed event rows; `offset`: the consumer's cursor row; `inst`: per instance, place and locals; histories `processed`, `late`, `exempt` |
| `Telemetry` | `clients/gpu_metric_store.py` beside the tables it joins | `gpu_metrics`: ids of the stored samples |
| `RankTelemetry` | composition: samples of ranks whose launch is still open | those of `RankTxn` and `Telemetry` |
| `Credentials` | `credentials_store.py`, `credentials_server.py`, `credentials_client.py` | `now`; `creds`: each ref's `expires_at`; `request`: per worker, the request in flight and whether it carries the token; `admin`: a revoke, purge (with its cutoff) or list under way; histories `puts`, `lived`, `lapsed`, `claimed` (removals reported), `seen` (live during a list, written during a purge) |
| `UserData` | the S3 connector on one bucket | `bucket`: objects by key; `lister`: an index in progress |
| `WorkerIO` | `WorkerClient` over `Credentials` and `UserData` | `task`: per worker, the calls left of a chunk and their values; histories `starts`, `written`, `fresh` |
| `CausalGraph` | `clients/causal_graph_store.py`; an action operator per call | `node_table`; `edge_table`, `mechanism_table`: the confidence columns |
| `Evidence` | `clients/evidence_store.py`: `put_many`, `recent` and `recently_decided` in their two statements, `latest_before` with its descending order, limit and turn | `evidence`: rows by (tick, item) with the edges of their payload; `reader`: one of the two reads under way; `moments`: history of right answers during it |
| `ResourceMap` | `clients/resource_map.py` with the conversion of flat bodies, and `scheduling_summary` turn by turn of its loops | `resource_row`; `published`: history of the bodies by version |
| `KoiTick` | Koi's boot, pass, flush and crash over the three modules above | `koi`: place, tick counter, confidence in memory, batch, map read; `crashes` |
| `ModelCatalog` | `clients/model_catalog.py`, the patch in its two transactions | `catalog_row`; `patch`: the catalog each patcher holds |
| `Ascending` | a finite set in order, as `sorted` and ORDER BY list it; used by `CausalGraph`, `Evidence` and `UserData` | |
| `JobStore_proofs`, `PlanHandoff_proofs`, `EventLog_proofs`, `Credentials_proofs`, `KoiTick_proofs`, `WorkerIO_proofs`, `Ascending_proofs` | theorems and proofs; each extends the module it is named for, and cites the theorems of the stores that module is composed of | |
| `JobClients_proofs` | the same for the modules built on the job store: `RunningJobs`, `RankTxn`, `Telemetry`, `RankTelemetry` | |
| `MC*` | constants and symmetry sets for TLC | |

Composition is by EXTENDS: `PlanHandoff` and `RankTxn` use the very actions of
`JobStore`, `RankTelemetry` those of `RankTxn` and `Telemetry`, `WorkerIO` those of
`Credentials` and `UserData`, `KoiTick` those of `Evidence`, `CausalGraph` and
`ResourceMap`.

`PlanQueue` is the abstract specification `PlanHandoff` implements
(`Queue == INSTANCE PlanQueue WITH ...`, `IsAPlanQueue` as a PROPERTY): it knows
plans only as contents that are posted once, confirmed once, after all plans before them,
and never forgotten; the mapping takes a plan's actions as its content, status `applied` as
confirmation and the True answers of `mark_applied` as verdicts, and hides processes,
crashes, jobs and ranks. `JobSpec`, the job store by itself with any caller, is what the
store's own theorems are about; that the modules built on it take no other step on its
tables (`HandoffUsesTheStore`, `OnlyLaunchSteps`) holds by construction, and is a lemma
that carries those theorems over, not a result.

Conventions. A call that writes nothing is a stuttering step. `NULL` is a model
value for SQL NULL and for "no row". A history variable is written and never read
by an action. Every module with a checked property also holds, next to the
definition concerned, the *faults*: variants of that definition that a plausible
bug would turn it into (each marked "Fault:"). They are used by no specification; a
property is kept only if one of them makes TLC find it violated.

What the abstraction leaves out: user ids (one user, except in `EventLog`, where
`UserEvents` are the user's own, and `Telemetry`, whose windows check the job's
owner), names, shapes, ladders, payloads, rationale, error wording beyond a small set
of reasons, and all stamps except those an operation compares.

## 3. Runs

Each line: configuration, states, what it shows.

| run | cfg | instance | shows |
|---|---|---|---|
| `running_jobs` | `RunningJobs.cfg` | 2 jobs, 1 rank, 1 reason; every batch `launch_ranks` can get; 252k states | **OneVerdict**, **FinishedIsFinal**: of all callers that race to finish a job one is told True, and the row keeps its reason for good. **RankKeepsItsJob**, **References**: no refresh moves a rank, rows refer to rows. **NothingStableIsMissed**: although `running_jobs` is torn, a rank that was active on a running job throughout the read is in its answer. (The converse is what `running_jobs_torn` refutes: a rank that stopped in between may be there or not, so the capacity Koi infers from the answer may be wrong.) |
| `running_jobs_torn` | `RunningJobsTorn.cfg` | the same | *violated*: **ConsistentSnapshot**. `clients/jobs.py:14-15` promises a consistent snapshot; the two statements run at READ COMMITTED. |
| `rank_txn` | `RankTelemetry.cfg` | 3 callers, 3 ranks, 2 jobs, four lists (both orders, two jobs, one rank twice); 3 samples, one of them stamped with the job that loses the rank, in two batches that overlap; 54k states | **LaunchIsWhole**: wherever a call is refused, deadlocks or is lost, others see every rank of its list or none. **EveryCallReturns**: no call keeps its transaction open for ever, whatever it runs into. **DeadlockNeedsDisorder**: on every cycle of waits some list is out of rank id order; so callers that all sort never deadlock, while one that sorts may still be the victim of others that do not. **TelemetryStays**: a sample that a window of a job or a rank once showed is never taken back, although the rank it joins is launched, refreshed and rolled back meanwhile, and no read of the newest samples goes back in time. |
| `handoff` | `Handoff.cfg` | 1 job, 4 ranks, 2 plans, 2 apply loops, 1 finisher, 1 crash; 178k states | **Settled**: at rest, a running job is served by the ranks of one plan and any other holds no active rank, but for a job that two processes had in hand at once or one died with; and such a job is in order again after the next swap, preempt or finish that has it to itself. **NoDeadJobPlanned**: Koi's three separate reads never plan a job that was finished before its tick. **PlansAreImmutable**. **OneMarker**: one True answer per plan. **IsAPlanQueue**: the handoff implements `PlanQueue`: plans are confirmed in order, and under weak fairness of the loops every plan is, whatever crashes. |
| `handoff_twice` | `HandoffTwice.cfg` | 2 workers, no crash | *violated*: **PlanAppliedOnce**. `clients/plans.py:5-6` says the compare-and-set of `mark_applied` keeps two workers from applying a plan twice; it comes after the actions. |
| `event_log_many` | `EventLogMany.cfg` | 3 events, two with equal stamps and one stamped before them, 3 instances, limit 2, so that a batch ends inside the tie, 1 crash, one initializer; 655k states | **SkippedOnlyIfLate**: crashes, colliding acks and the initialization lose nothing; only a row committed behind a position already read can be skipped. **AckAdvances**: an ack whose batch was read at the cursor's present position moves the cursor forward; the one exception is that the ack had found the cursor at the end of its batch, moved back since: SQLAlchemy then leaves the unchanged column out of the UPDATE and the cursor stays. **EventuallyProcessed**. |
| `event_log_skip` | `EventLogSkip.cfg` | 2 events, 1 instance, no crash | *violated*: **NothingSkipped**. `DATA_ARCHITECTURE.md:432-433` says the row remains and the consumer catches up; a row committed late is never read. |
| `credentials` | `Credentials.cfg` | 1 worker, 2 Orca processes, 2 refs, 3 instants, each ref written up to twice, any cutoff, requests with and without the token; 2.0M states | **ServedWhileLive**, **RefusedWhileLapsed**: each answer was right at some moment of its request (`get` is linearizable although it reads the row and the clock apart), and so is each entry of `list_for_user`. **PurgeKeepsToItsCutoff**: `purge_expired` selects, then deletes by key; what it takes expires by the cutoff it was given (a cutoff to come takes live rows, as the caller asked), or was written while it ran. **RevokeIsTrue**: every removal is reported by someone; two calls that overlap may both report it, but none reports what never went. |
| `worker_io` | `WorkerIO.cfg` | 2 workers, 2 chunks (one with a blank line, one with a row that does not parse), 3 part keys around them, page size 1, 1 exact output key, each chunk handed out up to twice; 2.0M states | **OutputsAreWhole**: no object, at a part key or an exact one, holds half a chunk, and a part is never lost or changed. **DuplicatesOnlyByRestart**, **IndexIsComplete**, **SecretsAreNotKept**, under failures anywhere, lost answers and resent requests. |
| `outputs_append` | `OutputsAppend.cfg` | the same with two readable chunks | *violated*: **OutputsAppend**. `core/record.py:40` says of output refs "Outputs append; no byte_range."; a second chunk sent to an exact key replaces the first. |
| `koi_tick` | `KoiTick.cfg` | 1 node, 2 edges, 1 mechanism over both, 2 items in 2 environments, 2 ticks, windows of 1 and 0 ticks, rows available early, late (after a later tick's) and never, 1 crash; 2 maps, up to version 2, a flat body with GPUs left over; 186k states up to the symmetry of the edges | **ReadsAreMoments**: `recent` takes two statements and `recently_decided` two sessions, and both are exact all the same, because a tick is written once and in one transaction. **ReplayGainsLateRowsOnly**: a replay of a past cutoff by `latest_before` is not stable, for a row may be stamped before it is committed; run again it gains only rows that were not there, loses only what they push out of the limit, and stays in the order of availability. **EvidenceIsKept**: a restarted Koi overwrites no row. **ConfidenceLags**, **MechanismsFollowEdges**: a Koi that booted has the whole graph, and the three writes of a pass leave the tables at most the crashed passes apart, always in the same order. **PlansWithThePublished**: each map read is the one published under its version and `scheduling_summary` counts every pool once per market. |
| `catalog_patch` | `CatalogPatch.cfg` | 1 patcher, 3 catalogs | *violated*: **PatchKeepsTheRest**. `clients/model_catalog.py:64` says the patch preserves the rest of the catalog; it writes back what it read in another session. |

### Bounds, and why they are enough

* *Jobs, ranks, plans.* The guards of the job store look at one row, so two rows
  of a kind give every pair that can disagree; `launch_ranks` is the only
  operation on several rows, and `rank_txn` gives it three ranks and three
  callers, which is enough for cycles of length two and three.
  In the handoff one job is enough for what two processes can do to a job, and two plans
  give it every pair of actions in a row and a queue whose order can go wrong; what is
  then not in the instance, one plan with actions on two jobs, is in the theorems. The
  pool of ranks stands for fresh ULIDs; a launch that finds none left waits.
* *Events.* Three rows contain a tie, an inversion between id and stamp and, with
  `Limit = 2`, a batch that ends inside the tie. Three instances are needed for the case
  in which the flush of an ack leaves the cursor alone. All three events pass the
  consumer's filter here; `EventLogDelivery` covers filters.
* *Crashes.* One crash, at every point. A crashed process keeps nothing, so further ones
  start from a state already visited up to the tables.
* *Time.* Three instants: before, at, and after an expiry, with the
  boundary included. In `worker_io` two suffice, since a task only distinguishes
  live from lapsed; expiry stands for revocation there (to a worker both are a
  refused request) and `credentials` covers the difference.
* *Samples.* Three: one of the job that wins a rank, one of the job that loses it, one of
  a GPU nobody owns that is there already, so that the batch that repeats it fails whole.
  A limit of 1 is the only one at which three samples can push each other out.
* *Ticks.* Two ticks with a window of one: the second tick is enough to push the first
  out of the window between the two statements of `recent`, to let a restarted Koi
  resume wrongly, and to leave a pass half flushed behind a later one. Two items make
  a tick of several rows.
* *Maps.* One map has two pools that share a key, two zones and two markets; the other
  lists no market. The flat body's 20 GPUs fill two instances of 8.
* *Checks of deadlock* are off only where the instance runs out of something
  (plans, ids, chunks, ticks) or a single-use run stops by design.

### Fairness

`PlanHandoff`: weak fairness of each worker's step; Orca's loop polls for as long
as it runs, and a crashed worker is replaced. Nothing obliges Koi to plan, a job to
end or a rank to come up. `EventLog`: weak fairness of each instance's loop; no
producer is obliged to append. `RankTxn`: weak fairness of each call's next statement
and strong fairness of getting a row, because Postgres queues waiters for a row in
the order they came. All other properties are safety properties.

## 4. Proofs

| theorem | states | argument |
|---|---|---|
| `JobTypeCorrect` | `Spec => []TypeOK` for `JobSpec` | each call builds rows of the row types |
| `JobOneVerdict` | `JobSpec => []OneVerdict` | inductive given the type invariant and `MovesRespectLifecycle`: no caller asks for a move out of `finished`, so the guard of a finishing call fails on a finished row |
| `JobFinishedIsFinal` | `JobSpec => FinishedIsFinal` | from the type invariant, call by call; `set_error` writes another column |
| `JobRankKeepsItsJob` | `JobSpec => RankKeepsItsJob` | the WHERE clause of the upsert |
| `JobReferences` | `JobSpec => []References` | no call deletes a job (`JobsStay`), no call moves a rank, and `submit` writes row and event at once |
| `TelemetryStaysTrue` | `TelemetrySpec => TelemetryStays` | below |
| `HandoffTypeCorrect` | `Spec => []HandoffTypeOK` | `HandInv` and the store's own type invariant |
| `HandoffOneMarker` | `Spec => []OneMarker` | from `PlanStep` |
| `HandoffPlansAreImmutable` | `Spec => PlansAreImmutable` | from `PlanStep`, with the invariant that the announced plans are those that exist |
| `HandoffNoDeadJobPlanned` | `Spec => []NoDeadJobPlanned` | below |
| `HandoffSettled` | `Spec => []Settled`, for any loops, finishers and crashes | below |
| `HandoffIsAQueue` | `Spec => Queue!SafeSpec` | step refinement: `create` is `Post`, `mark_applied` of an unapplied plan is `Confirm`, everything else a stutter; that a plan is marked after those before it needs `TurnInv`, below |
| `LaunchIsAtomic` | `Spec => LaunchIsWhole` for `RankTxn` | below |
| `RankTxnTypeCorrect` | `Spec => []TxnTypeOK` | `TxnInv` |
| `DeadlocksNeedDisorder` | `Spec => []DeadlockNeedsDisorder` for `RankTxn` | below |
| `RankTelemetryTypeCorrect` | `RankTelemetrySpec => []RankTelemetryTypeOK` | the types of the two specifications it composes |
| `TelemetryStaysDuringLaunches` | `RankTelemetrySpec => TelemetryStays` | `ReadersSeeStoreSteps`, then the argument of `TelemetryStaysTrue` |
| `RunningJobsTypeCorrect` | `ReadSpec => []ReadTypeOK` for `RunningJobs` | the store's type invariant and the reader's own steps |
| `RunningJobsMissesNothingStable` | `ReadSpec => []NothingStableIsMissed` | below |
| `CredTypeCorrect` | `CredSpec => []CredTypeOK` | one lemma for a request's steps, one for an admin's |
| `CredServedWhileLive`, `CredRefusedWhileLapsed` | `CredSpec => []ServedWhileLive`, `[]RefusedWhileLapsed` | below |
| `CredPurgeKeepsToItsCutoff`, `CredRevokeIsTrue` | `CredSpec => []PurgeKeepsToItsCutoff`, `[]RevokeIsTrue` | below |
| `EventLogTypeCorrect` | `Spec => []TypeOK` | one lemma per local state the loop builds |
| `EventLogDelivery` | `Spec => []SkippedOnlyIfLate` | see below |
| `InOrderDelivery` | `Spec /\ CommitsInStampOrder => []NothingSkipped` | rows that commit in stamp order never land behind a position, so `late` stays empty; the positive side of the run `event_log_skip` |
| `EventLogAckAdvances` | `Spec => AckAdvances` | a second invariant: an instance's `upto` lies after the cursor its batch was read at, as long as that row exists; the flush writes `upto` unless the lookup found it |
| `TypesOfKoi`, `KoiInvariant` | `Spec => []KoiTypeOK`, `[]KoiInv` for `KoiTick` | `TypeInv`, then `KoiInv` conjunct by conjunct |
| `RecentIsExact` | `Spec => []ReadsAreMoments` | `KoiInv`, see below |
| `ConfidenceCountsEvidence`, `MechanismsNeverLead` | `Spec => []ConfidenceLags`, `[]MechanismsFollowEdges` | `KoiInv`, see below |
| `EvidenceIsNeverOverwritten` | `Spec => EvidenceIsKept` | `KoiInv`: a pass is later than every tick on record |
| `ReplaysGainLateRowsOnly` | `Spec => ReplayGainsLateRowsOnly` | what listing a set in descending order, cutting and turning it gives (`LatestRows`), and that no row on record goes, see below |
| `PlansFitTheMap` | `Spec => []PlansWithThePublished` | a version never repeats (`resource_row.version = Len(published)`); the integer division of the flat body; counting the turns of the loops, see below |
| `IOInvariant`, `TypesOfWorkers` | `Spec => []IOInv`, `[]IOTypeOK` for `WorkerIO` | `IOInv` conjunct by conjunct |
| `OutputsStayWhole`, `PartsAreFew`, `ListingIsComplete` | `Spec => []OutputsAreWhole`, `[]DuplicatesOnlyByRestart`, `[]IndexIsComplete` | `IOInv`, see below |
| `SecretsAreFresh` | `Spec => SecretsAreNotKept` | `IOInv`: past its first call the ref of a task was live |

`SkippedOnlyIfLate` is not inductive: it says nothing of batches in flight. The
invariant `Inv` of `EventLog_proofs` adds, for every *position* (the cursor, and the
`seen` and `upto` of each instance): the position is a committed row; and every
wanted row at or before it is processed, late, exempt, or still in the batch of an
instance that stands before it (`Covered`, `Sound`). A new row lands behind a
position only if it is `late`; a batch has no holes (`BatchIsPrefix`: with a row it
returns every wanted row before it), so acknowledging a finished batch covers all of
it; an overwritten or failed ack moves the cursor to some other position, which is
covered too. That is why colliding acks lose nothing although they can move the
cursor back.

The handoff. The proofs of `PlanHandoff_proofs` go in layers so that the store's
theorems need no second proof. `HandInv` types the processes' locals and the plans
table without a word about jobs or ranks: plans in hand exist, and a process that tears
down or launches knows the job. That is inductive by itself, and just enough to carry the
type invariant and `FinishedIsFinal` of `JobStore_proofs` over. The plans table is treated
alike: `OnlyPlanSteps` shows that whoever moves, it changes by `create` and
`mark_applied` alone (`PlanStep`), and the results about plans are about that relation.
`NoDeadJobPlanned` is not inductive: the invariant adds that Koi's view is
empty when a tick begins and that every job in `stale` is still finished and not in the
view. It is preserved because none of the three lists selects finished jobs and, by
`FinishedIsFinal`, no other process can make one of them waiting, running or paused again.
That plans are confirmed in order needs `TurnInv`: plans are written without gaps, and a
loop is at the oldest plan it has in hand and has in hand every unapplied plan older than
one it has; a plan that another loop marked meanwhile is no longer unapplied, so a late
`mark_applied` writes nothing.

`Settled` is about any number of loops, finishers and crashes, interleaved at every call;
what it excepts is recorded job by job in the history `disturbed`: a job that one process
took up while another was in the middle of it (`Mid`), which is where a finish falls between
a placement's transition and its launch, or one that a process died with. `AllTended` is the
invariant: a job that is not disturbed is in order with nobody in the middle of it (`Rest`),
or in the middle of the operation of exactly one process that is putting it in order
(`Halfway`, `Alone`). `Halfway` says: while ranks are read and stopped, a job
that is to be launched again is running and every active rank is among those still to stop; at
the launch none is active. Koi and the ranks themselves only take *quiet* steps, which leave
the job's row alone and at most shrink its active ranks, and quiet steps keep `Rest` and
`Halfway`; so do a process's own steps for all jobs but the one in hand. The bare statement
that ranks of other plans are gone is not inductive, for it
says nothing of a rank that comes up between the read and the stop. A process that takes up
a disturbed job for a teardown, with nobody else in the middle of it, takes it off
`disturbed`: it reads all its ranks. Nothing in the repository makes sure that this happens.

Telemetry. No call deletes a sample, a job or a rank, and no call gives a rank to another
job; so each join a window is made of, once true of a sample, stays true (`WindowsGrow`).
This rests on `JobRankKeepsItsJob`: were a rank to change its job, the samples of the old
one would leave its windows. For the reads with a limit, `NewestAdvance` counts: if a
newer answer held a sample older than all of a full earlier answer, it would hold the
earlier answer too, and one sample more than the limit.

`RankTxn`. `LaunchIsWhole` compares what others see after a commit with the argument of the
call. `TxnInv` says that no two transactions hold one rank (`Exclusive`) and that what
an upsert found when it passed stays so until its commit (`Held`): the job it named exists,
and the rank, if it has a committed row, is that job's. `InOrder` says that a call's list is
cut at some place: before it stand the entries that were written, each rank holding the row
of its last one, after it those still to do. A call commits when none is left, so it commits
its whole list (`CommitIsWhole`); every other end of a call rolls back, and no step but a
commit or a change of status touches the ranks others see. The commit is also one that the
store's `LaunchRanks` allows, so `RankTelemetry` implements `TelemetrySpec` and
inherits its theorem.

Deadlocks. By `InOrder`, what a call holds is named in its list before what it still wants.
So a call whose list is in
rank id order wants more than everything it holds, and more than any call that waits for
it (`WaitsAscend`). A deadlock is a set of calls each of which waits for one of the set and
is waited for by one; among them some call wants least (`LeastOf`), and the call that
waits for it wants less, unless its list is out of order. No induction over the length of
the circle is needed, and none would be possible here.

`running_jobs`. `NothingStableIsMissed` speaks of a finished read; `InBetween` says of one
between its statements that its list of jobs is the one some right answer since the first
statement had, and that the present answer is among those recorded. The ranks the second
statement finds are in the present answer, so whatever is in all of them is returned.

Credentials. A request is right at *some* moment, so the histories `lived` and `lapsed`
carry the argument. `Watched` says of an open request that the history its row's present
state calls for is already written; of a row that was read it says that it still stands in
the table, or the request has seen it lapse: a row is removed before another is written
under its ref (`WorldStep`). Whichever way the clock then decides, the history agrees.
`Listing` is the same for `list_for_user`: what expires after the moment it looked at the
clock was live after that moment. `Purging` says that what a purge holds expires by its
cutoff unless it was written during the purge. `RevokeIsTrue` counts: while a ref is gone, those
who still hold it to delete it have held it since before its last removal (a select finds
no row that is gone), and there is one such holder per process; so the reports already
made and those to come stay within one per process and removal (`Counted`).

Koi. What `KoiTick` promises is spread over two tables and the memory of a process that may
die between any two calls, so none of it is inductive. `KoiInv` adds: the graph is seeded
whole or not at all and a Koi past its boot has read it (`Seeded`, which is why no evidence
exists without a graph); Koi's memory of the edges is the stored one, but for the visits of the
pass between solver and sync (`Remembered`); the visits of an edge, with the one a pass has on
record and not yet counted, are at most the ticks that touched it and fall short of them by
the crashes at most (`Lagging`); and a mechanism is behind some edge both in the tables and in memory (`Following`,
because the flush writes the edges first). `TypeInv` carries the fact everything about
evidence rests on: a pass under way that has not been put is of a tick later than all on
record. So `put_many`, an upsert, never merges; and the second statement of `recent` finds
for the ticks the first one selected just the rows that were there (`Reading`): whatever is
added in between is of another tick.

Replays. `latest_before` sorts what it selects in descending order, keeps as many rows as the
limit and turns them round. `ListByLists` says that `ListBy`, a place for each element by the
number of those below it, holds each element once and in order. So (`LatestRows`) the answer
is in ascending order, has as many rows as there are up to the limit, and each row left out
is before all of it. No row on record goes; so a row that was left out of a full answer
and came into the next one would bring all of the first one along, and be one too many.

Capacity. `scheduling_summary` is a loop that updates a dictionary; `CountUpTo` is its value
after each turn. `CountRecursion` shows that the recursive function exists (there is no first
turn at which it fails, by `LeastOf`), and `CountedAfter` that after any number of turns the
entry of a key holds what the turns for that key have brought so far: its total is the number
of units behind them. `TurnsOfLoops` and `PlacesOnce` say that the loops visit each place
once per listed market; so at the end each key has its places, times the listings of its
market (`SummaryCounts`, for every map whatever).

Workers. `Sound` ties what a task holds to the calls it has left: once its input has been
read, its records are all records of its chunk; once it has named its object, the name is a
part's or the exact key. `Apart` keeps tasks on different chunks and different parts, so a
put that is sent again overwrites its own object (`PuttingWorker`, `PartsStay`). `Counts` is
the strengthening `DuplicatesOnlyByRestart` needs: while a worker is on a chunk whose part
is not there, the chunk has one part fewer than it was started. `Listed` says the listing
holds, in ascending order, every stable key up to its marker (`AscendingLists` gives the
pages). `Asking` and `Watched` join the worker to the credential store: an open request is
for the ref of the chunk in hand, and is only answered 200 if that ref was live since.

The assumptions are those named in the modules: ids are ordered, `NULL` is no value,
limits are positive, batches and the set of Orca's processes are finite, `MovesRespectLifecycle` (the moves Orca makes,
from `events.py`) and `OrcaMoves` (they include those of the apply loop and the finishers);
of `KoiTick` and its modules, that the environments are finitely many and that a mechanism's edges are
edges; of `WorkerIO`, that the keys of inputs, parts and exact outputs differ and bodies are
finite lists of rows. Nothing is assumed of the cutoff of a purge, of the availability
stamps of evidence, or of the number of loops, finishers and crashes.

Only model-checked: what is promised under fairness (the liveness of `IsAPlanQueue`,
`EventuallyProcessed`, `EveryCallReturns`), since TLAPS does not reason about ENABLED. Every
other property of the passing runs is a theorem.

## 5. Where code and documentation disagree

The five runs that expect a violation: `running_jobs_torn`, `handoff_twice`,
`event_log_skip`, `catalog_patch` and `outputs_append`. `PROJECT.json` quotes the sentence
each of them refutes. `outputs_append` is a disagreement of the repository with itself:
`core/record.py:40` ("Outputs append") against the comment at `connectors/s3.py:156-157`,
which says that an exact key names one object.

## 6. Not modelled

* `HardwareCatalogStore`, `UserStore`: one upsert of an opaque document and plain
  reads; nothing can interleave to another state.
* `ids.py`, migrations, `db/orm.py`: identifiers are taken as fresh and ordered the
  way the code orders them; DDL runs once; the tables appear as the variables.
* `list_jobs`, `list_plans`, `failed_ranks_since` and the `get` of each store: one SELECT
  whose answer nothing in the repository acts upon.
* `events.py`: of the payload schemas only that an append may be refused before its
  INSERT; the catalog of events appears as `MovesRespectLifecycle`.
* Byte ranges of inputs, and the connector registry's look-up by scheme.
* The metric values of telemetry, the Beta parameters of the causal graph (visit count,
  last tick and environments stand for a row's confidence), and the seeder of the graph,
  which is outside the repository: it is taken to write nodes and edges in one
  transaction, because `is_empty` looks at the nodes alone. (`docs/KOI_INTEGRATION.md`
  also speaks of replacing nodes and edges; the store has no such call.)
* Koi itself is external. One assumption about it carries weight: its tick counter resumes
  after `current_tick`, as the store keeps no other record of it (`EvidenceIsKept` rests
  on it).
* A seed of the graph that is cut short: `Seed` is one transaction here, so `ConfidenceLags`
  cannot show what `is_empty` would then answer.
* The reads of evidence by job, rank, edge, mechanism, environment and workload, `latest`
  and `get`: each is one SELECT of part of the table in a fixed order, and nothing modelled
  takes a decision from it. (`rows_for_edge` with a limit of 0 returns every row, by
  `rows[-0:]`, where `latest` returns none; nothing says what is meant.)
* A retry of `put_many` of samples that fails whole: it is in `Telemetry`, but no property
  says what should become of the samples that were new in it.
* Credentials that end between `resolve` and `put_object`: allowed in `WorkerIO`, as in
  the code; `SecretsAreNotKept` is about the time the task was taken.
* Several instances that call `initialize_consumer_at_user_tail` for one consumer at once:
  its comment excludes that, and `Starters` has one instance.
* Samples that arrive after a window was read: a consumer of consecutive windows does not
  see them. The store promises no more than what is there when it is asked.
* Fabric types and prices of resource maps. (A flat body's pools of one zone end up in
  one fabric, with the fabric type of the first.)
* Logging, wording, JSON shapes, metrics and configuration.
* Clock skew between the hosts of Orca (one clock in `Credentials`); in `EventLog`
  stamps are arbitrary, so skew is included there.

## 7. Plan

Done: the models of sections 2 and 3, and proofs of the safety properties their
passing runs check. No component with state that steps can interleave on is left out; what
remains is listed under 6.

What would come next:

1. `ModelCatalog`: a patch that no replace overlaps keeps the rest, the positive side of the
   run `catalog_patch`.
2. A lease on plans, under which `PlanAppliedOnce` would hold: what the handoff would need
   for its loops to apply a plan once.
