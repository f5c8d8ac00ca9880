------------------------------- MODULE Evidence -------------------------------
(***************************************************************************)
(* The evidence_rows table of one user and the operations of               *)
(* clients/evidence_store.py.  A row stands for one (tick, job, rank); its *)
(* row_id is made of the three, so the key is the pair of the tick and an  *)
(* item, a job with a rank.  Of its payload the model keeps the edges of   *)
(* CausalGraph the row has an ICP result for; its environment is a constant *)
(* of the item, its availability stamp one of the row.                     *)
(*                                                                         *)
(* recent issues two SELECTs in one session at READ COMMITTED, and         *)
(* recently_decided two in two sessions; every other read is one SELECT.   *)
(***************************************************************************)
EXTENDS CausalGraph

CONSTANTS
    Items,       \* (job, rank) pairs a pass may evaluate, in their order
    EnvOf,       \* env_label of each item's rows
    AvailableAt, \* evidence_available_timestamp_utc of each row, NULL for none
    NULL,
    MaxTick,     \* bound: Koi's last tick
    LastNTicks,  \* the window of recent
    Window       \* the window of recently_decided

RowIds == (1..MaxTick) \X Items

\* Nothing relates a stamp to the tick of its row, nor to when it is written.
ASSUME EvidenceConstants ==
    /\ MaxTick \in Nat /\ LastNTicks \in Nat \ {0} /\ Window \in Nat
    /\ Items \subseteq Nat /\ IsFiniteSet(Items) /\ EnvOf \in [Items -> Envs]
    /\ AvailableAt \in [RowIds -> Nat \cup {NULL}]

VARIABLES
    evidence,  \* the table: row_id -> the edges of its payload
    reader,    \* [call, pc, ticks, answer]: a read of two statements under way
    moments    \* history: what it should return, at each moment since

evidenceVars == <<evidence, reader, moments>>

NoRead == [call |-> NULL, pc |-> "start", ticks |-> {}, answer |-> <<>>]

EvidenceTypeOK ==
    /\ DOMAIN evidence \subseteq RowIds
    /\ \A id \in DOMAIN evidence : evidence[id] \subseteq Edges
    /\ reader.call \in {"recent", "recently_decided", NULL}
    /\ reader.pc \in {"start", "rows", "done"}
    /\ reader.ticks \subseteq 0..MaxTick
    /\ DOMAIN reader.answer \subseteq RowIds

EvidenceInit ==
    /\ evidence = <<>>
    /\ reader = NoRead
    /\ moments = {}

-----------------------------------------------------------------------------
(* Writes *)

\* put_many (put: of one row): s.merge of every row, one transaction; nothing
\* for no rows.
PutMany(batch) == evidence' = Over(batch, evidence)

-----------------------------------------------------------------------------
(* Reads of one statement *)

TicksOf(table) == {id[1] : id \in DOMAIN table}

\* Fault: the first tick instead of the last.
OldestTick == IF evidence = <<>> THEN 0 ELSE Min(TicksOf(evidence))

\* current_tick: 0 without evidence.
CurrentTick == IF evidence = <<>> THEN 0 ELSE Max(TicksOf(evidence))

RowsInWindow(first, last) ==
    [id \in {i \in DOMAIN evidence : first <= i[1] /\ i[1] <= last} |-> evidence[id]]

\* tick, job_id, rank_id
RowBefore(a, b) == a[1] < b[1] \/ (a[1] = b[1] /\ a[2] < b[2])

\* available, tick, job_id, rank_id
AvailableBefore(a, b) ==
    \/ AvailableAt[a] < AvailableAt[b]
    \/ AvailableAt[a] = AvailableAt[b] /\ RowBefore(a, b)

Stamped == {id \in RowIds : AvailableAt[id] # NULL}

\* Fault: the tick before the stamp, as latest orders its rows.
ByTick == {pair \in Stamped \X Stamped : RowBefore(pair[2], pair[1])}

\* ORDER BY each of the four DESC.
Descending == {pair \in Stamped \X Stamped : AvailableBefore(pair[2], pair[1])}

\* WHERE available IS NOT NULL AND available < cutoff
Known(table, cutoff) == {id \in DOMAIN table \cap Stamped : AvailableAt[id] < cutoff}

\* Fault: the limit without DESC keeps the oldest rows.
OldestOf(ids, limit) ==
    LET rows == ListBy(ids, {<<pair[2], pair[1]>> : pair \in Descending})
    IN  SubSeq(rows, 1, Min({limit, Len(rows)}))

\* .. ORDER BY .. LIMIT limit; rows.reverse()
LatestOf(ids, limit) ==
    LET rows == ListBy(ids, Descending)
    IN  Reverse(SubSeq(rows, 1, Min({limit, Len(rows)})))

\* latest_before, of a table
LatestBefore(table, cutoff, limit) ==
    IF limit <= 0 THEN <<>> ELSE LatestOf(Known(table, cutoff), limit)

-----------------------------------------------------------------------------
(* recent *)

\* SELECT DISTINCT tick .. ORDER BY tick DESC LIMIT last_n_ticks.
RecentTicks ==
    {t \in TicksOf(evidence) : Cardinality({u \in TicksOf(evidence) : u > t}) < LastNTicks}

\* Fault: every row from the oldest of the ticks on.
RowsFrom(ticks) ==
    [id \in {i \in DOMAIN evidence : \E t \in ticks : t <= i[1]} |-> evidence[id]]

\* SELECT .. WHERE tick IN (ticks).
RowsOf(ticks) == [id \in {i \in DOMAIN evidence : i[1] \in ticks} |-> evidence[id]]

\* The answer of a read that takes no time: the rows from the oldest of the
\* last ticks there are.
RecentNow ==
    IF evidence = <<>> THEN <<>> ELSE RowsInWindow(Min(RecentTicks), CurrentTick)

SelectTicks ==
    /\ reader.pc = "start"
    /\ reader' = [ call   |-> "recent",
                   pc     |-> IF RecentTicks = {} THEN "done" ELSE "rows",
                   ticks  |-> RecentTicks,
                   answer |-> <<>> ]
    /\ moments' = {RecentNow}
    /\ UNCHANGED evidence

SelectRows ==
    /\ reader.pc = "rows" /\ reader.call = "recent"
    /\ reader' = [reader EXCEPT !.pc = "done", !.answer = RowsOf(reader.ticks)]
    /\ UNCHANGED <<evidence, moments>>

-----------------------------------------------------------------------------
(* recently_decided, for the current tick *)

\* max(0, upper - window)
WindowStart(upper) == IF upper < Window THEN 0 ELSE upper - Window

DecidedNow == RowsInWindow(WindowStart(CurrentTick), CurrentTick)

ReadCurrentTick ==
    /\ reader.pc = "start"
    /\ reader' = [ call   |-> "recently_decided",
                   pc     |-> "rows",
                   ticks  |-> WindowStart(CurrentTick)..CurrentTick,
                   answer |-> <<>> ]
    /\ moments' = {DecidedNow}
    /\ UNCHANGED evidence

ReadWindow ==
    /\ reader.pc = "rows" /\ reader.call = "recently_decided"
    /\ reader' = [reader EXCEPT !.pc = "done",
                                !.answer = RowsInWindow(Min(reader.ticks), Max(reader.ticks))]
    /\ UNCHANGED <<evidence, moments>>

-----------------------------------------------------------------------------
ReadDone ==
    /\ reader.pc = "done"
    /\ reader' = NoRead
    /\ moments' = {}
    /\ UNCHANGED evidence

\* A writer's step: while a read is under way the right answer may change.
Witness ==
    moments' = IF reader.pc # "rows" THEN moments
               ELSE moments \cup {IF reader.call = "recent" THEN RecentNow' ELSE DecidedNow'}

-----------------------------------------------------------------------------
(* Properties *)

\* recent and recently_decided, unlike running_jobs, are exact although they
\* take two statements: their answer is the one of some single moment of the
\* read.  It rests on put_many committing a whole tick and on no tick being
\* written again.
ReadsAreMoments == reader.pc = "done" => reader.answer \in moments

RowsTouching(e) == {id \in DOMAIN evidence : e \in evidence[id]}

\* Between any two stamps, and after the last.
Cutoffs == UNION {{AvailableAt[id], AvailableAt[id] + 1} : id \in Stamped}

\* A row may be written after the time its stamp says it was available at, so
\* a replay of a cutoff that is past need not get the same rows again.  It may
\* only gain rows that were not yet written: a row that was there and left
\* out stays out, one that was in leaves only for later rows that fill the
\* limit, and the answer stays in the order of availability.
ReplayGainsLateRowsOnly ==
    [][evidence' # evidence =>
        \A cutoff \in Cutoffs, limit \in 1..Cardinality(RowIds) :
            LET old == LatestBefore(evidence, cutoff, limit)
                new == LatestBefore(evidence', cutoff, limit)
            IN  /\ ToSet(new) \cap DOMAIN evidence \subseteq ToSet(old)
                /\ \A gone \in ToSet(old) \ ToSet(new) :
                      /\ Len(new) = limit
                      /\ \A id \in ToSet(new) : AvailableBefore(gone, id)
                /\ \A i, k \in DOMAIN new : i < k => AvailableBefore(new[i], new[k])]_evidence

\* merge overwrites silently, so evidence lasts only because a restarted Koi
\* resumes after current_tick: no row written by a pass is lost or changed.
EvidenceIsKept ==
    [][\A id \in DOMAIN evidence :
          id \in DOMAIN evidence' /\ evidence'[id] = evidence[id]]_evidence
=============================================================================
