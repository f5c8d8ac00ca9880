------------------------------- MODULE RankTxn -------------------------------
(***************************************************************************)
(* JobStore.launch_ranks statement by statement.  One transaction upserts  *)
(* the ranks of its list in the order given; each upsert locks the rank's  *)
(* row, or its key while the insert is uncommitted, until the transaction  *)
(* ends, and waits while another transaction holds it.  Nobody else sees   *)
(* the rows before the commit.  Two calls that meet over two ranks in      *)
(* opposite orders wait for each other; Postgres finds the cycle and makes *)
(* one of them fail.  The other operations of the job store are single     *)
(* statements: they wait for the row, then look at what is committed.      *)
(***************************************************************************)
EXTENDS JobStore

CONSTANTS
    Calls,   \* callers of launch_ranks
    Lists    \* the `ranks` arguments, in call order

Entry == [rank : Ranks, row : RankRow]

\* Rank ids are strings with an order; numbers stand for them.
ASSUME ListsAreBatches == Ranks \subseteq Nat /\ Lists \subseteq Seq(Entry) \ {<<>>}

\* Per caller: its argument, what is left of it, its uncommitted rows.
VARIABLE txn

vars == <<jobVars, txn>>

NoTxn == [list |-> <<>>, todo |-> <<>>, done |-> <<>>]

TxnInit == JobInit /\ txn = [c \in Calls |-> NoTxn]

TxnTypeOK ==
    /\ TypeOK
    /\ \A c \in Calls :
          /\ txn[c].list \in Lists \cup {<<>>}
          /\ txn[c].todo \in Seq(Entry)
          /\ DOMAIN txn[c].done \subseteq Ranks
          /\ \A r \in DOMAIN txn[c].done : txn[c].done[r] \in RankRow

-----------------------------------------------------------------------------
\* r's row or key is in the hands of a transaction other than c's.
Locked(c, r) == \E d \in Calls \ {c} : r \in DOMAIN txn[d].done

Wanted(c) == Head(txn[c].todo)

Waits(c, d) ==
    /\ txn[c].todo # <<>>
    /\ d # c
    /\ Wanted(c).rank \in DOMAIN txn[d].done

\* c is on a cycle of the wait-for graph; a call waits for one row at a time.
InCycle(c) ==
    \E S \in SUBSET Calls :
        /\ c \in S
        /\ \A x \in S : (\E y \in S : Waits(x, y)) /\ (\E y \in S : Waits(y, x))

\* The version of rank r the upsert of c meets: its own, else the committed.
Seen(c, r) == IF r \in DOMAIN txn[c].done THEN txn[c].done[r] ELSE ranks[r]

\* Fault: a rank of another job is taken over.
RefusesUnknown(c) == jobs[Wanted(c).row.job_id] = NULL

Refused(c) ==
    LET e == Wanted(c) IN
    \/ jobs[e.row.job_id] = NULL
    \/ Seen(c, e.rank) # NULL /\ Seen(c, e.rank).job_id # e.row.job_id

Begin(c, list) ==
    /\ txn[c] = NoTxn
    /\ txn' = [txn EXCEPT ![c] = [list |-> list, todo |-> list, done |-> <<>>]]
    /\ UNCHANGED jobVars

\* Fault: the list is treated as a set.
UpsertAny(c) ==
    \E k \in DOMAIN txn[c].todo :
        LET e == txn[c].todo[k] IN
        /\ ~Locked(c, e.rank)
        /\ txn' = [txn EXCEPT ![c].done = [r \in DOMAIN @ \cup {e.rank} |->
                                             IF r = e.rank THEN e.row ELSE @[r]],
                              ![c].todo = SubSeq(@, 1, k - 1) \o SubSeq(@, k + 1, Len(@))]
        /\ UNCHANGED jobVars

\* Fault: a commit for each rank.
UpsertCommits(c) ==
    LET e == Wanted(c) IN
    /\ txn[c].todo # <<>>
    /\ ~Locked(c, e.rank)
    /\ ~Refused(c)
    /\ ranks' = [ranks EXCEPT ![e.rank] = e.row]
    /\ txn' = [txn EXCEPT ![c].todo = Tail(@)]
    /\ UNCHANGED <<jobs, announced, told>>

Upsert(c) ==
    LET e == Wanted(c) IN
    /\ txn[c].todo # <<>>
    /\ ~Locked(c, e.rank)
    /\ ~Refused(c)
    /\ txn' = [txn EXCEPT ![c].done = [r \in DOMAIN @ \cup {e.rank} |->
                                         IF r = e.rank THEN e.row ELSE @[r]],
                          ![c].todo = Tail(@)]
    /\ UNCHANGED jobVars

\* Fault: an exception leaves the transaction open.
LeavesOpen(c) == UNCHANGED vars

Rollback(c) == txn' = [txn EXCEPT ![c] = NoTxn] /\ UNCHANGED jobVars

\* Fault: a refused rank is passed over.
PassesOver(c) ==
    /\ txn[c].todo # <<>>
    /\ ~Locked(c, Wanted(c).rank)
    /\ Refused(c)
    /\ txn' = [txn EXCEPT ![c].todo = Tail(@)]
    /\ UNCHANGED jobVars

\* The foreign key fails, or RETURNING yields no row and launch_ranks raises.
Refuse(c) ==
    /\ txn[c].todo # <<>>
    /\ ~Locked(c, Wanted(c).rank)
    /\ Refused(c)
    /\ Rollback(c)

\* The server picks a victim on the cycle; its caller sees an exception.
DeadlockVictim(c) == InCycle(c) /\ Rollback(c)

\* The caller dies or loses its connection.
Lost(c) == txn[c] # NoTxn /\ Rollback(c)

Commit(c) ==
    /\ txn[c].done # <<>>
    /\ txn[c].todo = <<>>
    /\ ranks' = [r \in Ranks |-> IF r \in DOMAIN txn[c].done THEN txn[c].done[r] ELSE ranks[r]]
    /\ txn' = [txn EXCEPT ![c] = NoTxn]
    /\ UNCHANGED <<jobs, announced, told>>

-----------------------------------------------------------------------------
\* Writers of one statement.
SubmitJob(j) == Submit(j) /\ UNCHANGED txn

SetStatus(r, m, reason) ==
    /\ \A c \in Calls : r \notin DOMAIN txn[c].done
    /\ SetRankStatus(r, m.to, m.expected, reason)
    /\ UNCHANGED txn

Step(c) == Upsert(c) \/ Refuse(c) \/ DeadlockVictim(c) \/ Commit(c)

Next ==
    \/ \E c \in Calls : Step(c) \/ Lost(c) \/ \E list \in Lists : Begin(c, list)
    \/ \E j \in Jobs : SubmitJob(j)
    \/ \E r \in Ranks, m \in RankMoves, reason \in Reasons \cup {NULL} : SetStatus(r, m, reason)

\* A call goes on while it can; row locks are granted in the order they were
\* asked for, so a call that finds its row free again and again gets it.
Fairness == \A c \in Calls : WF_vars(Step(c)) /\ SF_vars(Upsert(c) \/ Refuse(c))

Spec == TxnInit /\ [][Next]_vars /\ Fairness

-----------------------------------------------------------------------------
(* Properties *)

\* The ranks after a whole list is written: the last entry of a rank counts.
Leaves(list) ==
    /\ \A i \in DOMAIN list :
          (\A k \in DOMAIN list : k > i => list[k].rank # list[i].rank)
             => ranks'[list[i].rank] = list[i].row
    /\ \A r \in Ranks : (\A i \in DOMAIN list : list[i].rank # r) => ranks'[r] = ranks[r]

\* "Atomically insert or refresh ranks" (jobs.py:137): whatever calls meet
\* over whatever ranks, the ranks change only when a call ends with its whole
\* list written, or by a status change.  A call that is refused, deadlocks or
\* is lost half-way leaves nothing of its list.
LaunchIsWhole ==
    [][\/ UNCHANGED ranks
       \/ \E c \in Calls : txn[c] # NoTxn /\ txn'[c] = NoTxn /\ Leaves(txn[c].list)
       \/ \E r \in Ranks, m \in RankMoves, reason \in Reasons \cup {NULL} :
             SetRankStatus(r, m.to, m.expected, reason)]_vars

\* Calls whose lists are in rank id order never deadlock with each other:
\* on every cycle some list is out of order.
DeadlockNeedsDisorder ==
    \A c \in Calls : InCycle(c) =>
        \E d \in Calls : InCycle(d) /\ \E i, k \in DOMAIN txn[d].list :
            i < k /\ txn[d].list[k].rank < txn[d].list[i].rank

\* Every transaction of launch_ranks ends, so that none holds its ranks for
\* good: it commits, or begin() rolls it back, whatever it collides with.
EveryCallReturns == \A c \in Calls : txn[c] # NoTxn ~> txn[c] = NoTxn
=============================================================================
