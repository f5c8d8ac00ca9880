----------------------------- MODULE RunningJobs -----------------------------
(***************************************************************************)
(* JobStore.running_jobs, the read Koi plans and infers free capacity      *)
(* from.  It issues two SELECTs in one session: the running jobs, then the *)
(* active ranks of those jobs.  The engine keeps Postgres' default         *)
(* isolation, READ COMMITTED, so each statement sees what is committed     *)
(* when it starts, and the writers of JobStore may commit in between.      *)
(***************************************************************************)
EXTENDS JobStore

VARIABLES
    read,   \* [pc, listed, serving]: the reader's place and its two results
    truths  \* history: what running_jobs should return, at each moment since

readVars == <<jobVars, read, truths>>

\* The answer of a read that takes no time.
Answer == [j \in JobsWithStatus("running") |-> ActiveRanks(j)]

NoRead == [pc |-> "start", listed |-> {}, serving |-> <<>>]

ReadInit ==
    /\ JobInit
    /\ read = NoRead
    /\ truths = {}

ReadTypeOK ==
    /\ TypeOK
    /\ read.pc \in {"start", "ranks", "done"}
    /\ read.listed \subseteq Jobs
    /\ read.pc = "done" => \A j \in read.listed : read.serving[j] \subseteq Ranks

\* First statement; with no running job the call returns [] at once.
SelectJobs ==
    /\ read.pc = "start"
    /\ read' = [ pc      |-> IF JobsWithStatus("running") = {} THEN "done" ELSE "ranks",
                 listed  |-> JobsWithStatus("running"),
                 serving |-> <<>> ]
    /\ truths' = {Answer}
    /\ UNCHANGED jobVars

\* Fault: the filter forgets the ranks still launching.
SelectRanksUp ==
    /\ read.pc = "ranks"
    /\ read' = [read EXCEPT !.pc = "done",
                   !.serving = [j \in read.listed |->
                                  {r \in ActiveRanks(j) : ranks[r].status = "running"}]]
    /\ UNCHANGED <<jobVars, truths>>

\* Second statement, joined to the first's jobs.
SelectRanks ==
    /\ read.pc = "ranks"
    /\ read' = [read EXCEPT !.pc = "done",
                            !.serving = [j \in read.listed |-> ActiveRanks(j)]]
    /\ UNCHANGED <<jobVars, truths>>

\* The caller is done with the result.
Return ==
    /\ read.pc = "done"
    /\ read' = NoRead
    /\ truths' = {}
    /\ UNCHANGED jobVars

\* A writer commits; while the read is under way the true answer may change.
Write ==
    /\ JobNext
    /\ truths' = IF read.pc = "ranks" THEN truths \cup {Answer'} ELSE truths
    /\ UNCHANGED read

ReadNext == SelectJobs \/ SelectRanks \/ Return \/ Write

ReadSpec == ReadInit /\ [][ReadNext]_readVars

-----------------------------------------------------------------------------
(* Properties *)

\* What Koi subtracts from the cluster's capacity errs on one side only where
\* something moved: a rank that was active on a running job at every moment of
\* the read is in the answer.
NothingStableIsMissed ==
    read.pc = "done" => \A j \in Jobs, r \in Ranks :
        (truths # {} /\ \A a \in truths : j \in DOMAIN a /\ r \in a[j]) =>
            j \in read.listed /\ r \in read.serving[j]

\* jobs.py: "Reads run inside one transaction for a consistent snapshot": the
\* answer is the one of some single moment of the read.
ConsistentSnapshot ==
    read.pc = "done" /\ read.listed # {} => read.serving \in truths
=============================================================================
