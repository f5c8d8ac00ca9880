------------------------------ MODULE PlanStore ------------------------------
(***************************************************************************)
(* The plans table and the operations of clients/plans.py, beside the jobs *)
(* and ranks tables of JobStore.  Plan ids are numbered in created_at      *)
(* order, so "oldest first" is numeric order.                              *)
(***************************************************************************)
EXTENDS JobStore

ASSUME PlansAreOrdered == Plans \subseteq Nat

VARIABLES
    plans,          \* plans table
    plan_announced, \* plans whose plan.created event row is in the events table
    markers         \* history: how many mark_applied calls returned True, per plan

planVars == <<plans, plan_announced, markers>>

ActionType == {"place", "keep", "defer", "preempt", "swap"}

\* One action per job considered.
Actions == UNION {[js -> ActionType] : js \in SUBSET Jobs}

PlanRow == [ status : {"created", "applied"}, actions : Actions ]

ASSUME NullIsNoPlan == NULL \notin PlanRow \cup Actions

PlanTypeOK ==
    /\ plans \in [Plans -> PlanRow \cup {NULL}]
    /\ plan_announced \subseteq Plans
    /\ markers \in [Plans -> Nat]

PlanInit ==
    /\ plans = [p \in Plans |-> NULL]
    /\ plan_announced = {}
    /\ markers = [p \in Plans |-> 0]

\* Fault: the plan.created event is left to a later call.
CreateSilently(p, actions) ==
    /\ plans[p] = NULL
    /\ plans' = [plans EXCEPT ![p] = [status |-> "created", actions |-> actions]]
    /\ UNCHANGED <<plan_announced, markers>>

\* One transaction: the plan row and its plan.created event row.
Create(p, actions) ==
    /\ plans[p] = NULL
    /\ plans' = [plans EXCEPT ![p] = [status |-> "created", actions |-> actions]]
    /\ plan_announced' = plan_announced \cup {p}
    /\ UNCHANGED markers

Unapplied == {p \in Plans : plans[p] # NULL /\ plans[p].status = "created"}

\* Fault: an update of the row by its key.
MarkAnyStatus(p) ==
    /\ plans' = [plans EXCEPT ![p].status = "applied"]
    /\ markers' = [markers EXCEPT ![p] = @ + 1]
    /\ UNCHANGED plan_announced

\* The compare-and-set created -> applied; False (no write) otherwise.
MarkApplied(p) ==
    IF p \in Unapplied
    THEN /\ plans' = [plans EXCEPT ![p].status = "applied"]
         /\ markers' = [markers EXCEPT ![p] = @ + 1]
         /\ UNCHANGED plan_announced
    ELSE UNCHANGED planVars
=============================================================================
