------------------------------ MODULE PlanQueue ------------------------------
(***************************************************************************)
(* What the plans table promises the two programs that meet over it,       *)
(* without saying how many workers there are, what they do with a plan or  *)
(* when they die.  Koi posts a plan once; its actions and its announcement *)
(* are there from the first moment and never change; it is confirmed to    *)
(* one caller, once, for good, after all the plans before it; and no plan  *)
(* is left unconfirmed for ever.                                           *)
(***************************************************************************)
EXTENDS Naturals

CONSTANTS
    Plans,
    Contents,   \* what a plan may say
    NULL

VARIABLES
    content,    \* what each posted plan says, NULL for one not posted
    announced,  \* plans whose readers were told
    applied,    \* confirmed plans
    verdicts    \* per plan, how many callers were told that they confirmed it

queueVars == <<content, announced, applied, verdicts>>

Init ==
    /\ content = [p \in Plans |-> NULL]
    /\ announced = {}
    /\ applied = {}
    /\ verdicts = [p \in Plans |-> 0]

Post(p, actions) ==
    /\ content[p] = NULL
    /\ content' = [content EXCEPT ![p] = actions]
    /\ announced' = announced \cup {p}
    /\ UNCHANGED <<applied, verdicts>>

Confirm(p) ==
    /\ content[p] # NULL
    /\ p \notin applied
    /\ \A q \in Plans : q < p /\ content[q] # NULL => q \in applied
    /\ applied' = applied \cup {p}
    /\ verdicts' = [verdicts EXCEPT ![p] = @ + 1]
    /\ UNCHANGED <<content, announced>>

Next == \E p \in Plans : Confirm(p) \/ \E actions \in Contents : Post(p, actions)

SafeSpec == Init /\ [][Next]_queueVars

NoneIsForgotten == \A p \in Plans : content[p] # NULL ~> p \in applied

Spec == SafeSpec /\ NoneIsForgotten
=============================================================================
