------------------------------ MODULE MCWorkerIO ------------------------------
(* Two workers and two chunks, one of which has a blank line and the other a  *)
(* row that may not parse; part keys fall before, between and after them.     *)
(* For outputs that overwrite each other both chunks have records.            *)
EXTENDS WorkerIO

CONSTANTS w1, w2, c1

MCBody == (2 :> <<"record", "blank">>) @@ (4 :> <<"record", "bad">>)
MCBothGood == (2 :> <<"record", "blank">>) @@ (4 :> <<"record">>)
MCRefOf == [chunk \in {2, 4} |-> c1]
MCSymmetry == Permutations({w1, w2})
=============================================================================
