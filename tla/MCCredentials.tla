---------------------------- MODULE MCCredentials ----------------------------
(* A small instance of Credentials: one worker, for requests meet only the    *)
(* table; two refs and two Orca processes that may delete the same row.       *)
EXTENDS Credentials, TLC

CONSTANTS w1, a1, a2, c1, c2

MCSymmetry == Permutations({a1, a2}) \cup Permutations({c1, c2})
=============================================================================
