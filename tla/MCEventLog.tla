----------------------------- MODULE MCEventLog -----------------------------
(* Small instances of EventLog for TLC.  Events 1 and 2 share a stamp and  *)
(* are told apart by their ids; event 3 was built from a job created before *)
(* them; event 4, the latest, is of a type the consumer filters out.        *)
EXTENDS EventLog

MCCreatedAt == [e \in Events |-> CASE e \in {1, 2} -> 2 [] e = 3 -> 1 [] e = 4 -> 3]
=============================================================================
