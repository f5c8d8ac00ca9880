----------------------------- MODULE CausalGraph -----------------------------
(***************************************************************************)
(* The koi_causal_* tables of one user and the operations of               *)
(* clients/causal_graph_store.py.  Of the Beta confidence the model keeps  *)
(* the visit count, the last touched tick, 0 for none, and the             *)
(* environments seen; numbers stand for environment labels.                *)
(* Nodes and edges are seeded from outside the store and then read only.   *)
(***************************************************************************)
EXTENDS Integers, SequencesExt, Ascending

CONSTANTS
    Nodes,       \* causal nodes, all seeded
    Edges,       \* causal edges, all seeded
    Mechanisms,  \* mechanism ids
    EdgesOf,     \* edge_ids of each mechanism
    Envs         \* environment labels

ASSUME MechanismsHaveEdges ==
    /\ EdgesOf \in [Mechanisms -> SUBSET Edges]
    /\ Nodes # {} /\ Envs \subseteq Nat /\ IsFiniteSet(Envs)

VARIABLES
    node_table,       \* koi_causal_nodes
    edge_table,       \* confidence columns of koi_causal_edges
    mechanism_table   \* confidence columns of koi_causal_mechanisms

graphVars == <<node_table, edge_table, mechanism_table>>

\* EdgeMetadata, MechanismMetadata: the confidence in memory.
Untouched == [visit_count |-> 0, last_touched_tick |-> 0, envs_seen |-> {}]

\* s.merge: the rows written over those of a table, or added to them.
Over(rows, table) ==
    [x \in DOMAIN rows \cup DOMAIN table |-> IF x \in DOMAIN rows THEN rows[x] ELSE table[x]]

\* envs_seen_to_json and back: a set in memory, a sorted list in the row.
ToRow(metadata) == [metadata EXCEPT !.envs_seen = Ascending(@)]
FromRow(row) == [row EXCEPT !.envs_seen = ToSet(@)]

Columns == [visit_count : Nat, last_touched_tick : Nat, envs_seen : Seq(Envs)]

GraphTypeOK ==
    /\ node_table \subseteq Nodes
    /\ DOMAIN edge_table \subseteq Edges
    /\ \A e \in DOMAIN edge_table : edge_table[e] \in Columns
    /\ DOMAIN mechanism_table \subseteq Mechanisms
    /\ \A m \in DOMAIN mechanism_table : mechanism_table[m] \in Columns

GraphInit ==
    /\ node_table = {}
    /\ edge_table = <<>>
    /\ mechanism_table = <<>>

-----------------------------------------------------------------------------
(* Boot *)

\* is_empty: one node is enough for it to be false.
IsEmpty == node_table = {}

\* The seeder: one transaction of INSERTs by node_to_row and edge_to_row.
Seed ==
    /\ node_table' = Nodes
    /\ edge_table' = [e \in Edges |-> ToRow(Untouched)]
    /\ UNCHANGED mechanism_table

\* load_nodes, load_edges, load_mechanisms: one SELECT each.
LoadNodes == node_table
LoadEdges == [e \in DOMAIN edge_table |-> FromRow(edge_table[e])]
LoadMechanisms == [m \in DOMAIN mechanism_table |-> FromRow(mechanism_table[m])]

-----------------------------------------------------------------------------
(* Sync *)

\* Fault: only the stamp is written back.
SyncStamps(metadata) ==
    /\ edge_table' = [e \in DOMAIN edge_table |->
           IF e \in DOMAIN metadata
           THEN [edge_table[e] EXCEPT !.last_touched_tick = metadata[e].last_touched_tick]
           ELSE edge_table[e]]
    /\ UNCHANGED <<node_table, mechanism_table>>

\* Fault: everything but the stamp is written back.
SyncCounts(metadata) ==
    /\ edge_table' = [e \in DOMAIN edge_table |->
           IF e \in DOMAIN metadata
           THEN [edge_table[e] EXCEPT !.visit_count = metadata[e].visit_count]
           ELSE edge_table[e]]
    /\ UNCHANGED <<node_table, mechanism_table>>

\* sync_edge_metadata: one transaction of UPDATEs by key; it inserts nothing.
SyncEdgeMetadata(metadata) ==
    /\ edge_table' = [e \in DOMAIN edge_table |->
           IF e \in DOMAIN metadata THEN ToRow(metadata[e]) ELSE edge_table[e]]
    /\ UNCHANGED <<node_table, mechanism_table>>

\* sync_mechanisms (put_mechanism: of one): one transaction of merges.
SyncMechanisms(metadata) ==
    /\ mechanism_table' = Over([m \in DOMAIN metadata |-> ToRow(metadata[m])], mechanism_table)
    /\ UNCHANGED <<node_table, edge_table>>
=============================================================================
