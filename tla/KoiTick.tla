------------------------------- MODULE KoiTick -------------------------------
(***************************************************************************)
(* Koi's learning state over its ticks and restarts.  Koi boots from the   *)
(* causal graph and the evidence (docs/KOI_INTEGRATION.md, 4b), and each   *)
(* pass reads the resource map, writes the evidence of the pass (4) and    *)
(* flushes the confidence its S3 stage updated in memory (4b).  One Koi    *)
(* runs per user and may die between any two calls; another process reads  *)
(* recent evidence, and Orca publishes resource maps.  The passes' plans   *)
(* are the subject of PlanHandoff.                                         *)
(***************************************************************************)
EXTENDS Evidence, ResourceMap

CONSTANTS
    Payloads,    \* bound: the edges a row may have an ICP result for
    MaxCrashes   \* bound: crashes of Koi

ASSUME KoiBounds == Payloads \subseteq SUBSET Edges /\ MaxCrashes \in Nat

VARIABLES
    koi,     \* its place and memory
    crashes

vars == <<evidenceVars, graphVars, mapVars, koi, crashes>>

NothingRead == [version |-> 0, map |-> BodyFromJson(NoRow)]
Down == [ pc |-> "down", tick |-> 0, nodes |-> {}, edges |-> <<>>, mechanisms |-> <<>>,
          batch |-> <<>>, got |-> NothingRead ]

Booting == {"down", "seed", "nodes", "edges", "mechanisms", "tick"}

KoiTypeOK ==
    /\ EvidenceTypeOK /\ GraphTypeOK
    /\ resource_row.version = Len(published)
    /\ koi.pc \in Booting \cup {"gather", "solve", "put", "sync_edges", "sync_mechanisms"}
    /\ koi.tick \in 0..MaxTick + 1
    /\ DOMAIN koi.batch \subseteq RowIds
    /\ crashes \in 0..MaxCrashes

Init ==
    /\ EvidenceInit /\ GraphInit /\ MapInit
    /\ koi = Down
    /\ crashes = 0

Touched(batch) == UNION {batch[id] : id \in DOMAIN batch}

EnvsOf(ids) == {EnvOf[id[2]] : id \in ids}

\* S3: the confidence of what the pass touched, in the environments it did.
Visit(metadata, touched, batch, tick) ==
    [x \in DOMAIN metadata |->
        IF x \in touched
        THEN [ visit_count       |-> metadata[x].visit_count + 1,
               last_touched_tick |-> tick,
               envs_seen         |-> metadata[x].envs_seen \cup EnvsOf(DOMAIN batch) ]
        ELSE metadata[x]]

-----------------------------------------------------------------------------
(* Koi *)

Goes(k) == koi' = k /\ UNCHANGED <<reader, mapVars, crashes>>

Boot ==
    /\ koi.pc = "down"
    /\ Goes([koi EXCEPT !.pc = IF IsEmpty THEN "seed" ELSE "nodes"])
    /\ UNCHANGED <<evidence, moments, graphVars>>

\* In one transaction, as the test of the store seeds it.
SeedGraph ==
    /\ koi.pc = "seed"
    /\ Seed
    /\ Goes([koi EXCEPT !.pc = "nodes"])
    /\ UNCHANGED <<evidence, moments>>

BootNodes ==
    /\ koi.pc = "nodes"
    /\ Goes([koi EXCEPT !.pc = "edges", !.nodes = LoadNodes])
    /\ UNCHANGED <<evidence, moments, graphVars>>

BootEdges ==
    /\ koi.pc = "edges"
    /\ Goes([koi EXCEPT !.pc = "mechanisms", !.edges = LoadEdges])
    /\ UNCHANGED <<evidence, moments, graphVars>>

BootMechanisms ==
    /\ koi.pc = "mechanisms"
    /\ Goes([koi EXCEPT !.pc = "tick", !.mechanisms = LoadMechanisms])
    /\ UNCHANGED <<evidence, moments, graphVars>>

\* The FSM counter resumes after the last tick on record, the only record the
\* store keeps of it: an assumption on Koi, whose source is elsewhere.
BootTick ==
    /\ koi.pc = "tick"
    /\ Goes([koi EXCEPT !.pc = "gather", !.tick = CurrentTick + 1])
    /\ UNCHANGED <<evidence, moments, graphVars>>

Gather ==
    /\ koi.pc = "gather"
    /\ koi.tick <= MaxTick
    /\ Goes([koi EXCEPT !.pc = "solve", !.got = GetMap])
    /\ UNCHANGED <<evidence, moments, graphVars>>

\* The pass: evidence for some items; confidence updated in memory; perhaps
\* a new mechanism over edges it touched.
Solve(batch, found) ==
    LET touched == Touched(batch)
        scoped == {m \in DOMAIN koi.mechanisms : EdgesOf[m] \cap touched # {}}
        added == [m \in found |-> Untouched]
    IN  /\ koi.pc = "solve"
        /\ \A m \in found : EdgesOf[m] \subseteq touched /\ m \notin DOMAIN koi.mechanisms
        /\ Goes([koi EXCEPT !.pc = "put", !.batch = batch, !.got = NothingRead,
                    !.edges = Visit(@, touched, batch, koi.tick),
                    !.mechanisms = Visit(Over(added, @), scoped \cup found, batch, koi.tick)])
        /\ UNCHANGED <<evidence, moments, graphVars>>

PutEvidence ==
    /\ koi.pc = "put"
    /\ PutMany(koi.batch)
    /\ Witness
    /\ Goes([koi EXCEPT !.pc = "sync_edges"])
    /\ UNCHANGED graphVars

SyncEdges ==
    /\ koi.pc = "sync_edges"
    /\ SyncEdgeMetadata(koi.edges)
    /\ Goes([koi EXCEPT !.pc = "sync_mechanisms"])
    /\ UNCHANGED <<evidence, moments>>

\* The last call of the pass.
FlushMechanisms ==
    /\ koi.pc = "sync_mechanisms"
    /\ SyncMechanisms(koi.mechanisms)
    /\ Goes([koi EXCEPT !.pc = "gather", !.tick = @ + 1, !.batch = <<>>])
    /\ UNCHANGED <<evidence, moments>>

Crash ==
    /\ koi.pc # "down"
    /\ crashes < MaxCrashes
    /\ crashes' = crashes + 1
    /\ koi' = Down
    /\ UNCHANGED <<evidenceVars, graphVars, mapVars>>

KoiNext ==
    \/ Boot \/ SeedGraph \/ BootNodes \/ BootEdges \/ BootMechanisms \/ BootTick \/ Gather
    \/ \E ids \in SUBSET ({koi.tick} \X Items) :
          \E batch \in [ids -> Payloads], found \in SUBSET Mechanisms : Solve(batch, found)
    \/ PutEvidence \/ SyncEdges \/ FlushMechanisms \/ Crash

ReadRecent ==
    /\ SelectTicks \/ SelectRows \/ ReadCurrentTick \/ ReadWindow \/ ReadDone
    /\ UNCHANGED <<graphVars, mapVars, koi, crashes>>

Publish(m) ==
    /\ Len(published) < MaxVersion
    /\ Replace(m)
    /\ UNCHANGED <<evidenceVars, graphVars, koi, crashes>>

Next == KoiNext \/ ReadRecent \/ \E m \in Maps : Publish(m)

Spec == Init /\ [][Next]_vars

-----------------------------------------------------------------------------
(* Properties *)

TicksTouching(e) == {id[1] : id \in RowsTouching(e)}

\* The environments of the passes that touched e; S3 adds those of all the
\* rows of a pass, so their rows need not have touched e themselves.
EnvsTouching(e) == EnvsOf({id \in DOMAIN evidence : id[1] \in TicksTouching(e)})

\* CausalGraphStore is the source of truth of a Koi that restarts.  A Koi that
\* booted has the whole graph, whatever call an earlier one died in; the
\* stored confidence of an edge counts passes that are in evidence and is
\* never ahead of it; a crash loses the confidence of one pass at most, and
\* without one there is none missing once the pass has flushed.
ConfidenceLags ==
    /\ koi.pc \notin Booting => koi.nodes = Nodes /\ DOMAIN koi.edges = Edges
    /\ \A e \in DOMAIN edge_table :
          LET row == edge_table[e]
              open == IF koi.pc = "sync_edges" THEN 1 ELSE 0
          IN  /\ row.visit_count <= Cardinality(TicksTouching(e))
              /\ Cardinality(TicksTouching(e)) <= row.visit_count + crashes + open
              /\ row.last_touched_tick \in TicksTouching(e) \cup {0}
              /\ ToSet(row.envs_seen) \subseteq EnvsTouching(e)
              /\ crashes + open = 0 => ToSet(row.envs_seen) = EnvsTouching(e)

\* The two syncs are two transactions, edges first: a stored mechanism is
\* never further than the furthest of the edges it is made of.
MechanismsFollowEdges ==
    \A m \in DOMAIN mechanism_table : EdgesOf[m] # {} =>
        \E e \in EdgesOf[m] :
            mechanism_table[m].last_touched_tick <= edge_table[e].last_touched_tick

\* Whatever Koi plans with is a map Orca published, and its summary counts it.
PlansWithThePublished == ReadsBack(koi.got) /\ CapacityCounts(koi.got.map)
=============================================================================
