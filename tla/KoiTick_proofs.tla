---------------------------- MODULE KoiTick_proofs ----------------------------
(***************************************************************************)
(* Koi's evidence, causal graph and resource maps, for any edges, items,   *)
(* passes and crashes.                                                     *)
(***************************************************************************)
EXTENDS KoiTick, Ascending_proofs, SequenceTheorems

-----------------------------------------------------------------------------
(* Rows, tables and memory *)

Metadata == [visit_count : Nat, last_touched_tick : Nat, envs_seen : SUBSET Envs]

\* The tables of rows under some of the keys.
Tables(keys, rows) == UNION {[some -> rows] : some \in SUBSET keys}

LEMMA TableFields ==
    ASSUME NEW keys, NEW rows, NEW t \in Tables(keys, rows)
    PROVE  DOMAIN t \subseteq keys /\ t \in [DOMAIN t -> rows] /\ \A x \in DOMAIN t : t[x] \in rows
  BY DEF Tables

LEMMA OverIsTable ==
    ASSUME NEW keys, NEW rows, NEW s \in Tables(keys, rows), NEW t \in Tables(keys, rows)
    PROVE  Over(s, t) \in Tables(keys, rows)
<1>1. \A x \in DOMAIN s \cup DOMAIN t : (IF x \in DOMAIN s THEN s[x] ELSE t[x]) \in rows
  BY TableFields
<1>2. DOMAIN s \cup DOMAIN t \in SUBSET keys
  BY TableFields
<1>3. Over(s, t) \in [DOMAIN s \cup DOMAIN t -> rows]
  BY <1>1 DEF Over
<1>4. QED
  BY <1>2, <1>3 DEF Tables

\* A row keeps what it is written from; the environments become a list of
\* which the set can be had back.
LEMMA RowOfMetadata ==
    ASSUME NEW m \in Metadata
    PROVE  ToRow(m) \in Columns /\ FromRow(ToRow(m)) = m
<1>1. /\ m.envs_seen \in SUBSET Nat /\ IsFiniteSet(m.envs_seen)
      /\ m.envs_seen \in SUBSET Envs
  BY MechanismsHaveEdges, FS_Subset DEF Metadata
<1> DEFINE list == Ascending(m.envs_seen)
<1>2. list \in Seq(m.envs_seen) /\ \A env \in m.envs_seen : \E i \in DOMAIN list : list[i] = env
  BY <1>1, AscendingLists
<1>3. list \in Seq(Envs) /\ \A i \in DOMAIN list : list[i] \in m.envs_seen
  BY <1>1, <1>2
<1>4. ToSet(list) = m.envs_seen
  BY <1>2, <1>3 DEF ToSet
<1>5. ToRow(m) = [m EXCEPT !.envs_seen = list]
  BY DEF ToRow
<1> HIDE DEF list
<1>6. ToRow(m) \in Columns
  BY <1>3, <1>5 DEF Metadata, Columns
<1>7. FromRow(ToRow(m)) = [[m EXCEPT !.envs_seen = list] EXCEPT !.envs_seen = ToSet(list)]
  BY <1>5, <1>6 DEF FromRow, Columns, Metadata
<1>8. QED
  BY <1>4, <1>6, <1>7 DEF Metadata

LEMMA MetadataOfRow ==
    ASSUME NEW row \in Columns
    PROVE  /\ FromRow(row) \in Metadata
           /\ FromRow(row).visit_count = row.visit_count
           /\ FromRow(row).last_touched_tick = row.last_touched_tick
           /\ FromRow(row).envs_seen = ToSet(row.envs_seen)
<1>1. row.envs_seen \in Seq(Envs)
  BY DEF Columns
<1>2. ToSet(row.envs_seen) \in SUBSET Envs
  BY <1>1 DEF ToSet
<1> DEFINE s == ToSet(row.envs_seen)
<1>3. FromRow(row) = [row EXCEPT !.envs_seen = s]
  BY DEF FromRow
<1> HIDE DEF s
<1>4. QED
  BY <1>2, <1>3 DEF Metadata, Columns, s

LEMMA UntouchedIsMetadata == Untouched \in Metadata
  BY DEF Untouched, Metadata

\* The confidence of a pass, entry by entry.
LEMMA VisitFields ==
    ASSUME NEW keys, NEW metadata \in Tables(keys, Metadata), NEW touched, NEW tick \in Nat,
           NEW batch \in Tables(RowIds, SUBSET Edges)
    PROVE  /\ Visit(metadata, touched, batch, tick) \in Tables(keys, Metadata)
           /\ DOMAIN Visit(metadata, touched, batch, tick) = DOMAIN metadata
           /\ EnvsOf(DOMAIN batch) \in SUBSET Envs
<1>1. EnvsOf(DOMAIN batch) \in SUBSET Envs
  BY TableFields, EvidenceConstants DEF EnvsOf, RowIds
<1>2. ASSUME NEW x \in DOMAIN metadata
      PROVE  (IF x \in touched
              THEN [ visit_count       |-> metadata[x].visit_count + 1,
                     last_touched_tick |-> tick,
                     envs_seen         |-> metadata[x].envs_seen \cup EnvsOf(DOMAIN batch) ]
              ELSE metadata[x]) \in Metadata
  <2>1. metadata[x] \in Metadata
    BY <1>2, TableFields
  <2>2. QED
    BY <1>1, <2>1 DEF Metadata
<1>3. QED
  BY <1>1, <1>2, TableFields DEF Visit, Tables

-----------------------------------------------------------------------------
(* Types *)

Forms == [form : {"tree"}, body : Maps] \cup [form : {"flat"}, body : Legacy]

\* The row is the last version published; every version is a map, or a flat
\* body from before.
MapType ==
    /\ published \in Seq(Forms)
    /\ DOMAIN resource_row = {"version", "form", "body"}
    /\ resource_row.version = Len(published)
    /\ resource_row.version > 0 =>
          /\ published[resource_row.version].form = resource_row.form
          /\ published[resource_row.version].body = resource_row.body
    /\ resource_row.version = 0 => resource_row = NoRow

GraphType ==
    /\ node_table \subseteq Nodes
    /\ edge_table \in Tables(Edges, Columns)
    /\ mechanism_table \in Tables(Mechanisms, Columns)

EvidenceType ==
    /\ evidence \in Tables(RowIds, SUBSET Edges)
    /\ DOMAIN reader = {"call", "pc", "ticks", "answer"}
    /\ reader.call \in {"recent", "recently_decided", NULL}
    /\ reader.pc \in {"start", "rows", "done"}
    /\ reader.ticks \subseteq 0..MaxTick
    /\ DOMAIN reader.answer \subseteq RowIds

Passing == {"gather", "solve", "put", "sync_edges", "sync_mechanisms"}

KoiType ==
    /\ DOMAIN koi = {"pc", "tick", "nodes", "edges", "mechanisms", "batch", "got"}
    /\ koi.pc \in Booting \cup Passing
    /\ koi.tick \in 0..MaxTick + 1
    /\ koi.edges \in Tables(Edges, Metadata)
    /\ koi.mechanisms \in Tables(Mechanisms, Metadata)
    /\ koi.batch \in Tables(RowIds, SUBSET Edges)
    /\ crashes \in 0..MaxCrashes
    \* A pass is of one tick, later than all on record until it is recorded.
    /\ koi.pc \in Passing => koi.tick > 0
    /\ koi.pc \in Passing \ {"gather"} => koi.tick <= MaxTick
    /\ koi.pc \in {"gather", "solve", "put"} => \A id \in DOMAIN evidence : id[1] < koi.tick
    /\ koi.pc \in Passing => \A id \in DOMAIN evidence : id[1] <= koi.tick
    /\ koi.pc \in {"put", "sync_edges", "sync_mechanisms"} =>
          DOMAIN koi.batch \subseteq {koi.tick} \X Items

TypeInv == MapType /\ GraphType /\ EvidenceType /\ KoiType

LEMMA EmptyTable == ASSUME NEW keys, NEW rows PROVE <<>> \in Tables(keys, rows) /\ DOMAIN <<>> = {}
<1>1. <<>> \in [{} -> rows]
  OBVIOUS
<1>2. QED
  BY <1>1 DEF Tables

\* The ticks on record, and the last of them.
LEMMA LastTick ==
    ASSUME EvidenceType
    PROVE  /\ TicksOf(evidence) \in SUBSET (1..MaxTick) /\ IsFiniteSet(TicksOf(evidence))
           /\ CurrentTick \in 0..MaxTick
           /\ \A t \in TicksOf(evidence) : t <= CurrentTick
           /\ evidence # <<>> => CurrentTick \in TicksOf(evidence)
           /\ \A id \in DOMAIN evidence : id[1] \in TicksOf(evidence) /\ id[1] \in 1..MaxTick
<1>1. DOMAIN evidence \subseteq RowIds
  BY TableFields DEF EvidenceType
<1>2. MaxTick \in Nat
  BY EvidenceConstants
<1>3. /\ TicksOf(evidence) \in SUBSET (1..MaxTick)
      /\ \A id \in DOMAIN evidence : id[1] \in TicksOf(evidence) /\ id[1] \in 1..MaxTick
  BY <1>1 DEF TicksOf, RowIds
<1>4. IsFiniteSet(TicksOf(evidence))
  <2>1. IsFiniteSet(1..MaxTick)
    BY <1>2, FS_Interval
  <2>2. QED
    BY <1>3, <2>1, FS_Subset
<1>5. evidence # <<>> => TicksOf(evidence) # {}
  <2>1. evidence \in [DOMAIN evidence -> SUBSET Edges]
    BY TableFields DEF EvidenceType
  <2>2. DOMAIN evidence = {} => evidence = <<>>
    BY <2>1
  <2>3. QED
    BY <2>2 DEF TicksOf
<1>6. ASSUME evidence # <<>>
      PROVE  CurrentTick \in TicksOf(evidence) /\ \A t \in TicksOf(evidence) : t <= CurrentTick
  <2>1. TicksOf(evidence) \in SUBSET Nat /\ TicksOf(evidence) # {}
    BY <1>2, <1>3, <1>5, <1>6
  <2>2. \E t \in TicksOf(evidence) : \A u \in TicksOf(evidence) : t >= u
    BY <1>4, <2>1, LeastAndGreatest
  <2>3. QED
    BY <2>1, <1>6, <2>2 DEF CurrentTick, Max
<1>7. evidence = <<>> => CurrentTick = 0 /\ TicksOf(evidence) = {}
  BY DEF CurrentTick, TicksOf
<1>8. QED
  BY <1>2, <1>3, <1>4, <1>6, <1>7

\* Koi's memory after a step, field by field.
Memory(pc, tick, nodes, edges, mechanisms, batch, got) ==
    /\ DOMAIN koi' = {"pc", "tick", "nodes", "edges", "mechanisms", "batch", "got"}
    /\ koi'.pc = pc /\ koi'.tick = tick /\ koi'.nodes = nodes /\ koi'.edges = edges
    /\ koi'.mechanisms = mechanisms /\ koi'.batch = batch /\ koi'.got = got

LEMMA BootSteps ==
    ASSUME KoiType
    PROVE  /\ Boot => Memory(IF IsEmpty THEN "seed" ELSE "nodes", koi.tick, koi.nodes, koi.edges,
                             koi.mechanisms, koi.batch, koi.got)
           /\ SeedGraph => Memory("nodes", koi.tick, koi.nodes, koi.edges, koi.mechanisms,
                                  koi.batch, koi.got)
           /\ BootNodes => Memory("edges", koi.tick, LoadNodes, koi.edges, koi.mechanisms,
                                  koi.batch, koi.got)
           /\ BootEdges => Memory("mechanisms", koi.tick, koi.nodes, LoadEdges, koi.mechanisms,
                                  koi.batch, koi.got)
           /\ BootMechanisms => Memory("tick", koi.tick, koi.nodes, koi.edges, LoadMechanisms,
                                       koi.batch, koi.got)
           /\ BootTick => Memory("gather", CurrentTick + 1, koi.nodes, koi.edges, koi.mechanisms,
                                 koi.batch, koi.got)
  BY DEF KoiType, Memory, Boot, SeedGraph, BootNodes, BootEdges, BootMechanisms, BootTick, Goes

\* What the solver leaves in memory.
Visited(batch) == Visit(koi.edges, Touched(batch), batch, koi.tick)
Learned(batch, found) ==
    LET touched == Touched(batch)
        scoped == {m \in DOMAIN koi.mechanisms : EdgesOf[m] \cap touched # {}}
    IN  Visit(Over([m \in found |-> Untouched], koi.mechanisms), scoped \cup found, batch, koi.tick)

LEMMA PassSteps ==
    ASSUME KoiType
    PROVE  /\ Gather => Memory("solve", koi.tick, koi.nodes, koi.edges, koi.mechanisms, koi.batch,
                               GetMap)
           /\ \A batch, found : Solve(batch, found) =>
                 Memory("put", koi.tick, koi.nodes, Visited(batch), Learned(batch, found), batch,
                        NothingRead)
           /\ PutEvidence => Memory("sync_edges", koi.tick, koi.nodes, koi.edges, koi.mechanisms,
                                    koi.batch, koi.got)
           /\ SyncEdges => Memory("sync_mechanisms", koi.tick, koi.nodes, koi.edges,
                                  koi.mechanisms, koi.batch, koi.got)
           /\ FlushMechanisms => Memory("gather", koi.tick + 1, koi.nodes, koi.edges,
                                        koi.mechanisms, <<>>, koi.got)
           /\ Crash => Memory("down", 0, {}, <<>>, <<>>, <<>>, NothingRead)
<1>1. ASSUME NEW batch, NEW found, Solve(batch, found)
      PROVE  Memory("put", koi.tick, koi.nodes, Visited(batch), Learned(batch, found), batch,
                    NothingRead)
  <2>1. koi' = [koi EXCEPT !.pc = "put", !.batch = batch, !.got = NothingRead,
                           !.edges = Visited(batch), !.mechanisms = Learned(batch, found)]
    BY <1>1 DEF Solve, Goes, Visited, Learned
  <2>2. QED
    BY <2>1 DEF KoiType, Memory
<1>2. Gather => Memory("solve", koi.tick, koi.nodes, koi.edges, koi.mechanisms, koi.batch, GetMap)
  BY DEF KoiType, Memory, Gather, Goes
<1>3. PutEvidence => Memory("sync_edges", koi.tick, koi.nodes, koi.edges, koi.mechanisms,
                            koi.batch, koi.got)
  BY DEF KoiType, Memory, PutEvidence, Goes
<1>4. SyncEdges => Memory("sync_mechanisms", koi.tick, koi.nodes, koi.edges, koi.mechanisms,
                          koi.batch, koi.got)
  BY DEF KoiType, Memory, SyncEdges, Goes
<1>5. FlushMechanisms => Memory("gather", koi.tick + 1, koi.nodes, koi.edges, koi.mechanisms,
                                <<>>, koi.got)
  BY DEF KoiType, Memory, FlushMechanisms, Goes
<1>6. Crash => Memory("down", 0, {}, <<>>, <<>>, <<>>, NothingRead)
  BY DEF Memory, Crash, Down
<1>7. QED
  BY <1>1, <1>2, <1>3, <1>4, <1>5, <1>6

\* Every step is one of Koi's, of the reader's or of Orca's.
LEMMA StepsOf ==
    ASSUME [Next]_vars
    PROVE  \/ Boot \/ SeedGraph \/ BootNodes \/ BootEdges \/ BootMechanisms \/ BootTick \/ Gather
           \/ \E ids \in SUBSET ({koi.tick} \X Items) :
                 \E batch \in [ids -> Payloads], found \in SUBSET Mechanisms : Solve(batch, found)
           \/ PutEvidence \/ SyncEdges \/ FlushMechanisms \/ Crash
           \/ ReadRecent
           \/ \E m \in Maps : Publish(m)
           \/ UNCHANGED vars
  BY DEF Next, KoiNext

LEMMA MapTypeStep == ASSUME TypeInv, [Next]_vars PROVE MapType'
<1>1. CASE UNCHANGED mapVars
  BY <1>1 DEF TypeInv, MapType, mapVars
<1>2. ASSUME NEW m \in Maps, Replace(m) PROVE MapType'
  <2> DEFINE form == [form |-> "tree", body |-> m]
  <2>1. published \in Seq(Forms) /\ form \in Forms
    BY DEF TypeInv, MapType, Forms
  <2>2. /\ published' \in Seq(Forms) /\ Len(published') = Len(published) + 1
        /\ published'[Len(published) + 1] = form
    BY <1>2, <2>1 DEF Replace
  <2>3. resource_row' = [version |-> Len(published) + 1, form |-> "tree", body |-> m]
    BY <1>2 DEF Replace, TypeInv, MapType
  <2>4. Len(published) \in Nat
    BY <2>1
  <2>5. QED
    BY <2>2, <2>3, <2>4 DEF MapType
<1>3. QED
  BY <1>1, <1>2, StepsOf DEF Boot, SeedGraph, BootNodes, BootEdges, BootMechanisms, BootTick, Gather,
     Solve, PutEvidence, SyncEdges, FlushMechanisms, Crash, ReadRecent, Publish, Goes, vars

LEMMA StoredIsMetadata ==
    ASSUME GraphType
    PROVE  /\ LoadEdges \in Tables(Edges, Metadata) /\ DOMAIN LoadEdges = DOMAIN edge_table
           /\ LoadMechanisms \in Tables(Mechanisms, Metadata)
           /\ DOMAIN LoadMechanisms = DOMAIN mechanism_table
<1>1. /\ DOMAIN edge_table \in SUBSET Edges /\ \A e \in DOMAIN edge_table : edge_table[e] \in Columns
      /\ DOMAIN mechanism_table \in SUBSET Mechanisms
      /\ \A m \in DOMAIN mechanism_table : mechanism_table[m] \in Columns
  BY TableFields DEF GraphType
<1>2. /\ \A e \in DOMAIN edge_table : FromRow(edge_table[e]) \in Metadata
      /\ \A m \in DOMAIN mechanism_table : FromRow(mechanism_table[m]) \in Metadata
  BY <1>1, MetadataOfRow
<1>3. /\ LoadEdges \in [DOMAIN edge_table -> Metadata]
      /\ LoadMechanisms \in [DOMAIN mechanism_table -> Metadata]
  BY <1>2 DEF LoadEdges, LoadMechanisms
<1>4. QED
  BY <1>1, <1>3 DEF Tables

LEMMA GraphTypeStep == ASSUME TypeInv, [Next]_vars PROVE GraphType'
<1>1. CASE UNCHANGED graphVars
  BY <1>1 DEF TypeInv, GraphType, graphVars
<1>2. CASE Seed
  <2>1. ToRow(Untouched) \in Columns
    BY RowOfMetadata, UntouchedIsMetadata
  <2>2. edge_table' \in [Edges -> Columns]
    BY <1>2, <2>1 DEF Seed
  <2>3. QED
    BY <1>2, <2>2 DEF Seed, TypeInv, GraphType, Tables
<1>3. CASE SyncEdgeMetadata(koi.edges)
  <2>1. ASSUME NEW e \in DOMAIN edge_table
        PROVE  (IF e \in DOMAIN koi.edges THEN ToRow(koi.edges[e]) ELSE edge_table[e]) \in Columns
    <3>1. edge_table[e] \in Columns
      BY TableFields DEF TypeInv, GraphType
    <3>2. e \in DOMAIN koi.edges => koi.edges[e] \in Metadata
      BY TableFields DEF TypeInv, KoiType
    <3>3. QED
      BY <3>1, <3>2, RowOfMetadata
  <2>2. edge_table' \in [DOMAIN edge_table -> Columns]
    BY <1>3, <2>1 DEF SyncEdgeMetadata
  <2>3. DOMAIN edge_table \in SUBSET Edges
    BY TableFields DEF TypeInv, GraphType
  <2>4. QED
    BY <1>3, <2>2, <2>3 DEF SyncEdgeMetadata, TypeInv, GraphType, Tables
<1>4. CASE SyncMechanisms(koi.mechanisms)
  <2> DEFINE rows == [m \in DOMAIN koi.mechanisms |-> ToRow(koi.mechanisms[m])]
  <2>1. /\ DOMAIN koi.mechanisms \in SUBSET Mechanisms
        /\ \A m \in DOMAIN koi.mechanisms : ToRow(koi.mechanisms[m]) \in Columns
    BY TableFields, RowOfMetadata DEF TypeInv, KoiType
  <2>2. rows \in [DOMAIN koi.mechanisms -> Columns]
    BY <2>1
  <2>3. rows \in Tables(Mechanisms, Columns)
    BY <2>1, <2>2 DEF Tables
  <2> HIDE DEF rows
  <2>4. Over(rows, mechanism_table) \in Tables(Mechanisms, Columns)
    BY <2>3, OverIsTable DEF TypeInv, GraphType
  <2>5. mechanism_table' = Over(rows, mechanism_table)
    BY <1>4 DEF SyncMechanisms, rows
  <2>6. QED
    BY <1>4, <2>4, <2>5 DEF SyncMechanisms, TypeInv, GraphType
<1>5. QED
  BY <1>1, <1>2, <1>3, <1>4, StepsOf DEF Boot, SeedGraph, BootNodes, BootEdges, BootMechanisms,
     BootTick, Gather, Solve, PutEvidence, SyncEdges, FlushMechanisms, Crash, ReadRecent, Publish,
     Goes, vars

\* What is put on record is of the pass, and later than what was there.
LEMMA EvidenceStep ==
    ASSUME TypeInv, [Next]_vars
    PROVE  \/ evidence' = evidence
           \/ /\ PutEvidence /\ evidence' = Over(koi.batch, evidence)
              /\ koi.tick \in 1..MaxTick
              /\ \A id \in DOMAIN koi.batch : id[1] = koi.tick
              /\ \A id \in DOMAIN evidence : id[1] < koi.tick
              /\ evidence' \in Tables(RowIds, SUBSET Edges)
<1>1. evidence' = evidence \/ PutEvidence
  BY StepsOf DEF Boot, SeedGraph, BootNodes, BootEdges, BootMechanisms,
     BootTick, Gather, Solve, SyncEdges, FlushMechanisms, Crash, ReadRecent, Publish,
     Goes, vars, evidenceVars, SelectTicks, SelectRows, ReadCurrentTick, ReadWindow, ReadDone
<1>2. ASSUME PutEvidence
      PROVE  /\ evidence' = Over(koi.batch, evidence)
             /\ koi.tick \in 1..MaxTick
             /\ \A id \in DOMAIN koi.batch : id[1] = koi.tick
             /\ \A id \in DOMAIN evidence : id[1] < koi.tick
  BY <1>2, EvidenceConstants DEF PutEvidence, PutMany, TypeInv, KoiType, Passing
<1>3. Over(koi.batch, evidence) \in Tables(RowIds, SUBSET Edges)
  BY OverIsTable DEF TypeInv, KoiType, EvidenceType
<1>4. QED
  BY <1>1, <1>2, <1>3

LEMMA LearnedIsMetadata ==
    ASSUME TypeInv, NEW ids \in SUBSET ({koi.tick} \X Items), NEW batch \in [ids -> Payloads],
           NEW found \in SUBSET Mechanisms, Solve(batch, found)
    PROVE  /\ batch \in Tables(RowIds, SUBSET Edges) /\ DOMAIN batch \subseteq {koi.tick} \X Items
           /\ Visited(batch) \in Tables(Edges, Metadata)
           /\ Learned(batch, found) \in Tables(Mechanisms, Metadata)
<1>1. koi.tick \in 1..MaxTick /\ koi.tick \in Nat
  BY EvidenceConstants DEF TypeInv, KoiType, Solve, Passing
<1>2. ids \in SUBSET RowIds
  BY <1>1 DEF RowIds
<1>3. batch \in [ids -> SUBSET Edges]
  BY KoiBounds
<1>4. batch \in Tables(RowIds, SUBSET Edges)
  BY <1>2, <1>3 DEF Tables
<1>5. koi.edges \in Tables(Edges, Metadata) /\ koi.mechanisms \in Tables(Mechanisms, Metadata)
  BY DEF TypeInv, KoiType
<1>6. Visited(batch) \in Tables(Edges, Metadata)
  BY <1>1, <1>4, <1>5, VisitFields DEF Visited
<1> DEFINE added == [m \in found |-> Untouched]
<1>7. added \in Tables(Mechanisms, Metadata)
  BY UntouchedIsMetadata DEF Tables
<1> HIDE DEF added
<1>8. Over(added, koi.mechanisms) \in Tables(Mechanisms, Metadata)
  BY <1>5, <1>7, OverIsTable
<1>9. Learned(batch, found) \in Tables(Mechanisms, Metadata)
  <2> DEFINE scoped == {m \in DOMAIN koi.mechanisms : EdgesOf[m] \cap Touched(batch) # {}}
  <2> DEFINE table == Over(added, koi.mechanisms)
  <2> DEFINE touched == scoped \cup found
  <2>1. Learned(batch, found) = Visit(table, touched, batch, koi.tick)
    BY DEF Learned, added
  <2>2. table \in Tables(Mechanisms, Metadata)
    BY <1>8
  <2> HIDE DEF scoped, table, touched
  <2>3. Visit(table, touched, batch, koi.tick) \in Tables(Mechanisms, Metadata)
    BY <1>1, <1>4, <2>2, VisitFields
  <2>4. QED
    BY <2>1, <2>3
<1>10. QED
  BY <1>4, <1>6, <1>9

LEMMA KoiTypeStep == ASSUME TypeInv, [Next]_vars PROVE KoiType'
<1> USE DEF Passing, Booting
<1>1. KoiType /\ MaxTick \in Nat /\ MaxCrashes \in Nat
  BY EvidenceConstants, KoiBounds DEF TypeInv
<1>2. evidence' = evidence \/ PutEvidence
  BY EvidenceStep
<1>3. CASE UNCHANGED koi
  <2>1. UNCHANGED crashes /\ UNCHANGED evidence
    <3>1. ~PutEvidence /\ ~Crash
      BY <1>1, <1>3, PassSteps DEF Memory, PutEvidence, Crash
    <3>2. QED
      BY <1>2, <3>1, StepsOf DEF Boot, SeedGraph, BootNodes, BootEdges, BootMechanisms, BootTick,
         Gather, Solve, SyncEdges, FlushMechanisms, ReadRecent, Publish, Goes, vars
  <2>2. QED
    BY <1>1, <1>3, <2>1 DEF KoiType
<1>4. CASE Boot \/ SeedGraph \/ BootNodes
  <2>1. UNCHANGED <<evidence, crashes>>
    BY <1>4 DEF Boot, SeedGraph, BootNodes, Goes
  <2>2. QED
    BY <1>1, <1>4, <2>1, BootSteps DEF KoiType, Memory
<1>5. CASE BootEdges \/ BootMechanisms
  <2>1. UNCHANGED <<evidence, crashes>>
    BY <1>5 DEF BootEdges, BootMechanisms, Goes
  <2>2. LoadEdges \in Tables(Edges, Metadata) /\ LoadMechanisms \in Tables(Mechanisms, Metadata)
    BY StoredIsMetadata DEF TypeInv
  <2>3. QED
    BY <1>1, <1>5, <2>1, <2>2, BootSteps DEF KoiType, Memory
<1>6. CASE BootTick
  <2>1. UNCHANGED <<evidence, crashes>>
    BY <1>6 DEF BootTick, Goes
  <2>2. CurrentTick \in 0..MaxTick /\ \A id \in DOMAIN evidence : id[1] \in 1..MaxTick /\ id[1] <= CurrentTick
    BY LastTick DEF TypeInv
  <2>3. QED
    BY <1>1, <1>6, <2>1, <2>2, BootSteps DEF KoiType, Memory
<1>7. CASE Gather
  <2>1. UNCHANGED <<evidence, crashes>> /\ koi.tick <= MaxTick /\ koi.pc = "gather"
    BY <1>7 DEF Gather, Goes
  <2>2. QED
    BY <1>1, <1>7, <2>1, PassSteps DEF KoiType, Memory
<1>8. ASSUME NEW ids \in SUBSET ({koi.tick} \X Items), NEW batch \in [ids -> Payloads],
             NEW found \in SUBSET Mechanisms, Solve(batch, found)
      PROVE  KoiType'
  <2>1. UNCHANGED <<evidence, crashes>> /\ koi.pc = "solve"
    BY <1>8 DEF Solve, Goes
  <2>2. Memory("put", koi.tick, koi.nodes, Visited(batch), Learned(batch, found), batch, NothingRead)
    BY <1>1, <1>8, PassSteps
  <2>3. /\ batch \in Tables(RowIds, SUBSET Edges) /\ DOMAIN batch \subseteq {koi.tick} \X Items
        /\ Visited(batch) \in Tables(Edges, Metadata)
        /\ Learned(batch, found) \in Tables(Mechanisms, Metadata)
    BY <1>8, LearnedIsMetadata
  <2>4. QED
    BY <1>1, <2>1, <2>2, <2>3 DEF KoiType, Memory
<1>9. CASE PutEvidence
  <2>1. UNCHANGED crashes /\ koi.pc = "put"
    BY <1>9 DEF PutEvidence, Goes
  <2>2. \A id \in DOMAIN evidence' : id[1] <= koi.tick
    <3>1. /\ evidence' = Over(koi.batch, evidence)
          /\ koi.tick \in 1..MaxTick
          /\ \A id \in DOMAIN koi.batch : id[1] = koi.tick
          /\ \A id \in DOMAIN evidence : id[1] < koi.tick
      BY <1>1, <1>9, EvidenceStep DEF PutEvidence, PutMany, TypeInv, KoiType
    <3>2. \A id \in DOMAIN evidence : id[1] \in 1..MaxTick
      BY LastTick DEF TypeInv
    <3>3. DOMAIN evidence' = DOMAIN koi.batch \cup DOMAIN evidence
      BY <3>1 DEF Over
    <3>4. QED
      BY <3>1, <3>2, <3>3
  <2>3. QED
    BY <1>1, <1>9, <2>1, <2>2, PassSteps DEF KoiType, Memory
<1>10. CASE SyncEdges
  <2>1. UNCHANGED <<evidence, crashes>> /\ koi.pc = "sync_edges"
    BY <1>10 DEF SyncEdges, Goes
  <2>2. QED
    BY <1>1, <1>10, <2>1, PassSteps DEF KoiType, Memory
<1>11. CASE FlushMechanisms
  <2>1. UNCHANGED <<evidence, crashes>> /\ koi.pc = "sync_mechanisms"
    BY <1>11 DEF FlushMechanisms, Goes
  <2>2. <<>> \in Tables(RowIds, SUBSET Edges) /\ DOMAIN <<>> = {}
    BY EmptyTable
  <2>3. \A id \in DOMAIN evidence : id[1] \in 1..MaxTick
    BY LastTick DEF TypeInv
  <2>4. QED
    BY <1>1, <1>11, <2>1, <2>2, <2>3, PassSteps DEF KoiType, Memory
<1>12. CASE Crash
  <2>1. UNCHANGED evidence /\ crashes' = crashes + 1 /\ crashes < MaxCrashes
    BY <1>12 DEF Crash, evidenceVars
  <2>2. /\ <<>> \in Tables(Edges, Metadata) /\ <<>> \in Tables(Mechanisms, Metadata)
        /\ <<>> \in Tables(RowIds, SUBSET Edges)
    BY EmptyTable
  <2>3. QED
    BY <1>1, <1>12, <2>1, <2>2, PassSteps DEF KoiType, Memory
<1>13. QED
  BY <1>3, <1>4, <1>5, <1>6, <1>7, <1>8, <1>9, <1>10, <1>11, <1>12, StepsOf DEF ReadRecent, Publish, vars

\* What the reader does, and what it leaves alone.
LEMMA ReaderStep ==
    ASSUME TypeInv, [Next]_vars
    PROVE  \/ UNCHANGED <<reader, moments, evidence>>
           \/ SelectTicks \/ SelectRows \/ ReadCurrentTick \/ ReadWindow \/ ReadDone
           \/ PutEvidence /\ Witness /\ reader' = reader
  BY StepsOf DEF Boot, SeedGraph, BootNodes, BootEdges, BootMechanisms, BootTick, Gather, Solve,
     PutEvidence, SyncEdges, FlushMechanisms, Crash, ReadRecent, Publish, Goes, vars, evidenceVars

LEMMA EvidenceTypeStep == ASSUME TypeInv, [Next]_vars PROVE EvidenceType'
<1>1. evidence' \in Tables(RowIds, SUBSET Edges)
  BY EvidenceStep DEF TypeInv, EvidenceType
<1>2. DOMAIN evidence \subseteq RowIds /\ MaxTick \in Nat /\ Window \in Nat
  BY TableFields, EvidenceConstants DEF TypeInv, EvidenceType
<1>3. TicksOf(evidence) \in SUBSET (1..MaxTick) /\ CurrentTick \in 0..MaxTick
  BY LastTick DEF TypeInv
<1>4. CASE reader' = reader
  BY <1>1, <1>4 DEF TypeInv, EvidenceType
<1>5. CASE SelectTicks
  <2>1. RecentTicks \subseteq 0..MaxTick
    BY <1>2, <1>3 DEF RecentTicks
  <2>2. QED
    BY <1>1, <1>5, <2>1 DEF SelectTicks, EvidenceType
<1>6. CASE SelectRows
  <2>1. DOMAIN RowsOf(reader.ticks) \subseteq RowIds
    BY <1>2 DEF RowsOf
  <2>2. QED
    BY <1>1, <1>6, <2>1 DEF SelectRows, TypeInv, EvidenceType
<1>7. CASE ReadCurrentTick
  <2>1. WindowStart(CurrentTick)..CurrentTick \subseteq 0..MaxTick
    BY <1>2, <1>3 DEF WindowStart
  <2>2. QED
    BY <1>1, <1>7, <2>1 DEF ReadCurrentTick, EvidenceType
<1>8. CASE ReadWindow
  <2> DEFINE rows == RowsInWindow(Min(reader.ticks), Max(reader.ticks))
  <2>1. DOMAIN rows \subseteq RowIds
    BY <1>2 DEF RowsInWindow
  <2>2. reader' = [reader EXCEPT !.pc = "done", !.answer = rows]
    BY <1>8 DEF ReadWindow
  <2> HIDE DEF rows
  <2>3. QED
    BY <1>1, <2>1, <2>2 DEF TypeInv, EvidenceType
<1>9. CASE ReadDone
  BY <1>1, <1>9, EmptyTable, <1>2 DEF ReadDone, NoRead, EvidenceType
<1>10. QED
  BY <1>4, <1>5, <1>6, <1>7, <1>8, <1>9, ReaderStep

LEMMA TypeInvInit == ASSUME Init PROVE TypeInv
<1>1. MaxTick \in Nat /\ MaxCrashes \in Nat
  BY EvidenceConstants, KoiBounds
<1>2. MapType
  <2>1. CASE resource_row = NoRow /\ published = <<>>
    BY <2>1 DEF MapType, NoRow
  <2>2. ASSUME NEW b \in Legacy,
               resource_row = [version |-> 1, form |-> "flat", body |-> b],
               published = <<[form |-> "flat", body |-> b]>>
        PROVE  MapType
    <3>1. [form |-> "flat", body |-> b] \in Forms
      BY DEF Forms
    <3>2. published \in Seq(Forms) /\ Len(published) = 1
      BY <2>2, <3>1
    <3>3. QED
      BY <2>2, <3>2 DEF MapType
  <2>3. QED
    BY <2>1, <2>2 DEF Init, MapInit
<1>3. GraphType
  BY EmptyTable DEF Init, GraphInit, GraphType
<1>4. EvidenceType
  <2>1. evidence \in Tables(RowIds, SUBSET Edges) /\ DOMAIN <<>> = {}
    BY EmptyTable DEF Init, EvidenceInit
  <2>2. QED
    BY <2>1 DEF Init, EvidenceInit, EvidenceType, NoRead
<1>5. KoiType
  <2>1. /\ <<>> \in Tables(Edges, Metadata) /\ <<>> \in Tables(Mechanisms, Metadata)
        /\ <<>> \in Tables(RowIds, SUBSET Edges)
    BY EmptyTable
  <2>2. QED
    BY <1>1, <2>1 DEF Init, Down, KoiType, Booting, Passing
<1>6. QED
  BY <1>2, <1>3, <1>4, <1>5 DEF TypeInv

LEMMA TypeInvStep == ASSUME TypeInv, [Next]_vars PROVE TypeInv'
  BY MapTypeStep, GraphTypeStep, EvidenceTypeStep, KoiTypeStep DEF TypeInv

\* KoiTypeOK (KoiTick): Koi's rows and confidence have the types of their
\* columns, and no tick passes the bound by more than the one to come.
THEOREM TypesOfKoi == Spec => []KoiTypeOK
<1>1. Init => TypeInv
  BY TypeInvInit
<1>2. TypeInv /\ [Next]_vars => TypeInv'
  BY TypeInvStep
<1>3. TypeInv => KoiTypeOK
  <2> SUFFICES ASSUME TypeInv PROVE KoiTypeOK
    OBVIOUS
  <2>1. EvidenceTypeOK
    BY TableFields DEF TypeInv, EvidenceType, EvidenceTypeOK
  <2>2. GraphTypeOK
    BY TableFields DEF TypeInv, GraphType, GraphTypeOK
  <2>3. DOMAIN koi.batch \subseteq RowIds
    BY TableFields DEF TypeInv, KoiType
  <2>4. QED
    BY <2>1, <2>2, <2>3 DEF TypeInv, MapType, KoiType, KoiTypeOK, Passing
<1>4. QED
  BY <1>1, <1>2, <1>3, PTL DEF Spec

-----------------------------------------------------------------------------
(* What holds between the calls *)

\* The graph is seeded whole, and a Koi that booted has read it.
Seeded ==
    /\ \/ /\ node_table = {} /\ DOMAIN edge_table = {} /\ DOMAIN mechanism_table = {}
          /\ DOMAIN evidence = {}
       \/ node_table = Nodes /\ DOMAIN edge_table = Edges
    /\ koi.pc = "seed" => node_table = {}
    /\ koi.pc \in {"nodes", "edges", "mechanisms", "tick"} \cup Passing => node_table = Nodes
    /\ koi.pc \in {"edges", "mechanisms", "tick"} \cup Passing => koi.nodes = Nodes

\* Its confidence is the stored one, but for the visits of the pass between
\* the solver and the sync.
Remembered ==
    /\ koi.pc \in {"mechanisms", "tick", "gather", "solve", "sync_mechanisms"} =>
          koi.edges = LoadEdges
    /\ koi.pc \in {"put", "sync_edges"} =>
          koi.edges = Visit(LoadEdges, Touched(koi.batch), koi.batch, koi.tick)

\* The visits of e, with the one on record that the row does not count yet.
Lagging(e) ==
    LET row == FromRow(edge_table[e])
        ticks == TicksTouching(e)
        open == koi.pc = "sync_edges" /\ e \in Touched(koi.batch)
        visits == IF open THEN row.visit_count + 1 ELSE row.visit_count
        envs == IF open THEN row.envs_seen \cup EnvsOf(DOMAIN koi.batch) ELSE row.envs_seen
    IN  /\ visits <= Cardinality(ticks) /\ Cardinality(ticks) <= visits + crashes
        /\ row.last_touched_tick \in ticks \cup {0}
        /\ open => koi.tick \in ticks
        /\ envs \subseteq EnvsTouching(e)
        /\ crashes = 0 => envs = EnvsTouching(e)

\* A mechanism is no further than one of its edges, in the tables and in memory.
Follows(mechanisms, edges) ==
    \A m \in DOMAIN mechanisms : EdgesOf[m] # {} =>
        \E e \in EdgesOf[m] : mechanisms[m].last_touched_tick <= edges[e].last_touched_tick

Following ==
    /\ Follows(mechanism_table, edge_table)
    /\ koi.pc \in {"tick"} \cup Passing => Follows(koi.mechanisms, koi.edges)

\* What the read under way will return is the right answer of some moment,
\* whatever is put on record meanwhile.
Reading ==
    /\ reader.pc = "rows" =>
          /\ reader.call = "recent" =>
                /\ reader.ticks \subseteq TicksOf(evidence)
                /\ RowsOf(reader.ticks) \in moments
          /\ reader.call = "recently_decided" =>
                \E upper \in 0..MaxTick :
                    /\ upper \in TicksOf(evidence) \cup {0}
                    /\ reader.ticks = WindowStart(upper)..upper
                    /\ RowsInWindow(WindowStart(upper), upper) \in moments
    /\ ReadsAreMoments

\* The map in hand is the one published under its version.
GotPublished ==
    /\ koi.got.version \in 0..Len(published)
    /\ IsMap(koi.got.map)
    /\ ReadsBack(koi.got)

KoiInv ==
    /\ TypeInv /\ Seeded /\ Remembered /\ Following /\ Reading /\ GotPublished
    /\ \A e \in DOMAIN edge_table : Lagging(e)
-----------------------------------------------------------------------------
(* The steps, one conjunct at a time *)

\* A step leaves Koi's place and memory as they are, or is one of its own.
LEMMA KoiStep ==
    ASSUME [Next]_vars
    PROVE  \/ Boot \/ SeedGraph \/ BootNodes \/ BootEdges \/ BootMechanisms \/ BootTick \/ Gather
           \/ \E ids \in SUBSET ({koi.tick} \X Items) :
                 \E batch \in [ids -> Payloads], found \in SUBSET Mechanisms : Solve(batch, found)
           \/ PutEvidence \/ SyncEdges \/ FlushMechanisms \/ Crash
           \/ UNCHANGED <<koi, crashes, evidence, graphVars>>
  BY StepsOf DEF ReadRecent, Publish, vars, evidenceVars, SelectTicks, SelectRows,
     ReadCurrentTick, ReadWindow, ReadDone

LEMMA SeededStep == ASSUME TypeInv, Seeded, [Next]_vars PROVE Seeded'
<1> USE DEF Passing
<1>1. KoiType
  BY DEF TypeInv
<1>2. CASE UNCHANGED <<koi, crashes, evidence, graphVars>>
  BY <1>2 DEF Seeded, graphVars
<1>3. CASE Boot
  <2>1. UNCHANGED <<evidence, graphVars>> /\ koi.pc = "down"
    BY <1>3 DEF Boot
  <2>2. QED
    BY <1>1, <1>3, <2>1, BootSteps DEF Seeded, Memory, graphVars, IsEmpty
<1>4. CASE SeedGraph
  BY <1>1, <1>4, BootSteps DEF SeedGraph, Seed, Seeded, Memory
<1>5. CASE BootNodes
  <2>1. UNCHANGED <<evidence, graphVars>> /\ koi.pc = "nodes"
    BY <1>5 DEF BootNodes
  <2>2. QED
    BY <1>1, <1>5, <2>1, BootSteps DEF Seeded, Memory, graphVars, LoadNodes
<1>6. CASE BootEdges \/ BootMechanisms \/ BootTick
  <2>1. UNCHANGED <<evidence, graphVars>> /\ koi.pc \in {"edges", "mechanisms", "tick"}
    BY <1>6 DEF BootEdges, BootMechanisms, BootTick
  <2>2. QED
    BY <1>1, <1>6, <2>1, BootSteps DEF Seeded, Memory, graphVars
<1>7. ASSUME NEW batch, NEW found, Gather \/ Solve(batch, found)
      PROVE  Seeded'
  <2>1. UNCHANGED <<evidence, graphVars>> /\ koi.pc \in {"gather", "solve"}
    BY <1>7 DEF Gather, Solve
  <2>2. QED
    BY <1>1, <1>7, <2>1, PassSteps DEF Seeded, Memory, graphVars
<1>8. CASE PutEvidence
  <2>1. UNCHANGED graphVars /\ koi.pc = "put"
    BY <1>8 DEF PutEvidence
  <2>2. Nodes # {}
    BY MechanismsHaveEdges
  <2>3. QED
    BY <1>1, <1>8, <2>1, <2>2, PassSteps DEF Seeded, Memory, graphVars
<1>9. CASE SyncEdges
  <2>1. /\ UNCHANGED <<evidence, node_table, mechanism_table>> /\ koi.pc = "sync_edges"
        /\ DOMAIN edge_table' = DOMAIN edge_table
    BY <1>9 DEF SyncEdges, SyncEdgeMetadata
  <2>2. QED
    BY <1>1, <1>9, <2>1, PassSteps DEF Seeded, Memory
<1>10. CASE FlushMechanisms
  <2>1. UNCHANGED <<evidence, node_table, edge_table>> /\ koi.pc = "sync_mechanisms"
    BY <1>10 DEF FlushMechanisms, SyncMechanisms
  <2>2. Nodes # {}
    BY MechanismsHaveEdges
  <2>3. QED
    BY <1>1, <1>10, <2>1, <2>2, PassSteps DEF Seeded, Memory
<1>11. CASE Crash
  BY <1>1, <1>11, PassSteps DEF Crash, evidenceVars, graphVars, Seeded, Memory
<1>12. QED
  BY <1>2, <1>3, <1>4, <1>5, <1>6, <1>7, <1>8, <1>9, <1>10, <1>11, KoiStep

\* The rows that sync_edges leaves are what it was called with.
LEMMA SyncedEdges ==
    ASSUME TypeInv, DOMAIN koi.edges = DOMAIN edge_table, SyncEdgeMetadata(koi.edges)
    PROVE  /\ DOMAIN edge_table' = DOMAIN edge_table
           /\ \A e \in DOMAIN edge_table : FromRow(edge_table'[e]) = koi.edges[e]
           /\ LoadEdges' = koi.edges
<1>1. /\ DOMAIN edge_table' = DOMAIN edge_table
      /\ \A e \in DOMAIN edge_table : edge_table'[e] = ToRow(koi.edges[e])
  BY DEF SyncEdgeMetadata
<1>2. \A e \in DOMAIN edge_table : koi.edges[e] \in Metadata
  BY TableFields DEF TypeInv, KoiType
<1>3. \A e \in DOMAIN edge_table : FromRow(edge_table'[e]) = koi.edges[e]
  BY <1>1, <1>2, RowOfMetadata
<1>4. koi.edges \in [DOMAIN koi.edges -> Metadata]
  BY TableFields DEF TypeInv, KoiType
<1>5. LoadEdges' = [e \in DOMAIN edge_table |-> koi.edges[e]]
  BY <1>1, <1>3 DEF LoadEdges
<1>6. QED
  BY <1>1, <1>3, <1>4, <1>5

LEMMA RememberedStep == ASSUME TypeInv, Remembered, [Next]_vars PROVE Remembered'
<1>1. KoiType
  BY DEF TypeInv
<1>2. ASSUME UNCHANGED graphVars PROVE LoadEdges' = LoadEdges
  BY <1>2 DEF graphVars, LoadEdges
<1>3. CASE UNCHANGED <<koi, crashes, evidence, graphVars>>
  BY <1>2, <1>3 DEF Remembered
<1>4. CASE Boot \/ SeedGraph \/ BootNodes
  BY <1>1, <1>4, BootSteps DEF Remembered, Memory
<1>5. CASE BootEdges \/ BootMechanisms \/ BootTick
  <2>1. LoadEdges' = LoadEdges /\ koi.pc \in {"edges", "mechanisms", "tick"}
    BY <1>2, <1>5 DEF BootEdges, BootMechanisms, BootTick
  <2>2. BootEdges => koi'.edges = LoadEdges /\ koi'.pc = "mechanisms"
    BY <1>1, BootSteps DEF Memory
  <2>3. /\ BootMechanisms => koi'.edges = koi.edges /\ koi'.pc = "tick" /\ koi.pc = "mechanisms"
        /\ BootTick => koi'.edges = koi.edges /\ koi'.pc = "gather" /\ koi.pc = "tick"
    BY <1>1, BootSteps DEF Memory, BootMechanisms, BootTick
  <2>4. koi'.edges = LoadEdges
    BY <1>5, <2>2, <2>3 DEF Remembered
  <2>5. QED
    BY <1>5, <2>1, <2>2, <2>3, <2>4 DEF Remembered
<1>6. CASE Gather
  <2>1. LoadEdges' = LoadEdges /\ koi.pc = "gather"
    BY <1>2, <1>6 DEF Gather
  <2>2. QED
    BY <1>1, <1>6, <2>1, PassSteps DEF Remembered, Memory
<1>7. ASSUME NEW batch, NEW found, Solve(batch, found)
      PROVE  Remembered'
  <2>1. LoadEdges' = LoadEdges /\ koi.edges = LoadEdges
    BY <1>2, <1>7 DEF Solve, Remembered
  <2>2. /\ koi'.pc = "put" /\ koi'.edges = Visited(batch) /\ koi'.batch = batch
        /\ koi'.tick = koi.tick
    BY <1>1, <1>7, PassSteps DEF Memory
  <2>3. koi'.edges = Visit(LoadEdges', Touched(koi'.batch), koi'.batch, koi'.tick)
    BY <2>1, <2>2 DEF Visited
  <2>4. QED
    BY <2>2, <2>3 DEF Remembered
<1>8. CASE PutEvidence
  <2>1. LoadEdges' = LoadEdges /\ koi.pc = "put"
    BY <1>2, <1>8 DEF PutEvidence
  <2>2. /\ koi'.pc = "sync_edges" /\ koi'.edges = koi.edges /\ koi'.batch = koi.batch
        /\ koi'.tick = koi.tick
    BY <1>1, <1>8, PassSteps DEF Memory
  <2>3. QED
    BY <2>1, <2>2 DEF Remembered
<1>9. CASE SyncEdges
  <2>1. koi.edges = Visit(LoadEdges, Touched(koi.batch), koi.batch, koi.tick)
    BY <1>9 DEF SyncEdges, Remembered
  <2>2. DOMAIN koi.edges = DOMAIN edge_table
    BY <2>1 DEF Visit, LoadEdges
  <2>3. LoadEdges' = koi.edges
    BY <1>9, <2>2, SyncedEdges DEF SyncEdges
  <2>4. QED
    BY <1>1, <1>9, <2>3, PassSteps DEF Remembered, Memory
<1>10. CASE FlushMechanisms
  <2>1. LoadEdges' = LoadEdges /\ koi.pc = "sync_mechanisms"
    BY <1>10 DEF FlushMechanisms, SyncMechanisms, LoadEdges
  <2>2. QED
    BY <1>1, <1>10, <2>1, PassSteps DEF Remembered, Memory
<1>11. CASE Crash
  BY <1>1, <1>11, PassSteps DEF Remembered, Memory
<1>12. QED
  BY <1>3, <1>4, <1>5, <1>6, <1>7, <1>8, <1>9, <1>10, <1>11, KoiStep

\* What a batch adds to what is on record of an edge.
LEMMA VisitsOnRecord ==
    ASSUME TypeInv, PutEvidence, NEW e
    PROVE  /\ e \in Touched(koi.batch) =>
                 /\ TicksTouching(e)' = TicksTouching(e) \cup {koi.tick}
                 /\ koi.tick \notin TicksTouching(e)
                 /\ EnvsTouching(e)' = EnvsTouching(e) \cup EnvsOf(DOMAIN koi.batch)
           /\ e \notin Touched(koi.batch) =>
                 TicksTouching(e)' = TicksTouching(e) /\ EnvsTouching(e)' = EnvsTouching(e)
<1>1. /\ evidence' = Over(koi.batch, evidence)
      /\ \A id \in DOMAIN koi.batch : id[1] = koi.tick
      /\ \A id \in DOMAIN evidence : id[1] < koi.tick
      /\ koi.tick \in Nat
  BY EvidenceConstants DEF PutEvidence, PutMany, TypeInv, KoiType
<1>2. \A id \in DOMAIN evidence : id[1] \in Nat
  BY LastTick, EvidenceConstants DEF TypeInv
<1>3. \A id \in DOMAIN evidence : id \notin DOMAIN koi.batch /\ id[1] # koi.tick
  BY <1>1, <1>2
<1>4. /\ DOMAIN evidence' = DOMAIN koi.batch \cup DOMAIN evidence
      /\ \A id \in DOMAIN koi.batch : evidence'[id] = koi.batch[id]
      /\ \A id \in DOMAIN evidence : evidence'[id] = evidence[id]
  BY <1>1, <1>3 DEF Over
<1> DEFINE added == {id \in DOMAIN koi.batch : e \in koi.batch[id]}
<1>5. RowsTouching(e)' = RowsTouching(e) \cup added
  BY <1>4 DEF RowsTouching
<1>6. e \in Touched(koi.batch) <=> added # {}
  BY DEF Touched
<1>7. \A id \in added : id[1] = koi.tick
  BY <1>1
<1>8. koi.tick \notin TicksTouching(e)
  BY <1>3 DEF TicksTouching, RowsTouching
<1> HIDE DEF added
<1>9. TicksTouching(e)' = {id[1] : id \in RowsTouching(e)'}
  BY DEF TicksTouching
<1>10. added # {} => TicksTouching(e)' = TicksTouching(e) \cup {koi.tick}
  BY <1>5, <1>7, <1>9 DEF TicksTouching
<1>11. added = {} => TicksTouching(e)' = TicksTouching(e)
  BY <1>5, <1>9 DEF TicksTouching
<1> DEFINE ofTicks == {id \in DOMAIN evidence : id[1] \in TicksTouching(e)}
<1> DEFINE ofTicks1 == {id \in DOMAIN evidence' : id[1] \in TicksTouching(e)'}
<1>12. added # {} => ofTicks1 = ofTicks \cup DOMAIN koi.batch
  BY <1>1, <1>3, <1>4, <1>10
<1>13. added = {} => ofTicks1 = ofTicks
  BY <1>1, <1>4, <1>8, <1>11
<1>14. EnvsTouching(e) = EnvsOf(ofTicks) /\ EnvsTouching(e)' = EnvsOf(ofTicks1)
  BY DEF EnvsTouching
<1> HIDE DEF ofTicks, ofTicks1
<1>15. EnvsOf(ofTicks \cup DOMAIN koi.batch) = EnvsOf(ofTicks) \cup EnvsOf(DOMAIN koi.batch)
  BY DEF EnvsOf
<1>16. QED
  BY <1>6, <1>8, <1>10, <1>11, <1>12, <1>13, <1>14, <1>15

LEMMA TicksAreFinite ==
    ASSUME TypeInv, NEW e
    PROVE  IsFiniteSet(TicksTouching(e)) /\ Cardinality(TicksTouching(e)) \in Nat
<1>1. TicksTouching(e) \subseteq TicksOf(evidence)
  BY DEF TicksTouching, RowsTouching, TicksOf
<1>2. IsFiniteSet(TicksOf(evidence))
  BY LastTick DEF TypeInv
<1>3. IsFiniteSet(TicksTouching(e))
  BY <1>1, <1>2, FS_Subset
<1>4. QED
  BY <1>3, FS_CardinalityType

LEMMA RowsAreMetadata ==
    ASSUME TypeInv, NEW e \in DOMAIN edge_table
    PROVE  FromRow(edge_table[e]) \in Metadata
  BY TableFields, MetadataOfRow DEF TypeInv, GraphType

LEMMA LaggingStep ==
    ASSUME TypeInv, Seeded, Remembered, \A e \in DOMAIN edge_table : Lagging(e), [Next]_vars,
           NEW e \in DOMAIN edge_table'
    PROVE  Lagging(e)'
<1>1. KoiType /\ MaxCrashes \in Nat /\ crashes \in Nat
  BY KoiBounds DEF TypeInv, KoiType
<1>2. Cardinality(TicksTouching(e)) \in Nat /\ IsFiniteSet(TicksTouching(e))
  BY TicksAreFinite
<1>3. ASSUME UNCHANGED <<evidence, edge_table>>
      PROVE  /\ e \in DOMAIN edge_table /\ Lagging(e) /\ FromRow(edge_table[e]) \in Metadata
             /\ FromRow(edge_table'[e]) = FromRow(edge_table[e])
             /\ TicksTouching(e)' = TicksTouching(e) /\ EnvsTouching(e)' = EnvsTouching(e)
  BY <1>3, RowsAreMetadata DEF TicksTouching, RowsTouching, EnvsTouching
<1>4. ASSUME UNCHANGED <<evidence, edge_table, crashes>>,
             koi.pc # "sync_edges", koi'.pc # "sync_edges"
      PROVE  Lagging(e)'
  BY <1>3, <1>4 DEF Lagging
<1>5. CASE Boot \/ BootNodes \/ BootEdges \/ BootMechanisms \/ BootTick
  <2>1. UNCHANGED <<evidence, edge_table, crashes>> /\ koi.pc # "sync_edges"
    BY <1>5 DEF Boot, BootNodes, BootEdges, BootMechanisms, BootTick, Goes, graphVars
  <2>2. koi'.pc # "sync_edges"
    BY <1>1, <1>5, BootSteps DEF Memory
  <2>3. QED
    BY <1>4, <2>1, <2>2
<1>6. CASE UNCHANGED <<koi, crashes, evidence, graphVars>>
  BY <1>3, <1>6 DEF Lagging, graphVars
<1>7. CASE SeedGraph
  <2>1. /\ edge_table' = [x \in Edges |-> ToRow(Untouched)] /\ UNCHANGED <<evidence, crashes>>
        /\ koi.pc = "seed" /\ koi'.pc = "nodes"
    BY <1>1, <1>7, BootSteps DEF SeedGraph, Seed, Goes, Memory
  <2>2. DOMAIN evidence = {}
    BY <2>1, MechanismsHaveEdges DEF Seeded
  <2>3. TicksTouching(e)' = {} /\ EnvsTouching(e)' = {}
    BY <2>1, <2>2 DEF TicksTouching, RowsTouching, EnvsTouching, EnvsOf
  <2>4. FromRow(edge_table'[e]) = Untouched
    BY <2>1, RowOfMetadata, UntouchedIsMetadata
  <2>5. Cardinality({}) = 0
    BY FS_EmptySet
  <2>6. QED
    BY <1>1, <2>1, <2>3, <2>4, <2>5 DEF Lagging, Untouched
<1>8. ASSUME NEW batch, NEW found, Gather \/ Solve(batch, found) \/ FlushMechanisms
      PROVE  Lagging(e)'
  <2>1. UNCHANGED <<evidence, edge_table, crashes>> /\ koi.pc # "sync_edges"
    BY <1>8 DEF Gather, Solve, FlushMechanisms, SyncMechanisms, Goes, graphVars
  <2>2. koi'.pc # "sync_edges"
    BY <1>1, <1>8, PassSteps DEF Memory
  <2>3. QED
    BY <1>4, <2>1, <2>2
<1>9. CASE PutEvidence
  <2>1. UNCHANGED <<edge_table, crashes>> /\ koi.pc = "put"
    BY <1>9 DEF PutEvidence, Goes, graphVars
  <2>2. koi'.pc = "sync_edges" /\ koi'.batch = koi.batch /\ koi'.tick = koi.tick
    BY <1>1, <1>9, PassSteps DEF Memory
  <2> DEFINE row == FromRow(edge_table[e])
  <2>3. e \in DOMAIN edge_table /\ Lagging(e) /\ row \in Metadata /\ row' = row
    BY <2>1, RowsAreMetadata
  <2> HIDE DEF row
  <2>4. /\ row.visit_count <= Cardinality(TicksTouching(e))
        /\ Cardinality(TicksTouching(e)) <= row.visit_count + crashes
        /\ row.last_touched_tick \in TicksTouching(e) \cup {0}
        /\ row.envs_seen \subseteq EnvsTouching(e)
        /\ crashes = 0 => row.envs_seen = EnvsTouching(e)
    BY <2>1, <2>3 DEF Lagging, row
  <2>5. CASE e \notin Touched(koi.batch)
    <3>1. TicksTouching(e)' = TicksTouching(e) /\ EnvsTouching(e)' = EnvsTouching(e)
      BY <1>9, <2>5, VisitsOnRecord
    <3>2. QED
      BY <2>1, <2>2, <2>3, <2>4, <2>5, <3>1 DEF Lagging, row
  <2>6. CASE e \in Touched(koi.batch)
    <3>1. /\ TicksTouching(e)' = TicksTouching(e) \cup {koi.tick}
          /\ koi.tick \notin TicksTouching(e)
          /\ EnvsTouching(e)' = EnvsTouching(e) \cup EnvsOf(DOMAIN koi.batch)
      BY <1>9, <2>6, VisitsOnRecord
    <3>2. Cardinality(TicksTouching(e) \cup {koi.tick}) = Cardinality(TicksTouching(e)) + 1
      BY <1>2, <3>1, FS_AddElement
    <3>3. row.visit_count \in Nat
      BY <2>3 DEF Metadata
    <3> DEFINE ticks == TicksTouching(e)
    <3> DEFINE envs == EnvsTouching(e)
    <3> HIDE DEF ticks, envs
    <3>4. /\ row.visit_count + 1 <= Cardinality(ticks') /\ Cardinality(ticks') <= row.visit_count + 1 + crashes
          /\ row.last_touched_tick \in ticks' \cup {0} /\ koi.tick \in ticks'
          /\ row.envs_seen \cup EnvsOf(DOMAIN koi.batch) \subseteq envs'
          /\ crashes = 0 => row.envs_seen \cup EnvsOf(DOMAIN koi.batch) = envs'
      BY <1>1, <1>2, <2>4, <3>1, <3>2, <3>3 DEF ticks, envs
    <3>5. QED
      BY <2>1, <2>2, <2>3, <2>6, <3>4 DEF Lagging, row, ticks, envs
  <2>7. QED
    BY <2>5, <2>6
<1>10. CASE SyncEdges
  <2>1. UNCHANGED <<evidence, crashes>> /\ koi.pc = "sync_edges" /\ SyncEdgeMetadata(koi.edges)
    BY <1>10 DEF SyncEdges, Goes
  <2>2. koi'.pc = "sync_mechanisms"
    BY <1>1, <1>10, PassSteps DEF Memory
  <2>3. koi.edges = Visit(LoadEdges, Touched(koi.batch), koi.batch, koi.tick)
    BY <2>1 DEF Remembered
  <2>4. DOMAIN koi.edges = DOMAIN edge_table
    BY <2>3 DEF Visit, LoadEdges
  <2>5. e \in DOMAIN edge_table /\ FromRow(edge_table'[e]) = koi.edges[e]
    BY <2>1, <2>4, SyncedEdges
  <2> DEFINE row == FromRow(edge_table[e])
  <2>6. Lagging(e) /\ row \in Metadata
    BY <2>5, RowsAreMetadata
  <2>7. koi.edges[e] = IF e \in Touched(koi.batch)
                       THEN [ visit_count       |-> row.visit_count + 1,
                              last_touched_tick |-> koi.tick,
                              envs_seen         |-> row.envs_seen \cup EnvsOf(DOMAIN koi.batch) ]
                       ELSE row
    BY <2>3, <2>5 DEF Visit, LoadEdges
  <2>8. TicksTouching(e)' = TicksTouching(e) /\ EnvsTouching(e)' = EnvsTouching(e)
    BY <2>1 DEF TicksTouching, RowsTouching, EnvsTouching
  <2>9. CASE e \in Touched(koi.batch)
    BY <2>1, <2>2, <2>5, <2>6, <2>7, <2>8, <2>9 DEF Lagging
  <2>10. CASE e \notin Touched(koi.batch)
    BY <2>1, <2>2, <2>5, <2>6, <2>7, <2>8, <2>10 DEF Lagging
  <2>11. QED
    BY <2>9, <2>10
<1>11. CASE Crash
  <2>1. UNCHANGED <<evidence, edge_table>> /\ crashes' = crashes + 1
    BY <1>11 DEF Crash, evidenceVars, graphVars
  <2>2. koi'.pc = "down"
    BY <1>1, <1>11, PassSteps DEF Memory
  <2> DEFINE row == FromRow(edge_table[e])
  <2>3. /\ row \in Metadata /\ FromRow(edge_table'[e]) = row /\ Lagging(e)
        /\ TicksTouching(e)' = TicksTouching(e) /\ EnvsTouching(e)' = EnvsTouching(e)
    BY <1>3, <2>1
  <2> HIDE DEF row
  <2>4. /\ row.visit_count <= Cardinality(TicksTouching(e))
        /\ Cardinality(TicksTouching(e)) <= row.visit_count + crashes + 1
        /\ row.last_touched_tick \in TicksTouching(e) \cup {0}
        /\ row.envs_seen \subseteq EnvsTouching(e)
    <3>1. row.visit_count \in Nat
      BY <2>3 DEF Metadata
    <3>2. QED
      BY <1>1, <1>2, <2>3, <3>1 DEF Lagging, row
  <2>5. crashes' # 0
    BY <1>1, <2>1
  <2>6. Cardinality(TicksTouching(e)) <= row.visit_count + crashes'
    <3>1. row.visit_count \in Nat
      BY <2>3 DEF Metadata
    <3>2. QED
      BY <1>1, <1>2, <2>1, <2>4, <3>1
  <2>7. QED
    BY <2>2, <2>3, <2>4, <2>5, <2>6 DEF Lagging
<1>12. QED
  BY <1>5, <1>6, <1>7, <1>8, <1>9, <1>10, <1>11, KoiStep

LEMMA FollowingStep ==
    ASSUME TypeInv, Seeded, Remembered, Following, \A e \in DOMAIN edge_table : Lagging(e),
           [Next]_vars
    PROVE  Following'
<1> USE DEF Passing
<1>1. KoiType /\ GraphType /\ DOMAIN mechanism_table \subseteq Mechanisms
      /\ DOMAIN koi.mechanisms \subseteq Mechanisms
  BY TableFields DEF TypeInv, GraphType, KoiType
<1>2. \A m \in Mechanisms : EdgesOf[m] \subseteq Edges
  BY MechanismsHaveEdges
<1>3. koi.pc \in {"mechanisms", "tick"} \cup Passing => DOMAIN edge_table = Edges
  BY MechanismsHaveEdges DEF Seeded
<1>4. \A e \in DOMAIN edge_table : LoadEdges[e].last_touched_tick = edge_table[e].last_touched_tick
  BY <1>1, TableFields, MetadataOfRow DEF GraphType, LoadEdges
<1>5. CASE UNCHANGED <<koi, crashes, evidence, graphVars>>
  BY <1>5 DEF Following, graphVars, Follows
<1>6. ASSUME UNCHANGED <<mechanism_table, edge_table>>, koi'.pc \notin {"tick"} \cup Passing
      PROVE  Following'
  BY <1>6 DEF Following, Follows
<1>7. ASSUME UNCHANGED <<mechanism_table, edge_table>>, koi.pc \in {"tick"} \cup Passing,
             koi'.mechanisms = koi.mechanisms, koi'.edges = koi.edges
      PROVE  Following'
  BY <1>7 DEF Following, Follows
<1>8. CASE Boot \/ BootNodes \/ BootEdges
  <2>1. UNCHANGED <<mechanism_table, edge_table>>
    BY <1>8 DEF Boot, BootNodes, BootEdges, graphVars
  <2>2. koi'.pc \notin {"tick"} \cup Passing
    BY <1>1, <1>8, BootSteps DEF Memory
  <2>3. QED
    BY <1>6, <2>1, <2>2
<1>9. CASE SeedGraph
  <2>1. koi.pc = "seed" /\ mechanism_table' = mechanism_table
    BY <1>9 DEF SeedGraph, Seed
  <2>2. DOMAIN mechanism_table = {}
    BY <2>1, MechanismsHaveEdges DEF Seeded
  <2>3. koi'.pc = "nodes"
    BY <1>1, <1>9, BootSteps DEF Memory
  <2>4. QED
    BY <2>1, <2>2, <2>3 DEF Following, Follows
<1>10. CASE BootMechanisms
  <2>1. UNCHANGED <<mechanism_table, edge_table>> /\ koi.pc = "mechanisms"
    BY <1>10 DEF BootMechanisms, graphVars
  <2>2. koi'.mechanisms = LoadMechanisms /\ koi'.edges = LoadEdges
    BY <1>1, <1>10, <2>1, BootSteps DEF Memory, Remembered
  <2>3. Follows(LoadMechanisms, LoadEdges)
    <3> SUFFICES ASSUME NEW m \in DOMAIN mechanism_table, EdgesOf[m] # {}
                 PROVE  \E e \in EdgesOf[m] :
                           LoadMechanisms[m].last_touched_tick <= LoadEdges[e].last_touched_tick
      BY DEF Follows, LoadMechanisms
    <3>1. PICK e \in EdgesOf[m] :
             mechanism_table[m].last_touched_tick <= edge_table[e].last_touched_tick
      BY DEF Following, Follows
    <3>2. LoadMechanisms[m].last_touched_tick = mechanism_table[m].last_touched_tick
      BY <1>1, TableFields, MetadataOfRow DEF GraphType, LoadMechanisms
    <3>3. e \in DOMAIN edge_table
      BY <1>1, <1>2, <1>3, <2>1
    <3>4. QED
      BY <1>4, <3>1, <3>2, <3>3
  <2>4. Follows(koi.mechanisms, koi.edges)'
    BY <2>2, <2>3 DEF Follows
  <2>5. QED
    BY <2>1, <2>4 DEF Following, Follows
<1>11. CASE BootTick \/ Gather \/ PutEvidence
  <2>1. UNCHANGED <<mechanism_table, edge_table>> /\ koi.pc \in {"tick"} \cup Passing
    BY <1>11 DEF BootTick, Gather, PutEvidence, graphVars
  <2>2. koi'.mechanisms = koi.mechanisms /\ koi'.edges = koi.edges
    BY <1>1, <1>11, BootSteps, PassSteps DEF Memory
  <2>3. QED
    BY <1>7, <2>1, <2>2
<1>12. ASSUME NEW ids \in SUBSET ({koi.tick} \X Items), NEW batch \in [ids -> Payloads],
              NEW found \in SUBSET Mechanisms, Solve(batch, found)
       PROVE  Following'
  <2>1. /\ UNCHANGED <<mechanism_table, edge_table>> /\ koi.pc = "solve"
        /\ \A m \in found : EdgesOf[m] \subseteq Touched(batch) /\ m \notin DOMAIN koi.mechanisms
    BY <1>12 DEF Solve, graphVars
  <2>2. koi'.mechanisms = Learned(batch, found) /\ koi'.edges = Visited(batch)
    BY <1>1, <1>12, PassSteps DEF Memory
  <2>3. DOMAIN koi.edges = Edges
    BY <1>3, <2>1 DEF Remembered, LoadEdges
  <2> DEFINE touched == Touched(batch)
  <2> DEFINE scoped == {m \in DOMAIN koi.mechanisms : EdgesOf[m] \cap touched # {}}
  <2>4. \A e \in Edges : /\ e \in touched => Visited(batch)[e].last_touched_tick = koi.tick
                         /\ e \notin touched => Visited(batch)[e] = koi.edges[e]
    BY <2>3 DEF Visited, Visit
  <2>5. /\ DOMAIN Learned(batch, found) = found \cup DOMAIN koi.mechanisms
        /\ \A m \in scoped \cup found : Learned(batch, found)[m].last_touched_tick = koi.tick
        /\ \A m \in DOMAIN koi.mechanisms \ (scoped \cup found) :
              Learned(batch, found)[m] = koi.mechanisms[m]
    BY DEF Learned, Visit, Over
  <2>6. ASSUME NEW m \in DOMAIN Learned(batch, found), EdgesOf[m] # {}
        PROVE  \E e \in EdgesOf[m] : Learned(batch, found)[m].last_touched_tick
                                         <= Visited(batch)[e].last_touched_tick
    <3>1. m \in Mechanisms /\ EdgesOf[m] \subseteq Edges /\ koi.tick \in Nat
      BY <1>1, <1>2, <2>5, EvidenceConstants DEF KoiType
    <3>2. CASE m \in scoped \cup found
      <4>1. PICK e \in EdgesOf[m] : e \in touched
        BY <2>1, <2>6, <3>2
      <4>2. QED
        BY <2>4, <2>5, <3>1, <3>2, <4>1
    <3>3. CASE m \in DOMAIN koi.mechanisms \ (scoped \cup found)
      <4>1. PICK e \in EdgesOf[m] :
               koi.mechanisms[m].last_touched_tick <= koi.edges[e].last_touched_tick
        BY <2>1, <2>6, <3>3 DEF Following, Follows
      <4>2. e \notin touched
        BY <3>3, <4>1
      <4>3. QED
        BY <2>4, <2>5, <3>1, <3>3, <4>1, <4>2
    <3>4. QED
      BY <2>5, <3>2, <3>3
  <2>7. Follows(koi.mechanisms, koi.edges)'
    BY <2>2, <2>6 DEF Follows
  <2>8. QED
    BY <2>1, <2>7 DEF Following, Follows
<1>13. CASE SyncEdges
  <2>1. /\ koi.pc = "sync_edges" /\ SyncEdgeMetadata(koi.edges)
        /\ UNCHANGED mechanism_table
    BY <1>13 DEF SyncEdges, SyncEdgeMetadata
  <2>2. koi'.mechanisms = koi.mechanisms /\ koi'.edges = koi.edges
    BY <1>1, <1>13, PassSteps DEF Memory
  <2>3. koi.edges = Visit(LoadEdges, Touched(koi.batch), koi.batch, koi.tick)
    BY <2>1 DEF Remembered
  <2>4. DOMAIN koi.edges = DOMAIN edge_table /\ DOMAIN edge_table = Edges
    BY <1>3, <2>1, <2>3 DEF Visit, LoadEdges
  <2>5. ASSUME NEW e \in Edges
        PROVE  /\ edge_table[e].last_touched_tick \in Nat /\ edge_table'[e].last_touched_tick \in Nat
               /\ edge_table[e].last_touched_tick <= edge_table'[e].last_touched_tick
    <3>1. FromRow(edge_table'[e]) = koi.edges[e]
      BY <2>1, <2>4, SyncedEdges
    <3>2. edge_table[e] \in Columns /\ edge_table'[e] \in Columns
      BY <1>1, <2>4, GraphTypeStep, SyncedEdges, <2>1, TableFields DEF GraphType
    <3>3. /\ edge_table'[e].last_touched_tick = koi.edges[e].last_touched_tick
          /\ FromRow(edge_table[e]).last_touched_tick = edge_table[e].last_touched_tick
      BY <3>1, <3>2, MetadataOfRow
    <3>4. edge_table[e].last_touched_tick \in Nat /\ edge_table'[e].last_touched_tick \in Nat
      BY <3>2 DEF Columns
    <3>5. koi.edges[e].last_touched_tick = IF e \in Touched(koi.batch) THEN koi.tick
                                           ELSE edge_table[e].last_touched_tick
      BY <1>4, <2>3, <2>4 DEF Visit, LoadEdges
    <3>6. edge_table[e].last_touched_tick <= koi.tick
      <4>1. edge_table[e].last_touched_tick \in TicksTouching(e) \cup {0}
        BY <2>4, <3>3 DEF Lagging
      <4>2. \A t \in TicksTouching(e) : t \in Nat /\ t <= koi.tick
        <5>1. \A id \in DOMAIN evidence : id[1] \in Nat
          BY LastTick, EvidenceConstants DEF TypeInv
        <5>2. QED
          BY <1>1, <2>1, <5>1 DEF KoiType, TicksTouching, RowsTouching
      <4>3. koi.tick \in Nat
        BY <1>1, EvidenceConstants DEF KoiType
      <4>4. QED
        BY <4>1, <4>2, <4>3
    <3>7. QED
      BY <3>3, <3>4, <3>5, <3>6
  <2>6. ASSUME NEW m \in DOMAIN mechanism_table, EdgesOf[m] # {}
        PROVE  \E e \in EdgesOf[m] :
                  mechanism_table[m].last_touched_tick <= edge_table'[e].last_touched_tick
    <3>1. PICK e \in EdgesOf[m] :
             mechanism_table[m].last_touched_tick <= edge_table[e].last_touched_tick
      BY <2>6 DEF Following, Follows
    <3>2. e \in Edges
      BY <1>1, <1>2
    <3>3. mechanism_table[m] \in Columns
      BY <1>1, TableFields DEF GraphType
    <3>4. mechanism_table[m].last_touched_tick \in Nat
      BY <3>3 DEF Columns
    <3>5. QED
      BY <2>5, <3>1, <3>2, <3>4
  <2>7. Follows(mechanism_table, edge_table)'
    BY <2>1, <2>6 DEF Follows
  <2>8. QED
    BY <2>1, <2>2, <2>7 DEF Following, Follows
<1>14. CASE FlushMechanisms
  <2>1. /\ koi.pc = "sync_mechanisms" /\ UNCHANGED edge_table
        /\ mechanism_table' = Over([m \in DOMAIN koi.mechanisms |-> ToRow(koi.mechanisms[m])],
                                   mechanism_table)
    BY <1>14 DEF FlushMechanisms, SyncMechanisms
  <2>2. koi'.mechanisms = koi.mechanisms /\ koi'.edges = koi.edges
    BY <1>1, <1>14, PassSteps DEF Memory
  <2>3. /\ DOMAIN mechanism_table' = DOMAIN koi.mechanisms \cup DOMAIN mechanism_table
        /\ \A m \in DOMAIN koi.mechanisms : mechanism_table'[m] = ToRow(koi.mechanisms[m])
        /\ \A m \in DOMAIN mechanism_table \ DOMAIN koi.mechanisms :
              mechanism_table'[m] = mechanism_table[m]
    BY <2>1 DEF Over
  <2>4. \A m \in DOMAIN koi.mechanisms :
           mechanism_table'[m].last_touched_tick = koi.mechanisms[m].last_touched_tick
    <3>1. ASSUME NEW m \in DOMAIN koi.mechanisms
          PROVE  ToRow(koi.mechanisms[m]).last_touched_tick = koi.mechanisms[m].last_touched_tick
      <4>1. koi.mechanisms[m] \in Metadata
        BY <1>1, TableFields DEF KoiType
      <4>2. /\ ToRow(koi.mechanisms[m]) \in Columns
            /\ FromRow(ToRow(koi.mechanisms[m])) = koi.mechanisms[m]
        BY <4>1, RowOfMetadata
      <4>3. QED
        BY <4>2, MetadataOfRow
    <3>2. QED
      BY <2>3, <3>1
  <2>5. ASSUME NEW m \in DOMAIN mechanism_table', EdgesOf[m] # {}
        PROVE  \E e \in EdgesOf[m] :
                  mechanism_table'[m].last_touched_tick <= edge_table[e].last_touched_tick
    <3>1. CASE m \in DOMAIN koi.mechanisms
      <4>1. PICK e \in EdgesOf[m] :
               koi.mechanisms[m].last_touched_tick <= koi.edges[e].last_touched_tick
        BY <2>1, <2>5, <3>1 DEF Following, Follows
      <4>2. e \in DOMAIN edge_table
        BY <1>1, <1>2, <1>3, <2>1, <3>1
      <4>3. koi.edges[e].last_touched_tick = edge_table[e].last_touched_tick
        BY <1>4, <2>1, <4>2 DEF Remembered
      <4>4. QED
        BY <2>4, <3>1, <4>1, <4>3
    <3>2. CASE m \in DOMAIN mechanism_table \ DOMAIN koi.mechanisms
      BY <2>3, <2>5, <3>2 DEF Following, Follows
    <3>3. QED
      BY <2>3, <3>1, <3>2
  <2>6. Follows(mechanism_table, edge_table)'
    BY <2>1, <2>5 DEF Follows
  <2>7. QED
    BY <2>1, <2>2, <2>6 DEF Following, Follows
<1>15. CASE Crash
  <2>1. UNCHANGED <<mechanism_table, edge_table>>
    BY <1>15 DEF Crash, graphVars
  <2>2. koi'.pc = "down"
    BY <1>1, <1>15, PassSteps DEF Memory
  <2>3. QED
    BY <1>6, <2>1, <2>2
<1>16. QED
  BY <1>5, <1>8, <1>9, <1>10, <1>11, <1>12, <1>13, <1>14, <1>15, KoiStep

\* A flat row's GPUs fill whole instances, up to a rest.
LEMMA WholeInstances ==
    ASSUME NEW pool, pool.per \in Nat, pool.total \in Nat
    PROVE  LET new == FromLegacy(pool)
           IN  /\ new.per \in Nat /\ new.instances \in Nat
               /\ new.per * new.instances <= pool.total /\ pool.total < new.per * (new.instances + 1)
<1> DEFINE per == Max({1, pool.per})
<1>1. per \in Nat /\ per >= 1
  <2>1. CASE pool.per >= 1
    BY <2>1 DEF Max
  <2>2. CASE ~(pool.per >= 1)
    BY <2>2 DEF Max
  <2>3. QED
    BY <2>1, <2>2
<1>2. FromLegacy(pool).per = per /\ FromLegacy(pool).instances = pool.total \div per
  BY DEF FromLegacy
<1> HIDE DEF per
<1>3. /\ pool.total \div per \in Nat
      /\ per * (pool.total \div per) <= pool.total /\ pool.total < per * ((pool.total \div per) + 1)
  BY <1>1
<1>4. QED
  BY <1>1, <1>2, <1>3

\* A reader gets a map, whatever is in the row.
LEMMA ReadersGetMaps ==
    ASSUME MapType
    PROVE  IsMap(GetMap.map) /\ IsMap(NothingRead.map)
<1>1. ASSUME NEW row, row.form \in {"tree", "flat", "none"},
             row.form = "tree" => row.body \in Maps,
             row.form = "flat" => row.body \in Legacy,
             row.form = "none" => row.body = <<>>
      PROVE  IsMap(BodyFromJson(row))
  <2> DEFINE map == BodyFromJson(row)
  <2>1. <<"reserved">> \in Seq(ToSet(<<"reserved">>))
    <3>1. <<"reserved">> \in Seq({"reserved"}) /\ ToSet(<<"reserved">>) = {"reserved"}
      BY DEF ToSet
    <3>2. QED
      BY <3>1
  <2>2. CASE row.form = "tree"
    <3>1. IsMap(row.body)
      BY <1>1, <2>2, MapsAreMaps
    <3>2. map.pools = row.body.pools /\ map.market \in {row.body.market, <<"reserved">>}
      BY <2>2 DEF BodyFromJson
    <3> HIDE DEF map
    <3>3. IsMap(map)
      BY <2>1, <3>1, <3>2 DEF IsMap
    <3>4. QED
      BY <3>3 DEF map
  <2>3. CASE row.form # "tree"
    <3>1. map.pools = [p \in DOMAIN row.body |-> FromLegacy(row.body[p])]
          /\ map.market = <<"reserved">>
      BY <2>3 DEF BodyFromJson
    <3>2. IsLegacy(row.body)
      <4>1. DOMAIN <<>> = {}
        BY EmptyTable
      <4>2. IsLegacy(<<>>)
        BY <4>1, FS_EmptySet DEF IsLegacy
      <4>3. QED
        BY <1>1, <2>3, <4>2, MapsAreMaps
    <3>3. ASSUME NEW p \in DOMAIN row.body
          PROVE  FromLegacy(row.body[p]).per \in Nat /\ FromLegacy(row.body[p]).instances \in Nat
      <4>1. row.body[p].per \in Nat /\ row.body[p].total \in Nat
        BY <3>2 DEF IsLegacy
      <4>2. QED
        BY <4>1, WholeInstances
    <3> HIDE DEF map
    <3>4. IsMap(map)
      BY <2>1, <3>1, <3>2, <3>3 DEF IsMap, IsLegacy
    <3>5. QED
      BY <3>4 DEF map
  <2>4. QED
    BY <2>2, <2>3
<1>2. IsMap(NothingRead.map)
  BY <1>1 DEF NothingRead, NoRow
<1>3. IsMap(BodyFromJson(resource_row))
  BY <1>1 DEF MapType, Forms, NoRow
<1>4. QED
  BY <1>2, <1>3 DEF GetMap

LEMMA GotStep ==
    ASSUME TypeInv, GotPublished, [Next]_vars
    PROVE  GotPublished'
<1>1. KoiType /\ MapType /\ published \in Seq(Forms)
  BY DEF TypeInv, MapType
<1>2. ASSUME UNCHANGED published, koi'.got = koi.got PROVE GotPublished'
  BY <1>2 DEF GotPublished, ReadsBack
<1>3. ASSUME koi'.got = NothingRead, published' = published PROVE GotPublished'
  <2>1. koi'.got.version = 0
    BY <1>3 DEF NothingRead
  <2>2. Len(published') \in Nat
    BY <1>1, <1>3
  <2>3. IsMap(koi.got.map)'
    BY <1>1, <1>3, ReadersGetMaps DEF NothingRead, NoRow
  <2>4. QED
    BY <2>1, <2>2, <2>3 DEF GotPublished, ReadsBack
<1>4. CASE Gather
  <2>1. koi'.got = GetMap /\ published' = published
    BY <1>1, <1>4, PassSteps DEF Gather, Goes, Memory, mapVars
  <2> DEFINE version == resource_row.version
  <2> DEFINE now == BodyFromJson(resource_row)
  <2>2. koi'.got.version = version /\ koi'.got.map = now /\ version = Len(published)
    BY <1>1, <2>1 DEF GetMap, MapType
  <2>3. Len(published) \in Nat
    BY <1>1
  <2>4. ASSUME version > 0
        PROVE  ReadsBack(koi.got)'
    <3> DEFINE row == published[version]
    <3>1. /\ row \in Forms /\ row.form = resource_row.form /\ row.body = resource_row.body
      BY <1>1, <2>2, <2>3, <2>4 DEF MapType
    <3>2. CASE row.form = "tree"
      <4>1. /\ now.pools = row.body.pools
            /\ row.body.market # <<>> => now.market = row.body.market
        BY <3>1, <3>2 DEF BodyFromJson
      <4>2. QED
        BY <2>1, <2>2, <3>2, <4>1 DEF ReadsBack
    <3>3. CASE row.form = "flat"
      <4>1. now.pools = [p \in DOMAIN row.body |-> FromLegacy(row.body[p])]
        BY <3>1, <3>3 DEF BodyFromJson
      <4>2. row.body \in Legacy
        BY <3>1, <3>3 DEF Forms
      <4>3. \A p \in DOMAIN row.body : row.body[p].per \in Nat /\ row.body[p].total \in Nat
        BY <4>2, MapsAreMaps DEF IsLegacy
      <4>4. ASSUME NEW p \in DOMAIN row.body
            PROVE  /\ now.pools[p].per * now.pools[p].instances <= row.body[p].total
                   /\ row.body[p].total < now.pools[p].per * (now.pools[p].instances + 1)
        <5>1. now.pools[p] = FromLegacy(row.body[p])
          BY <4>1
        <5>2. QED
          BY <4>3, <5>1, WholeInstances
      <4>5. DOMAIN now.pools = DOMAIN row.body
        BY <4>1
      <4> HIDE DEF now
      <4>6. QED
        BY <2>1, <2>2, <3>3, <4>4, <4>5 DEF ReadsBack
    <3>4. QED
      BY <3>1, <3>2, <3>3 DEF Forms
  <2>5. version = 0 => ReadsBack(koi.got)'
    BY <2>2 DEF ReadsBack
  <2>6. IsMap(koi.got.map)'
    BY <1>1, <2>1, ReadersGetMaps DEF GetMap
  <2>7. QED
    BY <2>1, <2>2, <2>3, <2>4, <2>5, <2>6 DEF GotPublished
<1>5. ASSUME NEW m \in Maps, Publish(m) PROVE GotPublished'
  <2>1. koi' = koi /\ published' = Append(published, [form |-> "tree", body |-> m])
    BY <1>5 DEF Publish, Replace
  <2>2. /\ Len(published') = Len(published) + 1 /\ Len(published) \in Nat
        /\ \A v \in 1..Len(published) : published'[v] = published[v]
    BY <1>1, <2>1
  <2>3. koi.got.version \in 0..Len(published')
    BY <2>2 DEF GotPublished
  <2>4. koi.got.version > 0 => published'[koi.got.version] = published[koi.got.version]
    BY <2>2 DEF GotPublished
  <2>5. QED
    BY <2>1, <2>3, <2>4 DEF GotPublished, ReadsBack
<1>6. CASE Boot \/ SeedGraph \/ BootNodes \/ BootEdges \/ BootMechanisms \/ BootTick
  <2>1. UNCHANGED published
    BY <1>6 DEF Boot, SeedGraph, BootNodes, BootEdges, BootMechanisms, BootTick, Goes, mapVars
  <2>2. QED
    BY <1>1, <1>2, <1>6, <2>1, BootSteps DEF Memory
<1>7. CASE PutEvidence \/ SyncEdges \/ FlushMechanisms
  <2>1. UNCHANGED published
    BY <1>7 DEF PutEvidence, SyncEdges, FlushMechanisms, Goes, mapVars
  <2>2. QED
    BY <1>1, <1>2, <1>7, <2>1, PassSteps DEF Memory
<1>8. ASSUME NEW batch, NEW found, Solve(batch, found) \/ Crash PROVE GotPublished'
  <2>1. UNCHANGED published
    BY <1>8 DEF Solve, Crash, Goes, mapVars
  <2>2. koi'.got = NothingRead
    BY <1>1, <1>8, PassSteps DEF Memory
  <2>3. QED
    BY <1>3, <2>1, <2>2
<1>9. CASE ReadRecent \/ UNCHANGED vars
  BY <1>2, <1>9 DEF ReadRecent, vars, mapVars
<1>10. QED
  BY <1>4, <1>5, <1>6, <1>7, <1>8, <1>9, StepsOf

\* The ticks that recent selects are those from the oldest of them on, and it
\* selects some when there are any.
LEMMA RecentIsUpwardClosed ==
    ASSUME TypeInv
    PROVE  /\ RecentTicks \subseteq TicksOf(evidence)
           /\ \A t \in RecentTicks, u \in TicksOf(evidence) : t <= u => u \in RecentTicks
           /\ evidence # <<>> => CurrentTick \in RecentTicks
<1>1. /\ TicksOf(evidence) \in SUBSET Nat /\ IsFiniteSet(TicksOf(evidence))
      /\ \A t \in TicksOf(evidence) : t <= CurrentTick
      /\ evidence # <<>> => CurrentTick \in TicksOf(evidence)
      /\ LastNTicks \in Nat \ {0}
  BY LastTick, EvidenceConstants DEF TypeInv
<1> DEFINE later(t) == {u \in TicksOf(evidence) : u > t}
<1>2. \A t : IsFiniteSet(later(t)) /\ Cardinality(later(t)) \in Nat
  <2>1. \A t : IsFiniteSet(later(t))
    BY <1>1, FS_Subset
  <2>2. QED
    BY <2>1, FS_CardinalityType
<1>3. ASSUME NEW t \in RecentTicks, NEW u \in TicksOf(evidence), t <= u
      PROVE  u \in RecentTicks
  <2>1. t \in Nat /\ u \in Nat /\ Cardinality(later(t)) < LastNTicks
    BY <1>1 DEF RecentTicks
  <2>2. later(u) \subseteq later(t)
    BY <1>1, <1>3, <2>1
  <2>3. Cardinality(later(u)) <= Cardinality(later(t))
    BY <1>2, <2>2, FS_Subset
  <2>4. Cardinality(later(t)) \in Nat /\ Cardinality(later(u)) \in Nat
    BY <1>2
  <2> HIDE DEF later
  <2>5. Cardinality(later(u)) < LastNTicks
    BY <1>1, <2>1, <2>3, <2>4
  <2>6. QED
    BY <2>5 DEF RecentTicks, later
<1>4. ASSUME evidence # <<>> PROVE CurrentTick \in RecentTicks
  <2>1. later(CurrentTick) = {}
    BY <1>1, <1>4
  <2>2. Cardinality(later(CurrentTick)) = 0
    BY <2>1, FS_EmptySet
  <2>3. QED
    BY <1>1, <1>4, <2>2 DEF RecentTicks
<1>5. QED
  BY <1>3, <1>4 DEF RecentTicks

LEMMA RecentIsOneMoment ==
    ASSUME TypeInv
    PROVE  IF RecentTicks = {} THEN RecentNow = <<>> ELSE RowsOf(RecentTicks) = RecentNow
<1>1. /\ RecentTicks \subseteq TicksOf(evidence)
      /\ \A t \in RecentTicks, u \in TicksOf(evidence) : t <= u => u \in RecentTicks
      /\ evidence # <<>> => CurrentTick \in RecentTicks
  BY RecentIsUpwardClosed
<1>2. /\ TicksOf(evidence) \in SUBSET Nat /\ IsFiniteSet(TicksOf(evidence))
      /\ \A t \in TicksOf(evidence) : t <= CurrentTick
      /\ \A id \in DOMAIN evidence : id[1] \in TicksOf(evidence)
  BY LastTick, EvidenceConstants DEF TypeInv
<1>3. CASE RecentTicks = {}
  BY <1>1, <1>3 DEF RecentNow
<1>4. CASE RecentTicks # {}
  <2>1. evidence # <<>>
    <3>1. evidence = <<>> => DOMAIN evidence = {}
      BY EmptyTable
    <3>2. QED
      BY <1>1, <1>4, <3>1 DEF TicksOf
  <2>2. RecentTicks \in SUBSET Nat /\ IsFiniteSet(RecentTicks)
    BY <1>1, <1>2, FS_Subset
  <2>3. \E t \in RecentTicks : \A u \in RecentTicks : t <= u
    BY <1>4, <2>2, LeastAndGreatest
  <2> DEFINE least == Min(RecentTicks)
  <2>4. least \in RecentTicks /\ \A u \in RecentTicks : least <= u
    BY <2>3 DEF Min
  <2> HIDE DEF least
  <2>5. \A id \in DOMAIN evidence :
           id[1] \in RecentTicks <=> least <= id[1] /\ id[1] <= CurrentTick
    BY <1>1, <1>2, <2>4
  <2>6. RecentNow = RowsInWindow(least, CurrentTick)
    BY <2>1 DEF RecentNow, least
  <2>7. QED
    BY <1>4, <2>5, <2>6 DEF RowsOf, RowsInWindow
<1>5. QED
  BY <1>3, <1>4

\* A pass put on record changes no answer about the ticks before it.
LEMMA PastIsKept ==
    ASSUME TypeInv, PutEvidence
    PROVE  /\ TicksOf(evidence) \subseteq TicksOf(evidence)'
           /\ \A ticks \in SUBSET TicksOf(evidence) : RowsOf(ticks)' = RowsOf(ticks)
           /\ \A first, last : last \in TicksOf(evidence) \cup {0} =>
                 RowsInWindow(first, last)' = RowsInWindow(first, last)
<1>1. /\ evidence' = Over(koi.batch, evidence)
      /\ \A id \in DOMAIN koi.batch : id[1] = koi.tick
      /\ \A id \in DOMAIN evidence : id[1] < koi.tick
      /\ koi.tick \in Nat /\ koi.tick > 0
  BY EvidenceConstants DEF PutEvidence, PutMany, TypeInv, KoiType, Passing
<1>2. \A id \in DOMAIN evidence : id[1] \in Nat
  BY LastTick, EvidenceConstants DEF TypeInv
<1>3. /\ \A id \in DOMAIN evidence : id \notin DOMAIN koi.batch
      /\ \A t \in TicksOf(evidence) : t \in Nat /\ t < koi.tick
  BY <1>1, <1>2 DEF TicksOf
<1>4. /\ DOMAIN evidence' = DOMAIN koi.batch \cup DOMAIN evidence
      /\ \A id \in DOMAIN evidence : evidence'[id] = evidence[id]
  BY <1>1, <1>3 DEF Over
<1>5. ASSUME NEW ticks \in SUBSET TicksOf(evidence)
      PROVE  RowsOf(ticks)' = RowsOf(ticks)
  <2>1. \A id \in DOMAIN koi.batch : id[1] \notin ticks
    BY <1>1, <1>3
  <2>2. {id \in DOMAIN evidence' : id[1] \in ticks} = {id \in DOMAIN evidence : id[1] \in ticks}
    BY <1>4, <2>1
  <2>3. QED
    BY <1>4, <2>2 DEF RowsOf
<1>6. ASSUME NEW first, NEW last, last \in TicksOf(evidence) \cup {0}
      PROVE  RowsInWindow(first, last)' = RowsInWindow(first, last)
  <2>1. \A id \in DOMAIN koi.batch : ~(id[1] <= last)
    BY <1>1, <1>3, <1>6
  <2>2. {id \in DOMAIN evidence' : first <= id[1] /\ id[1] <= last}
          = {id \in DOMAIN evidence : first <= id[1] /\ id[1] <= last}
    BY <1>4, <2>1
  <2>3. QED
    BY <1>4, <2>2 DEF RowsInWindow
<1>7. TicksOf(evidence) \subseteq TicksOf(evidence)'
  BY <1>4 DEF TicksOf
<1>8. QED
  BY <1>5, <1>6, <1>7

LEMMA ReadingStep == ASSUME TypeInv, Reading, [Next]_vars PROVE Reading'
<1>1. EvidenceType /\ MaxTick \in Nat /\ Window \in Nat
  BY EvidenceConstants DEF TypeInv
<1>2. CASE UNCHANGED <<reader, moments, evidence>>
  BY <1>2 DEF Reading, ReadsAreMoments, TicksOf, RowsOf, RowsInWindow
<1>3. CASE SelectTicks
  <2>1. /\ reader' = [ call   |-> "recent",
                       pc     |-> IF RecentTicks = {} THEN "done" ELSE "rows",
                       ticks  |-> RecentTicks,
                       answer |-> <<>> ]
        /\ moments' = {RecentNow} /\ evidence' = evidence
    BY <1>3 DEF SelectTicks
  <2>2. RecentTicks \subseteq TicksOf(evidence)
    BY RecentIsUpwardClosed
  <2>3. CASE RecentTicks = {}
    <3>1. <<>> \in moments'
      BY <2>1, <2>3, RecentIsOneMoment
    <3>2. QED
      BY <2>1, <2>3, <3>1 DEF Reading, ReadsAreMoments
  <2>4. CASE RecentTicks # {}
    <3>1. RowsOf(RecentTicks) \in moments'
      BY <2>1, <2>4, RecentIsOneMoment
    <3>2. reader'.pc = "rows" /\ reader'.call = "recent" /\ reader'.ticks = RecentTicks
      BY <2>1, <2>4
    <3>3. RowsOf(RecentTicks) = RowsOf(reader.ticks)' /\ TicksOf(evidence)' = TicksOf(evidence)
      BY <2>1, <3>2 DEF RowsOf, TicksOf
    <3>4. QED
      BY <2>2, <3>1, <3>2, <3>3 DEF Reading, ReadsAreMoments
  <2>5. QED
    BY <2>3, <2>4
<1>4. CASE SelectRows
  <2>1. /\ reader'.pc = "done" /\ reader'.answer = RowsOf(reader.ticks) /\ moments' = moments
        /\ reader.pc = "rows" /\ reader.call = "recent"
    BY <1>1, <1>4 DEF SelectRows, EvidenceType
  <2>2. QED
    BY <2>1 DEF Reading, ReadsAreMoments
<1>5. CASE ReadCurrentTick
  <2> DEFINE upper == CurrentTick
  <2>1. /\ reader'.call = "recently_decided" /\ reader'.pc = "rows"
        /\ reader'.ticks = WindowStart(upper)..upper
        /\ moments' = {RowsInWindow(WindowStart(upper), upper)} /\ evidence' = evidence
    BY <1>5 DEF ReadCurrentTick, DecidedNow
  <2>2. upper \in 0..MaxTick /\ upper \in TicksOf(evidence) \cup {0}
    BY <1>1, LastTick DEF CurrentTick
  <2>3. TicksOf(evidence)' = TicksOf(evidence)
    BY <2>1 DEF TicksOf
  <2>4. \A a, b : RowsInWindow(a, b)' = RowsInWindow(a, b)
    BY <2>1 DEF RowsInWindow
  <2> HIDE DEF upper
  <2>5. QED
    BY <2>1, <2>2, <2>3, <2>4 DEF Reading, ReadsAreMoments
<1>6. CASE ReadWindow
  <2>1. /\ reader'.pc = "done" /\ moments' = moments
        /\ reader'.answer = RowsInWindow(Min(reader.ticks), Max(reader.ticks))
        /\ reader.pc = "rows" /\ reader.call = "recently_decided"
    BY <1>1, <1>6 DEF ReadWindow, EvidenceType
  <2>2. PICK upper \in 0..MaxTick :
           /\ reader.ticks = WindowStart(upper)..upper
           /\ RowsInWindow(WindowStart(upper), upper) \in moments
    BY <2>1 DEF Reading
  <2>3. WindowStart(upper) \in Nat /\ upper \in Nat /\ WindowStart(upper) <= upper
    BY <1>1 DEF WindowStart
  <2>4. Min(reader.ticks) = WindowStart(upper) /\ Max(reader.ticks) = upper
    BY <2>2, <2>3 DEF Min, Max
  <2>5. QED
    BY <2>1, <2>2, <2>4 DEF Reading, ReadsAreMoments
<1>7. CASE ReadDone
  BY <1>7 DEF ReadDone, NoRead, Reading, ReadsAreMoments
<1>8. CASE PutEvidence /\ Witness /\ reader' = reader
  <2>1. moments \subseteq moments'
    BY <1>8 DEF Witness
  <2>2. TicksOf(evidence) \subseteq TicksOf(evidence)'
    BY <1>8, PastIsKept
  <2>3. ASSUME reader.pc = "rows", reader.call = "recent"
        PROVE  reader.ticks \subseteq TicksOf(evidence)' /\ RowsOf(reader.ticks)' \in moments'
    <3>1. reader.ticks \subseteq TicksOf(evidence) /\ RowsOf(reader.ticks) \in moments
      BY <2>3 DEF Reading
    <3>2. RowsOf(reader.ticks)' = RowsOf(reader.ticks)
      <4>1. \A ticks \in SUBSET TicksOf(evidence) : RowsOf(ticks)' = RowsOf(ticks)
        BY <1>8, PastIsKept
      <4> DEFINE past(ticks) ==
                   [id \in {i \in DOMAIN evidence' : i[1] \in ticks} |-> evidence'[id]]
      <4>2. \A ticks \in SUBSET TicksOf(evidence) : past(ticks) = RowsOf(ticks)
        BY <4>1 DEF RowsOf
      <4>3. RowsOf(reader.ticks)' = past(reader.ticks)
        BY <1>8 DEF RowsOf
      <4>4. QED
        BY <3>1, <4>2, <4>3
    <3>3. QED
      BY <2>1, <2>2, <3>1, <3>2
  <2>4. ASSUME reader.pc = "rows", reader.call = "recently_decided"
        PROVE  \E upper \in 0..MaxTick :
                    /\ upper \in TicksOf(evidence)' \cup {0}
                    /\ reader.ticks = WindowStart(upper)..upper
                    /\ RowsInWindow(WindowStart(upper), upper)' \in moments'
    <3>1. PICK upper \in 0..MaxTick :
             /\ upper \in TicksOf(evidence) \cup {0}
             /\ reader.ticks = WindowStart(upper)..upper
             /\ RowsInWindow(WindowStart(upper), upper) \in moments
      BY <2>4 DEF Reading
    <3>2. RowsInWindow(WindowStart(upper), upper)' = RowsInWindow(WindowStart(upper), upper)
      BY <1>8, <3>1, PastIsKept
    <3>3. QED
      BY <2>1, <2>2, <3>1, <3>2
  <2>5. reader.pc = "done" => moments' = moments
    BY <1>8 DEF Witness
  <2>6. ReadsAreMoments'
    BY <1>8, <2>5 DEF Reading, ReadsAreMoments
  <2>7. QED
    BY <1>8, <2>3, <2>4, <2>6 DEF Reading
<1>9. QED
  BY <1>2, <1>3, <1>4, <1>5, <1>6, <1>7, <1>8, ReaderStep

-----------------------------------------------------------------------------
(* The capacity summary *)

\* CountUpTo is what its equation says it is.
LEMMA CountRecursion ==
    ASSUME NEW turns, Len(turns) \in Nat
    PROVE  /\ CountUpTo(turns)[0] = <<>>
           /\ \A t \in 1..Len(turns) :
                 CountUpTo(turns)[t] = Count(CountUpTo(turns)[t - 1], turns[t])
<1> DEFINE Counts(f, n) ==
               f = [t \in 0..n |-> IF t = 0 THEN <<>> ELSE Count(f[t - 1], turns[t])]
           failed == {n \in 0..Len(turns) : ~(\E f : Counts(f, n))}
<1>1. failed = {}
  <2> SUFFICES ASSUME failed # {} PROVE FALSE
    OBVIOUS
  <2>1. PICK n \in failed : \A k \in failed : n <= k
    <3>1. failed \in SUBSET Nat
      OBVIOUS
    <3> HIDE DEF failed
    <3>2. QED
      BY <3>1, LeastOf
  <2>2. n \in Nat /\ n <= Len(turns) /\ ~(\E f : Counts(f, n))
    OBVIOUS
  <2>3. n # 0
    <3> DEFINE f == [t \in 0..0 |-> <<>>]
    <3>1. Counts(f, 0)
      <4>1. [t \in 0..0 |-> IF t = 0 THEN <<>> ELSE Count(f[t - 1], turns[t])] = f
        OBVIOUS
      <4>2. QED
        BY <4>1
    <3> HIDE DEF f, Counts
    <3>2. QED
      BY <2>2, <3>1
  <2>4. PICK f : Counts(f, n - 1)
    <3>1. n - 1 \in 0..Len(turns) /\ ~(n <= n - 1)
      BY <2>2, <2>3
    <3>2. n - 1 \notin failed
      BY <2>1, <3>1
    <3> HIDE DEF Counts
    <3>3. QED
      BY <3>1, <3>2
  <2> DEFINE g == [t \in 0..n |-> IF t = n THEN Count(f[n - 1], turns[n]) ELSE f[t]]
  <2>5. \A t \in 0..(n - 1) : g[t] = f[t]
    BY <2>2, <2>3
  <2>6. ASSUME NEW t \in 0..n
        PROVE  g[t] = IF t = 0 THEN <<>> ELSE Count(g[t - 1], turns[t])
    <3>1. CASE t = n
      <4>1. g[t] = Count(f[n - 1], turns[n]) /\ g[n - 1] = f[n - 1]
        BY <2>2, <2>3, <2>5, <3>1
      <4>2. QED
        BY <2>3, <3>1, <4>1
    <3>2. CASE t # n
      <4>1. t \in 0..(n - 1) /\ g[t] = f[t] /\ (t # 0 => t - 1 \in 0..(n - 1))
        BY <2>2, <2>5, <3>2
      <4>2. f[t] = IF t = 0 THEN <<>> ELSE Count(f[t - 1], turns[t])
        BY <2>4, <4>1
      <4> HIDE DEF g
      <4>3. QED
        BY <2>5, <4>1, <4>2
    <3>3. QED
      BY <3>1, <3>2
  <2>7. g = [t \in 0..n |-> g[t]]
    OBVIOUS
  <2> HIDE DEF g
  <2>8. g = [t \in 0..n |-> IF t = 0 THEN <<>> ELSE Count(g[t - 1], turns[t])]
    BY <2>6, <2>7
  <2>9. QED
    BY <2>2, <2>8
<1>2. PICK f : Counts(f, Len(turns))
  <2>1. Len(turns) \in 0..Len(turns) /\ Len(turns) \notin failed
    BY <1>1
  <2> HIDE DEF Counts
  <2>2. QED
    BY <2>1
<1>3. CountUpTo(turns)
        = [t \in 0..Len(turns) |->
              IF t = 0 THEN <<>> ELSE Count(CountUpTo(turns)[t - 1], turns[t])]
  BY <1>2 DEF CountUpTo
<1>4. /\ 0 \in 0..Len(turns)
      /\ \A t \in 1..Len(turns) : t \in 0..Len(turns) /\ t # 0
  OBVIOUS
<1> HIDE DEF Counts, failed
<1> DEFINE after == CountUpTo(turns)
<1> HIDE DEF after
<1>5. after = [t \in 0..Len(turns) |-> IF t = 0 THEN <<>> ELSE Count(after[t - 1], turns[t])]
  BY <1>3 DEF after
<1>6. QED
  BY <1>4, <1>5 DEF after

\* The units that the first t turns under a key bring.
Brought(turns, key, size, t) ==
    UNION {{u} \X (1..size[u]) : u \in {v \in 1..t : turns[v].key = key}}

LEMMA BroughtByTurn ==
    ASSUME NEW turns, NEW key, NEW size, NEW t \in Nat \ {0},
           IsFiniteSet(Brought(turns, key, size, t - 1)), size[t] \in Nat
    PROVE  LET before == Brought(turns, key, size, t - 1)
               now == Brought(turns, key, size, t)
           IN  /\ turns[t].key # key => now = before
               /\ turns[t].key = key =>
                     IsFiniteSet(now) /\ Cardinality(now) = Cardinality(before) + size[t]
<1> DEFINE before == Brought(turns, key, size, t - 1)
           now == Brought(turns, key, size, t)
           new == {t} \X (1..size[t])
           earlier == {v \in 1..(t - 1) : turns[v].key = key}
           all == {v \in 1..t : turns[v].key = key}
<1>1. all = IF turns[t].key = key THEN earlier \cup {t} ELSE earlier
  OBVIOUS
<1>2. now = IF turns[t].key = key THEN before \cup new ELSE before
  <2>1. before = UNION {{u} \X (1..size[u]) : u \in earlier}
    BY DEF Brought
  <2>2. now = UNION {{u} \X (1..size[u]) : u \in all}
    BY DEF Brought
  <2> HIDE DEF earlier, all, before, now
  <2>3. CASE turns[t].key = key
    BY <1>1, <2>1, <2>2, <2>3
  <2>4. CASE turns[t].key # key
    BY <1>1, <2>1, <2>2, <2>4
  <2>5. QED
    BY <2>3, <2>4
<1>3. before \cap new = {}
  BY DEF Brought
<1>4. IsFiniteSet(new) /\ Cardinality(new) = size[t]
  <2>1. IsFiniteSet({t}) /\ Cardinality({t}) = 1
    BY FS_Singleton
  <2>2. IsFiniteSet(1..size[t]) /\ Cardinality(1..size[t]) = size[t]
    <3>1. PICK n \in Nat : n = size[t]
      OBVIOUS
    <3>2. /\ IsFiniteSet(1..n)
          /\ Cardinality(1..n) = IF 1 > n THEN 0 ELSE n - 1 + 1
      <4>1. 1 \in Int /\ n \in Int
        OBVIOUS
      <4>2. QED
        BY <4>1, FS_Interval
    <3>3. QED
      BY <3>1, <3>2
  <2>3. IsFiniteSet(new) /\ Cardinality(new) = Cardinality({t}) * Cardinality(1..size[t])
    BY <2>1, <2>2, FS_Product
  <2>4. QED
    BY <2>1, <2>2, <2>3
<1> HIDE DEF new, now, before
<1>5. IsFiniteSet(before)
  BY DEF before
<1>6. /\ IsFiniteSet(before \cup new)
      /\ Cardinality(before \cup new)
           = Cardinality(before) + Cardinality(new) - Cardinality(before \cap new)
  BY <1>4, <1>5, FS_Union
<1>7. Cardinality(before \cap new) = 0
  BY <1>3, FS_EmptySet
<1>8. Cardinality(before) \in Nat
  BY <1>5, FS_CardinalityType
<1>9. turns[t].key = key => IsFiniteSet(now) /\ Cardinality(now) = Cardinality(before) + size[t]
  BY <1>2, <1>4, <1>6, <1>7, <1>8
<1>10. QED
  BY <1>2, <1>9 DEF now, before

\* How much each turn brings, of GPUs, of machines and of pools.
GpusOf(turns) == [t \in 1..Len(turns) |-> turns[t].detail.total]
MachinesOf(turns) == [t \in 1..Len(turns) |-> turns[t].detail.total_instances]
OnesOf(turns) == [t \in 1..Len(turns) |-> 1]

\* The summary after t turns counts what they brought.
Counted(turns, t) ==
    LET summary == CountUpTo(turns)[t]
    IN  /\ DOMAIN summary = {turns[u].key : u \in 1..t}
        /\ \A key \in DOMAIN summary :
              /\ IsFiniteSet(Brought(turns, key, GpusOf(turns), t))
              /\ IsFiniteSet(Brought(turns, key, MachinesOf(turns), t))
              /\ IsFiniteSet(Brought(turns, key, OnesOf(turns), t))
              /\ summary[key].total = Cardinality(Brought(turns, key, GpusOf(turns), t))
              /\ summary[key].total_instances
                    = Cardinality(Brought(turns, key, MachinesOf(turns), t))
              /\ summary[key].pools \in Seq({turns[u].detail : u \in 1..Len(turns)})
              /\ Len(summary[key].pools) = Cardinality(Brought(turns, key, OnesOf(turns), t))

\* Nothing is brought under a key no turn has had.
LEMMA NothingBrought ==
    ASSUME NEW turns, NEW key, NEW size, NEW t \in Nat, key \notin {turns[u].key : u \in 1..t}
    PROVE  /\ Brought(turns, key, size, t) = {}
           /\ IsFiniteSet(Brought(turns, key, size, t))
           /\ Cardinality(Brought(turns, key, size, t)) = 0
<1>1. {v \in 1..t : turns[v].key = key} = {}
  OBVIOUS
<1>2. Brought(turns, key, size, t) = {}
  BY <1>1 DEF Brought
<1>3. QED
  BY <1>2, FS_EmptySet

LEMMA CountedAfter ==
    ASSUME NEW turns, NEW t \in 1..Len(turns), Len(turns) \in Nat,
           turns[t].detail.total \in Nat, turns[t].detail.total_instances \in Nat,
           Counted(turns, t - 1)
    PROVE  Counted(turns, t)
<1> DEFINE before == CountUpTo(turns)[t - 1]
           summary == CountUpTo(turns)[t]
           turn == turns[t]
           details == {turns[u].detail : u \in 1..Len(turns)}
<1>1. summary = Count(before, turn)
  BY CountRecursion
<1>2. /\ DOMAIN before = {turns[u].key : u \in 1..(t - 1)}
      /\ t \in Nat \ {0} /\ t - 1 \in Nat /\ turn.detail \in details
  BY DEF Counted
<1>3. DOMAIN summary = DOMAIN before \cup {turn.key}
  BY <1>1 DEF Count
<1>4. DOMAIN summary = {turns[u].key : u \in 1..t}
  <2>1. 1..t = (1..(t - 1)) \cup {t}
    BY <1>2
  <2> HIDE DEF summary, before
  <2>2. QED
    BY <1>2, <1>3, <2>1
<1>5. /\ GpusOf(turns)[t] = turn.detail.total /\ GpusOf(turns)[t] \in Nat
      /\ MachinesOf(turns)[t] = turn.detail.total_instances /\ MachinesOf(turns)[t] \in Nat
      /\ OnesOf(turns)[t] = 1
  BY DEF GpusOf, MachinesOf, OnesOf
<1>6. ASSUME NEW key
      PROVE  /\ IsFiniteSet(Brought(turns, key, GpusOf(turns), t - 1))
             /\ IsFiniteSet(Brought(turns, key, MachinesOf(turns), t - 1))
             /\ IsFiniteSet(Brought(turns, key, OnesOf(turns), t - 1))
             /\ Cardinality(Brought(turns, key, GpusOf(turns), t - 1)) \in Nat
             /\ Cardinality(Brought(turns, key, MachinesOf(turns), t - 1)) \in Nat
             /\ Cardinality(Brought(turns, key, OnesOf(turns), t - 1)) \in Nat
  <2>1. /\ IsFiniteSet(Brought(turns, key, GpusOf(turns), t - 1))
        /\ IsFiniteSet(Brought(turns, key, MachinesOf(turns), t - 1))
        /\ IsFiniteSet(Brought(turns, key, OnesOf(turns), t - 1))
    <3>1. CASE key \in DOMAIN before
      BY <3>1 DEF Counted
    <3>2. CASE key \notin DOMAIN before
      BY <1>2, <3>2, NothingBrought
    <3>3. QED
      BY <3>1, <3>2
  <2>2. QED
    BY <2>1, FS_CardinalityType
<1>7. ASSUME NEW key \in DOMAIN before
      PROVE  /\ before[key].total = Cardinality(Brought(turns, key, GpusOf(turns), t - 1))
             /\ before[key].total_instances
                   = Cardinality(Brought(turns, key, MachinesOf(turns), t - 1))
             /\ before[key].pools \in Seq(details)
             /\ Len(before[key].pools) = Cardinality(Brought(turns, key, OnesOf(turns), t - 1))
  BY DEF Counted
<1> DEFINE gpus == GpusOf(turns)
           machines == MachinesOf(turns)
           ones == OnesOf(turns)
<1> HIDE DEF summary, before, details, gpus, machines, ones
<1>8. ASSUME NEW key \in DOMAIN summary
      PROVE  /\ IsFiniteSet(Brought(turns, key, gpus, t))
             /\ IsFiniteSet(Brought(turns, key, machines, t))
             /\ IsFiniteSet(Brought(turns, key, ones, t))
             /\ summary[key].total = Cardinality(Brought(turns, key, gpus, t))
             /\ summary[key].total_instances = Cardinality(Brought(turns, key, machines, t))
             /\ summary[key].pools \in Seq(details)
             /\ Len(summary[key].pools) = Cardinality(Brought(turns, key, ones, t))
  <2>1. CASE key # turn.key
    <3>1. key \in DOMAIN before /\ summary[key] = before[key]
      BY <1>1, <1>3, <2>1 DEF Count
    <3>2. /\ Brought(turns, key, gpus, t) = Brought(turns, key, gpus, t - 1)
          /\ Brought(turns, key, machines, t) = Brought(turns, key, machines, t - 1)
          /\ Brought(turns, key, ones, t) = Brought(turns, key, ones, t - 1)
      BY <1>2, <1>5, <1>6, <2>1, BroughtByTurn DEF gpus, machines, ones
    <3>3. QED
      BY <1>6, <1>7, <3>1, <3>2 DEF gpus, machines, ones
  <2>2. CASE key = turn.key
    <3>1. /\ IsFiniteSet(Brought(turns, key, gpus, t))
          /\ Cardinality(Brought(turns, key, gpus, t))
               = Cardinality(Brought(turns, key, gpus, t - 1)) + gpus[t]
      BY <1>2, <1>5, <1>6, <2>2, BroughtByTurn DEF gpus
    <3>2. /\ IsFiniteSet(Brought(turns, key, machines, t))
          /\ Cardinality(Brought(turns, key, machines, t))
               = Cardinality(Brought(turns, key, machines, t - 1)) + machines[t]
      BY <1>2, <1>5, <1>6, <2>2, BroughtByTurn DEF machines
    <3>3. /\ IsFiniteSet(Brought(turns, key, ones, t))
          /\ Cardinality(Brought(turns, key, ones, t))
               = Cardinality(Brought(turns, key, ones, t - 1)) + ones[t]
      BY <1>2, <1>5, <1>6, <2>2, BroughtByTurn DEF ones
    <3>4. CASE key \in DOMAIN before
      <4>1. summary[key] = AddPool(before[key], turn.detail)
        BY <1>1, <2>2, <3>4 DEF Count
      <4>2. /\ summary[key].total = before[key].total + turn.detail.total
            /\ summary[key].total_instances
                 = before[key].total_instances + turn.detail.total_instances
            /\ summary[key].pools = Append(before[key].pools, turn.detail)
        BY <4>1 DEF AddPool
      <4>3. /\ summary[key].pools \in Seq(details)
            /\ Len(summary[key].pools) = Len(before[key].pools) + 1
        BY <1>2, <1>7, <3>4, <4>2
      <4>4. QED
        BY <1>5, <1>7, <3>1, <3>2, <3>3, <3>4, <4>2, <4>3 DEF gpus, machines, ones
    <3>5. CASE key \notin DOMAIN before
      <4>1. summary[key] = NewEntry(turn.detail)
        BY <1>1, <2>2, <3>5 DEF Count
      <4>2. /\ summary[key].total = turn.detail.total
            /\ summary[key].total_instances = turn.detail.total_instances
            /\ summary[key].pools = <<turn.detail>>
        BY <4>1 DEF NewEntry
      <4>3. summary[key].pools \in Seq(details) /\ Len(summary[key].pools) = 1
        BY <1>2, <4>2
      <4>4. /\ Cardinality(Brought(turns, key, gpus, t - 1)) = 0
            /\ Cardinality(Brought(turns, key, machines, t - 1)) = 0
            /\ Cardinality(Brought(turns, key, ones, t - 1)) = 0
        BY <1>2, <3>5, NothingBrought
      <4>5. QED
        BY <1>5, <3>1, <3>2, <3>3, <4>2, <4>3, <4>4 DEF gpus, machines, ones
    <3>6. QED
      BY <3>4, <3>5
  <2>3. QED
    BY <2>1, <2>2
<1>9. QED
  BY <1>4, <1>8 DEF Counted, summary, details, gpus, machines, ones

LEMMA EveryTurnCounts ==
    ASSUME NEW turns, Len(turns) \in Nat,
           \A t \in 1..Len(turns) :
              turns[t].detail.total \in Nat /\ turns[t].detail.total_instances \in Nat
    PROVE  Counted(turns, Len(turns))
<1> DEFINE failed == {t \in 0..Len(turns) : ~Counted(turns, t)}
<1>1. Counted(turns, 0)
  <2>1. CountUpTo(turns)[0] = <<>> /\ DOMAIN <<>> = {} /\ 1..0 = {}
    BY CountRecursion, EmptyTable
  <2>2. QED
    BY <2>1 DEF Counted
<1>2. failed = {}
  <2> SUFFICES ASSUME failed # {} PROVE FALSE
    OBVIOUS
  <2>1. failed \in SUBSET Nat
    OBVIOUS
  <2>2. PICK t \in failed : \A k \in failed : t <= k
    BY <2>1, LeastOf
  <2>3. t \in 1..Len(turns) /\ ~Counted(turns, t)
    BY <1>1
  <2>4. Counted(turns, t - 1)
    <3>1. t - 1 \in 0..Len(turns) /\ ~(t <= t - 1)
      BY <2>3
    <3>2. QED
      BY <2>2, <3>1
  <2>5. QED
    BY <2>3, <2>4, CountedAfter
<1>3. QED
  BY <1>2

\* The turns of the nested loops, by pool and market.
TurnOf(width, i, k) == (i - 1) * width + k

Loops(n, width) ==
    /\ n * width \in Nat
    /\ \A i \in 1..n, k \in 1..width :
          /\ TurnOf(width, i, k) \in 1..n * width
          /\ ((TurnOf(width, i, k) - 1) \div width) + 1 = i
          /\ ((TurnOf(width, i, k) - 1) % width) + 1 = k
    /\ \A t \in 1..n * width :
          /\ ((t - 1) \div width) + 1 \in 1..n /\ ((t - 1) % width) + 1 \in 1..width
          /\ t = TurnOf(width, ((t - 1) \div width) + 1, ((t - 1) % width) + 1)

LEMMA TurnsOfLoops == ASSUME NEW n \in Nat, NEW width \in Nat PROVE Loops(n, width)
<1>1. n * width \in Nat
  OBVIOUS
<1>2. ASSUME NEW i \in 1..n, NEW k \in 1..width
      PROVE  /\ TurnOf(width, i, k) \in 1..n * width
             /\ ((TurnOf(width, i, k) - 1) \div width) + 1 = i
             /\ ((TurnOf(width, i, k) - 1) % width) + 1 = k
  <2> DEFINE q == i - 1
             r == k - 1
  <2>1. q \in Nat /\ r \in Nat /\ r < width /\ q + 1 <= n /\ i = q + 1 /\ k = r + 1 /\ width > 0
    OBVIOUS
  <2> HIDE DEF q, r
  <2>2. q * width \in Nat
    BY <2>1
  <2>3. (q + 1) * width <= n * width
    BY <2>1
  <2>4. (q + 1) * width = q * width + width
    BY <2>1
  <2>5. TurnOf(width, i, k) = q * width + r + 1
    BY <2>1, <2>2 DEF TurnOf
  <2>6. TurnOf(width, i, k) \in 1..n * width
    BY <1>1, <2>1, <2>2, <2>3, <2>4, <2>5
  <2>7. (q * width + r) \div width = q /\ (q * width + r) % width = r
    BY <2>1, <2>2
  <2>8. TurnOf(width, i, k) - 1 = q * width + r
    BY <2>1, <2>2, <2>5
  <2>9. QED
    BY <2>1, <2>6, <2>7, <2>8
<1>3. ASSUME NEW t \in 1..n * width
      PROVE  /\ ((t - 1) \div width) + 1 \in 1..n /\ ((t - 1) % width) + 1 \in 1..width
             /\ t = TurnOf(width, ((t - 1) \div width) + 1, ((t - 1) % width) + 1)
  <2>1. width > 0
    <3>1. width = 0 => n * width = 0
      OBVIOUS
    <3>2. QED
      BY <1>1, <3>1
  <2> DEFINE q == (t - 1) \div width
             r == (t - 1) % width
  <2>2. t - 1 \in Nat /\ t - 1 < n * width
    BY <1>1
  <2>3. q \in Nat /\ r \in 0..(width - 1) /\ t - 1 = q * width + r
    BY <2>1, <2>2
  <2> HIDE DEF q, r
  <2>4. q < n
    <3>1. q >= n => q * width >= n * width
      BY <2>1, <2>3
    <3>2. q * width \in Nat
      BY <2>3
    <3>3. QED
      BY <1>1, <2>2, <2>3, <3>1, <3>2
  <2>5. TurnOf(width, q + 1, r + 1) = q * width + (r + 1)
    BY <2>3 DEF TurnOf
  <2>6. q + 1 \in 1..n /\ r + 1 \in 1..width /\ t = TurnOf(width, q + 1, r + 1)
    <3>1. q * width \in Nat
      BY <2>3
    <3>2. QED
      BY <2>1, <2>3, <2>4, <2>5, <3>1
  <2>7. QED
    BY <2>6 DEF q, r
<1>4. QED
  BY <1>1, <1>2, <1>3 DEF Loops

\* iter_machine_pools goes over every pool once.
PlacesIn(m) == SetToSeq(DOMAIN m.pools)
Width(m) == Len(m.market)

LEMMA PlacesOnce ==
    ASSUME NEW m, IsMap(m)
    PROVE  /\ Width(m) \in Nat /\ DOMAIN m.market = 1..Width(m)
           /\ Len(PlacesIn(m)) \in Nat /\ PlacesIn(m) \in [1..Len(PlacesIn(m)) -> DOMAIN m.pools]
           /\ \A i, k \in 1..Len(PlacesIn(m)) : PlacesIn(m)[i] = PlacesIn(m)[k] => i = k
           /\ \A p \in DOMAIN m.pools : \E i \in 1..Len(PlacesIn(m)) : PlacesIn(m)[i] = p
           /\ \A p \in DOMAIN m.pools : m.pools[p].per \in Nat /\ m.pools[p].instances \in Nat
<1> DEFINE S == DOMAIN m.pools
           n == Cardinality(S)
           places == PlacesIn(m)
<1>1. n \in Nat /\ ExistsBijection(1..n, S)
  BY FS_CardinalityType DEF IsMap
<1>2. PICK f \in Bijection(1..n, S) : TRUE
  BY <1>1 DEF ExistsBijection
<1>3. f \in [1..n -> S] /\ IsInjective(f)
  BY <1>2 DEF Bijection, Injection, IsInjective
<1>4. places = CHOOSE g \in [1..n -> S] : IsInjective(g)
  BY DEF PlacesIn, SetToSeq
<1> HIDE DEF places
<1>5. places \in [1..n -> S] /\ IsInjective(places)
  <2> HIDE DEF S, n
  <2>1. QED
    BY <1>3, <1>4
<1>6. \A i, k \in 1..n : places[i] = places[k] => i = k
  BY <1>5 DEF IsInjective
<1>7. Len(places) = n
  BY <1>1, <1>5
<1>8. places \in Surjection(1..n, S)
  <2>1. places \in Injection(1..n, S)
    BY <1>5 DEF Injection
  <2>2. IsFiniteSet(1..n) /\ Cardinality(1..n) = n
    BY <1>1, FS_Interval
  <2>3. IsFiniteSet(S) /\ Cardinality(S) = n
    BY DEF IsMap
  <2> HIDE DEF S, n
  <2>4. QED
    BY <2>1, <2>2, <2>3, FS_Injection
<1>9. \A p \in S : \E i \in 1..n : places[i] = p
  BY <1>8 DEF Surjection
<1>10. Width(m) \in Nat /\ DOMAIN m.market = 1..Width(m)
  BY DEF IsMap, Width
<1>11. QED
  BY <1>1, <1>5, <1>6, <1>7, <1>9, <1>10 DEF places, IsMap

\* What the turns of a map are about.
LEMMA TurnsOfMap ==
    ASSUME NEW m, IsMap(m)
    PROVE  /\ Len(Turns(m)) = Len(PlacesIn(m)) * Width(m) /\ Len(Turns(m)) \in Nat
           /\ \A t \in 1..Len(Turns(m)) :
                 /\ Turns(m)[t].detail.total \in Nat
                 /\ Turns(m)[t].detail.total_instances \in Nat
           /\ \A i \in 1..Len(PlacesIn(m)), k \in 1..Width(m) :
                 /\ Turns(m)[TurnOf(Width(m), i, k)].key
                       = EnvKey(m.market[k], PlacesIn(m)[i], m.pools[PlacesIn(m)[i]])
                 /\ Turns(m)[TurnOf(Width(m), i, k)].detail
                       = Detail(PlacesIn(m)[i], m.pools[PlacesIn(m)[i]])
<1> DEFINE places == PlacesIn(m)
           width == Width(m)
           turns == Turns(m)
           turn(market, p) == [key |-> EnvKey(market, p, m.pools[p]),
                               detail |-> Detail(p, m.pools[p])]
<1>1. /\ width \in Nat /\ Len(places) \in Nat
      /\ places \in [1..Len(places) -> DOMAIN m.pools]
      /\ \A p \in DOMAIN m.pools : m.pools[p].per \in Nat /\ m.pools[p].instances \in Nat
  BY PlacesOnce
<1>2. turns = [t \in 1..Len(places) * width |->
                 turn(m.market[((t - 1) % width) + 1], places[((t - 1) \div width) + 1])]
  BY DEF Turns, PlacesIn, Width
<1> HIDE DEF places, width, turns, turn
<1>3. Loops(Len(places), width)
  BY <1>1, TurnsOfLoops
<1>4. Len(turns) = Len(places) * width /\ Len(turns) \in Nat
  BY <1>2, <1>3 DEF Loops
<1>5. ASSUME NEW t \in 1..Len(turns)
      PROVE  turns[t].detail.total \in Nat /\ turns[t].detail.total_instances \in Nat
  <2>1. PICK p \in DOMAIN m.pools : turns[t].detail = Detail(p, m.pools[p])
    <3>1. PICK i \in 1..Len(places) : i = ((t - 1) \div width) + 1
      BY <1>3, <1>4 DEF Loops
    <3>2. turns[t] = turn(m.market[((t - 1) % width) + 1], places[i]) /\ places[i] \in DOMAIN m.pools
      BY <1>1, <1>2, <1>4, <3>1
    <3>3. QED
      BY <3>2 DEF turn
  <2>2. m.pools[p].per * m.pools[p].instances \in Nat
    BY <1>1
  <2>3. QED
    BY <1>1, <2>1, <2>2 DEF Detail
<1>6. ASSUME NEW i \in 1..Len(places), NEW k \in 1..width
      PROVE  turns[TurnOf(width, i, k)] = turn(m.market[k], places[i])
  <2>1. PICK t \in 1..Len(places) * width :
           t = TurnOf(width, i, k) /\ ((t - 1) \div width) + 1 = i /\ ((t - 1) % width) + 1 = k
    BY <1>3 DEF Loops
  <2>2. QED
    BY <1>2, <2>1
<1>7. ASSUME NEW i \in 1..Len(places), NEW k \in 1..width
      PROVE  /\ turns[TurnOf(width, i, k)].key = EnvKey(m.market[k], places[i], m.pools[places[i]])
             /\ turns[TurnOf(width, i, k)].detail = Detail(places[i], m.pools[places[i]])
  <2>1. turns[TurnOf(width, i, k)] = turn(m.market[k], places[i])
    BY <1>6
  <2>2. QED
    BY <2>1 DEF turn
<1>8. QED
  BY <1>4, <1>5, <1>7 DEF places, width, turns

\* What all the turns bring under a key is what the places behind it hold,
\* once per listing of the market.
LEMMA BroughtByMap ==
    ASSUME NEW m, IsMap(m), NEW key, NEW size, NEW amount,
           key \in {Turns(m)[u].key : u \in 1..Len(Turns(m))},
           IsFiniteSet(Brought(Turns(m), key, amount, Len(Turns(m)))),
           \A p \in DOMAIN m.pools : size[p] \in Nat,
           \A i \in 1..Len(PlacesIn(m)), k \in 1..Width(m) :
              amount[TurnOf(Width(m), i, k)] = size[PlacesIn(m)[i]]
    PROVE  /\ IsFiniteSet(Listings(m, key)) /\ IsFiniteSet(Units(m, key, size))
           /\ Cardinality(Brought(Turns(m), key, amount, Len(Turns(m))))
                = Cardinality(Listings(m, key)) * Cardinality(Units(m, key, size))
<1> DEFINE places == PlacesIn(m)
           width == Width(m)
           turns == Turns(m)
           brought == Brought(turns, key, amount, Len(turns))
           listings == Listings(m, key)
           units == Units(m, key, size)
<1>1. /\ width \in Nat /\ DOMAIN m.market = 1..width
      /\ Len(places) \in Nat /\ places \in [1..Len(places) -> DOMAIN m.pools]
      /\ \A i, k \in 1..Len(places) : places[i] = places[k] => i = k
      /\ \A p \in DOMAIN m.pools : \E i \in 1..Len(places) : places[i] = p
  BY PlacesOnce
<1>2. /\ Len(turns) = Len(places) * width
      /\ \A i \in 1..Len(places), k \in 1..width :
            turns[TurnOf(width, i, k)].key = EnvKey(m.market[k], places[i], m.pools[places[i]])
  BY TurnsOfMap
<1>3. /\ key \in {turns[u].key : u \in 1..Len(turns)} /\ IsFiniteSet(brought)
      /\ \A i \in 1..Len(places), k \in 1..width :
            amount[TurnOf(width, i, k)] = size[places[i]]
  OBVIOUS
<1>4. brought = UNION {{u} \X (1..amount[u]) : u \in {v \in 1..Len(turns) : turns[v].key = key}}
  BY DEF Brought
<1>5. /\ listings = {k \in 1..width : m.market[k] = key.market}
      /\ units = UNION {{p} \X (1..size[p]) : p \in PlacesOf(m, key)}
      /\ PlacesOf(m, key) = {p \in DOMAIN m.pools : p.zone = key.zone /\ m.pools[p].gpu = key.gpu}
  BY <1>1 DEF Listings, Units, PlacesOf
<1> HIDE DEF places, width, turns, brought, listings, units
<1>6. /\ \A i \in 1..Len(places), k \in 1..width :
            /\ TurnOf(width, i, k) \in 1..Len(turns)
            /\ ((TurnOf(width, i, k) - 1) \div width) + 1 = i
            /\ ((TurnOf(width, i, k) - 1) % width) + 1 = k
      /\ \A u \in 1..Len(turns) : \E i \in 1..Len(places), k \in 1..width :
            u = TurnOf(width, i, k)
  <2>1. Loops(Len(places), width)
    BY <1>1, TurnsOfLoops
  <2>2. QED
    BY <1>2, <2>1 DEF Loops
<1>7. PICK i0 \in 1..Len(places), k0 \in 1..width :
         key = EnvKey(m.market[k0], places[i0], m.pools[places[i0]])
  <2>1. PICK u \in 1..Len(turns) : key = turns[u].key
    BY <1>3
  <2>2. PICK i \in 1..Len(places), k \in 1..width : u = TurnOf(width, i, k)
    BY <1>6
  <2>3. QED
    BY <1>2, <2>1, <2>2
<1>8. ASSUME NEW i \in 1..Len(places), NEW k \in 1..width
      PROVE  turns[TurnOf(width, i, k)].key = key <=> k \in listings /\ places[i] \in PlacesOf(m, key)
  <2>1. places[i] \in DOMAIN m.pools
    BY <1>1
  <2>2. turns[TurnOf(width, i, k)].key = EnvKey(m.market[k], places[i], m.pools[places[i]])
    BY <1>2
  <2>3. QED
    BY <1>5, <1>7, <2>1, <2>2 DEF EnvKey
<1>9. \A p \in DOMAIN m.pools : \A i \in 1..Len(places) :
         places[i] = p => p \in DOMAIN m.pools /\ (CHOOSE j \in 1..Len(places) : places[j] = p) = i
  BY <1>1
<1> DEFINE index(p) == CHOOSE j \in 1..Len(places) : places[j] = p
           turn == [x \in listings \X units |-> <<TurnOf(width, index(x[2][1]), x[1]), x[2][2]>>]
<1>10. \A x \in brought : \E i \in 1..Len(places), k \in 1..width, c \in Nat :
          /\ c \in 1..size[places[i]] /\ k \in listings /\ places[i] \in PlacesOf(m, key)
          /\ x = <<TurnOf(width, i, k), c>>
  <2>1. ASSUME NEW x \in brought
        PROVE  \E i \in 1..Len(places), k \in 1..width, c \in Nat :
                  /\ c \in 1..size[places[i]] /\ k \in listings /\ places[i] \in PlacesOf(m, key)
                  /\ x = <<TurnOf(width, i, k), c>>
    <3>1. PICK u \in 1..Len(turns) : turns[u].key = key /\ x \in {u} \X (1..amount[u])
      BY <1>4
    <3>2. PICK i \in 1..Len(places), k \in 1..width : u = TurnOf(width, i, k)
      BY <1>6
    <3>3. amount[u] = size[places[i]] /\ k \in listings /\ places[i] \in PlacesOf(m, key)
      BY <1>3, <1>8, <3>1, <3>2
    <3>4. size[places[i]] \in Nat
      BY <1>1
    <3>5. PICK c \in 1..amount[u] : x = <<u, c>>
      BY <3>1
    <3>6. QED
      BY <3>2, <3>3, <3>4, <3>5
  <2>2. QED
    BY <2>1
<1>11. ASSUME NEW x \in listings \X units
       PROVE  \E i \in 1..Len(places), c \in Nat :
                 /\ c \in 1..size[places[i]] /\ x = <<x[1], <<places[i], c>> >> /\ x[1] \in 1..width /\ x[1] \in listings
                 /\ places[i] \in PlacesOf(m, key)
                 /\ turn[x] = <<TurnOf(width, i, x[1]), c>>
                 /\ turn[x] \in brought
  <2>1. PICK k \in listings, y \in units : x = <<k, y>>
    OBVIOUS
  <2>2. PICK p \in PlacesOf(m, key), c \in Nat : c \in 1..size[p] /\ y = <<p, c>>
    <3>1. PICK p \in PlacesOf(m, key) : y \in {p} \X (1..size[p])
      BY <1>5
    <3>2. size[p] \in Nat
      BY <1>5
    <3>3. QED
      BY <3>1, <3>2
  <2>3. p \in DOMAIN m.pools /\ k \in 1..width
    BY <1>5
  <2>4. PICK i \in 1..Len(places) : places[i] = p
    BY <1>1, <2>3
  <2>5. index(p) = i
    BY <1>9, <2>3, <2>4
  <2>6. x[1] = k /\ x[2] = y /\ y[1] = p /\ y[2] = c
    BY <2>1, <2>2
  <2> HIDE DEF index
  <2>7. turn[x] = <<TurnOf(width, i, k), c>>
    BY <2>5, <2>6
  <2>8. /\ TurnOf(width, i, k) \in 1..Len(turns) /\ turns[TurnOf(width, i, k)].key = key
        /\ amount[TurnOf(width, i, k)] = size[p]
    BY <1>3, <1>6, <1>8, <2>2, <2>3, <2>4
  <2>9. <<TurnOf(width, i, k), c>> \in brought
    <3>1. PICK u \in 1..Len(turns) : u = TurnOf(width, i, k) /\ turns[u].key = key
      BY <2>8
    <3>2. c \in 1..amount[u]
      BY <2>2, <2>8, <3>1
    <3>3. <<u, c>> \in {u} \X (1..amount[u])
      BY <3>2
    <3>4. QED
      BY <1>4, <3>1, <3>3
  <2> HIDE DEF turn
  <2>10. c \in 1..size[places[i]] /\ x = <<x[1], <<places[i], c>> >>
    BY <2>1, <2>2, <2>4, <2>6
  <2>11. QED
    BY <2>2, <2>3, <2>4, <2>6, <2>7, <2>9, <2>10
<1>12. turn \in [listings \X units -> brought]
  <2>1. \A x \in listings \X units : turn[x] \in brought
    BY <1>11
  <2>2. turn = [x \in DOMAIN turn |-> turn[x]] /\ DOMAIN turn = listings \X units
    <3> HIDE DEF index
    <3>1. QED
      OBVIOUS
  <2> HIDE DEF turn
  <2>3. QED
    BY <2>1, <2>2
<1> HIDE DEF turn
<1>13. ASSUME NEW x \in listings \X units, NEW y \in listings \X units, turn[x] = turn[y]
       PROVE  x = y
  <2>1. PICK i \in 1..Len(places), c \in Nat :
                 /\ x = <<x[1], <<places[i], c>> >> /\ x[1] \in 1..width
                 /\ turn[x] = <<TurnOf(width, i, x[1]), c>>
    BY <1>11
  <2>2. PICK j \in 1..Len(places), d \in Nat :
                 /\ y = <<y[1], <<places[j], d>> >> /\ y[1] \in 1..width
                 /\ turn[y] = <<TurnOf(width, j, y[1]), d>>
    BY <1>11
  <2>3. TurnOf(width, i, x[1]) = TurnOf(width, j, y[1]) /\ c = d
    <3>1. PICK u, v : u = TurnOf(width, i, x[1]) /\ v = TurnOf(width, j, y[1])
      OBVIOUS
    <3>2. <<u, c>> = <<v, d>>
      BY <1>13, <2>1, <2>2, <3>1
    <3>3. QED
      BY <3>1, <3>2
  <2>4. i = j /\ x[1] = y[1]
    BY <1>6, <2>1, <2>2, <2>3
  <2>5. QED
    BY <2>1, <2>2, <2>3, <2>4
<1>14. ASSUME NEW y \in brought PROVE \E x \in listings \X units : turn[x] = y
  <2>1. PICK i \in 1..Len(places), k \in 1..width, c \in Nat :
          /\ c \in 1..size[places[i]] /\ k \in listings /\ places[i] \in PlacesOf(m, key)
          /\ y = <<TurnOf(width, i, k), c>>
    BY <1>10
  <2>2. PICK p \in PlacesOf(m, key) : p = places[i]
    BY <2>1
  <2>3. <<p, c>> \in units
    <3>1. <<p, c>> \in {p} \X (1..size[p])
      BY <2>1, <2>2
    <3>2. QED
      BY <1>5, <3>1
  <2>4. PICK x \in listings \X units : x = <<k, <<p, c>> >>
    BY <2>1, <2>3
  <2>5. PICK j \in 1..Len(places), d \in Nat :
          x = <<x[1], <<places[j], d>> >> /\ turn[x] = <<TurnOf(width, j, x[1]), d>>
    BY <1>11
  <2>6. x[1] = k /\ places[j] = p /\ d = c
    BY <2>4, <2>5
  <2>7. j = i
    BY <1>1, <2>2, <2>6
  <2>8. QED
    BY <2>1, <2>5, <2>6, <2>7
<1>15. turn \in Injection(listings \X units, brought) /\ turn \in Surjection(listings \X units, brought)
  BY <1>12, <1>13, <1>14 DEF Injection, Surjection, IsInjective
<1>16. /\ IsFiniteSet(listings \X units)
       /\ Cardinality(listings \X units) = Cardinality(brought)
  BY <1>3, <1>15, FS_Injection
<1>17. IsFiniteSet(listings) /\ k0 \in listings
  <2>1. IsFiniteSet(1..width)
    BY <1>1, FS_Interval
  <2>2. listings \in SUBSET (1..width)
    BY <1>5
  <2>3. k0 \in listings
    BY <1>5, <1>7 DEF EnvKey
  <2>4. QED
    BY <2>1, <2>2, <2>3, FS_Subset
<1>18. IsFiniteSet(units)
  <2> DEFINE pair == [y \in units |-> <<k0, y>>]
  <2>1. pair \in Injection(units, listings \X units)
    BY <1>17 DEF Injection, IsInjective
  <2> HIDE DEF pair
  <2>2. QED
    BY <1>16, <2>1, FS_Injection
<1>19. Cardinality(listings \X units) = Cardinality(listings) * Cardinality(units)
  BY <1>17, <1>18, FS_Product
<1>20. QED
  BY <1>16, <1>17, <1>18, <1>19 DEF brought, listings, units, turns

\* CapacityCounts (ResourceMap) of any map.
LEMMA SummaryCounts == ASSUME NEW m, IsMap(m) PROVE CapacityCounts(m)
<1> DEFINE places == PlacesIn(m)
           width == Width(m)
           turns == Turns(m)
           summary == SchedulingSummary(m)
           machines == [p \in DOMAIN m.pools |-> m.pools[p].instances]
           gpus == [p \in DOMAIN m.pools |-> m.pools[p].per * m.pools[p].instances]
           ones == [p \in DOMAIN m.pools |-> 1]
<1>1. /\ width \in Nat /\ DOMAIN m.market = 1..width
      /\ Len(places) \in Nat /\ places \in [1..Len(places) -> DOMAIN m.pools]
      /\ \A p \in DOMAIN m.pools : \E i \in 1..Len(places) : places[i] = p
  BY PlacesOnce
<1>2. /\ Len(turns) = Len(places) * width /\ Len(turns) \in Nat
      /\ \A t \in 1..Len(turns) :
            turns[t].detail.total \in Nat /\ turns[t].detail.total_instances \in Nat
      /\ \A i \in 1..Len(places), k \in 1..width :
            /\ turns[TurnOf(width, i, k)].key = EnvKey(m.market[k], places[i], m.pools[places[i]])
            /\ turns[TurnOf(width, i, k)].detail = Detail(places[i], m.pools[places[i]])
  BY TurnsOfMap
<1>3. /\ \A i \in 1..Len(places), k \in 1..width : TurnOf(width, i, k) \in 1..Len(turns)
      /\ \A u \in 1..Len(turns) : \E i \in 1..Len(places), k \in 1..width :
            u = TurnOf(width, i, k)
  <2>1. Loops(Len(places), width)
    BY <1>1, TurnsOfLoops
  <2>2. QED
    BY <1>2, <2>1 DEF Loops
<1>4. Counted(turns, Len(turns)) /\ summary = CountUpTo(turns)[Len(turns)]
  BY <1>2, EveryTurnCounts DEF SchedulingSummary
<1>5. \A i \in 1..Len(places), k \in 1..width :
         /\ GpusOf(turns)[TurnOf(width, i, k)] = gpus[places[i]]
         /\ MachinesOf(turns)[TurnOf(width, i, k)] = machines[places[i]]
         /\ OnesOf(turns)[TurnOf(width, i, k)] = ones[places[i]]
  <2>1. ASSUME NEW i \in 1..Len(places), NEW k \in 1..width
        PROVE  /\ GpusOf(turns)[TurnOf(width, i, k)] = gpus[places[i]]
               /\ MachinesOf(turns)[TurnOf(width, i, k)] = machines[places[i]]
               /\ OnesOf(turns)[TurnOf(width, i, k)] = ones[places[i]]
    <3>1. TurnOf(width, i, k) \in 1..Len(turns) /\ places[i] \in DOMAIN m.pools
      BY <1>1, <1>3
    <3>2. turns[TurnOf(width, i, k)].detail = Detail(places[i], m.pools[places[i]])
      BY <1>2
    <3> HIDE DEF places, turns, width
    <3>3. QED
      BY <3>1, <3>2 DEF GpusOf, MachinesOf, OnesOf, Detail
  <2>2. QED
    BY <2>1
<1>6. DOMAIN summary = {turns[u].key : u \in 1..Len(turns)}
  BY <1>4 DEF Counted
<1>7. DOMAIN summary = {EnvKey(m.market[k], p, m.pools[p]) :
                           k \in DOMAIN m.market, p \in DOMAIN m.pools}
  <2> HIDE DEF places, width, turns, summary
  <2>1. ASSUME NEW u \in 1..Len(turns)
        PROVE  \E k \in DOMAIN m.market, p \in DOMAIN m.pools :
                  turns[u].key = EnvKey(m.market[k], p, m.pools[p])
    <3>1. PICK i \in 1..Len(places), k \in 1..width : u = TurnOf(width, i, k)
      BY <1>3
    <3>2. turns[u].key = EnvKey(m.market[k], places[i], m.pools[places[i]])
      BY <1>2, <3>1
    <3>3. places[i] \in DOMAIN m.pools /\ k \in DOMAIN m.market
      BY <1>1
    <3>4. QED
      BY <3>2, <3>3
  <2>2. ASSUME NEW k \in DOMAIN m.market, NEW p \in DOMAIN m.pools
        PROVE  \E u \in 1..Len(turns) : turns[u].key = EnvKey(m.market[k], p, m.pools[p])
    <3>1. PICK i \in 1..Len(places) : places[i] = p
      BY <1>1
    <3>2. k \in 1..width
      BY <1>1
    <3>3. turns[TurnOf(width, i, k)].key = EnvKey(m.market[k], p, m.pools[p])
      BY <1>2, <3>1, <3>2
    <3>4. QED
      BY <1>3, <3>2, <3>3
  <2> DEFINE keys == {EnvKey(m.market[k], p, m.pools[p]) : k \in DOMAIN m.market, p \in DOMAIN m.pools}
  <2>3. \A key : key \in keys <=> \E k \in DOMAIN m.market, p \in DOMAIN m.pools :
                                      key = EnvKey(m.market[k], p, m.pools[p])
    OBVIOUS
  <2> HIDE DEF keys
  <2>4. \A key \in DOMAIN summary : key \in keys
    BY <1>6, <2>1, <2>3
  <2>5. \A key \in keys : key \in DOMAIN summary
    BY <1>6, <2>2, <2>3
  <2>6. DOMAIN summary = keys
    BY <2>4, <2>5
  <2>7. QED
    BY <2>6 DEF keys
<1>8. ASSUME NEW key \in DOMAIN summary
      PROVE  /\ summary[key].total = Cardinality(Listings(m, key)) * Cardinality(Units(m, key, gpus))
             /\ summary[key].total_instances
                  = Cardinality(Listings(m, key)) * Cardinality(Units(m, key, machines))
             /\ Len(summary[key].pools)
                  = Cardinality(Listings(m, key)) * Cardinality(PlacesOf(m, key))
  <2>1. /\ key \in {turns[u].key : u \in 1..Len(turns)}
        /\ IsFiniteSet(Brought(turns, key, GpusOf(turns), Len(turns)))
        /\ IsFiniteSet(Brought(turns, key, MachinesOf(turns), Len(turns)))
        /\ IsFiniteSet(Brought(turns, key, OnesOf(turns), Len(turns)))
        /\ summary[key].total = Cardinality(Brought(turns, key, GpusOf(turns), Len(turns)))
        /\ summary[key].total_instances
              = Cardinality(Brought(turns, key, MachinesOf(turns), Len(turns)))
        /\ Len(summary[key].pools) = Cardinality(Brought(turns, key, OnesOf(turns), Len(turns)))
    BY <1>4, <1>6 DEF Counted
  <2>7. \A p \in DOMAIN m.pools : gpus[p] \in Nat /\ machines[p] \in Nat /\ ones[p] \in Nat
    BY DEF IsMap
  <2> HIDE DEF gpus, machines, ones, summary
  <2>2. Cardinality(Brought(turns, key, GpusOf(turns), Len(turns)))
          = Cardinality(Listings(m, key)) * Cardinality(Units(m, key, gpus))
    BY <1>5, <2>1, <2>7, BroughtByMap
  <2>3. Cardinality(Brought(turns, key, MachinesOf(turns), Len(turns)))
          = Cardinality(Listings(m, key)) * Cardinality(Units(m, key, machines))
    BY <1>5, <2>1, <2>7, BroughtByMap
  <2>4. /\ IsFiniteSet(Units(m, key, ones))
        /\ Cardinality(Brought(turns, key, OnesOf(turns), Len(turns)))
             = Cardinality(Listings(m, key)) * Cardinality(Units(m, key, ones))
    BY <1>5, <2>1, <2>7, BroughtByMap
  <2>5. Cardinality(Units(m, key, ones)) = Cardinality(PlacesOf(m, key))
    <3> DEFINE one == [p \in PlacesOf(m, key) |-> <<p, 1>>]
    <3>1. \A p \in PlacesOf(m, key) : ones[p] = 1
      BY DEF PlacesOf, ones
    <3>2. 1..1 = {1}
      OBVIOUS
    <3>3. \A y : y \in Units(m, key, ones) <=> \E p \in PlacesOf(m, key) : y = <<p, 1>>
      BY <3>1, <3>2 DEF Units
    <3>4. /\ one \in Injection(PlacesOf(m, key), Units(m, key, ones))
          /\ one \in Surjection(PlacesOf(m, key), Units(m, key, ones))
      BY <3>3 DEF Injection, Surjection, IsInjective
    <3> HIDE DEF one
    <3>5. QED
      BY <2>4, <3>4, FS_Injection
  <2>6. QED
    BY <2>1, <2>2, <2>3, <2>4, <2>5
<1> HIDE DEF places, width, turns, gpus, machines, ones
<1> HIDE DEF summary
<1> DEFINE Right(key) ==
               /\ summary[key].total = Cardinality(Listings(m, key)) * Cardinality(Units(m, key, gpus))
               /\ summary[key].total_instances
                    = Cardinality(Listings(m, key)) * Cardinality(Units(m, key, machines))
               /\ Len(summary[key].pools)
                    = Cardinality(Listings(m, key)) * Cardinality(PlacesOf(m, key))
           keys == {EnvKey(m.market[k], p, m.pools[p]) : k \in DOMAIN m.market, p \in DOMAIN m.pools}
<1>9. CapacityCounts(m) <=> DOMAIN summary = keys /\ \A key \in DOMAIN summary : Right(key)
  BY DEF CapacityCounts, summary, gpus, machines
<1>10. \A key \in DOMAIN summary : Right(key)
  BY <1>8
<1>11. QED
  BY <1>7, <1>9, <1>10

-----------------------------------------------------------------------------
(* Rows in order *)

LEMMA RowIdsInOrder ==
    /\ IsFiniteSet(RowIds)
    /\ \A a \in RowIds : ~RowBefore(a, a)
    /\ \A a, b, c \in RowIds : RowBefore(a, b) /\ RowBefore(b, c) => RowBefore(a, c)
    /\ \A a, b \in RowIds : a # b => RowBefore(a, b) \/ RowBefore(b, a)
<1>1. MaxTick \in Nat /\ Items \subseteq Nat /\ IsFiniteSet(Items)
  BY EvidenceConstants
<1>2. IsFiniteSet(RowIds)
  <2>1. IsFiniteSet(1..MaxTick)
    BY <1>1, FS_Interval
  <2>2. QED
    BY <1>1, <2>1, FS_Product DEF RowIds
<1>3. \A a \in RowIds : a[1] \in Nat /\ a[2] \in Nat /\ a = <<a[1], a[2]>>
  <2>1. ASSUME NEW a \in RowIds PROVE a[1] \in Nat /\ a[2] \in Nat /\ a = <<a[1], a[2]>>
    <3>1. PICK t \in 1..MaxTick, i \in Items : a = <<t, i>>
      BY DEF RowIds
    <3>2. QED
      BY <1>1, <3>1
  <2>2. QED
    BY <2>1
<1>4. /\ \A a \in RowIds : ~RowBefore(a, a)
      /\ \A a, b, c \in RowIds : RowBefore(a, b) /\ RowBefore(b, c) => RowBefore(a, c)
  BY <1>3 DEF RowBefore
<1>5. ASSUME NEW a \in RowIds, NEW b \in RowIds, a # b
      PROVE  RowBefore(a, b) \/ RowBefore(b, a)
  <2>1. a[1] # b[1] \/ a[2] # b[2]
    BY <1>3, <1>5
  <2>2. a[1] \in Nat /\ a[2] \in Nat /\ b[1] \in Nat /\ b[2] \in Nat
    BY <1>3
  <2>3. QED
    BY <2>1, <2>2 DEF RowBefore
<1>6. QED
  BY <1>2, <1>4, <1>5

\* Descending orders the rows that have a stamp.
LEMMA StampedInOrder ==
    /\ IsFiniteSet(Stamped) /\ Stamped \subseteq RowIds /\ IsOrderOn(Descending, Stamped)
    /\ \A a, b \in Stamped : <<a, b>> \in Descending <=> AvailableBefore(b, a)
<1>1. IsFiniteSet(Stamped) /\ Stamped \subseteq RowIds
  BY RowIdsInOrder, FS_Subset DEF Stamped
<1>2. /\ \A a \in Stamped : ~RowBefore(a, a)
      /\ \A a, b, c \in Stamped : RowBefore(a, b) /\ RowBefore(b, c) => RowBefore(a, c)
      /\ \A a, b \in Stamped : a # b => RowBefore(a, b) \/ RowBefore(b, a)
  BY <1>1, RowIdsInOrder
<1>3. \A a \in Stamped : AvailableAt[a] \in Nat
  BY EvidenceConstants DEF Stamped
<1>4. \A a, b \in Stamped : <<a, b>> \in Descending <=> AvailableBefore(b, a)
  BY DEF Descending
<1>5. \A a \in Stamped : ~AvailableBefore(a, a)
  BY <1>2, <1>3 DEF AvailableBefore
<1>6. \A a, b, c \in Stamped :
         AvailableBefore(a, b) /\ AvailableBefore(b, c) => AvailableBefore(a, c)
  BY <1>2, <1>3 DEF AvailableBefore
<1>7. \A a, b \in Stamped : a # b => AvailableBefore(a, b) \/ AvailableBefore(b, a)
  BY <1>2, <1>3 DEF AvailableBefore
<1>8. QED
  BY <1>1, <1>4, <1>5, <1>6, <1>7 DEF IsOrderOn

\* LatestOf(ids, limit): of the rows of ids as many as the limit allows, each
\* once and in the order of availability; those left out come before them all.
LEMMA LatestRows ==
    ASSUME NEW ids \in SUBSET Stamped, NEW limit \in Nat
    PROVE  LET new == LatestOf(ids, limit) IN
           /\ IsFiniteSet(ToSet(new)) /\ ToSet(new) \subseteq ids
           /\ Cardinality(ToSet(new)) <= limit
           /\ \A i, k \in DOMAIN new : i < k => AvailableBefore(new[i], new[k])
           /\ \A gone \in ids \ ToSet(new) :
                 /\ Len(new) = limit /\ Cardinality(ToSet(new)) = limit
                 /\ \A id \in ToSet(new) : AvailableBefore(gone, id)
<1> DEFINE rows == ListBy(ids, Descending)
           n == Cardinality(ids)
           kept == Min({limit, Len(rows)})
           first == SubSeq(rows, 1, kept)
           new == LatestOf(ids, limit)
<1>1. IsFiniteSet(ids) /\ IsOrderOn(Descending, ids)
  BY StampedInOrder, OrderOnPart, FS_Subset
<1>2. /\ rows \in Seq(ids) /\ n \in Nat /\ DOMAIN rows = 1..n /\ Len(rows) = n
      /\ \A x \in ids : \E i \in 1..n : rows[i] = x
      /\ \A i, k \in 1..n : i < k => <<rows[i], rows[k]>> \in Descending
  <2> HIDE DEF rows
  <2>1. /\ rows \in Seq(ids) /\ n \in Nat /\ DOMAIN rows = 1..n
        /\ \A x \in ids : \E i \in DOMAIN rows : rows[i] = x
        /\ \A i, k \in DOMAIN rows : i < k => <<rows[i], rows[k]>> \in Descending
    BY <1>1, ListByLists DEF rows
  <2> HIDE DEF n
  <2>2. Len(rows) = n
    BY <2>1
  <2>3. QED
    BY <2>1, <2>2
<1>3. new = Reverse(first)
  BY DEF LatestOf
<1> HIDE DEF rows, n, new
<1>4. kept = IF limit < n THEN limit ELSE n
  <2>1. kept = Min({limit, n})
    BY <1>2
  <2>2. \E x \in {limit, n} : \A y \in {limit, n} : x <= y
    BY <1>2
  <2>3. QED
    BY <1>2, <2>1, <2>2 DEF Min
<1> HIDE DEF kept
<1>5. kept \in 0..n /\ kept <= limit /\ kept \in Nat
  BY <1>2, <1>4
<1>6. \A i \in 1..n : rows[i] \in ids
  BY <1>2
<1>7. /\ first \in Seq(ids) /\ Len(first) = kept
      /\ \A i \in 1..kept : first[i] = rows[i]
  <2>1. first = [i \in 1..kept |-> rows[i]]
    BY <1>2, <1>5
  <2> HIDE DEF first
  <2>2. \A i \in 1..kept : i \in 1..n /\ rows[i] \in ids
    BY <1>2, <1>5, <1>6
  <2>3. first \in [1..kept -> ids]
    BY <2>1, <2>2
  <2>4. QED
    BY <1>5, <2>1, <2>2, <2>3
<1> HIDE DEF first
<1>8. new = [i \in 1..kept |-> first[(kept - i) + 1]]
  BY <1>3, <1>7 DEF Reverse
<1>9. \A i \in 1..kept : (kept - i) + 1 \in 1..kept /\ (kept - i) + 1 \in 1..n
  BY <1>2, <1>5
<1>10. /\ DOMAIN new = 1..kept /\ Len(new) = kept
       /\ \A i \in 1..kept : new[i] = rows[(kept - i) + 1]
  <2>1. \A i \in 1..kept : new[i] = rows[(kept - i) + 1] /\ new[i] \in ids
    BY <1>6, <1>7, <1>8, <1>9
  <2>2. new \in [1..kept -> ids]
    BY <1>8, <2>1
  <2>3. QED
    BY <1>5, <2>1, <2>2
<1>11. ASSUME NEW i \in 1..kept, NEW k \in 1..kept, i < k
       PROVE  AvailableBefore(new[i], new[k])
  <2>1. /\ (kept - k) + 1 < (kept - i) + 1
        /\ (kept - i) + 1 \in 1..n /\ (kept - k) + 1 \in 1..n
    BY <1>5, <1>9, <1>11
  <2>2. <<new[k], new[i]>> \in Descending
    BY <1>2, <1>10, <2>1
  <2>3. QED
    BY <2>2 DEF Descending
<1>12. ToSet(new) = {new[i] : i \in 1..kept} /\ ToSet(new) \subseteq ids
  BY <1>6, <1>9, <1>10 DEF ToSet
<1>13. IsFiniteSet(ToSet(new)) /\ Cardinality(ToSet(new)) = kept
  <2>1. IsFiniteSet(1..kept) /\ Cardinality(1..kept) = kept
    <3>1. PICK last \in Nat : last = kept
      BY <1>5
    <3>2. IsFiniteSet(1..last) /\ Cardinality(1..last) = IF 1 > last THEN 0 ELSE last - 1 + 1
      BY FS_Interval
    <3>3. QED
      BY <3>1, <3>2
  <2> DEFINE place == [i \in 1..kept |-> new[i]]
  <2>2. \A i, k \in 1..kept : i # k => new[i] # new[k]
    <3>1. \A a \in Stamped : ~AvailableBefore(a, a)
      BY StampedInOrder DEF IsOrderOn
    <3>2. \A i \in 1..kept : new[i] \in Stamped
      BY <1>12
    <3>3. ASSUME NEW i \in 1..kept, NEW k \in 1..kept, i # k PROVE new[i] # new[k]
      <4>1. i < k \/ k < i
        BY <1>5, <3>3
      <4>2. QED
        BY <1>11, <3>1, <3>2, <4>1
    <3>4. QED
      BY <3>3
  <2>3. place \in [1..kept -> ToSet(new)] /\ (\A y \in ToSet(new) : \E i \in 1..kept : place[i] = y)
    BY <1>12
  <2>4. place \in Injection(1..kept, ToSet(new)) /\ place \in Surjection(1..kept, ToSet(new))
    BY <2>2, <2>3 DEF Injection, Surjection, IsInjective
  <2> HIDE DEF place
  <2>5. QED
    BY <2>1, <2>4, FS_Injection, FS_Surjection
<1>14. ASSUME NEW gone \in ids \ ToSet(new)
       PROVE  kept = limit /\ \A id \in ToSet(new) : AvailableBefore(gone, id)
  <2>1. PICK k \in 1..n : rows[k] = gone
    BY <1>2
  <2>2. kept < k
    <3>1. ASSUME k <= kept PROVE FALSE
      <4>1. PICK i \in 1..kept : i = (kept - k) + 1
        BY <1>5, <2>1, <3>1
      <4>2. (kept - i) + 1 = k
        BY <1>5, <2>1, <4>1
      <4>3. new[i] = gone
        BY <1>10, <2>1, <4>2
      <4>4. QED
        BY <1>12, <1>14, <4>3
    <3>2. QED
      BY <1>2, <1>5, <2>1, <3>1
  <2>3. kept = limit
    BY <1>2, <1>4, <2>1, <2>2
  <2>4. ASSUME NEW id \in ToSet(new) PROVE AvailableBefore(gone, id)
    <3>1. PICK i \in 1..kept : id = new[i]
      BY <1>12
    <3>2. PICK j \in 1..n : j = (kept - i) + 1
      BY <1>9
    <3>3. rows[j] = id /\ j < k
      BY <1>5, <1>10, <2>2, <3>1, <3>2
    <3>4. <<id, gone>> \in Descending
      BY <1>2, <2>1, <3>3
    <3>5. QED
      BY <3>4 DEF Descending
  <2>5. QED
    BY <2>3, <2>4
<1>15. QED
  BY <1>5, <1>10, <1>11, <1>12, <1>13, <1>14 DEF new

-----------------------------------------------------------------------------
(* The theorems *)

LEMMA KoiInvInit == ASSUME Init PROVE KoiInv
<1>1. TypeInv
  BY TypeInvInit
<1>2. /\ evidence = <<>> /\ node_table = {} /\ edge_table = <<>> /\ mechanism_table = <<>>
      /\ koi = Down /\ reader = NoRead /\ moments = {} /\ DOMAIN <<>> = {}
  BY EmptyTable DEF Init, EvidenceInit, GraphInit
<1>3. koi.pc = "down" /\ koi.got.version = 0
  BY <1>2 DEF Down, NothingRead
<1>4. Seeded /\ Remembered
  BY <1>2, <1>3 DEF Seeded, Remembered, Passing
<1>5. Following
  BY <1>2, <1>3 DEF Following, Follows, Passing
<1>6. Reading
  BY <1>2 DEF Reading, ReadsAreMoments, NoRead
<1>7. GotPublished
  <2>1. Len(published) \in Nat /\ MapType
    BY <1>1 DEF TypeInv, MapType
  <2>2. IsMap(koi.got.map)
    BY <1>2, <2>1, ReadersGetMaps DEF Down
  <2>3. QED
    BY <1>3, <2>1, <2>2 DEF GotPublished, ReadsBack
<1>8. QED
  BY <1>1, <1>2, <1>4, <1>5, <1>6, <1>7 DEF KoiInv

LEMMA KoiInvStep == ASSUME KoiInv, [Next]_vars PROVE KoiInv'
<1>1. /\ TypeInv /\ Seeded /\ Remembered /\ Following /\ Reading /\ GotPublished
      /\ \A e \in DOMAIN edge_table : Lagging(e)
  BY DEF KoiInv
<1>2. TypeInv' /\ Seeded' /\ Remembered' /\ Reading' /\ GotPublished'
  BY <1>1, TypeInvStep, SeededStep, RememberedStep, ReadingStep, GotStep
<1>3. Following'
  BY <1>1, FollowingStep
<1>4. \A e \in DOMAIN edge_table' : Lagging(e)'
  BY <1>1, LaggingStep
<1>5. QED
  BY <1>2, <1>3, <1>4 DEF KoiInv

THEOREM KoiInvariant == Spec => []KoiInv
<1>1. Init => KoiInv
  BY KoiInvInit
<1>2. KoiInv /\ [Next]_vars => KoiInv'
  BY KoiInvStep
<1>3. QED
  BY <1>1, <1>2, PTL DEF Spec

\* ReadsAreMoments (Evidence): what recent and recently_decided return is the
\* right answer of a single moment of the read, over any window.
THEOREM RecentIsExact == Spec => []ReadsAreMoments
<1>1. KoiInv => ReadsAreMoments
  BY DEF KoiInv, Reading
<1>2. QED
  BY <1>1, KoiInvariant, PTL

\* MechanismsFollowEdges (KoiTick): whichever of the two syncs a crash stops
\* Koi before, a stored mechanism is never ahead of all its edges.
THEOREM MechanismsNeverLead == Spec => []MechanismsFollowEdges
<1>1. KoiInv => MechanismsFollowEdges
  BY DEF KoiInv, Following, Follows, MechanismsFollowEdges
<1>2. QED
  BY <1>1, KoiInvariant, PTL

\* ConfidenceLags (KoiTick): a booted Koi has the whole graph, and the stored
\* confidence of an edge lags behind the evidence by no more passes than
\* there were crashes, and the pass not yet synced.
THEOREM ConfidenceCountsEvidence == Spec => []ConfidenceLags
<1>1. ASSUME KoiInv, koi.pc \notin Booting
      PROVE  koi.nodes = Nodes /\ DOMAIN koi.edges = Edges
  <2>1. koi.pc \in Passing
    BY <1>1 DEF KoiInv, TypeInv, KoiType
  <2>2. koi.nodes = Nodes /\ DOMAIN edge_table = Edges
    BY <1>1, <2>1, MechanismsHaveEdges DEF KoiInv, Seeded
  <2>3. DOMAIN LoadEdges = DOMAIN edge_table
    BY DEF LoadEdges
  <2>4. \A touched, batch, tick :
           DOMAIN Visit(LoadEdges, touched, batch, tick) = DOMAIN LoadEdges
    BY DEF Visit
  <2>5. QED
    BY <1>1, <2>1, <2>2, <2>3, <2>4 DEF KoiInv, Remembered, Passing
<1>2. ASSUME KoiInv, NEW e \in DOMAIN edge_table
      PROVE  LET row == edge_table[e]
                 open == IF koi.pc = "sync_edges" THEN 1 ELSE 0
             IN  /\ row.visit_count <= Cardinality(TicksTouching(e))
                 /\ Cardinality(TicksTouching(e)) <= row.visit_count + crashes + open
                 /\ row.last_touched_tick \in TicksTouching(e) \cup {0}
                 /\ ToSet(row.envs_seen) \subseteq EnvsTouching(e)
                 /\ crashes + open = 0 => ToSet(row.envs_seen) = EnvsTouching(e)
  <2>1. TypeInv /\ Lagging(e) /\ crashes \in Nat
    BY <1>2, KoiBounds DEF KoiInv, TypeInv, KoiType
  <2>2. Cardinality(TicksTouching(e)) \in Nat
    BY <2>1, TicksAreFinite
  <2>3. edge_table[e] \in Columns
    BY <2>1, TableFields DEF TypeInv, GraphType
  <2> DEFINE row == FromRow(edge_table[e])
  <2>4. /\ row.visit_count = edge_table[e].visit_count
        /\ row.last_touched_tick = edge_table[e].last_touched_tick
        /\ row.envs_seen = ToSet(edge_table[e].envs_seen)
        /\ edge_table[e].visit_count \in Nat
    BY <2>3, MetadataOfRow DEF Columns
  <2>5. CASE koi.pc = "sync_edges" /\ e \in Touched(koi.batch)
    BY <2>1, <2>2, <2>4, <2>5 DEF Lagging
  <2>6. CASE ~(koi.pc = "sync_edges" /\ e \in Touched(koi.batch))
    BY <2>1, <2>2, <2>4, <2>6 DEF Lagging
  <2>7. QED
    BY <2>5, <2>6
<1>3. KoiInv => ConfidenceLags
  BY <1>1, <1>2 DEF ConfidenceLags
<1>4. QED
  BY <1>3, KoiInvariant, PTL

\* PlansWithThePublished (KoiTick): the map Koi holds is the one published
\* under its version, or a legacy row's but for the GPUs that fill no whole
\* instance, and its summary counts all of it, whatever maps Orca publishes.
THEOREM PlansFitTheMap == Spec => []PlansWithThePublished
<1>1. KoiInv => ReadsBack(koi.got) /\ IsMap(koi.got.map)
  BY DEF KoiInv, GotPublished
<1>2. KoiInv => CapacityCounts(koi.got.map)
  BY <1>1, SummaryCounts
<1>3. KoiInv => PlansWithThePublished
  BY <1>1, <1>2 DEF PlansWithThePublished
<1>4. QED
  BY <1>3, KoiInvariant, PTL

\* EvidenceIsKept (Evidence): no step, a restarted Koi's either, overwrites or
\* loses a row on record.
THEOREM EvidenceIsNeverOverwritten == Spec => EvidenceIsKept
<1>1. ASSUME KoiInv, [Next]_vars
      PROVE  [\A id \in DOMAIN evidence :
                id \in DOMAIN evidence' /\ evidence'[id] = evidence[id]]_evidence
  <2>1. TypeInv
    BY <1>1 DEF KoiInv
  <2>2. SUFFICES ASSUME evidence' # evidence, NEW id \in DOMAIN evidence
                 PROVE  id \in DOMAIN evidence' /\ evidence'[id] = evidence[id]
    OBVIOUS
  <2>3. /\ evidence' = Over(koi.batch, evidence) /\ koi.tick \in 1..MaxTick
        /\ \A x \in DOMAIN koi.batch : x[1] = koi.tick
        /\ \A x \in DOMAIN evidence : x[1] < koi.tick
    BY <1>1, <2>1, <2>2, EvidenceStep
  <2>4. id \notin DOMAIN koi.batch
    <3>1. id[1] \in 1..MaxTick /\ MaxTick \in Nat
      BY <2>1, LastTick, EvidenceConstants DEF TypeInv
    <3>2. QED
      BY <2>3, <3>1
  <2>5. QED
    BY <2>3, <2>4 DEF Over
<1>2. QED
  BY <1>1, KoiInvariant, PTL DEF Spec, EvidenceIsKept

\* ReplayGainsLateRowsOnly (Evidence): whatever the stamps of the rows, a
\* replay that is run again differs from an earlier run by rows that were not
\* written then, and by the ones these push out of the limit.
THEOREM ReplaysGainLateRowsOnly == Spec => ReplayGainsLateRowsOnly
<1> DEFINE Gains(old, new, limit) ==
               /\ ToSet(new) \cap DOMAIN evidence \subseteq ToSet(old)
               /\ \A gone \in ToSet(old) \ ToSet(new) :
                     /\ Len(new) = limit
                     /\ \A id \in ToSet(new) : AvailableBefore(gone, id)
               /\ \A i, k \in DOMAIN new : i < k => AvailableBefore(new[i], new[k])
<1>1. ASSUME KoiInv, [Next]_vars, evidence' # evidence,
             NEW cutoff \in Cutoffs, NEW limit \in 1..Cardinality(RowIds)
      PROVE  Gains(LatestBefore(evidence, cutoff, limit),
                   LatestBefore(evidence', cutoff, limit), limit)
  <2> DEFINE known == Known(evidence, cutoff)
             known1 == Known(evidence', cutoff)
             old == LatestOf(known, limit)
             new == LatestOf(known1, limit)
  <2>1. limit \in Nat /\ ~(limit <= 0)
    BY <1>1, RowIdsInOrder, FS_CardinalityType
  <2>2. /\ LatestBefore(evidence, cutoff, limit) = old
        /\ LatestBefore(evidence', cutoff, limit) = new
    BY <2>1 DEF LatestBefore
  <2>3. /\ known \in SUBSET Stamped /\ known1 \in SUBSET Stamped
        /\ known1 \cap DOMAIN evidence \subseteq known
    BY DEF Known
  <2>4. known \subseteq known1
    <3>1. TypeInv
      BY <1>1 DEF KoiInv
    <3>2. evidence' = Over(koi.batch, evidence)
      BY <1>1, <3>1, EvidenceStep
    <3>3. QED
      BY <3>2 DEF Over, Known
  <2> HIDE DEF known, known1
  <2>5. /\ IsFiniteSet(ToSet(old)) /\ ToSet(old) \subseteq known
        /\ Cardinality(ToSet(old)) <= limit
        /\ \A gone \in known \ ToSet(old) :
              /\ Cardinality(ToSet(old)) = limit
              /\ \A id \in ToSet(old) : AvailableBefore(gone, id)
    BY <2>1, <2>3, LatestRows
  <2>6. /\ IsFiniteSet(ToSet(new)) /\ ToSet(new) \subseteq known1
        /\ Cardinality(ToSet(new)) <= limit
        /\ \A i, k \in DOMAIN new : i < k => AvailableBefore(new[i], new[k])
        /\ \A gone \in known1 \ ToSet(new) :
              /\ Len(new) = limit
              /\ \A id \in ToSet(new) : AvailableBefore(gone, id)
    BY <2>1, <2>3, LatestRows
  <2> HIDE DEF old, new
  <2>7. ASSUME NEW id \in ToSet(new) \cap DOMAIN evidence, id \notin ToSet(old) PROVE FALSE
    <3>1. id \in known
      BY <2>3, <2>6, <2>7
    <3>2. /\ Cardinality(ToSet(old)) = limit
          /\ \A x \in ToSet(old) : AvailableBefore(id, x)
      BY <2>5, <2>7, <3>1
    <3>3. \A a, b \in Stamped : ~(AvailableBefore(a, b) /\ AvailableBefore(b, a))
      BY StampedInOrder DEF IsOrderOn
    <3>4. ToSet(old) \subseteq ToSet(new)
      BY <2>3, <2>4, <2>5, <2>6, <2>7, <3>1, <3>2, <3>3
    <3>5. /\ ToSet(old) \cup {id} \subseteq ToSet(new)
          /\ Cardinality(ToSet(old) \cup {id}) = Cardinality(ToSet(old)) + 1
      BY <2>5, <2>7, <3>4, FS_AddElement
    <3>6. Cardinality(ToSet(old) \cup {id}) <= Cardinality(ToSet(new))
      BY <2>6, <3>5, FS_Subset
    <3>7. Cardinality(ToSet(new)) \in Nat
      BY <2>6, FS_CardinalityType
    <3>8. QED
      BY <2>1, <2>6, <3>2, <3>5, <3>6, <3>7
  <2>8. Gains(old, new, limit)
    BY <2>4, <2>5, <2>6, <2>7
  <2>9. QED
    BY <2>2, <2>8
<1>2. ASSUME KoiInv, [Next]_vars
      PROVE  [evidence' # evidence =>
                \A cutoff \in Cutoffs, limit \in 1..Cardinality(RowIds) :
                   LET old == LatestBefore(evidence, cutoff, limit)
                       new == LatestBefore(evidence', cutoff, limit)
                   IN  /\ ToSet(new) \cap DOMAIN evidence \subseteq ToSet(old)
                       /\ \A gone \in ToSet(old) \ ToSet(new) :
                             /\ Len(new) = limit
                             /\ \A id \in ToSet(new) : AvailableBefore(gone, id)
                       /\ \A i, k \in DOMAIN new :
                             i < k => AvailableBefore(new[i], new[k])]_evidence
  <2> HIDE DEF Gains
  <2>1. evidence' # evidence =>
           \A cutoff \in Cutoffs, limit \in 1..Cardinality(RowIds) :
              Gains(LatestBefore(evidence, cutoff, limit),
                    LatestBefore(evidence', cutoff, limit), limit)
    BY <1>1, <1>2
  <2>2. QED
    BY <2>1 DEF Gains
<1>3. QED
  BY <1>2, KoiInvariant, PTL DEF Spec, ReplayGainsLateRowsOnly
=============================================================================
