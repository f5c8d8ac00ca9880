-------------------------- MODULE EventLog_proofs --------------------------
(***************************************************************************)
(* At-least-once delivery of the event log, for any set of events, stamps, *)
(* consumer instances, batch limit and number of crashes.                  *)
(***************************************************************************)
EXTENDS EventLog, FiniteSetTheorems, TLAPS

\* (created_at, event_id) is a total order.
LEMMA BeforeIsTotal ==
    ASSUME NEW e \in Events, NEW f \in Events
    PROVE  /\ Before(e, f) \in BOOLEAN
           /\ AtOrBefore(e, f) \/ Before(f, e)
           /\ ~Before(e, e)
BY EventsAreOrdered DEF Before, AtOrBefore

\* The order of rows by (created_at, event_id) is transitive.
LEMMA BeforeIsTransitive ==
    ASSUME NEW e \in Events, NEW f \in Events, NEW g \in Events,
           Before(e, f), AtOrBefore(f, g)
    PROVE  Before(e, g)
BY EventsAreOrdered DEF Before, AtOrBefore

\* A batch has no holes: with an event it returns, read_after returns every
\* wanted row after the cursor that precedes it.
LEMMA BatchIsPrefix ==
    ASSUME TypeOK, NEW cursor, NEW last \in ReadAfter(cursor),
           NEW e \in After(cursor) \cap Wanted, AtOrBefore(e, last)
    PROVE  e \in ReadAfter(cursor)
<1> DEFINE found == After(cursor) \cap Wanted
           ahead(x) == {f \in found : Before(f, x)}
<1>1. found \subseteq Events /\ IsFiniteSet(found)
  <2>1. found \subseteq Events
    BY DEF After, TypeOK
  <2>2. QED
    BY <2>1, EventsAreOrdered, FS_Subset
<1>2. ahead(e) \subseteq ahead(last)
  BY <1>1, BeforeIsTransitive DEF ReadAfter
<1>3. IsFiniteSet(ahead(last))
  BY <1>1, FS_Subset
<1>4. Cardinality(ahead(e)) <= Cardinality(ahead(last))
  BY <1>2, <1>3, FS_Subset
<1>5. Cardinality(ahead(e)) \in Nat /\ Cardinality(ahead(last)) \in Nat
  BY <1>2, <1>3, FS_Subset, FS_CardinalityType
<1>6. Cardinality(ahead(last)) < Limit
  BY DEF ReadAfter
<1>7. Cardinality(ahead(e)) < Limit
  BY <1>4, <1>5, <1>6, LimitIsPositive
<1> QED
  BY <1>7 DEF ReadAfter

\* A step of instance i writes its own local state only.
LEMMA LocalStep ==
    ASSUME NEW i \in Instances, NEW local \in Local,
           inst \in [Instances -> Local], Goes(i, local)
    PROVE  /\ inst' \in [Instances -> Local]
           /\ inst'[i] = local
           /\ \A k \in Instances : k # i => inst'[k] = inst[k]
BY DEF Goes

\* The local states the steps of the loop build, and their fields.
LEMMA LocalValues ==
    ASSUME NEW l \in Local, NEW x \in Events \cup {NULL}, NEW S \in SUBSET Events,
           NEW pc \in {"work", "ack"}
    PROVE  /\ Idle \in Local
           /\ [Idle EXCEPT !.pc = "read", !.seen = x] \in Local
           /\ [Idle EXCEPT !.pc = "tail"] \in Local
           /\ [Idle EXCEPT !.pc = "tail", !.upto = x] \in Local
           /\ [l EXCEPT !.pc = "work", !.todo = S, !.upto = x] \in Local
           /\ [l EXCEPT !.todo = S, !.pc = pc] \in Local
           /\ \A f \in Row : [l EXCEPT !.pc = "write", !.found = f] \in Local
<1>1. Idle \in Local
  BY DEF Local, Idle, NoRow, Row
<1>2. [Idle EXCEPT !.pc = "read", !.seen = x] \in Local
  BY DEF Local, Idle, NoRow, Row
<1>3. [Idle EXCEPT !.pc = "tail"] \in Local /\ [Idle EXCEPT !.pc = "tail", !.upto = x] \in Local
  BY DEF Local, Idle, NoRow, Row
<1>4. [l EXCEPT !.pc = "work", !.todo = S, !.upto = x] \in Local
  BY DEF Local
<1>5. [l EXCEPT !.todo = S, !.pc = pc] \in Local
  BY DEF Local
<1>6. \A f \in Row : [l EXCEPT !.pc = "write", !.found = f] \in Local
  BY DEF Local
<1> QED
  BY <1>1, <1>2, <1>3, <1>4, <1>5, <1>6

\* Each field of a well-typed local state has its type.
LEMMA LocalFields ==
    ASSUME NEW l \in Local
    PROVE  /\ l.pc \in {"idle", "read", "work", "ack", "write", "tail"}
           /\ l.seen \in Events \cup {NULL} /\ l.upto \in Events \cup {NULL}
           /\ l.todo \in SUBSET Events /\ l.found \in Row
BY DEF Local

-----------------------------------------------------------------------------
\* Every reachable state is well typed.
THEOREM EventLogTypeCorrect == Spec => []TypeOK
<1>1. Init => TypeOK
  <2>1. Idle \in Local /\ NoRow \in Row
    BY DEF Idle, Local, NoRow, Row
  <2>2. 0 \in 0..MaxCrashes
    BY CrashBound
  <2>3. QED
    BY <2>1, <2>2 DEF Init, TypeOK
<1>2. TypeOK /\ [Next]_vars => TypeOK'
  <2> SUFFICES ASSUME TypeOK, [Next]_vars PROVE TypeOK'
    OBVIOUS
  <2> USE DEF TypeOK
  <2>0. Idle \in Local
    BY DEF Idle, Local, NoRow, Row
  <2>1. ASSUME NEW e \in Events, Append(e) PROVE TypeOK'
    BY <2>1 DEF Append
  <2>2. ASSUME NEW i \in Instances, GetCursor(i) PROVE TypeOK'
    <3>1. offset.last_event_id \in Events \cup {NULL}
      BY DEF Row
    <3>2. QED
      BY <2>2, <3>1, LocalStep, LocalValues DEF GetCursor
  <2>3. ASSUME NEW i \in Instances, ReadBatch(i) PROVE TypeOK'
    <3>1. ReadAfter(inst[i].seen) \in SUBSET Events
      BY DEF ReadAfter, After
    <3>2. \A last \in Events : [inst[i] EXCEPT !.pc = "work", !.todo = ReadAfter(inst[i].seen),
                                               !.upto = last] \in Local
      BY <3>1, LocalValues
    <3>3. inst' \in [Instances -> Local]
      BY <2>0, <2>3, <3>1, <3>2, LocalStep DEF ReadBatch
    <3>4. QED
      BY <2>3, <3>3 DEF ReadBatch
  <2>4. ASSUME NEW i \in Instances, NEW e \in Events, Process(i, e) PROVE TypeOK'
    <3>1. inst[i].todo \ {e} \in SUBSET Events
      BY LocalFields
    <3>2. [inst[i] EXCEPT !.todo = @ \ {e}, !.pc = IF inst[i].todo = {e} THEN "ack" ELSE "work"]
             \in Local
      BY <3>1, LocalValues
    <3>3. inst' \in [Instances -> Local]
      BY <2>4, <3>2, LocalStep DEF Process
    <3>4. QED
      BY <2>4, <3>3 DEF Process
  <2>5. ASSUME NEW i \in Instances, AckLookup(i) PROVE TypeOK'
    <3>1. offset \in Row
      OBVIOUS
    <3>2. [inst[i] EXCEPT !.pc = "write", !.found = offset] \in Local
      BY <3>1, LocalValues
    <3>3. inst' \in [Instances -> Local]
      BY <2>5, <3>2, LocalStep DEF AckLookup
    <3>4. QED
      BY <2>5, <3>3 DEF AckLookup
  <2>6. ASSUME NEW i \in Instances, AckWrite(i) PROVE TypeOK'
    <3>1. inst' \in [Instances -> Local]
      BY <2>0, <2>6, LocalStep DEF AckWrite
    <3>2. offset' \in Row
      <4>1. inst[i].upto \in Events \cup {NULL}
        BY LocalFields
      <4>2. [exists |-> TRUE, last_event_id |-> inst[i].upto] \in Row
        BY <4>1 DEF Row
      <4>3. QED
        BY <2>6, <4>2 DEF AckWrite
    <3>3. QED
      BY <2>6, <3>1, <3>2 DEF AckWrite
  <2>7. ASSUME NEW i \in Instances, TailLookup(i) PROVE TypeOK'
    <3>1. inst' \in [Instances -> Local]
      BY <2>7, EventsAreOrdered, LocalStep, LocalValues DEF TailLookup
    <3>2. QED
      BY <2>7, <3>1 DEF TailLookup
  <2>8. ASSUME NEW i \in Instances, TailWrite(i) PROVE TypeOK'
    <3>1. inst' \in [Instances -> Local]
      BY <2>0, <2>8, LocalStep DEF TailWrite
    <3>2. offset' \in Row /\ exempt' \subseteq Events
      <4>1. inst[i].upto \in Events \cup {NULL}
        BY LocalFields
      <4>2. [exists |-> TRUE, last_event_id |-> inst[i].upto] \in Row
        BY <4>1 DEF Row
      <4>3. QED
        BY <2>8, <4>2 DEF TailWrite
    <3>3. QED
      BY <2>8, <3>1, <3>2 DEF TailWrite
  <2>9. ASSUME NEW i \in Instances, Crash(i) PROVE TypeOK'
    BY <2>0, <2>9, CrashBound, LocalStep DEF Crash
  <2>10. CASE UNCHANGED vars
    BY <2>10 DEF vars
  <2> QED
    BY <2>1, <2>2, <2>3, <2>4, <2>5, <2>6, <2>7, <2>8, <2>9, <2>10 DEF Next, Consume
<1>3. QED
  BY <1>1, <1>2, PTL DEF Spec

-----------------------------------------------------------------------------
\* Every wanted row up to p is accounted for.
Accounted(e) == e \in processed \/ e \in late \/ e \in exempt

Covered(p) == \A e \in log \cap Wanted : AtOrBefore(e, p) => Accounted(e)

\* The inductive invariant: every position is a committed row; the cursor and
\* the cursor an instance read are covered; the batch in an instance's hands
\* has no holes up to its last event but the events still to do.
Sound(l) ==
    /\ l.seen # NULL => Covered(l.seen)
    /\ l.pc \in {"work", "ack", "write"} =>
          /\ l.upto # NULL
          /\ \A e \in log \cap Wanted : AtOrBefore(e, l.upto) => e \in l.todo \/ Accounted(e)
    /\ l.pc # "work" => l.todo = {}

Inv ==
    /\ Positions \subseteq log
    /\ offset.last_event_id # NULL => Covered(offset.last_event_id)
    /\ \A i \in Instances : Sound(inst[i])

\* Positions only ever come from rows already read.
LEMMA PositionsOf ==
    ASSUME NEW p
    PROVE  p \in Positions <=>
              /\ p # NULL
              /\ \/ p = offset.last_event_id
                 \/ \E i \in Instances : p = inst[i].seen \/ p = inst[i].upto
BY DEF Positions

\* A new row is late or lies after every position, so it uncovers nothing.
LEMMA AppendKeepsInv ==
    ASSUME TypeOK, Inv, NEW e \in Events, Append(e)
    PROVE  Inv'
<1>1. Positions' = Positions /\ Positions \subseteq log /\ log' = log \cup {e}
  BY DEF Append, Positions, Inv
<1>2. log \subseteq Events /\ e \notin log
  BY DEF Append, TypeOK
<1>3. ASSUME NEW p \in Positions, AtOrBefore(e, p) PROVE e \in late'
  <2>1. e # p
    BY <1>1, <1>2
  <2>2. QED
    BY <1>3, <2>1 DEF AtOrBefore, Append
<1>4. late \subseteq late' /\ processed' = processed /\ exempt' = exempt
  BY DEF Append
<1>5. ASSUME NEW p \in Positions, Covered(p) PROVE Covered(p)'
  BY <1>1, <1>3, <1>4, <1>5 DEF Covered, Accounted, AtOrBefore, Before
<1>6. offset' = offset /\ inst' = inst
  BY DEF Append
<1>7. offset'.last_event_id # NULL => Covered(offset.last_event_id)'
  BY <1>5, <1>6, PositionsOf DEF Inv
<1>8. ASSUME NEW i \in Instances
      PROVE  Sound(inst[i])'
  <2>1. inst[i].seen # NULL => Covered(inst[i].seen)'
    BY <1>5, <1>6, PositionsOf DEF Inv, Sound
  <2>2. inst[i].pc \in {"work", "ack", "write"} => inst[i].upto \in Positions
    BY PositionsOf DEF Inv, Sound
  <2>3. ASSUME inst[i].pc \in {"work", "ack", "write"}, NEW f \in log' \cap Wanted,
               AtOrBefore(f, inst[i].upto)
        PROVE  f \in inst[i].todo \/ Accounted(f)'
    <3>1. CASE f = e
      BY <1>3, <2>2, <2>3, <3>1 DEF Accounted
    <3>2. CASE f # e
      BY <1>1, <1>4, <2>3, <3>2 DEF Inv, Sound, Accounted
    <3>3. QED
      BY <3>1, <3>2
  <2>4. Sound(inst[i])
    BY DEF Inv
  <2>5. QED
    BY <1>6, <2>1, <2>3, <2>4 DEF Sound
<1> QED
  BY <1>1, <1>6, <1>7, <1>8 DEF Inv

\* A batch read after a covered cursor leaves only its own events uncovered.
LEMMA BatchCovers ==
    ASSUME TypeOK, Inv, NEW i \in Instances, NEW last \in ReadAfter(inst[i].seen),
           NEW e \in log \cap Wanted, AtOrBefore(e, last)
    PROVE  e \in ReadAfter(inst[i].seen) \/ Accounted(e)
<1> DEFINE seen == inst[i].seen
<1>1. seen # NULL => seen \in log /\ Covered(seen)
  BY PositionsOf DEF Inv, Sound
<1>2. log \subseteq Events
  BY DEF TypeOK
<1>3. CASE seen # NULL /\ ~Before(seen, e)
  BY <1>1, <1>2, <1>3, BeforeIsTotal DEF Covered
<1>4. CASE seen = NULL \/ Before(seen, e)
  <2>1. e \in After(seen) \cap Wanted
    BY <1>1, <1>4 DEF After
  <2>2. QED
    BY <2>1, BatchIsPrefix
<1> QED
  BY <1>3, <1>4

\* What a step of instance i to local state l has to establish; the other
\* instances keep what they had.
LEMMA StepKeepsInv ==
    ASSUME TypeOK, Inv, NEW i \in Instances, NEW l \in Local, Goes(i, l),
           log' = log, late' = late, exempt \subseteq exempt',
           \A e \in Wanted : e \in processed => e \in processed',
           Sound(l)', l.seen \in log \cup {NULL}, l.upto \in log \cup {NULL},
           (offset.last_event_id # NULL =>
              offset.last_event_id \in log /\ Covered(offset.last_event_id))'
    PROVE  Inv'
<1>1. /\ inst'[i] = l
      /\ \A k \in Instances : k # i => inst'[k] = inst[k]
  BY LocalStep DEF TypeOK
<1>2. Positions' \subseteq log'
  <2>1. \A k \in Instances : k # i => {inst[k].seen, inst[k].upto} \subseteq log \cup {NULL}
    BY PositionsOf DEF Inv
  <2>2. QED
    BY <1>1, <2>1 DEF Positions
<1>3. ASSUME NEW k \in Instances PROVE Sound(inst[k])'
  <2>1. CASE k = i
    BY <1>1, <2>1 DEF Sound
  <2>2. CASE k # i
    <3>1. inst'[k] = inst[k] /\ Sound(inst[k])
      BY <1>1, <2>2 DEF Inv
    <3>2. QED
      BY <3>1 DEF Sound, Covered, Accounted
  <2>3. QED
    BY <2>1, <2>2
<1> QED
  BY <1>2, <1>3 DEF Inv, Covered, Accounted

\* The cursor, once set, stands at a row that was read and is covered.
LEMMA OffsetIsPosition ==
    ASSUME Inv
    PROVE  offset.last_event_id # NULL =>
              offset.last_event_id \in log /\ Covered(offset.last_event_id)
BY PositionsOf DEF Inv

\* Every step of an instance's loop keeps the delivery invariant.
LEMMA ConsumerKeepsInv ==
    ASSUME TypeOK, Inv, NEW i \in Instances, Consume(i) \/ Crash(i)
    PROVE  Inv'
<1> DEFINE l == inst[i]
<1>1. /\ l \in Local /\ Sound(l)
      /\ l.seen \in log \cup {NULL} /\ l.upto \in log \cup {NULL}
  BY PositionsOf DEF TypeOK, Inv
<1>2. Idle \in Local /\ Idle.seen = NULL /\ Idle.upto = NULL /\ Idle.todo = {} /\ Idle.pc = "idle"
  BY DEF Idle, Local, NoRow, Row
<1>3. Sound(Idle)'
  BY <1>2 DEF Sound
<1>4. CASE GetCursor(i)
  <2>1. PICK g \in Local : g = [Idle EXCEPT !.pc = "read", !.seen = offset.last_event_id]
    BY LocalValues DEF TypeOK, Row
  <2>2. g.pc = "read" /\ g.seen = offset.last_event_id /\ g.upto = NULL /\ g.todo = {}
    BY <2>1 DEF Idle
  <2>3. UNCHANGED <<log, offset, late, exempt, processed>> /\ Goes(i, g)
    BY <1>4, <2>1 DEF GetCursor
  <2>4. g.seen # NULL => g.seen \in log /\ Covered(g.seen)
    BY <2>2, OffsetIsPosition
  <2>5. Sound(g)'
    BY <2>2, <2>3, <2>4 DEF Sound, Covered, Accounted
  <2> QED
    BY <2>2, <2>3, <2>4, <2>5, OffsetIsPosition, StepKeepsInv DEF Covered, Accounted
<1>5. CASE ReadBatch(i)
  <2>1. UNCHANGED <<log, offset, late, exempt, processed>>
    BY <1>5 DEF ReadBatch
  <2>2. CASE Goes(i, Idle)
    BY <1>2, <1>3, <2>1, <2>2, OffsetIsPosition, StepKeepsInv DEF Covered, Accounted
  <2>3. ASSUME NEW last \in ReadAfter(l.seen),
               Goes(i, [l EXCEPT !.pc = "work", !.todo = ReadAfter(l.seen), !.upto = last])
        PROVE  Inv'
    <3>1. ReadAfter(l.seen) \subseteq log /\ last \in log /\ log \subseteq Events
      BY DEF ReadAfter, After, TypeOK
    <3>2. PICK g \in Local :
             g = [l EXCEPT !.pc = "work", !.todo = ReadAfter(l.seen), !.upto = last]
      BY <1>1, <3>1, LocalValues
    <3>3. g.pc = "work" /\ g.seen = l.seen /\ g.upto = last /\ g.todo = ReadAfter(l.seen)
      BY <1>1, <3>2 DEF Local
    <3>4. \A e \in log \cap Wanted : AtOrBefore(e, last) => e \in ReadAfter(l.seen) \/ Accounted(e)
      BY BatchCovers
    <3>5. last # NULL
      BY <3>1, EventsAreOrdered
    <3>6. Sound(g)'
      BY <1>1, <2>1, <3>3, <3>4, <3>5 DEF Sound, Covered, Accounted
    <3> QED
      BY <1>1, <2>1, <2>3, <3>1, <3>2, <3>3, <3>6, OffsetIsPosition, StepKeepsInv
         DEF Covered, Accounted
  <2> QED
    BY <1>5, <2>2, <2>3 DEF ReadBatch
<1>6. ASSUME NEW e \in Events, Process(i, e) PROVE Inv'
  <2>1. UNCHANGED <<log, offset, late, exempt>>
    BY <1>6 DEF Process
  <2>2. e \in processed' /\ \A f \in Events : f \in processed => f \in processed'
    BY <1>6 DEF Process, TypeOK
  <2>3. PICK g \in Local :
           g = [l EXCEPT !.todo = @ \ {e}, !.pc = IF l.todo = {e} THEN "ack" ELSE "work"]
    BY <1>1, LocalFields, LocalValues
  <2>4. /\ g.pc = (IF l.todo = {e} THEN "ack" ELSE "work")
        /\ g.seen = l.seen /\ g.upto = l.upto /\ g.todo = l.todo \ {e}
    BY <1>1, <2>3 DEF Local
  <2>5. Goes(i, g) /\ l.pc = "work"
    BY <1>6, <2>3 DEF Process
  <2>6. Sound(g)'
    <3>1. g.seen # NULL => Covered(g.seen)'
      BY <1>1, <2>1, <2>2, <2>4, EventsAreOrdered DEF Sound, Covered, Accounted
    <3>2. l.upto # NULL /\ \A f \in log \cap Wanted :
             AtOrBefore(f, l.upto) => f \in l.todo \/ Accounted(f)
      BY <1>1, <2>5 DEF Sound
    <3>3. g.upto # NULL /\ \A f \in log \cap Wanted :
             AtOrBefore(f, g.upto) => f \in g.todo \/ Accounted(f)'
      BY <2>1, <2>2, <2>4, <3>2, EventsAreOrdered DEF Accounted
    <3>4. g.pc # "work" => g.todo = {}
      BY <2>4
    <3> QED
      BY <2>1, <2>4, <3>1, <3>2, <3>3, <3>4 DEF Sound
  <2>7. (offset.last_event_id # NULL =>
           offset.last_event_id \in log /\ Covered(offset.last_event_id))'
    BY <2>1, <2>2, OffsetIsPosition, EventsAreOrdered DEF Covered, Accounted
  <2> QED
    BY <1>1, <2>1, <2>2, <2>4, <2>5, <2>6, <2>7, EventsAreOrdered, StepKeepsInv
<1>7. CASE AckLookup(i)
  <2>1. PICK g \in Local : g = [l EXCEPT !.pc = "write", !.found = offset]
    BY <1>1, LocalValues DEF TypeOK, Row
  <2>2. g.pc = "write" /\ g.seen = l.seen /\ g.upto = l.upto /\ g.todo = l.todo
    BY <1>1, <2>1 DEF Local
  <2>3. UNCHANGED <<log, offset, late, exempt, processed>> /\ Goes(i, g) /\ l.pc = "ack"
    BY <1>7, <2>1 DEF AckLookup
  <2>4. Sound(g)'
    BY <1>1, <2>2, <2>3 DEF Sound, Covered, Accounted
  <2> QED
    BY <1>1, <2>2, <2>3, <2>4, OffsetIsPosition, StepKeepsInv DEF Covered, Accounted
<1>8. CASE AckWrite(i)
  <2>1. UNCHANGED <<log, late, exempt, processed>> /\ Goes(i, Idle) /\ l.pc = "write"
    BY <1>8 DEF AckWrite
  <2>2. offset' = offset \/ offset'.last_event_id = l.upto
    BY <1>8 DEF AckWrite
  <2>3. l.upto \in log /\ Covered(l.upto)
    BY <1>1, <2>1 DEF Sound, Covered
  <2>4. (offset.last_event_id # NULL =>
           offset.last_event_id \in log /\ Covered(offset.last_event_id))'
    BY <2>1, <2>2, <2>3, OffsetIsPosition DEF Covered, Accounted
  <2> QED
    BY <1>2, <1>3, <2>1, <2>4, StepKeepsInv
<1>9. CASE TailLookup(i)
  <2>1. UNCHANGED <<log, offset, late, exempt, processed>>
    BY <1>9 DEF TailLookup
  <2>2. PICK x \in log \cup {NULL} : Goes(i, [Idle EXCEPT !.pc = "tail", !.upto = x])
    BY <1>9 DEF TailLookup
  <2>3. PICK g \in Local : g = [Idle EXCEPT !.pc = "tail", !.upto = x]
    BY LocalValues DEF TypeOK
  <2>4. g.pc = "tail" /\ g.seen = NULL /\ g.upto = x /\ g.todo = {}
    BY <2>3 DEF Idle
  <2>5. Goes(i, g)
    BY <2>2, <2>3
  <2>6. Sound(g)'
    BY <2>4 DEF Sound
  <2> QED
    BY <2>1, <2>4, <2>5, <2>6, OffsetIsPosition, StepKeepsInv DEF Covered, Accounted
<1>10. CASE TailWrite(i)
  <2>1. UNCHANGED <<log, late, processed>> /\ Goes(i, Idle)
    BY <1>10 DEF TailWrite
  <2>2. CASE offset' = offset /\ exempt' = exempt
    BY <1>2, <1>3, <2>1, <2>2, OffsetIsPosition, StepKeepsInv DEF Covered, Accounted
  <2>3. CASE /\ offset'.last_event_id = l.upto
             /\ exempt' = exempt \cup {e \in log \ late : l.upto # NULL /\ AtOrBefore(e, l.upto)}
    <3>1. (offset.last_event_id # NULL =>
             offset.last_event_id \in log /\ Covered(offset.last_event_id))'
      BY <1>1, <2>1, <2>3 DEF Covered, Accounted
    <3> QED
      BY <1>2, <1>3, <2>1, <2>3, <3>1, StepKeepsInv
  <2> QED
    BY <1>10, <2>2, <2>3 DEF TailWrite
<1>11. CASE Crash(i)
  BY <1>2, <1>3, <1>11, OffsetIsPosition, StepKeepsInv DEF Crash, Covered, Accounted
<1> QED
  BY <1>4, <1>5, <1>6, <1>7, <1>8, <1>9, <1>10, <1>11 DEF Consume

\* The delivery invariant holds in every reachable state.
LEMMA DeliveryInvariant == Spec => []Inv
<1>1. Init => Inv
  BY DEF Init, Inv, Positions, Sound, NoRow, Idle
<1>2. TypeOK /\ Inv /\ [Next]_vars => Inv'
  <2> SUFFICES ASSUME TypeOK, Inv, [Next]_vars PROVE Inv'
    OBVIOUS
  <2>1. ASSUME NEW e \in Events, Append(e) PROVE Inv'
    BY <2>1, AppendKeepsInv
  <2>2. ASSUME NEW i \in Instances, Consume(i) \/ Crash(i) PROVE Inv'
    BY <2>2, ConsumerKeepsInv
  <2>3. CASE UNCHANGED vars
    BY <2>3 DEF vars, Inv, Positions, Sound, Covered, Accounted
  <2> QED
    BY <2>1, <2>2, <2>3 DEF Next
<1> QED
  BY <1>1, <1>2, EventLogTypeCorrect, PTL DEF Spec

\* At-least-once delivery: whatever the number of instances, crashes and
\* failed or overwritten acks, the cursor stands past an unprocessed row only
\* if that row was committed behind a position some reader had passed.
THEOREM EventLogDelivery == Spec => []SkippedOnlyIfLate
<1>1. TypeOK /\ Inv => SkippedOnlyIfLate
  BY DEF Inv, TypeOK, SkippedOnlyIfLate, Skipped, Covered, Accounted
<1> QED
  BY <1>1, EventLogTypeCorrect, DeliveryInvariant, PTL

\* With producers that commit in stamp order no row is ever late, so the
\* cursor never passes an unprocessed row: "the row remains in Postgres and
\* Koi catches up".
THEOREM InOrderDelivery == Spec /\ CommitsInStampOrder => []NothingSkipped
<1> DEFINE InOrder == [\A e \in log' \ log, f \in log : Before(f, e)]_vars
           NeverLate == late = {}
<1>1. Init => NeverLate
  BY DEF Init
<1>2. TypeOK /\ Inv /\ NeverLate /\ [Next]_vars /\ InOrder => NeverLate'
  <2> SUFFICES ASSUME TypeOK, Inv, late = {}, [Next]_vars, InOrder PROVE late' = {}
    OBVIOUS
  <2>1. ASSUME NEW e \in Events, Append(e) PROVE late' = {}
    <3>1. ASSUME NEW p \in Positions PROVE ~Before(e, p)
      <4>1. p \in log /\ log \subseteq Events /\ Before(p, e)
        BY <2>1 DEF Append, TypeOK, Inv, vars
      <4>2. ASSUME Before(e, p) PROVE FALSE
        <5>1. Before(p, p)
          BY <4>1, <4>2, BeforeIsTransitive DEF AtOrBefore
        <5>2. QED
          BY <4>1, <5>1, BeforeIsTotal
      <4>3. QED
        BY <4>2
    <3>2. QED
      BY <2>1, <3>1 DEF Append
  <2>2. ASSUME NEW i \in Instances, Consume(i) \/ Crash(i) PROVE late' = late
    BY <2>2 DEF Consume, Crash, GetCursor, ReadBatch, Process, AckLookup, AckWrite,
                TailLookup, TailWrite
  <2>3. CASE UNCHANGED vars
    BY <2>3 DEF vars
  <2> QED
    BY <2>1, <2>2, <2>3 DEF Next
<1>3. NeverLate /\ SkippedOnlyIfLate => NothingSkipped
  BY DEF SkippedOnlyIfLate, NothingSkipped
<1>4. Spec /\ [][\A e \in log' \ log, f \in log : Before(f, e)]_vars => []NeverLate
  BY <1>1, <1>2, EventLogTypeCorrect, DeliveryInvariant, PTL DEF Spec
<1> QED
  BY <1>3, <1>4, EventLogDelivery, PTL DEF CommitsInStampOrder

-----------------------------------------------------------------------------
\* What an instance in the middle of its loop knows of the cursor's row: a
\* cursor read is a row that exists, an ack that follows it finds that row, and
\* the batch it read ends beyond it.
Ahead(l) ==
    l.seen # NULL =>
        /\ offset.exists
        /\ l.pc = "write" => l.found.exists
        /\ l.pc \in {"work", "ack", "write"} => Before(l.seen, l.upto)

AheadInv ==
    /\ offset.last_event_id # NULL => offset.exists
    /\ \A i \in Instances : Ahead(inst[i])

\* It is kept by a step of instance i to a local state that has it, as long
\* as the cursor's row is not taken away.
LEMMA StepKeepsAhead ==
    ASSUME TypeOK, AheadInv, NEW i \in Instances, NEW l \in Local, Goes(i, l),
           offset.exists => offset'.exists, (offset.last_event_id # NULL => offset.exists)',
           Ahead(l)'
    PROVE  AheadInv'
<1>1. /\ inst'[i] = l
      /\ \A k \in Instances : k # i => inst'[k] = inst[k]
  BY LocalStep DEF TypeOK
<1>2. ASSUME NEW k \in Instances, k # i PROVE Ahead(inst[k])'
  BY <1>1, <1>2 DEF AheadInv, Ahead, Before
<1> QED
  BY <1>1, <1>2 DEF AheadInv

\* Every step keeps it.
LEMMA ConsumerKeepsAhead ==
    ASSUME TypeOK, Inv, AheadInv, NEW i \in Instances, Consume(i) \/ Crash(i)
    PROVE  AheadInv'
<1> DEFINE l == inst[i]
<1>1. l \in Local /\ Idle \in Local
  BY DEF TypeOK, Idle, Local, NoRow, Row
<1>2. CASE GetCursor(i)
  <2> DEFINE m == [Idle EXCEPT !.pc = "read", !.seen = offset.last_event_id]
  <2>1. m \in Local /\ m.pc = "read" /\ m.seen = offset.last_event_id
    BY DEF TypeOK, Row, NoRow, Local, Idle
  <2>2. offset' = offset /\ Goes(i, m)
    BY <1>2 DEF GetCursor
  <2>3. Ahead(m)'
    BY <2>1, <2>2 DEF AheadInv, Ahead
  <2> QED
    BY <2>1, <2>2, <2>3, StepKeepsAhead DEF AheadInv
<1>3. CASE ReadBatch(i)
  <2>1. ASSUME NEW last \in ReadAfter(l.seen),
               Goes(i, [l EXCEPT !.pc = "work", !.todo = ReadAfter(l.seen), !.upto = last])
        PROVE  AheadInv'
    <3>1. ReadAfter(l.seen) \in SUBSET Events /\ last \in Events
      BY DEF ReadAfter, After, TypeOK
    <3>2. PICK m \in Local :
             m = [l EXCEPT !.pc = "work", !.todo = ReadAfter(l.seen), !.upto = last]
      BY <1>1, <3>1, LocalValues
    <3>3. m.seen = l.seen /\ m.pc = "work" /\ m.upto = last
      BY <1>1, <3>2 DEF Local
    <3>4. l.seen # NULL => l.seen \in log
      BY PositionsOf DEF Inv
    <3>5. l.seen # NULL => Before(l.seen, last)
      BY <3>4 DEF ReadAfter, After
    <3>6. Ahead(l) /\ offset' = offset
      BY <1>3 DEF AheadInv, ReadBatch
    <3>7. Ahead(m)'
      BY <3>3, <3>5, <3>6 DEF Ahead, Before
    <3> QED
      BY <2>1, <3>2, <3>6, <3>7, StepKeepsAhead DEF AheadInv
  <2>2. CASE Goes(i, Idle)
    BY <1>1, <1>3, <2>2, StepKeepsAhead DEF ReadBatch, AheadInv, Ahead, Idle
  <2> QED
    BY <1>3, <2>1, <2>2 DEF ReadBatch
<1>4. ASSUME NEW e \in Events, Process(i, e) PROVE AheadInv'
  <2>1. l.todo \ {e} \in SUBSET Events
    BY <1>1, LocalFields
  <2>2. PICK m \in Local :
           m = [l EXCEPT !.todo = l.todo \ {e}, !.pc = IF l.todo = {e} THEN "ack" ELSE "work"]
    BY <1>1, <2>1, LocalValues
  <2>3. m.seen = l.seen /\ m.pc \in {"work", "ack"} /\ m.upto = l.upto /\ l.pc = "work"
    BY <1>1, <1>4, <2>2 DEF Local, Process
  <2>4. Ahead(l) /\ offset' = offset /\ Goes(i, m)
    BY <1>4, <2>2 DEF AheadInv, Process
  <2>5. Ahead(m)'
    BY <2>3, <2>4 DEF Ahead, Before
  <2> QED
    BY <2>4, <2>5, StepKeepsAhead DEF AheadInv
<1>5. CASE AckLookup(i)
  <2>1. offset \in Row
    BY DEF TypeOK
  <2>2. PICK m \in Local : m = [l EXCEPT !.pc = "write", !.found = offset]
    BY <1>1, <2>1, LocalValues
  <2>3. /\ m.seen = l.seen /\ m.pc = "write" /\ m.upto = l.upto
        /\ m.found = offset /\ l.pc = "ack"
    BY <1>1, <1>5, <2>2 DEF Local, AckLookup
  <2>4. Ahead(l) /\ offset' = offset /\ Goes(i, m)
    BY <1>5, <2>2 DEF AheadInv, AckLookup
  <2>5. Ahead(m)'
    BY <2>3, <2>4 DEF Ahead, Before
  <2> QED
    BY <2>4, <2>5, StepKeepsAhead DEF AheadInv
<1>6. CASE AckWrite(i)
  BY <1>1, <1>6, StepKeepsAhead DEF AckWrite, AheadInv, Ahead, Idle
<1>7. CASE TailLookup(i)
  <2>1. PICK last \in (log \cap UserEvents) \cup {NULL} :
           Goes(i, [Idle EXCEPT !.pc = "tail", !.upto = last])
    BY <1>7 DEF TailLookup
  <2> DEFINE m == [Idle EXCEPT !.pc = "tail", !.upto = last]
  <2>2. m \in Local /\ m.seen = NULL
    BY <2>1, EventsAreOrdered DEF TypeOK, Local, Idle, NoRow, Row
  <2>3. offset' = offset /\ Ahead(m)'
    BY <1>7, <2>2 DEF TailLookup, Ahead
  <2> HIDE DEF m
  <2> QED
    BY <2>1, <2>2, <2>3, StepKeepsAhead DEF AheadInv, m
<1>8. CASE TailWrite(i)
  BY <1>1, <1>8, StepKeepsAhead DEF TailWrite, AheadInv, Ahead, Idle
<1>9. CASE Crash(i)
  BY <1>1, <1>9, StepKeepsAhead DEF Crash, AheadInv, Ahead, Idle
<1> QED
  BY <1>2, <1>3, <1>4, <1>5, <1>6, <1>7, <1>8, <1>9 DEF Consume

\* event_log.py ack, for any number of instances and crashes: of a batch that
\* was read at the cursor's present position it moves the cursor forward, or
\* it had found the cursor at the batch's end and leaves it where another
\* instance has moved it since.
THEOREM EventLogAckAdvances == Spec => AckAdvances
<1>1. Init => AheadInv
  BY DEF Init, AheadInv, Ahead, NoRow, Idle
<1>2. TypeOK /\ Inv /\ AheadInv /\ [Next]_vars => AheadInv'
  <2> SUFFICES ASSUME TypeOK, Inv, AheadInv, [Next]_vars PROVE AheadInv'
    OBVIOUS
  <2>1. ASSUME NEW e \in Events, Append(e) PROVE AheadInv'
    BY <2>1 DEF Append, AheadInv, Ahead, Before
  <2>2. ASSUME NEW i \in Instances, Consume(i) \/ Crash(i) PROVE AheadInv'
    BY <2>2, ConsumerKeepsAhead
  <2>3. CASE UNCHANGED vars
    BY <2>3 DEF vars, AheadInv, Ahead, Before
  <2> QED
    BY <2>1, <2>2, <2>3 DEF Next
<1>3. TypeOK /\ AheadInv =>
        \A i \in Instances :
           AckWrite(i) /\ inst[i].seen = offset.last_event_id /\ inst[i].seen # NULL =>
              IF inst[i].found.last_event_id = inst[i].upto
              THEN offset' = offset
              ELSE Before(offset.last_event_id, offset'.last_event_id)
  <2> SUFFICES ASSUME TypeOK, AheadInv, NEW i \in Instances, AckWrite(i),
                      inst[i].seen = offset.last_event_id, inst[i].seen # NULL
               PROVE  IF inst[i].found.last_event_id = inst[i].upto
                      THEN offset' = offset
                      ELSE Before(offset.last_event_id, offset'.last_event_id)
    OBVIOUS
  <2>1. inst[i].pc = "write" /\ inst[i].found.exists /\ Before(inst[i].seen, inst[i].upto)
    BY DEF AheadInv, Ahead, AckWrite
  <2>2. CASE inst[i].found.last_event_id = inst[i].upto
    BY <2>1, <2>2 DEF AckWrite, Flushes
  <2>3. CASE inst[i].found.last_event_id # inst[i].upto
    <3>1. offset' = [exists |-> TRUE, last_event_id |-> inst[i].upto]
      BY <2>1, <2>3 DEF AckWrite, Flushes
    <3>2. QED
      BY <2>1, <2>3, <3>1
  <2>4. QED
    BY <2>2, <2>3
<1> QED
  BY <1>1, <1>2, <1>3, EventLogTypeCorrect, DeliveryInvariant, PTL DEF Spec, AckAdvances
=============================================================================
