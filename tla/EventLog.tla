------------------------------- MODULE EventLog -------------------------------
(***************************************************************************)
(* The events table and the cursor of one named consumer                   *)
(* (clients/event_log.py), with the producers that append to it and the    *)
(* instances of the consumer that read, process and acknowledge.           *)
(*                                                                         *)
(* An event carries an id and a created_at stamp, both taken by the        *)
(* producer when it builds the Event (submit() even takes the job's own    *)
(* created_at), some time before its row is committed.  Rows therefore     *)
(* become visible in any order with respect to (created_at, event_id).     *)
(***************************************************************************)
EXTENDS Naturals, FiniteSets

CONSTANTS
    Events,      \* event ids; ids are minted in numeric order
    CreatedAt,   \* the stamp each event carries
    UserEvents,  \* events of the consumer's user
    Wanted,      \* events the consumer's types and user filters let through
    Instances,   \* processes reading under the consumer's name
    Limit,       \* read_after's limit
    Starters,    \* instances that call initialize_consumer_at_user_tail
    MaxCrashes,  \* bound: crashes of instances in a behaviour
    NULL

ASSUME EventsAreOrdered ==
    /\ Events \subseteq Nat /\ CreatedAt \in [Events -> Nat] /\ NULL \notin Nat
    /\ Wanted \subseteq UserEvents /\ UserEvents \subseteq Events
    /\ IsFiniteSet(Events)

ASSUME LimitIsPositive == Limit \in Nat \ {0}
ASSUME CrashBound == MaxCrashes \in Nat

VARIABLES
    log,       \* committed rows of the events table
    offset,    \* the consumer's row of event_consumer_offsets
    inst,      \* per instance: its place in the read / process / ack loop
    crashes,   \* number of crashes so far
    processed, \* history: the events some instance has processed
    late,      \* history: events committed behind a position already read past
    exempt     \* history: the past an initialize_consumer_at_user_tail left out

vars == <<log, offset, inst, crashes, processed, late, exempt>>

-----------------------------------------------------------------------------
\* ORDER BY created_at, event_id
Before(e, f) ==
    \/ CreatedAt[e] < CreatedAt[f]
    \/ CreatedAt[e] = CreatedAt[f] /\ e < f

AtOrBefore(e, p) == e = p \/ Before(e, p)

\* Fault: ids alone order the rows.
AfterById(cursor) ==
    IF cursor = NULL THEN log ELSE {e \in log : cursor < e}

\* The rows after a cursor: all of them for None, by the cursor row's
\* (created_at, event_id), by event_id alone when there is no such row.
After(cursor) ==
    IF cursor = NULL THEN log
    ELSE IF cursor \in log THEN {e \in log : Before(cursor, e)}
    ELSE {e \in log : cursor < e}

\* Fault: a batch is returned only when there are more rows behind it.
ReadFullOnly(cursor) ==
    LET found == After(cursor) \cap Wanted
    IN  {e \in found : /\ Cardinality({f \in found : Before(f, e)}) < Limit
                       /\ Cardinality(found) > Limit}

\* read_after: the first Limit wanted rows after the cursor.
ReadAfter(cursor) ==
    LET found == After(cursor) \cap Wanted
    IN  {e \in found : Cardinality({f \in found : Before(f, e)}) < Limit}

Row == [exists : BOOLEAN, last_event_id : Events \cup {NULL}]

NoRow == [exists |-> FALSE, last_event_id |-> NULL]

\* pc: idle, read (cursor known), work (batch read), ack (batch done), write
\* (offset row looked up), tail (tail looked up by initialize).
\* seen: the cursor the batch was read after; todo: rest of the batch;
\* upto: its last event; found: the offset row as the lookup found it.
Local == [ pc      : {"idle", "read", "work", "ack", "write", "tail"},
           seen    : Events \cup {NULL},
           todo    : SUBSET Events,
           upto    : Events \cup {NULL},
           found   : Row ]

Idle == [pc |-> "idle", seen |-> NULL, todo |-> {}, upto |-> NULL, found |-> NoRow]

TypeOK ==
    /\ log \subseteq Events
    /\ offset \in Row
    /\ inst \in [Instances -> Local]
    /\ crashes \in 0..MaxCrashes
    /\ processed \subseteq Events
    /\ late \subseteq Events
    /\ exempt \subseteq Events

Init ==
    /\ log = {}
    /\ offset = NoRow
    /\ inst = [i \in Instances |-> Idle]
    /\ crashes = 0
    /\ processed = {}
    /\ late = {}
    /\ exempt = {}

-----------------------------------------------------------------------------
(* Producers *)

\* Every event some cursor, running batch or pending write stands at.
Positions ==
    ({offset.last_event_id} \cup {inst[i].seen : i \in Instances}
        \cup {inst[i].upto : i \in Instances}) \ {NULL}

\* append (and the event rows submit and create write): one INSERT.  A rank.*
\* event whose envelope and payload disagree is refused before it.
Append(e) ==
    /\ e \notin log
    /\ log' = log \cup {e}
    /\ late' = IF \E p \in Positions : Before(e, p) THEN late \cup {e} ELSE late
    /\ UNCHANGED <<offset, inst, crashes, processed, exempt>>

-----------------------------------------------------------------------------
(* An instance of the consumer *)

Goes(i, local) == inst' = [inst EXCEPT ![i] = local]

\* read_for_consumer, first session: get_cursor.
GetCursor(i) ==
    /\ inst[i].pc = "idle"
    /\ Goes(i, [Idle EXCEPT !.pc = "read", !.seen = offset.last_event_id])
    /\ UNCHANGED <<log, offset, crashes, processed, late, exempt>>

\* read_for_consumer, second session: read_after; nothing new, nothing to do.
ReadBatch(i) ==
    /\ inst[i].pc = "read"
    /\ \/ /\ ReadAfter(inst[i].seen) = {}
          /\ Goes(i, Idle)
       \/ \E last \in ReadAfter(inst[i].seen) :
             /\ \A e \in ReadAfter(inst[i].seen) : AtOrBefore(e, last)
             /\ Goes(i, [inst[i] EXCEPT !.pc = "work",
                                        !.todo = ReadAfter(inst[i].seen),
                                        !.upto = last])
    /\ UNCHANGED <<log, offset, crashes, processed, late, exempt>>

\* Fault: the batch is acknowledged after its first event.
ProcessFirst(i, e) ==
    /\ inst[i].pc = "work"
    /\ e \in inst[i].todo
    /\ \A f \in inst[i].todo : ~Before(f, e)
    /\ processed' = processed \cup {e}
    /\ Goes(i, [inst[i] EXCEPT !.todo = {}, !.pc = "ack"])
    /\ UNCHANGED <<log, offset, crashes, late, exempt>>

\* The consumer handles the events of its batch in order.
Process(i, e) ==
    /\ inst[i].pc = "work"
    /\ e \in inst[i].todo
    /\ \A f \in inst[i].todo : ~Before(f, e)
    /\ processed' = processed \cup {e}
    /\ Goes(i, [inst[i] EXCEPT !.todo = @ \ {e},
                               !.pc = IF inst[i].todo = {e} THEN "ack" ELSE "work"])
    /\ UNCHANGED <<log, offset, crashes, late, exempt>>

\* Fault: the id found is taken for the row.
AckLookupId(i) ==
    /\ inst[i].pc = "ack"
    /\ Goes(i, [inst[i] EXCEPT !.pc = "write", !.found = offset.last_event_id])
    /\ UNCHANGED <<log, offset, crashes, processed, late, exempt>>

\* ack: look the row up ...
AckLookup(i) ==
    /\ inst[i].pc = "ack"
    /\ Goes(i, [inst[i] EXCEPT !.pc = "write", !.found = offset])
    /\ UNCHANGED <<log, offset, crashes, processed, late, exempt>>

\* The flush writes last_event_id unless the row was found with that very
\* value: an attribute set to what was loaded is left out of the UPDATE.
Flushes(l) == ~l.found.exists \/ l.found.last_event_id # l.upto

\* ... then insert or overwrite it.  Two first acks collide on the primary
\* key: the second commit fails and its caller starts over.
AckWrite(i) ==
    /\ inst[i].pc = "write"
    /\ IF Flushes(inst[i]) /\ (inst[i].found.exists \/ ~offset.exists)
       THEN offset' = [exists |-> TRUE, last_event_id |-> inst[i].upto]
       ELSE UNCHANGED offset
    /\ Goes(i, Idle)
    /\ UNCHANGED <<log, crashes, processed, late, exempt>>

\* initialize_consumer_at_user_tail: nothing to do when the row exists, else
\* find the user's latest event ...
TailLookup(i) ==
    /\ i \in Starters
    /\ inst[i].pc = "idle"
    /\ ~offset.exists
    /\ \E last \in (log \cap UserEvents) \cup {NULL} :
          /\ last = NULL => log \cap UserEvents = {}
          /\ \A e \in log \cap UserEvents : AtOrBefore(e, last)
          /\ Goes(i, [Idle EXCEPT !.pc = "tail", !.upto = last])
    /\ UNCHANGED <<log, offset, crashes, processed, late, exempt>>

\* ... and insert a row that stands there.  A concurrent insert makes this
\* one fail on the primary key.
TailWrite(i) ==
    /\ inst[i].pc = "tail"
    /\ IF offset.exists
       THEN UNCHANGED <<offset, exempt>>
       ELSE /\ offset' = [exists |-> TRUE, last_event_id |-> inst[i].upto]
            /\ exempt' = exempt \cup {e \in log \ late :
                            inst[i].upto # NULL /\ AtOrBefore(e, inst[i].upto)}
    /\ Goes(i, Idle)
    /\ UNCHANGED <<log, crashes, processed, late>>

\* An instance dies anywhere in its loop and comes back.
Crash(i) ==
    /\ crashes < MaxCrashes
    /\ inst[i].pc # "idle"
    /\ crashes' = crashes + 1
    /\ Goes(i, Idle)
    /\ UNCHANGED <<log, offset, processed, late, exempt>>

-----------------------------------------------------------------------------
Consume(i) ==
    \/ GetCursor(i) \/ ReadBatch(i) \/ AckLookup(i) \/ AckWrite(i)
    \/ TailLookup(i) \/ TailWrite(i)
    \/ \E e \in Events : Process(i, e)

Next ==
    \/ \E e \in Events : Append(e)
    \/ \E i \in Instances : Consume(i) \/ Crash(i)

\* A consumer keeps polling; no producer is obliged to append.
Fairness == \A i \in Instances : WF_vars(Consume(i))

Spec == Init /\ [][Next]_vars /\ Fairness

-----------------------------------------------------------------------------
(* Properties *)

\* Wanted rows the cursor stands past that no instance ever processed.
Skipped ==
    {e \in log \cap Wanted :
        /\ offset.last_event_id # NULL
        /\ AtOrBefore(e, offset.last_event_id)
        /\ e \notin processed
        /\ e \notin exempt}

\* At-least-once delivery up to late commits: whatever the crashes, colliding
\* acks and instances, the cursor passes an unprocessed event only when the
\* event's row was committed behind a position that had already been read.
SkippedOnlyIfLate == Skipped \subseteq late

\* DATA_ARCHITECTURE.md: "If Koi is down when Orca records rank.failed, the
\* row remains in Postgres and Koi catches up when it restarts."
NothingSkipped == Skipped = {}

\* Producers that commit in stamp order, such as a single sequential one.
CommitsInStampOrder ==
    [][\A e \in log' \ log, f \in log : Before(f, e)]_vars

\* "Advance a consumer cursor": ack overwrites the cursor unconditionally, and
\* instances can move it back; but an ack of the batch that was read at the
\* cursor's present position moves it forward, unless ack found the cursor
\* at the batch's end already, so that the flush left it out, and another
\* instance moved it back since.
AckAdvances ==
    [][\A i \in Instances :
          AckWrite(i) /\ inst[i].seen = offset.last_event_id /\ inst[i].seen # NULL =>
              IF inst[i].found.last_event_id = inst[i].upto
              THEN offset' = offset
              ELSE Before(offset.last_event_id, offset'.last_event_id)]_vars

\* The consumer catches up again and again: every row it wants is processed in
\* the end, unless it was committed late or left out by an initialization.
EventuallyProcessed == []<>(log \cap Wanted \subseteq processed \cup late \cup exempt)
=============================================================================
