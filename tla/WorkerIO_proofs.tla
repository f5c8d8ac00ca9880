--------------------------- MODULE WorkerIO_proofs ---------------------------
(***************************************************************************)
(* Workers, the credential store and the bucket, for any chunks, keys,     *)
(* workers, page sizes and restarts.                                       *)
(***************************************************************************)
EXTENDS WorkerIO, Credentials_proofs, Ascending_proofs

-----------------------------------------------------------------------------
(* What holds between the calls *)

\* What may be left of a task's calls, with its records read, with its object
\* named.
Plans == Orders \cup
    { <<"get", "resolve", "name", "put">>, <<"resolve", "name", "put">>, <<"name", "put">>,
      <<"name", "resolve", "get", "put">>, <<"resolve", "get", "put">>, <<"get", "put">>, <<"put">> }
HasRecords == {<<"resolve", "name", "put">>, <<"name", "put">>, <<"put">>}
HasName == {<<"resolve", "get", "put">>, <<"get", "put">>, <<"put">>}

\* A task is as far as the calls it has left: it has read its whole chunk, and
\* it has named its object.
Sound(t) ==
    /\ DOMAIN t = {"chunk", "uri", "calls", "key", "records"}
    /\ t.chunk \in Inputs \cup {0} /\ t.uri \in Uris
    /\ t.records \in Seq({"record"})
    /\ t.chunk = 0 => t = NoTask
    /\ t.chunk # 0 =>
          /\ t.calls \in Plans
          /\ t.calls \in HasRecords =>
                Parses(Body[t.chunk]) /\ t.records = Records(Body[t.chunk])
          /\ t.key \in IF t.calls \notin HasName THEN {0}
                       ELSE IF t.uri = 0 THEN Parts ELSE {t.uri}

\* Two tasks are on different chunks and write different parts.
Apart(t, u) ==
    /\ t.chunk # 0 => u.chunk # t.chunk
    /\ t.key \in Parts => u.key # t.key

\* What a worker's part holds is its chunk's, and past its first call the ref
\* of its chunk was live.
OnTask(w) ==
    /\ Sound(task[w])
    /\ task[w].chunk # 0 /\ task[w].calls \notin Orders => w \in fresh
    /\ task[w].key \in Parts \cap DOMAIN bucket => bucket[task[w].key].chunk = task[w].chunk
    /\ \A v \in Workers \ {w} : Apart(task[w], task[v])

\* The request a task has open is for its chunk's ref.
Asking(w) ==
    IF request[w].pc = "idle" THEN w \notin lived
    ELSE /\ Now(w) = "resolve" /\ request[w].ref = RefOf[task[w].chunk]
         /\ w \in lived => w \in fresh

\* The objects: the inputs as they were, and whole outputs.
Objects ==
    /\ IsFiniteSet(DOMAIN bucket) /\ Inputs \subseteq DOMAIN bucket /\ DOMAIN bucket \subseteq Keys
    /\ \A c \in Inputs : bucket[c] = [chunk |-> c, rows |-> Body[c]]
    /\ \A k \in DOMAIN bucket \ Inputs :
          /\ bucket[k] = [chunk |-> bucket[k].chunk, rows |-> bucket[k].rows]
          /\ bucket[k].chunk \in Inputs
          /\ Parses(Body[bucket[k].chunk]) /\ bucket[k].rows = Records(Body[bucket[k].chunk])

Kept ==
    /\ written \subseteq Inputs \X Uris
    /\ \A p \in written : Records(Body[p[1]]) # <<>> =>
          IF p[2] = 0 THEN PartsOf(p[1]) # {} ELSE p[2] \in DOMAIN bucket

\* A chunk has a part for each time it was handed out at most, and one fewer
\* while a worker is on it whose part is not there.
Counts(c) ==
    /\ Cardinality(PartsOf(c)) <= starts[c]
    /\ (\E w \in Workers : task[w].chunk = c /\ task[w].key \notin PartsOf(c)) =>
          Cardinality(PartsOf(c)) < starts[c]

\* The listing has every stable key up to its marker, in order.
Listed ==
    /\ DOMAIN lister = {"pc", "marker", "found"}
    /\ lister.pc \in {"idle", "listing", "done"} /\ lister.marker \in Nat
    /\ lister.found \in Seq(DOMAIN bucket)
    /\ lister.pc = "idle" => lister = NoListing /\ stable = {}
    /\ \A i \in DOMAIN lister.found : lister.found[i] <= lister.marker
    /\ \A i, j \in DOMAIN lister.found : i < j => lister.found[i] < lister.found[j]
    /\ stable \subseteq DOMAIN bucket
    /\ \A k \in stable : k <= lister.marker \/ lister.pc = "done" => k \in Range(lister.found)

IOInv ==
    /\ CredTypeOK /\ DOMAIN task = Workers /\ starts \in [Inputs -> Nat]
    /\ \A w \in Workers : Watched(w) /\ OnTask(w) /\ Asking(w)
    /\ Objects /\ Kept /\ Listed
    /\ \A c \in Inputs : Counts(c)

-----------------------------------------------------------------------------
(* Records, calls and steps *)

LEMMA KeyFacts ==
    /\ Inputs \cap (Parts \cup Exact) = {} /\ Parts \cap Exact = {}
    /\ Keys \subseteq Nat /\ 0 \notin Keys /\ 0 \notin Inputs /\ 0 \notin Parts /\ 0 \notin Exact
    /\ IsFiniteSet(Inputs)
  BY KeysAreOrdered, KeysDiffer, BodiesAreRows DEF Keys

LEMMA RecordsAreRecords ==
    ASSUME NEW c \in Inputs
    PROVE  Records(Body[c]) \in Seq({"record"})
<1> DEFINE rows == Body[c]
           places == {i \in DOMAIN rows : rows[i] = "record"}
           kept == Ascending(places)
<1>1. rows \in Seq(Row)
  BY BodiesAreRows
<1>2. places \in SUBSET Nat /\ places \in SUBSET (1..Len(rows)) /\ Len(rows) \in Nat
  BY <1>1
<1>3. IsFiniteSet(places)
  <2>1. IsFiniteSet(1..Len(rows))
    BY <1>2, FS_Interval
  <2>2. QED
    BY <1>2, <2>1, FS_Subset
<1>4. kept \in Seq(places) /\ DOMAIN kept = 1..Cardinality(places) /\ Cardinality(places) \in Nat
  BY <1>2, <1>3, AscendingLists, FS_CardinalityType
<1>5. \A n \in DOMAIN kept : rows[kept[n]] = "record"
  <2> HIDE DEF kept
  <2>1. \A n \in DOMAIN kept : kept[n] \in places
    BY <1>4
  <2>2. QED
    BY <2>1
<1>6. Records(rows) = [n \in DOMAIN kept |-> rows[kept[n]]]
  BY DEF Records
<1> HIDE DEF kept, rows, places
<1>7. [n \in DOMAIN kept |-> rows[kept[n]]] \in Seq({"record"})
  BY <1>4, <1>5
<1>8. QED
  BY <1>6, <1>7 DEF rows

\* What the next call leaves to do.
LEMMA CallsLeft ==
    ASSUME NEW calls \in Plans
    PROVE  /\ Head(calls) \in {"resolve", "get", "name", "put"}
           /\ Head(calls) # "put" => Tail(calls) \in Plans \ Orders
           /\ Head(calls) = "resolve" =>
                 /\ Tail(calls) \in HasRecords <=> calls \in HasRecords
                 /\ Tail(calls) \in HasName <=> calls \in HasName
           /\ Head(calls) = "get" =>
                 Tail(calls) \in HasRecords /\ (Tail(calls) \in HasName <=> calls \in HasName)
           /\ Head(calls) = "name" =>
                 /\ Tail(calls) \in HasName /\ calls \notin HasName
                 /\ Tail(calls) \in HasRecords <=> calls \in HasRecords
           /\ Head(calls) = "put" => calls \in HasRecords /\ calls \in HasName /\ calls \notin Orders
           /\ Head(calls) \in {"get", "name"} => calls \notin Orders
           /\ calls \in Orders => calls \notin HasRecords /\ calls \notin HasName
<1>1. CASE calls = Eager
  BY <1>1 DEF Plans, Orders, HasRecords, HasName, Eager, Lazy
<1>2. CASE calls = Lazy
  BY <1>2 DEF Plans, Orders, HasRecords, HasName, Eager, Lazy
<1>3. CASE calls = <<"get", "resolve", "name", "put">>
  BY <1>3 DEF Plans, Orders, HasRecords, HasName, Eager, Lazy
<1>4. CASE calls = <<"resolve", "name", "put">>
  BY <1>4 DEF Plans, Orders, HasRecords, HasName, Eager, Lazy
<1>5. CASE calls = <<"name", "put">>
  BY <1>5 DEF Plans, Orders, HasRecords, HasName, Eager, Lazy
<1>6. CASE calls = <<"name", "resolve", "get", "put">>
  BY <1>6 DEF Plans, Orders, HasRecords, HasName, Eager, Lazy
<1>7. CASE calls = <<"resolve", "get", "put">>
  BY <1>7 DEF Plans, Orders, HasRecords, HasName, Eager, Lazy
<1>8. CASE calls = <<"get", "put">>
  BY <1>8 DEF Plans, Orders, HasRecords, HasName, Eager, Lazy
<1>9. CASE calls = <<"put">>
  BY <1>9 DEF Plans, Orders, HasRecords, HasName, Eager, Lazy
<1>10. QED
  BY <1>1, <1>2, <1>3, <1>4, <1>5, <1>6, <1>7, <1>8, <1>9 DEF Plans, Orders

\* Every step is a worker's, the credential store's or the listing's.
LEMMA StepsOfIO ==
    ASSUME [Next]_vars
    PROVE  \/ \E w \in Workers, chunk \in Inputs, uri \in Uris, calls \in Orders :
                 Start(w, chunk, uri, calls)
           \/ \E w \in Workers :
                 \/ Request(w) \/ HaveSecret(w) \/ Get(w) \/ \E k \in Keys : Name(w, k)
                 \/ PutAnswered(w) \/ PutUnanswered(w) \/ Fail(w)
           \/ CredStep \/ IndexStep \/ UNCHANGED vars
  BY DEF Next, WorkerNext

\* A task that goes on stays fresh.
LEMMA FreshStays ==
    ASSUME [Next]_vars, NEW w \in Workers, task'[w].chunk # 0, w \in fresh
    PROVE  w \in fresh'
  BY DEF Next, Freshen, vars, ioVars

\* The tasks change one at a time.
LEMMA TaskStep ==
    ASSUME DOMAIN task = Workers, [Next]_vars
    PROVE  task' = task \/ \E w \in Workers : \E t : task' = [task EXCEPT ![w] = t]
  BY StepsOfIO DEF Start, Request, HaveSecret, Get, Name, Return, PutAnswered, PutUnanswered, Fail,
     CredStep, IndexStep, vars, ioVars

LEMMA WorkersStay == ASSUME DOMAIN task = Workers, [Next]_vars PROVE DOMAIN task' = Workers
  BY TaskStep

\* What is written, and by whom.
LEMMA BucketStep ==
    ASSUME [Next]_vars
    PROVE  \/ bucket' = bucket
           \/ \E w \in Workers :
                 /\ Now(w) = "put" /\ PutObject(task[w].key, task[w].chunk, task[w].records)
                 /\ PutAnswered(w) \/ PutUnanswered(w)
  BY StepsOfIO DEF Start, Request, HaveSecret, Get, Name, PutAnswered, PutUnanswered, Fail,
     CredStep, IndexStep, StartListing, ListPage, EndListing, vars, ioVars, dataVars

\* A worker that puts has everything: its key, and all records of its chunk.
LEMMA PuttingWorker ==
    ASSUME NEW w \in Workers, OnTask(w), Now(w) = "put"
    PROVE  /\ task[w].chunk \in Inputs /\ w \in fresh
           /\ task[w].key \in IF task[w].uri = 0 THEN Parts ELSE {task[w].uri}
           /\ task[w].key \in Parts \cup Exact
           /\ Parses(Body[task[w].chunk]) /\ task[w].records = Records(Body[task[w].chunk])
<1>1. /\ task[w].chunk # 0 /\ task[w].calls \in Plans /\ Head(task[w].calls) = "put"
      /\ task[w].chunk \in Inputs
  BY DEF Now, Busy, OnTask, Sound
<1>2. task[w].calls \in HasRecords /\ task[w].calls \in HasName /\ task[w].calls \notin Orders
  BY <1>1, CallsLeft
<1>3. QED
  BY <1>1, <1>2 DEF OnTask, Sound, Uris

-----------------------------------------------------------------------------
(* Credentials *)

\* The credential store takes its own steps, but for a call that is abandoned.
LEMMA CredentialSteps ==
    ASSUME IOInv, [Next]_vars
    PROVE  [CredNext]_credVars \/ \E w \in Workers : Ask(w, NoRequest)
<1>1. ASSUME NEW w \in Workers, Request(w) PROVE CredNext
  <2>1. task[w].chunk \in Inputs
    BY <1>1 DEF Request, Now, Busy, IOInv, OnTask, Sound
  <2>2. RefOf[task[w].chunk] \in Refs
    BY <2>1, RefsAreRefs
  <2>3. QED
    BY <1>1, <2>2 DEF Request, CredNext
<1>2. CASE CredStep
  BY <1>2 DEF CredStep, CredNext
<1>3. QED
  BY <1>1, <1>2, StepsOfIO DEF Start, HaveSecret, Resolved, Get, Name, PutAnswered, PutUnanswered,
     Fail, IndexStep, vars, credVars

LEMMA CredTypeKept == ASSUME IOInv, [Next]_vars PROVE CredTypeOK'
<1>1. ASSUME NEW w \in Workers, Ask(w, NoRequest) PROVE CredTypeOK'
  <2>1. NoRequest \in Requests /\ NoRequest.pc = "idle" /\ NoRequest.status = 0
    BY DEF NoRequest, Requests
  <2>2. QED
    BY <1>1, <2>1, AskIsTyped DEF IOInv
<1>2. QED
  BY <1>1, CredentialSteps, CredTypeStep DEF IOInv

LEMMA WatchedKept ==
    ASSUME IOInv, [Next]_vars, NEW w \in Workers
    PROVE  Watched(w)'
<1>1. CredTypeOK /\ CredTypeOK' /\ Watched(w)
  BY CredTypeKept DEF IOInv
<1>2. ASSUME NEW v \in Workers, Ask(v, NoRequest) PROVE Watched(w)'
  <2>1. /\ UNCHANGED <<now, creds>> /\ Watch
        /\ request'[w] = IF w = v THEN NoRequest ELSE request[w]
    BY <1>1, <1>2 DEF Ask, CredTypeOK
  <2>2. CASE w = v
    BY <2>1, <2>2 DEF Watched, NoRequest
  <2>3. CASE w # v
    <3>1. request'[w].pc # "idle" =>
             (w \in lived => w \in lived') /\ (w \in lapsed => w \in lapsed')
      BY <2>1 DEF Watch
    <3>2. request'[w].status # 0 => request'[w].pc # "idle"
      BY <1>1 DEF CredTypeOK
    <3>3. QED
      BY <1>1, <2>1, <2>3, <3>1, <3>2 DEF Watched, Live
  <2>4. QED
    BY <2>2, <2>3
<1>3. QED
  BY <1>1, <1>2, CredentialSteps, WatchedStep

-----------------------------------------------------------------------------
(* Objects *)

\* The bucket after a put.
LEMMA AfterPut ==
    ASSUME NEW k, NEW chunk, NEW records, PutObject(k, chunk, records)
    PROVE  /\ DOMAIN bucket' = DOMAIN bucket \cup {k}
           /\ bucket'[k] = [chunk |-> chunk, rows |-> records]
           /\ \A q \in DOMAIN bucket : q # k => bucket'[q] = bucket[q]
  BY DEF PutObject

\* Objects stay, and a part stays its chunk's.
LEMMA PartsStay ==
    ASSUME IOInv, [Next]_vars
    PROVE  /\ DOMAIN bucket \subseteq DOMAIN bucket'
           /\ \A k \in Parts \cap DOMAIN bucket : bucket'[k].chunk = bucket[k].chunk
           /\ \A c : PartsOf(c) \subseteq PartsOf(c)'
<1>1. CASE bucket' = bucket
  BY <1>1 DEF PartsOf
<1>2. ASSUME NEW w \in Workers, Now(w) = "put",
             PutObject(task[w].key, task[w].chunk, task[w].records)
      PROVE  /\ DOMAIN bucket \subseteq DOMAIN bucket'
             /\ \A k \in Parts \cap DOMAIN bucket : bucket'[k].chunk = bucket[k].chunk
  <2>1. OnTask(w)
    BY DEF IOInv
  <2>2. task[w].key \in Parts \cap DOMAIN bucket => bucket[task[w].key].chunk = task[w].chunk
    BY <2>1 DEF OnTask
  <2>3. /\ DOMAIN bucket' = DOMAIN bucket \cup {task[w].key}
        /\ bucket'[task[w].key] = [chunk |-> task[w].chunk, rows |-> task[w].records]
        /\ \A q \in DOMAIN bucket : q # task[w].key => bucket'[q] = bucket[q]
    BY <1>2, AfterPut
  <2>4. bucket'[task[w].key].chunk = task[w].chunk
    BY <2>3
  <2>5. QED
    BY <2>2, <2>3, <2>4
<1>3. CASE bucket' # bucket
  <2>1. /\ DOMAIN bucket \subseteq DOMAIN bucket'
        /\ \A k \in Parts \cap DOMAIN bucket : bucket'[k].chunk = bucket[k].chunk
    BY <1>2, <1>3, BucketStep
  <2>2. QED
    BY <2>1 DEF PartsOf
<1>4. QED
  BY <1>1, <1>3

LEMMA ObjectsStep == ASSUME IOInv, [Next]_vars PROVE Objects'
<1>1. CASE bucket' = bucket
  BY <1>1 DEF IOInv, Objects
<1>2. ASSUME NEW w \in Workers, Now(w) = "put",
             PutObject(task[w].key, task[w].chunk, task[w].records)
      PROVE  Objects'
  <2> DEFINE key == task[w].key
             chunk == task[w].chunk
             records == task[w].records
  <2>1. /\ chunk \in Inputs /\ key \in Parts \cup Exact
        /\ Parses(Body[chunk]) /\ records = Records(Body[chunk])
    BY <1>2, PuttingWorker DEF IOInv
  <2>2. /\ DOMAIN bucket' = DOMAIN bucket \cup {key}
        /\ bucket'[key] = [chunk |-> chunk, rows |-> records]
        /\ \A q \in DOMAIN bucket : q # key => bucket'[q] = bucket[q]
    BY <1>2, AfterPut
  <2>3. Objects
    BY DEF IOInv
  <2>4. IsFiniteSet(DOMAIN bucket')
    BY <2>2, <2>3, FS_AddElement DEF Objects
  <2>5. key \notin Inputs /\ key \in Keys
    BY <2>1, KeyFacts DEF Keys
  <2> HIDE DEF key, chunk, records
  <2>6. Inputs \subseteq DOMAIN bucket' /\ DOMAIN bucket' \subseteq Keys
    BY <2>2, <2>3, <2>5 DEF Objects
  <2>7. \A c \in Inputs : bucket'[c] = [chunk |-> c, rows |-> Body[c]]
    BY <2>2, <2>3, <2>5 DEF Objects
  <2>8. \A k \in DOMAIN bucket' \ Inputs :
          /\ bucket'[k] = [chunk |-> bucket'[k].chunk, rows |-> bucket'[k].rows]
          /\ bucket'[k].chunk \in Inputs
          /\ Parses(Body[bucket'[k].chunk]) /\ bucket'[k].rows = Records(Body[bucket'[k].chunk])
    <3>1. ASSUME NEW k \in DOMAIN bucket' \ Inputs
          PROVE  /\ bucket'[k] = [chunk |-> bucket'[k].chunk, rows |-> bucket'[k].rows]
                 /\ bucket'[k].chunk \in Inputs
                 /\ Parses(Body[bucket'[k].chunk])
                 /\ bucket'[k].rows = Records(Body[bucket'[k].chunk])
      <4>1. CASE k = key
        <5>1. /\ bucket'[k] = [chunk |-> bucket'[k].chunk, rows |-> bucket'[k].rows]
              /\ bucket'[k].chunk = chunk /\ bucket'[k].rows = records
          BY <2>2, <4>1
        <5>2. QED
          BY <2>1, <5>1
      <4>2. CASE k # key
        <5>1. k \in DOMAIN bucket \ Inputs /\ bucket'[k] = bucket[k]
          BY <2>2, <4>2
        <5>2. QED
          BY <2>3, <5>1 DEF Objects
      <4>3. QED
        BY <4>1, <4>2
    <3>2. QED
      BY <3>1
  <2>9. QED
    BY <2>4, <2>6, <2>7, <2>8 DEF Objects
<1>3. QED
  BY <1>1, <1>2, BucketStep

-----------------------------------------------------------------------------
(* Tasks *)

\* The objects under the part a task writes are its chunk's after any step.
LEMMA PartIsOwn ==
    ASSUME IOInv, [Next]_vars, NEW w \in Workers, task[w].key \in Parts \cap DOMAIN bucket'
    PROVE  bucket'[task[w].key].chunk = task[w].chunk
<1>1. OnTask(w)
  BY DEF IOInv
<1>2. CASE task[w].key \in DOMAIN bucket
  BY <1>1, <1>2, PartsStay DEF OnTask
<1>3. CASE task[w].key \notin DOMAIN bucket
  <2>1. PICK v \in Workers :
           Now(v) = "put" /\ PutObject(task[v].key, task[v].chunk, task[v].records)
    BY <1>3, BucketStep
  <2>2. /\ DOMAIN bucket' = DOMAIN bucket \cup {task[v].key}
        /\ bucket'[task[v].key] = [chunk |-> task[v].chunk, rows |-> task[v].records]
    BY <2>1, AfterPut
  <2>3. task[w].key = task[v].key /\ bucket'[task[v].key].chunk = task[v].chunk
    BY <1>3, <2>2
  <2>4. v = w
    BY <1>1, <2>3 DEF OnTask, Apart
  <2>5. QED
    BY <2>3, <2>4
<1>4. QED
  BY <1>2, <1>3

\* A step of w leaves the task of another worker sound, when w takes neither
\* its chunk nor its part.
LEMMA OthersOnTask ==
    ASSUME IOInv, [Next]_vars, NEW w \in Workers, NEW t, task' = [task EXCEPT ![w] = t],
           NEW x \in Workers, x # w,
           task[x].chunk # 0 => t.chunk # task[x].chunk,
           task[x].key \in Parts => t.key # task[x].key
    PROVE  OnTask(x)'
<1>1. OnTask(x) /\ DOMAIN task = Workers
  BY DEF IOInv
<1>2. /\ task'[x] = task[x] /\ task'[w] = t
      /\ \A v \in Workers : v # w => task'[v] = task[v]
  BY <1>1
<1>3. task[x].chunk # 0 /\ x \in fresh => x \in fresh'
  BY <1>2, FreshStays
<1>4. \A v \in Workers \ {x} : Apart(task[x], task'[v])
  <2>1. \A v \in Workers \ {x} : Apart(task[x], task[v])
    BY <1>1 DEF OnTask
  <2>2. Apart(task[x], t)
    BY DEF Apart
  <2>3. QED
    BY <1>2, <2>1, <2>2
<1>5. task[x].key \in Parts \cap DOMAIN bucket' => bucket'[task[x].key].chunk = task[x].chunk
  BY PartIsOwn
<1>6. QED
  BY <1>1, <1>2, <1>3, <1>4, <1>5 DEF OnTask

\* A worker that has nothing left to do.
LEMMA NothingLeft ==
    ASSUME IOInv, [Next]_vars, NEW w \in Workers, task' = [task EXCEPT ![w] = NoTask],
           NEW x \in Workers
    PROVE  OnTask(x)'
<1>1. NoTask.chunk = 0 /\ NoTask.key = 0 /\ NoTask.uri = 0 /\ NoTask.records = <<>>
      /\ DOMAIN NoTask = {"chunk", "uri", "calls", "key", "records"}
  BY DEF NoTask
<1>2. CASE x # w
  BY <1>1, <1>2, OthersOnTask, KeyFacts
<1>3. CASE x = w
  <2>1. task'[w] = NoTask
    BY DEF IOInv
  <2>2. <<>> \in Seq({"record"})
    OBVIOUS
  <2>3. QED
    BY <1>1, <1>3, <2>1, <2>2, KeyFacts DEF OnTask, Sound, Apart, Uris
<1>4. QED
  BY <1>2, <1>3

\* A worker that goes on with t, the calls it has left but the first.
LEMMA GoesOn ==
    ASSUME IOInv, [Next]_vars, NEW w \in Workers, NEW t, NEW x \in Workers, Return(w, t),
           DOMAIN t = {"chunk", "uri", "calls", "key", "records"},
           t.chunk = task[w].chunk, t.chunk # 0, t.uri = task[w].uri, t.calls = task[w].calls,
           t.records \in Seq({"record"}),
           LET left == Tail(t.calls) IN
           /\ left \in Plans \ Orders
           /\ left \in HasRecords => Parses(Body[t.chunk]) /\ t.records = Records(Body[t.chunk])
           /\ t.key \in IF left \notin HasName THEN {0}
                        ELSE IF t.uri = 0 THEN Parts ELSE {t.uri},
           w \in fresh',
           t.key # task[w].key /\ t.key \in Parts =>
              t.key \notin DOMAIN bucket' /\ \A v \in Workers : task[v].key # t.key
    PROVE  OnTask(x)'
<1> DEFINE u == [t EXCEPT !.calls = Tail(@)]
<1>1. /\ DOMAIN u = {"chunk", "uri", "calls", "key", "records"}
      /\ u.chunk = t.chunk /\ u.uri = t.uri /\ u.calls = Tail(t.calls) /\ u.key = t.key
      /\ u.records = t.records
  OBVIOUS
<1>2. task' = [task EXCEPT ![w] = u] /\ DOMAIN task = Workers /\ OnTask(w)
  BY DEF Return, IOInv
<1> HIDE DEF u
<1>3. CASE x # w
  <2>1. Apart(task[x], task[w])
    BY <1>3 DEF IOInv, OnTask
  <2>2. /\ task[x].chunk # 0 => u.chunk # task[x].chunk
        /\ task[x].key \in Parts => u.key # task[x].key
    BY <1>1, <2>1 DEF Apart
  <2>3. QED
    BY <1>2, <1>3, <2>2, OthersOnTask
<1>4. CASE x = w
  <2>1. task'[w] = u /\ \A v \in Workers \ {w} : task'[v] = task[v]
    BY <1>2
  <2>2. \A v \in Workers \ {w} : Apart(u, task[v])
    BY <1>1, <1>2 DEF OnTask, Apart
  <2>3. u.key \in Parts \cap DOMAIN bucket' => bucket'[u.key].chunk = u.chunk
    BY <1>1, PartIsOwn
  <2>4. Sound(u)
    <3>1. task[w].chunk \in Inputs /\ task[w].uri \in Uris
      BY <1>2 DEF OnTask, Sound
    <3>2. QED
      BY <1>1, <3>1 DEF Sound
  <2>5. QED
    BY <1>4, <2>1, <2>2, <2>3, <2>4 DEF OnTask
<1>5. QED
  BY <1>3, <1>4

\* A call in hand is of a chunk, and what its name says of what was done.
LEMMA CallInHand ==
    ASSUME NEW w \in Workers, OnTask(w), Now(w) # "none"
    PROVE  /\ task[w].chunk # 0 /\ task[w].chunk \in Inputs
           /\ task[w].calls \in Plans /\ Now(w) = Head(task[w].calls)
           /\ Now(w) \in {"resolve", "get", "name", "put"}
<1>1. task[w].chunk # 0 /\ task[w].chunk \in Inputs /\ task[w].calls \in Plans
  BY DEF Now, Busy, OnTask, Sound
<1>2. QED
  BY <1>1, CallsLeft DEF Now, Busy

\* The resolver answers only what was live while the chunk was in hand.
LEMMA AnsweredFresh ==
    ASSUME IOInv, [Next]_vars, NEW w \in Workers, HaveSecret(w)
    PROVE  w \in fresh'
<1>1. OnTask(w) /\ Asking(w) /\ Watched(w) /\ DOMAIN task = Workers
  BY DEF IOInv
<1>2. Now(w) = "resolve" /\ request[w].status = 200 /\ request[w].pc = "answered"
  BY DEF HaveSecret, Resolved
<1>3. w \in fresh
  BY <1>1, <1>2 DEF Watched, Asking
<1>4. task[w].chunk # 0
  BY <1>1, <1>2, CallInHand
<1>5. task'[w].chunk = task[w].chunk
  BY <1>1 DEF HaveSecret, Return, OnTask, Sound
<1>6. QED
  BY <1>3, <1>4, <1>5, FreshStays

LEMMA OnTaskStep == ASSUME IOInv, [Next]_vars, NEW x \in Workers PROVE OnTask(x)'
<1>1. DOMAIN task = Workers /\ \A w \in Workers : OnTask(w) /\ Sound(task[w])
  BY DEF IOInv, OnTask
<1>2. ASSUME task' = task PROVE OnTask(x)'
  <2>1. task[x].chunk # 0 /\ x \in fresh => x \in fresh'
    BY <1>2, FreshStays
  <2>2. task[x].key \in Parts \cap DOMAIN bucket' => bucket'[task[x].key].chunk = task[x].chunk
    BY PartIsOwn
  <2>3. QED
    BY <1>1, <1>2, <2>1, <2>2 DEF OnTask
<1>3. ASSUME NEW w \in Workers, NEW chunk \in Inputs, NEW uri \in Uris, NEW calls \in Orders,
             Start(w, chunk, uri, calls)
      PROVE  OnTask(x)'
  <2> DEFINE t == [NoTask EXCEPT !.chunk = chunk, !.uri = uri, !.calls = calls]
  <2>1. /\ DOMAIN t = {"chunk", "uri", "calls", "key", "records"}
        /\ t.chunk = chunk /\ t.uri = uri /\ t.calls = calls /\ t.key = 0 /\ t.records = <<>>
    BY DEF NoTask
  <2>2. /\ task' = [task EXCEPT ![w] = t] /\ task[w].chunk = 0
        /\ \A v \in Workers : task[v].chunk # chunk
    BY <1>3 DEF Start, Busy
  <2> HIDE DEF t
  <2>3. CASE x # w
    BY <2>1, <2>2, <2>3, OthersOnTask, KeyFacts
  <2>4. CASE x = w
    <3>1. Sound(t)
      <4>1. calls \in Plans /\ calls \notin HasRecords /\ calls \notin HasName
        BY CallsLeft DEF Plans
      <4>2. <<>> \in Seq({"record"}) /\ chunk # 0
        BY KeyFacts
      <4>3. QED
        BY <2>1, <4>1, <4>2 DEF Sound
    <3>2. task'[w] = t /\ \A v \in Workers \ {w} : task'[v] = task[v]
      BY <1>1, <2>2
    <3>3. \A v \in Workers : Apart(t, task[v])
      BY <2>1, <2>2, KeyFacts DEF Apart
    <3>4. t.key \notin Parts /\ t.calls \in Orders
      BY <2>1, KeyFacts
    <3>5. QED
      BY <2>4, <3>1, <3>2, <3>3, <3>4 DEF OnTask
  <2>5. QED
    BY <2>3, <2>4
<1>4. ASSUME NEW w \in Workers, HaveSecret(w) PROVE OnTask(x)'
  <2> DEFINE t == task[w]
  <2>1. Return(w, t) /\ Now(w) = "resolve"
    BY <1>4 DEF HaveSecret
  <2>2. /\ t.chunk # 0 /\ t.calls \in Plans /\ Head(t.calls) = "resolve" /\ OnTask(w) /\ Sound(t)
    BY <1>1, <2>1, CallInHand
  <2>3. /\ Tail(t.calls) \in Plans \ Orders
        /\ Tail(t.calls) \in HasRecords <=> t.calls \in HasRecords
        /\ Tail(t.calls) \in HasName <=> t.calls \in HasName
    BY <2>2, CallsLeft
  <2>4. w \in fresh'
    BY <1>4, AnsweredFresh
  <2>5. /\ DOMAIN t = {"chunk", "uri", "calls", "key", "records"} /\ t.records \in Seq({"record"})
        /\ t.calls \in HasRecords => Parses(Body[t.chunk]) /\ t.records = Records(Body[t.chunk])
        /\ t.key \in IF t.calls \notin HasName THEN {0}
                     ELSE IF t.uri = 0 THEN Parts ELSE {t.uri}
    BY <2>2 DEF Sound
  <2>6. QED
    BY <2>1, <2>2, <2>3, <2>4, <2>5, GoesOn
<1>5. ASSUME NEW w \in Workers, Get(w) PROVE OnTask(x)'
  <2> DEFINE chunk == task[w].chunk
             t == [task[w] EXCEPT !.records = Records(Body[chunk])]
  <2>1. Now(w) = "get"
    BY <1>5 DEF Get
  <2>2. /\ chunk # 0 /\ chunk \in Inputs /\ task[w].calls \in Plans
        /\ Head(task[w].calls) = "get" /\ OnTask(w) /\ Sound(task[w])
    BY <1>1, <2>1, CallInHand
  <2>3. bucket[chunk].rows = Body[chunk]
    <3>1. bucket[chunk] = [chunk |-> chunk, rows |-> Body[chunk]]
      BY <2>2 DEF IOInv, Objects
    <3>2. QED
      BY <3>1
  <2>4. Return(w, t) /\ Parses(Body[chunk])
    BY <1>5, <2>3 DEF Get
  <2>5. Records(Body[chunk]) \in Seq({"record"})
    BY <2>2, RecordsAreRecords
  <2>6. /\ DOMAIN t = {"chunk", "uri", "calls", "key", "records"}
        /\ t.chunk = chunk /\ t.uri = task[w].uri /\ t.calls = task[w].calls
        /\ t.key = task[w].key /\ t.records = Records(Body[chunk])
    BY <2>2 DEF Sound
  <2>7. /\ Tail(task[w].calls) \in Plans \ Orders /\ task[w].calls \notin Orders
        /\ Tail(task[w].calls) \in HasName <=> task[w].calls \in HasName
    BY <2>2, CallsLeft
  <2>8. w \in fresh'
    <3>1. w \in fresh
      BY <2>2, <2>7 DEF OnTask
    <3>2. task'[w].chunk = chunk
      BY <1>1, <2>4, <2>6 DEF Return
    <3>3. QED
      BY <2>2, <3>1, <3>2, FreshStays
  <2>9. task[w].key \in IF task[w].calls \notin HasName THEN {0}
                        ELSE IF task[w].uri = 0 THEN Parts ELSE {task[w].uri}
    BY <2>2 DEF Sound
  <2> HIDE DEF t, chunk
  <2>10. t.key \in IF Tail(t.calls) \notin HasName THEN {0} ELSE IF t.uri = 0 THEN Parts ELSE {t.uri}
    BY <2>6, <2>7, <2>9
  <2>11. t.chunk = task[w].chunk
    BY <2>6 DEF chunk
  <2>12. QED
    BY <2>2, <2>4, <2>5, <2>6, <2>7, <2>8, <2>10, <2>11, GoesOn
<1>6. ASSUME NEW w \in Workers, NEW k \in Keys, Name(w, k) PROVE OnTask(x)'
  <2> DEFINE t == [task[w] EXCEPT !.key = k]
  <2>1. /\ Now(w) = "name" /\ Return(w, t) /\ bucket' = bucket
        /\ IF task[w].uri = 0 THEN Fresh(w, k) ELSE k = task[w].uri
    BY <1>6 DEF Name, dataVars
  <2>2. /\ task[w].chunk # 0 /\ task[w].calls \in Plans
        /\ Head(task[w].calls) = "name" /\ OnTask(w) /\ Sound(task[w])
    BY <1>1, <2>1, CallInHand
  <2>3. /\ DOMAIN t = {"chunk", "uri", "calls", "key", "records"}
        /\ t.chunk = task[w].chunk /\ t.uri = task[w].uri /\ t.calls = task[w].calls
        /\ t.key = k /\ t.records = task[w].records /\ task[w].records \in Seq({"record"})
        /\ t.uri \in Uris
    BY <2>2 DEF Sound
  <2>4. /\ Tail(task[w].calls) \in Plans \ Orders /\ task[w].calls \notin Orders
        /\ Tail(task[w].calls) \in HasName
        /\ Tail(task[w].calls) \in HasRecords <=> task[w].calls \in HasRecords
    BY <2>2, CallsLeft
  <2>5. w \in fresh'
    <3>1. w \in fresh
      BY <2>2, <2>4 DEF OnTask
    <3>2. task'[w].chunk = task[w].chunk
      BY <1>1, <2>1, <2>3 DEF Return
    <3>3. QED
      BY <2>2, <3>1, <3>2, FreshStays
  <2>6. task[w].calls \in HasRecords =>
           Parses(Body[task[w].chunk]) /\ task[w].records = Records(Body[task[w].chunk])
    BY <2>2 DEF Sound
  <2> HIDE DEF t
  <2>7. t.key \in IF Tail(t.calls) \notin HasName THEN {0} ELSE IF t.uri = 0 THEN Parts ELSE {t.uri}
    BY <2>1, <2>3, <2>4 DEF Fresh
  <2>8. t.key \in Parts =>
           t.key \notin DOMAIN bucket' /\ \A v \in Workers : task[v].key # t.key
    BY <2>1, <2>3, KeyFacts DEF Fresh, Uris
  <2>9. QED
    BY <2>1, <2>2, <2>3, <2>4, <2>5, <2>6, <2>7, <2>8, GoesOn
<1>7. ASSUME NEW w \in Workers, PutAnswered(w) \/ Fail(w) PROVE OnTask(x)'
  <2>1. task' = [task EXCEPT ![w] = NoTask]
    BY <1>7 DEF PutAnswered, Fail
  <2>2. QED
    BY <2>1, NothingLeft
<1>8. \/ task' = task
      \/ \E w \in Workers, chunk \in Inputs, uri \in Uris, calls \in Orders :
            Start(w, chunk, uri, calls)
      \/ \E w \in Workers :
            HaveSecret(w) \/ Get(w) \/ (\E k \in Keys : Name(w, k)) \/ PutAnswered(w) \/ Fail(w)
  BY StepsOfIO DEF Request, PutUnanswered, CredStep, IndexStep, vars, ioVars
<1>9. QED
  BY <1>2, <1>3, <1>4, <1>5, <1>6, <1>7, <1>8

\* An open request stays open for the same chunk and ref, or is closed.
LEMMA RequestMoves ==
    ASSUME IOInv, [Next]_vars, NEW x \in Workers
    PROVE  \/ request'[x].pc = "idle"
           \/ Request(x)
           \/ /\ request[x].pc # "idle" /\ request'[x].ref = request[x].ref
              /\ task'[x] = task[x]
<1>1. DOMAIN task = Workers /\ CredTypeOK /\ \A w \in Workers : Asking(w)
  BY DEF IOInv
<1>2. ASSUME request'[x] = request[x], task'[x] = task[x]
      PROVE  request'[x].pc = "idle" \/ (request[x].pc # "idle" /\ request'[x].ref = request[x].ref)
  BY <1>2
<1>3. ASSUME NEW w \in Workers, NEW t, NEW r, request' = [request EXCEPT ![w] = r],
             task' = [task EXCEPT ![w] = t], x # w
      PROVE  request'[x] = request[x] /\ task'[x] = task[x]
  BY <1>1, <1>3
<1>4. ASSUME NEW w \in Workers, NEW t, request' = request, task' = [task EXCEPT ![w] = t],
             Now(w) # "resolve"
      PROVE  request'[x].pc = "idle" \/ (request'[x] = request[x] /\ task'[x] = task[x])
  <2>1. request[w].pc = "idle"
    BY <1>1, <1>4 DEF Asking
  <2>2. QED
    BY <1>1, <1>4, <2>1
<1>5. ASSUME NEW w \in Workers, NEW chunk, NEW uri, NEW calls, Start(w, chunk, uri, calls)
      PROVE  request'[x].pc = "idle" \/ (request'[x] = request[x] /\ task'[x] = task[x])
  <2>1. Now(w) = "none" /\ request' = request
    BY <1>5 DEF Start, Now, credVars
  <2>2. QED
    BY <1>4, <1>5, <2>1 DEF Start
<1>6. ASSUME NEW w \in Workers, Get(w) \/ (\E k \in Keys : Name(w, k)) \/ PutAnswered(w)
      PROVE  request'[x].pc = "idle" \/ (request'[x] = request[x] /\ task'[x] = task[x])
  <2>1. Now(w) # "resolve" /\ request' = request
    BY <1>6 DEF Get, Name, PutAnswered, credVars
  <2>2. \E t : task' = [task EXCEPT ![w] = t]
    BY <1>6 DEF Get, Name, PutAnswered, Return
  <2>3. QED
    BY <1>4, <2>1, <2>2
<1>7. ASSUME NEW w \in Workers, HaveSecret(w) \/ Fail(w)
      PROVE  request'[x].pc = "idle" \/ (request'[x] = request[x] /\ task'[x] = task[x])
  <2>1. Ask(w, NoRequest) /\ \E t : task' = [task EXCEPT ![w] = t]
    BY <1>7 DEF HaveSecret, Resolved, Fail, Return
  <2>2. request' = [request EXCEPT ![w] = NoRequest]
    BY <2>1 DEF Ask
  <2>3. CASE x = w
    BY <1>1, <2>2, <2>3 DEF CredTypeOK, NoRequest
  <2>4. CASE x # w
    BY <1>3, <2>1, <2>2, <2>4
  <2>5. QED
    BY <2>3, <2>4
<1>8. ASSUME NEW w \in Workers, Request(w), w # x
      PROVE  request'[x] = request[x] /\ task'[x] = task[x]
  BY <1>1, <1>8 DEF Request, Send, Ask, CredTypeOK
<1>9. ASSUME NEW w \in Workers, EndpointNext(w), task' = task
      PROVE  \/ request'[x].pc = "idle"
             \/ request[x].pc # "idle" /\ request'[x].ref = request[x].ref /\ task'[x] = task[x]
  <2>1. PICK r : /\ request' = [request EXCEPT ![w] = r] /\ r.ref = request[w].ref
                 /\ request[w].pc # "idle"
    <3>1. request[w] \in Requests
      BY <1>1, Typed
    <3>2. CASE SelectRow(w)
      <4> DEFINE r == [request[w] EXCEPT !.pc = "selected", !.expires_at = creds[request[w].ref]]
      <4>1. r.ref = request[w].ref
        BY <3>1 DEF Requests
      <4>2. request' = [request EXCEPT ![w] = r] /\ request[w].pc # "idle"
        BY <3>2 DEF SelectRow, Ask
      <4> HIDE DEF r
      <4>3. QED
        BY <4>1, <4>2
    <3>3. ASSUME NEW status, request[w].pc # "idle",
                 Ask(w, [request[w] EXCEPT !.pc = "answered", !.status = status])
          PROVE  \E r : /\ request' = [request EXCEPT ![w] = r] /\ r.ref = request[w].ref
                        /\ request[w].pc # "idle"
      <4> DEFINE r == [request[w] EXCEPT !.pc = "answered", !.status = status]
      <4>1. r.ref = request[w].ref
        BY <3>1 DEF Requests
      <4>2. request' = [request EXCEPT ![w] = r] /\ request[w].pc # "idle"
        BY <3>3 DEF Ask
      <4> HIDE DEF r
      <4>3. QED
        BY <4>1, <4>2
    <3>4. QED
      BY <1>9, <3>2, <3>3 DEF EndpointNext, Unauthorized, Answer
  <2>2. CASE x = w
    BY <1>1, <1>9, <2>1, <2>2 DEF CredTypeOK
  <2>3. CASE x # w
    BY <1>1, <1>9, <2>1, <2>3 DEF CredTypeOK
  <2>4. QED
    BY <2>2, <2>3
<1>10. ASSUME CredStep
       PROVE  \/ request'[x].pc = "idle"
              \/ request[x].pc # "idle" /\ request'[x].ref = request[x].ref /\ task'[x] = task[x]
  <2>1. task' = task /\ (request' = request \/ \E w \in Workers : EndpointNext(w))
    BY <1>10 DEF CredStep, AdminNext, Put, RevokeSelect, PurgeSelect, Select, Delete, ListClock,
       ListRows, ListDone, Lists, Tick
  <2>2. QED
    BY <1>2, <1>9, <2>1
<1>11. ASSUME \/ IndexStep \/ UNCHANGED vars
              \/ \E w \in Workers : PutUnanswered(w)
       PROVE  request'[x] = request[x] /\ task'[x] = task[x]
  BY <1>11 DEF IndexStep, PutUnanswered, vars, credVars, ioVars
<1>12. QED
  BY <1>2, <1>5, <1>6, <1>7, <1>8, <1>10, <1>11, StepsOfIO

LEMMA AskingStep == ASSUME IOInv, [Next]_vars, NEW x \in Workers PROVE Asking(x)'
<1>1. DOMAIN task = Workers /\ OnTask(x) /\ Asking(x) /\ CredTypeOK
  BY DEF IOInv
<1>2. Watch \/ UNCHANGED credVars
  BY CredentialSteps, EveryStepWatches DEF Ask
<1>3. CASE request'[x].pc = "idle"
  <2>1. CASE Watch
    BY <1>3, <2>1 DEF Watch, Asking
  <2>2. CASE UNCHANGED credVars
    BY <1>1, <1>3, <2>2 DEF credVars, Asking
  <2>3. QED
    BY <1>2, <2>1, <2>2
<1>4. ASSUME request'[x].pc # "idle", request[x].pc # "idle",
             request'[x].ref = request[x].ref, task'[x] = task[x]
      PROVE  Asking(x)'
  <2>1. Now(x) = "resolve" /\ request[x].ref = RefOf[task[x].chunk] /\ (x \in lived => x \in fresh)
    BY <1>1, <1>4 DEF Asking
  <2>2. Now(x)' = "resolve" /\ task[x].chunk # 0
    BY <1>4, <2>1 DEF Now, Busy
  <2>3. x \in lived' => x \in fresh'
    <3>1. CASE UNCHANGED credVars
      <4>1. x \in lived' => x \in fresh
        BY <2>1, <3>1 DEF credVars
      <4>2. QED
        BY <1>4, <2>2, <4>1, FreshStays
    <3>2. CASE Watch
      <4>1. x \in lived' => x \in lived \/ LiveNext(request[x].ref)
        BY <1>4, <3>2 DEF Watch
      <4>2. Freshen \/ UNCHANGED vars
        BY DEF Next
      <4>3. CASE Freshen
        BY <1>4, <2>1, <2>2, <4>1, <4>3 DEF Freshen
      <4>4. CASE UNCHANGED vars
        BY <2>1, <4>4 DEF vars, credVars, ioVars
      <4>5. QED
        BY <4>2, <4>3, <4>4
    <3>3. QED
      BY <1>2, <3>1, <3>2
  <2>4. QED
    BY <1>4, <2>1, <2>2, <2>3 DEF Asking
<1>5. CASE Request(x)
  <2>1. /\ Now(x) = "resolve" /\ task' = task /\ Watch
        /\ request'[x] = [NoRequest EXCEPT !.pc = "sent", !.ref = RefOf[task[x].chunk], !.token = TRUE]
    BY <1>1, <1>5 DEF Request, Send, Ask, CredTypeOK
  <2>2. request'[x].ref = RefOf[task[x].chunk] /\ request'[x].pc = "sent"
    BY <2>1 DEF NoRequest
  <2>3. request[x].pc = "idle" /\ task[x].chunk # 0
    BY <1>1, <1>5, <2>1, CallInHand DEF Request, Send
  <2>4. Freshen
    BY <2>2, <2>3 DEF Next, vars, credVars
  <2>5. LiveNext(RefOf[task[x].chunk]) => x \in fresh'
    BY <2>1, <2>3, <2>4 DEF Freshen
  <2>6. x \in lived' => x \in lived \/ LiveNext(RefOf[task[x].chunk])
    BY <2>1, <2>2 DEF Watch
  <2>7. x \notin lived
    BY <1>1, <2>3 DEF Asking
  <2>8. Now(x)' = "resolve"
    BY <2>1 DEF Now, Busy
  <2>9. QED
    BY <2>1, <2>2, <2>5, <2>6, <2>7, <2>8 DEF Asking
<1>6. QED
  BY <1>3, <1>4, <1>5, RequestMoves

-----------------------------------------------------------------------------
(* What is kept, and how much of it *)

LEMMA KeptStep == ASSUME IOInv, [Next]_vars PROVE Kept'
<1>1. Kept
  BY DEF IOInv
<1>2. ASSUME NEW p \in written, Records(Body[p[1]]) # <<>>
      PROVE  IF p[2] = 0 THEN PartsOf(p[1])' # {} ELSE p[2] \in DOMAIN bucket'
  <2>1. PartsOf(p[1]) \subseteq PartsOf(p[1])' /\ DOMAIN bucket \subseteq DOMAIN bucket'
    BY PartsStay
  <2>2. IF p[2] = 0 THEN PartsOf(p[1]) # {} ELSE p[2] \in DOMAIN bucket
    BY <1>1, <1>2 DEF Kept
  <2>3. QED
    BY <2>1, <2>2
<1>3. ASSUME NEW w \in Workers, PutAnswered(w) PROVE Kept'
  <2>0. PICK chunk, uri, key : chunk = task[w].chunk /\ uri = task[w].uri /\ key = task[w].key
    OBVIOUS
  <2>1. OnTask(w) /\ Now(w) = "put" /\ written' = written \cup {<<chunk, uri>>}
    BY <1>3, <2>0 DEF IOInv, PutAnswered
  <2>2. /\ chunk \in Inputs /\ key \in IF uri = 0 THEN Parts ELSE {uri}
        /\ task[w].records = Records(Body[chunk])
    BY <2>0, <2>1, PuttingWorker
  <2>3. uri \in Uris
    BY <2>0, <2>1 DEF OnTask, Sound
  <2>4. ASSUME Records(Body[chunk]) # <<>>
        PROVE  IF uri = 0 THEN PartsOf(chunk)' # {} ELSE uri \in DOMAIN bucket'
    <3>1. PutObject(key, chunk, task[w].records)
      BY <1>3, <2>0, <2>2, <2>4 DEF PutAnswered
    <3>2. /\ DOMAIN bucket' = DOMAIN bucket \cup {key}
          /\ bucket'[key] = [chunk |-> chunk, rows |-> task[w].records]
      BY <3>1, AfterPut
    <3>3. bucket'[key].chunk = chunk
      BY <3>2
    <3>4. CASE uri = 0
      BY <2>2, <3>2, <3>3, <3>4 DEF PartsOf
    <3>5. CASE uri # 0
      BY <2>2, <3>2, <3>5
    <3>6. QED
      BY <3>4, <3>5
  <2>5. written' \subseteq Inputs \X Uris
    BY <1>1, <2>1, <2>2, <2>3 DEF Kept
  <2>6. ASSUME NEW p \in written', Records(Body[p[1]]) # <<>>
        PROVE  IF p[2] = 0 THEN PartsOf(p[1])' # {} ELSE p[2] \in DOMAIN bucket'
    <3>1. CASE p \in written
      BY <1>2, <2>6, <3>1
    <3>2. CASE p = <<chunk, uri>>
      <4>1. p[1] = chunk /\ p[2] = uri
        BY <3>2
      <4>2. QED
        BY <2>4, <2>6, <4>1
    <3>3. QED
      BY <2>1, <3>1, <3>2
  <2>7. QED
    BY <2>5, <2>6 DEF Kept
<1>4. CASE written' = written
  BY <1>1, <1>2, <1>4 DEF Kept
<1>5. written' = written \/ \E w \in Workers : PutAnswered(w)
  BY StepsOfIO DEF Start, Request, HaveSecret, Get, Name, PutUnanswered, Fail, CredStep, IndexStep,
     vars, ioVars
<1>6. QED
  BY <1>3, <1>4, <1>5

\* A chunk gets a part when the worker on it puts one that was not there.
LEMMA PartsGrow ==
    ASSUME IOInv, [Next]_vars, NEW c \in Inputs
    PROVE  \/ PartsOf(c)' = PartsOf(c)
           \/ \E w \in Workers :
                 /\ task[w].chunk = c /\ task[w].key \notin PartsOf(c)
                 /\ PartsOf(c)' = PartsOf(c) \cup {task[w].key}
                 /\ PutAnswered(w) \/ PutUnanswered(w)
<1>1. CASE bucket' = bucket
  BY <1>1 DEF PartsOf
<1>2. ASSUME NEW w \in Workers, Now(w) = "put", PutAnswered(w) \/ PutUnanswered(w),
             PutObject(task[w].key, task[w].chunk, task[w].records)
      PROVE  \/ PartsOf(c)' = PartsOf(c)
             \/ /\ task[w].chunk = c /\ task[w].key \notin PartsOf(c)
                /\ PartsOf(c)' = PartsOf(c) \cup {task[w].key}
  <2> DEFINE chunk == task[w].chunk
             key == task[w].key
  <2>1. OnTask(w)
    BY DEF IOInv
  <2>2. key \in Parts \cap DOMAIN bucket => bucket[key].chunk = chunk
    BY <2>1 DEF OnTask
  <2>3. /\ DOMAIN bucket' = DOMAIN bucket \cup {key}
        /\ bucket'[key] = [chunk |-> chunk, rows |-> task[w].records]
        /\ \A q \in DOMAIN bucket : q # key => bucket'[q] = bucket[q]
    BY <1>2, AfterPut
  <2>4. bucket'[key].chunk = chunk
    BY <2>3
  <2> HIDE DEF chunk, key
  <2>5. CASE key \in Parts /\ key \notin DOMAIN bucket /\ chunk = c
    <3>1. PartsOf(c)' = PartsOf(c) \cup {key} /\ key \notin PartsOf(c)
      BY <2>3, <2>4, <2>5 DEF PartsOf
    <3>2. QED
      BY <2>5, <3>1 DEF chunk, key
  <2>6. CASE ~(key \in Parts /\ key \notin DOMAIN bucket /\ chunk = c)
    BY <2>2, <2>3, <2>4, <2>6 DEF PartsOf
  <2>7. QED
    BY <2>5, <2>6
<1>3. QED
  BY <1>1, <1>2, BucketStep

\* But for the step that hands c out, whoever is on c was on it, with the part
\* it has or none.
LEMMA StillOnChunk ==
    ASSUME IOInv, [Next]_vars, NEW c \in Inputs
    PROVE  \/ /\ starts'[c] = starts[c]
              /\ \A v \in Workers : task'[v].chunk = c =>
                    task[v].chunk = c /\ task[v].key \in {0, task'[v].key}
           \/ /\ starts'[c] = starts[c] + 1
              /\ PartsOf(c)' = PartsOf(c)
<1>1. /\ DOMAIN task = Workers /\ DOMAIN starts = Inputs /\ c # 0
      /\ \A v \in Workers : OnTask(v)
  BY KeyFacts DEF IOInv
<1>2. ASSUME NEW w \in Workers, NEW t, task' = [task EXCEPT ![w] = t],
             t.chunk = c => task[w].chunk = c /\ task[w].key \in {0, t.key}
      PROVE  \A v \in Workers : task'[v].chunk = c =>
                task[v].chunk = c /\ task[v].key \in {0, task'[v].key}
  BY <1>1, <1>2
<1>3. ASSUME NEW w \in Workers, NEW chunk \in Inputs, NEW uri \in Uris, NEW calls \in Orders,
             Start(w, chunk, uri, calls)
      PROVE  \/ /\ starts'[c] = starts[c]
                /\ \A v \in Workers : task'[v].chunk = c =>
                      task[v].chunk = c /\ task[v].key \in {0, task'[v].key}
             \/ /\ starts'[c] = starts[c] + 1
                /\ PartsOf(c)' = PartsOf(c)
  <2> DEFINE t == [NoTask EXCEPT !.chunk = chunk, !.uri = uri, !.calls = calls]
  <2>1. /\ t.chunk = chunk /\ task' = [task EXCEPT ![w] = t] /\ bucket' = bucket
        /\ starts' = [starts EXCEPT ![chunk] = starts[chunk] + 1]
    BY <1>3 DEF Start, NoTask, dataVars
  <2> HIDE DEF t
  <2>2. CASE chunk = c
    BY <1>1, <2>1, <2>2 DEF PartsOf
  <2>3. CASE chunk # c
    BY <1>1, <1>2, <2>1, <2>3
  <2>4. QED
    BY <2>2, <2>3
<1>4. ASSUME NEW w \in Workers, HaveSecret(w) \/ Get(w)
      PROVE  \A v \in Workers : task'[v].chunk = c =>
                task[v].chunk = c /\ task[v].key \in {0, task'[v].key}
  <2>1. PICK t : /\ task' = [task EXCEPT ![w] = t]
                 /\ t.chunk = task[w].chunk /\ t.key = task[w].key
    <3>1. CASE HaveSecret(w)
      <4> DEFINE t == [task[w] EXCEPT !.calls = Tail(@)]
      <4>1. task' = [task EXCEPT ![w] = t] /\ t.chunk = task[w].chunk /\ t.key = task[w].key
        BY <1>1, <3>1 DEF HaveSecret, Return, OnTask, Sound
      <4> HIDE DEF t
      <4>2. QED
        BY <4>1
    <3>2. CASE Get(w)
      <4> DEFINE r == Records(bucket[task[w].chunk].rows)
                 s == [task[w] EXCEPT !.records = r]
                 t == [s EXCEPT !.calls = Tail(@)]
      <4>1. task' = [task EXCEPT ![w] = t]
        BY <3>2 DEF Get, Return
      <4> HIDE DEF r
      <4>2. t.chunk = task[w].chunk /\ t.key = task[w].key
        BY <1>1 DEF OnTask, Sound
      <4> HIDE DEF t
      <4>3. QED
        BY <4>1, <4>2
    <3>3. QED
      BY <1>4, <3>1, <3>2
  <2>2. QED
    BY <1>2, <2>1
<1>5. ASSUME NEW w \in Workers, NEW k \in Keys, Name(w, k)
      PROVE  \A v \in Workers : task'[v].chunk = c =>
                task[v].chunk = c /\ task[v].key \in {0, task'[v].key}
  <2>1. Now(w) = "name"
    BY <1>5 DEF Name
  <2>2. task[w].calls \in Plans /\ Head(task[w].calls) = "name" /\ task[w].chunk # 0
    BY <1>1, <2>1, CallInHand
  <2>3. task[w].calls \notin HasName
    BY <2>2, CallsLeft
  <2>4. task[w].key = 0
    BY <1>1, <2>2, <2>3 DEF OnTask, Sound
  <2> DEFINE s == [task[w] EXCEPT !.key = k]
             t == [s EXCEPT !.calls = Tail(@)]
  <2>5. task' = [task EXCEPT ![w] = t]
    BY <1>5 DEF Name, Return
  <2>6. t.chunk = task[w].chunk
    BY <1>1 DEF OnTask, Sound
  <2> HIDE DEF t
  <2>7. QED
    BY <1>2, <2>4, <2>5, <2>6
<1>6. ASSUME NEW w \in Workers, PutAnswered(w) \/ Fail(w)
      PROVE  \A v \in Workers : task'[v].chunk = c =>
                task[v].chunk = c /\ task[v].key \in {0, task'[v].key}
  <2>1. task' = [task EXCEPT ![w] = NoTask] /\ NoTask.chunk = 0
    BY <1>6 DEF PutAnswered, Fail, NoTask
  <2>2. QED
    BY <1>1, <1>2, <2>1
<1>7. CASE starts' = starts /\ task' = task
  BY <1>7
<1>8. \/ starts' = starts /\ task' = task
      \/ \E w \in Workers, chunk \in Inputs, uri \in Uris, calls \in Orders :
            Start(w, chunk, uri, calls)
      \/ /\ starts' = starts
         /\ \E w \in Workers :
               HaveSecret(w) \/ Get(w) \/ (\E k \in Keys : Name(w, k)) \/ PutAnswered(w) \/ Fail(w)
  BY StepsOfIO DEF Request, HaveSecret, Get, Name, PutAnswered, PutUnanswered, Fail, CredStep,
     IndexStep, vars, ioVars
<1>9. QED
  BY <1>3, <1>4, <1>5, <1>6, <1>7, <1>8

LEMMA CountsStep == ASSUME IOInv, [Next]_vars, NEW c \in Inputs PROVE Counts(c)'
<1> DEFINE parts == PartsOf(c)
<1>1. /\ starts[c] \in Nat /\ Counts(c) /\ \A v \in Workers : OnTask(v)
      /\ DOMAIN task = Workers
  BY DEF IOInv
<1>2. IsFiniteSet(parts) /\ Cardinality(parts) \in Nat
  <2>1. parts \in SUBSET DOMAIN bucket /\ IsFiniteSet(DOMAIN bucket)
    BY DEF PartsOf, IOInv, Objects
  <2>2. IsFiniteSet(parts)
    BY <2>1, FS_Subset
  <2>3. QED
    BY <2>2, FS_CardinalityType
<1>3. 0 \notin parts
  BY KeyFacts DEF PartsOf
<1>4. CASE starts'[c] = starts[c] + 1 /\ PartsOf(c)' = parts
  BY <1>1, <1>2, <1>4 DEF Counts
<1>5. ASSUME starts'[c] = starts[c],
             \A v \in Workers : task'[v].chunk = c =>
                task[v].chunk = c /\ task[v].key \in {0, task'[v].key}
      PROVE  Counts(c)'
  <2>1. CASE PartsOf(c)' = parts
    <3>1. Cardinality(parts) <= starts'[c]
      BY <1>1, <1>5 DEF Counts
    <3>2. ASSUME NEW w \in Workers, task'[w].chunk = c, task'[w].key \notin parts
          PROVE  Cardinality(parts) < starts'[c]
      <4>1. task[w].chunk = c /\ task[w].key \notin parts
        BY <1>3, <1>5, <3>2
      <4>2. QED
        BY <1>1, <1>5, <4>1 DEF Counts
    <3> HIDE DEF parts
    <3>3. QED
      BY <2>1, <3>1, <3>2 DEF Counts
  <2>2. ASSUME NEW w \in Workers, task[w].chunk = c, task[w].key \notin parts,
               PartsOf(c)' = parts \cup {task[w].key}, PutAnswered(w) \/ PutUnanswered(w)
        PROVE  Counts(c)'
    <3>1. Cardinality(parts) < starts[c]
      BY <1>1, <2>2 DEF Counts
    <3>2. Cardinality(parts \cup {task[w].key}) = Cardinality(parts) + 1
      BY <1>2, <2>2, FS_AddElement
    <3>3. \A v \in Workers : task'[v].chunk = c => v = w
      BY <1>1, <1>5, <2>2, KeyFacts DEF OnTask, Apart
    <3>4. task'[w].chunk = c => task'[w].key = task[w].key
      <4>1. CASE PutAnswered(w)
        <5>1. task'[w].chunk = 0
          BY <1>1, <4>1 DEF PutAnswered, NoTask
        <5>2. QED
          BY <5>1, KeyFacts
      <4>2. CASE PutUnanswered(w)
        BY <4>2 DEF PutUnanswered
      <4>3. QED
        BY <2>2, <4>1, <4>2
    <3> HIDE DEF parts
    <3>5. Cardinality(PartsOf(c)') <= starts'[c]
      BY <1>1, <1>2, <1>5, <2>2, <3>1, <3>2
    <3>6. ~\E v \in Workers : task'[v].chunk = c /\ task'[v].key \notin PartsOf(c)'
      BY <2>2, <3>3, <3>4
    <3>7. QED
      BY <3>5, <3>6 DEF Counts
  <2>3. QED
    BY <2>1, <2>2, PartsGrow
<1>6. QED
  BY <1>4, <1>5, StillOnChunk

-----------------------------------------------------------------------------
(* The listing *)

\* A page has the next keys, in order, and leaves none out up to its last.
LEMMA PageLists ==
    ASSUME Objects, lister.marker \in Nat
    PROVE  LET next == {k \in DOMAIN bucket : k > lister.marker} IN
           /\ Page \in Seq(next)
           /\ \A i, j \in DOMAIN Page : i < j => Page[i] < Page[j]
           /\ Page = <<>> => next = {}
           /\ Page # <<>> =>
                 /\ Last(Page) \in Nat /\ Last(Page) > lister.marker
                 /\ \A i \in DOMAIN Page : Page[i] <= Last(Page)
                 /\ \A k \in next : k <= Last(Page) => k \in Range(Page)
<1> DEFINE next == {k \in DOMAIN bucket : k > lister.marker}
           rest == Ascending(next)
           n == Min({PageSize, Len(rest)})
<1>1. next \in SUBSET Nat /\ IsFiniteSet(next)
  <2>1. next \in SUBSET DOMAIN bucket /\ next \in SUBSET Nat
    BY KeyFacts DEF Objects
  <2>2. QED
    BY <2>1, FS_Subset DEF Objects
<1>2. /\ rest \in Seq(next) /\ DOMAIN rest = 1..Len(rest) /\ Len(rest) \in Nat
      /\ \A x \in next : \E i \in DOMAIN rest : rest[i] = x
      /\ \A i, j \in DOMAIN rest : i < j => rest[i] < rest[j]
  <2> HIDE DEF next
  <2>1. QED
    BY <1>1, AscendingLists
<1>3. Page = SubSeq(rest, 1, n)
  BY DEF Page
<1>4. \A k \in next : k \in Nat /\ k > lister.marker
  BY <1>1
<1> HIDE DEF rest, next
<1>5. n \in 0..Len(rest) /\ (n = 0 => Len(rest) = 0)
  <2>1. PageSize \in Nat /\ PageSize # 0
    BY PageSizeIsPositive
  <2>2. n \in {PageSize, Len(rest)} /\ \A m \in {PageSize, Len(rest)} : n <= m
    <3>1. \E m \in {PageSize, Len(rest)} : \A o \in {PageSize, Len(rest)} : m <= o
      BY <1>2, <2>1
    <3>2. QED
      BY <3>1 DEF Min
  <2> HIDE DEF n
  <2>3. n <= PageSize /\ n <= Len(rest) /\ n \in Nat
    BY <1>2, <2>1, <2>2
  <2>4. n = 0 => Len(rest) = 0
    BY <2>1, <2>2
  <2>5. QED
    BY <1>2, <2>3, <2>4
<1> HIDE DEF n
<1>6. /\ Page \in Seq(next) /\ Len(Page) = n /\ DOMAIN Page = 1..n
      /\ \A i \in 1..n : Page[i] = rest[i] /\ rest[i] \in next
  BY <1>2, <1>3, <1>5
<1>7. \A i, j \in DOMAIN Page : i < j => Page[i] < Page[j]
  BY <1>2, <1>5, <1>6
<1>8. ASSUME Page = <<>> PROVE next = {}
  <2>1. Len(rest) = 0
    BY <1>5, <1>6, <1>8
  <2>2. QED
    BY <1>2, <2>1
<1>9. ASSUME Page # <<>>
      PROVE  /\ Last(Page) \in Nat /\ Last(Page) > lister.marker
             /\ \A i \in DOMAIN Page : Page[i] <= Last(Page)
             /\ \A k \in next : k <= Last(Page) => k \in Range(Page)
  <2>1. n \in Nat /\ n # 0 /\ n \in 1..n /\ n \in DOMAIN rest
    BY <1>2, <1>5, <1>6, <1>9
  <2>2. Last(Page) = rest[n] /\ rest[n] \in next
    BY <1>6, <2>1 DEF Last
  <2>3. rest[n] \in Nat /\ rest[n] > lister.marker
    BY <1>4, <2>2
  <2>4. \A i \in DOMAIN Page : Page[i] <= rest[n]
    <3>1. ASSUME NEW i \in DOMAIN Page PROVE Page[i] <= rest[n]
      <4>1. i \in 1..n /\ Page[i] = rest[i] /\ rest[i] \in Nat /\ i \in DOMAIN rest
        BY <1>2, <1>4, <1>5, <1>6, <3>1
      <4>2. CASE i = n
        BY <2>3, <4>1, <4>2
      <4>3. CASE i # n
        BY <1>2, <2>1, <2>3, <4>1, <4>3
      <4>4. QED
        BY <4>2, <4>3
    <3>2. QED
      BY <3>1
  <2>5. ASSUME NEW k \in next, k <= rest[n] PROVE k \in Range(Page)
    <3>1. PICK i \in DOMAIN rest : rest[i] = k
      BY <1>2
    <3>2. k \in Nat /\ i \in Nat /\ (n < i => rest[n] < k)
      <4>1. k \in Nat
        BY <1>4
      <4>2. i \in Nat
        BY <1>2
      <4>3. n < i => rest[n] < rest[i]
        BY <1>2, <2>1
      <4>4. QED
        BY <3>1, <4>1, <4>2, <4>3
    <3>3. i \in 1..n
      <4>1. ~(n < i)
        BY <2>3, <2>5, <3>2
      <4>2. QED
        BY <1>2, <2>1, <3>1, <4>1
    <3>4. QED
      BY <1>6, <3>1, <3>3 DEF Range
  <2>6. QED
    BY <2>2, <2>3, <2>4, <2>5
<1>10. QED
  BY <1>6, <1>7, <1>8, <1>9 DEF next

LEMMA ListedStep == ASSUME IOInv, [Next]_vars PROVE Listed'
<1>1. Objects /\ Listed /\ DOMAIN bucket \subseteq DOMAIN bucket'
  BY PartsStay DEF IOInv
<1>2. CASE lister' = lister /\ stable' = stable
  <2>1. lister.found \in Seq(DOMAIN bucket')
    BY <1>1 DEF Listed
  <2>2. stable \subseteq DOMAIN bucket'
    BY <1>1 DEF Listed
  <2>3. QED
    BY <1>1, <1>2, <2>1, <2>2 DEF Listed
<1>3. ASSUME StartListing, bucket' = bucket PROVE Listed'
  <2>1. /\ DOMAIN lister' = {"pc", "marker", "found"}
        /\ lister'.pc = "listing" /\ lister'.marker = 0 /\ lister'.found = <<>>
        /\ stable' = DOMAIN bucket
    BY <1>3 DEF StartListing, NoListing
  <2>2. \A k \in stable' : ~(k <= 0)
    BY <1>1, <2>1, KeysAreOrdered DEF Objects
  <2>3. QED
    BY <1>3, <2>1, <2>2 DEF Listed
<1>4. ASSUME EndListing PROVE Listed'
  BY <1>4 DEF EndListing, Listed, NoListing
<1>5. ASSUME ListPage, bucket' = bucket PROVE Listed'
  <2> DEFINE next == {k \in DOMAIN bucket : k > lister.marker}
             found == lister.found
             marker == lister.marker
  <2>1. /\ DOMAIN lister = {"pc", "marker", "found"} /\ lister.pc = "listing"
        /\ marker \in Nat /\ found \in Seq(DOMAIN bucket) /\ stable \subseteq DOMAIN bucket
        /\ stable' = stable
        /\ \A i \in DOMAIN found : found[i] <= marker
        /\ \A i, j \in DOMAIN found : i < j => found[i] < found[j]
        /\ \A k \in stable : k <= marker => k \in Range(found)
        /\ \A k \in DOMAIN bucket : k \in Nat
    BY <1>1, <1>5, KeyFacts DEF ListPage, Listed, Objects
  <2>2. /\ Page \in Seq(next)
        /\ \A i, j \in DOMAIN Page : i < j => Page[i] < Page[j]
        /\ Page = <<>> => next = {}
        /\ Page # <<>> =>
              /\ Last(Page) \in Nat /\ Last(Page) > marker
              /\ \A i \in DOMAIN Page : Page[i] <= Last(Page)
              /\ \A k \in next : k <= Last(Page) => k \in Range(Page)
    BY <1>1, <2>1, PageLists
  <2>3. CASE Page = <<>>
    <3>1. /\ DOMAIN lister' = {"pc", "marker", "found"}
          /\ lister'.pc = "done" /\ lister'.marker = marker /\ lister'.found = found
      BY <1>5, <2>1, <2>3 DEF ListPage
    <3>2. \A k \in stable : k <= marker
      BY <2>1, <2>2, <2>3
    <3> HIDE DEF found, marker, next
    <3>3. QED
      BY <1>5, <2>1, <3>1, <3>2 DEF Listed
  <2>4. CASE Page # <<>>
    <3> DEFINE all == found \o Page
               m == Len(found)
    <3>1. /\ DOMAIN lister' = {"pc", "marker", "found"}
          /\ lister'.pc = "listing" /\ lister'.marker = Last(Page) /\ lister'.found = all
      BY <1>5, <2>1, <2>4 DEF ListPage
    <3>2. \A k \in next : k \in DOMAIN bucket /\ k \in Nat /\ k > marker
      BY <2>1
    <3>3. Page \in Seq(DOMAIN bucket)
      <4> HIDE DEF next
      <4>1. \A i \in 1..Len(Page) : Page[i] \in DOMAIN bucket
        BY <2>2, <3>2
      <4>2. QED
        BY <2>2, <4>1
    <3>4. /\ all \in Seq(DOMAIN bucket) /\ m \in Nat /\ Len(Page) \in Nat
          /\ Len(all) = m + Len(Page) /\ DOMAIN all = 1..(m + Len(Page))
          /\ DOMAIN found = 1..m /\ DOMAIN Page = 1..Len(Page)
          /\ \A i \in 1..m : all[i] = found[i]
          /\ \A i \in 1..Len(Page) : all[m + i] = Page[i]
      BY <2>1, <3>3
    <3>5. \A i \in 1..Len(Page) : Page[i] \in next
      BY <2>2
    <3>6. \A i \in 1..m : found[i] \in Nat
      BY <2>1, <3>4
    <3> DEFINE last == Last(Page)
    <3>7. last \in Nat /\ last > marker
      BY <2>2, <2>4
    <3> HIDE DEF all, m, found, marker, next, last
    <3>8. ASSUME NEW i \in DOMAIN all
          PROVE  \/ i \in 1..m /\ all[i] = found[i]
                 \/ i > m /\ i - m \in 1..Len(Page) /\ all[i] = Page[i - m]
      <4>1. i \in Nat /\ (i \in 1..m \/ (i > m /\ i - m \in 1..Len(Page) /\ m + (i - m) = i))
        BY <3>4, <3>8
      <4>2. QED
        BY <3>4, <4>1
    <3>9. ASSUME NEW i \in DOMAIN all PROVE all[i] <= last
      <4>1. CASE i \in 1..m /\ all[i] = found[i]
        BY <2>1, <3>4, <3>6, <3>7, <4>1
      <4>2. CASE i - m \in 1..Len(Page) /\ all[i] = Page[i - m]
        BY <2>2, <2>4, <3>4, <4>2 DEF last
      <4>3. QED
        BY <3>8, <4>1, <4>2
    <3>10. ASSUME NEW i \in DOMAIN all, NEW j \in DOMAIN all, i < j PROVE all[i] < all[j]
      <4>1. i \in Nat /\ j \in Nat
        BY <3>4
      <4>2. CASE j \in 1..m /\ all[j] = found[j]
        <5>1. i \in 1..m
          BY <3>4, <3>10, <4>1, <4>2
        <5>2. QED
          BY <2>1, <3>4, <3>10, <4>2, <5>1
      <4>3. CASE j > m /\ j - m \in 1..Len(Page) /\ all[j] = Page[j - m]
        <5>1. CASE i \in 1..m /\ all[i] = found[i]
          <6>1. found[i] \in Nat /\ found[i] <= marker
            BY <2>1, <3>4, <3>6, <5>1
          <6>2. Page[j - m] \in Nat /\ Page[j - m] > marker
            BY <3>2, <3>5, <4>3
          <6>3. QED
            BY <2>1, <4>3, <5>1, <6>1, <6>2
        <5>2. CASE i > m /\ i - m \in 1..Len(Page) /\ all[i] = Page[i - m]
          <6>1. i - m < j - m
            BY <3>4, <3>10, <4>1
          <6>2. QED
            BY <2>2, <3>4, <4>3, <5>2, <6>1
        <5>3. QED
          BY <3>8, <5>1, <5>2
      <4>4. QED
        BY <3>8, <4>2, <4>3
    <3>11. ASSUME NEW k \in stable, k <= last PROVE k \in Range(all)
      <4>1. k \in DOMAIN bucket /\ k \in Nat
        BY <2>1
      <4>2. CASE k <= marker
        <5>1. PICK i \in 1..m : found[i] = k
          BY <2>1, <3>4, <4>2 DEF Range
        <5>2. i \in DOMAIN all /\ all[i] = k
          BY <3>4, <5>1
        <5>3. QED
          BY <5>2 DEF Range
      <4>3. CASE ~(k <= marker)
        <5>1. k \in next
          BY <2>1, <4>1, <4>3 DEF next, marker
        <5>2. PICK i \in 1..Len(Page) : Page[i] = k
          BY <2>2, <2>4, <3>4, <3>11, <5>1 DEF Range, last
        <5>3. m + i \in DOMAIN all /\ all[m + i] = k
          BY <3>4, <5>2
        <5>4. QED
          BY <5>3 DEF Range
      <4>4. QED
        BY <4>2, <4>3
    <3>12. QED
      BY <1>5, <2>1, <3>1, <3>4, <3>7, <3>9, <3>10, <3>11 DEF Listed, last
  <2>5. QED
    BY <2>3, <2>4
<1>6. \/ lister' = lister /\ stable' = stable
      \/ (StartListing \/ ListPage) /\ bucket' = bucket
      \/ EndListing
  BY StepsOfIO DEF Start, Request, HaveSecret, Get, Name, PutAnswered, PutUnanswered, Fail, CredStep,
     IndexStep, vars, dataVars
<1>7. QED
  BY <1>2, <1>3, <1>4, <1>5, <1>6

-----------------------------------------------------------------------------
(* The invariant *)

LEMMA InitIO == Init => IOInv
<1> SUFFICES ASSUME Init PROVE IOInv
  OBVIOUS
<1>1. CredTypeOK
  BY CredentialBounds, NullIsNoTime DEF Init, CredInit, CredTypeOK, NoRequest, Idle
<1>2. DOMAIN task = Workers /\ starts \in [Inputs -> Nat]
  BY DEF Init
<1>3. DOMAIN bucket = Inputs /\ \A c \in Inputs : bucket[c] = [chunk |-> c, rows |-> Body[c]]
  BY DEF Init, DataInit
<1>4. \A c \in Inputs : PartsOf(c) = {}
  BY <1>3, KeyFacts DEF PartsOf
<1>5. ASSUME NEW w \in Workers PROVE Watched(w) /\ OnTask(w) /\ Asking(w)
  <2>1. \A v \in Workers : task[v] = NoTask
    BY DEF Init
  <2>2. /\ DOMAIN NoTask = {"chunk", "uri", "calls", "key", "records"}
        /\ NoTask.chunk = 0 /\ NoTask.uri = 0 /\ NoTask.key = 0 /\ NoTask.records = <<>>
    BY DEF NoTask
  <2>3. <<>> \in Seq({"record"})
    OBVIOUS
  <2>4. OnTask(w)
    BY <2>1, <2>2, <2>3, KeyFacts DEF OnTask, Sound, Apart, Uris
  <2>5. request[w].pc = "idle" /\ request[w].status = 0 /\ w \notin lived
    BY DEF Init, CredInit, NoRequest
  <2>6. QED
    BY <2>4, <2>5 DEF Asking, Watched
<1>6. Objects
  BY <1>3, KeyFacts DEF Objects, Keys
<1>7. Kept
  BY DEF Init, Kept
<1>8. Listed
  <2>1. /\ lister = NoListing /\ stable = {}
        /\ DOMAIN NoListing = {"pc", "marker", "found"}
        /\ NoListing.pc = "idle" /\ NoListing.marker = 0 /\ NoListing.found = <<>>
    BY DEF Init, DataInit, NoListing
  <2>2. <<>> \in Seq(DOMAIN bucket)
    OBVIOUS
  <2>3. QED
    BY <2>1, <2>2 DEF Listed
<1>9. ASSUME NEW c \in Inputs PROVE Counts(c)
  <2>1. Cardinality(PartsOf(c)) = 0 /\ starts[c] = 0
    BY <1>4, FS_EmptySet DEF Init
  <2>2. \A w \in Workers : task[w].chunk # c
    BY KeyFacts DEF Init, NoTask
  <2>3. QED
    BY <2>1, <2>2 DEF Counts
<1>10. QED
  BY <1>1, <1>2, <1>5, <1>6, <1>7, <1>8, <1>9 DEF IOInv

LEMMA StepIO == IOInv /\ [Next]_vars => IOInv'
<1> SUFFICES ASSUME IOInv, [Next]_vars PROVE IOInv'
  OBVIOUS
<1>1. DOMAIN task' = Workers
  BY WorkersStay DEF IOInv
<1>2. starts' \in [Inputs -> Nat]
  <2>1. starts \in [Inputs -> Nat]
    BY DEF IOInv
  <2>2. starts' = starts \/ \E c \in Inputs : starts' = [starts EXCEPT ![c] = starts[c] + 1]
    BY StepsOfIO DEF Start, Request, HaveSecret, Get, Name, PutAnswered, PutUnanswered, Fail,
       CredStep, IndexStep, vars, ioVars
  <2>3. QED
    BY <2>1, <2>2
<1>3. \A w \in Workers : (Watched(w) /\ OnTask(w) /\ Asking(w))'
  BY WatchedKept, OnTaskStep, AskingStep
<1>4. \A c \in Inputs : Counts(c)'
  BY CountsStep
<1>5. CredTypeOK' /\ Objects' /\ Kept' /\ Listed'
  BY CredTypeKept, ObjectsStep, KeptStep, ListedStep
<1>6. QED
  BY <1>1, <1>2, <1>3, <1>4, <1>5 DEF IOInv

\* worker/client.py, s3.py and store.py: what holds between any two calls of
\* the workers, the endpoint, Orca and S3.
THEOREM IOInvariant == Spec => []IOInv
<1>1. QED
  BY InitIO, StepIO, PTL DEF Spec

-----------------------------------------------------------------------------
(* What follows *)

LEMMA RecordsAreRows == Seq({"record"}) \subseteq Seq(Row)
  BY DEF Row

LEMMA TypesOfIO == IOInv => IOTypeOK
<1> SUFFICES ASSUME IOInv PROVE IOTypeOK
  OBVIOUS
<1>1. CredTypeOK /\ DOMAIN bucket \subseteq Keys
  BY DEF IOInv, Objects
<1>2. ASSUME NEW k \in DOMAIN bucket PROVE bucket[k] \in Object
  <2>1. CASE k \in Inputs
    <3>1. bucket[k] = [chunk |-> k, rows |-> Body[k]] /\ Body[k] \in Seq(Row)
      BY <2>1, BodiesAreRows DEF IOInv, Objects
    <3>2. QED
      BY <2>1, <3>1 DEF Object
  <2>2. CASE k \notin Inputs
    <3>1. /\ bucket[k] = [chunk |-> bucket[k].chunk, rows |-> bucket[k].rows]
          /\ bucket[k].chunk \in Inputs /\ bucket[k].rows = Records(Body[bucket[k].chunk])
      BY <1>2, <2>2 DEF IOInv, Objects
    <3>2. bucket[k].rows \in Seq(Row)
      BY <3>1, RecordsAreRecords, RecordsAreRows
    <3>3. QED
      BY <3>1, <3>2 DEF Object
  <2>3. QED
    BY <2>1, <2>2
<1>3. lister.pc \in {"idle", "listing", "done"} /\ lister.found \in Seq(Keys)
  <2>1. lister.found \in Seq(DOMAIN bucket)
    BY DEF IOInv, Listed
  <2>2. lister.found \in Seq(Keys)
    BY <1>1, <2>1
  <2>3. QED
    BY <2>2 DEF IOInv, Listed
<1>4. ASSUME NEW w \in Workers
      PROVE  /\ task[w].chunk \in Inputs \cup {0}
             /\ task[w].key \in Parts \cup Exact \cup {0}
             /\ task[w].records \in Seq({"record"})
             /\ request[w].pc # "idle" => Now(w) = "resolve"
  <2>1. Sound(task[w]) /\ Asking(w)
    BY DEF IOInv, OnTask
  <2>2. task[w].key \in Parts \cup Exact \cup {0}
    BY <2>1 DEF Sound, Uris, NoTask
  <2>3. QED
    BY <2>1, <2>2 DEF Sound, Asking
<1>5. ASSUME NEW v \in Workers, NEW w \in Workers, v # w, task[v].key = task[w].key
      PROVE  task[v].key \in Uris
  BY <1>4, <1>5 DEF IOInv, OnTask, Apart, Uris
<1>6. QED
  BY <1>1, <1>2, <1>3, <1>4, <1>5 DEF IOTypeOK

\* Every object, task, request and listing is of its kind, and only an exact
\* key is in the hands of two workers.
THEOREM TypesOfWorkers == Spec => []IOTypeOK
<1>1. QED
  BY IOInvariant, TypesOfIO, PTL

\* s3.py write: an output object is all the records of one chunk, however many
\* workers write and restart, and what write_outputs put under a prefix stays;
\* at an exact key another chunk may take its place.
THEOREM OutputsStayWhole == Spec => []OutputsAreWhole
<1>1. ASSUME IOInv PROVE OutputsAreWhole
  <2>1. Objects /\ Kept
    BY <1>1 DEF IOInv
  <2>2. ASSUME NEW k \in (Parts \cup Exact) \cap DOMAIN bucket
        PROVE  LET rows == Body[bucket[k].chunk]
               IN  (\A i \in DOMAIN rows : rows[i] # "bad") /\ bucket[k].rows = Records(rows)
    <3>1. k \in DOMAIN bucket \ Inputs
      BY <2>2, KeyFacts
    <3>2. QED
      BY <2>1, <3>1 DEF Objects, Parses
  <2>3. ASSUME NEW p \in written, p[2] = 0, Records(Body[p[1]]) # <<>>
        PROVE  PartsOf(p[1]) # {}
    BY <2>1, <2>3 DEF Kept
  <2>4. QED
    BY <2>2, <2>3 DEF OutputsAreWhole
<1>2. QED
  BY <1>1, IOInvariant, PTL

\* s3.py write: a chunk has at most one part for each time it was handed out.
THEOREM PartsAreFew == Spec => []DuplicatesOnlyByRestart
<1>1. IOInv => DuplicatesOnlyByRestart
  BY DEF IOInv, Counts, DuplicatesOnlyByRestart
<1>2. QED
  BY <1>1, IOInvariant, PTL

\* s3.py index: a listing is in order and misses nothing that was there when it
\* began, whatever the page size and whatever is written between two pages.
THEOREM ListingIsComplete == Spec => []IndexIsComplete
<1>1. ASSUME IOInv PROVE IndexIsComplete
  <2>1. Objects /\ Listed
    BY <1>1 DEF IOInv
  <2> DEFINE found == lister.found
  <2>2. /\ found \in Seq(DOMAIN bucket) /\ DOMAIN bucket \subseteq Nat
        /\ \A i, j \in DOMAIN found : i < j => found[i] < found[j]
        /\ lister.pc = "done" => stable \subseteq Range(found)
    BY <2>1, KeyFacts DEF Objects, Listed
  <2> HIDE DEF found
  <2>3. DOMAIN found = 1..Len(found) /\ Len(found) \in Nat
    BY <2>2
  <2>4. \A i \in DOMAIN found : found[i] \in DOMAIN bucket /\ found[i] \in Nat
    BY <2>2
  <2>5. ASSUME NEW i \in DOMAIN found, NEW j \in DOMAIN found, i # j PROVE found[i] # found[j]
    <3>1. i < j \/ j < i
      BY <2>3, <2>5
    <3>2. QED
      BY <2>2, <2>4, <3>1
  <2>6. Range(found) \subseteq DOMAIN bucket
    BY <2>4 DEF Range
  <2>7. QED
    BY <2>2, <2>5, <2>6 DEF IndexIsComplete, found
<1>2. QED
  BY <1>1, IOInvariant, PTL

\* worker/client.py resolves for each call: no object appears by a worker whose
\* ref was never live while it had the chunk.
THEOREM SecretsAreFresh == Spec => SecretsAreNotKept
<1>1. ASSUME IOInv, [Next]_vars, NEW w \in Workers, task[w].key \in DOMAIN bucket' \ DOMAIN bucket
      PROVE  w \in fresh
  <2>1. PICK v \in Workers :
           Now(v) = "put" /\ PutObject(task[v].key, task[v].chunk, task[v].records)
    BY <1>1, BucketStep
  <2>2. DOMAIN bucket' = DOMAIN bucket \cup {task[v].key}
    BY <2>1, AfterPut
  <2>3. OnTask(v) /\ OnTask(w)
    BY <1>1 DEF IOInv
  <2>4. task[v].key \in Parts \cup Exact
    BY <2>1, <2>3, PuttingWorker
  <2>5. task[w].key # 0
    BY <1>1, <2>2, <2>4, KeyFacts
  <2>6. task[w].chunk # 0 /\ task[w].calls \in Plans /\ task[w].calls \in HasName
    BY <2>3, <2>5 DEF OnTask, Sound, NoTask
  <2>7. task[w].calls \notin Orders
    BY <2>6, CallsLeft
  <2>8. QED
    BY <2>3, <2>6, <2>7 DEF OnTask
<1>2. IOInv /\ [Next]_vars =>
         [\A w \in Workers : task[w].key \in DOMAIN bucket' \ DOMAIN bucket => w \in fresh]_vars
  BY <1>1
<1>3. QED
  BY <1>2, IOInvariant, PTL DEF SecretsAreNotKept, Spec
=============================================================================
