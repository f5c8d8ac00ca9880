------------------------------ MODULE WorkerIO ------------------------------
(***************************************************************************)
(* Workers that move chunks through worker/client.py: fetch_payload and    *)
(* write_outputs, each of which resolves the chunk's credentials_ref       *)
(* (Credentials) and calls the S3 connector (UserData), while Orca         *)
(* indexes the bucket, revokes and purges.  Orca hands chunks out and      *)
(* hands a failed one out again; that part is outside the repository.      *)
(***************************************************************************)
EXTENDS Credentials, UserData

CONSTANTS
    RefOf,      \* the credentials_ref of each chunk
    MaxStarts   \* bound: how often one chunk is handed out

ASSUME RefsAreRefs == RefOf \in [Inputs -> Refs]
ASSUME StartBound == MaxStarts \in Nat

VARIABLES
    task,     \* per worker: the chunk in hand, the calls left and their values
    starts,   \* history: how often each chunk was handed out
    written,  \* history: chunk and uri of each write_outputs that returned
    fresh     \* history: workers whose ref was live at some moment of the task

ioVars == <<task, starts, written, fresh>>
vars == <<credVars, dataVars, ioVars>>

\* Fault: a worker goes on with the secret of an earlier chunk.
Unresolved == {<<"get", "name", "put">>}

\* Records drained into a list before the write, or by the write itself:
\* fetch_payload is a generator, so it resolves and reads when first drained.
Eager == <<"resolve", "get", "resolve", "name", "put">>
Lazy  == <<"resolve", "name", "resolve", "get", "put">>

Orders == {Eager, Lazy}

\* The uri of an output_ref: a prefix, or the exact key of an object.
Uris == {0} \cup Exact

\* calls: what is left of the task; key: the name of the object, or 0.
NoTask == [chunk |-> 0, uri |-> 0, calls |-> <<>>, key |-> 0, records |-> <<>>]

Busy(w) == task[w].chunk # 0
Now(w) == IF Busy(w) THEN Head(task[w].calls) ELSE "none"

IOTypeOK ==
    /\ CredTypeOK
    /\ DOMAIN bucket \subseteq Keys
    /\ \A k \in DOMAIN bucket : bucket[k] \in Object
    /\ lister.pc \in {"idle", "listing", "done"} /\ lister.found \in Seq(Keys)
    /\ \A w \in Workers :
          /\ task[w].chunk \in Inputs \cup {0}
          /\ task[w].key \in Parts \cup Exact \cup {0}
          /\ task[w].records \in Seq({"record"})
          /\ request[w].pc # "idle" => Now(w) = "resolve"
    /\ \A v, w \in Workers : v # w /\ task[v].key = task[w].key => task[v].key \in Uris

Init ==
    /\ CredInit /\ DataInit
    /\ task = [w \in Workers |-> NoTask]
    /\ starts = [c \in Inputs |-> 0]
    /\ written = {}
    /\ fresh = {}

-----------------------------------------------------------------------------
(* A worker on a chunk *)

Start(w, chunk, uri, calls) ==
    /\ ~Busy(w)
    /\ \A p \in written : p[1] # chunk
    /\ \A v \in Workers : task[v].chunk # chunk
    /\ starts[chunk] < MaxStarts
    /\ task' = [task EXCEPT ![w] = [NoTask EXCEPT !.chunk = chunk, !.uri = uri,
                                                 !.calls = calls]]
    /\ starts' = [starts EXCEPT ![chunk] = @ + 1]
    /\ UNCHANGED <<credVars, dataVars, written>>

\* The call returned and the next one is due.
Return(w, t) == task' = [task EXCEPT ![w] = [t EXCEPT !.calls = Tail(@)]]

\* resolver.resolve(ref.credentials_ref).
Request(w) ==
    /\ Now(w) = "resolve"
    /\ Send(w, RefOf[task[w].chunk], TRUE)
    /\ UNCHANGED <<dataVars, task, starts, written>>

HaveSecret(w) ==
    /\ Now(w) = "resolve" /\ request[w].status = 200
    /\ Resolved(w)
    /\ Return(w, task[w])
    /\ UNCHANGED <<dataVars, starts, written>>

\* get_object, and the records of the whole body.
Get(w) ==
    LET rows == bucket[task[w].chunk].rows
    IN  /\ Now(w) = "get"
        /\ Parses(rows)
        /\ Return(w, [task[w] EXCEPT !.records = Records(rows)])
        /\ UNCHANGED <<credVars, dataVars, starts, written>>

\* Fault: the part is named by its chunk.
ByChunk(w, k) == k \in Parts /\ Cardinality({p \in Parts : p < k}) = 0

\* Under a prefix: part-<12 hex digits of a fresh uuid4>.
Fresh(w, k) == k \in Parts \ DOMAIN bucket /\ \A v \in Workers : task[v].key # k

Name(w, k) ==
    /\ Now(w) = "name"
    /\ IF task[w].uri = 0 THEN Fresh(w, k) ELSE k = task[w].uri
    /\ Return(w, [task[w] EXCEPT !.key = k])
    /\ UNCHANGED <<credVars, dataVars, starts, written>>

\* write_outputs returns: no object for no records, else put_object answered.
PutAnswered(w) ==
    /\ Now(w) = "put"
    /\ IF task[w].records = <<>> THEN UNCHANGED bucket
       ELSE PutObject(task[w].key, task[w].chunk, task[w].records)
    /\ written' = written \cup {<<task[w].chunk, task[w].uri>>}
    /\ task' = [task EXCEPT ![w] = NoTask]
    /\ UNCHANGED <<credVars, lister, stable, starts>>

\* Fault: the part is named anew for each request.
PutRenamed(w) ==
    /\ Now(w) = "put" /\ task[w].records # <<>>
    /\ PutObject(task[w].key, task[w].chunk, task[w].records)
    /\ \E k \in Parts : Fresh(w, k) /\ task' = [task EXCEPT ![w].key = k]
    /\ UNCHANGED <<credVars, lister, stable, starts, written>>

\* S3 stored the object and the answer was lost: boto3 sends the request again.
PutUnanswered(w) ==
    /\ Now(w) = "put" /\ task[w].records # <<>>
    /\ PutObject(task[w].key, task[w].chunk, task[w].records)
    /\ UNCHANGED <<credVars, lister, stable, task, starts, written>>

\* The call in hand raises, or the worker dies; Orca may hand the chunk out again.
Fail(w) ==
    /\ Busy(w)
    /\ Ask(w, NoRequest)
    /\ task' = [task EXCEPT ![w] = NoTask]
    /\ UNCHANGED <<dataVars, starts, written>>

WorkerNext(w) ==
    \/ \E chunk \in Inputs, uri \in Uris, calls \in Orders : Start(w, chunk, uri, calls)
    \/ Request(w) \/ HaveSecret(w) \/ Get(w) \/ (\E k \in Keys : Name(w, k))
    \/ PutAnswered(w) \/ PutUnanswered(w) \/ Fail(w)

CredStep ==
    /\ AdminNext \/ Tick \/ \E w \in Workers : EndpointNext(w)
    /\ UNCHANGED <<dataVars, task, starts, written>>

IndexStep ==
    /\ StartListing \/ ListPage \/ EndListing
    /\ UNCHANGED <<credVars, bucket, task, starts, written>>

\* The history of the tasks, after any step.
Freshen ==
    fresh' = {w \in Workers : task'[w].chunk # 0 /\ (w \in fresh \/ LiveNext(RefOf[task'[w].chunk]))}

Next ==
    /\ (\E w \in Workers : WorkerNext(w)) \/ CredStep \/ IndexStep
    /\ Freshen

Spec == Init /\ [][Next]_vars

-----------------------------------------------------------------------------
(* Properties *)

PartsOf(chunk) == {k \in Parts \cap DOMAIN bucket : bucket[k].chunk = chunk}

\* worker/client.py and s3.py write: whatever fails, is retried or runs next to
\* it, an output object, under a prefix or at an exact key, holds all records
\* of one chunk whose every row parsed; and a chunk whose write_outputs to a
\* prefix returned has its object there.
OutputsAreWhole ==
    /\ \A k \in (Parts \cup Exact) \cap DOMAIN bucket :
          LET rows == Body[bucket[k].chunk]
          IN  (\A i \in DOMAIN rows : rows[i] # "bad") /\ bucket[k].rows = Records(rows)
    /\ \A p \in written : p[2] = 0 /\ Records(Body[p[1]]) # <<>> => PartsOf(p[1]) # {}

\* core/record.py: "Outputs append", for every output_ref: the records of a
\* write_outputs that returned are in the bucket.
OutputsAppend ==
    \A p \in written : Records(Body[p[1]]) # <<>> =>
        \E k \in (Parts \cup Exact) \cap DOMAIN bucket : bucket[k].chunk = p[1]

\* s3.py write draws the part's name before it sends anything: a request sent
\* again overwrites its own object, so only a chunk handed out again has two.
DuplicatesOnlyByRestart ==
    \A chunk \in Inputs : Cardinality(PartsOf(chunk)) <= starts[chunk]

\* worker/client.py resolves the ref in each call and keeps no secret: a new
\* object appears only if the chunk's ref was live since the worker took it.
SecretsAreNotKept ==
    [][\A w \in Workers : task[w].key \in DOMAIN bucket' \ DOMAIN bucket => w \in fresh]_vars
=============================================================================
