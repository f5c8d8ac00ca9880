------------------------------- MODULE UserData -------------------------------
(***************************************************************************)
(* The S3 connector (connectors/s3.py) on one bucket: index, read and      *)
(* write.  An object is what its body says: the chunk its records come     *)
(* from and the rows, each a record, a blank line or one that does not     *)
(* parse.  Keys are numbered in listing order, the keys of part objects    *)
(* among those of the inputs.  A request to S3 is atomic; an index is a    *)
(* sequence of page requests and other requests come between the pages.    *)
(***************************************************************************)
EXTENDS Naturals, FiniteSets, FiniteSetsExt, Sequences, SequencesExt, Ascending

CONSTANTS
    Body,      \* the rows of each input object; its domain is the input keys
    Parts,     \* the keys part objects may get
    Exact,     \* the keys output_refs may name
    PageSize   \* keys in a page of a listing

Row == {"record", "blank", "bad"}

Inputs == DOMAIN Body
Keys == Inputs \cup Parts \cup Exact

ASSUME KeysAreOrdered == Keys \subseteq Nat \ {0} /\ Inputs \cap (Parts \cup Exact) = {}
ASSUME BodiesAreRows == IsFiniteSet(Inputs) /\ \A k \in Inputs : Body[k] \in Seq(Row)
ASSUME KeysDiffer == Parts \cap Exact = {}
ASSUME PageSizeIsPositive == PageSize \in Nat \ {0}

VARIABLES
    bucket,   \* the objects, by key
    lister,   \* [pc, marker, found]: the index under way
    stable    \* history: keys that existed when it began

dataVars == <<bucket, lister, stable>>

Object == [chunk : Inputs, rows : Seq(Row)]
NoListing == [pc |-> "idle", marker |-> 0, found |-> <<>>]

DataInit ==
    /\ bucket = [k \in Inputs |-> [chunk |-> k, rows |-> Body[k]]]
    /\ lister = NoListing
    /\ stable = {}

-----------------------------------------------------------------------------
(* read and write *)

\* Fault: a row that does not parse is passed over like a blank one.
PassesOver(rows) == TRUE

\* read: json.loads and the model accept every row that is not blank, ...
Parses(rows) == \A i \in DOMAIN rows : rows[i] # "bad"

\* ... and each of those becomes a record, in their order.
Records(rows) ==
    LET kept == Ascending({i \in DOMAIN rows : rows[i] = "record"})
    IN  [n \in DOMAIN kept |-> rows[kept[n]]]

\* put_object of a chunk's records at k.
PutObject(k, chunk, records) ==
    bucket' = [q \in DOMAIN bucket \cup {k} |->
                  IF q = k THEN [chunk |-> chunk, rows |-> records] ELSE bucket[q]]

-----------------------------------------------------------------------------
(* index: list_objects_v2, page by page, yielding keys as they come *)

StartListing ==
    /\ lister.pc = "idle"
    /\ lister' = [NoListing EXCEPT !.pc = "listing"]
    /\ stable' = DOMAIN bucket

\* Fault: only the first page is read.
FirstPageOnly ==
    IF lister.marker > 0 THEN <<>>
    ELSE LET rest == Ascending(DOMAIN bucket)
         IN  SubSeq(rest, 1, Min({PageSize, Len(rest)}))

\* The keys past the last one listed, at most a page of them.
Page ==
    LET rest == Ascending({k \in DOMAIN bucket : k > lister.marker})
    IN  SubSeq(rest, 1, Min({PageSize, Len(rest)}))

ListPage ==
    /\ lister.pc = "listing"
    /\ IF Page = <<>>
       THEN lister' = [lister EXCEPT !.pc = "done"]
       ELSE lister' = [lister EXCEPT !.found = @ \o Page, !.marker = Last(Page)]
    /\ UNCHANGED stable

EndListing ==
    /\ lister.pc = "done"
    /\ lister' = NoListing
    /\ stable' = {}

-----------------------------------------------------------------------------
(* Properties *)

\* s3.py index: a listing during which workers write part objects yields every
\* object that was there when it began, each once, and only existing ones.
IndexIsComplete ==
    /\ \A i, j \in DOMAIN lister.found : i # j => lister.found[i] # lister.found[j]
    /\ Range(lister.found) \subseteq DOMAIN bucket
    /\ lister.pc = "done" => stable \subseteq Range(lister.found)
=============================================================================
