----------------------------- MODULE Credentials -----------------------------
(***************************************************************************)
(* The credentials table (clients/credentials_store.py), the endpoint that *)
(* serves it (clients/credentials_server.py) and the workers' resolver     *)
(* (core/credentials_client.py).  A request is open from the moment the    *)
(* worker sends it; the endpoint first selects the row and then looks at   *)
(* the clock, and Orca may revoke or purge in between.  revoke and         *)
(* purge_expired select rows, then delete them by primary key;             *)
(* list_for_user looks at the clock first and then selects.  There is one  *)
(* clock: the hosts of Orca are assumed to agree on the time.              *)
(***************************************************************************)
EXTENDS Naturals, FiniteSets

CONSTANTS
    Refs,     \* credentials_refs
    Workers,  \* processes that resolve refs, one request each at a time
    Admins,   \* Orca processes that revoke, purge and list
    MaxTime,  \* bound: the clock's last value
    MaxPuts,  \* bound: how often one ref is written
    NULL

ASSUME CredentialBounds == MaxTime \in Nat /\ MaxPuts \in Nat
ASSUME NullIsNoTime == NULL \notin Nat /\ NULL \notin Refs
ASSUME FewAdmins == IsFiniteSet(Admins)

VARIABLES
    now,      \* the clock the store compares expires_at with
    creds,    \* credentials table: each ref's expires_at, or NULL
    puts,     \* history: how often each ref was written
    request,  \* per worker: its open request
    admin,    \* per admin: the operation under way
    claimed,  \* history: how often a revoke or a purge said it removed a ref
    seen,     \* history: refs live at some moment of a listing, or written during a purge
    lived,    \* history: workers whose ref was live at some moment of the request
    lapsed    \* history: workers whose ref was not live at some moment of it

credVars == <<now, creds, puts, request, admin, claimed, seen, lived, lapsed>>

\* pc: idle, sent, selected (row read, clock not yet), answered.
NoRequest == [pc |-> "idle", ref |-> NULL, token |-> TRUE, expires_at |-> NULL, status |-> 0]
Idle == [op |-> "none", refs |-> {}, at |-> 0]

\* Types; a worker has a status from its answer on, and only then, and a ref
\* while its request is open.
CredTypeOK ==
    /\ now \in 0..MaxTime
    /\ creds \in [Refs -> 1..MaxTime \cup {NULL}]
    /\ puts \in [Refs -> 0..MaxPuts]
    /\ request \in [Workers -> [ pc : {"idle", "sent", "selected", "answered"},
                                 ref : Refs \cup {NULL}, token : BOOLEAN, expires_at : 1..MaxTime \cup {NULL},
                                 status : {0, 200, 401, 404, 410} ]]
    /\ admin \in [Admins -> [ op : {"none", "revoke", "purge", "list", "listed"},
                              refs : SUBSET Refs, at : 0..MaxTime ]]
    /\ DOMAIN claimed = Refs /\ seen \in [Admins -> SUBSET Refs]
    /\ lived \subseteq Workers /\ lapsed \subseteq Workers
    /\ \A w \in Workers :
          /\ request[w].pc = "answered" <=> request[w].status # 0
          /\ request[w].pc # "idle" => request[w].ref \in Refs
    /\ \A c \in Refs : creds[c] # NULL => puts[c] > 0

CredInit ==
    /\ now = 0
    /\ creds = [c \in Refs |-> NULL]
    /\ puts = [c \in Refs |-> 0]
    /\ request = [w \in Workers |-> NoRequest]
    /\ admin = [a \in Admins |-> Idle]
    /\ claimed = [c \in Refs |-> 0]
    /\ seen = [a \in Admins |-> {}]
    /\ lived = {} /\ lapsed = {}

\* What a request for c ought to find.
Live(c) == creds[c] # NULL /\ now < creds[c]
LiveNext(c) == creds'[c] # NULL /\ now' < creds'[c]

\* The histories of the open requests, after any step.
Watch ==
    LET Open(w) == request'[w].pc \in {"sent", "selected"}
    IN  /\ lived' = {w \in Workers : \/ w \in lived /\ request'[w].pc # "idle"
                                     \/ Open(w) /\ LiveNext(request'[w].ref)}
        /\ lapsed' = {w \in Workers : \/ w \in lapsed /\ request'[w].pc # "idle"
                                      \/ Open(w) /\ ~LiveNext(request'[w].ref)}
        /\ seen' = [a \in Admins |->
               CASE admin'[a].op = "list" -> seen[a] \cup {c \in Refs : LiveNext(c)}
                 [] admin'[a].op = "purge" -> seen[a] \cup {c \in Refs : creds[c] = NULL /\ creds'[c] # NULL}
                 [] admin'[a].op = "listed" -> seen[a]
                 [] OTHER -> {}]

-----------------------------------------------------------------------------
(* Orca *)

\* put: an expiry in the future and a ref that has no row (the primary key);
\* new_credentials_ref mints a fresh one, a caller may supply one again.
Put(c, expires_at) ==
    /\ expires_at > now
    /\ creds[c] = NULL
    /\ puts[c] < MaxPuts
    /\ creds' = [creds EXCEPT ![c] = expires_at]
    /\ puts' = [puts EXCEPT ![c] = @ + 1]
    /\ UNCHANGED <<now, request, admin, claimed>>
    /\ Watch

\* An admin starts a call: the refs it has selected, the time it goes by, if any.
Select(a, op, S, at) ==
    /\ admin[a].op = "none"
    /\ admin' = [admin EXCEPT ![a] = [op |-> op, refs |-> S, at |-> at]]
    /\ UNCHANGED <<now, creds, puts, request, claimed>>
    /\ Watch

\* Fault: a ref without a row is deleted like any other.
RevokeUnseen(a, c) == Select(a, "revoke", {c}, 0)

\* revoke: return False when there is no row, else go on to delete it.
RevokeSelect(a, c) == creds[c] # NULL /\ Select(a, "revoke", {c}, 0)

\* Fault: the cutoff is compared the wrong way round.
UnexpiredBy(cutoff) == {c \in Refs : creds[c] # NULL /\ creds[c] >= cutoff}

\* The rows whose expires_at is no later than the cutoff.
ExpiredBy(cutoff) == {c \in Refs : creds[c] # NULL /\ creds[c] <= cutoff}

\* purge_expired: `before` is the present, or any moment the caller gives.
PurgeSelect(a, cutoff) == Select(a, "purge", ExpiredBy(cutoff), cutoff)

\* The DELETEs, by primary key, and the commit: True, or the number of rows
\* selected, whether or not the DELETEs still found them.
Delete(a) ==
    /\ admin[a].op \in {"revoke", "purge"}
    /\ creds' = [c \in Refs |-> IF c \in admin[a].refs THEN NULL ELSE creds[c]]
    /\ claimed' = [c \in Refs |-> IF c \in admin[a].refs THEN claimed[c] + 1 ELSE claimed[c]]
    /\ admin' = [admin EXCEPT ![a] = Idle]
    /\ UNCHANGED <<now, puts, request>>
    /\ Watch

\* list_for_user without the expired: the clock ...
ListClock(a) == Select(a, "list", {}, now)

Lists(a, r) ==
    /\ admin' = [admin EXCEPT ![a] = r]
    /\ UNCHANGED <<now, creds, puts, request, claimed>>
    /\ Watch

\* ... then the rows that expire after it.
ListRows(a) ==
    /\ admin[a].op = "list"
    /\ Lists(a, [admin[a] EXCEPT !.op = "listed",
                    !.refs = {c \in Refs : creds[c] # NULL /\ creds[c] > admin[a].at}])

ListDone(a) == admin[a].op = "listed" /\ Lists(a, Idle)

Tick ==
    /\ now < MaxTime
    /\ now' = now + 1
    /\ UNCHANGED <<creds, puts, request, admin, claimed>>
    /\ Watch

-----------------------------------------------------------------------------
(* A request: resolver and endpoint *)

Ask(w, r) ==
    /\ request' = [request EXCEPT ![w] = r]
    /\ UNCHANGED <<now, creds, puts, admin, claimed>>
    /\ Watch

\* resolve(ref): GET /credentials/<ref>, with the shared token or not.
Send(w, c, token) ==
    /\ request[w].pc = "idle"
    /\ Ask(w, [NoRequest EXCEPT !.pc = "sent", !.ref = c, !.token = token])

\* _require_token: no row is read for a request without the token.
Unauthorized(w) ==
    /\ request[w].pc = "sent" /\ ~request[w].token
    /\ Ask(w, [request[w] EXCEPT !.pc = "answered", !.status = 401])

\* CredentialStore.get: the row ...
SelectRow(w) ==
    /\ request[w].pc = "sent" /\ request[w].token
    /\ Ask(w, [request[w] EXCEPT !.pc = "selected", !.expires_at = creds[request[w].ref]])

\* Fault: a credential is still served at the instant it expires.
ServesAtExpiry(row) ==
    IF row = NULL THEN 404 ELSE IF row < now THEN 410 ELSE 200

\* Fault: the endpoint leaves CredentialNotFound to the framework.
UncaughtNotFound(row) ==
    IF row = NULL THEN 500 ELSE IF row <= now THEN 410 ELSE 200

\* Fault: the comparison is with the wrong sign.
RefusesTheLive(row) ==
    IF row = NULL THEN 404 ELSE IF row >= now THEN 410 ELSE 200

\* ... and then the clock: CredentialNotFound, CredentialExpired or the row.
StatusFor(row) ==
    IF row = NULL THEN 404 ELSE IF row <= now THEN 410 ELSE 200

Answer(w) ==
    /\ request[w].pc = "selected"
    /\ Ask(w, [request[w] EXCEPT !.pc = "answered", !.status = StatusFor(request[w].expires_at)])

\* httpx gives up after its timeout: no answer reaches the caller.
GiveUp(w) == request[w].pc \in {"sent", "selected"} /\ Ask(w, NoRequest)

\* resolve returns the secret or raises.
Resolved(w) == request[w].pc = "answered" /\ Ask(w, NoRequest)

AdminNext ==
    \/ \E c \in Refs, t \in 1..MaxTime : Put(c, t)
    \/ \E a \in Admins : \/ \E c \in Refs : RevokeSelect(a, c)
                         \/ \E t \in 0..MaxTime : PurgeSelect(a, t)
                         \/ Delete(a) \/ ListClock(a) \/ ListRows(a) \/ ListDone(a)

EndpointNext(w) == Unauthorized(w) \/ SelectRow(w) \/ Answer(w)

CredNext ==
    \/ AdminNext
    \/ Tick
    \/ \E w \in Workers :
          (\E c \in Refs, token \in BOOLEAN : Send(w, c, token)) \/ EndpointNext(w) \/ GiveUp(w) \/ Resolved(w)

CredSpec == CredInit /\ [][CredNext]_credVars

-----------------------------------------------------------------------------
(* Properties *)

\* credentials_store.py get, behind the endpoint: a request that is answered
\* 200 carried the token and found its credential written, unrevoked and
\* unexpired at some moment between being sent and being answered; and so did
\* list_for_user whatever it lists, although it reads the clock first and may
\* return rows that expired before they were selected.
ServedWhileLive ==
    /\ \A w \in Workers : request[w].status = 200 => request[w].token /\ w \in lived
    /\ \A a \in Admins : admin[a].op = "listed" => admin[a].refs \subseteq seen[a]

\* The other way round: a request refused with 404 or 410 found its credential
\* missing, revoked or expired at some moment while it was open.
RefusedWhileLapsed ==
    \A w \in Workers : request[w].status \in {404, 410} => w \in lapsed

\* purge_expired, between its SELECT and its DELETEs by key: what it is about
\* to delete ends by the cutoff it was given, so that a purge without `before`
\* leaves the live alone, unless the ref was deleted and written again since.
PurgeKeepsToItsCutoff ==
    \A a \in Admins : admin[a].op = "purge" =>
        \A c \in admin[a].refs :
            creds[c] # NULL /\ creds[c] > admin[a].at => c \in seen[a]

Removed(c) == puts[c] - (IF creds[c] = NULL THEN 0 ELSE 1)

\* What revoke and purge_expired say they removed: every removal is reported,
\* and a report stands for a removal in the time of its call, although two
\* calls that overlap may both report the same one.
RevokeIsTrue ==
    \A c \in Refs :
        /\ Removed(c) <= claimed[c]
        /\ claimed[c] <= Cardinality(Admins) * Removed(c)
=============================================================================
