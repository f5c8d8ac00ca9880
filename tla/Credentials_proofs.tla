-------------------------- MODULE Credentials_proofs --------------------------
(***************************************************************************)
(* The credential store for any workers, Orca processes, refs and times.   *)
(***************************************************************************)
EXTENDS Credentials, FiniteSetTheorems, TLAPS

\* A step of Orca's, of the clock or of a request, by what it writes.
LEMMA StepsOf ==
    ASSUME [CredNext]_credVars
    PROVE  \/ \E c \in Refs, t \in 1..MaxTime : Put(c, t)
           \/ \E a \in Admins : \/ \E c \in Refs : RevokeSelect(a, c)
                                \/ \E t \in 0..MaxTime : PurgeSelect(a, t)
                                \/ Delete(a) \/ ListClock(a) \/ ListRows(a) \/ ListDone(a)
           \/ Tick
           \/ \E w \in Workers :
                 \/ \E c \in Refs, token \in BOOLEAN : Send(w, c, token)
                 \/ Unauthorized(w) \/ SelectRow(w) \/ Answer(w)
                 \/ GiveUp(w) \/ Resolved(w)
           \/ UNCHANGED credVars
  BY DEF CredNext, AdminNext, EndpointNext

\* What a request may be.
Requests == [ pc : {"idle", "sent", "selected", "answered"}, ref : Refs \cup {NULL},
             token : BOOLEAN, expires_at : 1..MaxTime \cup {NULL},
             status : {0, 200, 401, 404, 410} ]

Operation == [ op : {"none", "revoke", "purge", "list", "listed"},
               refs : SUBSET Refs, at : 0..MaxTime ]

\* A request with its answer, and one with the row that was read for it.
Answered(r, s) == [r EXCEPT !.pc = "answered", !.status = s]
Selected(r, t) == [r EXCEPT !.pc = "selected", !.expires_at = t]

LEMMA AnsweredFields ==
    ASSUME NEW r \in Requests, NEW s \in {200, 401, 404, 410}
    PROVE  /\ Answered(r, s) \in Requests
           /\ Answered(r, s).pc = "answered"
           /\ Answered(r, s).status = s
           /\ Answered(r, s).ref = r.ref
           /\ Answered(r, s).token = r.token
<1>1. Answered(r, s) \in Requests
  <2>1. [r EXCEPT !.pc = "answered"] \in Requests
    BY DEF Requests
  <2>2. ASSUME NEW q \in Requests PROVE [q EXCEPT !.status = s] \in Requests
    BY DEF Requests
  <2>3. QED
    BY <2>1, <2>2 DEF Answered
<1>2. QED
  BY <1>1 DEF Answered, Requests

LEMMA SelectedFields ==
    ASSUME NEW r \in Requests, NEW t \in 1..MaxTime \cup {NULL}
    PROVE  /\ Selected(r, t) \in Requests
           /\ Selected(r, t).pc = "selected"
           /\ Selected(r, t).expires_at = t
           /\ Selected(r, t).status = r.status
           /\ Selected(r, t).ref = r.ref
           /\ Selected(r, t).token = r.token
<1>1. Selected(r, t) \in Requests
  <2>1. [r EXCEPT !.pc = "selected"] \in Requests
    BY DEF Requests
  <2>2. ASSUME NEW q \in Requests PROVE [q EXCEPT !.expires_at = t] \in Requests
    BY DEF Requests
  <2>3. QED
    BY <2>1, <2>2 DEF Selected
<1>2. QED
  BY <1>1 DEF Selected, Requests

LEMMA OperationFields ==
    ASSUME NEW o \in Operation, NEW S \in SUBSET Refs
    PROVE  [o EXCEPT !.op = "listed", !.refs = S] \in Operation
  BY DEF Operation

LEMMA Typed ==
    ASSUME CredTypeOK
    PROVE  /\ request \in [Workers -> Requests]
           /\ admin \in [Admins -> Operation]
  BY DEF CredTypeOK, Requests, Operation

LEMMA AskIsTyped ==
    ASSUME CredTypeOK, NEW w \in Workers, NEW r \in Requests, Ask(w, r),
           r.pc = "answered" <=> r.status # 0, r.pc # "idle" => r.ref \in Refs
    PROVE  CredTypeOK'
<1>1. request' = [request EXCEPT ![w] = r] /\ UNCHANGED <<now, creds, puts, admin, claimed>>
  BY DEF Ask
<1>2. /\ lived' \subseteq Workers /\ lapsed' \subseteq Workers
      /\ seen' \in [Admins -> SUBSET Refs]
  <2>1. admin' = admin
    BY <1>1
  <2>2. QED
    BY <2>1 DEF Ask, Watch, CredTypeOK
<1>3. QED
  BY <1>1, <1>2 DEF CredTypeOK, Requests

LEMMA AdminIsTyped ==
    ASSUME CredTypeOK, NEW a \in Admins, NEW o \in Operation,
           admin' = [admin EXCEPT ![a] = o], UNCHANGED <<now, puts, request>>,
           creds' \in [Refs -> 1..MaxTime \cup {NULL}], DOMAIN claimed' = Refs,
           \A c \in Refs : creds'[c] # NULL => creds[c] # NULL, Watch
    PROVE  CredTypeOK'
<1>1. /\ lived' \subseteq Workers /\ lapsed' \subseteq Workers
      /\ seen' \in [Admins -> SUBSET Refs]
  BY DEF Watch, CredTypeOK
<1>2. admin' \in [Admins -> Operation]
  BY DEF CredTypeOK, Operation
<1>3. QED
  BY <1>1, <1>2 DEF CredTypeOK, Operation

LEMMA CredTypeStep == CredTypeOK /\ [CredNext]_credVars => CredTypeOK'
<1> SUFFICES ASSUME CredTypeOK, [CredNext]_credVars PROVE CredTypeOK'
  OBVIOUS
<1>1. ASSUME NEW c \in Refs, NEW t \in 1..MaxTime, Put(c, t) PROVE CredTypeOK'
  <2>1. /\ lived' \subseteq Workers /\ lapsed' \subseteq Workers
        /\ seen' \in [Admins -> SUBSET Refs]
    BY <1>1 DEF Put, Watch, CredTypeOK
  <2>2. /\ creds' = [creds EXCEPT ![c] = t] /\ puts' = [puts EXCEPT ![c] = @ + 1]
        /\ puts[c] < MaxPuts /\ UNCHANGED <<now, request, admin, claimed>>
    BY <1>1 DEF Put
  <2>3. QED
    BY <2>1, <2>2, CredentialBounds DEF CredTypeOK
<1>2. ASSUME NEW a \in Admins, NEW op \in {"revoke", "purge", "list"}, NEW S \in SUBSET Refs,
             NEW t \in 0..MaxTime, Select(a, op, S, t)
      PROVE  CredTypeOK'
  <2> DEFINE o == [op |-> op, refs |-> S, at |-> t]
  <2>1. o \in Operation
    BY CredentialBounds DEF CredTypeOK, Operation
  <2>2. QED
    BY <1>2, <2>1, AdminIsTyped DEF Select, CredTypeOK
<1>3. ASSUME NEW a \in Admins, Delete(a) PROVE CredTypeOK'
  <2>1. Idle \in Operation
    BY CredentialBounds DEF Idle, Operation
  <2>2. /\ creds' \in [Refs -> 1..MaxTime \cup {NULL}] /\ DOMAIN claimed' = Refs
        /\ \A c \in Refs : creds'[c] # NULL => creds[c] # NULL
    BY <1>3 DEF Delete, CredTypeOK
  <2>3. QED
    BY <1>3, <2>1, <2>2, AdminIsTyped DEF Delete
<1>4. ASSUME NEW a \in Admins, NEW o \in Operation, Lists(a, o) PROVE CredTypeOK'
  BY <1>4, AdminIsTyped DEF Lists, CredTypeOK
<1>5. ASSUME NEW a \in Admins, ListRows(a) \/ ListDone(a) PROVE CredTypeOK'
  <2>1. Idle \in Operation
    BY CredentialBounds DEF Idle, Operation
  <2>2. admin[a] \in Operation
    BY Typed
  <2>3. CASE ListRows(a)
    <3>1. PICK S \in SUBSET Refs : Lists(a, [admin[a] EXCEPT !.op = "listed", !.refs = S])
      BY <2>3 DEF ListRows
    <3>2. QED
      BY <3>1, <2>2, <1>4, OperationFields
  <2>4. CASE ListDone(a)
    BY <1>4, <2>1, <2>4 DEF ListDone
  <2>5. QED
    BY <1>5, <2>3, <2>4
<1>6. CASE Tick
  <2>1. /\ lived' \subseteq Workers /\ lapsed' \subseteq Workers
        /\ seen' \in [Admins -> SUBSET Refs]
    BY <1>6 DEF Tick, Watch, CredTypeOK
  <2>2. QED
    BY <1>6, <2>1, CredentialBounds DEF Tick, CredTypeOK
<1>7. NoRequest \in Requests
  BY DEF NoRequest, Requests
<1>8. ASSUME NEW w \in Workers, NEW c \in Refs, NEW token \in BOOLEAN, Send(w, c, token)
      PROVE  CredTypeOK'
  <2>1. [NoRequest EXCEPT !.pc = "sent", !.ref = c, !.token = token] \in Requests
    BY DEF NoRequest, Requests
  <2>2. QED
    BY <1>8, <2>1, AskIsTyped DEF Send, NoRequest
<1>9. ASSUME NEW w \in Workers,
             Unauthorized(w) \/ SelectRow(w) \/ Answer(w) \/ GiveUp(w) \/ Resolved(w)
      PROVE  CredTypeOK'
  <2>1. request[w] \in Requests
    BY Typed
  <2>a. /\ request[w].pc = "answered" <=> request[w].status # 0
        /\ request[w].pc # "idle" => request[w].ref \in Refs
    BY DEF CredTypeOK
  <2>2. ASSUME NEW status \in {200, 401, 404, 410}, request[w].pc \in {"sent", "selected"},
               Ask(w, Answered(request[w], status))
        PROVE  CredTypeOK'
    <3>1. request[w].ref \in Refs
      BY <2>2, <2>a
    <3>2. QED
      BY <2>1, <2>2, <3>1, AnsweredFields, AskIsTyped
  <2>3. ASSUME SelectRow(w) PROVE CredTypeOK'
    <3>1. request[w].pc = "sent" /\ request[w].ref \in Refs /\ request[w].status = 0
      BY <2>3, <2>a DEF SelectRow
    <3>2. creds[request[w].ref] \in 1..MaxTime \cup {NULL}
      BY <3>1 DEF CredTypeOK
    <3>3. Ask(w, Selected(request[w], creds[request[w].ref]))
      BY <2>3 DEF SelectRow, Selected
    <3>4. QED
      BY <2>1, <3>1, <3>2, <3>3, SelectedFields, AskIsTyped
  <2>4. ASSUME Unauthorized(w) \/ Answer(w) PROVE CredTypeOK'
    <3>1. CASE Unauthorized(w)
      BY <2>2, <3>1 DEF Unauthorized, Answered
    <3>2. CASE Answer(w)
      <4>1. StatusFor(request[w].expires_at) \in {200, 401, 404, 410}
        BY DEF StatusFor
      <4>2. /\ request[w].pc \in {"sent", "selected"}
            /\ Ask(w, Answered(request[w], StatusFor(request[w].expires_at)))
        BY <3>2 DEF Answer, Answered
      <4>3. QED
        BY <2>2, <4>1, <4>2
    <3>3. QED
      BY <2>4, <3>1, <3>2
  <2>5. ASSUME Ask(w, NoRequest) PROVE CredTypeOK'
    BY <1>7, <2>5, AskIsTyped DEF NoRequest
  <2>6. QED
    BY <1>9, <2>3, <2>4, <2>5 DEF GiveUp, Resolved
<1>10. CASE UNCHANGED credVars
  BY <1>10 DEF credVars, CredTypeOK
<1>11. ASSUME NEW a \in Admins, NEW c \in Refs, RevokeSelect(a, c) PROVE CredTypeOK'
  BY <1>2, <1>11, CredentialBounds DEF RevokeSelect
<1>12. ASSUME NEW a \in Admins, NEW t \in 0..MaxTime, PurgeSelect(a, t) PROVE CredTypeOK'
  <2>1. ExpiredBy(t) \in SUBSET Refs
    BY DEF ExpiredBy
  <2>2. QED
    BY <1>2, <1>12, <2>1 DEF PurgeSelect
<1>13. ASSUME NEW a \in Admins, ListClock(a) PROVE CredTypeOK'
  BY <1>2, <1>13 DEF ListClock, CredTypeOK
<1>14. QED
  BY <1>1, <1>3, <1>5, <1>6, <1>8, <1>9, <1>10, <1>11, <1>12, <1>13, StepsOf

\* Every row, request, operation and history of the credential store has its
\* type, an answered request has a status and an open one a ref.
THEOREM CredTypeCorrect == CredSpec => []CredTypeOK
<1>1. CredInit => CredTypeOK
  BY CredentialBounds, NullIsNoTime DEF CredInit, CredTypeOK, NoRequest, Idle
<1>2. CredTypeOK /\ [CredNext]_credVars => CredTypeOK'
  BY CredTypeStep
<1>3. QED
  BY <1>1, <1>2, PTL DEF CredSpec

-----------------------------------------------------------------------------
(* What a step of the others does to a request *)

LEMMA EveryStepWatches == [CredNext]_credVars => Watch \/ UNCHANGED credVars
  BY StepsOf DEF Put, RevokeSelect, PurgeSelect, Select, Delete, ListClock, ListRows,
     ListDone, Lists, Tick, Ask, Send, Unauthorized, SelectRow, Answer, GiveUp, Resolved

\* Time does not go back, and an expiry is removed before another is written.
LEMMA WorldStep ==
    ASSUME CredTypeOK, [CredNext]_credVars
    PROVE  /\ now <= now'
           /\ \A c \in Refs : creds'[c] = creds[c] \/ creds[c] = NULL \/ creds'[c] = NULL
<1>1. ASSUME UNCHANGED <<now, creds>> PROVE now <= now' /\ \A c \in Refs : creds'[c] = creds[c]
  BY <1>1, CredentialBounds DEF CredTypeOK
<1>2. ASSUME NEW c \in Refs, NEW t \in 1..MaxTime, Put(c, t)
      PROVE  /\ now <= now'
             /\ \A d \in Refs : creds'[d] = creds[d] \/ creds[d] = NULL
  BY <1>2, CredentialBounds DEF Put, CredTypeOK
<1>3. ASSUME NEW a \in Admins, Delete(a)
      PROVE  /\ now <= now'
             /\ \A d \in Refs : creds'[d] = creds[d] \/ creds'[d] = NULL
  BY <1>3, CredentialBounds DEF Delete, CredTypeOK
<1>4. CASE Tick
  BY <1>4, CredentialBounds DEF Tick, CredTypeOK
<1>5. CASE UNCHANGED <<now, creds>>
  BY <1>1, <1>5
<1>6. \/ UNCHANGED <<now, creds>> \/ Tick
      \/ \E c \in Refs, t \in 1..MaxTime : Put(c, t)
      \/ \E a \in Admins : Delete(a)
  BY StepsOf DEF RevokeSelect, PurgeSelect, Select, ListClock, ListRows,
     ListDone, Lists, Ask, Send, Unauthorized, SelectRow, Answer, GiveUp, Resolved, credVars
<1>7. QED
  BY <1>2, <1>3, <1>4, <1>5, <1>6

\* A request changes only by its own steps, which leave the table and the clock.
LEMMA RequestChange ==
    ASSUME CredTypeOK, [CredNext]_credVars, NEW w \in Workers
    PROVE  \/ request'[w] = request[w]
           \/ /\ UNCHANGED <<now, creds>>
              /\ \/ \E c \in Refs, token \in BOOLEAN : Send(w, c, token)
                 \/ Unauthorized(w) \/ SelectRow(w) \/ Answer(w)
                 \/ GiveUp(w) \/ Resolved(w)
<1>1. ASSUME NEW v \in Workers, NEW r, Ask(v, r)
      PROVE  UNCHANGED <<now, creds>> /\ (v # w => request'[w] = request[w])
  BY <1>1 DEF Ask, CredTypeOK
<1>2. ASSUME NEW v \in Workers,
             \/ \E c \in Refs, token \in BOOLEAN : Send(v, c, token)
             \/ Unauthorized(v) \/ SelectRow(v) \/ Answer(v) \/ GiveUp(v) \/ Resolved(v)
      PROVE  UNCHANGED <<now, creds>> /\ (v # w => request'[w] = request[w])
  BY <1>1, <1>2 DEF Send, Unauthorized, SelectRow, Answer, GiveUp, Resolved
<1>3. ASSUME \/ \E c \in Refs, t \in 1..MaxTime : Put(c, t)
             \/ \E a \in Admins : \/ \E c \in Refs : RevokeSelect(a, c)
                                  \/ \E t \in 0..MaxTime : PurgeSelect(a, t)
                                  \/ Delete(a) \/ ListClock(a) \/ ListRows(a) \/ ListDone(a)
             \/ Tick
             \/ UNCHANGED credVars
      PROVE  request' = request
  BY <1>3 DEF Put, RevokeSelect, PurgeSelect, Select, Delete, ListClock, ListRows,
     ListDone, Lists, Tick, credVars
<1>4. request' = request \/ \E v \in Workers :
          \/ \E c \in Refs, token \in BOOLEAN : Send(v, c, token)
          \/ Unauthorized(v) \/ SelectRow(v) \/ Answer(v) \/ GiveUp(v) \/ Resolved(v)
  BY <1>3, StepsOf
<1>5. QED
  BY <1>2, <1>4

-----------------------------------------------------------------------------
(* Requests *)

\* What the histories of an open request say of its row, and of the one read
\* for it; and what an answer says of the histories.
Watched(w) ==
    /\ request[w].pc \in {"sent", "selected"} =>
          IF Live(request[w].ref) THEN w \in lived ELSE w \in lapsed
    /\ request[w].pc = "selected" =>
          LET row == request[w].expires_at
          IN  /\ request[w].token
              /\ row = NULL => w \in lapsed
              /\ row # NULL /\ now < row => w \in lived
              /\ row # NULL => w \in lapsed \/ creds[request[w].ref] = row
    /\ request[w].status = 200 => request[w].token /\ w \in lived
    /\ request[w].status \in {404, 410} => w \in lapsed

LEMMA WatchedStep ==
    ASSUME CredTypeOK, CredTypeOK', [CredNext]_credVars, NEW w \in Workers, Watched(w)
    PROVE  Watched(w)'
<1>1. CASE UNCHANGED credVars
  BY <1>1 DEF credVars, Watched, Live
<1>2. CASE Watch
  <2>1. ASSUME request'[w].pc \in {"sent", "selected"}
        PROVE  IF Live(request[w].ref)' THEN w \in lived' ELSE w \in lapsed'
    BY <1>2, <2>1 DEF Watch, LiveNext, Live
  <2>2. ASSUME request'[w].pc # "idle"
        PROVE  (w \in lived => w \in lived') /\ (w \in lapsed => w \in lapsed')
    BY <1>2, <2>2 DEF Watch
  <2>3. request'[w].status # 0 => request'[w].pc # "idle"
    BY DEF CredTypeOK
  <2>4. CASE request'[w] = request[w]
    <3>1. ASSUME request[w].pc = "selected", request[w].expires_at # NULL,
                 now' < request[w].expires_at
          PROVE  w \in lived'
      <4>1. now <= now' /\ now \in Nat /\ now' \in Nat /\ request[w].expires_at \in Nat
        BY <3>1, WorldStep, CredentialBounds, Typed DEF CredTypeOK, Requests
      <4>2. now < request[w].expires_at
        BY <3>1, <4>1
      <4>3. QED
        BY <2>2, <2>4, <3>1, <4>2 DEF Watched
    <3>2. ASSUME request[w].pc = "selected", request[w].expires_at # NULL
          PROVE  w \in lapsed' \/ creds'[request[w].ref] = request[w].expires_at
      <4>1. CASE w \in lapsed
        BY <2>2, <2>4, <3>2, <4>1
      <4>2. CASE creds[request[w].ref] = request[w].expires_at
        <5>1. request[w].ref \in Refs
          BY <3>2 DEF CredTypeOK
        <5>2. \/ creds'[request[w].ref] = request[w].expires_at
              \/ creds'[request[w].ref] = NULL
          BY <3>2, <4>2, <5>1, WorldStep
        <5>3. QED
          BY <2>1, <2>4, <3>2, <5>2 DEF Live
      <4>3. QED
        BY <3>2, <4>1, <4>2 DEF Watched
    <3>3. QED
      BY <2>1, <2>2, <2>3, <2>4, <3>1, <3>2 DEF Watched
  <2>5. ASSUME NEW c \in Refs, NEW token \in BOOLEAN, Send(w, c, token) PROVE Watched(w)'
    <3>1. request'[w].pc = "sent" /\ request'[w].status = 0
      BY <2>5 DEF Send, Ask, NoRequest, CredTypeOK
    <3>2. QED
      BY <2>1, <3>1 DEF Watched
  <2>6. CASE GiveUp(w) \/ Resolved(w)
    <3>1. request'[w].pc = "idle" /\ request'[w].status = 0
      BY <2>6 DEF GiveUp, Resolved, Ask, NoRequest, CredTypeOK
    <3>2. QED
      BY <3>1 DEF Watched
  <2>7. request[w] \in Requests
    BY Typed
  <2>8. CASE Unauthorized(w)
    <3>1. request'[w] = Answered(request[w], 401)
      BY <2>8 DEF Unauthorized, Ask, Answered, CredTypeOK
    <3>2. request'[w].pc = "answered" /\ request'[w].status = 401
      BY <2>7, <3>1, AnsweredFields
    <3>3. QED
      BY <3>2 DEF Watched
  <2>9. CASE SelectRow(w)
    <3>1. /\ request[w].pc = "sent" /\ request[w].token /\ UNCHANGED <<now, creds>>
          /\ request'[w] = Selected(request[w], creds[request[w].ref])
      BY <2>9 DEF SelectRow, Ask, Selected, CredTypeOK
    <3>2. creds[request[w].ref] \in 1..MaxTime \cup {NULL} /\ request[w].status = 0
      BY <3>1 DEF CredTypeOK
    <3>3. /\ request'[w].pc = "selected" /\ request'[w].status = 0
          /\ request'[w].token = request[w].token /\ request'[w].ref = request[w].ref
          /\ request'[w].expires_at = creds[request[w].ref]
      <4> DEFINE row == creds[request[w].ref]
                 r == request[w]
      <4>1. r \in Requests /\ row \in 1..MaxTime \cup {NULL} /\ r.status = 0
        BY <2>7, <3>2
      <4>2. request'[w] = Selected(r, row)
        BY <3>1
      <4> HIDE DEF row, r
      <4>3. /\ request'[w].pc = "selected" /\ request'[w].status = 0
            /\ request'[w].token = r.token /\ request'[w].ref = r.ref
            /\ request'[w].expires_at = row
        <5>1. /\ Selected(r, row).pc = "selected" /\ Selected(r, row).status = r.status
              /\ Selected(r, row).token = r.token /\ Selected(r, row).ref = r.ref
              /\ Selected(r, row).expires_at = row
          BY <4>1, SelectedFields
        <5>2. QED
          BY <4>1, <4>2, <5>1
      <4>4. QED
        BY <4>3 DEF row, r
    <3>4. QED
      BY <2>1, <3>1, <3>3 DEF Watched, Live
  <2>10. CASE Answer(w)
    <3>1. /\ request[w].pc = "selected"
          /\ request'[w] = Answered(request[w], StatusFor(request[w].expires_at))
      BY <2>10 DEF Answer, Ask, Answered, CredTypeOK
    <3>2. StatusFor(request[w].expires_at) \in {200, 401, 404, 410}
      BY DEF StatusFor
    <3>3. /\ request'[w].pc = "answered" /\ request'[w].token = request[w].token
          /\ request'[w].status = StatusFor(request[w].expires_at)
      BY <2>7, <3>1, <3>2, AnsweredFields
    <3>4. now \in Nat /\ (request[w].expires_at # NULL => request[w].expires_at \in Nat)
      BY <2>7, CredentialBounds DEF CredTypeOK, Requests
    <3>5. request'[w].status = 200 => w \in lived
      BY <3>1, <3>3, <3>4 DEF Watched, StatusFor
    <3>6. request'[w].status \in {404, 410} => w \in lapsed
      BY <3>1, <3>3, <3>4 DEF Watched, StatusFor, Live
    <3>7. QED
      BY <2>2, <3>1, <3>3, <3>5, <3>6 DEF Watched
  <2>11. QED
    BY <2>4, <2>5, <2>6, <2>8, <2>9, <2>10, RequestChange
<1>3. QED
  BY <1>1, <1>2, EveryStepWatches

-----------------------------------------------------------------------------
(* Listings *)

\* An operation of an admin's changes only by its own steps, and a listing's
\* steps leave the table and the clock.
LEMMA AdminChange ==
    ASSUME CredTypeOK, [CredNext]_credVars, NEW a \in Admins
    PROVE  \/ admin'[a] = admin[a]
           \/ \E c \in Refs : RevokeSelect(a, c)
           \/ \E t \in 0..MaxTime : PurgeSelect(a, t)
           \/ Delete(a) \/ ListClock(a) \/ ListRows(a) \/ ListDone(a)
<1>1. ASSUME NEW b \in Admins,
             \/ \E c \in Refs : RevokeSelect(b, c)
             \/ \E t \in 0..MaxTime : PurgeSelect(b, t)
             \/ Delete(b) \/ ListClock(b) \/ ListRows(b) \/ ListDone(b)
      PROVE  b # a => admin'[a] = admin[a]
  BY <1>1 DEF RevokeSelect, PurgeSelect, Select, Delete, ListClock, ListRows, ListDone,
     Lists, CredTypeOK
<1>2. ASSUME \/ \E c \in Refs, t \in 1..MaxTime : Put(c, t)
             \/ Tick
             \/ \E w \in Workers :
                   \/ \E c \in Refs, token \in BOOLEAN : Send(w, c, token)
                   \/ Unauthorized(w) \/ SelectRow(w) \/ Answer(w) \/ GiveUp(w) \/ Resolved(w)
             \/ UNCHANGED credVars
      PROVE  admin'[a] = admin[a]
  BY <1>2 DEF Put, Tick, Send, Unauthorized, SelectRow, Answer, GiveUp, Resolved, Ask, credVars
<1>3. QED
  BY <1>1, <1>2, StepsOf

\* A row that expires after the listing's clock was live after it looked.
Listing(a) ==
    /\ admin[a].op = "list" =>
          /\ admin[a].at <= now
          /\ \A c \in Refs : creds[c] # NULL /\ creds[c] > admin[a].at => c \in seen[a]
    /\ admin[a].op = "listed" => admin[a].refs \subseteq seen[a]

LEMMA ListingStep ==
    ASSUME CredTypeOK, CredTypeOK', [CredNext]_credVars, NEW a \in Admins, Listing(a)
    PROVE  Listing(a)'
<1>1. CASE UNCHANGED credVars
  BY <1>1 DEF credVars, Listing
<1>2. CASE Watch
  <2>1. seen'[a] = CASE admin'[a].op = "list" -> seen[a] \cup {c \in Refs : LiveNext(c)}
                     [] admin'[a].op = "purge" ->
                          seen[a] \cup {c \in Refs : creds[c] = NULL /\ creds'[c] # NULL}
                     [] admin'[a].op = "listed" -> seen[a]
                     [] OTHER -> {}
    BY <1>2 DEF Watch
  <2>2. CASE admin'[a] = admin[a]
    <3>1. now <= now' /\ now \in Nat /\ now' \in Nat /\ admin[a].at \in Nat
      BY WorldStep, CredentialBounds, Typed DEF CredTypeOK, Operation
    <3>2. ASSUME admin[a].op = "list", NEW c \in Refs, creds'[c] # NULL, creds'[c] > admin[a].at
          PROVE  c \in seen'[a]
      <4>1. CASE creds'[c] = creds[c]
        BY <2>1, <2>2, <3>2, <4>1 DEF Listing
      <4>2. CASE creds'[c] # creds[c]
        <5>1. PICK d \in Refs, t \in 1..MaxTime : Put(d, t)
          <6>1. \/ \E d \in Refs, t \in 1..MaxTime : Put(d, t)
                \/ \E b \in Admins : Delete(b)
                \/ creds' = creds
            BY StepsOf DEF RevokeSelect, PurgeSelect, Select, ListClock, ListRows, ListDone,
               Lists, Tick, Ask, Send, Unauthorized, SelectRow, Answer, GiveUp, Resolved, credVars
          <6>2. ASSUME NEW b \in Admins, Delete(b) PROVE creds'[c] = creds[c] \/ creds'[c] = NULL
            BY <6>2 DEF Delete
          <6>3. QED
            BY <3>2, <4>2, <6>1, <6>2
        <5>2. c = d /\ creds'[c] = t /\ t > now /\ now' = now
          BY <4>2, <5>1 DEF Put, CredTypeOK
        <5>3. LiveNext(c)
          BY <3>2, <5>2 DEF LiveNext
        <5>4. QED
          BY <2>1, <2>2, <3>2, <5>3
      <4>3. QED
        BY <4>1, <4>2
    <3>3. QED
      BY <2>1, <2>2, <3>1, <3>2 DEF Listing
  <2>3. ASSUME NEW op \in {"revoke", "purge"}, NEW S \in SUBSET Refs,
               NEW t \in 0..MaxTime, Select(a, op, S, t)
        PROVE  Listing(a)'
    BY <2>3 DEF Select, Listing, CredTypeOK
  <2>4. CASE ListClock(a)
    <3>1. /\ admin'[a] = [op |-> "list", refs |-> {}, at |-> now]
          /\ now' = now /\ creds' = creds /\ now \in Nat
      BY <2>4, CredentialBounds DEF ListClock, Select, CredTypeOK
    <3>2. ASSUME NEW c \in Refs, creds[c] # NULL, creds[c] > now PROVE c \in seen'[a]
      <4>1. creds[c] \in Nat
        BY <3>2, CredentialBounds DEF CredTypeOK
      <4>2. LiveNext(c)
        BY <3>1, <3>2, <4>1 DEF LiveNext
      <4>3. QED
        BY <2>1, <3>1, <4>2
    <3>3. QED
      BY <3>1, <3>2 DEF Listing
  <2>5. CASE ListRows(a)
    <3> DEFINE S == {c \in Refs : creds[c] # NULL /\ creds[c] > admin[a].at}
    <3>1. S \subseteq seen[a]
      BY <2>5 DEF ListRows, Listing
    <3>2. admin'[a].op = "listed" /\ admin'[a].refs = S
      <4>1. admin[a] \in Operation
        BY Typed
      <4>2. admin'[a] = [admin[a] EXCEPT !.op = "listed", !.refs = S]
        BY <2>5 DEF ListRows, Lists, CredTypeOK
      <4> HIDE DEF S
      <4>3. QED
        BY <4>1, <4>2 DEF Operation
    <3>3. QED
      BY <2>1, <3>1, <3>2 DEF Listing
  <2>6. CASE Delete(a) \/ ListDone(a)
    BY <2>6 DEF Delete, ListDone, Lists, Idle, Listing, CredTypeOK
  <2>7. ASSUME NEW c \in Refs, RevokeSelect(a, c) PROVE Listing(a)'
    BY <2>3, <2>7, CredentialBounds DEF RevokeSelect
  <2>8. ASSUME NEW t \in 0..MaxTime, PurgeSelect(a, t) PROVE Listing(a)'
    <3>1. ExpiredBy(t) \in SUBSET Refs
      BY DEF ExpiredBy
    <3>2. QED
      BY <2>3, <2>8, <3>1 DEF PurgeSelect
  <2>9. QED
    BY <2>2, <2>4, <2>5, <2>6, <2>7, <2>8, AdminChange
<1>3. QED
  BY <1>1, <1>2, EveryStepWatches

-----------------------------------------------------------------------------
(* Purges and removals *)

\* What a purge holds ends by its cutoff, or was written since.
Purging(a) ==
    admin[a].op = "purge" =>
        \A c \in admin[a].refs :
            creds[c] # NULL /\ creds[c] > admin[a].at => c \in seen[a]

LEMMA PurgingStep ==
    ASSUME CredTypeOK, CredTypeOK', [CredNext]_credVars, NEW a \in Admins, Purging(a)
    PROVE  Purging(a)'
<1>1. CASE UNCHANGED credVars
  BY <1>1 DEF credVars, Purging
<1>2. CASE Watch /\ admin'[a] = admin[a]
  <2>1. ASSUME admin[a].op = "purge", NEW c \in admin[a].refs,
               creds'[c] # NULL, creds'[c] > admin[a].at
        PROVE  c \in seen'[a]
    <3>1. c \in Refs
      BY <2>1, Typed DEF Operation
    <3>2. seen'[a] = seen[a] \cup {d \in Refs : creds[d] = NULL /\ creds'[d] # NULL}
      BY <1>2, <2>1 DEF Watch
    <3>3. creds'[c] = creds[c] \/ creds[c] = NULL
      BY <2>1, <3>1, WorldStep
    <3>4. QED
      BY <2>1, <3>1, <3>2, <3>3 DEF Purging
  <2>2. QED
    BY <1>2, <2>1 DEF Purging
<1>3. ASSUME NEW t \in 0..MaxTime, PurgeSelect(a, t) PROVE Purging(a)'
  <2>1. /\ admin'[a].refs = ExpiredBy(t) /\ admin'[a].at = t /\ creds' = creds
    BY <1>3 DEF PurgeSelect, Select, CredTypeOK
  <2>2. ASSUME NEW c \in ExpiredBy(t) PROVE ~(creds[c] > t)
    <3>1. c \in Refs /\ creds[c] # NULL /\ creds[c] <= t
      BY DEF ExpiredBy
    <3>2. creds[c] \in Nat /\ t \in Nat
      BY <3>1, CredentialBounds DEF CredTypeOK
    <3>3. QED
      BY <3>1, <3>2
  <2>3. QED
    BY <2>1, <2>2 DEF Purging
<1>4. CASE ListRows(a)
  <2>1. admin[a] \in Operation
    BY Typed
  <2>2. admin'[a].op = "listed"
    BY <1>4, <2>1 DEF ListRows, Lists, CredTypeOK, Operation
  <2>3. QED
    BY <2>2 DEF Purging
<1>5. ASSUME \/ \E c \in Refs : RevokeSelect(a, c)
             \/ Delete(a) \/ ListClock(a) \/ ListDone(a)
      PROVE  Purging(a)'
  BY <1>5 DEF RevokeSelect, Select, Delete, ListClock, ListDone, Lists, Idle, Purging, CredTypeOK
<1>6. QED
  BY <1>1, <1>2, <1>3, <1>4, <1>5, AdminChange, EveryStepWatches

\* The revokes and purges that hold c, to delete it and to say so.
Holders(c) == {a \in Admins : admin[a].op \in {"revoke", "purge"} /\ c \in admin[a].refs}

\* Whoever holds a ref that is gone holds it from before the last removal.
Counted(c) ==
    /\ claimed[c] \in Nat
    /\ Removed(c) <= claimed[c]
    /\ claimed[c] <= Cardinality(Admins) * Removed(c)
    /\ creds[c] = NULL =>
          claimed[c] + Cardinality(Holders(c)) <= Cardinality(Admins) * Removed(c)

LEMMA HoldersAreFew ==
    ASSUME NEW c
    PROVE  /\ IsFiniteSet(Holders(c)) /\ Cardinality(Holders(c)) \in Nat
           /\ Cardinality(Admins) \in Nat
           /\ Cardinality(Holders(c)) <= Cardinality(Admins)
  BY FewAdmins, FS_Subset, FS_CardinalityType DEF Holders

LEMMA CountedStep ==
    ASSUME CredTypeOK, CredTypeOK', [CredNext]_credVars, NEW c \in Refs, Counted(c)
    PROVE  Counted(c)'
<1> DEFINE K == Cardinality(Admins)
<1>0. K \in Nat /\ puts[c] \in Nat /\ puts'[c] \in Nat /\ (creds[c] # NULL => puts[c] > 0)
      /\ Removed(c) \in Nat
  <2>1. K \in Nat
    BY HoldersAreFew
  <2>2. puts[c] \in Nat /\ puts'[c] \in Nat /\ (creds[c] # NULL => puts[c] > 0)
    BY CredentialBounds DEF CredTypeOK
  <2>3. Removed(c) \in Nat
    BY <2>2 DEF Removed
  <2>4. QED
    BY <2>1, <2>2, <2>3
<1>1. ASSUME creds'[c] = creds[c], puts'[c] = puts[c], claimed'[c] = claimed[c],
             creds[c] = NULL => Holders(c)' = Holders(c)
      PROVE  Counted(c)'
  BY <1>1 DEF Counted, Removed
<1>2. ASSUME NEW d \in Refs, NEW t \in 1..MaxTime, Put(d, t) PROVE Counted(c)'
  <2>1. CASE d = c
    <3>1. creds[c] = NULL /\ creds'[c] # NULL /\ puts'[c] = puts[c] + 1 /\ claimed'[c] = claimed[c]
      BY <1>2, <2>1, NullIsNoTime DEF Put, CredTypeOK
    <3>2. Removed(c)' = Removed(c)
      BY <1>0, <3>1 DEF Removed
    <3>3. QED
      BY <3>1, <3>2 DEF Counted
  <2>2. CASE d # c
    <3>1. creds'[c] = creds[c] /\ puts'[c] = puts[c] /\ claimed'[c] = claimed[c] /\ admin' = admin
      BY <1>2, <2>2 DEF Put, CredTypeOK
    <3>2. QED
      BY <1>1, <3>1 DEF Holders
  <2>3. QED
    BY <2>1, <2>2
<1>3. ASSUME NEW a \in Admins, Delete(a) PROVE Counted(c)'
  <2>1. /\ admin' = [admin EXCEPT ![a] = Idle] /\ puts' = puts
        /\ admin[a].op \in {"revoke", "purge"}
    BY <1>3 DEF Delete
  <2>2. Holders(c)' = Holders(c) \ {a}
    BY <2>1 DEF Holders, Idle, CredTypeOK
  <2>3. CASE c \notin admin[a].refs
    <3>1. Holders(c)' = Holders(c)
      BY <2>2, <2>3 DEF Holders
    <3>2. creds'[c] = creds[c] /\ claimed'[c] = claimed[c]
      BY <1>3, <2>3 DEF Delete
    <3>3. QED
      BY <1>1, <2>1, <3>1, <3>2
  <2>4. CASE c \in admin[a].refs
    <3>1. creds'[c] = NULL /\ claimed'[c] = claimed[c] + 1 /\ a \in Holders(c)
      BY <1>3, <2>4 DEF Delete, Holders
    <3>2. Cardinality(Holders(c)') = Cardinality(Holders(c)) - 1
      BY <2>2, <3>1, HoldersAreFew, FS_RemoveElement
    <3>3. Cardinality(Holders(c)) \in Nat /\ Cardinality(Holders(c)) <= K
      BY HoldersAreFew
    <3>4. Cardinality(Holders(c)') \in Nat
      BY <2>2, HoldersAreFew, FS_RemoveElement, FS_CardinalityType
    <3>5. CASE creds[c] = NULL
      <4>1. Removed(c)' = Removed(c)
        BY <2>1, <3>1, <3>5 DEF Removed
      <4>2. K * Removed(c) \in Nat
        BY <1>0
      <4>3. QED
        BY <1>0, <3>1, <3>2, <3>3, <3>4, <3>5, <4>1, <4>2 DEF Counted
    <3>6. CASE creds[c] # NULL
      <4>1. Removed(c)' = Removed(c) + 1
        BY <1>0, <2>1, <3>1, <3>6 DEF Removed
      <4>2. K * Removed(c) \in Nat /\ K * (Removed(c) + 1) = K * Removed(c) + K
        BY <1>0
      <4>3. QED
        BY <1>0, <3>1, <3>2, <3>3, <3>4, <4>1, <4>2 DEF Counted
    <3>7. QED
      BY <3>5, <3>6
  <2>5. QED
    BY <2>3, <2>4
<1>4. ASSUME NEW a \in Admins, NEW op \in {"revoke", "purge", "list"}, NEW S \in SUBSET Refs,
             NEW t \in 0..MaxTime, creds[c] = NULL => c \notin S, Select(a, op, S, t)
      PROVE  Counted(c)'
  <2>1. creds' = creds /\ puts' = puts /\ claimed' = claimed
    BY <1>4 DEF Select
  <2>2. ASSUME creds[c] = NULL PROVE Holders(c)' = Holders(c)
    <3>1. /\ admin[a].op = "none" /\ c \notin admin'[a].refs
          /\ \A b \in Admins : b # a => admin'[b] = admin[b]
      BY <1>4, <2>2 DEF Select, CredTypeOK
    <3>2. QED
      BY <3>1 DEF Holders
  <2>3. QED
    BY <1>1, <2>1, <2>2
<1>5. ASSUME NEW a \in Admins, ListRows(a) \/ ListDone(a) PROVE Counted(c)'
  <2>1. /\ creds' = creds /\ puts' = puts /\ claimed' = claimed
        /\ admin[a].op \in {"list", "listed"}
        /\ \A b \in Admins : b # a => admin'[b] = admin[b]
    BY <1>5 DEF ListRows, ListDone, Lists, CredTypeOK
  <2>2. admin'[a].op \in {"listed", "none"}
    <3>1. admin[a] \in Operation
      BY Typed
    <3>2. CASE ListDone(a)
      BY <3>2 DEF ListDone, Lists, Idle, CredTypeOK
    <3>3. CASE ListRows(a)
      <4> DEFINE S == {d \in Refs : creds[d] # NULL /\ creds[d] > admin[a].at}
      <4>1. admin'[a] = [admin[a] EXCEPT !.op = "listed", !.refs = S]
        BY <3>3 DEF ListRows, Lists, CredTypeOK
      <4> HIDE DEF S
      <4>2. QED
        BY <3>1, <4>1 DEF Operation
    <3>4. QED
      BY <1>5, <3>2, <3>3
  <2>3. Holders(c)' = Holders(c)
    BY <2>1, <2>2 DEF Holders
  <2>4. QED
    BY <1>1, <2>1, <2>3
<1>6. ASSUME UNCHANGED <<creds, puts, claimed, admin>> PROVE Counted(c)'
  BY <1>1, <1>6 DEF Holders
<1>7. ASSUME NEW a \in Admins, NEW d \in Refs, RevokeSelect(a, d) PROVE Counted(c)'
  BY <1>4, <1>7, CredentialBounds DEF RevokeSelect
<1>8. ASSUME NEW a \in Admins, NEW t \in 0..MaxTime, PurgeSelect(a, t) PROVE Counted(c)'
  <2>1. ExpiredBy(t) \in SUBSET Refs /\ (creds[c] = NULL => c \notin ExpiredBy(t))
    BY DEF ExpiredBy
  <2>2. QED
    BY <1>4, <1>8, <2>1 DEF PurgeSelect
<1>9. ASSUME NEW a \in Admins, ListClock(a) PROVE Counted(c)'
  BY <1>4, <1>9 DEF ListClock, CredTypeOK
<1>10. ASSUME \/ Tick
              \/ \E w \in Workers :
                    \/ \E d \in Refs, token \in BOOLEAN : Send(w, d, token)
                    \/ Unauthorized(w) \/ SelectRow(w) \/ Answer(w) \/ GiveUp(w) \/ Resolved(w)
              \/ UNCHANGED credVars
       PROVE  Counted(c)'
  <2>1. UNCHANGED <<creds, puts, claimed, admin>>
    BY <1>10 DEF Tick, Send, Unauthorized, SelectRow, Answer, GiveUp, Resolved, Ask, credVars
  <2>2. QED
    BY <1>6, <2>1
<1>11. QED
  BY <1>2, <1>3, <1>5, <1>7, <1>8, <1>9, <1>10, StepsOf

-----------------------------------------------------------------------------
(* What the store promises *)

CredInv ==
    /\ CredTypeOK
    /\ \A w \in Workers : Watched(w)
    /\ \A a \in Admins : Listing(a) /\ Purging(a)
    /\ \A c \in Refs : Counted(c)

LEMMA CredInvHolds == CredSpec => []CredInv
<1>1. CredInit => CredInv
  <2> SUFFICES ASSUME CredInit PROVE CredInv
    OBVIOUS
  <2>1. CredTypeOK
    BY CredentialBounds, NullIsNoTime DEF CredInit, CredTypeOK, NoRequest, Idle
  <2>2. ASSUME NEW w \in Workers PROVE Watched(w)
    BY DEF CredInit, NoRequest, Watched
  <2>3. ASSUME NEW a \in Admins PROVE Listing(a) /\ Purging(a)
    BY DEF CredInit, Idle, Listing, Purging
  <2>4. ASSUME NEW c \in Refs PROVE Counted(c)
    <3>1. Holders(c) = {} /\ claimed[c] = 0 /\ Removed(c) = 0
      BY DEF CredInit, Idle, Holders, Removed
    <3>2. Cardinality(Holders(c)) = 0 /\ Cardinality(Admins) * 0 = 0
      BY <3>1, HoldersAreFew, FS_EmptySet
    <3>3. QED
      BY <3>1, <3>2 DEF Counted
  <2>5. QED
    BY <2>1, <2>2, <2>3, <2>4 DEF CredInv
<1>2. CredInv /\ [CredNext]_credVars => CredInv'
  <2> SUFFICES ASSUME CredInv, [CredNext]_credVars PROVE CredInv'
    OBVIOUS
  <2>1. CredTypeOK /\ CredTypeOK'
    BY CredTypeStep DEF CredInv
  <2>2. ASSUME NEW w \in Workers PROVE Watched(w)'
    BY <2>1, WatchedStep DEF CredInv
  <2>3. ASSUME NEW a \in Admins PROVE Listing(a)' /\ Purging(a)'
    BY <2>1, ListingStep, PurgingStep DEF CredInv
  <2>4. ASSUME NEW c \in Refs PROVE Counted(c)'
    BY <2>1, CountedStep DEF CredInv
  <2>5. QED
    BY <2>1, <2>2, <2>3, <2>4 DEF CredInv
<1>3. QED
  BY <1>1, <1>2, PTL DEF CredSpec

\* Whatever the endpoint answers 200, and whatever a listing returns, was live
\* at some moment of the call, however revokes, purges and expiry interleave.
THEOREM CredServedWhileLive == CredSpec => []ServedWhileLive
<1>1. CredInv => ServedWhileLive
  BY DEF CredInv, ServedWhileLive, Watched, Listing
<1>2. QED
  BY <1>1, CredInvHolds, PTL

\* Whatever the endpoint answers 404 or 410 was missing or expired at some
\* moment of the call.
THEOREM CredRefusedWhileLapsed == CredSpec => []RefusedWhileLapsed
<1>1. CredInv => RefusedWhileLapsed
  BY DEF CredInv, RefusedWhileLapsed, Watched
<1>2. QED
  BY <1>1, CredInvHolds, PTL

\* What purge_expired is about to delete ends by the cutoff it was given,
\* whatever that is, or its ref was written while the purge was under way.
THEOREM CredPurgeKeepsToItsCutoff == CredSpec => []PurgeKeepsToItsCutoff
<1>1. CredInv => PurgeKeepsToItsCutoff
  BY DEF CredInv, Purging, PurgeKeepsToItsCutoff
<1>2. QED
  BY <1>1, CredInvHolds, PTL

\* What revoke and purge_expired report is no less than was removed, and at
\* most once for each Orca process that removes at the same time.
THEOREM CredRevokeIsTrue == CredSpec => []RevokeIsTrue
<1>1. CredInv => RevokeIsTrue
  BY DEF CredInv, RevokeIsTrue, Counted
<1>2. QED
  BY <1>1, CredInvHolds, PTL
=============================================================================
