----------------------------- MODULE ModelCatalog -----------------------------
(***************************************************************************)
(* The model_catalogs row of one model (clients/model_catalog.py).  Of a   *)
(* catalog the model keeps the cold-start floor and everything else as one *)
(* value.  replace is one upsert; set_min_chain_warmup_minutes is a get in *)
(* a session of its own and a replace of the whole catalog it returned.    *)
(***************************************************************************)
EXTENDS Naturals

CONSTANTS
    Rests,           \* what a catalog may say apart from the floor
    BlankRest,       \* .. of a catalog built from its model id alone
    Floors,          \* cold-start floors, in minutes
    DefaultFloor,    \* DEFAULT_MIN_CHAIN_WARMUP_MINUTES
    Patchers,        \* processes that may call set_min_chain_warmup_minutes
    NULL             \* no row

VARIABLES
    catalog_row,  \* the row, or NULL
    patch         \* the catalog each patcher holds, or NULL between calls

vars == <<catalog_row, patch>>

Catalog == [rest : Rests, min_chain_warmup_time : Floors]
Blank == [rest |-> BlankRest, min_chain_warmup_time |-> DefaultFloor]

Init ==
    /\ catalog_row = NULL
    /\ patch = [p \in Patchers |-> NULL]

\* get(..) or ModelCatalog(..): a missing row reads as a blank catalog.
Current == IF catalog_row = NULL THEN Blank ELSE catalog_row

\* replace: an upsert of the whole catalog.
Replace(catalog) == catalog_row' = catalog

ReplaceCall ==
    /\ \E catalog \in Catalog : Replace(catalog)
    /\ UNCHANGED patch

\* set_min_chain_warmup_minutes, the get.
PatchGet(p) ==
    /\ patch[p] = NULL
    /\ patch' = [patch EXCEPT ![p] = Current]
    /\ UNCHANGED catalog_row

\* set_min_chain_warmup_minutes, the replace.
PatchReplace(p, minutes) ==
    /\ patch[p] # NULL
    /\ Replace([patch[p] EXCEPT !.min_chain_warmup_time = minutes])
    /\ patch' = [patch EXCEPT ![p] = NULL]

Next ==
    \/ ReplaceCall
    \/ \E p \in Patchers : PatchGet(p) \/ \E minutes \in Floors : PatchReplace(p, minutes)

Spec == Init /\ [][Next]_vars

-----------------------------------------------------------------------------
\* clients/model_catalog.py:64, "Patch just the cold-start floor, preserving
\* the rest of the catalog": the row a patch writes differs from the row it
\* replaces in the floor only.
PatchKeepsTheRest ==
    [][\A p \in Patchers : patch[p] # NULL /\ patch'[p] = NULL =>
          catalog_row'.rest = Current.rest]_vars
=============================================================================
