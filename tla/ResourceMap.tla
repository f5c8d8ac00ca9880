------------------------------ MODULE ResourceMap ------------------------------
(***************************************************************************)
(* The resource_maps row of one user (clients/resource_map.py) and the     *)
(* capacity summary Koi plans with (models/resource_map.py).  A map is its *)
(* list of markets and its machine pools by place; the nesting of clouds,  *)
(* regions and zones is one component of the place, and the env_key, a     *)
(* join of names, is a record of the joined parts.  A row written before   *)
(* the hierarchical format holds flat pools with a total of GPUs each.     *)
(***************************************************************************)
EXTENDS Integers, FiniteSets, FiniteSetsExt, Sequences, SequencesExt, TLC

CONSTANTS
    Maps,         \* maps Orca may publish
    Legacy,       \* flat bodies the row may hold at the beginning
    MaxVersion    \* bound on the versions published

\* A place is [zone, fabric, type]; a pool is [gpu, per, instances].
IsMap(m) == /\ m.market \in Seq(ToSet(m.market)) /\ IsFiniteSet(DOMAIN m.pools)
            /\ \A p \in DOMAIN m.pools : m.pools[p].per \in Nat /\ m.pools[p].instances \in Nat
IsLegacy(b) == /\ IsFiniteSet(DOMAIN b)
               /\ \A p \in DOMAIN b : b[p].per \in Nat /\ b[p].total \in Nat

ASSUME MapsAreMaps == (\A m \in Maps : IsMap(m)) /\ (\A b \in Legacy : IsLegacy(b))
ASSUME VersionBound == MaxVersion \in Nat

VARIABLES
    resource_row,  \* NoRow or the row: version and body
    published      \* history: form and body of each version

mapVars == <<resource_row, published>>

NoRow == [version |-> 0, form |-> "none", body |-> <<>>]

MapInit ==
    \/ resource_row = NoRow /\ published = <<>>
    \/ \E b \in Legacy :
          /\ resource_row = [version |-> 1, form |-> "flat", body |-> b]
          /\ published = <<[form |-> "flat", body |-> b]>>

-----------------------------------------------------------------------------
(* get *)

\* Fault: a total of GPUs is taken for a number of instances.
TotalAsInstances(pool) == [ gpu |-> pool.gpu, per |-> Max({1, pool.per}), instances |-> pool.total ]

\* gpus_per_instance defaults to 1, and whole instances are kept.
FromLegacy(pool) ==
    LET per == Max({1, pool.per})
    IN  [ gpu |-> pool.gpu, per |-> per, instances |-> pool.total \div per ]

\* _body_from_json: an empty list of markets is read as reserved.
BodyFromJson(row) ==
    IF row.form = "tree"
    THEN [market |-> IF row.body.market = <<>> THEN <<"reserved">> ELSE row.body.market,
          pools  |-> row.body.pools]
    ELSE [market |-> <<"reserved">>, pools |-> [p \in DOMAIN row.body |-> FromLegacy(row.body[p])]]

\* get: an empty map of version 0 when there is no row.
GetMap == [version |-> resource_row.version, map |-> BodyFromJson(resource_row)]

\* Fault: the version comes from the map the caller holds.
ReplaceOver(m) ==
    /\ published' = Append(published, [form |-> "tree", body |-> m])
    /\ resource_row' = [version |-> 1, form |-> "tree", body |-> m]

\* replace: one upsert that bumps the row's own version.
Replace(m) ==
    /\ published' = Append(published, [form |-> "tree", body |-> m])
    /\ resource_row' = [version |-> resource_row.version + 1, form |-> "tree", body |-> m]

-----------------------------------------------------------------------------
(* scheduling_summary *)

EnvKey(market, p, pool) == [market |-> market, zone |-> p.zone, gpu |-> pool.gpu]
Detail(p, pool) ==
    [place |-> p, total |-> pool.per * pool.instances, total_instances |-> pool.instances]
NewEntry(detail) ==
    [total |-> detail.total, total_instances |-> detail.total_instances, pools |-> <<detail>>]

\* Fault: the pools of a zone replace each other.
LastPool(entry, detail) == NewEntry(detail)

\* A further pool under a key that has an entry.
AddPool(entry, detail) ==
    [ total           |-> entry.total + detail.total,
      total_instances |-> entry.total_instances + detail.total_instances,
      pools           |-> Append(entry.pools, detail) ]

\* The turns of the loops, over iter_machine_pools and inside over the markets.
Turns(m) ==
    LET places == SetToSeq(DOMAIN m.pools)
        width == Len(m.market)
        turn(market, p) == [key |-> EnvKey(market, p, m.pools[p]), detail |-> Detail(p, m.pools[p])]
    IN  [t \in 1..Len(places) * width |->
            turn(m.market[((t - 1) % width) + 1], places[((t - 1) \div width) + 1])]

\* The body of the inner loop.
Count(summary, turn) ==
    [key \in DOMAIN summary \cup {turn.key} |->
        IF key # turn.key THEN summary[key]
        ELSE IF key \in DOMAIN summary THEN AddPool(summary[key], turn.detail)
        ELSE NewEntry(turn.detail)]

\* The summary after so many turns.
CountUpTo(turns) ==
    LET after[t \in 0..Len(turns)] ==
            IF t = 0 THEN <<>> ELSE Count(after[t - 1], turns[t])
    IN  after

SchedulingSummary(m) == CountUpTo(Turns(m))[Len(Turns(m))]

-----------------------------------------------------------------------------
(* Properties, of what a reader got *)

PlacesOf(m, key) == {p \in DOMAIN m.pools : p.zone = key.zone /\ m.pools[p].gpu = key.gpu}
Listings(m, key) == {k \in DOMAIN m.market : m.market[k] = key.market}

\* The units behind a key, of which each place has so many.
Units(m, key, size) == UNION {{p} \X (1..size[p]) : p \in PlacesOf(m, key)}

\* scheduling_summary: an entry for exactly the markets, zones and GPUs the map
\* holds; its total is what the pools behind it hold, counted once per time
\* the map lists the market, and so is its list of pools.
CapacityCounts(m) ==
    LET summary == SchedulingSummary(m)
        machines == [p \in DOMAIN m.pools |-> m.pools[p].instances]
        gpus == [p \in DOMAIN m.pools |-> m.pools[p].per * m.pools[p].instances]
    IN  /\ DOMAIN summary = {EnvKey(m.market[k], p, m.pools[p]) :
                                k \in DOMAIN m.market, p \in DOMAIN m.pools}
        /\ \A key \in DOMAIN summary :
              LET times == Cardinality(Listings(m, key))
              IN  /\ summary[key].total = times * Cardinality(Units(m, key, gpus))
                  /\ summary[key].total_instances = times * Cardinality(Units(m, key, machines))
                  /\ Len(summary[key].pools) = times * Cardinality(PlacesOf(m, key))

\* What a reader got under a version is the map published as that version, up
\* to the default market; a legacy row's GPUs are all there but for those that
\* fill no whole instance.
ReadsBack(got) ==
    got.version > 0 =>
        LET row == published[got.version]
            now == got.map.pools
        IN  /\ DOMAIN now = IF row.form = "tree" THEN DOMAIN row.body.pools ELSE DOMAIN row.body
            /\ row.form = "tree" =>
                  /\ now = row.body.pools
                  /\ row.body.market # <<>> => got.map.market = row.body.market
            /\ row.form = "flat" => \A p \in DOMAIN now :
                  /\ now[p].per * now[p].instances <= row.body[p].total
                  /\ row.body[p].total < now[p].per * (now[p].instances + 1)
=============================================================================
