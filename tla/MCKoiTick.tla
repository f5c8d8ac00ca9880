------------------------------ MODULE MCKoiTick ------------------------------
(* Two edges and one mechanism over both; two ranks in two environments; a   *)
(* row of the second tick that was available before one of the first, and    *)
(* one without a stamp; maps with two pools under one key, two markets, no   *)
(* market; a flat body with GPUs left over.                                  *)
EXTENDS KoiTick

CONSTANTS e1, e2, m1, n1

Symmetry == Permutations({e1, e2})

MCEdgesOf == (m1 :> {e1, e2})

MCEnvOf == (1 :> 2) @@ (2 :> 1)
MCAvailableAt ==
    (<<1, 1>> :> 3) @@ (<<1, 2>> :> 1) @@ (<<2, 1>> :> 2) @@ (<<2, 2>> :> NULL)

At(zone, fabric) == [zone |-> zone, fabric |-> fabric, type |-> "p5"]
Pool(gpu, n) == [gpu |-> gpu, per |-> 8, instances |-> n]

MCPools == (At("a", "ib") :> Pool("H100", 2)) @@ (At("a", "eth") :> Pool("H100", 1))
             @@ (At("b", "eth") :> Pool("A100", 3))
MCMaps == { [market |-> <<"reserved", "spot">>, pools |-> MCPools],
            [market |-> <<>>, pools |-> MCPools] }
MCLegacy == { (At("default", "default") :> [gpu |-> "H100", per |-> 8, total |-> 20]) }
=============================================================================
