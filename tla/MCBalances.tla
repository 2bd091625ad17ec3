------------------------------ MODULE MCBalances ------------------------------
(* Balances with three vaults, two of them of one resource. *)
EXTENDS Balances

CONSTANTS v1, v2, v3, r1, r2

MCVaults == {v1, v2, v3}
MCResources == {r1, r2}
MCResourceOf == [v \in MCVaults |-> IF v = v3 THEN r2 ELSE r1]

=============================================================================
