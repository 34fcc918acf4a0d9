----------------------------- MODULE MCEconomic -----------------------------
(* Small instances of EconomicBudget for TLC.                              *)
EXTENDS EconomicBudget, TLC

CONSTANTS j1, j2, r1, r2

Plan(r, from, to, inc, top) ==
    [resource |-> r, before |-> from, target |-> to, increment |-> inc, cap |-> top]

Rank1 == j1 :> 1
Rank2 == (j1 :> 1) @@ (j2 :> 2)

\* A raise and, later, the job that takes it back.
RaisePlan == j1 :> Plan(r1, 4, 8, 4, 8)
RaiseThenRevert == RaisePlan @@ (j2 :> Plan(r1, 8, 4, 4, 8))
=============================================================================
