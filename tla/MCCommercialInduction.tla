----------------------- MODULE MCCommercialInduction -----------------------
(* The instances of MCCommercial, with the inductive invariant to check.   *)
EXTENDS MCCommercial, CommercialInduction
=============================================================================
