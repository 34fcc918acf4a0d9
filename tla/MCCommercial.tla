---------------------------- MODULE MCCommercial ----------------------------
(* Small instances of CommercialExecution for TLC.                         *)
EXTENDS CommercialExecution, TLC

CONSTANTS j1, j2, j3, p1, p2, p3, p4, c1, c2, c3

\* Two jobs, the second waiting for the first.
ChainPlanOf == (j1 :> p1) @@ (j2 :> p2)
ChainActions == (p1 :> <<c1, c2>>) @@ (p2 :> <<c3>>)
SecondAfterFirst == (j1 :> {}) @@ (j2 :> {j1})

\* Two jobs that carry the same plan of two changes.
SamePlanOf == (j1 :> p1) @@ (j2 :> p1)
TwoChanges == (p1 :> <<c1, c2>>)
Independent == (j1 :> {}) @@ (j2 :> {})

\* One job, and a plan run at process start that shares a change id with it.
OnePlanOf == (j1 :> p1)

\* The same beside two jobs whose plans the runner refuses.
OneAndRefused == (j1 :> p1) @@ (j2 :> p2) @@ (j3 :> p4)
SharedChange == (p1 :> <<c1, c2>>) @@ (p2 :> <<c1>>) @@ (p3 :> <<c2>>) @@ (p4 :> <<c1>>)
AllIndependent == (j1 :> {}) @@ (j2 :> {}) @@ (j3 :> {})
OneChange == (p1 :> <<c1>>)
Alone == (j1 :> {})
=============================================================================
