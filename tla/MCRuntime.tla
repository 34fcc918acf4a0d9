----------------------------- MODULE MCRuntime -----------------------------
(* Small instances of AutonomousRuntime for TLC.                           *)
EXTENDS AutonomousRuntime, TLC

CONSTANTS o1, o2, plan0, read, plan1, propose, a, b, h, w1, w2

\* What the proofs ask of a planned cycle holds in every instance.
ASSUME CycleShapeHolds == CycleShape

EitherWorker == Permutations(Workers)

\* One objective: a planned cycle of two stages, the second behind the planner of the first.
Cycle == o1 :> <<plan0>>
TwoStages == <<read, propose>>
PlannerBehind == <<plan1>>
Dependencies == [t \in Tasks |-> IF t \in {plan1, propose} THEN {read} ELSE {}]
OwnKey == [t \in Tasks |-> t]

\* Two objectives: two tasks with one key, the second after the first, and a task
\* that only a person may do.
TwoObjectives == (o1 :> <<a, b>>) @@ (o2 :> <<h>>)
NoStages == <<>>
SecondAfterFirst == [t \in Tasks |-> IF t = b THEN {a} ELSE {}]
SharedKey == [t \in Tasks |-> a]

\* An objective with a task in flight before one that only a person may do.
BlockedBeside == o1 :> <<a, h>>
NoDependency == [t \in Tasks |-> {}]
=============================================================================
