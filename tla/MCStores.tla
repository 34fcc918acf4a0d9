-------------------------------- MODULE MCStores --------------------------------
(* Components that work from what they have stored, each on its own: they   *)
(* share no state, and a behaviour is of the one that has the focus.        *)
EXTENDS PersonalOs, McpTokens, ObjectiveIntake, InstagramPublication,
        AdsExperiments, TLC

CONSTANTS time1, time2, nonce1, nonce2, flow1, flow2, read1, read2,
          slot1, slot2, slot3, call1, call2, objective, run1, run2,
          testA, testB, testC, testD, metaA, metaB

VARIABLE focus

\* The hour of slot2 comes twice.
AutumnTimes == <<slot1, slot2, slot3, slot2>>
OneObjective == [c \in {call1, call2} |-> objective]
OwnRuns == (call1 :> run1) @@ (call2 :> run2)

(* Four searches for serendipity, two of them on campaigns of low volume.   *)
SomeTests == [e \in {testA, testB, testC, testD} |->
    [class |-> "SERENDIPITY_TEST", lowVolume |-> e \in {testA, testB}, cost |-> 1,
     daily |-> 1]]
Alike == Permutations({testA, testB}) \cup Permutations({testC, testD})
TwoAtATime == [cost |-> 1, daily |-> 1, campaign |-> 1, concurrent |-> 2,
               oneSerendipity |-> TRUE]

vars == <<osVars, mcpVars, intakeVars, igVars, testVars, focus>>

Init ==
    /\ focus \in {"personal os", "mcp", "intake", "instagram", "tests", "meta tests"}
    /\ PersonalOsInit /\ McpInit /\ IntakeInit /\ InstagramInit
    /\ ExperimentsInit
    /\ focus # "instagram" => writesOn

Next ==
    \/ /\ focus = "personal os" /\ PersonalOsNext
       /\ UNCHANGED <<mcpVars, intakeVars, igVars, testVars, focus>>
    \/ /\ focus = "mcp" /\ McpNext
       /\ UNCHANGED <<osVars, intakeVars, igVars, testVars, focus>>
    \/ /\ focus = "intake" /\ IntakeNext
       /\ UNCHANGED <<osVars, mcpVars, igVars, testVars, focus>>
    \/ /\ focus = "instagram" /\ InstagramNext
       /\ UNCHANGED <<osVars, mcpVars, intakeVars, testVars, focus>>
    \/ /\ \/ focus = "tests" /\ EngineNext
          \/ focus = "meta tests" /\ MetaTestsNext
       /\ UNCHANGED <<osVars, mcpVars, intakeVars, igVars, focus>>

Spec == Init /\ [][Next]_vars

(* The inductive invariants of the stores, with the types of all.           *)
StoresIInv ==
    /\ focus = "personal os" => PersonalOsTypeOK /\ OutboxOnce /\ QueueKept
    /\ focus = "mcp" => McpTypeOK /\ FlowsKept /\ LastPair
    /\ focus = "intake" => IntakeTypeOK /\ IntakeKept
    /\ focus = "instagram" => InstagramTypeOK /\ LiveKept /\ SpentKept
    /\ focus \in {"tests", "meta tests"} => ExperimentsTypeOK
================================================================================
