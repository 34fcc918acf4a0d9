--------------------------- MODULE Providers_proofs ----------------------------
(* The provider writes together: each behaves as it does alone, so that the *)
(* invariants proved of each hold in the composition that TLC checks.       *)
EXTENDS MCProviders, GoogleWrites_proofs, MetaDraft_proofs, Gateways_proofs

\* Each component behaves in the composition as it does alone.
THEOREM ProvidersApart ==
  Spec => CanarySpec /\ LunchSpec /\ ControlledSpec /\ DraftSpec /\ GatewaysSpec
<1>1. Init => CanaryInit /\ LunchInit /\ ControlledInit /\ DraftInit /\ GatewaysInit
  BY DEF Init
<1>2. [Next]_vars => [CanaryNext]_canaryVars
  BY DEF Next, vars
<1>3. [Next]_vars => [LunchNext]_lunchVars
  BY DEF Next, vars
<1>4. [Next]_vars => [ControlledNext]_ctlVars
  BY DEF Next, vars
<1>5. [Next]_vars => [DraftNext]_draftVars
  BY DEF Next, vars
<1>6. [Next]_vars => [GatewaysNext]_gwVars
  BY DEF Next, vars
<1> QED
  BY <1>1, <1>2, <1>3, <1>4, <1>5, <1>6, PTL
     DEF Spec, CanarySpec, LunchSpec, ControlledSpec, DraftSpec, GatewaysSpec

\* The invariants of the provider writes hold in the composition, where the account begins
\* within the mandate.
THEOREM ProvidersInductive ==
  ASSUME Enabled(FirstBudgets) <= BudgetCap
  PROVE  Spec => []ProvidersIInv
<1>1. CanaryIInv /\ LunchIInv /\ ControlledIInv /\ BudgetsFit /\ DraftIInv /\ GatewaysIInv
         /\ OperationsCarried => ProvidersIInv
  BY DEF CanaryIInv, LunchIInv, ControlledIInv, DraftIInv, GatewaysIInv, ProvidersIInv
<1> QED
  BY <1>1, ProvidersApart, CanaryInductive, LunchInductive, ControlledInductive, BudgetsStayFit,
     DraftInductive, GatewaysInductive, OperationsAreCarried, PTL
================================================================================
