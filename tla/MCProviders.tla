------------------------------ MODULE MCProviders ------------------------------
(* The provider writes, each component on its own: they share no state, and *)
(* a behaviour is of the one that has the focus.                            *)
EXTENDS GoogleCanary, LunchCampaign, GoogleControlled, MetaDraft,
        OperationalControl, TLC

CONSTANTS create1, create2, lunch1, lunch2, worker1, worker2,
          raise1, raise2, ad1, ad2, start1, start2,
          mutator1, mutator2, own, foreign, search1, search2

VARIABLE focus

TwoBudgets == (raise1 :> [campaign |-> ad1, amount |-> 2])
              @@ (raise2 :> [campaign |-> ad2, amount |-> 2])
SomeActions ==
    {[type |-> t, campaign |-> search1, status |-> "none", renames |-> t = "campaign_update",
      target |-> [account |-> own, collection |-> "campaigns", id |-> search1]] :
        t \in {"negative_add", "negative_remove", "campaign_update", "campaign_budget_create"}}
SomeMutations ==
    {RequestOf(a) : a \in SomeActions}
    \cup {[platform |-> "google", type |-> t, risk |-> r, class |-> c, experiment |-> raise1,
           cost |-> 0] :
        t \in {"pause_campaign", "billing_change"}, r \in {"LOW", "CRITICAL"}, c \in {"A", "B"}}
    \cup {[platform |-> "meta", type |-> t, risk |-> "LOW", class |-> "A", experiment |-> "none",
           cost |-> x] :
        t \in {"PAUSE_ADSET", "BUDGET_CHANGE", "KILL_SWITCH_CHANGE"}, x \in {0, 1}}
SpendAllowed == [enabled |-> TRUE, switchOff |-> TRUE, experiment |-> 1, daily |-> 1,
                 monthly |-> 1]
AuthorizedHere == [campaigns |-> {ad1}, maxCost |-> 1]
OneEach == [c \in {ad1, ad2} |-> 1]

vars == <<canaryVars, lunchVars, ctlVars, draftVars, gwVars, focus>>

Init ==
    /\ focus \in {"canary", "lunch", "controlled", "draft", "gateways"}
    /\ CanaryInit /\ LunchInit /\ ControlledInit /\ DraftInit
    /\ GatewaysInit
    /\ focus # "canary" => criteria = {}
    /\ focus # "lunch" => writesOpen
    /\ focus # "controlled" => switchOpen
    /\ focus # "draft" => draftKind = "route" /\ \A r \in Requests : startOf[r] = start1

Next ==
    \/ /\ focus = "canary" /\ CanaryNext
       /\ UNCHANGED <<lunchVars, ctlVars, draftVars, gwVars, focus>>
    \/ /\ focus = "lunch" /\ LunchNext
       /\ UNCHANGED <<canaryVars, ctlVars, draftVars, gwVars, focus>>
    \/ /\ focus = "controlled" /\ ControlledNext
       /\ UNCHANGED <<canaryVars, lunchVars, draftVars, gwVars, focus>>
    \/ /\ focus = "draft" /\ DraftNext
       /\ UNCHANGED <<canaryVars, lunchVars, ctlVars, gwVars, focus>>
    \/ /\ focus = "gateways" /\ GatewaysNext
       /\ UNCHANGED <<canaryVars, lunchVars, ctlVars, draftVars, focus>>

Spec == Init /\ [][Next]_vars

(* The types of the five modules with state, with what their inductive      *)
(* invariants add to the properties; and of the operations that go through  *)
(* the gateway, that each is carried by the transport and declared,         *)
(* approved and undone as what it is.                                       *)
ProvidersIInv ==
    /\ focus = "canary" => CanaryTypeOK /\ CanaryKept /\ VerdictKept
    /\ focus = "lunch" => LunchTypeOK /\ ChosenOnce /\ CostKept
    /\ focus = "controlled" => ControlledTypeOK /\ OneHolder /\ RequestsKept /\ BudgetsFit
    /\ focus = "draft" => DraftTypeOK /\ DraftKept
    /\ focus = "gateways" => GatewaysTypeOK /\ CallsKept /\ OperationsCarried
================================================================================
