-------------------------- MODULE ControlledGateways --------------------------
(***************************************************************************)
(* The two gateways for a single mutation: google-ads-mutation-gateway.js  *)
(* on the catalogue, the plans and the kill switch of                      *)
(* ads-controlled-execution-core.js, and meta-ads-controlled-gateway.js    *)
(* with meta-execution-domains.js and meta-ads-spend-control.js.  Both are *)
(* libraries: a caller gives them the functions that read and write.       *)
(*                                                                         *)
(* A call checks, awaits a reading of the account, stores a snapshot,      *)
(* looks at the kill switch again, awaits the write, awaits a reading and  *)
(* stores the change.  The write of a Google call is the one of            *)
(* google-ads-operational-control.js: it first awaits a validate-only      *)
(* request, and then nobody looks at the switch any more.  Calls           *)
(* interleave at the awaits with each other and with the operator; nothing *)
(* but the switch is looked at twice.  The switch is in memory and a       *)
(* restart forgets it.                                                     *)
(***************************************************************************)
EXTENDS Naturals, FiniteSets

CONSTANTS
    Mutators,        \* calls of execute and simulate that may be open together
    MutationRequests, \* the requests callers make
    AdCampaign, AdExperiment, \* what requests name, and the operator stops
    MaxMutations,    \* bound: calls made
    CostCap,         \* max_experiment_cost_eur of the exploration policy
    SpendPolicy,     \* enabled, switchOff, experiment, daily, monthly
    Authorized       \* campaigns and maxCost of the spend authorization

VARIABLES
    gwSwitch,        \* global, campaigns, experiments, emergency
    gwPc, gwReq, gwMode,
    gwOnWay,         \* calls whose write is on its way
    gwAnswer,        \* what the provider told them
    gwSnapshots,     \* calls whose snapshot is stored
    gwForewarned,    \* history: calls a stop reached before they looked at the switch again
    gwSent,          \* history: requests sent, with the state they were sent in
    gwCalls,
    authorizationLive, mutationLive \* expires_at has not passed

gwProcess == <<gwSwitch, gwPc, gwReq, gwMode, gwSnapshots, gwForewarned, gwCalls>>
gwProvider == <<gwOnWay, gwAnswer>>
gwClock == <<authorizationLive, mutationLive>>
gwVars == <<gwProcess, gwProvider, gwSent, gwClock>>

-----------------------------------------------------------------------------
(* The catalogues: what is allowed, what needs an approval, what is refused. *)

LowRisk == {"add_exact_negative_keyword", "add_negative_keyword",
    "remove_agent_created_negative_keyword", "pause_keyword", "enable_agent_paused_keyword",
    "add_controlled_keyword", "create_pause_rsa_variant",
    "adjust_ad_schedule_within_business_hours", "bounded_geographic_exclusion",
    "create_keyword", "update_keyword", "remove_agent_created_keyword", "create_paused_rsa",
    "update_rsa", "pause_rsa", "enable_rsa", "remove_agent_created_rsa",
    "create_ad_schedule", "update_ad_schedule", "remove_ad_schedule",
    "create_paused_ad_group", "update_ad_group", "pause_ad_group", "enable_ad_group",
    "remove_agent_created_ad_group", "pause_campaign", "add_geo_target", "remove_geo_target",
    "add_language_target", "remove_language_target"}

HigherRisk == {"match_type_strategy_change", "major_targeting_change",
    "bidding_strategy_change", "budget_change", "campaign_creation",
    "campaign_pause_or_reactivate_material", "campaign_budget_creation", "update_campaign",
    "enable_campaign", "remove_agent_created_campaign", "remove_agent_created_campaign_budget"}

Protected == {"conversion_action_change", "billing_change", "payment_method_change",
    "account_ownership_admin_change", "oauth_developer_token_change", "secrets_change",
    "safety_policy_change", "execution_or_spend_guardrail_change"}

MetaLowRisk == {"PAUSE_AD", "ENABLE_AGENT_CREATED_AD", "PAUSE_ADSET",
    "ENABLE_AGENT_CREATED_ADSET", "CREATE_PAUSED_AD_VARIANT",
    "UPDATE_AGENT_CREATED_CREATIVE", "SET_AGENT_CREATED_AD_STATUS"}

MetaApproval == {"BUDGET_CHANGE", "BID_STRATEGY_CHANGE", "TARGETING_EXPANSION",
    "NEW_ACTIVE_CAMPAIGN", "MATERIAL_AUDIENCE_CHANGE", "SPEND_INCREASE", "NEW_OBJECTIVE"}

MetaProtected == {"BILLING_CHANGE", "PAYMENT_METHOD_CHANGE", "ACCOUNT_OWNERSHIP_CHANGE",
    "OAUTH_OR_TOKEN_CHANGE", "CONVERSION_INTEGRITY_RULE_CHANGE", "KILL_SWITCH_CHANGE",
    "SPEND_CAP_CHANGE", "SAFETY_POLICY_CHANGE"}

Risks == {"LOW", "MEDIUM", "HIGH", "CRITICAL"}
ApprovalClasses == {"A", "B", "C"}

(* The schemas: a request names a known type and fills every field; cost is *)
(* its max_cost_eur, class the approval_class it claims.                    *)
GoogleMutation ==
    [platform : {"google"}, type : LowRisk \cup HigherRisk \cup Protected, risk : Risks,
     class : ApprovalClasses, experiment : {"none", AdExperiment}, cost : Nat]

MetaMutation ==
    [platform : {"meta"}, type : MetaLowRisk \cup MetaApproval \cup MetaProtected,
     risk : Risks, class : ApprovalClasses, experiment : {"none"}, cost : Nat]

ASSUME MutationAssumption ==
    /\ MutationRequests \subseteq GoogleMutation \cup MetaMutation
    /\ MaxMutations \in Nat /\ CostCap \in Nat

(* classifyMutation: a critical risk makes every mutation one for approval. *)
GoogleClass(type, risk) ==
    IF type \in Protected THEN "C"
    ELSE IF type \in HigherRisk \/ risk = "CRITICAL" THEN "B" ELSE "A"

(* Pairs that undo each other, types whose inverse is of their own type,    *)
(* and four that a removal of a negative is given for.                     *)
UndoneBy == {
    <<"pause_keyword", "enable_agent_paused_keyword">>,
    <<"create_keyword", "remove_agent_created_keyword">>,
    <<"create_paused_rsa", "remove_agent_created_rsa">>, <<"pause_rsa", "enable_rsa">>,
    <<"create_ad_schedule", "remove_ad_schedule">>,
    <<"create_paused_ad_group", "remove_agent_created_ad_group">>,
    <<"pause_ad_group", "enable_ad_group">>, <<"pause_campaign", "enable_campaign">>,
    <<"campaign_creation", "remove_agent_created_campaign">>,
    <<"campaign_budget_creation", "remove_agent_created_campaign_budget">>,
    <<"add_geo_target", "remove_geo_target">>,
    <<"add_language_target", "remove_language_target">>,
    <<"add_exact_negative_keyword", "remove_agent_created_negative_keyword">>}

UndoneByRemoval == {"add_negative_keyword", "add_controlled_keyword",
                    "create_pause_rsa_variant", "bounded_geographic_exclusion"}

GoogleInverse(type) ==
    IF type \in UndoneByRemoval THEN "remove_agent_created_negative_keyword"
    ELSE IF \E p \in UndoneBy : type \in {p[1], p[2]}
    THEN LET p == CHOOSE q \in UndoneBy : type \in {q[1], q[2]}
         IN  IF type = p[1] THEN p[2] ELSE p[1]
    ELSE IF type \in Protected THEN "none" ELSE type

-----------------------------------------------------------------------------
(* Meta.                                                                    *)

MetaClass(type) ==
    CASE type \in MetaLowRisk -> "A" [] type \in MetaApproval -> "B" [] OTHER -> "C"

MetaInverse(type) ==
    CASE type \in {"PAUSE_AD", "ENABLE_AGENT_CREATED_AD", "CREATE_PAUSED_AD_VARIANT",
                   "SET_AGENT_CREATED_AD_STATUS"} -> "SET_AGENT_CREATED_AD_STATUS"
      [] type = "PAUSE_ADSET" -> "ENABLE_AGENT_CREATED_ADSET"
      [] type = "ENABLE_AGENT_CREATED_ADSET" -> "PAUSE_ADSET"
      [] type = "UPDATE_AGENT_CREATED_CREATIVE" -> type
      [] OTHER -> "none"

-----------------------------------------------------------------------------
(* The rules of the preflight.                                              *)

(* The class a request is treated as; Meta's own class field is not read.   *)
ClassOf(r) == IF r.platform = "google" THEN GoogleClass(r.type, r.risk) ELSE MetaClass(r.type)

Classified(r) ==
    /\ ClassOf(r) # "C"
    /\ r.platform = "google" => r.class = ClassOf(r)

(* The inverse keeps every other field of the mutation.                     *)
InverseOf(r) ==
    [r EXCEPT !.type = IF r.platform = "google" THEN GoogleInverse(@) ELSE MetaInverse(@)]

(* Only the Google plan asks whether the inverse is allowed.                *)
PlanReady(r) ==
    /\ InverseOf(r).type # "none"
    /\ r.platform = "google" => Classified(InverseOf(r))

SpendRequired(r) == r.cost > 0 \/ ClassOf(r) = "B"

SpendAuthorized(r) ==
    /\ SpendPolicy.enabled /\ SpendPolicy.switchOff
    /\ authorizationLive
    /\ AdCampaign \in Authorized.campaigns /\ r.cost <= Authorized.maxCost
    /\ r.cost <= SpendPolicy.experiment
    /\ r.cost <= SpendPolicy.daily /\ r.cost <= SpendPolicy.monthly

WithinSpend(r) ==
    IF r.platform = "google" THEN r.cost <= CostCap
    ELSE SpendRequired(r) => SpendAuthorized(r)

(* The Meta gateway tells the switch the account and the type, for which it *)
(* keeps no stop: those of campaigns and experiments do not reach it.       *)
StoppedBy(switch, r) ==
    \/ switch.global \/ switch.emergency
    \/ r.platform = "google" /\ (AdCampaign \in switch.campaigns
                                 \/ r.experiment \in switch.experiments)

Stopped(r) == StoppedBy(gwSwitch, r)

-----------------------------------------------------------------------------
FreshSwitch == [global |-> FALSE, campaigns |-> {}, experiments |-> {}, emergency |-> FALSE]

NoMutation == [platform |-> "none"]

GatewaysTypeOK ==
    /\ gwSwitch \in [global : BOOLEAN, campaigns : SUBSET {AdCampaign},
                     experiments : SUBSET {AdExperiment}, emergency : BOOLEAN]
    /\ gwPc \in [Mutators -> {"idle", "reading", "checked", "validating", "applying",
                             "readback"}]
    /\ gwReq \in [Mutators -> MutationRequests \cup {NoMutation}]
    /\ gwMode \in [Mutators -> {"simulate", "live", "approved"}]
    /\ gwOnWay \subseteq Mutators
    /\ gwAnswer \in [Mutators -> {"none", "done", "refused"}]
    /\ gwSnapshots \subseteq Mutators
    /\ gwForewarned \subseteq Mutators
    /\ gwSent \subseteq [request : MutationRequests, forewarned : BOOLEAN, approved : BOOLEAN,
                         snapshot : BOOLEAN]
    /\ gwCalls \in 0..MaxMutations
    /\ authorizationLive \in BOOLEAN /\ mutationLive \in BOOLEAN

GatewaysInit ==
    /\ gwSwitch = FreshSwitch
    /\ gwPc = [c \in Mutators |-> "idle"] /\ gwReq = [c \in Mutators |-> NoMutation]
    /\ gwMode = [c \in Mutators |-> "live"]
    /\ gwOnWay = {} /\ gwAnswer = [c \in Mutators |-> "none"]
    /\ gwSnapshots = {} /\ gwForewarned = {} /\ gwSent = {} /\ gwCalls = 0
    /\ authorizationLive = TRUE /\ mutationLive = TRUE

GatewayEnds(c) ==
    /\ gwPc' = [gwPc EXCEPT ![c] = "idle"] /\ gwReq' = [gwReq EXCEPT ![c] = NoMutation]
    /\ gwMode' = [gwMode EXCEPT ![c] = "live"]
    /\ gwSnapshots' = gwSnapshots \ {c} /\ gwForewarned' = gwForewarned \ {c}
    /\ gwAnswer' = [gwAnswer EXCEPT ![c] = "none"]
    /\ gwOnWay' = gwOnWay \ {c}

(* preflight up to the reading; whoever fails a check changes nothing.      *)
BeginMutation(c, r, mode) ==
    /\ gwPc[c] = "idle" /\ gwCalls < MaxMutations /\ gwCalls' = gwCalls + 1
    /\ Classified(r) /\ ~Stopped(r) /\ mutationLive /\ WithinSpend(r)
    /\ mode = "simulate" => r.platform = "google"
    /\ gwPc' = [gwPc EXCEPT ![c] = "reading"] /\ gwReq' = [gwReq EXCEPT ![c] = r]
    /\ gwMode' = [gwMode EXCEPT ![c] = mode]
    /\ UNCHANGED <<gwSwitch, gwSnapshots, gwForewarned, gwProvider, gwSent, gwClock>>

(* The snapshot is stored also when no plan is ready.  A reading or an      *)
(* append that throws ends the call.                                        *)
Snapshot(c) ==
    /\ gwPc[c] = "reading"
    /\ \/ /\ PlanReady(gwReq[c])
          /\ gwPc' = [gwPc EXCEPT ![c] = "checked"]
          /\ gwSnapshots' = gwSnapshots \cup {c}
          /\ UNCHANGED <<gwReq, gwMode, gwForewarned, gwProvider>>
       \/ GatewayEnds(c)
    /\ UNCHANGED <<gwSwitch, gwCalls, gwSent, gwClock>>

(* simulate compares the mutation with itself and records it.               *)
Simulated(c) ==
    /\ gwPc[c] = "checked" /\ gwMode[c] = "simulate"
    /\ GatewayEnds(c)
    /\ UNCHANGED <<gwSwitch, gwCalls, gwSent, gwClock>>

\* Variant: the switch is looked at in the preflight only.
GoOnce(c) == ClassOf(gwReq[c]) = "B" => gwMode[c] = "approved"

MaySend(c) ==
    /\ ClassOf(gwReq[c]) = "B" => gwMode[c] = "approved"
    /\ ~Stopped(gwReq[c])

(* The write leaves.                                                       *)
SendMutation(c) ==
    /\ gwPc' = [gwPc EXCEPT ![c] = "applying"]
    /\ gwOnWay' = gwOnWay \cup {c}
    /\ gwSent' = gwSent \cup {[request |-> gwReq[c], forewarned |-> c \in gwForewarned,
                               approved |-> gwMode[c] = "approved",
                               snapshot |-> c \in gwSnapshots]}
    /\ UNCHANGED <<gwReq, gwMode, gwSnapshots, gwForewarned, gwAnswer>>

(* execute looks at the approval and the switch, and calls the apply.       *)
GoAhead(c) ==
    /\ gwPc[c] = "checked" /\ gwMode[c] # "simulate"
    /\ \/ ~MaySend(c) /\ GatewayEnds(c) /\ UNCHANGED gwSent
       \/ MaySend(c) /\ gwReq[c].platform = "meta" /\ SendMutation(c)
       \/ /\ MaySend(c) /\ gwReq[c].platform = "google"
          /\ gwPc' = [gwPc EXCEPT ![c] = "validating"]
          /\ UNCHANGED <<gwReq, gwMode, gwSnapshots, gwForewarned, gwProvider, gwSent>>
    /\ UNCHANGED <<gwSwitch, gwCalls, gwClock>>

(* The validate-only request was answered: the write follows, whatever the  *)
(* switch says by now, or the refusal ends the call.                        *)
ValidateOnly(c) ==
    /\ gwPc[c] = "validating"
    /\ SendMutation(c) \/ (GatewayEnds(c) /\ UNCHANGED gwSent)
    /\ UNCHANGED <<gwSwitch, gwCalls, gwClock>>

(* An apply that throws ends the call with no record of the write.          *)
MutationAnswered(c) ==
    /\ gwPc[c] = "applying" /\ gwAnswer[c] # "none"
    /\ IF gwAnswer[c] = "done"
       THEN /\ gwPc' = [gwPc EXCEPT ![c] = "readback"]
            /\ UNCHANGED <<gwReq, gwMode, gwSnapshots, gwForewarned, gwProvider>>
       ELSE GatewayEnds(c)
    /\ UNCHANGED <<gwSwitch, gwCalls, gwSent, gwClock>>

(* The change is recorded as VERIFIED or for reconciliation, or a reading   *)
(* that throws leaves none.                                                 *)
ReadBack(c) ==
    /\ gwPc[c] = "readback"
    /\ GatewayEnds(c)
    /\ UNCHANGED <<gwSwitch, gwCalls, gwSent, gwClock>>

-----------------------------------------------------------------------------
(* The operator, the clock, the provider, the platform.                     *)

\* A stop reaches the calls it applies to, if they have still to look at the switch.
StopAutonomy ==
    /\ gwSwitch' \in {[gwSwitch EXCEPT !.global = TRUE],
                      [gwSwitch EXCEPT !.campaigns = {AdCampaign}],
                      [gwSwitch EXCEPT !.experiments = {AdExperiment}],
                      [gwSwitch EXCEPT !.global = TRUE, !.emergency = TRUE]}
    /\ gwForewarned' = gwForewarned \cup
           {c \in Mutators : /\ gwPc[c] \in {"reading", "checked"}
                             /\ StoppedBy(gwSwitch', gwReq[c])}
    /\ UNCHANGED <<gwPc, gwReq, gwMode, gwSnapshots, gwCalls, gwProvider, gwSent, gwClock>>

MutationArrives(c) ==
    /\ c \in gwOnWay /\ gwOnWay' = gwOnWay \ {c}
    /\ \E a \in {"done", "refused"} : gwAnswer' = [gwAnswer EXCEPT ![c] = a]
    /\ UNCHANGED <<gwProcess, gwSent, gwClock>>

SpendExpires ==
    /\ authorizationLive' = FALSE /\ mutationLive' \in {mutationLive, FALSE}
    /\ UNCHANGED <<gwProcess, gwProvider, gwSent>>

GatewayRestart ==
    /\ gwSwitch' = FreshSwitch
    /\ gwPc' = [c \in Mutators |-> "idle"] /\ gwReq' = [c \in Mutators |-> NoMutation]
    /\ gwMode' = [c \in Mutators |-> "live"] /\ gwSnapshots' = {} /\ gwForewarned' = {}
    /\ gwOnWay' = {} /\ gwAnswer' = [c \in Mutators |-> "none"]
    /\ UNCHANGED <<gwCalls, gwSent, gwClock>>

GatewaysNext ==
    \/ \E c \in Mutators :
          \/ \E r \in MutationRequests, mode \in {"simulate", "live", "approved"} :
                BeginMutation(c, r, mode)
          \/ Snapshot(c) \/ Simulated(c) \/ GoAhead(c) \/ ValidateOnly(c)
          \/ MutationAnswered(c) \/ ReadBack(c) \/ MutationArrives(c)
    \/ StopAutonomy \/ SpendExpires \/ GatewayRestart

GatewaysSpec == GatewaysInit /\ [][GatewaysNext]_gwVars

-----------------------------------------------------------------------------
(* What a rollback would have to pass, were it sent through the gateway     *)
(* while nothing is stopped or expired.                                     *)
Undoable(r) == Classified(r) /\ PlanReady(r)

(* Of every write sent: no stop that applies to it was given while its call *)
(* waited for the reading, or before its validate-only request went out (a  *)
(* stop that comes while that one is under way is not seen any more); its   *)
(* snapshot is in the store; what needs an approval has it; and its         *)
(* rollback passes the same gateway with no more approval than the write    *)
(* itself needed.                                                           *)
WritesCaged ==
    \A w \in gwSent :
        /\ ~w.forewarned /\ w.snapshot
        /\ ClassOf(w.request) = "B" => w.approved
        /\ Undoable(InverseOf(w.request))
        /\ ClassOf(InverseOf(w.request)) = "B" => ClassOf(w.request) = "B"

(* Why: a call that goes on was classified, one that may send has its       *)
(* snapshot and a plan that is ready, one that is past the switch its       *)
(* approval, and a stop that reached a call stands as long as the call      *)
(* waits.                                                                   *)
CallsKept ==
    \A c \in Mutators :
        /\ gwPc[c] # "idle" => gwReq[c] \in MutationRequests /\ Classified(gwReq[c])
        /\ gwPc[c] \in {"checked", "validating"} => c \in gwSnapshots /\ PlanReady(gwReq[c])
        /\ gwPc[c] = "validating" => (ClassOf(gwReq[c]) = "B" => gwMode[c] = "approved")
        /\ c \in gwForewarned => gwPc[c] \in {"reading", "checked"} /\ Stopped(gwReq[c])
=============================================================================
