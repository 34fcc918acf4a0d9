-------------------------- MODULE OperationalControl --------------------------
(***************************************************************************)
(* The operational writes to Google Ads (google-ads-operational-control.js *)
(* over google-ads-operational-rest-transport.js): what an action becomes, *)
(* as a request to the gateway of ControlledGateways and as the operation  *)
(* its apply sends.  The request carries nothing of the action but its     *)
(* type: what the gateway checks and what the transport sends are two      *)
(* readings of the same action, and the properties are about their fit.    *)
(*                                                                         *)
(* An action names its target by account, collection and campaign; the     *)
(* words of a keyword, an ad or a schedule are left out.                   *)
(***************************************************************************)
EXTENDS ControlledGateways

CONSTANTS
    Accounts, OwnAccount,   \* the accounts names may carry; the client's own
    CampaignIds,
    WriteGates              \* the gates the composition was given as true

Creates == {"negative_add", "keyword_create", "schedule_create", "rsa_create",
    "ad_group_create", "campaign_create", "campaign_budget_create", "geo_add",
    "language_add"}
Updates == {"keyword_update", "rsa_update", "ad_group_update", "campaign_update"}
Removals == {"negative_remove", "keyword_remove", "schedule_remove", "rsa_remove",
    "ad_group_remove", "campaign_remove", "campaign_budget_remove", "geo_remove",
    "language_remove"}
ActionTypes == Creates \cup Updates \cup Removals

ResourceCollections == {"campaigns", "campaignBudgets", "adGroups", "adGroupCriteria",
    "adGroupAds", "campaignCriteria"}

ResourceNames == [account : Accounts, collection : ResourceCollections, id : CampaignIds]

(* Types whose schema wants the name of a campaign beside the campaign id.  *)
NamesCampaign == {"negative_add", "schedule_create", "ad_group_create", "geo_add",
                  "language_add"}

(* status is "none" where the action leaves it out.                         *)
OperationalActions ==
    [type : ActionTypes, campaign : CampaignIds, target : ResourceNames,
     status : {"none", "PAUSED", "ENABLED"}, renames : BOOLEAN]

ASSUME OperationalAssumption ==
    /\ OwnAccount \in Accounts
    /\ WriteGates \subseteq {"writes", "execution", "spend", "activation", "economic"}

-----------------------------------------------------------------------------
(* parseAction: a new object is PAUSED, only an update may rename or enable *)
(* and the campaign a create names is the one the action claims.            *)
Parses(a) ==
    /\ a.type \in {"keyword_create", "rsa_create", "ad_group_create", "campaign_create"}
         => a.status = "PAUSED"
    /\ a.type \in Removals \cup {"negative_add", "schedule_create", "geo_add",
                                 "language_add", "campaign_budget_create"}
         => a.status = "none"
    /\ a.type \in {"keyword_update", "rsa_update"} => a.status # "none"
    /\ a.renames => a.type \in {"ad_group_update", "campaign_update"}
    /\ a.type \in NamesCampaign =>
         a.target.collection = "campaigns" /\ a.target.id = a.campaign

(* Mutation type and risk: what concerns campaigns and budgets is MEDIUM.    *)
MutationOf(type) ==
    CASE type = "negative_add" -> "add_negative_keyword"
      [] type = "negative_remove" -> "remove_agent_created_negative_keyword"
      [] type = "keyword_create" -> "create_keyword"
      [] type = "keyword_update" -> "update_keyword"
      [] type = "keyword_remove" -> "remove_agent_created_keyword"
      [] type = "schedule_create" -> "create_ad_schedule"
      [] type = "schedule_remove" -> "remove_ad_schedule"
      [] type = "rsa_create" -> "create_paused_rsa"
      [] type = "rsa_update" -> "update_rsa"
      [] type = "rsa_remove" -> "remove_agent_created_rsa"
      [] type = "ad_group_create" -> "create_paused_ad_group"
      [] type = "ad_group_update" -> "update_ad_group"
      [] type = "ad_group_remove" -> "remove_agent_created_ad_group"
      [] type = "campaign_create" -> "campaign_creation"
      [] type = "campaign_update" -> "update_campaign"
      [] type = "campaign_remove" -> "remove_agent_created_campaign"
      [] type = "campaign_budget_create" -> "campaign_budget_creation"
      [] type = "campaign_budget_remove" -> "remove_agent_created_campaign_budget"
      [] type = "geo_add" -> "add_geo_target"
      [] type = "geo_remove" -> "remove_geo_target"
      [] type = "language_add" -> "add_language_target"
      [] OTHER -> "remove_language_target"

MediumRisk == {"campaign_create", "campaign_update", "campaign_remove",
               "campaign_budget_create", "campaign_budget_remove"}

(* buildMutationRequest: neither a cost nor an experiment.                   *)
RequestOf(a) ==
    [platform |-> "google", type |-> MutationOf(a.type),
     risk |-> IF a.type \in MediumRisk THEN "MEDIUM" ELSE "LOW",
     class |-> IF a.type \in MediumRisk THEN "B" ELSE "A",
     experiment |-> "none", cost |-> 0]

(* safetyBlock: the gates of the composition.                               *)
SafetyClear(a) ==
    /\ {"writes", "execution"} \subseteq WriteGates
    /\ a.status = "ENABLED" => "activation" \in WriteGates
    /\ a.type = "campaign_budget_create" => {"spend", "economic"} \subseteq WriteGates

(* execute: what is handed to the gateway, as approved.                     *)
Executes(a) == Parses(a) /\ a.target.account = OwnAccount /\ SafetyClear(a)

-----------------------------------------------------------------------------
(* What is sent.                                                            *)

EntityOf(collection) ==
    CASE collection = "campaignCriteria" -> "campaign_criterion"
      [] collection = "campaignBudgets" -> "campaign_budget"
      [] collection = "adGroupCriteria" -> "ad_group_criterion"
      [] collection = "adGroupAds" -> "ad_group_ad"
      [] collection = "adGroups" -> "ad_group"
      [] OTHER -> "campaign"

Service(entity) == CHOOSE c \in ResourceCollections : EntityOf(c) = entity

(* The shape of what an action creates: the entity, what it is bound to and *)
(* what it carries.                                                         *)
Created(type) ==
    CASE type = "negative_add" -> <<"campaign_criterion", "campaign", "keyword">>
      [] type = "schedule_create" -> <<"campaign_criterion", "campaign", "ad_schedule">>
      [] type = "geo_add" -> <<"campaign_criterion", "campaign", "location">>
      [] type = "language_add" -> <<"campaign_criterion", "campaign", "language">>
      [] type = "keyword_create" -> <<"ad_group_criterion", "ad_group", "keyword">>
      [] type = "rsa_create" -> <<"ad_group_ad", "ad_group", "responsive_search_ad">>
      [] type = "ad_group_create" -> <<"ad_group", "campaign", "none">>
      [] type = "campaign_create" -> <<"campaign", "none", "campaign_budget">>
      [] OTHER -> <<"campaign_budget", "none", "none">>

Updated(type) ==
    CASE type = "keyword_update" -> "ad_group_criterion"
      [] type = "rsa_update" -> "ad_group_ad"
      [] type = "ad_group_update" -> "ad_group"
      [] OTHER -> "campaign"

(* The fields an update names.                                              *)
Mask(a) == (IF a.renames THEN {"name"} ELSE {})
           \cup (IF a.status # "none" THEN {"status"} ELSE {})

\* Variant: an empty update is not refused.
CompilesAlways(a) == TRUE

(* compileOperation throws for an update of nothing.  A removal is of       *)
(* whatever the name says; an update sends the entity of its type to the    *)
(* service of that entity, whatever collection the name is of.              *)
Compiles(a) == a.type \in Updates => Mask(a) # {}

Compiled(a) ==
    CASE a.type \in Removals ->
           [entity |-> EntityOf(a.target.collection), operation |-> "remove",
            bound |-> "none", carries |-> "none", mask |-> {}, account |-> a.target.account]
      [] a.type \in Updates ->
           [entity |-> Updated(a.type), operation |-> "update",
            bound |-> "none", carries |-> "none", mask |-> Mask(a),
            account |-> a.target.account]
      [] OTHER ->
           [entity |-> Created(a.type)[1], operation |-> "create",
            bound |-> Created(a.type)[2], carries |-> Created(a.type)[3], mask |-> {},
            account |-> a.target.account]

(* restOperation: the shapes the transport can put into a request.  An      *)
(* update of a criterion of a campaign is read as a create.                 *)
RestTakes(o) ==
    /\ o.operation = "update" =>
          /\ o.entity \in {"ad_group_criterion", "ad_group_ad", "ad_group", "campaign"}
          /\ o.mask # {}
          /\ "name" \in o.mask => o.entity \in {"ad_group", "campaign"}
    /\ o.operation = "create" =>
          /\ o.entity = "campaign_criterion" =>
                /\ o.bound = "campaign"
                /\ o.carries \in {"keyword", "ad_schedule", "location", "language"}
          /\ o.entity = "ad_group_criterion" => o.bound = "ad_group" /\ o.carries = "keyword"
          /\ o.entity = "ad_group_ad" =>
                o.bound = "ad_group" /\ o.carries = "responsive_search_ad"
          /\ o.entity = "ad_group" => o.bound = "campaign"

(* mutateResources: first validate-only, then the write, each one POST to   *)
(* the service of the entity in the client's own account.                   *)
Sendable(o) ==
    /\ o.entity \in {EntityOf(c) : c \in ResourceCollections}
    /\ RestTakes(o)
    /\ o.account = OwnAccount

-----------------------------------------------------------------------------
(* What is right about an action that is handed to the gateway: the         *)
(* transport takes what it compiles to; the gateway treats it as declared;  *)
(* and its rollback is of a type that some action offers, except that of    *)
(* the removal of a negative, whose inverse is a type that none does.       *)
FitsGateway(a) ==
    /\ Compiles(a) => Sendable(Compiled(a))
    /\ ClassOf(RequestOf(a)) = RequestOf(a).class
    /\ a.type # "negative_remove" =>
         \E t \in ActionTypes : MutationOf(t) = InverseOf(RequestOf(a)).type

Miscarried == {RequestOf(a) : a \in {b \in OperationalActions : Executes(b) /\ ~FitsGateway(b)}}

(* Whichever action made a request that went through the gateway, it is     *)
(* carried: the snapshot, the plan and the approval that were given for the *)
(* request are for the write that its apply sends.                          *)
OperationsCarried == \A w \in gwSent : w.request \notin Miscarried
=============================================================================
