---------------------------- MODULE Gateways_proofs ----------------------------
(***************************************************************************)
(* For every set of calls, requests and policies: a write that a gateway   *)
(* sends is caged, and every operational action the composition executes   *)
(* is carried by the transport as the gateway treated it.                  *)
(***************************************************************************)
EXTENDS OperationalControl, TLAPS

USE MutationAssumption

GatewaysIInv == GatewaysTypeOK /\ CallsKept /\ WritesCaged

-----------------------------------------------------------------------------
\* The tables of inverses.

\* A type belongs to one pair at most.
LEMMA PairsApart ==
  /\ \A p, q \in UndoneBy : p[1] # p[2] /\ (p[1] \in {q[1], q[2]} \/ p[2] \in {q[1], q[2]} => p = q)
  /\ \A p \in UndoneBy : p[1] \notin UndoneByRemoval /\ p[2] \notin UndoneByRemoval
BY DEF UndoneBy, UndoneByRemoval

LEMMA PairInverse ==
  ASSUME NEW p \in UndoneBy
  PROVE  GoogleInverse(p[1]) = p[2] /\ GoogleInverse(p[2]) = p[1]
<1>1. ASSUME NEW t \in {p[1], p[2]}
      PROVE  GoogleInverse(t) = IF t = p[1] THEN p[2] ELSE p[1]
  <2>1. t \notin UndoneByRemoval /\ \E q \in UndoneBy : t \in {q[1], q[2]}
    BY PairsApart
  <2>2. \A q \in UndoneBy : t \in {q[1], q[2]} <=> q = p
    BY PairsApart
  <2>3. (CHOOSE q \in UndoneBy : t \in {q[1], q[2]}) = p
    BY <2>2
  <2> QED
    BY <2>1, <2>3 DEF GoogleInverse
<1> QED
  BY <1>1, PairsApart

\* What undoes the inverse is the mutation again, or the addition of an exact negative.
LEMMA InverseTwice ==
  ASSUME NEW t
  PROVE  /\ t \in UndoneByRemoval =>
              GoogleInverse(GoogleInverse(t)) = "add_exact_negative_keyword"
         /\ t \notin UndoneByRemoval /\ t \notin Protected => GoogleInverse(GoogleInverse(t)) = t
<1>1. CASE t \in UndoneByRemoval
  <2>1. <<"add_exact_negative_keyword", "remove_agent_created_negative_keyword">> \in UndoneBy
    BY DEF UndoneBy
  <2>2. GoogleInverse(t) = "remove_agent_created_negative_keyword"
    BY <1>1 DEF GoogleInverse
  <2>3. GoogleInverse("remove_agent_created_negative_keyword") = "add_exact_negative_keyword"
    BY <2>1, PairInverse
  <2> QED
    BY <1>1, <2>2, <2>3
<1>2. CASE t \notin UndoneByRemoval /\ \E p \in UndoneBy : t \in {p[1], p[2]}
  BY <1>2, PairInverse
<1>3. CASE t \notin UndoneByRemoval /\ t \notin Protected /\ ~\E p \in UndoneBy : t \in {p[1], p[2]}
  <2>1. GoogleInverse(t) = t
    BY <1>3 DEF GoogleInverse
  <2> QED
    BY <1>3, <2>1
<1> QED
  BY <1>1, <1>2, <1>3

LEMMA CatalogueFacts ==
  /\ UndoneByRemoval \subseteq LowRisk /\ "add_exact_negative_keyword" \in LowRisk
  /\ LowRisk \cap Protected = {} /\ LowRisk \cap HigherRisk = {} /\ HigherRisk \cap Protected = {}
  /\ "none" \notin LowRisk \cup HigherRisk \cup Protected
BY DEF UndoneByRemoval, LowRisk, HigherRisk, Protected

\* A mutation with a plan is treated as its rollback is, and its rollback has a plan.
LEMMA GoogleUndoable ==
  ASSUME NEW r \in GoogleMutation, Classified(r), PlanReady(r)
  PROVE  Undoable(InverseOf(r)) /\ ClassOf(InverseOf(r)) = ClassOf(r)
<1> DEFINE i == InverseOf(r)
           j == InverseOf(i)
<1>1. /\ r.platform = "google" /\ r.type \in LowRisk \cup HigherRisk \cup Protected
      /\ r.risk \in Risks
  BY DEF GoogleMutation
<1>2. /\ i.platform = "google" /\ i.type = GoogleInverse(r.type) /\ i.risk = r.risk
      /\ i.class = r.class
  BY <1>1 DEF InverseOf, GoogleMutation
<1>3. /\ j.platform = "google" /\ j.type = GoogleInverse(GoogleInverse(r.type)) /\ j.risk = r.risk
      /\ j.class = r.class
  BY <1>1, <1>2 DEF InverseOf, GoogleMutation
<1>4. /\ ClassOf(r) = GoogleClass(r.type, r.risk) /\ ClassOf(r) # "C" /\ r.class = ClassOf(r)
      /\ ClassOf(i) # "C" /\ r.class = ClassOf(i) /\ Classified(i)
  BY <1>1, <1>2 DEF Classified, ClassOf, PlanReady
<1>5. r.type \notin Protected
  BY <1>4 DEF GoogleClass
<1>6. j.type # "none" /\ GoogleClass(j.type, r.risk) = GoogleClass(r.type, r.risk)
  BY <1>1, <1>3, <1>5, InverseTwice, CatalogueFacts DEF GoogleClass
<1>7. Classified(j)
  BY <1>3, <1>4, <1>6 DEF Classified, ClassOf
<1> QED
  BY <1>2, <1>4, <1>6, <1>7 DEF Undoable, PlanReady

LEMMA MetaUndoable ==
  ASSUME NEW r \in MetaMutation, Classified(r), PlanReady(r)
  PROVE  Undoable(InverseOf(r)) /\ ClassOf(InverseOf(r)) = "A"
<1> DEFINE i == InverseOf(r)
           j == InverseOf(i)
<1>1. r.platform = "meta"
  BY DEF MetaMutation
<1>2. i.platform = "meta" /\ i.type = MetaInverse(r.type)
  BY <1>1 DEF InverseOf, MetaMutation
<1>3. j.platform = "meta" /\ j.type = MetaInverse(i.type)
  BY <1>1, <1>2 DEF InverseOf, MetaMutation
<1>4. i.type # "none"
  BY DEF PlanReady
<1>5. i.type \in {"SET_AGENT_CREATED_AD_STATUS", "ENABLE_AGENT_CREATED_ADSET", "PAUSE_ADSET",
                  "UPDATE_AGENT_CREATED_CREATIVE"}
  BY <1>2, <1>4 DEF MetaInverse
<1>6. MetaClass(i.type) = "A"
  BY <1>5 DEF MetaClass, MetaLowRisk, MetaApproval
<1>7. MetaInverse(i.type) # "none"
  BY <1>5 DEF MetaInverse
<1> QED
  BY <1>2, <1>3, <1>6, <1>7 DEF Undoable, Classified, ClassOf, PlanReady

-----------------------------------------------------------------------------
\* The calls.

LEMMA GatewaysInitIInv == GatewaysInit => GatewaysIInv
<1> SUFFICES ASSUME GatewaysInit PROVE GatewaysIInv
  OBVIOUS
<1>1. GatewaysTypeOK
  BY DEF GatewaysInit, GatewaysTypeOK, FreshSwitch
<1>2. CallsKept /\ WritesCaged
  BY DEF GatewaysInit, CallsKept, WritesCaged
<1> QED
  BY <1>1, <1>2 DEF GatewaysIInv

LEMMA NoMutationApart == NoMutation \notin MutationRequests
BY DEF NoMutation, GoogleMutation, MetaMutation

\* However a call ends.
LEMMA GatewayEndsStep ==
  ASSUME GatewaysIInv, NEW c \in Mutators, GatewayEnds(c),
         UNCHANGED <<gwSwitch, gwCalls, gwSent, gwClock>>
  PROVE  GatewaysIInv'
<1> USE DEF GatewaysIInv, GatewaysTypeOK, GatewayEnds, gwClock
<1>1. GatewaysTypeOK'
  OBVIOUS
<1>2. CallsKept'
  BY DEF CallsKept, Stopped
<1>3. WritesCaged'
  BY DEF WritesCaged
<1> QED
  BY <1>1, <1>2, <1>3

LEMMA GatewayBeginStep ==
  ASSUME GatewaysIInv, NEW c \in Mutators, NEW r \in MutationRequests,
         NEW mode \in {"simulate", "live", "approved"}, BeginMutation(c, r, mode)
  PROVE  GatewaysIInv'
<1> USE DEF GatewaysIInv, GatewaysTypeOK, BeginMutation, gwClock, gwProvider
<1>1. GatewaysTypeOK'
  OBVIOUS
<1>2. CallsKept'
  BY DEF CallsKept, Stopped
<1>3. WritesCaged'
  BY DEF WritesCaged
<1> QED
  BY <1>1, <1>2, <1>3

LEMMA SnapshotStep ==
  ASSUME GatewaysIInv, NEW c \in Mutators, Snapshot(c)
  PROVE  GatewaysIInv'
<1>1. CASE GatewayEnds(c)
  BY <1>1, GatewayEndsStep DEF Snapshot
<1>2. CASE ~GatewayEnds(c)
  <2> USE <1>2 DEF GatewaysIInv, GatewaysTypeOK, Snapshot, gwClock, gwProvider
  <2>1. GatewaysTypeOK'
    OBVIOUS
  <2>2. CallsKept'
    BY DEF CallsKept, Stopped
  <2>3. WritesCaged'
    BY DEF WritesCaged
  <2> QED
    BY <2>1, <2>2, <2>3
<1> QED
  BY <1>1, <1>2

\* What SendMutation needs: the switch, the approval, the snapshot and the plan were found
\* before, and no stop has reached the call.
LEMMA SendStep ==
  ASSUME GatewaysIInv, NEW c \in Mutators, SendMutation(c),
         UNCHANGED <<gwSwitch, gwCalls, gwClock>>,
         gwPc[c] \in {"checked", "validating"}, c \notin gwForewarned,
         ClassOf(gwReq[c]) = "B" => gwMode[c] = "approved"
  PROVE  GatewaysIInv'
<1> DEFINE r == gwReq[c]
           w == [request |-> r, forewarned |-> c \in gwForewarned,
                 approved |-> gwMode[c] = "approved", snapshot |-> c \in gwSnapshots]
<1>1. /\ gwPc' = [gwPc EXCEPT ![c] = "applying"]
      /\ gwOnWay' = gwOnWay \cup {c} /\ gwSent' = gwSent \cup {w}
      /\ UNCHANGED <<gwReq, gwMode, gwSnapshots, gwForewarned, gwAnswer, gwSwitch, gwCalls,
                     authorizationLive, mutationLive>>
  BY DEF SendMutation, gwClock
<1>2. r \in MutationRequests /\ Classified(r) /\ c \in gwSnapshots /\ PlanReady(r)
  BY DEF GatewaysIInv, CallsKept
<1>3. w \in [request : MutationRequests, forewarned : BOOLEAN, approved : BOOLEAN,
             snapshot : BOOLEAN]
  <2> DEFINE warned == c \in gwForewarned approves == gwMode[c] = "approved"
             shot == c \in gwSnapshots
  <2>1. warned \in BOOLEAN /\ approves \in BOOLEAN /\ shot \in BOOLEAN /\ r \in MutationRequests
    BY <1>2
  <2> HIDE DEF r, warned, approves, shot
  <2>2. [request |-> r, forewarned |-> warned, approved |-> approves, snapshot |-> shot]
          \in [request : MutationRequests, forewarned : BOOLEAN, approved : BOOLEAN,
               snapshot : BOOLEAN]
    BY <2>1
  <2> QED
    BY <2>2 DEF warned, approves, shot
<1>4. GatewaysTypeOK'
  <2> HIDE DEF w
  <2> QED
    BY <1>1, <1>3 DEF GatewaysIInv, GatewaysTypeOK
<1>5. CallsKept'
  BY <1>1 DEF GatewaysIInv, GatewaysTypeOK, CallsKept, Stopped
<1>6. ~w.forewarned /\ w.snapshot /\ w.request = r /\ (ClassOf(r) = "B" => w.approved)
  BY <1>2
<1>7. Undoable(InverseOf(r)) /\ (ClassOf(InverseOf(r)) = "B" => ClassOf(r) = "B")
  <2>1. CASE r \in GoogleMutation
    BY <1>2, <2>1, GoogleUndoable
  <2>2. CASE r \in MetaMutation
    BY <1>2, <2>2, MetaUndoable
  <2> QED
    BY <1>2, <2>1, <2>2
<1>8. WritesCaged'
  <2> HIDE DEF w, r
  <2> QED
    BY <1>1, <1>6, <1>7 DEF GatewaysIInv, WritesCaged
<1> QED
  BY <1>4, <1>5, <1>8 DEF GatewaysIInv

\* The second look at the switch: a stop that reached the call still stands.
LEMMA GoAheadStep ==
  ASSUME GatewaysIInv, NEW c \in Mutators, GoAhead(c)
  PROVE  GatewaysIInv'
<1>1. MaySend(c) => c \notin gwForewarned /\ (ClassOf(gwReq[c]) = "B" => gwMode[c] = "approved")
  BY DEF MaySend, GatewaysIInv, CallsKept
<1>2. CASE ~MaySend(c)
  BY <1>2, GatewayEndsStep DEF GoAhead, gwClock
<1>3. CASE MaySend(c) /\ SendMutation(c)
  BY <1>1, <1>3, SendStep DEF GoAhead
<1>4. CASE MaySend(c) /\ ~SendMutation(c)
  <2> USE <1>1, <1>4 DEF GatewaysIInv, GatewaysTypeOK, GoAhead, gwClock, gwProvider
  <2>1. GatewaysTypeOK'
    OBVIOUS
  <2>2. CallsKept'
    BY DEF CallsKept, Stopped
  <2>3. WritesCaged'
    BY DEF WritesCaged
  <2> QED
    BY <2>1, <2>2, <2>3
<1> QED
  BY <1>2, <1>3, <1>4

\* After the validate-only request nothing is looked at: what was found before it must do.
LEMMA ValidateOnlyStep ==
  ASSUME GatewaysIInv, NEW c \in Mutators, ValidateOnly(c)
  PROVE  GatewaysIInv'
<1>1. c \notin gwForewarned /\ (ClassOf(gwReq[c]) = "B" => gwMode[c] = "approved")
  BY DEF ValidateOnly, GatewaysIInv, CallsKept
<1>2. CASE SendMutation(c)
  BY <1>1, <1>2, SendStep DEF ValidateOnly
<1>3. CASE ~SendMutation(c)
  BY <1>3, GatewayEndsStep DEF ValidateOnly, gwClock
<1> QED
  BY <1>2, <1>3

LEMMA AnsweredStep ==
  ASSUME GatewaysIInv, NEW c \in Mutators, MutationAnswered(c) \/ MutationArrives(c)
  PROVE  GatewaysIInv'
<1>1. CASE MutationAnswered(c) /\ gwAnswer[c] # "done"
  BY <1>1, GatewayEndsStep DEF MutationAnswered
<1>2. CASE MutationAnswered(c) /\ gwAnswer[c] = "done"
  <2> USE <1>2 DEF GatewaysIInv, GatewaysTypeOK, MutationAnswered, gwClock, gwProvider
  <2>1. GatewaysTypeOK'
    OBVIOUS
  <2>2. CallsKept'
    BY DEF CallsKept, Stopped
  <2>3. WritesCaged'
    BY DEF WritesCaged
  <2> QED
    BY <2>1, <2>2, <2>3
<1>3. CASE MutationArrives(c)
  <2> USE <1>3 DEF GatewaysIInv, GatewaysTypeOK, MutationArrives, gwClock, gwProcess
  <2>1. GatewaysTypeOK'
    OBVIOUS
  <2>2. CallsKept'
    BY DEF CallsKept, Stopped
  <2>3. WritesCaged'
    BY DEF WritesCaged
  <2> QED
    BY <2>1, <2>2, <2>3
<1> QED
  BY <1>1, <1>2, <1>3

LEMMA EnvironmentStep ==
  ASSUME GatewaysIInv, StopAutonomy \/ SpendExpires \/ GatewayRestart
  PROVE  GatewaysIInv'
<1> USE DEF GatewaysIInv, GatewaysTypeOK, gwClock, gwProcess, gwProvider, FreshSwitch
<1>1. GatewaysTypeOK'
  <2>1. CASE StopAutonomy
    BY <2>1 DEF StopAutonomy
  <2>2. CASE SpendExpires
    BY <2>2 DEF SpendExpires
  <2>3. CASE GatewayRestart
    BY <2>3 DEF GatewayRestart
  <2> QED
    BY <2>1, <2>2, <2>3
<1>2. CallsKept'
  <2>1. CASE StopAutonomy
    <3>1. \A r : StoppedBy(gwSwitch, r) => StoppedBy(gwSwitch', r)
      BY <2>1 DEF StopAutonomy, StoppedBy
    <3>2. UNCHANGED <<gwPc, gwReq, gwMode, gwSnapshots>>
      BY <2>1 DEF StopAutonomy
    <3>3. \A c \in gwForewarned' : gwPc[c] \in {"reading", "checked"} /\ StoppedBy(gwSwitch', gwReq[c])
      BY <2>1, <3>1 DEF StopAutonomy, CallsKept, Stopped
    <3> QED
      BY <3>2, <3>3 DEF CallsKept, Stopped
  <2>2. CASE SpendExpires
    BY <2>2 DEF SpendExpires, CallsKept, Stopped
  <2>3. CASE GatewayRestart
    BY <2>3 DEF GatewayRestart, CallsKept
  <2> QED
    BY <2>1, <2>2, <2>3
<1>3. WritesCaged'
  BY DEF StopAutonomy, SpendExpires, GatewayRestart, WritesCaged
<1> QED
  BY <1>1, <1>2, <1>3

LEMMA GatewaysStep == ASSUME GatewaysIInv, [GatewaysNext]_gwVars PROVE GatewaysIInv'
<1>1. CASE UNCHANGED gwVars
  BY <1>1 DEF gwVars, gwProcess, gwProvider, gwClock, GatewaysIInv, GatewaysTypeOK, CallsKept,
     Stopped, WritesCaged
<1>2. ASSUME NEW c \in Mutators, Simulated(c) \/ ReadBack(c) PROVE GatewaysIInv'
  BY <1>2, GatewayEndsStep DEF Simulated, ReadBack
<1>3. CASE GatewaysNext
  BY <1>2, <1>3, GatewayBeginStep, SnapshotStep, GoAheadStep, ValidateOnlyStep,
     AnsweredStep, EnvironmentStep DEF GatewaysNext
<1> QED
  BY <1>1, <1>3

\* The invariant of the gateways.
THEOREM GatewaysInductive == GatewaysSpec => []GatewaysIInv
<1> QED
  BY GatewaysInitIInv, GatewaysStep, PTL DEF GatewaysSpec

\* Of every write sent by a gateway: no stop that applies to it came while its call waited for
\* the reading or had still to look at the switch again (one that comes during the validate-only
\* request of a Google write is missed), its snapshot is stored, it has the approval it needs,
\* and its rollback would pass with no more than that.
THEOREM GatewayWritesCaged == GatewaysSpec => []WritesCaged
<1>1. GatewaysIInv => WritesCaged
  BY DEF GatewaysIInv
<1> QED
  BY <1>1, GatewaysInductive, PTL

-----------------------------------------------------------------------------
\* The operational actions.

LEMMA Entities ==
  {EntityOf(c) : c \in ResourceCollections} =
     {"campaign", "campaign_budget", "campaign_criterion", "ad_group", "ad_group_criterion",
      "ad_group_ad"}
<1>1. /\ EntityOf("campaigns") = "campaign" /\ EntityOf("campaignBudgets") = "campaign_budget"
      /\ EntityOf("campaignCriteria") = "campaign_criterion" /\ EntityOf("adGroups") = "ad_group"
      /\ EntityOf("adGroupCriteria") = "ad_group_criterion"
      /\ EntityOf("adGroupAds") = "ad_group_ad"
  BY DEF EntityOf
<1> QED
  BY <1>1 DEF ResourceCollections

\* The transport takes whatever an action compiles to.
LEMMA CompiledSendable ==
  ASSUME NEW a \in OperationalActions, Executes(a), Compiles(a)
  PROVE  Sendable(Compiled(a))
<1>1. a.target.account = OwnAccount /\ Parses(a) /\ a.target \in ResourceNames
      /\ a.type \in ActionTypes
  BY DEF Executes, OperationalActions
<1>2. CASE a.type \in Removals
  <2>1. /\ Compiled(a).entity = EntityOf(a.target.collection)
        /\ Compiled(a).operation = "remove" /\ Compiled(a).account = OwnAccount
    <3>1. a.type \notin Updates
      BY <1>2 DEF Removals, Updates
    <3> QED
      BY <1>1, <1>2, <3>1 DEF Compiled
  <2>2. Compiled(a).entity \in {EntityOf(c) : c \in ResourceCollections}
    BY <1>1, <2>1 DEF ResourceNames
  <2> QED
    BY <2>1, <2>2 DEF Sendable, RestTakes
<1>3. CASE a.type \in Updates
  <2>1. /\ a.type \notin Removals
        /\ Updated(a.type) \in {"ad_group_criterion", "ad_group_ad", "ad_group", "campaign"}
        /\ a.type \in {"ad_group_update", "campaign_update"} =>
             Updated(a.type) \in {"ad_group", "campaign"}
    BY <1>3 DEF Updates, Removals, Updated
  <2>2. /\ Compiled(a).entity = Updated(a.type) /\ Compiled(a).operation = "update"
        /\ Compiled(a).mask = Mask(a) /\ Compiled(a).account = OwnAccount
    BY <1>1, <1>3, <2>1 DEF Compiled
  <2>3. Mask(a) # {}
    BY <1>3 DEF Compiles
  <2>4. "name" \in Mask(a) => a.type \in {"ad_group_update", "campaign_update"}
    BY <1>1 DEF Mask, Parses
  <2> QED
    BY <2>1, <2>2, <2>3, <2>4, Entities DEF Sendable, RestTakes
<1>4. CASE a.type \in Creates
  <2> DEFINE made == Created(a.type)
  <2>1. a.type \notin Removals \cup Updates
    BY <1>4 DEF Creates, Updates, Removals
  <2>2. /\ Compiled(a).entity = made[1] /\ Compiled(a).operation = "create"
        /\ Compiled(a).bound = made[2] /\ Compiled(a).carries = made[3]
        /\ Compiled(a).account = OwnAccount
    BY <1>1, <2>1 DEF Compiled
  <2>3. made \in {<<"campaign_criterion", "campaign", "keyword">>,
                  <<"campaign_criterion", "campaign", "ad_schedule">>,
                  <<"campaign_criterion", "campaign", "location">>,
                  <<"campaign_criterion", "campaign", "language">>,
                  <<"ad_group_criterion", "ad_group", "keyword">>,
                  <<"ad_group_ad", "ad_group", "responsive_search_ad">>,
                  <<"ad_group", "campaign", "none">>,
                  <<"campaign", "none", "campaign_budget">>,
                  <<"campaign_budget", "none", "none">>}
    BY <1>4 DEF Creates, Created
  <2> HIDE DEF made
  <2> QED
    BY <2>2, <2>3, Entities DEF Sendable, RestTakes
<1> QED
  BY <1>1, <1>2, <1>3, <1>4 DEF ActionTypes

\* The gateway treats the request as the action declares it.
LEMMA ClassAsDeclared ==
  ASSUME NEW a \in OperationalActions
  PROVE  ClassOf(RequestOf(a)) = RequestOf(a).class
<1>1. a.type \in ActionTypes
  BY DEF OperationalActions
<1>2. CASE a.type \in MediumRisk
  <2>1. MutationOf(a.type) \in HigherRisk /\ MutationOf(a.type) \notin Protected
    BY <1>2 DEF MediumRisk, MutationOf, HigherRisk, Protected
  <2> QED
    BY <1>2, <2>1 DEF RequestOf, ClassOf, GoogleClass
<1>3. CASE a.type \notin MediumRisk
  <2>1. MutationOf(a.type) \in LowRisk
    BY <1>1, <1>3 DEF ActionTypes, Creates, Updates, Removals, MediumRisk, MutationOf, LowRisk
  <2> QED
    BY <1>3, <2>1, CatalogueFacts DEF RequestOf, ClassOf, GoogleClass
<1> QED
  BY <1>2, <1>3

\* What undoes an action is of a type that some action offers.
LEMMA InverseOffered ==
  ASSUME NEW type \in ActionTypes, type # "negative_remove"
  PROVE  \E t \in ActionTypes : MutationOf(t) = GoogleInverse(MutationOf(type))
<1>1. /\ \A t \in ActionTypes : t \in Updates \/ t = "negative_add" \/ t = "negative_remove" \/
            \E p \in {<<"keyword_create", "keyword_remove">>, <<"rsa_create", "rsa_remove">>,
                      <<"schedule_create", "schedule_remove">>,
                      <<"ad_group_create", "ad_group_remove">>,
                      <<"campaign_create", "campaign_remove">>,
                      <<"campaign_budget_create", "campaign_budget_remove">>,
                      <<"geo_add", "geo_remove">>, <<"language_add", "language_remove">>} :
               t \in {p[1], p[2]}
  BY DEF ActionTypes, Creates, Updates, Removals
<1>2. CASE type \in Updates
  <2>1. MutationOf(type) \in {"update_keyword", "update_rsa", "update_ad_group", "update_campaign"}
    BY <1>2 DEF Updates, MutationOf
  <2>2. GoogleInverse(MutationOf(type)) = MutationOf(type)
    <3>1. MutationOf(type) \notin UndoneByRemoval \cup Protected
      BY <2>1 DEF UndoneByRemoval, Protected
    <3>2. \A p \in UndoneBy : MutationOf(type) \notin {p[1], p[2]}
      BY <2>1 DEF UndoneBy
    <3> QED
      BY <3>1, <3>2 DEF GoogleInverse
  <2> QED
    BY <2>2
<1>3. CASE type = "negative_add"
  <2>1. GoogleInverse(MutationOf(type)) = "remove_agent_created_negative_keyword"
    BY <1>3 DEF MutationOf, GoogleInverse, UndoneByRemoval
  <2>2. MutationOf("negative_remove") = "remove_agent_created_negative_keyword"
        /\ "negative_remove" \in ActionTypes
    BY DEF MutationOf, ActionTypes, Removals
  <2> QED
    BY <2>1, <2>2
<1>4. ASSUME NEW made \in ActionTypes, NEW removed \in ActionTypes, type \in {made, removed},
             <<MutationOf(made), MutationOf(removed)>> \in UndoneBy
      PROVE  \E t \in ActionTypes : MutationOf(t) = GoogleInverse(MutationOf(type))
  <2>1. /\ GoogleInverse(MutationOf(made)) = MutationOf(removed)
        /\ GoogleInverse(MutationOf(removed)) = MutationOf(made)
    BY <1>4, PairInverse
  <2> QED
    BY <1>4, <2>1
<1>5. /\ <<MutationOf("keyword_create"), MutationOf("keyword_remove")>> \in UndoneBy
      /\ <<MutationOf("rsa_create"), MutationOf("rsa_remove")>> \in UndoneBy
      /\ <<MutationOf("schedule_create"), MutationOf("schedule_remove")>> \in UndoneBy
      /\ <<MutationOf("ad_group_create"), MutationOf("ad_group_remove")>> \in UndoneBy
  BY DEF MutationOf, UndoneBy
<1>6. /\ <<MutationOf("campaign_create"), MutationOf("campaign_remove")>> \in UndoneBy
      /\ <<MutationOf("campaign_budget_create"), MutationOf("campaign_budget_remove")>> \in UndoneBy
      /\ <<MutationOf("geo_add"), MutationOf("geo_remove")>> \in UndoneBy
      /\ <<MutationOf("language_add"), MutationOf("language_remove")>> \in UndoneBy
  BY DEF MutationOf, UndoneBy
<1>7. /\ "keyword_create" \in ActionTypes /\ "keyword_remove" \in ActionTypes
      /\ "rsa_create" \in ActionTypes /\ "rsa_remove" \in ActionTypes
      /\ "schedule_create" \in ActionTypes /\ "schedule_remove" \in ActionTypes
      /\ "ad_group_create" \in ActionTypes /\ "ad_group_remove" \in ActionTypes
      /\ "campaign_create" \in ActionTypes /\ "campaign_remove" \in ActionTypes
      /\ "campaign_budget_create" \in ActionTypes /\ "campaign_budget_remove" \in ActionTypes
      /\ "geo_add" \in ActionTypes /\ "geo_remove" \in ActionTypes
      /\ "language_add" \in ActionTypes /\ "language_remove" \in ActionTypes
  BY DEF ActionTypes, Creates, Removals
<1>8. CASE type \in {"keyword_create", "keyword_remove"}
  BY <1>4, <1>5, <1>7, <1>8
<1>9. CASE type \in {"rsa_create", "rsa_remove"}
  BY <1>4, <1>5, <1>7, <1>9
<1>10. CASE type \in {"schedule_create", "schedule_remove"}
  BY <1>4, <1>5, <1>7, <1>10
<1>11. CASE type \in {"ad_group_create", "ad_group_remove"}
  BY <1>4, <1>5, <1>7, <1>11
<1>12. CASE type \in {"campaign_create", "campaign_remove"}
  BY <1>4, <1>6, <1>7, <1>12
<1>13. CASE type \in {"campaign_budget_create", "campaign_budget_remove"}
  BY <1>4, <1>6, <1>7, <1>13
<1>14. CASE type \in {"geo_add", "geo_remove"}
  BY <1>4, <1>6, <1>7, <1>14
<1>15. CASE type \in {"language_add", "language_remove"}
  BY <1>4, <1>6, <1>7, <1>15
<1> QED
  BY <1>1, <1>2, <1>3, <1>8, <1>9, <1>10, <1>11, <1>12, <1>13, <1>14, <1>15

\* Every action the composition executes fits the gateway, whatever its target and status.
LEMMA ActionsFit ==
  ASSUME NEW a \in OperationalActions, Executes(a)
  PROVE  FitsGateway(a)
<1>1. a.type \in ActionTypes
  BY DEF OperationalActions
<1>2. InverseOf(RequestOf(a)).type = GoogleInverse(MutationOf(a.type))
  BY DEF InverseOf, RequestOf
<1> QED
  BY <1>1, <1>2, CompiledSendable, ClassAsDeclared, InverseOffered DEF FitsGateway

\* No request that went through the gateway is carried otherwise than it was judged.
THEOREM OperationsAreCarried == GatewaysSpec => []OperationsCarried
<1>1. OperationsCarried
  BY ActionsFit DEF OperationsCarried, Miscarried
<1> QED
  BY <1>1, PTL
================================================================================
