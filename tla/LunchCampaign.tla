--------------------------- MODULE LunchCampaign ---------------------------
(***************************************************************************)
(* The lunch campaign (google-ads-lunch-campaign.js), created by a task of *)
(* the autonomous runtime and watched by a daily one.                      *)
(*                                                                         *)
(* A create task reads the account, creates the campaign paused, verifies  *)
(* it and activates it; the lease of a task is shorter than these calls,   *)
(* so two create tasks may overlap.  The monitor runs once a day after the *)
(* hours in which ads are served and pauses the campaign at a threshold of *)
(* its cost.  Money is counted in units of EUR 5.                          *)
(***************************************************************************)
EXTENDS Naturals, FiniteSets

CONSTANTS
    Creators,          \* create tasks that may overlap
    Campaigns,         \* bound: campaigns of this name that can come to exist
    Threshold,         \* PAUSE_THRESHOLD_MICROS, 13 units
    DailyCeiling,      \* what the provider may spend in a day, 2 units
    TotalCap,          \* TOTAL_CAP_MICROS, 15 units
    LunchDays          \* days from START_DATE to END_DATE, 15

ASSUME LunchAssumption ==
    /\ Threshold \in Nat \ {0} /\ DailyCeiling \in Nat /\ TotalCap \in Nat /\ LunchDays \in Nat
    /\ Threshold + DailyCeiling <= TotalCap

NoCampaign == "no campaign"
ASSUME CampaignAssumption == NoCampaign \notin Campaigns

VARIABLES
    (* the account at the provider *)
    status,        \* of every campaign: "absent", "PAUSED", "ENABLED", "REMOVED"
    drift,         \* people changed the budget or the dates
    cost,
    creating, enabling,   \* campaigns whose creation, activation is on its way
    pausing,
    (* the tasks *)
    creatorPc, creatorOf,
    monitorPc, monitorOf,
    (* the outside *)
    writesOpen,    \* GOOGLE_ADS_WRITE_KILL_SWITCH = false
    day, serving, spent, monitored,
    missed         \* some day ended without the monitor having completed

lunchProvider == <<status, drift, cost, creating, enabling, pausing>>
lunchCreators == <<creatorPc, creatorOf>>
lunchMonitor == <<monitorPc, monitorOf>>
lunchOutside == <<writesOpen, day, serving, spent, monitored, missed>>
lunchVars == <<lunchProvider, lunchCreators, lunchMonitor, lunchOutside>>

LunchTypeOK ==
    /\ status \in [Campaigns -> {"absent", "PAUSED", "ENABLED", "REMOVED"}]
    /\ drift \subseteq Campaigns
    /\ cost \in [Campaigns -> Nat]
    /\ creating \subseteq Campaigns /\ enabling \subseteq Campaigns
    /\ pausing \subseteq Campaigns
    /\ creatorPc \in [Creators -> {"idle", "create", "created", "verify", "enable",
                                   "enabled"}]
    /\ creatorOf \in [Creators -> Campaigns \cup {NoCampaign}]
    /\ \A w \in Creators : creatorPc[w] \in {"idle", "create"} \/ creatorOf[w] \in Campaigns
    /\ monitorPc \in {"idle", "pause", "paused"}
    /\ monitorOf \in Campaigns \cup {NoCampaign}
    /\ monitorPc = "idle" \/ monitorOf \in Campaigns
    /\ writesOpen \in BOOLEAN /\ serving \in BOOLEAN
    /\ monitored \in BOOLEAN /\ missed \in BOOLEAN
    /\ day \in 1..(LunchDays + 1) /\ spent \in [Campaigns -> 0..DailyCeiling]

LunchInit ==
    /\ status = [c \in Campaigns |-> "absent"] /\ drift = {}
    /\ cost = [c \in Campaigns |-> 0]
    /\ creating = {} /\ enabling = {} /\ pausing = {}
    /\ creatorPc = [w \in Creators |-> "idle"]
    /\ creatorOf = [w \in Creators |-> NoCampaign]
    /\ monitorPc = "idle" /\ monitorOf = NoCampaign
    /\ writesOpen \in BOOLEAN
    /\ day = 1 /\ serving = TRUE /\ spent = [c \in Campaigns |-> 0]
    /\ monitored = FALSE /\ missed = FALSE

Existing == {c \in Campaigns : status[c] \in {"PAUSED", "ENABLED"}}

\* Variant: the first row of several is taken.
ReadFirst(c) == c \in Existing

(* readCampaign returns the campaign of the name; two of them are an error. *)
ReadsOne(c) == Existing = {c}

-----------------------------------------------------------------------------
(* createLunchCampaign.                                                     *)

CreatorGoto(w, next) ==
    /\ creatorPc' = [creatorPc EXCEPT ![w] = next]
    /\ UNCHANGED <<lunchProvider, creatorOf, lunchMonitor, lunchOutside>>

(* Nothing exists and the kill switch is open: an existing campaign ends    *)
(* the task, drifted or not, and so does an error of any call.              *)
CreateRead(w) ==
    /\ creatorPc[w] = "idle" /\ Existing = {} /\ writesOpen
    /\ CreatorGoto(w, "create")

(* The operations are atomic: budget, campaign, ad group and criteria.      *)
CreateSend(w) ==
    /\ creatorPc[w] = "create"
    /\ \E c \in Campaigns :
          /\ status[c] = "absent" /\ c \notin creating
          /\ creating' = creating \cup {c}
          /\ creatorOf' = [creatorOf EXCEPT ![w] = c]
    /\ creatorPc' = [creatorPc EXCEPT ![w] = "created"]
    /\ UNCHANGED <<status, drift, cost, enabling, pausing, lunchMonitor, lunchOutside>>

(* The answer does not carry the campaign: it is read again by name, and    *)
(* status, budget and dates of this one row are what verifyCreated looks at;*)
(* with others the task ends.                                               *)
CreateReadBack(w) ==
    /\ creatorPc[w] = "created" /\ creatorOf[w] \notin creating
    /\ status[creatorOf[w]] # "absent"
    /\ \E c \in Campaigns :
          /\ ReadsOne(c) /\ status[c] = "PAUSED" /\ c \notin drift
          /\ creatorOf' = [creatorOf EXCEPT ![w] = c]
    /\ creatorPc' = [creatorPc EXCEPT ![w] = "verify"]
    /\ UNCHANGED <<lunchProvider, lunchMonitor, lunchOutside>>

(* Its ad group, keywords, hours, ad and place are read and are as built.   *)
VerifyCreated(w) == creatorPc[w] = "verify" /\ CreatorGoto(w, "enable")

ActivateSend(w) ==
    /\ creatorPc[w] = "enable"
    /\ enabling' = enabling \cup {creatorOf[w]}
    /\ creatorPc' = [creatorPc EXCEPT ![w] = "enabled"]
    /\ UNCHANGED <<status, drift, cost, creating, pausing, creatorOf, lunchMonitor,
                   lunchOutside>>

(* The task ends: done, blocked, reconciliation required or an exception; a *)
(* restart ends it too.  Requests under way stay so.                        *)
CreatorEnds(w) ==
    /\ creatorPc[w] # "idle"
    /\ creatorPc' = [creatorPc EXCEPT ![w] = "idle"]
    /\ creatorOf' = [creatorOf EXCEPT ![w] = NoCampaign]
    /\ UNCHANGED <<lunchProvider, lunchMonitor, lunchOutside>>

-----------------------------------------------------------------------------
(* monitorLunchCampaign, once the ads of the day have been served.          *)

\* Variant: the pause waits for the whole cap.
NeedsPauseAtCap(c) == day > LunchDays \/ cost[c] >= TotalCap

NeedsPause(c) == day > LunchDays \/ cost[c] >= Threshold

MonitorRead ==
    /\ monitorPc = "idle" /\ ~serving /\ ~monitored
    /\ \E c \in Campaigns :
          /\ ReadsOne(c)
          /\ IF NeedsPause(c) /\ status[c] = "ENABLED"
             THEN /\ writesOpen
                  /\ monitorPc' = "pause" /\ monitorOf' = c
                  /\ UNCHANGED monitored
             ELSE monitored' = TRUE /\ UNCHANGED <<monitorPc, monitorOf>>
    /\ UNCHANGED <<lunchProvider, lunchCreators, writesOpen, day, serving, spent, missed>>

MonitorSend ==
    /\ monitorPc = "pause"
    /\ pausing' = pausing \cup {monitorOf} /\ monitorPc' = "paused"
    /\ UNCHANGED <<status, drift, cost, creating, enabling, lunchCreators, monitorOf,
                   lunchOutside>>

MonitorReadBack ==
    /\ monitorPc = "paused" /\ monitorOf \notin pausing
    /\ \E c \in Campaigns : ReadsOne(c) /\ status[c] = "PAUSED"
    /\ monitored' = TRUE
    /\ monitorPc' = "idle" /\ monitorOf' = NoCampaign
    /\ UNCHANGED <<lunchProvider, lunchCreators, writesOpen, day, serving, spent, missed>>

MonitorFails ==
    /\ monitorPc # "idle"
    /\ monitorPc' = "idle" /\ monitorOf' = NoCampaign
    /\ UNCHANGED <<lunchProvider, lunchCreators, lunchOutside>>

-----------------------------------------------------------------------------
(* The provider, people and the calendar.                                   *)

CreationApplies(c) ==
    /\ c \in creating
    /\ creating' = creating \ {c} /\ status' = [status EXCEPT ![c] = "PAUSED"]
    /\ UNCHANGED <<drift, cost, enabling, pausing, lunchCreators, lunchMonitor,
                   lunchOutside>>

ActivationApplies(c) ==
    /\ c \in enabling
    /\ enabling' = enabling \ {c}
    /\ status' = [status EXCEPT ![c] = IF @ = "PAUSED" THEN "ENABLED" ELSE @]
    /\ UNCHANGED <<drift, cost, creating, pausing, lunchCreators, lunchMonitor,
                   lunchOutside>>

PauseApplies(c) ==
    /\ c \in pausing
    /\ pausing' = pausing \ {c}
    /\ status' = [status EXCEPT ![c] = IF @ = "ENABLED" THEN "PAUSED" ELSE @]
    /\ UNCHANGED <<drift, cost, creating, enabling, lunchCreators, lunchMonitor,
                   lunchOutside>>

(* A request that is refused: an existing name, a validation, an outage.    *)
RequestRefused(c) ==
    /\ c \in creating \cup enabling \cup pausing
    /\ creating' = creating \ {c} /\ enabling' = enabling \ {c}
    /\ pausing' = pausing \ {c}
    /\ UNCHANGED <<status, drift, cost, lunchCreators, lunchMonitor, lunchOutside>>

PeopleChange(c) ==
    /\ c \in Existing
    /\ \/ drift' = drift \cup {c} /\ UNCHANGED status
       \/ status' = [status EXCEPT ![c] = "REMOVED"] /\ UNCHANGED drift
    /\ UNCHANGED <<cost, creating, enabling, pausing, lunchCreators, lunchMonitor,
                   lunchOutside>>

Spend(c) ==
    /\ status[c] = "ENABLED" /\ serving /\ day <= LunchDays
    /\ spent[c] < DailyCeiling
    /\ cost' = [cost EXCEPT ![c] = @ + 1] /\ spent' = [spent EXCEPT ![c] = @ + 1]
    /\ UNCHANGED <<status, drift, creating, enabling, pausing, lunchCreators,
                   lunchMonitor, writesOpen, day, serving, monitored, missed>>

(* Calls take seconds and tasks minutes: none lasts from one part of the day *)
(* to the next.                                                              *)
NothingUnderWay ==
    /\ creating \cup enabling \cup pausing = {}
    /\ \A w \in Creators : creatorPc[w] = "idle"
    /\ monitorPc = "idle"

HoursEnd ==
    /\ serving /\ NothingUnderWay /\ serving' = FALSE
    /\ UNCHANGED <<lunchProvider, lunchCreators, lunchMonitor, writesOpen, day, spent,
                   monitored, missed>>

NextDay ==
    /\ ~serving /\ NothingUnderWay /\ day <= LunchDays
    /\ day' = day + 1 /\ serving' = TRUE /\ spent' = [c \in Campaigns |-> 0]
    /\ monitored' = FALSE
    /\ missed' = (missed \/ ~monitored)
    /\ UNCHANGED <<lunchProvider, lunchCreators, lunchMonitor, writesOpen>>

SwitchWrites ==
    /\ writesOpen' = ~writesOpen
    /\ UNCHANGED <<lunchProvider, lunchCreators, lunchMonitor, day, serving, spent,
                   monitored, missed>>

LunchNext ==
    \/ \E w \in Creators :
          \/ CreateRead(w) \/ CreateSend(w) \/ CreateReadBack(w)
          \/ VerifyCreated(w) \/ ActivateSend(w) \/ CreatorEnds(w)
    \/ MonitorRead \/ MonitorSend \/ MonitorReadBack \/ MonitorFails
    \/ \E c \in Campaigns :
          \/ CreationApplies(c) \/ ActivationApplies(c) \/ PauseApplies(c)
          \/ RequestRefused(c) \/ PeopleChange(c) \/ Spend(c)
    \/ HoursEnd \/ NextDay \/ SwitchWrites

LunchSpec == LunchInit /\ [][LunchNext]_lunchVars

-----------------------------------------------------------------------------
(* However the create tasks overlap, and however late a creation is carried *)
(* out, at most one campaign of the name is ever active.                    *)
OneLunchActive ==
    \A c, d \in Campaigns : status[c] = "ENABLED" /\ status[d] = "ENABLED" => c = d

(* "Pausing at EUR 65 leaves one full EUR 10 daily-overdelivery envelope    *)
(* below the principal-approved EUR 75 ceiling": as long as the monitor has *)
(* completed on every day so far, no campaign costs more than the cap.      *)
LunchCapHeld == ~missed => \A c \in Campaigns : cost[c] <= TotalCap

(* What strengthens OneLunchActive: whatever is active, is to be activated  *)
(* or was verified for it is one campaign, and none of these is still to    *)
(* be created.                                                              *)
Chosen(c) ==
    \/ status[c] = "ENABLED" \/ c \in enabling
    \/ \E w \in Creators : creatorPc[w] \in {"verify", "enable"} /\ creatorOf[w] = c
ChosenOnce ==
    /\ \A c, d \in Existing : Chosen(c) /\ Chosen(d) => c = d
    /\ \A c \in Campaigns : Chosen(c) => status[c] # "absent"
    /\ \A c \in creating : status[c] = "absent"

(* What strengthens LunchCapHeld: while a creation may be under way every   *)
(* existing campaign is of this part of the day, the monitor works only out *)
(* of hours, and after a day that was monitored an active campaign is below *)
(* the threshold.                                                           *)
Creating ==
    creating # {} \/ enabling # {} \/ \E w \in Creators : creatorPc[w] # "idle"
CostKept ==
    /\ \A c \in Campaigns : spent[c] <= cost[c]
    /\ \A c \in Campaigns : status[c] = "absent" => cost[c] = 0
    /\ Creating => \A c \in Existing : cost[c] = IF serving THEN spent[c] ELSE 0
    /\ serving => ~monitored /\ monitorPc = "idle"
    /\ \A c \in Campaigns : ~missed /\ status[c] = "ENABLED" =>
          /\ serving => cost[c] < Threshold + spent[c]
          /\ monitored => cost[c] < Threshold
=============================================================================
