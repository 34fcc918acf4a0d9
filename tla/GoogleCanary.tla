---------------------------- MODULE GoogleCanary ----------------------------
(***************************************************************************)
(* The canary write to Google Ads (google-ads-canary-runner.js and         *)
(* google-ads-canary-core.js, started by google-ads-canary-preload.js).    *)
(*                                                                         *)
(* At the start of the process one run adds a synthetic negative keyword,  *)
(* reads it back and removes it.  Every await is a point where the         *)
(* provider, people and a restart of the container may come in between.    *)
(* A criterion is known by who made it: a run, or people.                  *)
(***************************************************************************)
EXTENDS Naturals

CONSTANT MaxCanaryRuns      \* bound: starts of the process with a canary mode

ASSUME MaxCanaryRunsAssumption == MaxCanaryRuns \in Nat \ {0}

CanaryRuns == 1..MaxCanaryRuns
People == 0                 \* maker of a criterion that no run made
Makers == CanaryRuns \cup {People}
NoMaker == MaxCanaryRuns + 1

VARIABLES
    (* the campaign at the provider *)
    criteria,        \* makers of the exact negatives with the canary's text
    adding,          \* runs whose ADD is on its way
    removing,        \* criteria whose REMOVE is on its way
    made,            \* runs whose ADD was carried out
    (* the process *)
    canaryPc, canaryRun, canaryMode,
    usedSteps,       \* steps of the authorization that are consumed
    named,           \* the provider answered with the name of the resource
    emergency,       \* attemptRollback has been entered
    target,          \* the criterion the rollback is about
    removed,         \* the gateway reported the removal VERIFIED
    canaryVerdict,
    (* the clock *)
    authExpired

canaryProvider == <<criteria, adding, removing, made>>
canaryProcess == <<canaryPc, canaryRun, canaryMode, usedSteps, named, emergency,
                   target, removed, canaryVerdict>>
canaryVars == <<canaryProvider, canaryProcess, authExpired>>

CanaryModes == {"VALIDATE_ONLY", "EXECUTE_CANARY", "NOT_AUTHORIZED"}
CanarySteps == {"ADD", "REMOVE"}

(* What has to hold before anything live is built: the two switches name    *)
(* their permission, the audit store opens on a mounted volume, and the     *)
(* authorization, customer and keyword are those of the canary.             *)
SwitchGates == {"google_kill_switch_off", "canary_kill_switch_off"}

AuditGates == {"integrity_key", "absolute_path", "directory", "durable_mount"}

TargetGates == {"customer", "campaign", "keyword"}

CanaryGates ==
    {"writes_enabled", "adapters", "read_back_limits"}
        \cup SwitchGates \cup AuditGates \cup TargetGates

CanaryTypeOK ==
    /\ criteria \subseteq Makers /\ removing \subseteq Makers
    /\ adding \subseteq CanaryRuns /\ made \subseteq CanaryRuns
    /\ canaryPc \in {"off", "read_before", "preflight", "execute_add", "post_add",
                     "poll_add", "check_add", "find", "execute_remove",
                     "post_remove", "poll_remove", "final", "ended"}
    /\ canaryRun \in 0..MaxCanaryRuns
    /\ canaryMode \in CanaryModes
    /\ usedSteps \subseteq CanarySteps
    /\ named \in BOOLEAN /\ emergency \in BOOLEAN /\ removed \in BOOLEAN
    /\ target \in Makers \cup {NoMaker}
    /\ canaryVerdict \in {"none", "BLOCKED", "READY", "VERIFIED", "ROLLED_BACK",
                          "CRITICAL", "EXCEPTION"}
    /\ authExpired \in BOOLEAN

CanaryInit ==
    /\ criteria \in SUBSET {People}
    /\ adding = {} /\ removing = {} /\ made = {}
    /\ canaryPc = "off" /\ canaryRun = 0 /\ canaryMode = "VALIDATE_ONLY"
    /\ usedSteps = {} /\ named = FALSE /\ emergency = FALSE
    /\ target = NoMaker /\ removed = FALSE /\ canaryVerdict = "none"
    /\ authExpired = FALSE

-----------------------------------------------------------------------------
(* The authorization: each step once, ADD before REMOVE, none after expiry. *)
CanConsume(step) ==
    /\ ~authExpired
    /\ step \notin usedSteps
    /\ step = "REMOVE" => "ADD" \in usedSteps

CanaryEnd(verdict) ==
    /\ canaryPc' = "ended" /\ canaryVerdict' = verdict
    /\ UNCHANGED <<canaryRun, canaryMode, usedSteps, named, emergency, target, removed>>

CanaryGoto(next) ==
    /\ canaryPc' = next
    /\ UNCHANGED <<canaryRun, canaryMode, usedSteps, named, emergency, target,
                   removed, canaryVerdict>>

(* The preload clears the mode in its own environment and starts one run; a *)
(* restarted container has the mode again.                                  *)
CanaryStart ==
    /\ canaryPc = "off" /\ canaryRun < MaxCanaryRuns
    /\ \E mode \in CanaryModes, closed \in {{}} \cup {{g} : g \in CanaryGates} :
          LET go == closed = {} /\ ~authExpired
          IN  /\ canaryPc' = IF go THEN "read_before" ELSE "ended"
              /\ canaryVerdict' = IF go THEN "none" ELSE "BLOCKED"
              /\ canaryMode' = mode
    /\ canaryRun' = canaryRun + 1
    /\ usedSteps' = {} /\ named' = FALSE /\ emergency' = FALSE
    /\ target' = NoMaker /\ removed' = FALSE
    /\ UNCHANGED <<canaryProvider, authExpired>>

(* A request can be built, or else throws, until its expiry has passed, one *)
(* for a REMOVE only with the name of a criterion.                          *)
RequestBuilds(step, c) == ~authExpired /\ (step = "REMOVE" => c \in Makers)

CanaryReadBefore ==
    /\ canaryPc = "read_before"
    /\ \/ criteria # {} /\ CanaryEnd("BLOCKED")
       \/ criteria = {} /\ ~RequestBuilds("ADD", NoMaker) /\ CanaryEnd("EXCEPTION")
       \/ criteria = {} /\ RequestBuilds("ADD", NoMaker) /\ CanaryGoto("preflight")
    /\ UNCHANGED <<canaryProvider, authExpired>>

CanaryPreflight ==
    /\ canaryPc = "preflight"
    /\ \/ canaryMode = "VALIDATE_ONLY" /\ CanaryEnd("READY")
       \/ canaryMode = "NOT_AUTHORIZED" /\ CanaryEnd("BLOCKED")
       \/ /\ canaryMode = "EXECUTE_CANARY" /\ ~CanConsume("ADD")
          /\ CanaryEnd("BLOCKED")
       \/ /\ canaryMode = "EXECUTE_CANARY" /\ CanConsume("ADD")
          /\ usedSteps' = usedSteps \cup {"ADD"} /\ canaryPc' = "execute_add"
          /\ UNCHANGED <<canaryRun, canaryMode, named, emergency, target, removed,
                         canaryVerdict>>
    /\ UNCHANGED <<canaryProvider, authExpired>>

(* gateway.execute: another preflight with its reading, then the one POST.  *)
CanaryExecuteAdd ==
    /\ canaryPc = "execute_add"
    /\ adding' = adding \cup {canaryRun}
    /\ CanaryGoto("post_add")
    /\ UNCHANGED <<criteria, removing, made, authExpired>>

CanaryAddAnswered ==
    /\ canaryPc = "post_add" /\ canaryRun \in made
    /\ named' = TRUE /\ canaryPc' = "poll_add"
    /\ UNCHANGED <<canaryRun, canaryMode, usedSteps, emergency, target, removed,
                   canaryVerdict, canaryProvider, authExpired>>

(* A refusal, a timeout or a lost answer; before the POST, a failed reading *)
(* or a block; after it, a failed reading or a change record that cannot be *)
(* stored.  The gateway's exception is caught and the rollback begins.      *)
CanaryAddUnverified ==
    /\ canaryPc \in {"execute_add", "post_add", "poll_add"}
    /\ canaryPc' = "find" /\ emergency' = TRUE
    /\ UNCHANGED <<canaryRun, canaryMode, usedSteps, named, target, removed,
                   canaryVerdict, canaryProvider, authExpired>>

(* Any criterion with the text counts, whoever made it.                      *)
CanaryPollAdd ==
    /\ canaryPc = "poll_add" /\ criteria # {}
    /\ CanaryGoto("check_add")
    /\ UNCHANGED <<canaryProvider, authExpired>>

(* Consume the REMOVE step for the resource and build the request for it.   *)
CanaryClaim(c) ==
    /\ target' = c
    /\ \/ /\ CanConsume("REMOVE") /\ RequestBuilds("REMOVE", c)
          /\ usedSteps' = usedSteps \cup {"REMOVE"}
          /\ canaryPc' = "execute_remove" /\ UNCHANGED canaryVerdict
       \/ /\ ~CanConsume("REMOVE")
          /\ canaryPc' = "ended" /\ canaryVerdict' = "CRITICAL"
          /\ UNCHANGED usedSteps

CanaryCheckAdd ==
    /\ canaryPc = "check_add"
    /\ \/ /\ criteria = {}
          /\ canaryPc' = "find" /\ emergency' = TRUE
          /\ UNCHANGED <<usedSteps, target, canaryVerdict>>
       \/ /\ criteria # {} /\ CanaryClaim(canaryRun)
          /\ emergency' = ~CanConsume("REMOVE")
    /\ UNCHANGED <<canaryRun, canaryMode, named, removed, canaryProvider, authExpired>>

\* Variant: the name the provider answered with is not preferred.
FindCreatedAny(c) == c \in criteria

(* findCreatedResource: the answered name, else the first row of a reading. *)
FindCreated(c) == IF named THEN c = canaryRun ELSE c \in criteria

CanaryFind ==
    /\ canaryPc = "find"
    /\ \/ \E c \in Makers : FindCreated(c) /\ CanaryClaim(c)
       \/ /\ ~named /\ criteria = {}
          /\ canaryPc' = "ended" /\ canaryVerdict' = "CRITICAL"
          /\ UNCHANGED <<usedSteps, target>>
    /\ UNCHANGED <<canaryRun, canaryMode, named, emergency, removed, canaryProvider,
                   authExpired>>

CanaryExecuteRemove ==
    /\ canaryPc = "execute_remove"
    /\ removing' = removing \cup {target}
    /\ CanaryGoto("post_remove")
    /\ UNCHANGED <<criteria, adding, made, authExpired>>

CanaryRemoveAnswered ==
    /\ canaryPc = "post_remove" /\ target \notin removing \cup criteria
    /\ CanaryGoto("poll_remove")
    /\ UNCHANGED <<canaryProvider, authExpired>>

CanaryRemoveUnverified ==
    /\ canaryPc \in {"execute_remove", "post_remove", "poll_remove"}
    /\ CanaryGoto("final")
    /\ UNCHANGED <<canaryProvider, authExpired>>

CanaryPollRemove ==
    /\ canaryPc = "poll_remove" /\ criteria = {}
    /\ removed' = TRUE /\ canaryPc' = "final"
    /\ UNCHANGED <<canaryRun, canaryMode, usedSteps, named, emergency, target,
                   canaryVerdict, canaryProvider, authExpired>>

\* Variant: a rollback that was tried counts, whatever came of it.
RollbackTried == target # NoMaker

RollbackVerified == removed /\ criteria = {}

CanaryFinal ==
    /\ canaryPc = "final" /\ ~emergency
    /\ CanaryEnd(IF RollbackVerified THEN "VERIFIED" ELSE "CRITICAL")
    /\ UNCHANGED <<canaryProvider, authExpired>>

CanaryEmergencyFinal ==
    /\ canaryPc = "final" /\ emergency
    /\ CanaryEnd(IF RollbackVerified THEN "ROLLED_BACK" ELSE "CRITICAL")
    /\ UNCHANGED <<canaryProvider, authExpired>>

(* A reading or an audit record outside the two guarded calls fails: the    *)
(* exception ends the run, and the preload logs it as BLOCKED, no writes.   *)
CanaryException ==
    /\ canaryPc \in {"read_before", "preflight", "check_add", "find", "final"}
    /\ CanaryEnd("EXCEPTION")
    /\ UNCHANGED <<canaryProvider, authExpired>>

CanaryRestart ==
    /\ canaryPc # "off" /\ canaryRun < MaxCanaryRuns
    /\ CanaryGoto("off")
    /\ UNCHANGED <<canaryProvider, authExpired>>

-----------------------------------------------------------------------------
(* Outside the process.                                                     *)

AddApplies(r) ==
    /\ r \in adding
    /\ adding' = adding \ {r} /\ made' = made \cup {r} /\ criteria' = criteria \cup {r}
    /\ UNCHANGED <<removing, canaryProcess, authExpired>>

AddRefused(r) ==
    /\ r \in adding
    /\ adding' = adding \ {r}
    /\ UNCHANGED <<criteria, removing, made, canaryProcess, authExpired>>

RemoveApplies(c) ==
    /\ c \in removing
    /\ removing' = removing \ {c} /\ criteria' = criteria \ {c}
    /\ UNCHANGED <<adding, made, canaryProcess, authExpired>>

PeopleEdit ==
    /\ \/ criteria' = criteria \cup {People}
       \/ \E c \in criteria : criteria' = criteria \ {c}
    /\ UNCHANGED <<adding, removing, made, canaryProcess, authExpired>>

CanaryExpires ==
    /\ ~authExpired /\ authExpired' = TRUE
    /\ UNCHANGED <<canaryProvider, canaryProcess>>

CanaryStep ==
    \/ CanaryStart \/ CanaryReadBefore \/ CanaryPreflight
    \/ CanaryExecuteAdd \/ CanaryAddAnswered \/ CanaryAddUnverified
    \/ CanaryPollAdd \/ CanaryCheckAdd \/ CanaryFind
    \/ CanaryExecuteRemove \/ CanaryRemoveAnswered \/ CanaryRemoveUnverified
    \/ CanaryPollRemove \/ CanaryFinal \/ CanaryEmergencyFinal \/ CanaryException
    \/ CanaryRestart

CanaryNext ==
    \/ CanaryStep
    \/ \E r \in CanaryRuns : AddApplies(r) \/ AddRefused(r)
    \/ \E c \in Makers : RemoveApplies(c)
    \/ PeopleEdit \/ CanaryExpires

CanarySpec == CanaryInit /\ [][CanaryNext]_canaryVars

-----------------------------------------------------------------------------
(* A run that ended while the keyword it added is active says so, however   *)
(* late the provider carried the ADD out: only a critical verdict, an       *)
(* exception, or a rollback that took a keyword of another maker for its    *)
(* own, can leave it behind.  VERIFIED never does.                          *)
NoSilentLeftover ==
    canaryPc = "ended" /\ canaryRun \in criteria =>
        \/ canaryVerdict \in {"CRITICAL", "EXCEPTION"}
        \/ canaryVerdict = "ROLLED_BACK" /\ target # canaryRun

(* "removes only the agent-created resource": a keyword this run did not    *)
(* make is removed only where the provider never named the run's own.       *)
RemovesItsOwn ==
    canaryPc \in {"execute_remove", "post_remove", "poll_remove", "final"} /\ target # canaryRun =>
        emergency /\ ~named

(* Why they hold: an ADD belongs to one run and is carried out once; the    *)
(* name the provider answers with is that of a criterion that was made; and *)
(* what a run that ended well says of its own keyword was read after the    *)
(* keyword had been made, so that it cannot come back.                      *)
CanaryKept ==
    /\ criteria \ {People} \subseteq made /\ adding \cap made = {}
    /\ \A r \in adding \cup made : r <= canaryRun
    /\ canaryPc # "off" => canaryRun \in CanaryRuns
    /\ named => canaryRun \in made
    /\ canaryPc \in {"read_before", "preflight", "execute_add"} => canaryRun \notin adding \cup made
    /\ canaryPc \in {"poll_add", "check_add"} => named
    /\ canaryPc = "find" => emergency
    /\ canaryPc \in {"execute_remove", "post_remove", "poll_remove", "final"} =>
          /\ target \in Makers
          /\ target = canaryRun => canaryRun \in made
          /\ ~emergency => target = canaryRun

VerdictKept ==
    canaryPc = "ended" =>
        /\ canaryVerdict # "none"
        /\ canaryVerdict \in {"BLOCKED", "READY"} => canaryRun \notin adding \cup made
        /\ canaryVerdict = "VERIFIED" => canaryRun \in made \ criteria
        /\ canaryVerdict = "ROLLED_BACK" /\ target = canaryRun => canaryRun \in made \ criteria
=============================================================================
