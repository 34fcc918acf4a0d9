------------------------------- MODULE MetaDraft -------------------------------
(***************************************************************************)
(* The paused reservation draft at Meta: meta-safe-create-route.js,        *)
(* meta-safe-orchestrator.js, meta-draft-recovery.js and the inspection in *)
(* meta-real-preflight.js.                                                 *)
(*                                                                         *)
(* A request looks for the objects of an earlier attempt by their names,   *)
(* posts the stages that are missing and reads the chain back.  The start  *)
(* times are of one day, so every draft has the same object names; the     *)
(* lock of an operation is per start time and in memory.                   *)
(*                                                                         *)
(* The other way to the draft is the one-shot of a starting server         *)
(* (server.js, meta-paused-draft.js): one attempt per process, with no     *)
(* lock, that goes on only from a paused campaign without ad sets.  A      *)
(* behaviour has requests of one kind.  The model is of server.js with its *)
(* routes; bootstrap.js, which package.json starts, registers the route    *)
(* where it never sees a body and blanks META_PAUSED_DRAFT_ONE_SHOT, so a  *)
(* server started that way makes no draft.                                 *)
(***************************************************************************)
EXTENDS Naturals, FiniteSets

CONSTANTS
    MaxRequests,     \* bound: requests to the route
    StartTimes       \* start times of one day

ASSUME MetaDraftAssumption == MaxRequests \in Nat \ {0}

Requests == 1..MaxRequests
Stages == {"campaign", "creative", "adset", "ad"}
Objects == Stages \X Requests         \* by stage and by the request that posted it
NoId == 0

VARIABLES
    objects, activated, posting,      \* at Meta; posting: POSTs on their way
    draftPc, startOf, ids, draftAnswer,
    draftKind,                        \* "route" or "oneshot"
    oneShotStarted,                   \* metaPausedDraftOneShotStarted
    held,                             \* inFlightOperations
    late                              \* history: made after their request had ended

metaProvider == <<objects, activated, posting, late>>
draftServer == <<startOf, draftKind, oneShotStarted>>
draftVars == <<metaProvider, draftPc, draftServer, ids, draftAnswer, held>>

DraftTypeOK ==
    /\ objects \subseteq Objects /\ activated \subseteq objects
    /\ posting \subseteq Objects /\ late \subseteq objects
    /\ draftPc \in [Requests -> 
          Stages \cup {"new", "prepare", "discover", "duplicates", "adsets", "post", "wait",
                      "verify", "reverify", "ended"}]
    /\ startOf \in [Requests -> StartTimes]
    /\ ids \in [Requests -> [Stages -> Requests \cup {NoId}]]
    /\ draftAnswer \in [Requests -> {"none", "duplicate", "blocked", "failed", "created"}]
    /\ held \subseteq StartTimes
    /\ draftKind \in {"route", "oneshot"} /\ oneShotStarted \in BOOLEAN

DraftInit ==
    /\ objects = {} /\ activated = {} /\ posting = {} /\ late = {}
    /\ draftPc = [r \in Requests |-> "new"]
    /\ startOf \in [Requests -> StartTimes]
    /\ draftKind \in {"route", "oneshot"} /\ oneShotStarted = FALSE
    /\ draftKind = "oneshot" => \A r, q \in Requests : startOf[r] = startOf[q]
    /\ ids = [r \in Requests |-> [s \in Stages |-> NoId]]
    /\ draftAnswer = [r \in Requests |-> "none"]
    /\ held = {}

DraftGoto(r, pc) ==
    /\ draftPc' = [draftPc EXCEPT ![r] = pc]
    /\ UNCHANGED <<draftServer, draftAnswer, held>>

(* Every way out of the handler goes through its finally block.             *)
DraftEnd(r, answer) ==
    /\ draftPc' = [draftPc EXCEPT ![r] = "ended"]
    /\ draftAnswer' = [draftAnswer EXCEPT ![r] = answer]
    /\ held' = held \ {startOf[r]}
    /\ UNCHANGED <<draftServer, ids>>

-----------------------------------------------------------------------------
\* Variant: the set of operations in flight is never looked at.
OperationAlways(s) == TRUE

OperationFree(s) == s \notin held

(* A token may come in two fields, and then it has to be the same.          *)
ApprovalValid(canonical, legacy) ==
    /\ canonical # "none" /\ legacy # "none" => canonical = legacy
    /\ "approved" \in {canonical, legacy}

DraftRequest(r) ==
    /\ draftPc[r] = "new" /\ draftKind = "route"
    /\ \A before \in 1..(r - 1) : draftPc[before] # "new"   \* numbered as they come
    /\ \/ \E canonical, legacy \in {"approved", "other", "none"}, stopped \in BOOLEAN :
             /\ ~ApprovalValid(canonical, legacy) \/ stopped
             /\ draftPc' = [draftPc EXCEPT ![r] = "ended"]
             /\ draftAnswer' = [draftAnswer EXCEPT ![r] = "blocked"]
             /\ UNCHANGED held
       \/ /\ OperationFree(startOf[r])
          /\ held' = held \cup {startOf[r]}
          /\ draftPc' = [draftPc EXCEPT ![r] = "prepare"]
          /\ UNCHANGED draftAnswer
       \/ /\ ~OperationFree(startOf[r])
          /\ draftPc' = [draftPc EXCEPT ![r] = "ended"]
          /\ draftAnswer' = [draftAnswer EXCEPT ![r] = "duplicate"]
          /\ UNCHANGED held
    /\ UNCHANGED <<metaProvider, draftServer, ids>>

(* runMetaPausedDraftOneShot: not once the configured start has passed.     *)
OneShotStart(r) ==
    /\ draftPc[r] = "new" /\ draftKind = "oneshot" /\ ~oneShotStarted
    /\ \A before \in 1..(r - 1) : draftPc[before] # "new"
    /\ oneShotStarted' = TRUE
    /\ \/ draftPc' = [draftPc EXCEPT ![r] = "discover"] /\ UNCHANGED draftAnswer
       \/ draftPc' = [draftPc EXCEPT ![r] = "ended"]
          /\ draftAnswer' = [draftAnswer EXCEPT ![r] = "blocked"]
    /\ UNCHANGED <<metaProvider, startOf, draftKind, ids, held>>

(* What the reading of the account says of its time zone.                   *)
AccountZones == {"unknown", "business", "other"}

(* The hours of the draft are of the business; in another time zone they    *)
(* are converted, where the conversion is safe.                             *)
ScheduleSafe(zone, convertible) == zone = "business" \/ (zone = "other" /\ convertible)

(* Configuration, write gate, start time and the account.  What else the    *)
(* reading of the account objects to, its currency, does not block.         *)
DraftPrepare(r) ==
    /\ draftPc[r] = "prepare"
    /\ \/ \E zone \in AccountZones, convertible \in BOOLEAN :
             IF ScheduleSafe(zone, convertible)
             THEN DraftGoto(r, "discover") /\ UNCHANGED ids
             ELSE DraftEnd(r, "blocked")
       \/ DraftEnd(r, "blocked")
    /\ UNCHANGED metaProvider

(* What answered with the account or its page; a reading that fails counts  *)
(* as one that shows nothing, but the promotable pages, when they answer,   *)
(* are searched together with the owned ones.                               *)
Collections == {"owned_instagram", "owned_page", "promote_answers", "promoted_page",
                "account_instagram", "reel"}

FindsAccount(seen) ==
    LET owned == "owned_instagram" \in seen
        promoted == /\ "promote_answers" \in seen
                    /\ seen \cap {"owned_page", "promoted_page"} # {}
    IN  \/ owned /\ ("owned_page" \in seen \/ promoted)
        \/ ~owned /\ promoted
        \/ ~owned /\ ~promoted /\ {"account_instagram", "owned_page"} \subseteq seen

(* The reel on one of the first pages of the account's media.               *)
FindsReel(seen) == "reel" \in seen

(* buildPausedReservationDraft throws on values it does not accept.         *)
DraftBuild(r) ==
    \/ DraftGoto(r, IF draftKind = "route" THEN "campaign" ELSE "duplicates") /\ UNCHANGED ids
    \/ DraftEnd(r, "failed")

DraftDiscover(r) ==
    /\ draftPc[r] = "discover"
    /\ \E seen \in SUBSET Collections :
          IF FindsAccount(seen) /\ FindsReel(seen) THEN DraftBuild(r)
          ELSE DraftEnd(r, "failed")
    /\ UNCHANGED metaProvider

(* createOrResumePausedReservationDraft: one paused campaign of the name is *)
(* resumed, and only when it has no ad set.                                 *)
OneShotFind(r) ==
    LET found == {m \in Requests : <<"campaign", m>> \in objects}
    IN  /\ draftPc[r] = "duplicates"
        /\ \/ found = {} /\ DraftGoto(r, "post") /\ UNCHANGED ids
           \/ \E m \in found :
                 /\ found = {m} /\ <<"campaign", m>> \notin activated
                 /\ ids' = [ids EXCEPT ![r]["campaign"] = m]
                 /\ DraftGoto(r, "adsets")
           \/ /\ Cardinality(found) > 1 \/ \E m \in found : <<"campaign", m>> \in activated
              /\ DraftEnd(r, "blocked")
        /\ UNCHANGED metaProvider

OneShotAdSets(r) ==
    /\ draftPc[r] = "adsets"
    /\ IF \E m \in Requests : /\ <<"adset", m>> \in objects
                               /\ ids[m]["campaign"] = ids[r]["campaign"]
       THEN DraftEnd(r, "blocked")
       ELSE DraftGoto(r, "post") /\ UNCHANGED ids
    /\ UNCHANGED metaProvider

(* What a collection holds under the draft's name, or under the parent.     *)
InCollection(r, stage) ==
    {m \in Requests :
        /\ <<stage, m>> \in objects
        /\ stage = "adset" => ids[m]["campaign"] = ids[r]["campaign"]
        /\ stage = "ad" => ids[m]["adset"] = ids[r]["adset"]}

AfterFind(stage, id, campaign) ==
    CASE stage = "campaign" -> "creative"
      [] stage = "creative" -> IF campaign = NoId THEN "post" ELSE "adset"
      [] stage = "adset" -> IF id = NoId THEN "post" ELSE "ad"
      [] OTHER -> "post"

(* Creatives have no status; an existing ad brings its creative with it.    *)
Reusable(r, stage, m) ==
    /\ stage # "creative" => <<stage, m>> \notin activated
    /\ stage = "ad" /\ ids[r]["creative"] # NoId =>
          ids[m]["creative"] = ids[r]["creative"]

DraftFind(r) ==
    LET stage == draftPc[r]
        found == InCollection(r, stage)
    IN  /\ stage \in Stages
        /\ \/ /\ found = {}
              /\ DraftGoto(r, AfterFind(stage, NoId, ids[r]["campaign"]))
              /\ UNCHANGED ids
           \/ \E m \in found :
                 /\ found = {m} /\ Reusable(r, stage, m)
                 /\ ids' = [ids EXCEPT ![r][stage] = m,
                        ![r]["creative"] = IF stage = "creative" THEN m
                                           ELSE IF stage = "ad" THEN ids[m]["creative"]
                                           ELSE @]
                 /\ DraftGoto(r, AfterFind(stage, m, ids[r]["campaign"]))
           \/ /\ \/ Cardinality(found) > 1
                 \/ \E m \in found : ~Reusable(r, stage, m)
              /\ DraftEnd(r, "blocked")
        /\ UNCHANGED metaProvider

(* resumePausedReservationDraft: the first stage that is missing.           *)
Missing(r) == {s \in Stages : ids[r][s] = NoId}

FirstMissing(r) ==
    IF "campaign" \in Missing(r) THEN "campaign"
    ELSE IF "adset" \in Missing(r) THEN "adset"
    ELSE IF "creative" \in Missing(r) THEN "creative" ELSE "ad"

DraftPost(r) ==
    /\ draftPc[r] = "post"
    /\ \/ /\ Missing(r) # {}
          /\ posting' = posting \cup {<<FirstMissing(r), r>>}
          /\ DraftGoto(r, "wait")
       \/ /\ Missing(r) = {}
          /\ DraftGoto(r, "verify") /\ UNCHANGED posting
    /\ UNCHANGED <<objects, activated, late, ids>>

DraftPosted(r) ==
    /\ draftPc[r] = "wait" /\ <<FirstMissing(r), r>> \in objects
    /\ ids' = [ids EXCEPT ![r][FirstMissing(r)] = r]
    /\ DraftGoto(r, "post")
    /\ UNCHANGED metaProvider

(* The route reads the chain back and corrects nothing; the one-shot pauses *)
(* what is not paused, and reads again.                                     *)
ActiveOf(r) == {o \in activated : \E s \in Stages \ {"creative"} : o = <<s, ids[r][s]>>}

DraftVerify(r) ==
    /\ \/ draftPc[r] = "verify" /\ (draftKind = "route" \/ ActiveOf(r) = {})
       \/ draftPc[r] = "reverify"
    /\ DraftEnd(r, IF ActiveOf(r) = {} THEN "created" ELSE "failed")
    /\ UNCHANGED metaProvider

EmergencyPause(r) ==
    /\ draftPc[r] = "verify" /\ draftKind = "oneshot" /\ ActiveOf(r) # {}
    /\ \/ activated' = activated \ ActiveOf(r) /\ DraftGoto(r, "reverify") /\ UNCHANGED ids
       \/ \E some \in SUBSET ActiveOf(r) :
             activated' = activated \ some /\ DraftEnd(r, "failed")
    /\ UNCHANGED <<objects, posting, late>>

(* A call throws, or its answer is lost: 502, whatever became of the POST.  *)
DraftFails(r) ==
    /\ draftPc[r] \in Stages \cup {"prepare", "duplicates", "adsets", "wait", "verify", "reverify"}
    /\ DraftEnd(r, "failed")
    /\ UNCHANGED metaProvider

(* The process is replaced: the requests are gone and so are the locks.     *)
DraftRestart ==
    /\ held # {} \/ oneShotStarted
    /\ draftPc' = [r \in Requests |-> IF draftPc[r] = "new" THEN "new" ELSE "ended"]
    /\ held' = {} /\ oneShotStarted' = FALSE
    /\ UNCHANGED <<metaProvider, startOf, draftKind, ids, draftAnswer>>

-----------------------------------------------------------------------------
(* At Meta.                                                                 *)
ObjectMade(o) ==
    /\ o \in posting
    /\ posting' = posting \ {o} /\ objects' = objects \cup {o}
    /\ late' = IF draftPc[o[2]] = "ended" THEN late \cup {o} ELSE late
    /\ UNCHANGED <<activated, draftPc, draftServer, ids, draftAnswer, held>>

PostRefused(o) ==
    /\ o \in posting
    /\ posting' = posting \ {o}
    /\ UNCHANGED <<objects, activated, late, draftPc, draftServer, ids, draftAnswer, held>>

PeopleSwitch(o) ==
    /\ o \in objects /\ o[1] # "creative"
    /\ activated' = IF o \in activated THEN activated \ {o} ELSE activated \cup {o}
    /\ UNCHANGED <<objects, posting, late, draftPc, draftServer, ids, draftAnswer, held>>

DraftNext ==
    \/ \E r \in Requests :
          \/ DraftRequest(r) \/ DraftPrepare(r) \/ DraftDiscover(r) \/ DraftFind(r)
          \/ OneShotStart(r) \/ OneShotFind(r) \/ OneShotAdSets(r) \/ EmergencyPause(r)
          \/ DraftPost(r) \/ DraftPosted(r) \/ DraftVerify(r) \/ DraftFails(r)
    \/ DraftRestart
    \/ \E o \in Objects : ObjectMade(o) \/ PostRefused(o) \/ PeopleSwitch(o)

DraftSpec == DraftInit /\ [][DraftNext]_draftVars

-----------------------------------------------------------------------------
SameParent(a, b) ==
    /\ a[1] = b[1]
    /\ a[1] = "adset" => ids[a[2]]["campaign"] = ids[b[2]]["campaign"]
    /\ a[1] = "ad" => ids[a[2]]["adset"] = ids[b[2]]["adset"]

(* However often a draft is requested, after failures, lost answers and     *)
(* restarts, its chain has no stage twice.  The one exception is a POST     *)
(* that Meta carries out after the request that sent it has ended: nothing  *)
(* in the account tells the next request of it.  Requests with different    *)
(* start times of one day are not covered by the lock.                      *)
StageMadeOnce ==
    \A a, b \in objects :
        a # b /\ startOf[a[2]] = startOf[b[2]] /\ SameParent(a, b) =>
            a \in late \/ b \in late

(* Why it holds.  Two requests for one start time are never under way       *)
(* together, by the lock or because a process starts the one-shot once.     *)
Active(r) == draftPc[r] \notin {"new", "ended"}

OneActive ==
    /\ \A r, q \in Requests : Active(r) /\ Active(q) /\ startOf[r] = startOf[q] => r = q
    /\ draftKind = "route" => \A r \in Requests : Active(r) => startOf[r] \in held
    /\ draftKind = "oneshot" =>
          /\ \A r, q \in Requests : startOf[r] = startOf[q]
          /\ \A r \in Requests : Active(r) => oneShotStarted
    /\ \A r \in Requests :
          /\ draftPc[r] \in Stages => draftKind = "route"
          /\ draftPc[r] \in {"duplicates", "adsets"} => draftKind = "oneshot"

(* A POST on its way is of the stage its request waits for, or of a request *)
(* that has ended.                                                          *)
PostsKept ==
    /\ \A o \in posting \cup objects :
          draftPc[o[2]] \in {"post", "wait", "verify", "reverify", "ended"}
    /\ \A o \in posting : draftPc[o[2]] # "ended" =>
          draftPc[o[2]] = "wait" /\ o[1] = FirstMissing(o[2]) /\ o[1] \in Missing(o[2])
    /\ posting \cap objects = {}
    /\ \A o \in objects : o[1] \in Missing(o[2]) =>
          \/ draftPc[o[2]] = "ended"
          \/ draftPc[o[2]] = "wait" /\ o[1] = FirstMissing(o[2])

(* What a request knows exists, an object was posted after its parents, and *)
(* nothing of a request was taken over by another of its start time before  *)
(* it had ended.                                                            *)
Unknown(pc) ==
    CASE pc \in {"new", "prepare", "discover", "duplicates", "campaign"} -> Stages
      [] pc = "creative" -> {"creative", "adset", "ad"}
      [] pc = "adset" -> {"adset", "ad"}
      [] pc = "ad" -> {"ad"}
      [] pc = "adsets" -> {"creative", "adset", "ad"}
      [] OTHER -> {}

Parents(stage) ==
    CASE stage = "campaign" -> {}
      [] stage = "adset" -> {"campaign"}
      [] stage = "creative" -> {"campaign", "adset"}
      [] OTHER -> {"campaign", "adset", "creative"}

IdsKept ==
    /\ \A r \in Requests, s \in Stages : ids[r][s] # NoId => <<s, ids[r][s]>> \in objects
    /\ \A r \in Requests : Unknown(draftPc[r]) \subseteq Missing(r)
    /\ \A o \in posting \cup objects : Parents(o[1]) \cap Missing(o[2]) = {}
    /\ \A r \in Requests :
          /\ draftPc[r] = "adsets" => "campaign" \notin Missing(r)
          /\ draftKind = "oneshot" => ids[r]["adset"] \in {NoId, r}
    /\ \A r, q \in Requests, s \in Stages :
          r # q /\ startOf[r] = startOf[q] /\ draftPc[r] # "ended" => ids[q][s] # r

(* The stages a request has looked for before it goes on.                   *)
Looked(pc) ==
    CASE pc = "creative" -> {"campaign"}
      [] pc = "adset" -> {"campaign", "creative"}
      [] pc = "ad" -> {"campaign", "creative", "adset"}
      [] pc \in {"post", "wait"} -> Stages
      [] OTHER -> {}

Overlooked(r, s) ==
    {q \in Requests \ {r} :
        /\ <<s, q>> \in objects \ late /\ startOf[q] = startOf[r]
        /\ SameParent(<<s, q>>, <<s, r>>)}

NothingOverlooked ==
    \A r \in Requests :
        /\ \A s \in Looked(draftPc[r]) \cap Missing(r) : Overlooked(r, s) = {}
        /\ draftPc[r] = "adsets" =>
              \A q \in Overlooked(r, "creative") : ids[q]["campaign"] = ids[r]["campaign"]

DraftKept == OneActive /\ PostsKept /\ IdsKept /\ NothingOverlooked
================================================================================
