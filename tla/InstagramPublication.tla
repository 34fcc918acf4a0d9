-------------------------- MODULE InstagramPublication --------------------------
(***************************************************************************)
(* One Instagram publication: the editorial scheduler                      *)
(* (instagram-editorial-timing.js, instagram-editorial-runtime.js), its    *)
(* stored state (instagram-publication-state.js), the publication in a     *)
(* container and a publish call (instagram-organic-publication.js,         *)
(* instagram-organic-canary.js) and the reconciliation.                    *)
(*                                                                         *)
(* A tick visits every schedule that was not executed when the tick began. *)
(* It gives way only while it executes a publication, so everything up to  *)
(* the call is one step.  The evidence stored with a state never holds the *)
(* id of a medium or a container when the state is one that is reconciled, *)
(* so the reconciliation asks the provider nothing and answers AMBIGUOUS.  *)
(***************************************************************************)
EXTENDS Naturals, FiniteSets

CONSTANTS
    LastHour,        \* bound: the clock runs from 0 to LastHour
    MaxSchedules,    \* bound: schedules of the publication
    MaxPublishCalls  \* bound: calls of media_publish

ASSUME InstagramAssumption ==
    LastHour \in Nat /\ MaxSchedules \in Nat /\ MaxPublishCalls \in Nat

Hours == 0..LastHour

(* The window of an approved package and the end of its authorization.      *)
Windows == {w \in [opens : Hours, closes : Hours, expires : Hours] : w.opens < w.closes}

PublicationStates ==
    {"none", "SCHEDULED", "DISPATCHED", "VERIFIED_LIVE", "FAILED", "AMBIGUOUS", "HELD"}

VARIABLES
    hour,
    (* the audit store *)
    scheduled,       \* instagram_editorial_schedule_created
    executed,        \* instagram_editorial_schedule_executed
    pubState,        \* the latest state of the publication
    final,           \* its reason is not to be retried
    recorded,        \* another change record names the publication
    reportedByHand,  \* instagram_manual_publication_reported names the asset
    (* the process *)
    writesOn,        \* INSTAGRAM_PROVIDER_WRITES
    stale,           \* schedules on the list of a tick busy with another publication
    execPc, execFor, \* the execution that holds the lock, and its schedule
    (* the provider *)
    publishing,      \* calls of media_publish on their way
    live,            \* calls that published
    calls            \* calls sent so far

igStore == <<scheduled, executed, pubState, final, recorded, reportedByHand>>
igProvider == <<publishing, live, calls>>
igVars == <<hour, igStore, writesOn, stale, execPc, execFor, igProvider>>

InstagramTypeOK ==
    /\ hour \in Hours
    /\ scheduled \subseteq Windows /\ executed \subseteq scheduled
    /\ stale \subseteq scheduled /\ execFor \subseteq scheduled
    /\ pubState \in PublicationStates
    /\ final \in BOOLEAN /\ recorded \in BOOLEAN /\ reportedByHand \in BOOLEAN
    /\ writesOn \in BOOLEAN
    /\ execPc \in {"idle", "validate", "prepare", "container", "publish", "answer", "verify"}
    /\ publishing \subseteq 1..calls /\ live \subseteq 1..calls
    /\ calls \in 0..MaxPublishCalls

InstagramInit ==
    /\ hour = 0
    /\ scheduled = {} /\ executed = {} /\ stale = {}
    /\ pubState = "none" /\ final = FALSE /\ recorded = FALSE /\ reportedByHand = FALSE
    /\ writesOn \in BOOLEAN
    /\ execPc = "idle" /\ execFor = {}
    /\ publishing = {} /\ live = {} /\ calls = 0

Mark(state, isFinal) == pubState' = state /\ final' = isFinal

ProviderWritesAllowed == writesOn

-----------------------------------------------------------------------------
(* What an execution is refused for, and the reasons that close a schedule. *)
(* Of the package, which does not change, only its authorization may have   *)
(* run out since it was taken in.                                           *)
FinalReasons == {"duplicate", "used", "expired"}

PackageReasons == {"expired"}

RecordReasons ==
    IF recorded THEN {"duplicate"}
    ELSE IF reportedByHand THEN {"by hand"} ELSE {"used"}

SwitchReasons == {"disabled", "kill switch", "autonomy"}

AuthorizationReasons == {"expired", "other content"}

CapabilityReasons == {"account", "username", "permission"}

ContextReasons == SwitchReasons \cup AuthorizationReasons \cup CapabilityReasons

(* An approved package: its window and its authorization have not passed,   *)
(* and its fingerprint has not been scheduled.                              *)
Accepted(w) == hour < w.expires

SameFingerprint(w) == w \in scheduled

(* The state is set back to SCHEDULED, whatever it is by then.              *)
Schedule(w) ==
    /\ Accepted(w) /\ ~SameFingerprint(w)
    /\ Cardinality(scheduled) < MaxSchedules
    /\ scheduled' = scheduled \cup {w}
    /\ Mark("SCHEDULED", FALSE)
    /\ UNCHANGED <<hour, executed, recorded, reportedByHand, writesOn, stale, execPc,
                   execFor, igProvider>>

Ready(w) == hour < w.expires /\ w.opens <= hour /\ hour <= w.closes

Terminal == pubState \in {"VERIFIED_LIVE", "FAILED", "HELD"}

\* Variant: what is not known to be live may be tried again.
RetryableUnknown ==
    \/ pubState \in {"none", "SCHEDULED", "AMBIGUOUS"}
    \/ pubState = "FAILED" /\ ~final

Retryable ==
    \/ pubState \in {"none", "SCHEDULED"}
    \/ pubState = "FAILED" /\ ~final

CloseSchedule(w) == executed' = executed \cup {w}

(* Outside its window a schedule is held once it is past, and waits before. *)
NotReady(w) ==
    /\ ~Ready(w)
    /\ \/ Terminal /\ CloseSchedule(w) /\ UNCHANGED <<pubState, final>>
       \/ /\ ~Terminal /\ hour > w.closes
          /\ Mark("HELD", FALSE) /\ CloseSchedule(w)
       \/ /\ ~Terminal /\ hour <= w.closes
          /\ Mark("SCHEDULED", FALSE) /\ UNCHANGED executed
    /\ UNCHANGED <<execPc, execFor>>

Settled(w) ==
    /\ Ready(w) /\ Terminal /\ ~Retryable
    /\ CloseSchedule(w)
    /\ UNCHANGED <<pubState, final, execPc, execFor>>

(* The callback reads the provider for the ids stored with the state: there *)
(* are none, so nothing is verified.                                        *)
ReconciledState == "AMBIGUOUS"

Reconcile(w) ==
    /\ Ready(w) /\ ~Terminal /\ ~Retryable
    /\ Mark(ReconciledState, FALSE)
    /\ UNCHANGED <<executed, execPc, execFor>>

Frozen(w) ==
    /\ Ready(w) /\ Retryable /\ ~ProviderWritesAllowed
    /\ Mark("SCHEDULED", FALSE)
    /\ UNCHANGED <<executed, execPc, execFor>>

LockFree == execPc = "idle"

Dispatch(w) ==
    /\ Ready(w) /\ Retryable /\ ProviderWritesAllowed
    /\ IF LockFree
       THEN /\ Mark("DISPATCHED", FALSE)
            /\ execPc' = "validate" /\ execFor' = {w}
       ELSE UNCHANGED <<pubState, final, execPc, execFor>>
    /\ UNCHANGED executed

Due == scheduled \ executed

(* tick, by the timer.                                                      *)
Visit(w) ==
    /\ w \in Due \cup stale
    /\ \/ NotReady(w) \/ Settled(w) \/ Reconcile(w) \/ Frozen(w) \/ Dispatch(w)
    /\ \/ w \notin executed /\ UNCHANGED stale
       \/ w \in stale /\ stale' = stale \ {w}
    /\ UNCHANGED <<hour, scheduled, recorded, reportedByHand, writesOn, igProvider>>

(* tick, by a runtime task for a publication whose package, the latest that *)
(* was scheduled for it, is in its window.                                  *)
Wake(w) ==
    /\ ProviderWritesAllowed
    /\ \E latest \in scheduled : Ready(latest)
    /\ w \in Due /\ Visit(w)

TickWaits ==
    /\ stale' = stale \cup Due
    /\ UNCHANGED <<hour, igStore, writesOn, execPc, execFor, igProvider>>

-----------------------------------------------------------------------------
(* The execution: what follows the call in tick when it has returned.       *)
ExecutionReturns(state, isFinal) ==
    /\ Mark(state, isFinal)
    /\ executed' = IF state = "VERIFIED_LIVE" \/ isFinal
                   THEN executed \cup execFor ELSE executed
    /\ execPc' = "idle" /\ execFor' = {}
    /\ UNCHANGED <<scheduled, reportedByHand>>

(* derivePublicationState: failed, only if nothing was attempted.           *)
Derived(status, attempted) ==
    IF status = "INSTAGRAM_PUBLISH_VERIFIED" THEN "VERIFIED_LIVE"
    ELSE IF attempted THEN "AMBIGUOUS" ELSE "FAILED"

ExecGoto(pc) ==
    /\ execPc' = pc
    /\ UNCHANGED <<igStore, execFor>>

(* A refused validation leaves no record of its own.                        *)
Validate ==
    /\ execPc = "validate"
    /\ \/ ~recorded /\ ~reportedByHand /\ ExecGoto("prepare")
       \/ \E reason \in PackageReasons \cup RecordReasons :
             ExecutionReturns(Derived("BLOCKED", FALSE), reason \in FinalReasons)
             /\ UNCHANGED recorded
       \/ /\ ~recorded /\ ~reportedByHand
          /\ \E reason \in ContextReasons :
                ExecutionReturns(Derived("BLOCKED", FALSE), reason \in FinalReasons)
          /\ UNCHANGED recorded
    /\ UNCHANGED <<hour, writesOn, stale, igProvider>>

(* What executeInstagramCanary returns is recorded, whatever it is.         *)
AttemptRecorded(status, attempted, isFinal) ==
    /\ ExecutionReturns(Derived(status, attempted), isFinal)
    /\ recorded' = TRUE

(* The second look at switches, account and authorization.                  *)
Prepare ==
    /\ execPc = "prepare"
    /\ \/ ExecGoto("container")
       \/ \E reason \in ContextReasons :
             AttemptRecorded("BLOCKED", FALSE, reason \in FinalReasons)
    /\ UNCHANGED <<hour, writesOn, stale, igProvider>>

(* The POST of the container and its polling: an error of either is         *)
(* recorded, and so is a container still unfinished in time.                *)
PollEnds == {"finished", "CONTAINER_FAILED", "CONTAINER_EXPIRED", "POLLING_TIMEOUT"}

Container ==
    /\ execPc = "container"
    /\ \E end \in PollEnds :
          \/ end = "finished" /\ ExecGoto("publish")
          \/ end # "finished" /\ AttemptRecorded(end, FALSE, FALSE)
    /\ UNCHANGED <<hour, writesOn, stale, igProvider>>

Publish ==
    /\ execPc = "publish" /\ calls < MaxPublishCalls
    /\ calls' = calls + 1 /\ publishing' = publishing \cup {calls + 1}
    /\ ExecGoto("answer")
    /\ UNCHANGED <<hour, writesOn, stale, live>>

Answer ==
    /\ execPc = "answer" /\ calls \in live
    /\ \/ ExecGoto("verify")
       \/ AttemptRecorded("BLOCKED", TRUE, FALSE)     \* no id in the answer
    /\ UNCHANGED <<hour, writesOn, stale, igProvider>>

Verify ==
    /\ execPc = "verify"
    /\ \E status \in {"INSTAGRAM_PUBLISH_VERIFIED", "BLOCKED"} :
          AttemptRecorded(status, TRUE, FALSE)
    /\ UNCHANGED <<hour, writesOn, stale, igProvider>>

(* A call or a record throws: no change record names the attempt.           *)
ExecutionThrows ==
    /\ execPc # "idle"
    /\ ExecutionReturns("AMBIGUOUS", FALSE)
    /\ UNCHANGED <<recorded, hour, writesOn, stale, igProvider>>

-----------------------------------------------------------------------------
PublishApplies(n) ==
    /\ n \in publishing
    /\ publishing' = publishing \ {n} /\ live' = live \cup {n}
    /\ UNCHANGED <<hour, igStore, writesOn, stale, execPc, execFor, calls>>

PublishRefused(n) ==
    /\ n \in publishing
    /\ publishing' = publishing \ {n}
    /\ UNCHANGED <<hour, igStore, writesOn, stale, execPc, execFor, live, calls>>

HourPasses ==
    /\ hour < LastHour /\ hour' = hour + 1
    /\ UNCHANGED <<igStore, writesOn, stale, execPc, execFor, igProvider>>

(* A deploy's seed file reports the asset as published by hand, as this     *)
(* publication or as another one.                                           *)
ImportByHand ==
    /\ ~reportedByHand /\ reportedByHand' = TRUE
    /\ \/ recorded' = TRUE /\ Mark("HELD", FALSE)
       \/ UNCHANGED <<recorded, pubState, final>>
    /\ UNCHANGED <<scheduled, executed>>

(* The change, the state and the mark on the schedule are three appends: a  *)
(* death leaves the first of them or the first two.                         *)
RecordsCut ==
    /\ \/ /\ execPc \in {"prepare", "container", "answer", "verify"}
          /\ recorded' = TRUE /\ UNCHANGED <<pubState, final>>
       \/ execPc = "validate" /\ Mark("FAILED", TRUE) /\ UNCHANGED recorded
       \/ execPc = "prepare" /\ Mark("FAILED", TRUE) /\ recorded' = TRUE
       \/ execPc = "verify" /\ Mark("VERIFIED_LIVE", FALSE) /\ recorded' = TRUE
    /\ UNCHANGED <<scheduled, executed, reportedByHand>>

(* A new process: the lock and the lists are gone, the switch may differ.   *)
StartRuntime ==
    /\ writesOn' \in BOOLEAN
    /\ stale' = {} /\ execPc' = "idle" /\ execFor' = {}
    /\ ImportByHand \/ RecordsCut \/ UNCHANGED igStore
    /\ UNCHANGED <<hour, igProvider>>

InstagramNext ==
    \/ \E w \in Windows : Schedule(w) \/ Visit(w) \/ Wake(w)
    \/ TickWaits
    \/ Validate \/ Prepare \/ Container \/ Publish \/ Answer \/ Verify \/ ExecutionThrows
    \/ \E n \in 1..MaxPublishCalls : PublishApplies(n) \/ PublishRefused(n)
    \/ HourPasses \/ StartRuntime

InstagramSpec == InstagramInit /\ [][InstagramNext]_igVars

-----------------------------------------------------------------------------
(* What is said to be live was published by a call that came to its end.    *)
LiveKept ==
    /\ execPc = "verify" \/ pubState = "VERIFIED_LIVE" => live # {}
    /\ execPc = "verify" => calls \in live

(* Why: once an execution has begun or a call was sent, no schedule is both *)
(* in its window and open to another try, and a call follows no other.      *)
Spent == execPc # "idle" \/ calls > 0

SpentKept ==
    Cardinality(scheduled) <= 1 =>
        /\ scheduled = {} => ~Spent
        /\ \A w \in scheduled : Spent => w.opens <= hour /\ ~(Ready(w) /\ Retryable)
        /\ calls <= 1
        /\ execPc \in {"validate", "prepare", "container", "publish"} => calls = 0

(* A package that was scheduled once is published at most once, through     *)
(* lost answers, restarts in the middle of an execution, ticks that overlap *)
(* and ticks that work from an old list.  A second schedule of the same     *)
(* publication sets a state of unknown outcome back to SCHEDULED, and is    *)
(* not covered.                                                             *)
ScheduledOncePublishedOnce ==
    Cardinality(scheduled) <= 1 => Cardinality(live \cup publishing) <= 1
=============================================================================
