------------------------ MODULE CommercialExecution ------------------------
(***************************************************************************)
(* Execution of signed commercial plans against Google Ads.                *)
(*                                                                         *)
(* One Node process holds three actors that interleave only where the code *)
(* awaits: the unattended worker (google-ads-unattended-runner.js), the    *)
(* one-shot run of a plan at process start (google-ads-commercial-         *)
(* preload.js) and the housekeeping that retires expired jobs.  The worker *)
(* and the one-shot share the runner (google-ads-commercial-runner.js),    *)
(* which drives each change through the controlled mutation gateway.       *)
(* Everything they must remember is on the volume: the job directories and *)
(* the append-only audit store.  The process may die between any two file  *)
(* operations and then starts again from the volume alone.                 *)
(***************************************************************************)
EXTENDS Naturals, Sequences, FiniteSets

CONSTANTS
    Jobs,          \* job ids an operator may hand off
    Plans,         \* plan digests
    Changes,       \* change ids
    PlanOf,        \* the plan a job carries
    Actions,       \* the changes of a plan, in the order they are executed
    DependsOn,     \* the jobs a job waits for
    StartupPlan,   \* the plan the process runs when it starts, or None
    Unauthorised,  \* jobs whose signed grant does not cover their plan
    Outliving,     \* jobs whose grant outlives their file, which lasts a day at most
    Refused,       \* plans the runner refuses for good before it reserves them
    Unbound,       \* plans it refuses with a reason the worker takes for a passing one
    LegacyPlans,   \* plans an older version of the runner may have begun
    None,
    MaxAttempts,   \* executions one job may start (3 in the code)
    MaxSubmits,    \* bound: handoffs in a behaviour
    MaxCrashes,    \* bound: process deaths in a behaviour
    MaxCorrupt     \* bound: job files that become unreadable

ChangesOf(p) == {Actions[p][i] : i \in 1..Len(Actions[p])}

ASSUME NoneAssumption == None \notin Jobs \cup Plans \cup Changes
ASSUME PlanOfAssumption == PlanOf \in [Jobs -> Plans]
ASSUME ActionsAssumption ==
    /\ Actions \in [Plans -> Seq(Changes)]
    /\ \A p \in Plans : /\ Len(Actions[p]) > 0
                        /\ \A i, k \in 1..Len(Actions[p]) :
                              Actions[p][i] = Actions[p][k] => i = k
ASSUME DependsOnAssumption == DependsOn \in [Jobs -> SUBSET Jobs]
ASSUME StartupPlanAssumption == StartupPlan \in Plans \cup {None}
ASSUME RefusalAssumption ==
    /\ Unauthorised \subseteq Jobs /\ Outliving \subseteq Jobs
    /\ Refused \subseteq Plans /\ Unbound \subseteq Plans
ASSUME LegacyAssumption == LegacyPlans \subseteq Plans
ASSUME BoundAssumption ==
    /\ MaxAttempts \in Nat \ {0}
    /\ MaxSubmits \in Nat
    /\ MaxCrashes \in Nat
    /\ MaxCorrupt \in Nat

Runners == {"worker", "startup"}
Writers == {"worker", "housekeeping"}
Actors == Runners \cup Writers

\* A handoff: the job file, with its place in the created_at order.
Entries == [job : Jobs, at : 1..MaxSubmits]

\* Stretches of code without an await: no other actor runs inside them.
Synchronous == {"reserve", "complete", "failing", "refused",
                "save_state", "save_result", "archive"}
Awaiting == {"idle", "boot", "off", "preflight", "validate", "started", "sent",
             "readback", "reconcile"}

JobStates == {"NOT_STARTED", "RESERVED_ZERO_PROVIDER_WRITE", "VERIFIED_COMPLETE",
              "FAILED_SAFE", "AMBIGUOUS", "NEEDS_HUMAN", "BLOCKED_EXTERNAL"}
JobResults == {"DONE", "BLOCKED_EXTERNAL", "NEEDS_HUMAN", "FAILED_SAFE"}
Checkpoints == {"authorization", "dependency", "emergency_stop", "completed", "reconciled",
                "provider", "boundary", "exhausted", "attempt", "housekeeping", "corrupt"}

\* What writeOutcome stores, and whether it archives the job afterwards.
Verdicts == [outcome : JobResults, state : JobStates, checkpoint : Checkpoints,
             attempts : 0..MaxAttempts, providerWrite : BOOLEAN, archive : BOOLEAN]

ASSUME NoVerdictAssumption == None \notin Verdicts

AuditEvents == {"reserved", "state", "validate_only", "started", "provider_write",
                "change_verified", "change_unverified", "completed", "ambiguous", "zero_write",
               "legacy_started", "legacy_progress"}
AuditRecords == [event : AuditEvents, plan : Plans \cup {None}, change : Changes \cup {None}]

VARIABLES
    (* the volume *)
    incoming,     \* job files waiting in incoming/
    corrupt,      \* job files in incoming/ that can no longer be unsealed
    quarantined,  \* jobs in quarantine/
    archived,     \* jobs in done/
    attempts,     \* attempts stored in state/<job>
    jobState,     \* state stored in state/<job>, or None
    result,       \* results/<job>, or None
    audit,        \* records of the commercial audit store
    (* the provider *)
    inflight,     \* write requests sent and not yet decided
    applied,      \* write requests the provider has carried out
    sent,         \* how often each change of each plan was sent
    (* the process *)
    pc, plan, step, boundary, entry, verdict,
    todo,         \* the rest of the queue the worker's tick read
    stop,         \* GOOGLE_ADS_EMERGENCY_STOP, fixed for the life of a process
    (* the environment *)
    expired,      \* handoffs whose authorization has run out
    submissions, crashes

volume == <<incoming, corrupt, quarantined, archived, attempts, jobState, result>>
provider == <<inflight, applied, sent>>
process == <<pc, plan, step, boundary, entry, verdict, todo, stop>>
environment == <<expired, submissions, crashes>>
vars == <<volume, audit, provider, process, environment>>

TypeOK ==
    /\ incoming \subseteq Entries
    /\ corrupt \subseteq Entries
    /\ quarantined \subseteq Jobs
    /\ archived \subseteq Jobs
    /\ attempts \in [Jobs -> 0..MaxAttempts]
    /\ jobState \in [Jobs -> JobStates \cup {None}]
    /\ result \in [Jobs -> Verdicts \cup {None}]
    /\ audit \subseteq AuditRecords
    /\ inflight \subseteq Plans \X Changes
    /\ applied \subseteq Plans \X Changes
    /\ sent \in [Plans \X Changes -> Nat]
    /\ pc \in [Actors -> Synchronous \cup Awaiting]
    /\ plan \in [Runners -> Plans \cup {None}]
    /\ step \in [Runners -> Nat]
    /\ boundary \in [Runners -> BOOLEAN]
    /\ entry \in [Writers -> Entries \cup {None}]
    /\ verdict \in [Writers -> Verdicts \cup {None}]
    /\ todo \subseteq Entries
    /\ stop \in BOOLEAN
    /\ expired \subseteq Entries
    /\ submissions \in 0..MaxSubmits
    /\ crashes \in 0..MaxCrashes

-----------------------------------------------------------------------------
(* The evidence in the audit store, and what is concluded from it.         *)

PlanRecord(event, p) == [event |-> event, plan |-> p, change |-> None]
ChangeRecord(event, c) == [event |-> event, plan |-> None, change |-> c]
StartedRecord(p, c) == [event |-> "started", plan |-> p, change |-> c]

Recorded(A, event, p) == PlanRecord(event, p) \in A
ProviderStarted(A, p) == \E c \in Changes : StartedRecord(p, c) \in A
WriteRecorded(A, p) == \E c \in ChangesOf(p) :
    \E event \in {"change_verified", "change_unverified"} : ChangeRecord(event, c) \in A

\* The latest reservation of the plan is one of an older version of the runner, and state
\* or change records follow it before another plan was reserved.  The records of the
\* older version precede all of this one's.
LegacyInDoubt(p) == Recorded(audit, "legacy_progress", p) /\ ~Recorded(audit, "reserved", p)

\* Variant: an older reservation counts like one of this version.
ReplayableWhateverLegacy(p) ==
    ~Recorded(audit, "completed", p) /\ ~ProviderStarted(audit, p) /\ ~WriteRecorded(audit, p)

\* planReplayState: what the runner itself may start (or start again).
Replayable(p) ==
    /\ ~Recorded(audit, "completed", p) /\ ~ProviderStarted(audit, p) /\ ~WriteRecorded(audit, p)
    /\ ~LegacyInDoubt(p)

\* Variant: the boundary marker is overlooked, only recorded outcomes count.
CheckpointByOutcome(A, p) ==
    IF Recorded(A, "completed", p) THEN "VERIFIED_COMPLETE"
    ELSE IF Recorded(A, "ambiguous", p) THEN "AMBIGUOUS"
    ELSE IF WriteRecorded(A, p) THEN "PROVIDER_BOUNDARY_REACHED"
    ELSE IF Recorded(A, "reserved", p) \/ Recorded(A, "legacy_started", p)
         THEN "RESERVED_ZERO_PROVIDER_WRITE"
    ELSE "NOT_STARTED"

\* classifyCheckpoint: how the worker reads the same evidence.
Checkpoint(A, p) ==
    IF Recorded(A, "completed", p) THEN "VERIFIED_COMPLETE"
    ELSE IF Recorded(A, "ambiguous", p) THEN "AMBIGUOUS"
    ELSE IF ProviderStarted(A, p) \/ WriteRecorded(A, p) THEN "PROVIDER_BOUNDARY_REACHED"
    ELSE IF Recorded(A, "reserved", p) \/ Recorded(A, "legacy_started", p)
         THEN "RESERVED_ZERO_PROVIDER_WRITE"
    ELSE IF Recorded(A, "zero_write", p) THEN "FAILED_SAFE"
    ELSE "NOT_STARTED"

\* The provider shows the desired state of a change once any plan's write of it is applied.
Live(c) == \E p \in Plans : <<p, c>> \in applied

\* Variant: any answer of a dependency will do.
DependenciesAnswered(j) == \A d \in DependsOn[j] : result[d] # None

DependenciesDone(j) == \A d \in DependsOn[j] : result[d] # None /\ result[d].outcome = "DONE"

Authorised(e) == e.job \notin Unauthorised /\ e \notin expired

\* Variant: the attempts are counted before the checkpoint is looked at.
RouteAttemptsFirst(e) ==
    IF ~Authorised(e) THEN "reject"
    ELSE IF ~DependenciesDone(e.job) THEN "dependency"
    ELSE IF stop THEN "stop"
    ELSE IF attempts[e.job] >= MaxAttempts THEN "exhausted"
    ELSE IF Checkpoint(audit, PlanOf[e.job]) = "VERIFIED_COMPLETE" THEN "completed"
    ELSE IF Checkpoint(audit, PlanOf[e.job]) \in {"PROVIDER_BOUNDARY_REACHED", "AMBIGUOUS"}
         THEN "reconcile"
    ELSE "execute"

\* The early returns of processJob, in its order.
Route(e) ==
    LET p == PlanOf[e.job] IN
    IF ~Authorised(e) THEN "reject"
    ELSE IF ~DependenciesDone(e.job) THEN "dependency"
    ELSE IF stop THEN "stop"
    ELSE IF Checkpoint(audit, p) = "VERIFIED_COMPLETE" THEN "completed"
    ELSE IF Checkpoint(audit, p) \in {"PROVIDER_BOUNDARY_REACHED", "AMBIGUOUS"} THEN "reconcile"
    ELSE IF attempts[e.job] >= MaxAttempts THEN "exhausted"
    ELSE "execute"

Queued(j) == \E e \in incoming \cup corrupt : e.job = j

\* An actor runs when no other one is inside a synchronous stretch.
Turn(a) == \A b \in Actors \ {a} : pc[b] \notin Synchronous

Change(a) == Actions[plan[a]][step[a]]

Verdict(o, s, k, n, w, arch) ==
    [outcome |-> o, state |-> s, checkpoint |-> k, attempts |-> n,
     providerWrite |-> w, archive |-> arch]

-----------------------------------------------------------------------------
(* The process starts with an empty memory; the volume is as it was left.  *)

FreshPc == [a \in Actors |-> IF a = "startup" /\ StartupPlan # None THEN "boot"
                             ELSE IF a = "startup" THEN "off" ELSE "idle"]

Boot(p0, plan0, step0, boundary0, entry0, verdict0, todo0) ==
    /\ p0 = FreshPc
    /\ plan0 = [a \in Runners |-> None]
    /\ step0 = [a \in Runners |-> 0]
    /\ boundary0 = [a \in Runners |-> FALSE]
    /\ entry0 = [w \in Writers |-> None]
    /\ verdict0 = [w \in Writers |-> None]
    /\ todo0 = {}

\* What an older version of the runner may have left in the audit store.
LegacyStores ==
    {A \in SUBSET {PlanRecord(event, p) : event \in {"legacy_started", "legacy_progress"},
                                         p \in LegacyPlans} :
        \A p \in LegacyPlans :
            Recorded(A, "legacy_progress", p) => Recorded(A, "legacy_started", p)}

Init ==
    /\ incoming = {} /\ corrupt = {} /\ quarantined = {} /\ archived = {}
    /\ attempts = [j \in Jobs |-> 0]
    /\ jobState = [j \in Jobs |-> None]
    /\ result = [j \in Jobs |-> None]
    /\ audit \in LegacyStores
    /\ inflight = {} /\ applied = {}
    /\ sent = [r \in Plans \X Changes |-> 0]
    /\ Boot(pc, plan, step, boundary, entry, verdict, todo)
    /\ stop \in BOOLEAN
    /\ expired = {} /\ submissions = 0 /\ crashes = 0

\* The process dies and Railway starts it again, perhaps with the stop flag changed.
Crash ==
    /\ crashes < MaxCrashes
    /\ crashes' = crashes + 1
    /\ Boot(pc', plan', step', boundary', entry', verdict', todo')
    /\ stop' \in BOOLEAN
    /\ UNCHANGED <<volume, audit, provider, expired, submissions>>

-----------------------------------------------------------------------------
(* The environment: handoffs, time, a damaged file, the provider.          *)

\* scripts/submit-commercial-job.js, a process of its own: refused only while a
\* file of the same id is still in incoming/.
Submit(j) ==
    /\ submissions < MaxSubmits
    /\ ~Queued(j)
    /\ submissions' = submissions + 1
    /\ incoming' = incoming \cup {[job |-> j, at |-> submissions + 1]}
    /\ UNCHANGED <<corrupt, quarantined, archived, attempts, jobState, result,
                   audit, provider, process, expired, crashes>>

Expire(e) ==
    /\ e \in incoming \ expired
    /\ expired' = expired \cup {e}
    /\ UNCHANGED <<volume, audit, provider, process, submissions, crashes>>

Corrupt(e) ==
    /\ e \in incoming
    /\ Cardinality(corrupt) + Cardinality(quarantined) < MaxCorrupt
    /\ incoming' = incoming \ {e}
    /\ corrupt' = corrupt \cup {e}
    /\ UNCHANGED <<quarantined, archived, attempts, jobState, result,
                   audit, provider, process, environment>>

\* A request may be decided long after the caller stopped waiting for it.
ProviderApplies(r) ==
    /\ r \in inflight
    /\ inflight' = inflight \ {r}
    /\ applied' = applied \cup {r}
    /\ UNCHANGED <<volume, audit, sent, process, environment>>

ProviderRejects(r) ==
    /\ r \in inflight
    /\ inflight' = inflight \ {r}
    /\ UNCHANGED <<volume, audit, applied, sent, process, environment>>

-----------------------------------------------------------------------------
(* One tick of the unattended worker.                                      *)

\* Unreadable job files leave the queue before the tick reads it.
Quarantine(e) ==
    /\ pc["worker"] = "idle" /\ Turn("worker")
    /\ todo = {}
    /\ e \in corrupt
    /\ corrupt' = corrupt \ {e}
    /\ quarantined' = quarantined \cup {e.job}
    /\ pc' = [pc EXCEPT !["worker"] = "save_state"]
    /\ entry' = [entry EXCEPT !["worker"] = e]
    /\ verdict' = [verdict EXCEPT !["worker"] =
           Verdict("NEEDS_HUMAN", "NEEDS_HUMAN", "corrupt", 0, FALSE, FALSE)]
    /\ UNCHANGED <<incoming, archived, attempts, jobState, result, audit, provider,
                   plan, step, boundary, todo, stop, environment>>

Tick ==
    /\ pc["worker"] = "idle" /\ Turn("worker")
    /\ todo = {} /\ corrupt = {}
    /\ incoming # {}
    /\ todo' = incoming
    /\ UNCHANGED <<volume, audit, provider, pc, plan, step, boundary, entry, verdict,
                   stop, environment>>

\* The worker takes the oldest job of its list, whatever became of the file since.
Takes(e, route) ==
    /\ pc["worker"] = "idle" /\ Turn("worker")
    /\ e \in todo
    /\ \A f \in todo : e.at <= f.at
    /\ Route(e) = route
    /\ todo' = todo \ {e}
    /\ entry' = [entry EXCEPT !["worker"] = e]

\* processJob returns at once with an outcome to store.
Concludes(e, route, v) ==
    /\ Takes(e, route)
    /\ pc' = [pc EXCEPT !["worker"] = "save_state"]
    /\ verdict' = [verdict EXCEPT !["worker"] = v]
    /\ UNCHANGED <<volume, audit, provider, plan, step, boundary, stop, environment>>

RejectUnauthorised(e) == Concludes(e, "reject",
    Verdict("NEEDS_HUMAN", "NEEDS_HUMAN", "authorization", attempts[e.job], FALSE, TRUE))

WaitForDependency(e) == Concludes(e, "dependency",
    Verdict("BLOCKED_EXTERNAL", "BLOCKED_EXTERNAL", "dependency", attempts[e.job], FALSE, FALSE))

HoldForStop(e) == Concludes(e, "stop",
    Verdict("BLOCKED_EXTERNAL", "BLOCKED_EXTERNAL", "emergency_stop", attempts[e.job], FALSE, FALSE))

ReplayCompleted(e) == Concludes(e, "completed",
    Verdict("DONE", "VERIFIED_COMPLETE", "completed", attempts[e.job], FALSE, TRUE))

AttemptsExhausted(e) == Concludes(e, "exhausted",
    Verdict("FAILED_SAFE", "FAILED_SAFE", "exhausted", attempts[e.job], FALSE, TRUE))

\* Without provider credentials nothing is tried and no attempt is counted.
ProviderUnavailable(e) == Concludes(e, "execute",
    Verdict("NEEDS_HUMAN", "NEEDS_HUMAN", "provider", attempts[e.job], FALSE, TRUE))

\* The boundary was reached earlier: only reads from here on.  What will be stored if
\* they prove nothing is settled by the checkpoint read before them.
BeginReconcile(e) ==
    /\ Takes(e, "reconcile")
    /\ pc' = [pc EXCEPT !["worker"] = "reconcile"]
    /\ LET ambiguous == Checkpoint(audit, PlanOf[e.job]) = "AMBIGUOUS" IN
       verdict' = [verdict EXCEPT !["worker"] =
           Verdict("NEEDS_HUMAN", IF ambiguous THEN "AMBIGUOUS" ELSE "NEEDS_HUMAN",
                   "boundary", attempts[e.job], FALSE, TRUE)]
    /\ UNCHANGED <<volume, audit, provider, plan, step, boundary, stop, environment>>

\* Variant: one change in effect is taken for all of them.
FinishReconcileSome(verified) ==
    /\ pc["worker"] = "reconcile" /\ Turn("worker")
    /\ verified => \E c \in ChangesOf(PlanOf[entry["worker"].job]) : Live(c)
    /\ verdict' = IF verified
                  THEN [verdict EXCEPT !["worker"] =
                           Verdict("DONE", "VERIFIED_COMPLETE", "reconciled", @.attempts, FALSE, TRUE)]
                  ELSE verdict
    /\ pc' = [pc EXCEPT !["worker"] = "save_state"]
    /\ UNCHANGED <<volume, audit, provider, plan, step, boundary, entry, todo, stop, environment>>

FinishReconcile(verified) ==
    /\ pc["worker"] = "reconcile" /\ Turn("worker")
    /\ verified => \A c \in ChangesOf(PlanOf[entry["worker"].job]) : Live(c)
    /\ verdict' = IF verified
                  THEN [verdict EXCEPT !["worker"] =
                           Verdict("DONE", "VERIFIED_COMPLETE", "reconciled", @.attempts, FALSE, TRUE)]
                  ELSE verdict
    /\ pc' = [pc EXCEPT !["worker"] = "save_state"]
    /\ UNCHANGED <<volume, audit, provider, plan, step, boundary, entry, todo, stop, environment>>

\* The attempt is counted on the volume before the runner starts.
BeginAttempt(e) ==
    /\ Takes(e, "execute")
    /\ attempts' = [attempts EXCEPT ![e.job] = @ + 1]
    /\ jobState' = [jobState EXCEPT ![e.job] = "RESERVED_ZERO_PROVIDER_WRITE"]
    /\ plan' = [plan EXCEPT !["worker"] = PlanOf[e.job]]
    /\ pc' = [pc EXCEPT !["worker"] = "reserve"]
    /\ UNCHANGED <<incoming, corrupt, quarantined, archived, result, audit, provider,
                   step, boundary, verdict, stop, environment>>

-----------------------------------------------------------------------------
(* The runner, for the worker's job or for the plan of the process start.  *)

\* The startup run reports to the log only; the worker stores an outcome.
RunEnds(a, v) ==
    IF a = "worker"
    THEN /\ pc' = [pc EXCEPT !["worker"] = "save_state"]
         /\ verdict' = [verdict EXCEPT !["worker"] = v]
    ELSE /\ pc' = [pc EXCEPT !["startup"] = "off"]
         /\ UNCHANGED verdict

Attempt == IF entry["worker"] = None THEN 0 ELSE attempts[entry["worker"].job]

\* Nothing is reserved: a refusal for good, one the worker tries again, a plan that is
\* complete, or one that an older version left in doubt.
RefusalVerdict(p) ==
    IF p \in Refused THEN Verdict("NEEDS_HUMAN", "NEEDS_HUMAN", "attempt", Attempt, FALSE, TRUE)
    ELSE IF p \in Unbound
         THEN Verdict("FAILED_SAFE", "FAILED_SAFE", "attempt", Attempt, FALSE, Attempt >= MaxAttempts)
    ELSE IF Recorded(audit, "completed", p)
         THEN Verdict("DONE", "VERIFIED_COMPLETE", "completed", Attempt, FALSE, TRUE)
    ELSE Verdict("NEEDS_HUMAN", "NEEDS_HUMAN", "attempt", Attempt, FALSE, TRUE)

\* Variant: a plan is reserved whatever is known of it.
ReserveAnew(a) ==
    /\ pc[a] \in {"reserve", "boot"} /\ Turn(a)
    /\ LET p == IF a = "worker" THEN plan[a] ELSE StartupPlan IN
       /\ audit' = audit \cup {PlanRecord("reserved", p)}
       /\ plan' = [plan EXCEPT ![a] = p]
    /\ pc' = [pc EXCEPT ![a] = "preflight"]
    /\ step' = [step EXCEPT ![a] = 1]
    /\ boundary' = [boundary EXCEPT ![a] = FALSE]
    /\ UNCHANGED <<volume, provider, entry, verdict, todo, stop, environment>>

Reserve(a) ==
    /\ pc[a] \in {"reserve", "boot"} /\ Turn(a)
    /\ LET p == IF a = "worker" THEN plan[a] ELSE StartupPlan IN
       IF p \notin Refused \cup Unbound /\ Replayable(p)
       THEN /\ audit' = audit \cup {PlanRecord("reserved", p)}
            /\ pc' = [pc EXCEPT ![a] = "preflight"]
            /\ plan' = [plan EXCEPT ![a] = p]
            /\ step' = [step EXCEPT ![a] = 1]
            /\ boundary' = [boundary EXCEPT ![a] = FALSE]
            /\ UNCHANGED verdict
       ELSE /\ RunEnds(a, RefusalVerdict(p))
            /\ UNCHANGED <<audit, plan, step, boundary>>
    /\ UNCHANGED <<volume, provider, entry, todo, stop, environment>>

\* A step of the runner that only moves its program counter.
Moves(a, from, to) ==
    /\ pc[a] \in from /\ Turn(a)
    /\ pc' = [pc EXCEPT ![a] = to]
    /\ UNCHANGED <<volume, audit, provider, plan, step, boundary, entry, verdict,
                   todo, stop, environment>>

\* A step of the runner that appends to the audit store.
Appends(a, from, to, records) ==
    /\ pc[a] = from /\ Turn(a)
    /\ pc' = [pc EXCEPT ![a] = to]
    /\ audit' = audit \cup records
    /\ UNCHANGED <<volume, provider, plan, entry, verdict, todo, stop, environment>>

\* The before-state is readable and the change can be rolled back.
PreflightPasses(a) ==
    /\ Appends(a, "preflight", "validate", {ChangeRecord("state", Change(a))})
    /\ UNCHANGED <<step, boundary>>

\* Unreadable state, overlapping schedules, a blocked preflight or a failed dry call.
FailsBeforeBoundary(a) == Moves(a, {"preflight", "validate"}, "failing")

\* The wrapper the worker puts around beforeProviderMutation.  It looks at the grant only,
\* which may still hold, or not, once the file has run out.
GuardOpen(a) ==
    a = "worker" => /\ ~stop
                    /\ entry["worker"] \in expired => entry["worker"].job \in Outliving

GuardClosed(a) == a = "worker" /\ (stop \/ entry["worker"] \in expired)

\* Variant: the boundary is crossed without a marker on the volume.
CrossBoundaryUnmarked(a) ==
    /\ GuardOpen(a)
    /\ Appends(a, "validate", "started", {ChangeRecord("validate_only", Change(a))})
    /\ boundary' = [boundary EXCEPT ![a] = TRUE]
    /\ UNCHANGED step

\* The validate-only call was accepted: the marker is durable before the write.
CrossBoundary(a) ==
    /\ GuardOpen(a)
    /\ Appends(a, "validate", "started",
               {ChangeRecord("validate_only", Change(a)), StartedRecord(plan[a], Change(a))})
    /\ boundary' = [boundary EXCEPT ![a] = TRUE]
    /\ UNCHANGED step

GuardRefuses(a) ==
    /\ GuardClosed(a)
    /\ Appends(a, "validate", "refused", {ChangeRecord("validate_only", Change(a))})
    /\ UNCHANGED <<step, boundary>>

\* No access token: the request never leaves.
TokenFails(a) == Moves(a, {"started"}, "failing")

SendWrite(a) ==
    /\ pc[a] = "started" /\ Turn(a)
    /\ pc' = [pc EXCEPT ![a] = "sent"]
    /\ inflight' = inflight \cup {<<plan[a], Change(a)>>}
    /\ sent' = [sent EXCEPT ![<<plan[a], Change(a)>>] = @ + 1]
    /\ UNCHANGED <<volume, audit, applied, plan, step, boundary, entry, verdict,
                   todo, stop, environment>>

WriteAcknowledged(a) ==
    /\ pc[a] = "sent" /\ <<plan[a], Change(a)>> \in applied
    /\ Appends(a, "sent", "readback", {ChangeRecord("provider_write", Change(a))})
    /\ UNCHANGED <<step, boundary>>

\* Variant: the transport has no timeout.
WriteHangs(a) == Moves(a, {"sent"}, "sent")

\* Rejected, timed out or cut off: the answer does not say whether it was applied.
WriteFails(a) == Moves(a, {"sent"}, "failing")

\* Variant: the plan is completed one change too early.
ReadBackVerifiedEarly(a) ==
    LET last == step[a] + 1 >= Len(Actions[plan[a]]) IN
    /\ pc[a] = "readback" /\ Live(Change(a))
    /\ Appends(a, "readback", IF last THEN "complete" ELSE "preflight",
               {ChangeRecord("change_verified", Change(a))})
    /\ step' = [step EXCEPT ![a] = IF last THEN @ ELSE @ + 1]
    /\ UNCHANGED boundary

ReadBackVerified(a) ==
    LET last == step[a] = Len(Actions[plan[a]]) IN
    /\ pc[a] = "readback" /\ Live(Change(a))
    /\ Appends(a, "readback", IF last THEN "complete" ELSE "preflight",
               {ChangeRecord("change_verified", Change(a))})
    /\ step' = [step EXCEPT ![a] = IF last THEN @ ELSE @ + 1]
    /\ UNCHANGED boundary

\* Variant: a mismatch does not stop the plan.
ReadBackMismatchGoesOn(a) ==
    LET last == step[a] = Len(Actions[plan[a]]) IN
    /\ Appends(a, "readback", IF last THEN "failing" ELSE "preflight",
               {ChangeRecord("change_unverified", Change(a))})
    /\ step' = [step EXCEPT ![a] = IF last THEN @ ELSE @ + 1]
    /\ UNCHANGED boundary

ReadBackMismatch(a) ==
    /\ Appends(a, "readback", "failing", {ChangeRecord("change_unverified", Change(a))})
    /\ UNCHANGED <<step, boundary>>

ReadBackUnreadable(a) == Moves(a, {"readback"}, "failing")

Complete(a) ==
    /\ pc[a] = "complete" /\ Turn(a)
    /\ audit' = audit \cup {PlanRecord("completed", plan[a])}
    /\ RunEnds(a, Verdict("DONE", "VERIFIED_COMPLETE", "attempt", Attempt, TRUE, TRUE))
    /\ UNCHANGED <<volume, provider, plan, step, boundary, entry, todo, stop, environment>>

\* The runner's catch block: zero writes only if neither this run nor an earlier one wrote.
FailureMarker(a) ==
    IF boundary[a] \/ WriteRecorded(audit, plan[a]) THEN "ambiguous" ELSE "zero_write"

\* What the worker makes of a blocked run.  The result of a failed run names no writes,
\* whatever its earlier changes did.
FailureVerdict(checkpoint, refused) ==
    IF checkpoint \in {"AMBIGUOUS", "PROVIDER_BOUNDARY_REACHED"}
    THEN Verdict("NEEDS_HUMAN", IF checkpoint = "AMBIGUOUS" THEN "AMBIGUOUS" ELSE "NEEDS_HUMAN",
                 "attempt", Attempt, FALSE, TRUE)
    ELSE IF refused THEN Verdict("NEEDS_HUMAN", "NEEDS_HUMAN", "attempt", Attempt, FALSE, TRUE)
    ELSE Verdict("FAILED_SAFE", "FAILED_SAFE", "attempt", Attempt, FALSE, Attempt >= MaxAttempts)

RecordFailure(a) ==
    /\ pc[a] \in {"failing", "refused"} /\ Turn(a)
    /\ audit' = audit \cup {PlanRecord(FailureMarker(a), plan[a])}
    /\ RunEnds(a, FailureVerdict(Checkpoint(audit', plan[a]), pc[a] = "refused"))
    /\ UNCHANGED <<volume, provider, plan, step, boundary, entry, todo, stop, environment>>

-----------------------------------------------------------------------------
(* writeOutcome, one file operation at a time, and the housekeeping.       *)

\* Variant: the job file is archived before its result is written.
SaveStateThenArchive(w) ==
    /\ pc[w] = "save_state" /\ Turn(w)
    /\ LET j == entry[w].job IN
       /\ jobState' = [jobState EXCEPT ![j] = verdict[w].state]
       /\ attempts' = [attempts EXCEPT ![j] = verdict[w].attempts]
       /\ incoming' = {e \in incoming : e.job # j}
       /\ archived' = archived \cup {j}
    /\ pc' = [pc EXCEPT ![w] = "save_result"]
    /\ UNCHANGED <<corrupt, quarantined, result, audit, provider,
                   plan, step, boundary, entry, verdict, todo, stop, environment>>

SaveState(w) ==
    /\ pc[w] = "save_state" /\ Turn(w)
    /\ LET j == entry[w].job IN
       /\ jobState' = [jobState EXCEPT ![j] = verdict[w].state]
       /\ attempts' = [attempts EXCEPT ![j] = verdict[w].attempts]
    /\ pc' = [pc EXCEPT ![w] = "save_result"]
    /\ UNCHANGED <<incoming, corrupt, quarantined, archived, result, audit, provider,
                   plan, step, boundary, entry, verdict, todo, stop, environment>>

\* The writer forgets the job it has dealt with.
Rests(w) ==
    /\ pc' = [pc EXCEPT ![w] = "idle"]
    /\ entry' = [entry EXCEPT ![w] = None]
    /\ verdict' = [verdict EXCEPT ![w] = None]
    /\ plan' = IF w = "worker" THEN [plan EXCEPT !["worker"] = None] ELSE plan
    /\ step' = IF w = "worker" THEN [step EXCEPT !["worker"] = 0] ELSE step
    /\ boundary' = IF w = "worker" THEN [boundary EXCEPT !["worker"] = FALSE] ELSE boundary

SaveResult(w) ==
    /\ pc[w] = "save_result" /\ Turn(w)
    /\ result' = [result EXCEPT ![entry[w].job] = verdict[w]]
    /\ IF verdict[w].archive
       THEN /\ pc' = [pc EXCEPT ![w] = "archive"]
            /\ UNCHANGED <<plan, step, boundary, entry, verdict>>
       ELSE Rests(w)
    /\ UNCHANGED <<incoming, corrupt, quarantined, archived, attempts, jobState, audit,
                   provider, todo, stop, environment>>

\* The file is found by its job id, not by the handoff that was processed.
Archive(w) ==
    /\ pc[w] = "archive" /\ Turn(w)
    /\ LET j == entry[w].job
           files == {e \in incoming \cup corrupt : e.job = j} IN
       /\ incoming' = incoming \ files
       /\ corrupt' = corrupt \ files
       /\ archived' = IF files = {} THEN archived ELSE archived \cup {j}
    /\ Rests(w)
    /\ UNCHANGED <<quarantined, attempts, jobState, result, audit, provider, todo, stop,
                   environment>>

\* Variant: the housekeeping leaves a job alone that already has a result.
RetireUnanswered(e) ==
    /\ pc["housekeeping"] = "idle" /\ Turn("housekeeping")
    /\ e \in incoming \cap expired
    /\ result[e.job] = None
    /\ entry' = [entry EXCEPT !["housekeeping"] = e]
    /\ pc' = [pc EXCEPT !["housekeeping"] = "save_state"]
    /\ verdict' = [verdict EXCEPT !["housekeeping"] =
           Verdict("NEEDS_HUMAN", "NEEDS_HUMAN", "housekeeping", attempts[e.job], FALSE, TRUE)]
    /\ UNCHANGED <<volume, audit, provider, plan, step, boundary, todo, stop, environment>>

\* retireExpiredJobs runs while the worker waits for the provider.  A file it can unseal was
\* signed when it was handed off, so that its test of the signature is met.
Retire(e) ==
    /\ pc["housekeeping"] = "idle" /\ Turn("housekeeping")
    /\ e \in incoming \cap expired
    /\ entry' = [entry EXCEPT !["housekeeping"] = e]
    /\ IF result[e.job] # None
       THEN /\ pc' = [pc EXCEPT !["housekeeping"] = "archive"]
            /\ UNCHANGED verdict
       ELSE /\ pc' = [pc EXCEPT !["housekeeping"] = "save_state"]
            /\ verdict' = [verdict EXCEPT !["housekeeping"] =
                   Verdict("NEEDS_HUMAN", "NEEDS_HUMAN", "housekeeping", attempts[e.job],
                           FALSE, TRUE)]
    /\ UNCHANGED <<volume, audit, provider, plan, step, boundary, todo, stop, environment>>

-----------------------------------------------------------------------------
WorkerEntry ==
    \/ Tick
    \/ \E e \in corrupt : Quarantine(e)
    \/ \E e \in todo : \/ RejectUnauthorised(e)
                       \/ WaitForDependency(e)
                       \/ HoldForStop(e)
                       \/ ReplayCompleted(e)
                       \/ AttemptsExhausted(e)
                       \/ ProviderUnavailable(e)
                       \/ BeginReconcile(e)
                       \/ BeginAttempt(e)
    \/ \E verified \in BOOLEAN : FinishReconcile(verified)

RunnerStep(a) ==
    \/ Reserve(a)
    \/ PreflightPasses(a)
    \/ FailsBeforeBoundary(a)
    \/ CrossBoundary(a)
    \/ GuardRefuses(a)
    \/ TokenFails(a)
    \/ SendWrite(a)
    \/ WriteAcknowledged(a)
    \/ WriteFails(a)
    \/ ReadBackVerified(a)
    \/ ReadBackMismatch(a)
    \/ ReadBackUnreadable(a)
    \/ Complete(a)
    \/ RecordFailure(a)

OutcomeStep(w) == SaveState(w) \/ SaveResult(w) \/ Archive(w)

Environment ==
    \/ \E j \in Jobs : Submit(j)
    \/ \E e \in incoming : Expire(e) \/ Corrupt(e)
    \/ \E r \in inflight : ProviderApplies(r) \/ ProviderRejects(r)
    \/ Crash

Next ==
    \/ WorkerEntry
    \/ \E a \in Runners : RunnerStep(a)
    \/ \E w \in Writers : OutcomeStep(w)
    \/ \E e \in incoming : Retire(e)
    \/ Environment

Spec == Init /\ [][Next]_vars

\* Code without an await runs to its end.
SynchronousFairness ==
    /\ \A w \in Writers : WF_vars(OutcomeStep(w))
    /\ \A a \in Runners : WF_vars(pc[a] \in Synchronous /\ RunnerStep(a))

\* Time passes and the housekeeping timer fires between the worker's synchronous
\* stretches; nothing is assumed of the provider or of a worker that awaits.
QueueFairness ==
    /\ SynchronousFairness
    /\ \A e \in Entries : WF_vars(Expire(e)) /\ SF_vars(Retire(e))

\* Only the POST of a write has a timeout: whatever becomes of it, the worker goes on.  A
\* read, or the token that is fetched before a POST, may never come back.
WorkerFairness ==
    /\ SynchronousFairness
    /\ SF_vars(pc["worker"] = "sent" /\ RunnerStep("worker"))

FairQueue == Spec /\ QueueFairness
FairWorker == Spec /\ WorkerFairness

-----------------------------------------------------------------------------
(* The execution implements the ledger: the phase of a plan is read from    *)
(* the audit store, the writes are the requests sent.                      *)

PhaseOf(p) ==
    IF Recorded(audit, "completed", p) THEN "completed"
    ELSE IF Recorded(audit, "ambiguous", p) THEN "ambiguous"
    ELSE IF ProviderStarted(audit, p) THEN "open"
    ELSE "fresh"

Ledger == INSTANCE PlanLedger WITH phase <- [p \in Plans |-> PhaseOf(p)], writes <- sent

\* Through retries, crashes and resubmissions every plan is written in order, each
\* change once, and never again once it was completed or found ambiguous.
LedgerSpec == Ledger!Spec

-----------------------------------------------------------------------------
(* Properties.                                                             *)

\* However often a job is retried, resubmitted or restarted, each change of a
\* plan is sent to the provider at most once.
AtMostOneWrite == \A r \in Plans \X Changes : sent[r] <= 1

\* The volume never understates the provider: once a request has left, a restart
\* reads evidence that forbids running the plan again.
NoHiddenWrite ==
    \A p \in Plans : (\E c \in ChangesOf(p) : sent[<<p, c>>] > 0) =>
        Checkpoint(audit, p) \in {"PROVIDER_BOUNDARY_REACHED", "AMBIGUOUS", "VERIFIED_COMPLETE"}

\* A change is sent only after every earlier change of its plan is in effect at
\* the provider and recorded as verified.
VerifiedPrefix ==
    \A p \in Plans : \A i \in 1..Len(Actions[p]) :
        sent[<<p, Actions[p][i]>>] > 0 =>
            \A k \in 1..(i - 1) : /\ Live(Actions[p][k])
                                 /\ ChangeRecord("change_verified", Actions[p][k]) \in audit

\* A job reported DONE has every change of its plan in effect at the provider,
\* whether it ran through, was reconciled or was found completed.
DoneIsLive ==
    \A j \in Jobs : result[j] # None /\ result[j].outcome = "DONE" =>
        \A c \in ChangesOf(PlanOf[j]) : Live(c)

\* While a job's write is on its way, the changes of every job it depends on are
\* in effect, although the dependency was checked many awaits earlier.
DependencyInEffect ==
    pc["worker"] = "sent" =>
        \A d \in DependsOn[entry["worker"].job] : \A c \in ChangesOf(PlanOf[d]) : Live(c)

\* The two readings of the evidence part on one point only: what the worker's checkpoint
\* lets run is stopped by the runner's own guard just where an older version left the plan
\* in doubt, and the guard is enough, such a plan is never sent.
GuardsPartOnLegacy ==
    /\ pc["worker"] = "reserve" => Replayable(plan["worker"]) \/ LegacyInDoubt(plan["worker"])
    /\ \A p \in Plans : Recorded(audit, "legacy_progress", p) =>
           \A c \in ChangesOf(p) : sent[<<p, c>>] = 0

\* A job file reaches done/ only after its result is on the volume, at whatever
\* point of the outcome the process dies.
ArchivedHasResult == \A j \in archived : result[j] # None

\* FAILED_SAFE is stored only while this version has sent nothing of the plan.
FailedSafeIsSafe ==
    [][\A j \in Jobs : result'[j] # result[j] /\ result'[j].outcome = "FAILED_SAFE" =>
          \A c \in ChangesOf(PlanOf[j]) : sent'[<<PlanOf[j], c>>] = 0]_vars

\* Every accepted handoff leaves the queue with a result, even if the worker
\* waits forever for an answer.
HandoffSettled ==
    \A e \in Entries : e \in incoming ~> (e \notin incoming /\ result[e.job] # None)

\* Where the worker waits for a call that nothing bounds.
Unbounded == {"preflight", "validate", "started", "readback", "reconcile"}

\* The flag that keeps ticks apart is held for good only by one read or one token request
\* that never comes back: through any number of changes, failures and turns of the other
\* actors, neither a write without an answer nor the code between the calls holds it.
HangsOnlyInUnboundedCall ==
    []<>(pc["worker"] = "idle") \/ \E l \in Unbounded : <>[](pc["worker"] = l)

\* What comments and documents say of the code and the code does not do.

\* A comment of processJob: verified writes never collapse to zero in the result.
PartialProgressReported ==
    \A j \in Jobs :
        /\ result[j] # None /\ result[j].checkpoint = "attempt"
        /\ \E c \in ChangesOf(PlanOf[j]) : ChangeRecord("change_verified", c) \in audit
        => result[j].providerWrite
=============================================================================
