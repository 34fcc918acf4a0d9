# Verification of parma-ads-agent

TLA+ models of the parts of this repository that move money or carry work
across restarts, TLC runs on small instances, and TLAPS proofs for every
instance. Paths below are relative to the repository root. `PROJECT.json` maps
each definition to the lines it stands for.

## 1. The system

One Node process on Railway serves HTTP, runs several timers and holds every
background worker. JavaScript runs to completion between two `await`s, so actors
interleave only there; a container restart may strike between any two file
operations, and during a deployment two processes may overlap (only the model of
the runtime has several processes, see section 6). Whatever has to survive is in
JSON files on a volume, replaced by one `rename` each. Google Ads, Meta, GA4 and
GitHub are reached over HTTPS, some requests with a timeout and some without: an
answer can be lost while the request is carried out, at once or later, and a
request without a timeout may never return.

| Component (sources) | State it keeps | Operations | What is hard | What makes it correct |
|---|---|---|---|---|
| Unattended commercial execution (`google-ads-unattended-*.js`, `google-ads-commercial-*.js`) | `incoming/ state/ results/ done/ quarantine/`, append-only audit store | handoff, tick, one-shot run at process start, checkpoint, reconciliation, housekeeping | restart after the provider boundary, late writes, two runners and a housekeeper at once, the same plan handed off twice | a change is written once; the volume never understates the provider; DONE and FAILED_SAFE tell the truth; every handoff is answered |
| Controlled gateway (`google-ads-mutation-gateway.js`, `google-ads-operational-*.js`) | none of its own | preflight, validate-only, boundary, write, read-back | a failure on either side of the boundary | the marker precedes the request; verified means read back |
| Economic budget jobs (`google-ads-economic-budget-job.js`) | `incoming/ state/ results/ done/` | handoff, schedule, check, write, read-back, reconciliation | people edit the campaign, timeouts, expiry, restart | one write per job on the amount that was checked; one final result |
| Autonomous runtime (`autonomous-runtime*.js`, planner, spawner) | one state file, a lock directory with a lease | submit, tick, answer, recover, retry, resume, plan, kill switch | ticks that are not awaited, lapsed leases, a lock left behind | done is final; dependencies first; attempts bounded; the queue drains |
| Recurring scheduler, objective ingress (`recurring-objective-*.js`, `objective-ingress-auth.js`) | schedule file, receipts file | reconcile the schedule, scan, emit, authorize, submit | a death between submitting and remembering it; a clock that goes back; receipts read before an `await` and stored after it | each slot and each signed id yields one objective |
| Google canary (`google-ads-canary-*.js`) | audit store, step authorization in memory | add, read back, remove, emergency rollback | answers that come late or never, people's keyword of the same text, restarts | no keyword is left behind unsaid; only the canary's own is removed |
| Lunch campaign (`google-ads-lunch-campaign.js`) | none of its own, the account is its memory | create, verify, activate, monitor, pause | create tasks that overlap, overdelivery between two looks | one active campaign; the total cap |
| Google controlled executor and journal (`google-controlled-*.js`) | journal, ledger, lock and marker files per account | propose, decide, execute, negative and its rollback | timeouts and deaths around the one request, locks that people remove | one request per proposal; the mandate on enabled budgets |
| Gateways for one mutation (`ads-controlled-execution-core.js`, `google-ads-mutation-gateway.js`, `google-ads-operational-control.js`, `meta-ads-controlled-gateway.js`) | kill switch in memory, append-only store | classify, plan, read, snapshot, apply, read back, stop | a stop or an expiry while a call waits | no write whose call saw a stop before its validate-only request, or without a snapshot, its approval and an inverse |
| Experiments (`ads-controlled-execution-core.js`, `meta-ads-experiment-engine.js`) | table in memory, append-only store | create, transition, approve, expire | an append that throws halfway, a restart | limits on open experiments; nothing runs unapproved |
| Meta paused draft (`meta-safe-*.js`, `meta-paused-draft.js`, `meta-draft-recovery.js`) | operations in flight, in memory | find by name, post the stages, verify, emergency pause | lost answers between two stages, two requests at once, restarts | no stage is created twice |
| Instagram publication (`instagram-*publication*.js`, `instagram-editorial-*.js`) | schedules and states in an audit store | schedule, tick, container, publish, verify, reconcile | two provider calls, a lost answer to the second, ticks with old lists | a package scheduled once is published once |
| Personal-OS exchange (`personal-os-*.js`) | tasks, acknowledgements, nonces, seeds and outbox, a file each | submit, seed, list, acknowledge, emit | a death between three files, envelopes that come late or again | an id stands for one task and one result |
| MCP server and OAuth (`mcp-*.js`) | flows in memory, tokens in a locked file | authorize, consent, exchange, refresh, revoke | calls that overlap while Google answers, replay, a death inside the save | one usable pair of tokens per consent |
| Proposals, promotion, decisions | none; the caller keeps the record | build, decide | - | pure functions of one call |
| Analysis, reports, readiness and status pages | none, or an appended history | read and compute | - | pure functions of one snapshot |

Interactions: the commercial worker and the one-shot run share the runner and
its audit store; both worker and runner read the same records to decide whether
a plan may run. The runner drives the gateway. The scheduler, the ingress and
the HTTP routes submit objectives to the runtime; the runtime's handlers read
its state file and call the provider-facing components, the lunch campaign
among them. The operational control drives the Google gateway with the catalogue
and the kill switch of the core. The Instagram scheduler and the gateways share
the form of the append-only store, not a file.

`PROJECT.json` lists all components with their sources, and the hazards with the
line where each bites.

## 2. Modules

| Module | What it is |
|---|---|
| `CommercialExecution` | worker, one-shot run, housekeeping, runner and gateway over one volume and one provider |
| `PlanLedger` | what executing a plan promises: in order, once, closed for good |
| `CommercialInduction`, `CommercialExecution_proofs` | the inductive invariant and its proof |
| `EconomicBudget`, `EconomicBudget_proofs` | budget jobs, people and provider; invariant and proof |
| `AutonomousRuntime`, `AutonomousRuntime_proofs` | objectives, ticks, leases, lock and processes; invariant and proof |
| `GoogleCanary` | the canary run, its rollback, provider, people and restarts |
| `LunchCampaign` | create tasks, the monitor, the calendar |
| `GoogleControlled` | journal, locks, proposed budgets and one negative |
| `GoogleWrites_proofs` | the proofs of these three |
| `MetaDraft`, `MetaDraft_proofs` | the paused draft by the route or by the one-shot; proof |
| `ControlledGateways` | the catalogues, plans and kill switches, and calls through either gateway |
| `OperationalControl` | what an operational action asks of the gateway and what it sends: operators over `ControlledGateways` |
| `Gateways_proofs` | the proofs of these two |
| `Providers_proofs` | that the provider writes keep their invariants in `MCProviders` |
| `ObjectiveIntake` | schedule and signed ingress |
| `PersonalOs` | queue of procedures, acknowledgements, outbox |
| `McpTokens` | authorization flows and token families |
| `InstagramPublication` | one publication with its schedules and its state |
| `AdsExperiments` | the experiments of both engines |
| `Stores_proofs` | the proofs of these five, alone and in `MCStores` |
| `MCCommercial`, `MCCommercialInduction`, `MCEconomic`, `MCRuntime`, `MCProviders`, `MCStores` | instances for TLC |

Operators whose comment begins with "Variant:" are plausible mistakes in the
definition that follows them. No specification uses them; replacing the
definition by its variant shows which property would catch the mistake.

### CommercialExecution

Variables fall into four groups, like the code's memory: `incoming, corrupt,
quarantined, archived, attempts, jobState, result, audit` are files on the
volume; `inflight, applied, sent` are the provider's side of every request;
`pc, plan, step, boundary, entry, verdict, todo, stop` live in the process and
vanish in `Crash`; `expired, submissions, crashes` belong to the environment. A
`pc` value names the place in the code an actor stands at: `Awaiting` values are
calls it waits for, `Synchronous` ones are stretches without an `await`, during
which `Turn` keeps the other actors of the process out.

`Route` is the order of decisions of `processJob`: quarantine, authorization,
dependency, stop, checkpoint, attempts, credentials. `Checkpoint` is
`classifyCheckpoint` of the worker and `Replayable` is `planReplayState` of the
runner, two readings of one audit store. A store begins as an older version of the
runner may have left it (`LegacyStores`): a plan of `LegacyPlans` may have that
version's start record, and state or change records after it, which the runner
takes for a plan in doubt (`LegacyInDoubt`) and the worker's checkpoint for one
that is merely reserved. `Refused` and `Unbound` are plans refused for good or for
a reason the worker takes for a passing one (`RefusalVerdict`); a grant of
`Outliving` is still valid when its file has run out, which `GuardOpen` and
`GuardClosed`, who look at the grant only, then tell apart. `Reserve`, `PreflightPasses`,
`CrossBoundary`, `SendWrite`, `WriteAcknowledged`, `ReadBackVerified` follow one
change through runner and gateway; the failing alternatives are actions of their
own and differ in whether the boundary was crossed. `writeOutcome` is three
steps, `SaveState`, `SaveResult`, `Archive`, since a restart may fall between
them. Whether a change of an ad schedule overlaps another, what a signature
covers and what the plan contains are each one outcome of a check.

The refinement mapping to `PlanLedger` takes a plan's phase from its checkpoint
(`PhaseOf`) and its writes from `sent`.

### EconomicBudget

`attached` and `amount` are the campaign at the provider, which `EditAmount` and
`Reattach` change behind the worker's back. The worker's steps are
`BeginRead`, `CheckPasses` (mark, then validate-only), `Validated`, `SendWrite`,
`WriteAcknowledged` or `TimesOut` or `FailsOtherwise`, `ReadBack`, `SaveResult`,
`Archive`; `GiveUpExpired`, `AlreadyResolved`, `BeginReconcile` are the earlier
exits in the order of the code. `Rank` is the sort by `execute_at`. Amounts are
members of a small set of naturals.

### AutonomousRuntime

`queue, status, order, task, attempts, lease, killed` are the state file. Clock
values are abstracted to what comparisons with the clock yield: `overdue` (leases
that lapsed) and `backoff` (retries not yet due). `lock` is the lock directory
between sections: a section of the living is atomic, so only a process that died
inside one leaves it `left`, later `lapsed`, or `orphan` when it died before
`lease.json` was written. `running` holds the handlers in flight with the worker
and the attempt they were claimed with. `Claim`, `AskHuman`, `SkipDuplicate`,
`Close`, `OnlyRecover` are the exits of the first half of `tick()`, each
including the recovery of lapsed leases that opens it; `Plan`, `PlanComplete`,
`PlanBusy` are the handler of `google_ads.cycle_plan`; `Validated`, `Retry`,
`Block`, `Discard`, `Lose` are the second half. READY, RUNNING and RETRY_WAIT of
an objective are one value, `ACTIVE`, because every decision of the code asks
only for membership in `ACTIVE`. Line 90 (a selected task that still has a
foreign lease) can not be reached, since whatever makes a task pending or
waiting clears its lease, and is left out. The objective's planner tasks have a
valid campaign id. A planner's unlocked read and its locked spawn are one step.

### The provider writes

`GoogleCanary`: `criteria` are the keywords of the canary's text, each known by
who made it; `adding` and `removing` are requests under way. One process pc
follows the run, each `await` being a step; `CanaryFind` takes any row, as the
code takes the first one; `CanaryException` and `CanaryRestart` end it anywhere.

`LunchCampaign`: `creating`, `enabling`, `pausing` are requests under way;
`creatorPc` and `monitorPc` the tasks of the runtime; `serving` and `day` the
calendar, on which only `NothingUnderWay` lets time pass, since calls take seconds
and the parts of a day hours. An amount is a multiple of EUR 5, or scaled down
with the threshold, overdelivery and cap in the same relation. The cost the monitor
reads is taken to be complete once the hours have ended; costs that Google reports
later are not in the model.

`GoogleControlled`: `proposal` is the journal, `record` the ledger, `pendingMark`,
`accountLock` and `journalLock` the files beside it. `Take` is the first look under
the lock, `Record` the second validation with marker and record, `SendOnce` the
request, `Answered`, `Uncertain`, `Blocked`, `CheckFails` and `Dies` its ends.
`LockRemoved` is people, the only ones who remove a dead process's lock.

`MetaDraft`: an object is its stage and the request that posted it, because names
are equal for every draft of a day. `DraftFind` walks the collections as the
inspection does, `DraftPost` posts what is missing, `late` is history.

`ControlledGateways` and `OperationalControl`: a call reads and stores its snapshot,
looks at the switch once more (`GoAhead`), sends its validate-only request
(`ValidateOnly`) and then the write (`SendMutation`); a stop that comes between the
last two is not seen. `gwForewarned` are the calls that a stop reached before their
validate-only request, and `gwSent` records with each write whether it is one of
those, its snapshot and its approval. `InverseOf` is the plan of
the rollback. `Compiled` is the operation of an action and `RequestOf` its request;
`Sendable` is what the transport accepts.

### The stores

`ObjectiveIntake`: `emitted` marks slots in the schedule file; `SchedulerTick`
ends stored, thrown or dead; `LocalTime` maps minutes to slots, the repeated hour
included. `Load` and `Allow` are the two sides of the signature's `await`;
`overtaken` says that a stale copy of the receipts was stored.

`PersonalOs`: every record is a file; `AcceptAck(e, until)` may stop after the
nonce or the record, `Seed` before the marker. `accepted` is history.

`McpTokens`: a family is named after its flow and `Pairs` are its rotations;
`held` are the pairs clients know. `Ends` are the ways a call ends: answered, lost,
or a death inside the save that leaves the lock file.

`InstagramPublication`: `Visit` handles a schedule in one step up to the execution,
as the code does; `stale` are schedules a busy tick still has on its old list;
`publishing` are calls whose effect is still open. An attempt ends with three
appends, and `RecordsCut` is a death between them.

`AdsExperiments`: `order` is the engine's table, `shownStatus` what the store shows;
each action of the engine has the alternative that its append throws. The decision
noted with an experiment that ends is not in the model: nothing reads it, and whoever
closes an experiment may note any word. Experiments of Meta are created as
`createMetaExperiment` does it; the checks of budget and of other searches are
functions of their own that nothing calls on the way.

### Composition

`MCProviders` and `MCStores` each hold components that share no state and no
actor: every one runs by itself, and `focus` says which one a behaviour is about,
so that one run checks all of them without the product of their states. Their
properties are stated over all components at once, since those out of focus stay
in their initial state. `ProvidersIInv` and `StoresIInv` join the types and the
inductive invariants of the components. That each component behaves in the
composition as it does alone is proved (`ProvidersApart`, `StoresApart`).

## 3. Runs

| Run | Instance | Question |
|---|---|---|
| `CommercialRetry` | one plan of two changes, two jobs, two handoffs, two attempts, one restart, one damaged file, records of an older version | is every change sent once and told truthfully? |
| `CommercialChain` | two plans, the second job waiting for the first, one restart, expiring grants | does DONE mean live, do dependencies hold when the write leaves, is every handoff answered? |
| `CommercialStartup` | a job and a plan run at process start that share a change id, two refused plans, a grant that outlives its file, two attempts, one restart | do the two runners stay apart, in order and once, does the execution implement `PlanLedger`, and what may hold the worker for good? |
| `EconomicRetry` | a raise and the job that reverts it, three handoffs, one restart, one edit, one damaged file | one marked write per job, on the checked amount, one final result for each readable job? |
| `RuntimeRecovery` | a planned cycle of two stages, each with its planner and one task, two workers, and one each of death, slow handler, lost answer, operator decision | are done tasks and objectives final, dependencies held, executions and attempts accounted for? |
| `RuntimeQueue` | two objectives, two tasks with one key, one for a person, the same faults and one use of the kill switch | does every objective end or wait for a decision? |
| `ProviderWrites` | two canary runs; two create tasks and two campaigns over three days; two workers, two proposals, one negative, one edit by people; two draft requests; two calls through the gateways | is what is created once one, what is capped capped, what is stopped stopped, and every leftover named? |
| `DurableStores` | two tasks, times and nonces; two flows of three pairs; three slots over four minutes and two signed calls; two schedules and two publish calls; four experiments for serendipity, two of them of low volume, and two of Meta | is what was done once done once, from what was stored? |
| `PartialProgress` | one plan whose second change fails | refutes that verified writes reach the result |
| `StartupSamePlan` | the process start and a job carry one plan | refutes that a change is sent once |
| `WriteClosedUnread` | one budget job | refutes that a write in doubt is read before the job is closed |
| `BlockedWedges` | an objective with a task in flight and one for a person | refutes that a blocked objective is not active |

**Bounds.** Each hazard needs few actors: two writers of one plan, two changes
of one plan (an earlier one verified, a later one failing), two attempts (a
first that fails, a last that exhausts), one restart (what the restarted process
does depends only on the volume, so a second restart starts from a state a first
one could have produced) and two workers. `MaxSubmits`, `MaxCrashes`,
`MaxCorrupt`, `MaxEdits`, `MaxSlow`, `MaxBusy`, `MaxResumes`, `MaxSwitches` bound
what the environment does and nothing the program does, as do `MaxCanaryRuns`,
`LunchDays`, `MaxPeople`, `MaxRequests`, `MaxMutations`, `MaxEnvelopes`, `Deploys`,
`MaxPairs`, `MaxUnsaved`, `LastMinute`, `LastHour`, `MaxSchedules`,
`MaxPublishCalls` and `MaxThrows`: two of each kind meet, which is what each hazard
needs, and three days or three pairs let a second step follow on the first one's
consequences. `MaxAttempts` is 3 in
the code and 1 or 2 here. The proofs have none of these bounds fixed.
`RuntimeRecovery` uses the symmetry of the two workers, `DurableStores` that of
experiments with equal inputs; no liveness property is checked in either. Deadlock is
not reported because each system comes to rest when the environment has used up its bounds.

**Fairness.** `FairQueue` (CommercialChain) asks only that timers fire and code
between two awaits runs on; it promises nothing of the provider, so
`HandoffSettled` shows that the housekeeping answers a job even while the worker
waits for ever. `FairWorker` (CommercialStartup) asks that code between two awaits
runs on and that the POST of a write comes back, which has a timeout
(`google-ads-operational-rest-transport.js:178`). The reads
(`google-ads-commercial-runner.js:123-153`, 228) and the token request before a POST
(line 171 of the transport) have none in this repository, so nothing is asked of them
and `HangsOnlyInUnboundedCall` names them as the only places where the worker may stay.
`FairSpec` of EconomicBudget asks that the clock moves and that the worker's calls
return, though not that a request is ever carried out or a read ever succeeds. That
its reads return is an assumption about the client library, since this repository
gives them no timeout: `EveryJobAnswered` says what holds if they do. `FairSpec` of
AutonomousRuntime asks that the platform restarts a dead process, timers fire,
handlers return, and leases, retries and locks run out; a lease never has to
lapse under a running handler.

## 4. What the runs found

1. **Verified writes reported as none** (`PartialProgress`). When a later change
   of a plan throws, `runCommercialOneShot` returns no results and `processJob`
   stores `writes_executed: 0`.
2. **One plan, two runners** (`StartupSamePlan`). The replay guard is read before
   the first `await` and nothing reserves a plan between the one-shot run and
   the worker.
3. **Doubtful write closed unread** (`WriteClosedUnread`). Only some error
   messages are taken for ambiguous, and expiry is tested before the pending mark.
4. **Blocked objective made active** (`BlockedWedges`). A handler's answer sets
   its objective to READY over NEEDS_HUMAN. The objective then holds the head of
   the queue, and `resumeObjective` refuses it. `QueueDrains` names this state
   (`Wedged`) as one of the two in which the queue may stand still; the other is
   a lock directory without `lease.json`, which no section ever removes.

TLC reaches further disagreements between code and text that have no run of their own:

- a plan that completed and whose job expires before its outcome is stored ends
  NEEDS_HUMAN (`google-ads-unattended-runner.js:222`), where
  `docs/UNATTENDED_RAILWAY_EXECUTION.md:47` has a completed plan DONE;
- the housekeeping archives jobs that are BLOCKED_EXTERNAL
  (`google-ads-unattended-runner.js:421`), against lines 60-61 of that document;
- the reconciliation of a budget job compares the amount of whatever budget the
  campaign has now (`google-ads-economic-budget-job.js:307`);
- after an ambiguous budget write the tick goes on with the next job (line 380
  there), so two writes can be on their way at once;
- a budget job whose file cannot be read is never reported (line 222 there);
- a plan that an older version left in doubt passes the worker's checkpoint for one
  without a write (`google-ads-unattended-runner.js:129`) and is stopped by the
  runner's guard; should its attempts be used up first, it is reported FAILED_SAFE
  although the older version may have written;
- the reads of a commercial job have no timeout: one that never returns keeps the
  ticking flag (`google-ads-unattended-runner.js:458`) and with it every other job of
  the process, which only the housekeeping then answers.

The provider writes and the stores, likewise read in the models and in the code:

- *Canary.* The emergency rollback takes the first keyword of the text
  (`google-ads-canary-runner.js:244`), which may be people's, though the runbook
  removes "only the agent-created resource"; `RemovesItsOwn` says exactly when. Its
  failures report one executed write even if nothing was written, while an
  exception after a write is logged as blocked. A restart after the ADD leaves the
  keyword, and the next run answers `already_present`.
- *Lunch campaign.* The cap holds only if the monitor completes every day, which is
  the premise of `LunchCapHeld`. A campaign that stayed paused is counted as validated.
- *Gateways.* A `resource_name` of an operational removal or update may be of any
  collection and is not tied to the campaign, though the comment at
  `google-ads-operational-control.js:70` asks for it. A stop that comes while its
  validate-only request is under way (lines 164-172 there) is not seen, and the write
  leaves. The kill switch is forgotten at a restart. A request for an
  emergency rollback blocks the gateway the rollback has to pass, and nothing
  clears it. The inverse of `pause_campaign` needs an approval that the pause does
  not, so its plan is never ready. The Meta gateway passes the switch no campaign
  and no experiment, never compares the approval class with its catalogue, and never
  consumes a single-use authorization.
- *Experiments.* A restart forgets the limit on open experiments while the store
  still shows them. Closing an experiment notes the caller's words as its outcome
  (`ads-controlled-execution-core.js:521`), so one that never ran may be noted as KEEP;
  at Meta, closing a decided experiment erases its decision, and neither the budget nor
  a second search is looked at when one is created. No server route reaches the engines
  or the Meta gateway.
- *Controlled changes.* A lock or a marker left by a dead process stops the account
  until people act: the lock is taken at `google-controlled-executor.js:45` and given back only
  by the process that took it, as the comment at line 46 intends. The
  inventory reader always reports conversion integrity untrusted, so no increase
  passes today.
- *Meta draft.* The bootstrap registers the create route before the body parser
  (`server.js:38`): deployed, it always answers 400, and the one-shot's variable is
  blanked (`bootstrap.js:5`), so a deployed server makes no draft. A post carried out after its
  request ended is the one way to a second stage.
- *Instagram.* The reconciliation never has an id to ask for, so it can confirm
  nothing. A second schedule sets a state of unknown outcome back to SCHEDULED, after
  which the package may be published twice; `ScheduledOncePublishedOnce` excludes it.
  The retry of a failed container is always taken for a duplicate.
- *Personal OS.* A death between a seed and its marker makes every later start throw
  `step3_request_id_conflict`. Equal outcomes of two objectives are one handoff. The
  outbox lists its oldest hundred and nothing removes any.
- *MCP.* A death inside the save leaves the lock file and every later save fails
  until people remove it.
- *Intake.* A busy lock of the runtime is swallowed while `last_scan_at` moves on, and a receipt is
  stored before the submission: in both cases an objective can be lost.

## 5. Proofs

All constants are arbitrary under the named `ASSUME`s of the modules. A condition
that only some theorems need is a hypothesis of those and named with them. Every
safety property the runs check is also proved; the inductive invariants behind the
proofs are part of what TLC checks (`IInv`, `ProvidersIInv`, `StoresIInv`).

**Commercial execution** (`CommercialExecution_proofs`). `WritesAtMostOnce` and
`EvidenceComplete`: at-most-once is not inductive, one needs to know that a runner about
to send has its marker on the volume (`Marked`), that what it still has to send nobody
has sent (`Unsent`), that a runner is inside one of its plans at one of its changes
(`InPlan`, `Placed`, `Informed`), and types. `Reserve` re-establishes `Unsent` from the
checkpoint: a plan that may run has no `StartedRecord`, hence by `Marked` nothing was
sent. `WritesAtMostOnce`, `FailedSafeUnsent` and `ImplementsLedger` have the hypothesis
`StartupApart`, that the plan of the process start is not also a job; run
`StartupSamePlan` shows them false without it. The others do not need it:
`SentAfterVerified` (a change is sent only over verified earlier ones), from which
`DoneMeansLive` and, over the job's dependencies, `DependenciesInEffect` follow, since
what is live stays live; `LegacyNeverSent` (the worker's checkpoint and the runner's
replay guard part only on a plan that an older version left in doubt, and such a plan is
never sent); `ArchivedAnswered`. `ImplementsLedger` is the refinement of `PlanLedger`:
initial states map to initial states, and every step to a step of the ledger or a
stutter, by the phase that the checkpoint gives a plan.

**Budget jobs** (`EconomicBudget_proofs`): `BudgetWrittenAtMostOnce`,
`BudgetWriteIsMarked`, `BudgetResultIsFinal`, `BudgetAppliedAsChecked`. The
strengthening is `MarkedStaysDue` (a marked job is never set back to SCHEDULED) and
`AtItsStep` (what the worker knows of the job at each step: read only unmarked,
write only marked and unsent, nothing at all once there is a result). That a write
is applied as it was checked needs that only what was sent is in flight or applied,
never both (`AppliedWasSent`), that a job is done only after it was applied
(`DoneWasApplied`), and that an undisturbed campaign stays what the check saw
(`CheckHolds`).

**Runtime** (`AutonomousRuntime_proofs`). `TaskDoneIsFinal`: a planner only adds
tasks that are not listed (`Listed`) and everything else touches tasks that are not
done; dependencies then stay done under a running handler (`DependenciesAreDone`).
`AttemptsAreBounded` counts excuses: every task that may be claimed once more
(`MayRunAgain`: it waits, its lease lapsed, its latest execution is gone, or the lock
is held by the dead) has fewer attempts than `MaxAttempts` plus the excuses so far
(`SomethingLeft`), where an execution belongs to the latest attempt exactly if it
holds the lease (`Latest`, `OverdueRuns`). `LeaseIsExclusive` rests on the same
counting, without deaths and lost answers: where nothing holds the lease, there are
at most as many executions as leases lapsed (`LapsesExplain`).
`DoneObjectivesStayComplete` has the hypothesis `CycleShape`, what `planNext` gives
the tasks it spawns: a planner behind every stage but the last, with ids and keys of
their own. The proof shows that the cycle never loses its next planner: as long as
stages are missing, a planner for the next one exists and is unspent, or the
objective is stuck. Stuck it is when an operator completed a planner by hand, which
takes its spawn away: the number of blocked tasks, less one while the objective may
be resumed, never decreases, so such an objective is never DONE either.

**Google writes** (`GoogleWrites_proofs`).
*Controlled changes* (`RequestsOneByOne`): the lock has one holder (`OneHolder`), and
records and marker say what may be under way (`RequestsKept`): no record, no request;
a request under way has the marker or its waiting sender. A removed lock then harms
nothing, because a next worker is stopped by the marker. `BudgetsStayInMandate`
builds on it: since no other change is under way, the account a change was fitted to
is the account it is carried out on (`BudgetsFit`). Its hypothesis is that the
account begins within the mandate; the sum of the enabled budgets is never unfolded,
so no induction over the campaigns is needed.
*Lunch campaign* (`OneCampaignRuns`, `CapHolds`): what is active, to be activated or
verified is one campaign and none of these is still to be created (`ChosenOnce`),
because the creation is read back by a name that must be unique. The cap needs to
know that while a creation is under way a campaign costs only what it spent today,
and that after a monitored day an active one is below the threshold (`CostKept`);
`LunchAssumption` leaves one day's overdelivery below the cap.
*Canary* (`CanaryRemovesItsOwn`, `CanaryLeavesNothingSilently`): an ADD belongs to one
run and is carried out once, and a provider names only what was made (`CanaryKept`);
what a run that ended well says of its keyword was read after the keyword had been
made (`VerdictKept`).

**Meta draft** (`MetaDraft_proofs`): `DraftStageMadeOnce`. Two requests for one start
time are never under way together (`OneActive`); a post on its way is of the stage its
request waits for, or of a request that has ended (`PostsKept`); an object stands on
the parents its request holds ids of (`IdsKept`); and what a request has looked for
and not found is not there on time (`NothingOverlooked`). The proof is long because
the stages form a tree in which one stage may hang on parents of either request.

**Gateways** (`Gateways_proofs`): `GatewayWritesCaged`, `OperationsAreCarried`. A call
that may send has its snapshot, its approval and a plan that is ready, and one that a
stop reached before its validate-only request stays stopped until it has returned,
since a stop is not taken back while the process lives (`CallsKept`). A stop after
that request is not claimed to be seen. Whatever leaves was classified, so by cases over
both catalogues its inverse exists and asks for no more approval; and over the
operational actions, one type at a time, the transport takes what the gateway approved.

**Stores** (`Stores_proofs`).
*Intake* (`ObjectiveTakenOnce`): what was submitted is marked or counted as unsaved,
and an id submitted, or about to be, has its receipt (`IntakeKept`); the set of
pending calls is finite.
*Personal OS* (`OneTaskUnderAnId`): a pending task was taken in, and a free unanswered
id has seen none (`QueueKept`).
*MCP* (`OnePairIsAccepted`): only the last pair of a family is of use (`LastPair`), and
a code comes once of an approved flow (`FlowsKept`).
*Instagram* (`PublishedOnce`): once an execution has begun or a call was sent, the
one schedule is never again both in its window and open to another try, and a call
follows no other (`SpentKept`); what is said to be live was published (`LiveKept`).
*Experiments* (`ExperimentsStayCaged`): the open ones the engine knows are finite, a new
one opens only below the limit and, on a campaign of low volume, beside no other search
of that kind; every other step, halfway or whole, closes or leaves them. What an append
that threw left undone is never ahead of the engine, so neither shows an unapproved
experiment as running.

**Compositions** (`ProvidersInductive`, `StoresInductive`): each component's
specification follows from the composition's, which is why the invariants above are
those of the runs as well.

**Found by the proofs.** Four definitions were CASEs with overlapping guards, on which
TLC takes the first branch and the prover none: `FirstMissing`, `GoogleClass`,
`Derived` and `RestTakes` are disjoint now. `RuntimeRecovery` had a cycle of one stage,
on which a lost planner cannot show; it has two.

**Model-checked only:** liveness under fairness (`HandoffSettled`,
`HangsOnlyInUnboundedCall`, `EveryJobAnswered`, `QueueDrains`), which is out of the
prover's reach. The four properties that the code violates are counterexamples of TLC
and have no theorem.

## 6. Not modelled

**Overlapping processes.** Only `AutonomousRuntime` has more than one process. All other
modules restart theirs at any point but never have two at once, as a deployment may for
a while: the flags and locks in memory (the worker's ticking flag, the operations of the
Meta route, the execution lock of Instagram, the single kill switch) then hold for each
process by itself, and `AtMostOneWrite`, `StageMadeOnce`, `ScheduledOncePublishedOnce`
and `OnePairPerFamily` are claims about one process at a time. The locks of the
controlled executor are files and do reach across processes.

**Left out, with what it means.** File operations that throw (full or unwritable
volume), except the append of the experiments. The `DRY_RUN` mode of the commercial runner. Audit
records nobody reads back. Hash chains, signatures and digests beyond "matches or not":
`Retire` takes every job file for a signed one, as the command line makes them. The
overlap test on ad schedules; the take-over of a lapsed runtime lock file by file; the
contents of payloads, ads and media; the hosting of media and the ingress of Instagram
packages; the read gateway of step 7. `AutonomousRuntime.Submit` takes objectives of
distinct ids, which the code does not ask for (`autonomous-runtime.js:75`): two of one
id are outside the model. `ObjectiveIntake` keeps every mark of one schedule, where the
code keeps a thousand of all schedules together (`recurring-objective-scheduler.js:24`),
and excuses an id that two signed calls took in at once, the lost update which its
variable `overtaken` records, instead of forbidding it.

The specialists, analyses, shadow operation, reports, readiness pages, proposals and
decisions compute from one snapshot and keep no state of their own. The HTTP server
routes: what it holds itself is the one-shot flag of `MetaDraft`.

## 7. Plan

1. The runtime's lock file by file, and `ObjectiveIntake` composed with
   `AutonomousRuntime` at its submission.
2. Two processes of a deployment, in the modules that have one.
3. Safety lemmas behind the liveness properties: what is enabled while `Wedged` is
   false, and that a tick visits jobs in a fixed order.
4. Abstract specifications for the budget jobs and the controlled changes, after
   `PlanLedger`, with their refinements.
