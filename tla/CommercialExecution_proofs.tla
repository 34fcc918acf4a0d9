--------------------- MODULE CommercialExecution_proofs ---------------------
(***************************************************************************)
(* What the run properties of CommercialExecution state, for every set of  *)
(* jobs and plans, every number of attempts, handoffs and crashes.  What   *)
(* is sent once, and the ledger, need that the plan of the process start   *)
(* is not also handed off as a job (StartupApart); the rest does not.      *)
(***************************************************************************)
EXTENDS CommercialInduction, TLAPS

USE NoneAssumption, PlanOfAssumption, ActionsAssumption, DependsOnAssumption,
    StartupPlanAssumption, RefusalAssumption, LegacyAssumption, BoundAssumption, NoVerdictAssumption

USE DEF volume, provider, process, environment

\* What the other invariants speak about is there: types, places, plans and jobs at hand.
Situated == TypeOK /\ Placed /\ Informed /\ InPlan

-----------------------------------------------------------------------------
(* Types.                                                                  *)

LEMMA InitTypeOK == Init => TypeOK
<1>1. LegacyStores \subseteq SUBSET AuditRecords
  BY DEF LegacyStores, AuditRecords, AuditEvents, PlanRecord
<1> QED
  BY <1>1 DEF Init, TypeOK, Boot, FreshPc, Synchronous, Awaiting, Actors, Runners, Writers

\* What the outcome of a failed or finished run looks like.
LEMMA VerdictType ==
  ASSUME NEW o \in JobResults, NEW s \in JobStates, NEW k \in Checkpoints,
         NEW n \in 0..MaxAttempts, NEW w \in BOOLEAN, NEW arch \in BOOLEAN
  PROVE  Verdict(o, s, k, n, w, arch) \in Verdicts
  BY DEF Verdict, Verdicts

LEMMA AttemptType == ASSUME Situated PROVE Attempt \in 0..MaxAttempts
  BY DEF Situated, TypeOK, Attempt, Entries, Writers

\* What a plan that is not let in leaves to store.
LEMMA RefusalType == ASSUME Situated, NEW p PROVE RefusalVerdict(p) \in Verdicts
<1>1. /\ Verdict("NEEDS_HUMAN", "NEEDS_HUMAN", "attempt", Attempt, FALSE, TRUE) \in Verdicts
      /\ Verdict("DONE", "VERIFIED_COMPLETE", "completed", Attempt, FALSE, TRUE) \in Verdicts
      /\ \A b \in BOOLEAN :
             Verdict("FAILED_SAFE", "FAILED_SAFE", "attempt", Attempt, FALSE, b) \in Verdicts
  BY AttemptType, VerdictType DEF JobResults, JobStates, Checkpoints
<1>2. (Attempt >= MaxAttempts) \in BOOLEAN
  OBVIOUS
<1> QED
  BY <1>1, <1>2 DEF RefusalVerdict

\* What BeginReconcile stores if the reads prove nothing.
LEMMA Unproved ==
  ASSUME TypeOK, NEW e \in todo, NEW b \in BOOLEAN
  PROVE  Verdict("NEEDS_HUMAN", IF b THEN "AMBIGUOUS" ELSE "NEEDS_HUMAN", "boundary",
                 attempts[e.job], FALSE, TRUE) \in Verdicts
<1>1. attempts[e.job] \in 0..MaxAttempts
  BY DEF TypeOK, Entries
<1> QED
  BY <1>1 DEF Verdict, Verdicts, JobResults, JobStates, Checkpoints

LEMMA TypeStep == ASSUME Situated, [Next]_vars PROVE TypeOK'
<1> USE DEF Situated
<1>1. CASE UNCHANGED vars
  BY <1>1 DEF vars, TypeOK
<1>2. CASE Tick
  BY <1>2 DEF Tick, TypeOK
<1>3. ASSUME NEW e \in corrupt, Quarantine(e) PROVE TypeOK'
  <2>1. Verdict("NEEDS_HUMAN", "NEEDS_HUMAN", "corrupt", 0, FALSE, FALSE) \in Verdicts
    BY VerdictType, 0 \in 0..MaxAttempts DEF JobResults, JobStates, Checkpoints
  <2>2. e \in Entries /\ e.job \in Jobs
    BY DEF TypeOK, Entries
  <2> QED
    BY <1>3, <2>1, <2>2 DEF Quarantine, TypeOK, Entries, Synchronous, Actors, Writers, Runners
<1>4. ASSUME NEW e \in todo, NEW route, NEW v \in Verdicts, Concludes(e, route, v)
      PROVE  TypeOK'
  BY <1>4 DEF Concludes, Takes, TypeOK, Synchronous, Actors, Writers, Runners
<1>5. ASSUME NEW e \in todo,
             \/ RejectUnauthorised(e) \/ WaitForDependency(e) \/ HoldForStop(e)
             \/ ReplayCompleted(e) \/ AttemptsExhausted(e) \/ ProviderUnavailable(e)
      PROVE  TypeOK'
  <2> e \in Entries /\ attempts[e.job] \in 0..MaxAttempts
    BY DEF TypeOK, Entries
  <2> QED
    BY <1>4, <1>5, VerdictType DEF RejectUnauthorised, WaitForDependency, HoldForStop,
       ReplayCompleted, AttemptsExhausted, ProviderUnavailable, JobResults, JobStates, Checkpoints
<1>6. ASSUME NEW e \in todo, BeginReconcile(e) PROVE TypeOK'
  <2> DEFINE v == Verdict("NEEDS_HUMAN",
                          IF Checkpoint(audit, PlanOf[e.job]) = "AMBIGUOUS" THEN "AMBIGUOUS" ELSE "NEEDS_HUMAN",
                          "boundary", attempts[e.job], FALSE, TRUE)
  <2>1. v \in Verdicts
    BY Unproved
  <2>2. verdict' = [verdict EXCEPT !["worker"] = v]
    BY <1>6 DEF BeginReconcile
  <2> HIDE DEF v
  <2>3. verdict' \in [Writers -> Verdicts \cup {None}]
    BY <2>1, <2>2 DEF TypeOK
  <2>4. pc' \in [Actors -> Synchronous \cup Awaiting] /\ entry' \in [Writers -> Entries \cup {None}]
    BY <1>6 DEF BeginReconcile, Takes, TypeOK, Awaiting, Actors, Writers
  <2> QED
    BY <1>6, <2>3, <2>4 DEF BeginReconcile, Takes, TypeOK
<1>7. ASSUME NEW e \in todo, BeginAttempt(e) PROVE TypeOK'
  <2>1. e.job \in Jobs /\ attempts[e.job] + 1 \in 0..MaxAttempts
    BY <1>7 DEF BeginAttempt, Takes, Route, TypeOK, Entries
  <2> QED
    BY <1>7, <2>1 DEF BeginAttempt, Takes, TypeOK, Synchronous, Actors, Writers, Runners,
       JobStates
<1>8. ASSUME NEW verified \in BOOLEAN, FinishReconcile(verified) PROVE TypeOK'
  <2>1. verdict["worker"] \in Verdicts /\ verdict["worker"].attempts \in 0..MaxAttempts
    BY <1>8 DEF FinishReconcile, Informed, Writers, Verdicts
  <2>2. verdict'["worker"] \in Verdicts /\ verdict' = [verdict EXCEPT !["worker"] = verdict'["worker"]]
    BY <1>8, <2>1, VerdictType DEF FinishReconcile, TypeOK, Writers, JobResults, JobStates, Checkpoints
  <2> QED
    BY <1>8, <2>2 DEF FinishReconcile, TypeOK, Synchronous, Actors, Writers, Runners
<1>9. ASSUME NEW a \in Runners, NEW v \in Verdicts, RunEnds(a, v)
      PROVE  /\ pc' \in [Actors -> Synchronous \cup Awaiting]
             /\ verdict' \in [Writers -> Verdicts \cup {None}]
  BY <1>9 DEF RunEnds, TypeOK, Synchronous, Awaiting, Actors, Writers, Runners
<1>10. ASSUME NEW a \in Runners, Reserve(a) PROVE TypeOK'
  <2> DEFINE p == IF a = "worker" THEN plan[a] ELSE StartupPlan
  <2>1. p \in Plans
    BY <1>10 DEF Reserve, Placed, InPlan, Runners, RunningPcs, OutcomePcs
  <2>2. CASE p \notin Refused \cup Unbound /\ Replayable(p)
    <3>1. PlanRecord("reserved", p) \in AuditRecords
      BY <2>1 DEF PlanRecord, AuditRecords, AuditEvents
    <3>2. /\ audit' = audit \cup {PlanRecord("reserved", p)}
          /\ pc' = [pc EXCEPT ![a] = "preflight"]
          /\ plan' = [plan EXCEPT ![a] = p]
          /\ step' = [step EXCEPT ![a] = 1]
          /\ boundary' = [boundary EXCEPT ![a] = FALSE]
          /\ UNCHANGED <<verdict, volume, provider, entry, todo, stop, environment>>
      BY <1>10, <2>2 DEF Reserve
    <3> HIDE DEF p
    <3> QED
      BY <2>1, <3>1, <3>2 DEF TypeOK, Awaiting, Actors, Runners, Writers
  <2>3. CASE ~(p \notin Refused \cup Unbound /\ Replayable(p))
    <3>1. PICK v \in Verdicts : RunEnds(a, v)
      BY <1>10, <2>3, RefusalType DEF Reserve
    <3>2. UNCHANGED <<audit, plan, step, boundary, volume, provider, entry, todo, stop, environment>>
      BY <1>10, <2>3 DEF Reserve
    <3> QED
      BY <1>9, <3>1, <3>2 DEF TypeOK
  <2> QED
    BY <2>2, <2>3
<1>11. ASSUME NEW a \in Runners, pc[a] \in RunningPcs
       PROVE  /\ plan[a] \in Plans /\ Change(a) \in Changes
              /\ \A event \in AuditEvents : /\ ChangeRecord(event, Change(a)) \in AuditRecords
                                            /\ PlanRecord(event, plan[a]) \in AuditRecords
              /\ StartedRecord(plan[a], Change(a)) \in AuditRecords
  <2>1. plan[a] \in Plans /\ Change(a) \in Changes
    BY <1>11 DEF InPlan, Change
  <2> QED
    BY <2>1 DEF ChangeRecord, PlanRecord, StartedRecord, AuditRecords, AuditEvents
<1>12. ASSUME NEW a \in Runners, NEW from, NEW to \in Synchronous \cup Awaiting, Moves(a, from, to)
       PROVE  TypeOK'
  BY <1>12 DEF Moves, TypeOK, Actors, Writers, Runners
<1>13. ASSUME NEW a \in Runners, NEW from, NEW to, NEW records, Appends(a, from, to, records),
              to \in Synchronous \cup Awaiting, records \subseteq AuditRecords,
              step' \in [Runners -> Nat], boundary' \in [Runners -> BOOLEAN]
       PROVE  TypeOK'
  BY <1>13 DEF Appends, TypeOK, Actors, Writers, Runners
<1>14. ASSUME NEW a \in Runners,
              FailsBeforeBoundary(a) \/ TokenFails(a) \/ WriteFails(a) \/ ReadBackUnreadable(a)
       PROVE  TypeOK'
  BY <1>12, <1>14 DEF FailsBeforeBoundary, TokenFails, WriteFails, ReadBackUnreadable,
     Synchronous
<1>15. ASSUME NEW a \in Runners, PreflightPasses(a) PROVE TypeOK'
  <2>1. Appends(a, "preflight", "validate", {ChangeRecord("state", Change(a))})
    BY <1>15 DEF PreflightPasses
  <2>2. pc[a] \in RunningPcs
    BY <2>1 DEF Appends, RunningPcs
  <2>3. {ChangeRecord("state", Change(a))} \subseteq AuditRecords
    BY <1>11, <2>2 DEF AuditEvents
  <2>4. step' \in [Runners -> Nat] /\ boundary' \in [Runners -> BOOLEAN]
    BY <1>15 DEF PreflightPasses, TypeOK
  <2>5. "validate" \in Synchronous \cup Awaiting
    BY DEF Synchronous, Awaiting
  <2> QED
    BY <1>13, <2>1, <2>3, <2>4, <2>5
<1>30. ASSUME NEW a \in Runners, GuardRefuses(a) PROVE TypeOK'
  <2>1. Appends(a, "validate", "refused", {ChangeRecord("validate_only", Change(a))})
    BY <1>30 DEF GuardRefuses
  <2>2. pc[a] \in RunningPcs
    BY <2>1 DEF Appends, RunningPcs
  <2>3. {ChangeRecord("validate_only", Change(a))} \subseteq AuditRecords
    BY <1>11, <2>2 DEF AuditEvents
  <2>4. step' \in [Runners -> Nat] /\ boundary' \in [Runners -> BOOLEAN]
    BY <1>30 DEF GuardRefuses, TypeOK
  <2>5. "refused" \in Synchronous \cup Awaiting
    BY DEF Synchronous, Awaiting
  <2> QED
    BY <1>13, <2>1, <2>3, <2>4, <2>5
<1>31. ASSUME NEW a \in Runners, WriteAcknowledged(a) PROVE TypeOK'
  <2>1. Appends(a, "sent", "readback", {ChangeRecord("provider_write", Change(a))})
    BY <1>31 DEF WriteAcknowledged
  <2>2. pc[a] \in RunningPcs
    BY <2>1 DEF Appends, RunningPcs
  <2>3. {ChangeRecord("provider_write", Change(a))} \subseteq AuditRecords
    BY <1>11, <2>2 DEF AuditEvents
  <2>4. step' \in [Runners -> Nat] /\ boundary' \in [Runners -> BOOLEAN]
    BY <1>31 DEF WriteAcknowledged, TypeOK
  <2>5. "readback" \in Synchronous \cup Awaiting
    BY DEF Synchronous, Awaiting
  <2> QED
    BY <1>13, <2>1, <2>3, <2>4, <2>5
<1>32. ASSUME NEW a \in Runners, ReadBackMismatch(a) PROVE TypeOK'
  <2>1. Appends(a, "readback", "failing", {ChangeRecord("change_unverified", Change(a))})
    BY <1>32 DEF ReadBackMismatch
  <2>2. pc[a] \in RunningPcs
    BY <2>1 DEF Appends, RunningPcs
  <2>3. {ChangeRecord("change_unverified", Change(a))} \subseteq AuditRecords
    BY <1>11, <2>2 DEF AuditEvents
  <2>4. step' \in [Runners -> Nat] /\ boundary' \in [Runners -> BOOLEAN]
    BY <1>32 DEF ReadBackMismatch, TypeOK
  <2>5. "failing" \in Synchronous \cup Awaiting
    BY DEF Synchronous, Awaiting
  <2> QED
    BY <1>13, <2>1, <2>3, <2>4, <2>5
<1>16. ASSUME NEW a \in Runners, CrossBoundary(a) PROVE TypeOK'
  <2> DEFINE records == {ChangeRecord("validate_only", Change(a)), StartedRecord(plan[a], Change(a))}
  <2>1. Appends(a, "validate", "started", records)
    BY <1>16 DEF CrossBoundary
  <2>2. pc[a] \in RunningPcs
    BY <2>1 DEF Appends, RunningPcs
  <2>3. records \subseteq AuditRecords
    BY <1>11, <2>2 DEF AuditEvents
  <2>4. step' \in [Runners -> Nat] /\ boundary' \in [Runners -> BOOLEAN]
    BY <1>16 DEF CrossBoundary, TypeOK
  <2>5. "started" \in Synchronous \cup Awaiting
    BY DEF Synchronous, Awaiting
  <2> HIDE DEF records
  <2> QED
    BY <1>13, <2>1, <2>3, <2>4, <2>5
<1>17. ASSUME NEW a \in Runners, SendWrite(a) PROVE TypeOK'
  BY <1>11, <1>17 DEF SendWrite, TypeOK, RunningPcs, Awaiting, Actors, Writers, Runners
<1>18. ASSUME NEW a \in Runners, ReadBackVerified(a) PROVE TypeOK'
  <2>1. Appends(a, "readback", IF step[a] = Len(Actions[plan[a]]) THEN "complete" ELSE "preflight",
                {ChangeRecord("change_verified", Change(a))})
    BY <1>18 DEF ReadBackVerified
  <2>2. pc[a] \in RunningPcs
    BY <2>1 DEF Appends, RunningPcs
  <2>3. {ChangeRecord("change_verified", Change(a))} \subseteq AuditRecords
    BY <1>11, <2>2 DEF AuditEvents
  <2>4. step' \in [Runners -> Nat] /\ boundary' \in [Runners -> BOOLEAN]
    <3>1. step[a] \in Nat /\ step[a] + 1 \in Nat
      BY DEF TypeOK
    <3> QED
      BY <1>18, <3>1 DEF ReadBackVerified, TypeOK
  <2> DEFINE to == IF step[a] = Len(Actions[plan[a]]) THEN "complete" ELSE "preflight"
  <2>5. to \in Synchronous \cup Awaiting
    BY DEF Synchronous, Awaiting
  <2>6. Appends(a, "readback", to, {ChangeRecord("change_verified", Change(a))})
    BY <2>1
  <2> HIDE DEF to
  <2> QED
    BY <1>13, <2>3, <2>4, <2>5, <2>6
<1>19. ASSUME NEW a \in Runners, Complete(a) PROVE TypeOK'
  <2>1. pc[a] \in RunningPcs
    BY <1>19 DEF Complete, RunningPcs
  <2>2. PICK v \in Verdicts : RunEnds(a, v)
    BY <1>19, AttemptType, VerdictType DEF Complete, JobResults, JobStates, Checkpoints
  <2> QED
    BY <1>9, <1>11, <1>19, <2>1, <2>2 DEF Complete, TypeOK, AuditEvents
<1>20. ASSUME NEW a \in Runners, RecordFailure(a) PROVE TypeOK'
  <2>1. pc[a] \in RunningPcs
    BY <1>20 DEF RecordFailure, RunningPcs
  <2>2. PICK v \in Verdicts : RunEnds(a, v)
    <3>1. \A s \in {"AMBIGUOUS", "NEEDS_HUMAN"} :
             Verdict("NEEDS_HUMAN", s, "attempt", Attempt, FALSE, TRUE) \in Verdicts
      BY AttemptType, VerdictType DEF JobResults, JobStates, Checkpoints
    <3>2. \A t \in BOOLEAN :
             Verdict("FAILED_SAFE", "FAILED_SAFE", "attempt", Attempt, FALSE, t) \in Verdicts
      BY AttemptType, VerdictType DEF JobResults, JobStates, Checkpoints
    <3>3. (Attempt >= MaxAttempts) \in BOOLEAN
      OBVIOUS
    <3> QED
      BY <1>20, <3>1, <3>2, <3>3 DEF RecordFailure, FailureVerdict
  <2>3. audit' \subseteq AuditRecords
    BY <1>11, <1>20, <2>1 DEF RecordFailure, FailureMarker, TypeOK, AuditEvents
  <2> QED
    BY <1>9, <1>20, <2>2, <2>3 DEF RecordFailure, TypeOK
<1>21. ASSUME NEW w \in Writers, SaveState(w) PROVE TypeOK'
  <2>1. entry[w].job \in Jobs /\ verdict[w] \in Verdicts
    BY <1>21 DEF SaveState, Informed, Writers, Entries
  <2> QED
    BY <1>21, <2>1 DEF SaveState, TypeOK, Verdicts, Synchronous, Actors, Writers, Runners
<1>22. ASSUME NEW w \in Writers, Rests(w)
       PROVE  /\ pc' \in [Actors -> Synchronous \cup Awaiting]
              /\ plan' \in [Runners -> Plans \cup {None}]
              /\ step' \in [Runners -> Nat]
              /\ boundary' \in [Runners -> BOOLEAN]
              /\ entry' \in [Writers -> Entries \cup {None}]
              /\ verdict' \in [Writers -> Verdicts \cup {None}]
  BY <1>22 DEF Rests, TypeOK, Awaiting, Actors, Writers, Runners
<1>23. ASSUME NEW w \in Writers, SaveResult(w) PROVE TypeOK'
  <2>1. entry[w].job \in Jobs /\ verdict[w] \in Verdicts
    BY <1>23 DEF SaveResult, Informed, Writers, Entries
  <2>2. CASE verdict[w].archive
    BY <1>23, <2>1, <2>2 DEF SaveResult, TypeOK, Synchronous, Actors, Writers, Runners
  <2>3. CASE ~verdict[w].archive
    BY <1>22, <1>23, <2>1, <2>3 DEF SaveResult, TypeOK
  <2> QED
    BY <2>2, <2>3
<1>24. ASSUME NEW w \in Writers, Archive(w) PROVE TypeOK'
  <2>1. entry[w].job \in Jobs
    BY <1>24 DEF Archive, Informed, Writers, Entries
  <2> QED
    BY <1>22, <1>24, <2>1 DEF Archive, TypeOK
<1>25. ASSUME NEW e \in incoming, Retire(e) PROVE TypeOK'
  <2> DEFINE v == Verdict("NEEDS_HUMAN", "NEEDS_HUMAN", "housekeeping", attempts[e.job], FALSE, TRUE)
  <2>1. e \in Entries /\ e.job \in Jobs /\ attempts[e.job] \in 0..MaxAttempts
    BY DEF TypeOK, Entries
  <2>2. v \in Verdicts
    BY <2>1, VerdictType DEF JobResults, JobStates, Checkpoints
  <2>3. /\ entry' = [entry EXCEPT !["housekeeping"] = e]
        /\ \E s \in {"archive", "save_state"} : pc' = [pc EXCEPT !["housekeeping"] = s]
        /\ verdict' = verdict \/ verdict' = [verdict EXCEPT !["housekeeping"] = v]
        /\ UNCHANGED <<volume, audit, provider, plan, step, boundary, todo, stop, environment>>
    BY <1>25 DEF Retire
  <2> HIDE DEF v
  <2>4. entry' \in [Writers -> Entries \cup {None}]
    BY <2>1, <2>3 DEF TypeOK, Writers
  <2>6. verdict' \in [Writers -> Verdicts \cup {None}]
    <3>1. CASE verdict' = verdict
      BY <3>1 DEF TypeOK
    <3>2. CASE verdict' = [verdict EXCEPT !["housekeeping"] = v]
      BY <2>2, <3>2 DEF TypeOK
    <3> QED
      BY <2>3, <3>1, <3>2
  <2>5. pc' \in [Actors -> Synchronous \cup Awaiting]
    BY <2>3 DEF TypeOK, Synchronous, Actors, Writers
  <2> QED
    BY <2>3, <2>4, <2>5, <2>6 DEF TypeOK
<1>26. ASSUME NEW j \in Jobs, Submit(j) PROVE TypeOK'
  <2>1. submissions + 1 \in 1..MaxSubmits /\ submissions' \in 0..MaxSubmits
    BY <1>26 DEF Submit, TypeOK
  <2>2. [job |-> j, at |-> submissions + 1] \in Entries
    BY <2>1 DEF Entries
  <2>3. incoming' \subseteq Entries
    BY <1>26, <2>2 DEF Submit, TypeOK
  <2> QED
    BY <1>26, <2>1, <2>3 DEF Submit, TypeOK
<1>27. ASSUME NEW e \in incoming, Expire(e) \/ Corrupt(e) PROVE TypeOK'
  BY <1>27 DEF Expire, Corrupt, TypeOK
<1>28. ASSUME NEW r \in inflight, ProviderApplies(r) \/ ProviderRejects(r) PROVE TypeOK'
  BY <1>28 DEF ProviderApplies, ProviderRejects, TypeOK
<1>29. CASE Crash
  BY <1>29 DEF Crash, Boot, FreshPc, TypeOK, Synchronous, Awaiting, Actors, Writers, Runners
<1> QED
  BY <1>1, <1>2, <1>3, <1>5, <1>6, <1>7, <1>8, <1>10, <1>14, <1>15, <1>16, <1>30, <1>31, <1>32, <1>17, <1>18, <1>19,
     <1>20, <1>21, <1>23, <1>24, <1>25, <1>26, <1>27, <1>28, <1>29
     DEF Next, WorkerEntry, RunnerStep, OutcomeStep, Environment

-----------------------------------------------------------------------------
(* Where the actors are and what they know.                                *)

LEMMA InitPlaced == Init => Placed /\ Informed /\ InPlan
  BY DEF Init, Placed, Informed, InPlan, Boot, FreshPc, RunningPcs, OutcomePcs, Actors, Runners,
     Writers

LEMMA PlacedStep == ASSUME Situated, [Next]_vars PROVE Placed' /\ Informed' /\ InPlan'
<1> USE DEF Situated
<1> USE DEF Placed, Informed, InPlan, RunningPcs, OutcomePcs, Actors, Runners, Writers
<1>1. CASE UNCHANGED process
  BY <1>1
<1>2. CASE Tick
  BY <1>2 DEF Tick
<1>3. ASSUME NEW e \in corrupt, Quarantine(e) PROVE Placed' /\ Informed' /\ InPlan'
  <2>1. Verdict("NEEDS_HUMAN", "NEEDS_HUMAN", "corrupt", 0, FALSE, FALSE) \in Verdicts
    BY VerdictType, 0 \in 0..MaxAttempts DEF JobResults, JobStates, Checkpoints
  <2> QED
    BY <1>3, <2>1 DEF Quarantine, TypeOK
<1>4. ASSUME NEW e \in todo, NEW route, NEW v \in Verdicts, Concludes(e, route, v)
      PROVE  Placed' /\ Informed' /\ InPlan'
  BY <1>4 DEF Concludes, Takes, TypeOK
<1>5. ASSUME NEW e \in todo,
             \/ RejectUnauthorised(e) \/ WaitForDependency(e) \/ HoldForStop(e)
             \/ ReplayCompleted(e) \/ AttemptsExhausted(e) \/ ProviderUnavailable(e)
      PROVE  Placed' /\ Informed' /\ InPlan'
  <2> e \in Entries /\ attempts[e.job] \in 0..MaxAttempts
    BY DEF TypeOK, Entries
  <2> QED
    BY <1>4, <1>5, VerdictType DEF RejectUnauthorised, WaitForDependency, HoldForStop,
       ReplayCompleted, AttemptsExhausted, ProviderUnavailable, JobResults, JobStates, Checkpoints
<1>6. ASSUME NEW e \in todo, BeginReconcile(e) PROVE Placed' /\ Informed' /\ InPlan'
  <2> DEFINE v == Verdict("NEEDS_HUMAN",
                          IF Checkpoint(audit, PlanOf[e.job]) = "AMBIGUOUS" THEN "AMBIGUOUS" ELSE "NEEDS_HUMAN",
                          "boundary", attempts[e.job], FALSE, TRUE)
  <2>1. v \in Verdicts
    BY Unproved
  <2>2. verdict' = [verdict EXCEPT !["worker"] = v]
    BY <1>6 DEF BeginReconcile
  <2> HIDE DEF v
  <2> QED
    BY <1>6, <2>1, <2>2 DEF BeginReconcile, Takes, TypeOK
<1>7. ASSUME NEW e \in todo, BeginAttempt(e) PROVE Placed' /\ Informed' /\ InPlan'
  <2>1. e.job \in Jobs /\ PlanOf[e.job] \in Plans
    BY DEF TypeOK, Entries
  <2> QED
    BY <1>7, <2>1 DEF BeginAttempt, Takes, TypeOK
<1>8. ASSUME NEW verified \in BOOLEAN, FinishReconcile(verified)
      PROVE  Placed' /\ Informed' /\ InPlan'
  <2>1. verdict'["worker"] \in Verdicts /\ verdict'["housekeeping"] = verdict["housekeeping"]
    <3>1. verdict["worker"] \in Verdicts /\ verdict["worker"].attempts \in 0..MaxAttempts
      BY <1>8 DEF FinishReconcile, Verdicts
    <3> QED
      BY <1>8, <3>1, VerdictType DEF FinishReconcile, TypeOK, JobResults, JobStates, Checkpoints
  <2> QED
    BY <1>8, <2>1 DEF FinishReconcile, TypeOK
<1>9. ASSUME NEW a \in Runners, NEW v \in Verdicts, RunEnds(a, v), UNCHANGED <<plan, step, entry>>,
             pc[a] # "idle", pc[a] # "off"
      PROVE  Placed' /\ Informed' /\ InPlan'
  BY <1>9 DEF RunEnds, TypeOK
<1>10. ASSUME NEW a \in Runners, Reserve(a) PROVE Placed' /\ Informed' /\ InPlan'
  <2> DEFINE p == IF a = "worker" THEN plan[a] ELSE StartupPlan
  <2>1. CASE p \notin Refused \cup Unbound /\ Replayable(p)
    <3>1. p \in Plans /\ 1 \in 1..Len(Actions[p])
      BY <1>10 DEF Reserve
    <3>2. /\ pc[a] \in {"reserve", "boot"}
          /\ pc' = [pc EXCEPT ![a] = "preflight"]
          /\ plan' = [plan EXCEPT ![a] = p]
          /\ step' = [step EXCEPT ![a] = 1]
          /\ UNCHANGED <<entry, verdict>>
      BY <1>10, <2>1 DEF Reserve
    <3> QED
      BY <3>1, <3>2 DEF TypeOK
  <2>2. CASE ~(p \notin Refused \cup Unbound /\ Replayable(p))
    <3>1. PICK v \in Verdicts : RunEnds(a, v)
      BY <1>10, <2>2, RefusalType DEF Reserve
    <3> QED
      BY <1>9, <1>10, <2>2, <3>1 DEF Reserve
  <2> QED
    BY <2>1, <2>2
<1>11. ASSUME NEW a \in Runners, pc[a] \in RunningPcs,
              UNCHANGED <<plan, entry, verdict>>,
              NEW to \in RunningPcs, pc' = [pc EXCEPT ![a] = to],
              NEW k \in 1..Len(Actions[plan[a]]), step' = [step EXCEPT ![a] = k]
       PROVE  Placed' /\ Informed' /\ InPlan'
  BY <1>11 DEF TypeOK
<1>12. ASSUME NEW a \in Runners,
              \/ FailsBeforeBoundary(a) \/ TokenFails(a) \/ WriteFails(a) \/ ReadBackUnreadable(a)
              \/ PreflightPasses(a) \/ GuardRefuses(a) \/ WriteAcknowledged(a)
              \/ ReadBackMismatch(a) \/ CrossBoundary(a) \/ SendWrite(a)
       PROVE  Placed' /\ Informed' /\ InPlan'
  <2>1. /\ pc[a] \in RunningPcs
        /\ \E to \in RunningPcs : pc' = [pc EXCEPT ![a] = to]
        /\ UNCHANGED <<plan, step, entry, verdict>>
    BY <1>12 DEF FailsBeforeBoundary, TokenFails, WriteFails, ReadBackUnreadable,
       PreflightPasses, GuardRefuses, WriteAcknowledged, ReadBackMismatch, CrossBoundary, SendWrite,
       Moves, Appends
  <2>2. step[a] \in 1..Len(Actions[plan[a]]) /\ step' = [step EXCEPT ![a] = step[a]]
    BY <2>1 DEF TypeOK
  <2> QED
    BY <1>11, <2>1, <2>2
<1>13. ASSUME NEW a \in Runners, ReadBackVerified(a) PROVE Placed' /\ Informed' /\ InPlan'
  <2>1. pc[a] = "readback" /\ UNCHANGED <<plan, entry, verdict>>
    BY <1>13 DEF ReadBackVerified, Appends
  <2>2. /\ \E to \in RunningPcs : pc' = [pc EXCEPT ![a] = to]
        /\ \E k \in 1..Len(Actions[plan[a]]) : step' = [step EXCEPT ![a] = k]
    <3>1. /\ step[a] \in 1..Len(Actions[plan[a]])
          /\ step[a] # Len(Actions[plan[a]]) => step[a] + 1 \in 1..Len(Actions[plan[a]])
      <4>1. step[a] \in 1..Len(Actions[plan[a]]) /\ Actions[plan[a]] \in Seq(Changes)
        BY <2>1
      <4> QED
        BY <4>1
    <3> QED
      BY <1>13, <3>1 DEF ReadBackVerified, Appends
  <2> QED
    BY <1>11, <2>1, <2>2
<1>14. ASSUME NEW a \in Runners, Complete(a) \/ RecordFailure(a)
       PROVE  Placed' /\ Informed' /\ InPlan'
  <2>1. PICK v \in Verdicts : RunEnds(a, v)
    <3>1. /\ \A s \in {"AMBIGUOUS", "NEEDS_HUMAN"} :
                Verdict("NEEDS_HUMAN", s, "attempt", Attempt, FALSE, TRUE) \in Verdicts
          /\ \A t \in BOOLEAN :
                Verdict("FAILED_SAFE", "FAILED_SAFE", "attempt", Attempt, FALSE, t) \in Verdicts
          /\ Verdict("DONE", "VERIFIED_COMPLETE", "attempt", Attempt, TRUE, TRUE) \in Verdicts
      BY AttemptType, VerdictType DEF JobResults, JobStates, Checkpoints
    <3>2. (Attempt >= MaxAttempts) \in BOOLEAN
      OBVIOUS
    <3> QED
      BY <1>14, <3>1, <3>2 DEF Complete, RecordFailure, FailureVerdict
  <2> QED
    BY <1>9, <1>14, <2>1 DEF Complete, RecordFailure
<1>15. ASSUME NEW w \in Writers, SaveState(w) PROVE Placed' /\ Informed' /\ InPlan'
  BY <1>15 DEF SaveState, TypeOK
<1>16. ASSUME NEW w \in Writers, Rests(w) PROVE Placed' /\ Informed' /\ InPlan'
  BY <1>16 DEF Rests, TypeOK
<1>17. ASSUME NEW w \in Writers, SaveResult(w) PROVE Placed' /\ Informed' /\ InPlan'
  <2>1. CASE verdict[w].archive
    BY <1>17, <2>1 DEF SaveResult, TypeOK
  <2>2. CASE ~verdict[w].archive
    BY <1>16, <1>17, <2>2 DEF SaveResult
  <2> QED
    BY <2>1, <2>2
<1>18. ASSUME NEW w \in Writers, Archive(w) PROVE Placed' /\ Informed' /\ InPlan'
  BY <1>16, <1>18 DEF Archive
<1>19. ASSUME NEW e \in incoming, Retire(e) PROVE Placed' /\ Informed' /\ InPlan'
  <2> DEFINE v == Verdict("NEEDS_HUMAN", "NEEDS_HUMAN", "housekeeping", attempts[e.job], FALSE, TRUE)
  <2>1. e \in Entries /\ e.job \in Jobs /\ attempts[e.job] \in 0..MaxAttempts
    BY DEF TypeOK, Entries
  <2>2. v \in Verdicts
    BY <2>1, VerdictType DEF JobResults, JobStates, Checkpoints
  <2> HIDE DEF v
  <2>3. \/ /\ pc' = [pc EXCEPT !["housekeeping"] = "archive"]
           /\ UNCHANGED verdict
        \/ /\ pc' = [pc EXCEPT !["housekeeping"] = "save_state"]
           /\ verdict' = [verdict EXCEPT !["housekeeping"] = v]
    BY <1>19 DEF Retire, v
  <2>4. entry' = [entry EXCEPT !["housekeeping"] = e] /\ UNCHANGED <<plan, step>>
    BY <1>19 DEF Retire
  <2>5. /\ pc'["housekeeping"] \in OutcomePcs
        /\ \A b \in Runners : pc'[b] = pc[b]
        /\ entry'["housekeeping"] = e /\ entry'["worker"] = entry["worker"]
    BY <2>3, <2>4 DEF TypeOK
  <2>6. \A w \in Writers : pc'[w] \in {"reconcile", "save_state", "save_result"} => verdict'[w] \in Verdicts
    BY <2>2, <2>3 DEF TypeOK
  <2> QED
    BY <2>1, <2>4, <2>5, <2>6
<1>20. CASE Crash
  BY <1>20 DEF Crash, Boot, FreshPc, TypeOK
<1>21. CASE UNCHANGED vars \/ Environment
  BY <1>1, <1>20, <1>21 DEF vars, Environment, Submit, Expire, Corrupt, ProviderApplies, ProviderRejects
<1> HIDE DEF Situated, Placed, Informed, InPlan, RunningPcs, OutcomePcs, Actors, Runners, Writers
<1> QED
  BY <1>2, <1>3, <1>5, <1>6, <1>7, <1>8, <1>10, <1>12, <1>13, <1>14, <1>15, <1>17, <1>18, <1>19,
     <1>21 DEF Next, WorkerEntry, RunnerStep, OutcomeStep

-----------------------------------------------------------------------------
(* What a step can do to a runner and to what it relies on.                *)

\* Evidence and effects are never taken back, and only the runners add evidence.
LEMMA Grows ==
  ASSUME [Next]_vars
  PROVE  /\ audit \subseteq audit' /\ applied \subseteq applied'
         /\ audit' = audit \/ \E a \in Runners : RunnerStep(a)
<1>1. CASE UNCHANGED vars
  BY <1>1 DEF vars
<1>2. CASE WorkerEntry
  BY <1>2 DEF WorkerEntry, Tick, Quarantine, RejectUnauthorised, WaitForDependency, HoldForStop,
     ReplayCompleted, AttemptsExhausted, ProviderUnavailable, BeginReconcile, BeginAttempt,
     FinishReconcile, Concludes
<1>3. ASSUME NEW a \in Runners, RunnerStep(a)
      PROVE  audit \subseteq audit' /\ applied \subseteq applied'
  BY <1>3 DEF RunnerStep, Reserve, PreflightPasses, FailsBeforeBoundary, CrossBoundary,
     GuardRefuses, TokenFails, SendWrite, WriteAcknowledged, WriteFails, ReadBackVerified,
     ReadBackMismatch, ReadBackUnreadable, Complete, RecordFailure, Moves, Appends
<1>4. CASE \E w \in Writers : OutcomeStep(w)
  BY <1>4 DEF OutcomeStep, SaveState, SaveResult, Archive
<1>5. CASE \E e \in incoming : Retire(e)
  BY <1>5 DEF Retire
<1>6. CASE Environment
  BY <1>6 DEF Environment, Submit, Expire, Corrupt, ProviderApplies, ProviderRejects, Crash
<1> QED
  BY <1>1, <1>2, <1>3, <1>4, <1>5, <1>6 DEF Next

\* Nothing but SendWrite sends.
LEMMA OnlySends ==
  ASSUME [Next]_vars
  PROVE  sent' = sent \/ \E a \in Runners : SendWrite(a)
<1>1. CASE UNCHANGED vars
  BY <1>1 DEF vars
<1>2. CASE WorkerEntry
  BY <1>2 DEF WorkerEntry, Tick, Quarantine, RejectUnauthorised, WaitForDependency, HoldForStop,
     ReplayCompleted, AttemptsExhausted, ProviderUnavailable, BeginReconcile, BeginAttempt,
     FinishReconcile, Concludes
<1>3. ASSUME NEW a \in Runners, RunnerStep(a) PROVE sent' = sent \/ SendWrite(a)
  BY <1>3 DEF RunnerStep, Reserve, PreflightPasses, FailsBeforeBoundary, CrossBoundary,
     GuardRefuses, TokenFails, WriteAcknowledged, WriteFails, ReadBackVerified,
     ReadBackMismatch, ReadBackUnreadable, Complete, RecordFailure, Moves, Appends
<1>4. CASE \E w \in Writers : OutcomeStep(w)
  BY <1>4 DEF OutcomeStep, SaveState, SaveResult, Archive
<1>5. CASE \E e \in incoming : Retire(e)
  BY <1>5 DEF Retire
<1>6. CASE Environment
  BY <1>6 DEF Environment, Submit, Expire, Corrupt, ProviderApplies, ProviderRejects, Crash
<1> QED
  BY <1>1, <1>2, <1>3, <1>4, <1>5, <1>6 DEF Next

\* A step of one runner leaves the other actors where they are.
LEMMA RunnersApart ==
  ASSUME TypeOK, NEW a \in Runners, RunnerStep(a)
  PROVE  /\ \A b \in Actors \ {a} : pc'[b] = pc[b]
         /\ \A b \in Runners \ {a} : plan'[b] = plan[b] /\ step'[b] = step[b] /\ boundary'[b] = boundary[b]
         /\ UNCHANGED <<entry, volume, todo>>
         /\ Turn(a)
<1> USE DEF TypeOK, Runners, Actors, Writers
<1>1. CASE Reserve(a)
  BY <1>1 DEF Reserve, RunEnds
<1>2. CASE Complete(a) \/ RecordFailure(a)
  BY <1>2 DEF Complete, RecordFailure, RunEnds
<1>3. CASE SendWrite(a)
  BY <1>3 DEF SendWrite
<1>4. CASE PreflightPasses(a) \/ CrossBoundary(a) \/ GuardRefuses(a) \/ WriteAcknowledged(a)
           \/ ReadBackVerified(a) \/ ReadBackMismatch(a)
  BY <1>4 DEF PreflightPasses, CrossBoundary, GuardRefuses, WriteAcknowledged, ReadBackVerified,
     ReadBackMismatch, Appends
<1>5. CASE FailsBeforeBoundary(a) \/ TokenFails(a) \/ WriteFails(a) \/ ReadBackUnreadable(a)
  BY <1>5 DEF FailsBeforeBoundary, TokenFails, WriteFails, ReadBackUnreadable, Moves
<1> QED
  BY <1>1, <1>2, <1>3, <1>4, <1>5 DEF RunnerStep

\* A runner that is inside a plan after a step it did not take was there before it.
LEMMA Still ==
  ASSUME TypeOK, [Next]_vars, NEW a \in Runners, pc'[a] \in RunningPcs, ~RunnerStep(a)
  PROVE  /\ pc'[a] = pc[a] /\ plan'[a] = plan[a] /\ step'[a] = step[a] /\ boundary'[a] = boundary[a]
         /\ a = "worker" => entry'[a] = entry[a]
<1> USE DEF TypeOK, Runners, Actors, Writers, RunningPcs
<1>1. CASE UNCHANGED vars
  BY <1>1 DEF vars
<1>2. CASE WorkerEntry
  <2>1. ASSUME NEW e \in todo, NEW route, NEW v, Concludes(e, route, v)
        PROVE  pc'["worker"] = "save_state" /\ pc'["startup"] = pc["startup"] /\ UNCHANGED <<plan, step, boundary>>
    BY <2>1 DEF Concludes, Takes
  <2>2. ASSUME NEW e \in todo,
               \/ RejectUnauthorised(e) \/ WaitForDependency(e) \/ HoldForStop(e)
               \/ ReplayCompleted(e) \/ AttemptsExhausted(e) \/ ProviderUnavailable(e)
        PROVE  pc'["worker"] = "save_state" /\ pc'["startup"] = pc["startup"] /\ UNCHANGED <<plan, step, boundary>>
    BY <2>1, <2>2 DEF RejectUnauthorised, WaitForDependency, HoldForStop, ReplayCompleted,
       AttemptsExhausted, ProviderUnavailable
  <2>3. ASSUME NEW e \in todo, BeginReconcile(e) \/ BeginAttempt(e)
        PROVE  /\ pc'["worker"] \notin RunningPcs /\ pc'["startup"] = pc["startup"]
               /\ plan'["startup"] = plan["startup"] /\ UNCHANGED <<step, boundary>>
    BY <2>3 DEF BeginReconcile, BeginAttempt
  <2>4. ASSUME NEW e \in corrupt, Quarantine(e)
        PROVE  pc'["worker"] = "save_state" /\ pc'["startup"] = pc["startup"] /\ UNCHANGED <<plan, step, boundary>>
    BY <2>4 DEF Quarantine
  <2>5. ASSUME NEW verified \in BOOLEAN, FinishReconcile(verified)
        PROVE  pc'["worker"] = "save_state" /\ pc'["startup"] = pc["startup"] /\ UNCHANGED <<plan, step, boundary>>
    BY <2>5 DEF FinishReconcile
  <2>6. CASE Tick
    BY <2>6 DEF Tick
  <2> QED
    BY <1>2, <2>2, <2>3, <2>4, <2>5, <2>6 DEF WorkerEntry
<1>3. ASSUME NEW b \in Runners, RunnerStep(b)
      PROVE  /\ pc'[a] = pc[a] /\ plan'[a] = plan[a] /\ step'[a] = step[a]
             /\ boundary'[a] = boundary[a] /\ UNCHANGED entry
  BY <1>3, RunnersApart
<1>4. CASE \E w \in Writers : OutcomeStep(w)
  BY <1>4 DEF OutcomeStep, SaveState, SaveResult, Archive, Rests
<1>5. CASE \E e \in incoming : Retire(e)
  BY <1>5 DEF Retire
<1>6. CASE Environment
  BY <1>6 DEF Environment, Submit, Expire, Corrupt, ProviderApplies, ProviderRejects, Crash, Boot,
     FreshPc
<1> QED
  BY <1>1, <1>2, <1>3, <1>4, <1>5, <1>6 DEF Next

\* The runner has just been let into its plan.
Admitted(a) ==
    /\ pc[a] \in {"reserve", "boot"} /\ pc'[a] = "preflight"
    /\ plan'[a] = IF a = "worker" THEN plan[a] ELSE StartupPlan
    /\ plan'[a] \in Plans /\ Replayable(plan'[a])
    /\ step'[a] = 1 /\ boundary'[a] = FALSE

\* The runner goes on to the next change.
Continues(a) ==
    /\ pc[a] = "readback" /\ pc'[a] = "preflight"
    /\ step[a] < Len(Actions[plan[a]]) /\ step'[a] = step[a] + 1 /\ boundary'[a] = boundary[a]
    /\ Live(Change(a)) /\ ChangeRecord("change_verified", Change(a)) \in audit'

\* The runner moves on with the same change.
Proceeds(a) ==
    /\ step'[a] = step[a]
    /\ \/ /\ pc[a] = "preflight" /\ pc'[a] = "validate" /\ boundary'[a] = boundary[a]
       \/ /\ pc[a] = "validate" /\ pc'[a] = "started"
          /\ StartedRecord(plan[a], Change(a)) \in audit'
       \/ /\ pc[a] = "started" /\ pc'[a] = "sent" /\ boundary'[a] = boundary[a]
          /\ SendWrite(a)
       \/ /\ pc[a] = "sent" /\ pc'[a] = "readback" /\ boundary'[a] = boundary[a]
       \/ /\ pc[a] = "readback" /\ pc'[a] = "complete" /\ boundary'[a] = boundary[a]
          /\ step[a] = Len(Actions[plan[a]])
          /\ Live(Change(a)) /\ ChangeRecord("change_verified", Change(a)) \in audit'
       \/ pc'[a] \in {"failing", "refused"} /\ boundary'[a] = boundary[a]

\* The steps of a runner inside its plan.
LEMMA Course ==
  ASSUME Situated, NEW a \in Runners, RunnerStep(a), pc'[a] \in RunningPcs
  PROVE  \/ Admitted(a)
         \/ /\ pc[a] \in RunningPcs /\ plan'[a] = plan[a]
            /\ Continues(a) \/ Proceeds(a)
<1> USE DEF Situated, TypeOK, Runners, Actors, Writers
<1>1. CASE Reserve(a)
  <2> DEFINE p == IF a = "worker" THEN plan[a] ELSE StartupPlan
  <2>1. p \in Plans
    BY <1>1 DEF Reserve, Placed, InPlan, RunningPcs, OutcomePcs
  <2>2. p \notin Refused \cup Unbound /\ Replayable(p)
    BY <1>1 DEF Reserve, RunEnds, RunningPcs
  <2> QED
    BY <1>1, <2>1, <2>2 DEF Reserve, Admitted
<1>2. CASE Complete(a) \/ RecordFailure(a)
  BY <1>2 DEF Complete, RecordFailure, RunEnds, RunningPcs
<1>3. CASE SendWrite(a)
  BY <1>3 DEF SendWrite, Proceeds, RunningPcs
<1>4. CASE PreflightPasses(a) \/ GuardRefuses(a) \/ WriteAcknowledged(a) \/ ReadBackMismatch(a)
  BY <1>4 DEF PreflightPasses, GuardRefuses, WriteAcknowledged, ReadBackMismatch, Appends,
     Proceeds, RunningPcs
<1>5. CASE CrossBoundary(a)
  BY <1>5 DEF CrossBoundary, Appends, Proceeds, RunningPcs
<1>6. CASE FailsBeforeBoundary(a) \/ TokenFails(a) \/ WriteFails(a) \/ ReadBackUnreadable(a)
  BY <1>6 DEF FailsBeforeBoundary, TokenFails, WriteFails, ReadBackUnreadable, Moves, Proceeds,
     RunningPcs
<1>7. CASE ReadBackVerified(a)
  <2>1. step[a] \in 1..Len(Actions[plan[a]]) /\ Len(Actions[plan[a]]) \in Nat
    BY <1>7 DEF ReadBackVerified, Appends, InPlan, RunningPcs
  <2> QED
    BY <1>7, <2>1 DEF ReadBackVerified, Appends, Proceeds, Continues, RunningPcs
<1> QED
  BY <1>1, <1>2, <1>3, <1>4, <1>5, <1>6, <1>7 DEF RunnerStep

\* A change is in effect after the step; what the provider shows stays in effect.
LiveNext(c) == \E p \in Plans : <<p, c>> \in applied'

LEMMA StaysLive == ASSUME [Next]_vars PROVE \A c : Live(c) => LiveNext(c)
  BY Grows DEF Live, LiveNext

\* Results and archived jobs change only where the outcome is written.
LEMMA OutcomeWritten ==
  ASSUME [Next]_vars
  PROVE  /\ UNCHANGED result \/ \E w \in Writers : SaveResult(w)
         /\ UNCHANGED archived \/ \E w \in Writers : Archive(w)
<1>1. CASE UNCHANGED vars
  BY <1>1 DEF vars
<1>2. CASE WorkerEntry
  BY <1>2 DEF WorkerEntry, Tick, Quarantine, RejectUnauthorised, WaitForDependency, HoldForStop,
     ReplayCompleted, AttemptsExhausted, ProviderUnavailable, BeginReconcile, BeginAttempt,
     FinishReconcile, Concludes
<1>3. ASSUME NEW a \in Runners, RunnerStep(a) PROVE UNCHANGED <<result, archived>>
  BY <1>3 DEF RunnerStep, Reserve, PreflightPasses, FailsBeforeBoundary, CrossBoundary,
     GuardRefuses, TokenFails, SendWrite, WriteAcknowledged, WriteFails, ReadBackVerified,
     ReadBackMismatch, ReadBackUnreadable, Complete, RecordFailure, Moves, Appends
<1>4. ASSUME NEW w \in Writers, OutcomeStep(w)
      PROVE  /\ UNCHANGED result \/ SaveResult(w)
             /\ UNCHANGED archived \/ Archive(w)
  BY <1>4 DEF OutcomeStep, SaveState, SaveResult, Archive
<1>5. CASE \E e \in incoming : Retire(e)
  BY <1>5 DEF Retire
<1>6. CASE Environment
  BY <1>6 DEF Environment, Submit, Expire, Corrupt, ProviderApplies, ProviderRejects, Crash
<1> QED
  BY <1>1, <1>2, <1>3, <1>4, <1>5, <1>6 DEF Next

\* A result is replaced, never withdrawn.
LEMMA StaysAnswered ==
  ASSUME Situated, [Next]_vars, NEW j \in Jobs, result[j] # None
  PROVE  result'[j] # None
<1>1. CASE UNCHANGED result
  BY <1>1
<1>2. ASSUME NEW w \in Writers, SaveResult(w) PROVE result'[j] # None
  <2>1. verdict[w] \in Verdicts /\ result' = [result EXCEPT ![entry[w].job] = verdict[w]]
    BY <1>2 DEF SaveResult, Situated, Informed
  <2> QED
    BY <2>1 DEF Situated, TypeOK
<1> QED
  BY <1>1, <1>2, OutcomeWritten

\* Only Complete and RecordFailure close a plan, and only the plan the runner is in.
LEMMA Closing ==
  ASSUME NEW a \in Runners, RunnerStep(a), NEW p
  PROVE  /\ Recorded(audit', "completed", p) =>
                Recorded(audit, "completed", p) \/ (Complete(a) /\ p = plan[a])
         /\ Recorded(audit', "ambiguous", p) =>
                \/ Recorded(audit, "ambiguous", p)
                \/ RecordFailure(a) /\ p = plan[a] /\ FailureMarker(a) = "ambiguous"
<1> USE DEF Recorded, PlanRecord, ChangeRecord, StartedRecord
<1>1. CASE Reserve(a)
  <2>1. audit' = audit \/ \E q : audit' = audit \cup {PlanRecord("reserved", q)}
    BY <1>1 DEF Reserve
  <2> QED
    BY <2>1
<1>2. CASE Complete(a)
  BY <1>2 DEF Complete
<1>3. CASE RecordFailure(a)
  BY <1>3 DEF RecordFailure, FailureMarker
<1>4. CASE PreflightPasses(a) \/ CrossBoundary(a) \/ GuardRefuses(a) \/ WriteAcknowledged(a)
           \/ ReadBackVerified(a) \/ ReadBackMismatch(a)
  BY <1>4 DEF PreflightPasses, CrossBoundary, GuardRefuses, WriteAcknowledged, ReadBackVerified,
     ReadBackMismatch, Appends
<1>5. CASE SendWrite(a) \/ FailsBeforeBoundary(a) \/ TokenFails(a) \/ WriteFails(a) \/ ReadBackUnreadable(a)
  BY <1>5 DEF SendWrite, FailsBeforeBoundary, TokenFails, WriteFails, ReadBackUnreadable, Moves
<1> QED
  BY <1>1, <1>2, <1>3, <1>4, <1>5 DEF RunnerStep

\* The request that leaves is the one of the change the runner is at.
LEMMA Sends ==
  ASSUME Situated, NEW a \in Runners, SendWrite(a)
  PROVE  /\ pc[a] = "started" /\ pc'[a] = "sent" /\ RunnerStep(a)
         /\ plan[a] \in Plans /\ Change(a) \in Changes /\ step[a] \in 1..Len(Actions[plan[a]])
         /\ sent'[<<plan[a], Change(a)>>] = sent[<<plan[a], Change(a)>>] + 1
         /\ \A r \in Plans \X Changes : r # <<plan[a], Change(a)>> => sent'[r] = sent[r]
         /\ \A i \in 1..Len(Actions[plan[a]]) : i # step[a] =>
               sent'[<<plan[a], Actions[plan[a]][i]>>] = sent[<<plan[a], Actions[plan[a]][i]>>]
<1>1. pc[a] = "started" /\ pc'[a] = "sent" /\ RunnerStep(a)
  BY DEF SendWrite, RunnerStep, Situated, TypeOK, Runners, Actors
<1>2. plan[a] \in Plans /\ Change(a) \in Changes /\ step[a] \in 1..Len(Actions[plan[a]])
  BY <1>1 DEF Situated, InPlan, RunningPcs, Change
<1>3. sent' = [sent EXCEPT ![<<plan[a], Change(a)>>] = @ + 1]
  BY DEF SendWrite
<1>4. \A r \in Plans \X Changes : r # <<plan[a], Change(a)>> => sent'[r] = sent[r]
  BY <1>3 DEF Situated, TypeOK
<1>5. ASSUME NEW i \in 1..Len(Actions[plan[a]]), i # step[a]
      PROVE  sent'[<<plan[a], Actions[plan[a]][i]>>] = sent[<<plan[a], Actions[plan[a]][i]>>]
  <2>1. Actions[plan[a]][i] \in Changes /\ Actions[plan[a]][i] # Change(a)
    BY <1>2, <1>5 DEF Change
  <2>2. <<plan[a], Actions[plan[a]][i]>> \in Plans \X Changes
    BY <1>2, <2>1
  <2>3. <<plan[a], Actions[plan[a]][i]>> # <<plan[a], Change(a)>>
    BY <2>1
  <2> QED
    BY <1>4, <2>2, <2>3
<1>6. sent'[<<plan[a], Change(a)>>] = sent[<<plan[a], Change(a)>>] + 1
  BY <1>2, <1>3 DEF Situated, TypeOK
<1> QED
  BY <1>1, <1>2, <1>4, <1>5, <1>6

-----------------------------------------------------------------------------
(* The evidence, and what the outcomes rest on.                            *)

LEMMA InitRecord == Init => RecordInv
<1> SUFFICES ASSUME Init PROVE RecordInv
  OBVIOUS
<1>1. TypeOK /\ Placed /\ Informed /\ InPlan
  BY InitTypeOK, InitPlaced
<1>2. pc = FreshPc /\ sent = [r \in Plans \X Changes |-> 0] /\ archived = {}
      /\ result = [j \in Jobs |-> None]
  BY DEF Init, Boot
<1> DEFINE NewEvents == AuditEvents \ {"legacy_started", "legacy_progress"}
<1>6. \A p : \A event \in NewEvents : ~Recorded(audit, event, p)
  BY DEF Init, LegacyStores, Recorded, PlanRecord
<1>3. pc["worker"] = "idle" /\ pc["housekeeping"] = "idle" /\ pc["startup"] \notin RunningPcs
  BY <1>2 DEF FreshPc, RunningPcs, Actors, Runners, Writers
<1>4. Marked /\ Dispatched /\ PassedVerified /\ ClosedForCause /\ Concluded
      /\ CheckpointStands /\ LegacyShut
  BY <1>2, <1>3, <1>6 DEF CheckpointStands, LegacyShut, AuditEvents, Marked, Dispatched, PassedVerified, ClosedForCause, Concluded, RunningPcs,
     Runners, Writers
<1>5. ArchivedHasResult /\ GuardsPartOnLegacy /\ VerifiedPrefix /\ DoneIsLive
  BY <1>2, <1>3 DEF ArchivedHasResult, GuardsPartOnLegacy, ChangesOf, VerifiedPrefix, DoneIsLive
<1> QED
  BY <1>1, <1>4, <1>5 DEF RecordInv

LEMMA MarkedStep == ASSUME Situated, Marked, [Next]_vars PROVE Marked'
<1>1. ASSUME NEW p \in Plans, NEW c \in Changes, sent'[<<p, c>>] > 0
      PROVE  StartedRecord(p, c) \in audit'
  <2>1. CASE sent[<<p, c>>] > 0
    BY <2>1, Grows DEF Marked
  <2>2. CASE ~(sent[<<p, c>>] > 0)
    <3>1. PICK a \in Runners : SendWrite(a)
      BY <1>1, <2>2, OnlySends
    <3>2. <<p, c>> = <<plan[a], Change(a)>> /\ pc[a] = "started"
      <4>1. \A r \in Plans \X Changes : r # <<plan[a], Change(a)>> => sent'[r] = sent[r]
        BY <3>1, Sends
      <4>2. pc[a] = "started"
        BY <3>1, Sends
      <4> QED
        BY <1>1, <2>2, <4>1, <4>2
    <3> QED
      BY <3>2, Grows DEF Marked
  <2> QED
    BY <2>1, <2>2
<1>2. ASSUME NEW a \in Runners, pc'[a] = "started"
      PROVE  StartedRecord(plan'[a], Change(a)') \in audit'
  <2>1. CASE ~RunnerStep(a)
    BY <1>2, <2>1, Still, Grows DEF Situated, Marked, Change, RunningPcs
  <2>2. CASE RunnerStep(a)
    BY <1>2, <2>2, Course DEF RunningPcs, Admitted, Continues, Proceeds, Change
  <2> QED
    BY <2>1, <2>2
<1> QED
  BY <1>1, <1>2 DEF Marked

LEMMA PassedStep == ASSUME Situated, PassedVerified, [Next]_vars PROVE PassedVerified'
<1> SUFFICES ASSUME NEW a \in Runners, pc'[a] \in RunningPcs
             PROVE  /\ pc'[a] = "complete" => step'[a] = Len(Actions[plan'[a]])
                    /\ \A i \in Passed(a)' :
                          /\ LiveNext(Actions[plan'[a]][i])
                          /\ ChangeRecord("change_verified", Actions[plan'[a]][i]) \in audit'
  BY DEF PassedVerified, Live, LiveNext
<1>1. CASE ~RunnerStep(a)
  <2>1. pc'[a] = pc[a] /\ plan'[a] = plan[a] /\ step'[a] = step[a]
    BY <1>1, Still DEF Situated
  <2> QED
    BY <2>1, Grows, StaysLive DEF PassedVerified, Passed
<1>2. CASE Admitted(a)
  BY <1>2 DEF Admitted, Passed
<1>3. CASE pc[a] \in RunningPcs /\ plan'[a] = plan[a] /\ (Continues(a) \/ Proceeds(a))
  <2>1. step[a] \in Nat /\ step[a] \in 1..Len(Actions[plan[a]]) /\ Len(Actions[plan[a]]) \in Nat
    BY <1>3 DEF Situated, InPlan
  <2>2. ASSUME NEW i \in Passed(a)'
        PROVE  \/ i \in Passed(a)
               \/ /\ i = step[a] /\ Live(Change(a))
                  /\ ChangeRecord("change_verified", Change(a)) \in audit'
    BY <1>3, <2>1, <2>2 DEF Passed, Continues, Proceeds
  <2>3. ASSUME NEW i \in Passed(a)'
        PROVE  /\ LiveNext(Actions[plan'[a]][i])
               /\ ChangeRecord("change_verified", Actions[plan'[a]][i]) \in audit'
    BY <1>3, <2>2, <2>3, Grows, StaysLive DEF PassedVerified, Change
  <2>4. pc'[a] = "complete" => step'[a] = Len(Actions[plan'[a]])
    BY <1>3 DEF Continues, Proceeds
  <2> QED
    BY <2>3, <2>4
<1> QED
  BY <1>1, <1>2, <1>3, Course

\* The worker stands before the replay guard because it has just begun the attempt, or
\* nothing has happened since that it relies on.
LEMMA BeforeGuard ==
  ASSUME Situated, [Next]_vars, pc'["worker"] = "reserve"
  PROVE  \/ \E e \in todo : BeginAttempt(e)
         \/ /\ pc["worker"] = "reserve" /\ audit' = audit
            /\ plan'["worker"] = plan["worker"] /\ entry'["worker"] = entry["worker"]
<1> USE DEF Situated, TypeOK, Runners, Actors, Writers
<1>1. CASE UNCHANGED vars
  BY <1>1 DEF vars
<1>2. CASE WorkerEntry
  <2>1. ASSUME NEW e \in todo, NEW route, NEW v, Concludes(e, route, v)
        PROVE  pc'["worker"] = "save_state"
    BY <2>1 DEF Concludes, Takes
  <2>2. ASSUME NEW e \in todo,
               \/ RejectUnauthorised(e) \/ WaitForDependency(e) \/ HoldForStop(e)
               \/ ReplayCompleted(e) \/ AttemptsExhausted(e) \/ ProviderUnavailable(e)
        PROVE  pc'["worker"] = "save_state"
    BY <2>1, <2>2 DEF RejectUnauthorised, WaitForDependency, HoldForStop, ReplayCompleted,
       AttemptsExhausted, ProviderUnavailable
  <2>3. ASSUME NEW e \in todo, BeginReconcile(e) PROVE pc'["worker"] = "reconcile"
    BY <2>3 DEF BeginReconcile
  <2>4. ASSUME NEW e \in corrupt, Quarantine(e) PROVE pc'["worker"] = "save_state"
    BY <2>4 DEF Quarantine
  <2>5. ASSUME NEW verified \in BOOLEAN, FinishReconcile(verified)
        PROVE  pc'["worker"] = "save_state"
    BY <2>5 DEF FinishReconcile
  <2>6. CASE Tick
    BY <2>6 DEF Tick
  <2> QED
    BY <1>2, <2>2, <2>3, <2>4, <2>5, <2>6 DEF WorkerEntry
<1>3. ASSUME NEW a \in Runners, RunnerStep(a) PROVE FALSE
  <2>1. a # "worker" => pc["worker"] = "reserve" /\ Turn(a)
    BY <1>3, RunnersApart
  <2>2. a = "worker"
    BY <2>1 DEF Turn, Synchronous
  <2> QED
    BY <1>3, <2>2 DEF RunnerStep, Reserve, PreflightPasses, FailsBeforeBoundary, CrossBoundary,
       GuardRefuses, TokenFails, SendWrite, WriteAcknowledged, WriteFails, ReadBackVerified,
       ReadBackMismatch, ReadBackUnreadable, Complete, RecordFailure, Moves, Appends, RunEnds
<1>4. CASE \E w \in Writers : OutcomeStep(w)
  BY <1>4 DEF OutcomeStep, SaveState, SaveResult, Archive, Rests
<1>5. CASE \E e \in incoming : Retire(e)
  BY <1>5 DEF Retire
<1>6. CASE Environment
  BY <1>6 DEF Environment, Submit, Expire, Corrupt, ProviderApplies, ProviderRejects, Crash, Boot,
     FreshPc
<1> QED
  BY <1>1, <1>2, <1>3, <1>4, <1>5, <1>6 DEF Next

\* An attempt begins only if the evidence allows it and every dependency is DONE.
LEMMA AttemptAllowed ==
  ASSUME Situated, NEW e \in todo, BeginAttempt(e)
  PROVE  /\ entry'["worker"] = e /\ e.job \in Jobs /\ plan'["worker"] = PlanOf[e.job]
         /\ Checkpoint(audit, PlanOf[e.job]) \notin
                {"VERIFIED_COMPLETE", "PROVIDER_BOUNDARY_REACHED", "AMBIGUOUS"}
         /\ DependenciesDone(e.job) /\ UNCHANGED <<audit, applied>>
<1>1. Route(e) = "execute" /\ UNCHANGED <<audit, applied>>
  BY DEF BeginAttempt, Takes
<1>2. DependenciesDone(e.job)
  BY <1>1 DEF Route
<1>3. Checkpoint(audit, PlanOf[e.job]) \notin {"VERIFIED_COMPLETE", "PROVIDER_BOUNDARY_REACHED", "AMBIGUOUS"}
  BY <1>1 DEF Route
<1>5. entry'["worker"] = e /\ plan'["worker"] = PlanOf[e.job] /\ e.job \in Jobs
  BY DEF BeginAttempt, Takes, Situated, TypeOK, Entries, Writers, Runners
<1> QED
  BY <1>1, <1>2, <1>3, <1>5

LEMMA StandsStep == ASSUME Situated, CheckpointStands, [Next]_vars PROVE CheckpointStands'
<1> SUFFICES ASSUME pc'["worker"] = "reserve"
             PROVE  Checkpoint(audit', plan'["worker"]) \notin
                        {"VERIFIED_COMPLETE", "PROVIDER_BOUNDARY_REACHED", "AMBIGUOUS"}
  BY DEF CheckpointStands
<1>1. CASE \E e \in todo : BeginAttempt(e)
  BY <1>1, AttemptAllowed
<1>2. CASE pc["worker"] = "reserve" /\ audit' = audit /\ plan'["worker"] = plan["worker"]
  BY <1>2 DEF CheckpointStands
<1> QED
  BY <1>1, <1>2, BeforeGuard

\* This version records nothing under the older one's events, and reserves a plan only
\* where its guard lets the runner into it.
LEMMA Reserving ==
  ASSUME Situated, [Next]_vars, NEW p
  PROVE  /\ Recorded(audit', "legacy_progress", p) => Recorded(audit, "legacy_progress", p)
         /\ Recorded(audit', "reserved", p) =>
                \/ Recorded(audit, "reserved", p)
                \/ \E a \in Runners : Admitted(a) /\ plan'[a] = p
<1> SUFFICES ASSUME NEW a \in Runners, RunnerStep(a)
             PROVE  /\ Recorded(audit', "legacy_progress", p) => Recorded(audit, "legacy_progress", p)
                    /\ Recorded(audit', "reserved", p) =>
                           Recorded(audit, "reserved", p) \/ (Admitted(a) /\ plan'[a] = p)
  BY Grows
<1> USE DEF Recorded, PlanRecord, ChangeRecord, StartedRecord
<1>1. CASE Reserve(a)
  <2> DEFINE q == IF a = "worker" THEN plan[a] ELSE StartupPlan
  <2>1. CASE q \notin Refused \cup Unbound /\ Replayable(q)
    <3>1. q \in Plans
      BY <1>1 DEF Reserve, Situated, Placed, InPlan, Runners, RunningPcs, OutcomePcs
    <3>2. audit' = audit \cup {PlanRecord("reserved", q)} /\ plan'[a] = q
      BY <1>1, <2>1 DEF Reserve, Situated, TypeOK
    <3>3. Admitted(a)
      BY <1>1, <2>1, <3>1 DEF Reserve, Admitted, Situated, TypeOK, Runners, Actors
    <3> HIDE DEF q
    <3> QED
      BY <3>2, <3>3
  <2>2. CASE ~(q \notin Refused \cup Unbound /\ Replayable(q))
    BY <1>1, <2>2 DEF Reserve
  <2> QED
    BY <2>1, <2>2
<1>2. CASE Complete(a)
  BY <1>2 DEF Complete
<1>3. CASE RecordFailure(a)
  BY <1>3 DEF RecordFailure, FailureMarker
<1>4. CASE PreflightPasses(a) \/ CrossBoundary(a) \/ GuardRefuses(a) \/ WriteAcknowledged(a)
           \/ ReadBackVerified(a) \/ ReadBackMismatch(a)
  BY <1>4 DEF PreflightPasses, CrossBoundary, GuardRefuses, WriteAcknowledged, ReadBackVerified,
     ReadBackMismatch, Appends
<1>5. CASE SendWrite(a) \/ FailsBeforeBoundary(a) \/ TokenFails(a) \/ WriteFails(a) \/ ReadBackUnreadable(a)
  BY <1>5 DEF SendWrite, FailsBeforeBoundary, TokenFails, WriteFails, ReadBackUnreadable, Moves
<1> QED
  BY <1>1, <1>2, <1>3, <1>4, <1>5 DEF RunnerStep

LEMMA LegacyStep == ASSUME Situated, LegacyShut, [Next]_vars PROVE LegacyShut'
<1>1. ASSUME NEW p \in Plans, Recorded(audit', "legacy_progress", p), Recorded(audit', "reserved", p)
      PROVE  FALSE
  <2>1. Recorded(audit, "legacy_progress", p) /\ ~Recorded(audit, "reserved", p)
    BY <1>1, Reserving DEF LegacyShut
  <2>2. PICK a \in Runners : Admitted(a) /\ plan'[a] = p
    BY <1>1, <2>1, Reserving
  <2> QED
    BY <2>1, <2>2 DEF Admitted, Replayable, LegacyInDoubt
<1>2. ASSUME NEW a \in Runners, pc'[a] \in RunningPcs, Recorded(audit', "legacy_progress", plan'[a])
      PROVE  FALSE
  <2>1. Recorded(audit, "legacy_progress", plan'[a])
    BY <1>2, Reserving
  <2>2. CASE ~RunnerStep(a)
    BY <1>2, <2>1, <2>2, Still DEF LegacyShut, Situated
  <2>3. CASE Admitted(a)
    BY <2>1, <2>3 DEF Admitted, Replayable, LegacyInDoubt, LegacyShut
  <2>4. CASE pc[a] \in RunningPcs /\ plan'[a] = plan[a]
    BY <2>1, <2>4 DEF LegacyShut
  <2> QED
    BY <1>2, <2>2, <2>3, <2>4, Course
<1> QED
  BY <1>1, <1>2 DEF LegacyShut

LEMMA GuardsStep ==
  ASSUME Situated, LegacyShut, GuardsPartOnLegacy, CheckpointStands', [Next]_vars
  PROVE  GuardsPartOnLegacy'
<1>1. ASSUME pc'["worker"] = "reserve"
      PROVE  Replayable(plan["worker"])' \/ LegacyInDoubt(plan["worker"])'
  BY <1>1 DEF CheckpointStands, Checkpoint, Replayable
<1>2. ASSUME NEW p \in Plans, Recorded(audit', "legacy_progress", p), NEW c \in ChangesOf(p)
      PROVE  sent'[<<p, c>>] = 0
  <2>1. Recorded(audit, "legacy_progress", p) /\ sent[<<p, c>>] = 0
    BY <1>2, Reserving DEF GuardsPartOnLegacy
  <2>2. ASSUME NEW a \in Runners, SendWrite(a) PROVE sent'[<<p, c>>] = sent[<<p, c>>]
    <3>1. plan[a] # p
      <4>1. pc[a] \in RunningPcs
        BY <2>2, Sends DEF RunningPcs
      <4>2. ~Recorded(audit, "legacy_progress", plan[a])
        BY <4>1 DEF LegacyShut
      <4> QED
        BY <2>1, <4>2
    <3>2. <<p, c>> \in Plans \X Changes
      BY <1>2 DEF ChangesOf
    <3>3. \A r \in Plans \X Changes : r # <<plan[a], Change(a)>> => sent'[r] = sent[r]
      BY <2>2, Sends
    <3>4. <<p, c>> # <<plan[a], Change(a)>>
      BY <3>1
    <3> QED
      BY <3>2, <3>3, <3>4
  <2> QED
    BY <2>1, <2>2, OnlySends
<1> QED
  BY <1>1, <1>2 DEF GuardsPartOnLegacy

LEMMA DispatchedStep == ASSUME Situated, Dispatched, DoneIsLive, [Next]_vars PROVE Dispatched'
<1> DEFINE DependenciesNext(j) == \A d \in DependsOn[j] : \A c \in ChangesOf(PlanOf[d]) : LiveNext(c)
<1> SUFFICES ASSUME pc'["worker"] \in {"reserve"} \cup RunningPcs
             PROVE  /\ plan'["worker"] = PlanOf[entry'["worker"].job]
                    /\ DependenciesNext(entry'["worker"].job)
  BY DEF Dispatched, Live, LiveNext
<1>1. ASSUME NEW e \in todo, BeginAttempt(e)
      PROVE  /\ plan'["worker"] = PlanOf[entry'["worker"].job]
             /\ DependenciesNext(entry'["worker"].job)
  <2>1. \A d \in DependsOn[e.job] : \A c \in ChangesOf(PlanOf[d]) : Live(c)
    BY <1>1, AttemptAllowed DEF DependenciesDone, DoneIsLive
  <2> QED
    BY <1>1, <2>1, AttemptAllowed, StaysLive
<1>2. CASE pc["worker"] \in {"reserve"} \cup RunningPcs /\ plan'["worker"] = plan["worker"]
           /\ entry'["worker"] = entry["worker"]
  BY <1>2, StaysLive DEF Dispatched
<1>3. CASE pc'["worker"] \in RunningPcs
  <2>1. "worker" \in Runners /\ pc["worker"] # "boot"
    BY DEF Runners, Situated, Placed, RunningPcs, OutcomePcs
  <2>2. CASE ~RunnerStep("worker")
    BY <1>2, <1>3, <2>1, <2>2, Still DEF Situated
  <2>3. CASE RunnerStep("worker")
    <3>1. entry'["worker"] = entry["worker"]
      BY <2>1, <2>3, RunnersApart DEF Situated
    <3>2. pc["worker"] \in {"reserve"} \cup RunningPcs /\ plan'["worker"] = plan["worker"]
      BY <1>3, <2>1, <2>3, Course DEF Admitted
    <3> QED
      BY <1>2, <3>1, <3>2
  <2> QED
    BY <2>2, <2>3
<1> QED
  BY <1>1, <1>2, <1>3, BeforeGuard

LEMMA CauseStep ==
  ASSUME Situated, PassedVerified, ClosedForCause, [Next]_vars
  PROVE  ClosedForCause'
<1>1. ASSUME NEW p \in Plans, Recorded(audit', "completed", p)
      PROVE  \A c \in ChangesOf(p) : LiveNext(c)
  <2>1. CASE Recorded(audit, "completed", p)
    BY <2>1, StaysLive DEF ClosedForCause
  <2>2. CASE ~Recorded(audit, "completed", p)
    <3>1. PICK a \in Runners : Complete(a) /\ p = plan[a]
      BY <1>1, <2>2, Grows, Closing
    <3>2. pc[a] = "complete" /\ pc[a] \in RunningPcs
      BY <3>1 DEF Complete, RunningPcs
    <3>3. step[a] = Len(Actions[p]) /\ Len(Actions[p]) \in Nat
      BY <3>1, <3>2 DEF PassedVerified
    <3>4. \A i \in 1..Len(Actions[p]) : Live(Actions[p][i])
      BY <3>1, <3>2, <3>3 DEF PassedVerified, Passed
    <3> QED
      BY <3>4, StaysLive DEF ChangesOf
  <2> QED
    BY <2>1, <2>2
<1>2. ASSUME NEW p \in Plans, Recorded(audit', "ambiguous", p)
      PROVE  ProviderStarted(audit', p) \/ WriteRecorded(audit', p)
  <2>1. ProviderStarted(audit, p) \/ WriteRecorded(audit, p)
    <3>1. CASE Recorded(audit, "ambiguous", p)
      BY <3>1 DEF ClosedForCause
    <3>2. CASE ~Recorded(audit, "ambiguous", p)
      <4>1. PICK a \in Runners : RecordFailure(a) /\ p = plan[a] /\ FailureMarker(a) = "ambiguous"
        BY <1>2, <3>2, Grows, Closing
      <4>2. pc[a] \in RunningPcs /\ (boundary[a] \/ WriteRecorded(audit, p))
        BY <4>1 DEF RecordFailure, FailureMarker, RunningPcs
      <4> QED
        BY <4>1, <4>2 DEF ClosedForCause
    <3> QED
      BY <3>1, <3>2
  <2> QED
    BY <2>1, Grows DEF ProviderStarted, WriteRecorded
<1>3. ASSUME NEW a \in Runners, pc'[a] \in RunningPcs, boundary'[a]
      PROVE  ProviderStarted(audit', plan'[a])
  <2>1. CASE ~RunnerStep(a)
    <3>1. ProviderStarted(audit, plan'[a])
      BY <1>3, <2>1, Still DEF Situated, ClosedForCause
    <3> QED
      BY <3>1, Grows DEF ProviderStarted
  <2>2. CASE pc[a] \in RunningPcs /\ plan'[a] = plan[a] /\ boundary'[a] = boundary[a]
    <3>1. ProviderStarted(audit, plan'[a])
      BY <1>3, <2>2 DEF ClosedForCause
    <3> QED
      BY <3>1, Grows DEF ProviderStarted
  <2>3. CASE /\ pc[a] \in RunningPcs /\ plan'[a] = plan[a]
             /\ StartedRecord(plan[a], Change(a)) \in audit'
    <3>1. Change(a) \in Changes
      BY <2>3 DEF Situated, InPlan, Change
    <3> QED
      BY <2>3, <3>1 DEF ProviderStarted
  <2> QED
    BY <1>3, <2>1, <2>2, <2>3, Course DEF Admitted, Continues, Proceeds
<1> QED
  BY <1>1, <1>2, <1>3 DEF ClosedForCause, Live, LiveNext

\* What an outcome that has just been reached rests on.
Founded(w) ==
    \/ verdict'[w].outcome \in {"NEEDS_HUMAN", "BLOCKED_EXTERNAL"}
    \/ /\ verdict'[w].outcome = "DONE"
       /\ \/ Recorded(audit, "completed", PlanOf[entry'[w].job])
          \/ \A c \in ChangesOf(PlanOf[entry'[w].job]) : Live(c)
          \/ Complete("worker") /\ plan["worker"] = PlanOf[entry'[w].job]
    \/ /\ verdict'[w].outcome = "FAILED_SAFE" /\ sent' = sent
       /\ Checkpoint(audit', PlanOf[entry'[w].job]) \notin {"AMBIGUOUS", "PROVIDER_BOUNDARY_REACHED"}
       /\ \/ Checkpoint(audit', PlanOf[entry'[w].job]) # "VERIFIED_COMPLETE"
          \/ RecordFailure("worker") /\ plan["worker"] = PlanOf[entry'[w].job]

\* What is not new was there before.
Kept(w) ==
    /\ pc[w] \in {"reconcile", "save_state", "save_result"}
    /\ verdict'[w] = verdict[w] /\ entry'[w] = entry[w]

LEMMA ConcludedAtOnce ==
  ASSUME Situated, NEW e \in todo,
         \/ RejectUnauthorised(e) \/ WaitForDependency(e) \/ HoldForStop(e)
         \/ ReplayCompleted(e) \/ AttemptsExhausted(e) \/ ProviderUnavailable(e)
  PROVE  Founded("worker")
<1>1. ASSUME NEW route, NEW v, Concludes(e, route, v)
      PROVE  /\ verdict'["worker"] = v /\ entry'["worker"] = e /\ Route(e) = route
             /\ UNCHANGED <<audit, sent>>
  BY <1>1 DEF Concludes, Takes, Situated, TypeOK, Writers
<1>2. CASE RejectUnauthorised(e) \/ WaitForDependency(e) \/ HoldForStop(e) \/ ProviderUnavailable(e)
  BY <1>1, <1>2 DEF RejectUnauthorised, WaitForDependency, HoldForStop, ProviderUnavailable,
     Verdict, Founded
<1>3. CASE ReplayCompleted(e)
  <2>1. Route(e) = "completed" /\ verdict'["worker"].outcome = "DONE" /\ entry'["worker"] = e
    BY <1>1, <1>3 DEF ReplayCompleted, Verdict
  <2>2. Checkpoint(audit, PlanOf[e.job]) = "VERIFIED_COMPLETE"
    BY <2>1 DEF Route
  <2>3. Recorded(audit, "completed", PlanOf[e.job])
    BY <2>2 DEF Checkpoint
  <2> QED
    BY <2>1, <2>3 DEF Founded
<1>4. CASE AttemptsExhausted(e)
  <2>1. /\ Route(e) = "exhausted" /\ verdict'["worker"].outcome = "FAILED_SAFE"
        /\ entry'["worker"] = e /\ UNCHANGED <<audit, sent>>
    BY <1>1, <1>4 DEF AttemptsExhausted, Verdict
  <2>2. Checkpoint(audit, PlanOf[e.job]) \notin {"VERIFIED_COMPLETE", "AMBIGUOUS", "PROVIDER_BOUNDARY_REACHED"}
    BY <2>1 DEF Route
  <2> QED
    BY <2>1, <2>2 DEF Founded
<1> QED
  BY <1>2, <1>3, <1>4

LEMMA ConcludedByRun ==
  ASSUME Situated, Dispatched, CheckpointStands, RunnerStep("worker"), pc'["worker"] \in {"save_state", "save_result"}
  PROVE  Founded("worker")
<1>1. "worker" \in Runners /\ "worker" \in Writers /\ "worker" \in Actors
  BY DEF Runners, Writers, Actors
<1>2. ASSUME NEW v, RunEnds("worker", v)
      PROVE  verdict'["worker"] = v
  BY <1>1, <1>2 DEF RunEnds, Situated, TypeOK
<1>3. entry' = entry
  BY <1>1, RunnersApart DEF Situated
<1>4. ASSUME pc["worker"] \in {"reserve"} \cup RunningPcs
      PROVE  plan["worker"] = PlanOf[entry'["worker"].job]
  BY <1>3, <1>4 DEF Dispatched
<1>5. CASE Reserve("worker")
  <2>1. pc["worker"] = "reserve"
    BY <1>5 DEF Reserve, Situated, Placed, RunningPcs, OutcomePcs
  <2>2. /\ ~(plan["worker"] \notin Refused \cup Unbound /\ Replayable(plan["worker"]))
        /\ UNCHANGED <<audit, sent>>
    BY <1>1, <1>5 DEF Reserve, Situated, TypeOK
  <2>3. verdict'["worker"] = RefusalVerdict(plan["worker"])
    BY <1>2, <1>5, <2>2 DEF Reserve
  <2>4. \/ verdict'["worker"].outcome = "NEEDS_HUMAN"
        \/ verdict'["worker"].outcome = "FAILED_SAFE"
        \/ verdict'["worker"].outcome = "DONE" /\ Recorded(audit, "completed", plan["worker"])
    BY <2>3 DEF RefusalVerdict, Verdict
  <2>5. Checkpoint(audit', plan["worker"]) \notin
            {"VERIFIED_COMPLETE", "PROVIDER_BOUNDARY_REACHED", "AMBIGUOUS"}
    BY <2>1, <2>2 DEF CheckpointStands
  <2> QED
    BY <1>4, <2>1, <2>2, <2>4, <2>5 DEF Founded
<1>6. CASE Complete("worker")
  <2>1. verdict'["worker"].outcome = "DONE"
    BY <1>2, <1>6 DEF Complete, Verdict
  <2> QED
    BY <1>4, <1>6, <2>1 DEF Founded, Complete, RunningPcs
<1>7. CASE RecordFailure("worker")
  <2> DEFINE k == Checkpoint(audit', plan["worker"])
  <2>1. verdict'["worker"] = FailureVerdict(k, pc["worker"] = "refused")
    BY <1>2, <1>7 DEF RecordFailure
  <2>2. sent' = sent /\ plan["worker"] = PlanOf[entry'["worker"].job]
    BY <1>4, <1>7 DEF RecordFailure, RunningPcs
  <2> HIDE DEF k
  <2>3. \/ verdict'["worker"].outcome = "NEEDS_HUMAN"
        \/ /\ verdict'["worker"].outcome = "FAILED_SAFE"
           /\ k \notin {"AMBIGUOUS", "PROVIDER_BOUNDARY_REACHED"}
    BY <2>1 DEF FailureVerdict, Verdict
  <2> QED
    BY <1>7, <2>2, <2>3 DEF Founded, k
<1>8. CASE ~(Reserve("worker") \/ Complete("worker") \/ RecordFailure("worker"))
  BY <1>1, <1>8 DEF RunnerStep, PreflightPasses, FailsBeforeBoundary, CrossBoundary,
     GuardRefuses, TokenFails, SendWrite, WriteAcknowledged, WriteFails, ReadBackVerified,
     ReadBackMismatch, ReadBackUnreadable, Moves, Appends, Situated, TypeOK
<1> QED
  BY <1>5, <1>6, <1>7, <1>8

\* Whoever is storing an outcome has just reached it, or still has the one it had.
LEMMA Outcomes ==
  ASSUME Situated, Dispatched, CheckpointStands, [Next]_vars, NEW w \in Writers,
         pc'[w] \in {"save_state", "save_result"}
  PROVE  Founded(w) \/ Kept(w)
<1> USE DEF Runners, Actors, Writers
<1>1. CASE UNCHANGED vars
  BY <1>1 DEF vars, Kept
<1>2. CASE WorkerEntry
  <2>1. ASSUME NEW e \in todo,
               \/ RejectUnauthorised(e) \/ WaitForDependency(e) \/ HoldForStop(e)
               \/ ReplayCompleted(e) \/ AttemptsExhausted(e) \/ ProviderUnavailable(e)
        PROVE  Founded(w) \/ Kept(w)
    <3>1. CASE w = "worker"
      BY <2>1, <3>1, ConcludedAtOnce
    <3>2. CASE w = "housekeeping"
      <4>1. ASSUME NEW route, NEW v, Concludes(e, route, v) PROVE Kept("housekeeping")
        BY <3>2, <4>1 DEF Concludes, Takes, Situated, TypeOK, Kept
      <4> QED
        BY <2>1, <3>2, <4>1 DEF RejectUnauthorised, WaitForDependency, HoldForStop,
           ReplayCompleted, AttemptsExhausted, ProviderUnavailable
    <3> QED
      BY <3>1, <3>2
  <2>2. ASSUME NEW e \in todo, BeginReconcile(e) \/ BeginAttempt(e) PROVE Kept(w)
    BY <2>2 DEF BeginReconcile, BeginAttempt, Takes, Situated, TypeOK, Kept
  <2>3. ASSUME NEW e \in corrupt, Quarantine(e) PROVE Founded(w) \/ Kept(w)
    BY <2>3 DEF Quarantine, Situated, TypeOK, Kept, Founded, Verdict
  <2>4. ASSUME NEW verified \in BOOLEAN, FinishReconcile(verified) PROVE Founded(w) \/ Kept(w)
    <3>1. CASE verified /\ w = "worker"
      <4>1. verdict'["worker"].outcome = "DONE"
        BY <2>4, <3>1 DEF FinishReconcile, Situated, TypeOK, Verdict
      <4>2. \A c \in ChangesOf(PlanOf[entry'["worker"].job]) : Live(c)
        BY <2>4, <3>1 DEF FinishReconcile
      <4> QED
        BY <3>1, <4>1, <4>2 DEF Founded
    <3>2. CASE ~(verified /\ w = "worker")
      BY <2>4, <3>2 DEF FinishReconcile, Situated, TypeOK, Kept
    <3> QED
      BY <3>1, <3>2
  <2>5. CASE Tick
    BY <2>5 DEF Tick, Kept
  <2> QED
    BY <1>2, <2>1, <2>2, <2>3, <2>4, <2>5 DEF WorkerEntry
<1>3. ASSUME NEW a \in Runners, RunnerStep(a) PROVE Founded(w) \/ Kept(w)
  <2>1. CASE w = "worker" /\ a = "worker"
    BY <1>3, <2>1, ConcludedByRun
  <2>2. CASE ~(w = "worker" /\ a = "worker")
    <3>1. entry' = entry /\ \A b \in Actors \ {a} : pc'[b] = pc[b]
      BY <1>3, RunnersApart DEF Situated
    <3>2. verdict'[w] = verdict[w]
      BY <1>3, <2>2 DEF RunnerStep, Reserve, PreflightPasses, FailsBeforeBoundary, CrossBoundary,
         GuardRefuses, TokenFails, SendWrite, WriteAcknowledged, WriteFails, ReadBackVerified,
         ReadBackMismatch, ReadBackUnreadable, Complete, RecordFailure, Moves, Appends, RunEnds,
         Situated, TypeOK
    <3>3. w # a
      BY <2>2
    <3> QED
      BY <3>1, <3>2, <3>3 DEF Kept
  <2> QED
    BY <2>1, <2>2
<1>4. ASSUME NEW v \in Writers, OutcomeStep(v) PROVE Kept(w)
  <2>1. CASE SaveState(v)
    BY <2>1 DEF SaveState, Situated, TypeOK, Kept
  <2>2. CASE SaveResult(v) \/ Archive(v)
    BY <2>2 DEF SaveResult, Archive, Rests, Situated, TypeOK, Kept
  <2> QED
    BY <1>4, <2>1, <2>2 DEF OutcomeStep
<1>5. ASSUME NEW e \in incoming, Retire(e) PROVE Founded(w) \/ Kept(w)
  <2>1. CASE w = "worker"
    BY <1>5, <2>1 DEF Retire, Situated, TypeOK, Kept
  <2>2. CASE w = "housekeeping"
    <3>1. verdict'["housekeeping"].outcome = "NEEDS_HUMAN"
      BY <1>5, <2>2 DEF Retire, Situated, TypeOK, Verdict
    <3> QED
      BY <2>2, <3>1 DEF Founded
  <2> QED
    BY <2>1, <2>2
<1>6. CASE Environment
  BY <1>6 DEF Environment, Submit, Expire, Corrupt, ProviderApplies, ProviderRejects, Crash, Boot,
     FreshPc, Kept
<1> QED
  BY <1>1, <1>2, <1>3, <1>4, <1>5, <1>6 DEF Next

\* An actor has reached the archiving with the result on the volume.
LEMMA ArchivesAnswered ==
  ASSUME Situated, Concluded, [Next]_vars, NEW w \in Writers, pc'[w] = "archive"
  PROVE  result'[entry'[w].job] # None
<1> USE DEF Runners, Actors, Writers
<1>1. entry'[w] \in Entries /\ entry'[w].job \in Jobs
  BY PlacedStep DEF Informed, Entries
<1>2. CASE pc[w] = "archive" /\ entry'[w] = entry[w]
  BY <1>1, <1>2, StaysAnswered DEF Concluded
<1>3. CASE SaveResult(w)
  <2>1. verdict[w] \in Verdicts /\ result' = [result EXCEPT ![entry[w].job] = verdict[w]]
    BY <1>3 DEF SaveResult, Situated, Informed
  <2>2. entry' = entry
    BY <1>3 DEF SaveResult, Rests, Situated, TypeOK
  <2> QED
    BY <1>1, <2>1, <2>2 DEF Situated, TypeOK
<1>4. ASSUME NEW e \in incoming, Retire(e) PROVE result'[entry'[w].job] # None
  <2>1. CASE w = "housekeeping"
    <3>1. result[e.job] # None /\ result' = result /\ entry'["housekeeping"] = e
      BY <1>4, <2>1 DEF Retire, Situated, TypeOK
    <3> QED
      BY <2>1, <3>1
  <2>2. CASE w = "worker"
    BY <1>2, <1>4, <2>2 DEF Retire, Situated, TypeOK
  <2> QED
    BY <2>1, <2>2
<1>5. CASE UNCHANGED vars
  BY <1>2, <1>5 DEF vars
<1>6. CASE WorkerEntry
  <2>1. ASSUME NEW e \in todo, NEW route, NEW v, Concludes(e, route, v)
        PROVE  pc[w] = "archive" /\ entry'[w] = entry[w]
    BY <2>1 DEF Concludes, Takes, Situated, TypeOK
  <2>2. ASSUME NEW e \in todo, BeginReconcile(e) \/ BeginAttempt(e)
        PROVE  pc[w] = "archive" /\ entry'[w] = entry[w]
    BY <2>2 DEF BeginReconcile, BeginAttempt, Takes, Situated, TypeOK
  <2>3. ASSUME NEW e \in corrupt, Quarantine(e) PROVE pc[w] = "archive" /\ entry'[w] = entry[w]
    BY <2>3 DEF Quarantine, Situated, TypeOK
  <2>4. ASSUME NEW verified \in BOOLEAN, FinishReconcile(verified)
        PROVE  pc[w] = "archive" /\ entry'[w] = entry[w]
    BY <2>4 DEF FinishReconcile, Situated, TypeOK
  <2>5. CASE Tick
    BY <1>2, <2>5 DEF Tick
  <2> QED
    BY <1>2, <1>6, <2>1, <2>2, <2>3, <2>4, <2>5 DEF WorkerEntry, RejectUnauthorised,
       WaitForDependency, HoldForStop, ReplayCompleted, AttemptsExhausted, ProviderUnavailable
<1>7. ASSUME NEW a \in Runners, RunnerStep(a) PROVE pc[w] = "archive" /\ entry'[w] = entry[w]
  <2>1. entry' = entry /\ \A b \in Actors \ {a} : pc'[b] = pc[b]
    BY <1>7, RunnersApart DEF Situated
  <2>2. CASE w # a
    BY <2>1, <2>2
  <2>3. CASE w = a
    BY <1>7, <2>3 DEF RunnerStep, Reserve, PreflightPasses, FailsBeforeBoundary, CrossBoundary,
       GuardRefuses, TokenFails, SendWrite, WriteAcknowledged, WriteFails, ReadBackVerified,
       ReadBackMismatch, ReadBackUnreadable, Complete, RecordFailure, Moves, Appends, RunEnds,
       Situated, TypeOK
  <2> QED
    BY <2>2, <2>3
<1>8. ASSUME NEW v \in Writers, OutcomeStep(v), ~SaveResult(w)
      PROVE  pc[w] = "archive" /\ entry'[w] = entry[w]
  BY <1>8 DEF OutcomeStep, SaveState, SaveResult, Archive, Rests, Situated, TypeOK
<1>9. CASE Environment
  BY <1>2, <1>9 DEF Environment, Submit, Expire, Corrupt, ProviderApplies, ProviderRejects, Crash,
     Boot, FreshPc
<1> QED
  BY <1>2, <1>3, <1>4, <1>5, <1>6, <1>7, <1>8, <1>9 DEF Next

LEMMA ConcludedStep ==
  ASSUME Situated, Dispatched, CheckpointStands, PassedVerified, ClosedForCause, Concluded, [Next]_vars
  PROVE  Concluded'
<1> USE DEF Runners, Actors, Writers
<1>1. ASSUME NEW w \in Writers, pc'[w] \in {"save_state", "save_result"},
             verdict'[w].outcome = "DONE"
      PROVE  \A c \in ChangesOf(PlanOf[entry'[w].job]) : LiveNext(c)
  <2> DEFINE p == PlanOf[entry'[w].job]
  <2>1. p \in Plans
    BY <1>1, PlacedStep DEF Placed, Informed, Entries
  <2>2. CASE Kept(w)
    BY <1>1, <2>2, StaysLive DEF Concluded, Kept
  <2>3. CASE Founded(w)
    <3>1. CASE Complete("worker") /\ plan["worker"] = p
      <4>1. pc["worker"] = "complete" /\ pc["worker"] \in RunningPcs
        BY <3>1 DEF Complete, RunningPcs
      <4> DEFINE q == plan["worker"]
      <4>2. step["worker"] = Len(Actions[q]) /\ Len(Actions[q]) \in Nat
        BY <2>1, <3>1, <4>1 DEF PassedVerified
      <4>3. \A i \in 1..Len(Actions[q]) : Live(Actions[q][i])
        <5>1. \A i \in 1..Len(Actions[q]) : i \in Passed("worker")
          BY <4>1, <4>2 DEF Passed
        <5> QED
          BY <4>1, <5>1 DEF PassedVerified
      <4>4. \A c \in ChangesOf(q) : LiveNext(c)
        BY <4>3, StaysLive DEF ChangesOf
      <4> QED
        BY <3>1, <4>4
    <3>2. CASE Recorded(audit, "completed", p)
      BY <2>1, <3>2, StaysLive DEF ClosedForCause
    <3>3. CASE \A c \in ChangesOf(p) : Live(c)
      BY <3>3, StaysLive
    <3> QED
      BY <1>1, <2>3, <3>1, <3>2, <3>3 DEF Founded
  <2> QED
    BY <1>1, <2>2, <2>3, Outcomes
<1>2. ASSUME NEW w \in Writers, pc'[w] = "reconcile" PROVE verdict'[w].outcome = "NEEDS_HUMAN"
  <2> USE DEF Situated, TypeOK
  <2>1. CASE pc[w] = "reconcile" /\ verdict'[w] = verdict[w]
    BY <2>1 DEF Concluded
  <2>2. ASSUME NEW e \in todo, BeginReconcile(e) PROVE verdict'[w].outcome = "NEEDS_HUMAN"
    <3>1. CASE w = "worker"
      BY <2>2, <3>1 DEF BeginReconcile, Verdict
    <3>2. CASE w = "housekeeping"
      BY <1>2, <2>1, <2>2, <3>2 DEF BeginReconcile
    <3> QED
      BY <3>1, <3>2
  <2>3. ASSUME NEW e \in todo, NEW route, NEW v, Concludes(e, route, v)
        PROVE  pc[w] = "reconcile" /\ verdict'[w] = verdict[w]
    BY <1>2, <2>3 DEF Concludes, Takes
  <2>4. ASSUME NEW e \in todo, BeginAttempt(e) PROVE pc[w] = "reconcile" /\ verdict'[w] = verdict[w]
    BY <1>2, <2>4 DEF BeginAttempt, Takes
  <2>5. ASSUME NEW e \in corrupt, Quarantine(e) PROVE pc[w] = "reconcile" /\ verdict'[w] = verdict[w]
    BY <1>2, <2>5 DEF Quarantine
  <2>6. ASSUME NEW verified \in BOOLEAN, FinishReconcile(verified)
        PROVE  pc[w] = "reconcile" /\ verdict'[w] = verdict[w]
    BY <1>2, <2>6 DEF FinishReconcile
  <2>7. CASE Tick \/ UNCHANGED vars
    BY <1>2, <2>1, <2>7 DEF Tick, vars
  <2>8. CASE WorkerEntry
    BY <2>1, <2>2, <2>3, <2>4, <2>5, <2>6, <2>7, <2>8 DEF WorkerEntry, RejectUnauthorised,
       WaitForDependency, HoldForStop, ReplayCompleted, AttemptsExhausted, ProviderUnavailable
  <2>9. ASSUME NEW a \in Runners, RunnerStep(a) PROVE pc[w] = "reconcile" /\ verdict'[w] = verdict[w]
    <3>1. pc'[a] # "reconcile"
      BY <2>9 DEF RunnerStep, Reserve, PreflightPasses, FailsBeforeBoundary, CrossBoundary,
         GuardRefuses, TokenFails, SendWrite, WriteAcknowledged, WriteFails, ReadBackVerified,
         ReadBackMismatch, ReadBackUnreadable, Complete, RecordFailure, Moves, Appends, RunEnds
    <3>2. pc[w] = "reconcile" /\ w # a
      BY <1>2, <2>9, <3>1, RunnersApart
    <3>3. w = "worker"
      BY <3>2 DEF Placed, OutcomePcs
    <3>4. verdict'[w] = verdict[w]
      BY <2>9, <3>2, <3>3 DEF RunnerStep, Reserve, PreflightPasses, FailsBeforeBoundary,
         CrossBoundary, GuardRefuses, TokenFails, SendWrite, WriteAcknowledged, WriteFails,
         ReadBackVerified, ReadBackMismatch, ReadBackUnreadable, Complete, RecordFailure, Moves,
         Appends, RunEnds
    <3> QED
      BY <3>2, <3>4
  <2>10. ASSUME NEW v \in Writers, OutcomeStep(v) PROVE pc[w] = "reconcile" /\ verdict'[w] = verdict[w]
    BY <1>2, <2>10 DEF OutcomeStep, SaveState, SaveResult, Archive, Rests
  <2>11. ASSUME NEW e \in incoming, Retire(e) PROVE pc[w] = "reconcile" /\ verdict'[w] = verdict[w]
    BY <1>2, <2>11 DEF Retire
  <2>12. CASE Environment
    BY <1>2, <2>1, <2>12 DEF Environment, Submit, Expire, Corrupt, ProviderApplies,
       ProviderRejects, Crash, Boot, FreshPc
  <2> QED
    BY <2>1, <2>7, <2>8, <2>9, <2>10, <2>11, <2>12 DEF Next
<1> QED
  BY <1>1, <1>2, ArchivesAnswered DEF Concluded, Live, LiveNext

LEMMA ArchivedStep ==
  ASSUME Situated, Concluded, ArchivedHasResult, [Next]_vars
  PROVE  ArchivedHasResult'
<1> SUFFICES ASSUME NEW j \in archived' PROVE result'[j] # None
  BY DEF ArchivedHasResult
<1>1. CASE j \in archived
  BY <1>1, StaysAnswered DEF ArchivedHasResult, Situated, TypeOK
<1>2. ASSUME NEW w \in Writers, Archive(w), j \notin archived PROVE result'[j] # None
  <2>1. j = entry[w].job /\ pc[w] = "archive"
    BY <1>2 DEF Archive
  <2>2. j \in Jobs
    BY <2>1 DEF Situated, Informed, Writers, Entries
  <2> QED
    BY <2>1, <2>2, StaysAnswered DEF Concluded
<1> QED
  BY <1>1, <1>2, OutcomeWritten

LEMMA DoneStep ==
  ASSUME Situated, Concluded, DoneIsLive, [Next]_vars
  PROVE  DoneIsLive'
<1> SUFFICES ASSUME NEW j \in Jobs, result'[j] # None, result'[j].outcome = "DONE"
             PROVE  \A c \in ChangesOf(PlanOf[j]) : LiveNext(c)
  BY DEF DoneIsLive, Live, LiveNext
<1>1. CASE result'[j] = result[j]
  BY <1>1, StaysLive DEF DoneIsLive
<1>2. ASSUME NEW w \in Writers, SaveResult(w), result'[j] # result[j]
      PROVE  \A c \in ChangesOf(PlanOf[j]) : LiveNext(c)
  <2>1. j = entry[w].job /\ result'[j] = verdict[w] /\ pc[w] = "save_result"
    BY <1>2 DEF SaveResult, Situated, TypeOK
  <2> QED
    BY <2>1, StaysLive DEF Concluded
<1> QED
  BY <1>1, <1>2, OutcomeWritten

LEMMA PrefixStep ==
  ASSUME Situated, PassedVerified, VerifiedPrefix, [Next]_vars
  PROVE  VerifiedPrefix'
<1> SUFFICES ASSUME NEW p \in Plans, NEW i \in 1..Len(Actions[p]), NEW k \in 1..(i - 1),
                    sent'[<<p, Actions[p][i]>>] > 0
             PROVE  /\ LiveNext(Actions[p][k])
                    /\ ChangeRecord("change_verified", Actions[p][k]) \in audit'
  BY DEF VerifiedPrefix, Live, LiveNext
<1>1. CASE sent[<<p, Actions[p][i]>>] > 0
  BY <1>1, Grows, StaysLive DEF VerifiedPrefix
<1>2. CASE ~(sent[<<p, Actions[p][i]>>] > 0)
  <2>1. PICK a \in Runners : SendWrite(a)
    BY <1>2, OnlySends
  <2>2. /\ pc[a] \in RunningPcs /\ step[a] \in 1..Len(Actions[plan[a]])
        /\ \A r \in Plans \X Changes : r # <<plan[a], Change(a)>> => sent'[r] = sent[r]
    BY <2>1, Sends DEF RunningPcs
  <2>3. Actions[p][i] \in Changes
    OBVIOUS
  <2>4. <<p, Actions[p][i]>> = <<plan[a], Change(a)>>
    BY <1>2, <2>2, <2>3
  <2>5. plan[a] = p /\ i = step[a]
    BY <2>2, <2>4 DEF Change
  <2>6. k \in Passed(a)
    BY <2>5 DEF Passed
  <2> QED
    BY <2>2, <2>5, <2>6, Grows, StaysLive DEF PassedVerified
<1> QED
  BY <1>1, <1>2

LEMMA RecordStep == ASSUME RecordInv, [Next]_vars PROVE RecordInv'
<1>1. Situated
  BY DEF RecordInv, Situated
<1>2. TypeOK' /\ Placed' /\ Informed' /\ InPlan' /\ Marked'
  BY <1>1, TypeStep, PlacedStep, MarkedStep DEF RecordInv
<1>3. Dispatched' /\ PassedVerified' /\ ClosedForCause' /\ Concluded'
  BY <1>1, DispatchedStep, PassedStep, CauseStep, ConcludedStep DEF RecordInv
<1>5. CheckpointStands' /\ LegacyShut'
  BY <1>1, StandsStep, LegacyStep DEF RecordInv
<1>4. ArchivedHasResult' /\ GuardsPartOnLegacy' /\ VerifiedPrefix' /\ DoneIsLive'
  BY <1>1, <1>5, ArchivedStep, GuardsStep, PrefixStep, DoneStep DEF RecordInv
<1> QED
  BY <1>2, <1>3, <1>4, <1>5 DEF RecordInv

-----------------------------------------------------------------------------
(* What is sent, if no two runners have the same plan.                     *)

LEMMA InitWrite == Init => WriteInv
<1> SUFFICES ASSUME Init PROVE WriteInv
  OBVIOUS
<1>1. pc = FreshPc /\ sent = [r \in Plans \X Changes |-> 0]
  BY DEF Init, Boot
<1>2. pc["worker"] = "idle" /\ pc["housekeeping"] = "idle" /\ pc["startup"] \notin RunningPcs
  BY <1>1 DEF FreshPc, RunningPcs, Actors, Runners, Writers
<1>3. \A a \in Runners : pc[a] \notin RunningPcs
  BY <1>2 DEF Runners, RunningPcs
<1>4. AtMostOneWrite
  BY <1>1 DEF AtMostOneWrite
<1> QED
  BY <1>2, <1>3, <1>4 DEF WriteInv, Unsent, NotClosed, SentInOrder, SafeIsUnsent, Writers

\* Two runners inside a plan are inside different ones.
LEMMA Apart ==
  ASSUME Situated, StartupApart, NEW a \in Runners, NEW b \in Runners, a # b,
         pc[a] \in RunningPcs, pc[b] \in RunningPcs
  PROVE  plan[a] # plan[b]
  BY DEF Situated, InPlan, Runners, StartupApart

\* A runner moves by its own steps only, and its requests are its own.
LEMMA OwnRequests ==
  ASSUME Situated, StartupApart, [Next]_vars, NEW a \in Runners, pc[a] \in RunningPcs, ~SendWrite(a)
  PROVE  \A i \in 1..Len(Actions[plan[a]]) :
             sent'[<<plan[a], Actions[plan[a]][i]>>] = sent[<<plan[a], Actions[plan[a]][i]>>]
<1>1. CASE sent' = sent
  BY <1>1
<1>2. ASSUME NEW b \in Runners, SendWrite(b), NEW i \in 1..Len(Actions[plan[a]])
      PROVE  sent'[<<plan[a], Actions[plan[a]][i]>>] = sent[<<plan[a], Actions[plan[a]][i]>>]
  <2>1. a # b /\ pc[b] \in RunningPcs
    BY <1>2, Sends DEF RunningPcs
  <2>2. plan[a] # plan[b]
    BY <2>1, Apart
  <2>3. <<plan[a], Actions[plan[a]][i]>> \in Plans \X Changes
    BY DEF Situated, InPlan
  <2>4. \A r \in Plans \X Changes : r # <<plan[b], Change(b)>> => sent'[r] = sent[r]
    BY <1>2, Sends
  <2> QED
    BY <2>2, <2>3, <2>4
<1> QED
  BY <1>1, <1>2, OnlySends

LEMMA UnsentStep ==
  ASSUME Situated, Marked, Unsent, StartupApart, [Next]_vars
  PROVE  Unsent'
<1> SUFFICES ASSUME NEW a \in Runners, pc'[a] \in RunningPcs, NEW i \in 1..Len(Actions[plan'[a]]),
                    \/ pc'[a] \in {"preflight", "validate", "started"} /\ i >= step'[a]
                    \/ pc'[a] \in {"sent", "readback"} /\ i > step'[a]
             PROVE  sent'[<<plan'[a], Actions[plan'[a]][i]>>] = 0
  BY DEF Unsent
<1>1. CASE ~RunnerStep(a)
  <2>1. pc'[a] = pc[a] /\ plan'[a] = plan[a] /\ step'[a] = step[a]
    BY <1>1, Still DEF Situated
  <2>2. sent[<<plan[a], Actions[plan[a]][i]>>] = 0
    BY <2>1 DEF Unsent
  <2>3. ~SendWrite(a)
    BY <1>1, Sends
  <2> QED
    BY <2>1, <2>2, <2>3, OwnRequests
<1>2. CASE RunnerStep(a) /\ Admitted(a)
  <2> DEFINE p == plan'[a]
  <2>1. p \in Plans /\ Replayable(p) /\ pc'[a] = "preflight"
    BY <1>2 DEF Admitted
  <2>2. Actions[p][i] \in Changes
    BY <2>1
  <2>3. sent[<<p, Actions[p][i]>>] = 0
    <3>1. StartedRecord(p, Actions[p][i]) \notin audit
      BY <2>1, <2>2 DEF Replayable, ProviderStarted
    <3>2. sent[<<p, Actions[p][i]>>] \in Nat
      BY <2>1, <2>2 DEF Situated, TypeOK
    <3> QED
      BY <2>1, <2>2, <3>1, <3>2 DEF Marked
  <2>4. sent' = sent
    <3> SUFFICES ASSUME NEW b \in Runners, SendWrite(b) PROVE FALSE
      BY OnlySends
    <3>1. b = a
      BY <1>2, Sends, RunnersApart DEF Admitted, Situated, Actors
    <3> QED
      BY <2>1, <3>1, Sends
  <2> QED
    BY <2>3, <2>4
<1>3. CASE RunnerStep(a) /\ pc[a] \in RunningPcs /\ plan'[a] = plan[a] /\ Continues(a)
  <2>1. step[a] \in Nat /\ pc[a] = "readback" /\ i > step[a] /\ i \in 1..Len(Actions[plan[a]])
    BY <1>3 DEF Continues, Situated, InPlan, TypeOK
  <2>2. sent[<<plan[a], Actions[plan[a]][i]>>] = 0
    BY <1>3, <2>1 DEF Unsent
  <2>3. ~SendWrite(a)
    BY <2>1, Sends
  <2> QED
    BY <1>3, <2>1, <2>2, <2>3, OwnRequests
<1>4. CASE RunnerStep(a) /\ pc[a] \in RunningPcs /\ plan'[a] = plan[a] /\ Proceeds(a)
  <2>1. step[a] \in 1..Len(Actions[plan[a]]) /\ i \in 1..Len(Actions[plan[a]]) /\ step'[a] = step[a]
    BY <1>4 DEF Proceeds, Situated, InPlan
  <2>2. sent[<<plan[a], Actions[plan[a]][i]>>] = 0
    BY <1>4, <2>1 DEF Unsent, Proceeds
  <2>3. CASE ~SendWrite(a)
    BY <1>4, <2>1, <2>2, <2>3, OwnRequests
  <2>4. CASE SendWrite(a)
    <3>1. i > step[a]
      BY <2>1, <2>4, Sends
    <3>2. sent'[<<plan[a], Actions[plan[a]][i]>>] = sent[<<plan[a], Actions[plan[a]][i]>>]
      <4>1. i # step[a]
        BY <2>1, <3>1
      <4>2. \A k \in 1..Len(Actions[plan[a]]) : k # step[a] =>
               sent'[<<plan[a], Actions[plan[a]][k]>>] = sent[<<plan[a], Actions[plan[a]][k]>>]
        BY <2>4, Sends
      <4> QED
        BY <2>1, <4>1, <4>2
    <3> QED
      BY <1>4, <2>2, <3>2
  <2> QED
    BY <2>3, <2>4
<1> QED
  BY <1>1, <1>2, <1>3, <1>4, Course

LEMMA OnceStep ==
  ASSUME Situated, Unsent, AtMostOneWrite, [Next]_vars
  PROVE  AtMostOneWrite'
<1> SUFFICES ASSUME NEW r \in Plans \X Changes PROVE sent'[r] <= 1
  BY DEF AtMostOneWrite
<1>1. sent[r] <= 1
  BY DEF AtMostOneWrite
<1>2. ASSUME NEW a \in Runners, SendWrite(a) PROVE sent'[r] <= 1
  <2>1. sent[<<plan[a], Change(a)>>] = 0
    <3>1. pc[a] = "started" /\ step[a] \in 1..Len(Actions[plan[a]])
      BY <1>2, Sends
    <3>2. step[a] >= step[a]
      BY <3>1
    <3> QED
      BY <3>1, <3>2 DEF Unsent, Change, RunningPcs
  <2>2. sent'[<<plan[a], Change(a)>>] = 1
    <3>1. sent'[<<plan[a], Change(a)>>] = sent[<<plan[a], Change(a)>>] + 1
      BY <1>2, Sends
    <3> QED
      BY <2>1, <3>1
  <2>3. CASE r = <<plan[a], Change(a)>>
    BY <2>2, <2>3
  <2>4. CASE r # <<plan[a], Change(a)>>
    <3>1. \A q \in Plans \X Changes : q # <<plan[a], Change(a)>> => sent'[q] = sent[q]
      BY <1>2, Sends
    <3> QED
      BY <1>1, <2>4, <3>1
  <2> QED
    BY <2>3, <2>4
<1>3. CASE sent' = sent
  BY <1>1, <1>3
<1> QED
  BY <1>2, <1>3, OnlySends

LEMMA NotClosedStep ==
  ASSUME Situated, ClosedForCause, NotClosed, StartupApart, [Next]_vars
  PROVE  NotClosed'
<1> SUFFICES ASSUME NEW a \in Runners, pc'[a] \in RunningPcs, NEW event \in {"completed", "ambiguous"},
                    Recorded(audit', event, plan'[a])
             PROVE  FALSE
  BY DEF NotClosed
<1>1. ~Recorded(audit, event, plan'[a])
  <2>1. CASE ~RunnerStep(a)
    BY <2>1, Still DEF NotClosed, Situated
  <2>2. CASE Admitted(a)
    BY <2>2 DEF Admitted, Replayable, ClosedForCause
  <2>3. CASE pc[a] \in RunningPcs /\ plan'[a] = plan[a]
    BY <2>3 DEF NotClosed
  <2> QED
    BY <2>1, <2>2, <2>3, Course
<1>2. PICK b \in Runners : (Complete(b) \/ RecordFailure(b)) /\ plan'[a] = plan[b]
  BY <1>1, Grows, Closing
<1>3. RunnerStep(b) /\ pc[b] \in RunningPcs
  BY <1>2 DEF RunnerStep, Complete, RecordFailure, RunningPcs
<1>4. pc'[b] \notin RunningPcs
  BY <1>2 DEF Complete, RecordFailure, RunEnds, RunningPcs, Situated, TypeOK, Runners, Actors
<1>5. a # b
  BY <1>4
<1>6. pc[a] = pc'[a] /\ plan[a] = plan'[a]
  BY <1>3, <1>5, RunnersApart DEF Situated, Actors
<1> QED
  BY <1>2, <1>3, <1>5, <1>6, Apart

LEMMA InOrderStep ==
  ASSUME Situated, Unsent, SentInOrder, StartupApart, [Next]_vars
  PROVE  SentInOrder'
<1> SUFFICES ASSUME NEW a \in Runners, pc'[a] \in RunningPcs, NEW i \in 1..Len(Actions[plan'[a]]),
                    i \in Passed(a)' \/ (i = step'[a] /\ pc'[a] \in {"sent", "readback"})
             PROVE  sent'[<<plan'[a], Actions[plan'[a]][i]>>] = 1
  BY DEF SentInOrder
<1>1. CASE ~RunnerStep(a)
  <2>1. pc'[a] = pc[a] /\ plan'[a] = plan[a] /\ step'[a] = step[a]
    BY <1>1, Still DEF Situated
  <2>2. sent[<<plan[a], Actions[plan[a]][i]>>] = 1
    BY <2>1 DEF SentInOrder, Passed
  <2>3. ~SendWrite(a)
    BY <1>1, Sends
  <2> QED
    BY <2>1, <2>2, <2>3, OwnRequests
<1>2. CASE Admitted(a)
  BY <1>2 DEF Admitted, Passed
<1>3. CASE pc[a] \in RunningPcs /\ plan'[a] = plan[a] /\ (Continues(a) \/ Proceeds(a))
  <2>1. step[a] \in 1..Len(Actions[plan[a]]) /\ i \in 1..Len(Actions[plan[a]])
    BY <1>3 DEF Situated, InPlan
  <2>2. CASE SendWrite(a)
    <3>1. pc[a] = "started" /\ pc'[a] = "sent" /\ step'[a] = step[a]
      BY <1>3, <2>2, Sends DEF Continues, Proceeds
    <3>2. CASE i = step[a]
      <4>1. sent[<<plan[a], Change(a)>>] = 0
        BY <1>3, <2>1, <3>1 DEF Unsent, Change
      <4> QED
        BY <1>3, <2>2, <3>2, <4>1, Sends DEF Change
    <3>3. CASE i # step[a]
      <4>1. i \in Passed(a)
        BY <2>1, <3>1, <3>3 DEF Passed
      <4>2. sent[<<plan[a], Actions[plan[a]][i]>>] = 1
        BY <1>3, <2>1, <4>1 DEF SentInOrder
      <4>3. sent'[<<plan[a], Actions[plan[a]][i]>>] = sent[<<plan[a], Actions[plan[a]][i]>>]
        BY <2>1, <2>2, <3>3, Sends
      <4> QED
        BY <1>3, <4>2, <4>3
    <3> QED
      BY <3>2, <3>3
  <2>3. CASE ~SendWrite(a)
    <3>1. i \in Passed(a) \/ (i = step[a] /\ pc[a] \in {"sent", "readback"})
      BY <1>3, <2>1, <2>3 DEF Passed, Continues, Proceeds
    <3>2. sent[<<plan[a], Actions[plan[a]][i]>>] = 1
      BY <1>3, <2>1, <3>1 DEF SentInOrder
    <3> QED
      BY <1>3, <2>1, <2>3, <3>2, OwnRequests
  <2> QED
    BY <2>2, <2>3
<1> QED
  BY <1>1, <1>2, <1>3, Course

\* While an outcome is stored nothing is sent: the stretch has no await.
LEMMA QuietWhileStored ==
  ASSUME Situated, [Next]_vars, NEW w \in Writers, pc[w] \in {"save_state", "save_result"}
  PROVE  sent' = sent
<1> SUFFICES ASSUME NEW a \in Runners, SendWrite(a) PROVE FALSE
  BY OnlySends
<1>1. pc[a] = "started" /\ Turn(a)
  BY DEF SendWrite
<1> QED
  BY <1>1 DEF Turn, Synchronous, Actors

LEMMA SafeStep ==
  ASSUME Situated, Marked, Dispatched, CheckpointStands, Concluded, NotClosed, SafeIsUnsent,
         [Next]_vars
  PROVE  SafeIsUnsent'
<1> SUFFICES ASSUME NEW w \in Writers, pc'[w] \in {"save_state", "save_result"},
                    verdict'[w].outcome = "FAILED_SAFE",
                    NEW c \in ChangesOf(PlanOf[entry'[w].job])
             PROVE  sent'[<<PlanOf[entry'[w].job], c>>] = 0
  BY DEF SafeIsUnsent
<1> DEFINE p == PlanOf[entry'[w].job]
<1>1. p \in Plans /\ c \in Changes
  <2>1. p \in Plans
    BY PlacedStep DEF Placed, Informed, Entries, Writers
  <2> QED
    BY <2>1 DEF ChangesOf
<1>2. CASE Kept(w)
  <2>1. pc[w] \in {"save_state", "save_result"}
    BY <1>2 DEF Kept, Concluded
  <2>2. sent' = sent
    BY <2>1, QuietWhileStored
  <2> QED
    BY <1>2, <2>1, <2>2 DEF Kept, SafeIsUnsent
<1>3. CASE Founded(w)
  <2> HIDE DEF p
  <2>1. /\ sent' = sent
        /\ Checkpoint(audit', p) \notin {"AMBIGUOUS", "PROVIDER_BOUNDARY_REACHED"}
        /\ Checkpoint(audit', p) = "VERIFIED_COMPLETE" => RecordFailure("worker") /\ plan["worker"] = p
    BY <1>3 DEF Founded, p
  <2>2. Checkpoint(audit', p) # "VERIFIED_COMPLETE"
    <3> SUFFICES ASSUME Recorded(audit', "completed", p), RecordFailure("worker"), plan["worker"] = p
                 PROVE  FALSE
      BY <2>1 DEF Checkpoint
    <3>1. "worker" \in Runners /\ pc["worker"] \in RunningPcs /\ RunnerStep("worker")
      BY DEF RecordFailure, RunningPcs, Runners, RunnerStep
    <3>2. ~Complete("worker")
      BY DEF RecordFailure, Complete
    <3> QED
      BY <3>1, <3>2, Closing DEF NotClosed
  <2>3. ~ProviderStarted(audit', p)
    BY <2>1, <2>2 DEF Checkpoint
  <2>4. StartedRecord(p, c) \notin audit
    BY <1>1, <2>3, Grows DEF ProviderStarted
  <2>5. sent[<<p, c>>] \in Nat
    BY <1>1 DEF Situated, TypeOK
  <2>6. sent[<<p, c>>] = 0
    BY <1>1, <2>4, <2>5 DEF Marked
  <2> QED
    BY <2>1, <2>6 DEF p
<1> QED
  BY <1>2, <1>3, Outcomes

LEMMA WriteStep == ASSUME RecordInv, WriteInv, StartupApart, [Next]_vars PROVE WriteInv'
<1>1. Situated
  BY DEF RecordInv, Situated
<1> QED
  BY <1>1, UnsentStep, OnceStep, NotClosedStep, InOrderStep, SafeStep DEF RecordInv, WriteInv

-----------------------------------------------------------------------------
(* The theorems.                                                           *)

\* The invariant is inductive.
THEOREM Inductive == Spec => []IInv
<1>1. Init => IInv
  BY InitRecord, InitWrite DEF IInv
<1>2. IInv /\ [Next]_vars => IInv'
  <2> SUFFICES ASSUME IInv, [Next]_vars PROVE IInv'
    OBVIOUS
  <2>1. RecordInv'
    BY RecordStep DEF IInv
  <2>2. StartupApart => WriteInv'
    BY WriteStep DEF IInv
  <2> QED
    BY <2>1, <2>2 DEF IInv, StartupApart
<1> QED
  BY <1>1, <1>2, PTL DEF Spec

\* Whatever is retried, resubmitted or restarted, and however often: the runner never
\* sends a change of a plan to the provider twice.
THEOREM WritesAtMostOnce == ASSUME StartupApart PROVE Spec => []AtMostOneWrite
<1>1. IInv => AtMostOneWrite
  BY DEF IInv, WriteInv
<1> QED
  BY <1>1, Inductive, PTL

\* Once a request has left, the checkpoint read from the volume forbids a new run.
THEOREM EvidenceComplete == Spec => []NoHiddenWrite
<1>1. IInv => NoHiddenWrite
  BY DEF IInv, RecordInv, NoHiddenWrite, Marked, ChangesOf, Checkpoint, ProviderStarted
<1> QED
  BY <1>1, Inductive, PTL

\* A change leaves only after every earlier change of its plan is in effect and recorded.
THEOREM SentAfterVerified == Spec => []VerifiedPrefix
<1>1. IInv => VerifiedPrefix
  BY DEF IInv, RecordInv
<1> QED
  BY <1>1, Inductive, PTL

\* DONE is stored only for a plan whose changes are all in effect at the provider.
THEOREM DoneMeansLive == Spec => []DoneIsLive
<1>1. IInv => DoneIsLive
  BY DEF IInv, RecordInv
<1> QED
  BY <1>1, Inductive, PTL

\* When a write is on its way, what its job depends on is in effect.
THEOREM DependenciesInEffect == Spec => []DependencyInEffect
<1>1. IInv => DependencyInEffect
  BY DEF IInv, RecordInv, Dispatched, RunningPcs, DependencyInEffect
<1> QED
  BY <1>1, Inductive, PTL

\* The worker's checkpoint and the runner's replay guard part only where an older version
\* left a plan in doubt, and such a plan is never sent.
THEOREM LegacyNeverSent == Spec => []GuardsPartOnLegacy
<1>1. IInv => GuardsPartOnLegacy
  BY DEF IInv, RecordInv
<1> QED
  BY <1>1, Inductive, PTL

\* However often the process dies, no job is archived without its result.
THEOREM ArchivedAnswered == Spec => []ArchivedHasResult
<1>1. IInv => ArchivedHasResult
  BY DEF IInv, RecordInv
<1> QED
  BY <1>1, Inductive, PTL

\* FAILED_SAFE reaches the volume only while nothing of the plan has ever been sent.
THEOREM FailedSafeUnsent == ASSUME StartupApart PROVE Spec => FailedSafeIsSafe
<1> DEFINE Safe == \A j \in Jobs : result'[j] # result[j] /\ result'[j].outcome = "FAILED_SAFE" =>
                      \A c \in ChangesOf(PlanOf[j]) : sent'[<<PlanOf[j], c>>] = 0
<1>1. IInv /\ [Next]_vars => [Safe]_vars
  <2> SUFFICES ASSUME IInv, [Next]_vars, NEW j \in Jobs,
                      result'[j] # result[j], result'[j].outcome = "FAILED_SAFE",
                      NEW c \in ChangesOf(PlanOf[j])
               PROVE  sent'[<<PlanOf[j], c>>] = 0
    OBVIOUS
  <2>1. Situated /\ SafeIsUnsent
    BY DEF IInv, RecordInv, WriteInv, Situated
  <2>2. PICK w \in Writers : SaveResult(w)
    BY OutcomeWritten
  <2>3. j = entry[w].job /\ result'[j] = verdict[w] /\ pc[w] = "save_result"
    BY <2>1, <2>2 DEF SaveResult, Situated, TypeOK
  <2>4. sent' = sent
    BY <2>2 DEF SaveResult
  <2> QED
    BY <2>1, <2>3, <2>4 DEF SafeIsUnsent
<1> QED
  BY <1>1, Inductive, PTL DEF Spec, FailedSafeIsSafe

-----------------------------------------------------------------------------
(* The refinement.                                                         *)

\* A record that neither closes a plan nor marks its boundary leaves every phase alone.
LEMMA PhaseKept ==
  ASSUME NEW p,
         \A r \in audit' \ audit : r.event \notin {"completed", "ambiguous", "started"},
         audit \subseteq audit'
  PROVE  PhaseOf(p)' = PhaseOf(p)
<1>1. /\ Recorded(audit', "completed", p) = Recorded(audit, "completed", p)
      /\ Recorded(audit', "ambiguous", p) = Recorded(audit, "ambiguous", p)
  BY DEF Recorded, PlanRecord
<1>2. ProviderStarted(audit', p) <=> ProviderStarted(audit, p)
  <2>1. ASSUME NEW c \in Changes PROVE StartedRecord(p, c) \in audit' <=> StartedRecord(p, c) \in audit
    BY DEF StartedRecord
  <2> QED
    BY <2>1 DEF ProviderStarted
<1> QED
  BY <1>1, <1>2 DEF PhaseOf

\* What a running plan looks like in the ledger: not closed, written up to the runner's step.
LEMMA RunningPhase ==
  ASSUME IInv, StartupApart, NEW a \in Runners, pc[a] \in RunningPcs
  PROVE  /\ plan[a] \in Plans /\ Change(a) \in Changes
         /\ PhaseOf(plan[a]) = IF ProviderStarted(audit, plan[a]) THEN "open" ELSE "fresh"
  BY DEF IInv, RecordInv, WriteInv, InPlan, NotClosed, PhaseOf, Change

LEMMA LedgerWrite ==
  ASSUME IInv, StartupApart, NEW a \in Runners, SendWrite(a)
  PROVE  Ledger!Write(plan[a])
<1> DEFINE p == plan[a]
<1>1. Situated /\ Marked /\ Unsent /\ SentInOrder
  BY DEF IInv, RecordInv, WriteInv, Situated
<1>2. /\ pc[a] = "started" /\ pc[a] \in RunningPcs /\ p \in Plans /\ Change(a) \in Changes
      /\ step[a] \in 1..Len(Actions[p])
  BY <1>1, Sends DEF RunningPcs
<1>3. PhaseOf(p) = "open"
  <2>1. StartedRecord(p, Change(a)) \in audit
    BY <1>1, <1>2 DEF Marked
  <2> QED
    BY <1>2, <2>1, RunningPhase DEF ProviderStarted
<1>4. \A i \in 1..Len(Actions[p]) :
         sent[<<p, Actions[p][i]>>] = IF i <= step[a] - 1 THEN 1 ELSE 0
  <2> SUFFICES ASSUME NEW i \in 1..Len(Actions[p])
               PROVE  sent[<<p, Actions[p][i]>>] = IF i <= step[a] - 1 THEN 1 ELSE 0
    OBVIOUS
  <2>1. CASE i <= step[a] - 1
    <3>1. i \in Passed(a)
      BY <1>2, <2>1 DEF Passed
    <3>2. sent[<<p, Actions[p][i]>>] = 1
      BY <1>1, <1>2, <3>1 DEF SentInOrder
    <3> QED
      BY <2>1, <3>2
  <2>2. CASE ~(i <= step[a] - 1)
    <3>1. i >= step[a]
      BY <1>2, <2>2
    <3>2. sent[<<p, Actions[p][i]>>] = 0
      BY <1>1, <1>2, <3>1 DEF Unsent
    <3> QED
      BY <2>2, <3>2
  <2> QED
    BY <2>1, <2>2
<1>5. \A q \in Plans : PhaseOf(q)' = PhaseOf(q)
  BY PhaseKept DEF SendWrite
<1>6. sent' = [sent EXCEPT ![<<p, Actions[p][(step[a] - 1) + 1]>>] = @ + 1]
  <2>1. (step[a] - 1) + 1 = step[a]
    BY <1>2
  <2> QED
    BY <2>1 DEF SendWrite, Change
<1>7. step[a] - 1 \in 0..(Len(Actions[p]) - 1)
  BY <1>2
<1> QED
  BY <1>2, <1>3, <1>4, <1>5, <1>6, <1>7 DEF Ledger!Write, Ledger!SentUpTo

LEMMA LedgerOpen ==
  ASSUME IInv, StartupApart, NEW a \in Runners, CrossBoundary(a)
  PROVE  Ledger!Open(plan[a]) \/ UNCHANGED <<[p \in Plans |-> PhaseOf(p)], sent>>
<1> DEFINE p == plan[a]
<1>1. /\ pc[a] \in RunningPcs /\ sent' = sent
      /\ audit' = audit \cup {ChangeRecord("validate_only", Change(a)), StartedRecord(p, Change(a))}
  BY DEF CrossBoundary, Appends, RunningPcs
<1>2. p \in Plans /\ Change(a) \in Changes
  BY <1>1, RunningPhase
<1>3. ProviderStarted(audit', p)
  BY <1>1, <1>2 DEF ProviderStarted
<1>4. \A q \in Plans : /\ Recorded(audit', "completed", q) = Recorded(audit, "completed", q)
                       /\ Recorded(audit', "ambiguous", q) = Recorded(audit, "ambiguous", q)
  BY <1>1 DEF Recorded, PlanRecord, ChangeRecord, StartedRecord
<1>5. \A q \in Plans : q # p => ProviderStarted(audit', q) = ProviderStarted(audit, q)
  BY <1>1 DEF ProviderStarted, ChangeRecord, StartedRecord
<1>6. \A q \in Plans : PhaseOf(q)' = IF q = p THEN "open" ELSE PhaseOf(q)
  <2>1. ~Recorded(audit, "completed", p) /\ ~Recorded(audit, "ambiguous", p)
    BY <1>1 DEF IInv, WriteInv, NotClosed
  <2> QED
    BY <1>2, <1>3, <1>4, <1>5, <2>1 DEF PhaseOf
<1>7. PhaseOf(p) \in {"fresh", "open"}
  BY <1>1, RunningPhase
<1> HIDE DEF p
<1> QED
  BY <1>1, <1>2, <1>6, <1>7 DEF Ledger!Open, p

LEMMA LedgerComplete ==
  ASSUME IInv, StartupApart, NEW a \in Runners, Complete(a)
  PROVE  Ledger!Complete(plan[a])
<1> DEFINE p == plan[a]
<1>1. /\ pc[a] = "complete" /\ pc[a] \in RunningPcs /\ sent' = sent
      /\ audit' = audit \cup {PlanRecord("completed", p)}
  BY DEF Complete, RunningPcs
<1>2. p \in Plans /\ Change(a) \in Changes /\ step[a] = Len(Actions[p]) /\ Len(Actions[p]) \in Nat \ {0}
  BY <1>1, RunningPhase DEF IInv, RecordInv, PassedVerified
<1>3. \A i \in 1..Len(Actions[p]) : sent[<<p, Actions[p][i]>>] = 1
  <2>1. \A i \in 1..Len(Actions[p]) : i \in Passed(a)
    BY <1>1, <1>2 DEF Passed
  <2> QED
    BY <1>1, <2>1 DEF IInv, WriteInv, SentInOrder
<1>4. PhaseOf(p) = "open"
  <2>1. sent[<<p, Change(a)>>] > 0
    <3>1. Change(a) = Actions[p][Len(Actions[p])] /\ Len(Actions[p]) \in 1..Len(Actions[p])
      BY <1>2 DEF Change
    <3>2. sent[<<p, Change(a)>>] = 1
      BY <1>3, <3>1
    <3> QED
      BY <3>2
  <2>2. StartedRecord(p, Change(a)) \in audit
    BY <1>2, <2>1 DEF IInv, RecordInv, Marked
  <2> QED
    BY <1>1, <1>2, <2>2, RunningPhase DEF ProviderStarted
<1>5. \A q \in Plans : PhaseOf(q)' = IF q = p THEN "completed" ELSE PhaseOf(q)
  <2>1. Recorded(audit', "completed", p)
    BY <1>1 DEF Recorded
  <2>2. \A q \in Plans : q # p => /\ Recorded(audit', "completed", q) = Recorded(audit, "completed", q)
                                  /\ Recorded(audit', "ambiguous", q) = Recorded(audit, "ambiguous", q)
    BY <1>1 DEF Recorded, PlanRecord
  <2>3. \A q \in Plans : ProviderStarted(audit', q) = ProviderStarted(audit, q)
    BY <1>1 DEF ProviderStarted, PlanRecord, StartedRecord
  <2> QED
    BY <2>1, <2>2, <2>3 DEF PhaseOf
<1>6. \A i \in 1..Len(Actions[p]) :
         sent[<<p, Actions[p][i]>>] = IF i <= Len(Actions[p]) THEN 1 ELSE 0
  BY <1>2, <1>3
<1> QED
  BY <1>1, <1>2, <1>4, <1>5, <1>6 DEF Ledger!Complete, Ledger!SentUpTo

LEMMA LedgerGiveUp ==
  ASSUME IInv, StartupApart, NEW a \in Runners, RecordFailure(a)
  PROVE  Ledger!GiveUp(plan[a]) \/ UNCHANGED <<[p \in Plans |-> PhaseOf(p)], sent>>
<1> DEFINE p == plan[a]
<1>1. /\ pc[a] \in RunningPcs /\ sent' = sent
      /\ audit' = audit \cup {PlanRecord(FailureMarker(a), p)}
  BY DEF RecordFailure, RunningPcs
<1>2. p \in Plans /\ PhaseOf(p) \in {"fresh", "open"}
  BY <1>1, RunningPhase
<1>3. CASE FailureMarker(a) = "ambiguous"
  <2>1. \A q \in Plans : PhaseOf(q)' = IF q = p THEN "ambiguous" ELSE PhaseOf(q)
    <3>1. Recorded(audit', "ambiguous", p) /\ ~Recorded(audit, "completed", p)
      BY <1>1, <1>3 DEF Recorded, IInv, WriteInv, NotClosed
    <3>2. \A q \in Plans : /\ Recorded(audit', "completed", q) = Recorded(audit, "completed", q)
                           /\ q # p => Recorded(audit', "ambiguous", q) = Recorded(audit, "ambiguous", q)
      BY <1>1, <1>3 DEF Recorded, PlanRecord
    <3>3. \A q \in Plans : ProviderStarted(audit', q) = ProviderStarted(audit, q)
      BY <1>1, <1>3 DEF ProviderStarted, PlanRecord, StartedRecord
    <3> QED
      BY <1>2, <3>1, <3>2, <3>3 DEF PhaseOf
  <2> QED
    BY <1>1, <1>2, <2>1 DEF Ledger!GiveUp
<1>4. CASE FailureMarker(a) # "ambiguous"
  <2>1. FailureMarker(a) = "zero_write"
    BY <1>4 DEF FailureMarker
  <2>2. \A q \in Plans : PhaseOf(q)' = PhaseOf(q)
    BY <1>1, <2>1, PhaseKept DEF PlanRecord
  <2> QED
    BY <1>1, <2>2
<1> QED
  BY <1>3, <1>4

\* Every step of the execution is a step of the ledger or changes nothing in it.
LEMMA LedgerStep ==
  ASSUME IInv, StartupApart, [Next]_vars
  PROVE  [Ledger!Next]_<<[p \in Plans |-> PhaseOf(p)], sent>>
<1>1. CASE \A a \in Runners : ~RunnerStep(a)
  <2>1. audit' = audit
    BY <1>1, Grows
  <2>2. sent' = sent
    BY <1>1, OnlySends DEF RunnerStep
  <2> QED
    BY <2>1, <2>2, PhaseKept
<1>2. ASSUME NEW a \in Runners, RunnerStep(a)
      PROVE  [Ledger!Next]_<<[p \in Plans |-> PhaseOf(p)], sent>>
  <2>1. CASE SendWrite(a)
    <3>1. plan[a] \in Plans
      BY <2>1, Sends DEF IInv, RecordInv, Situated
    <3> QED
      BY <2>1, <3>1, LedgerWrite DEF Ledger!Next
  <2>2. CASE CrossBoundary(a) \/ Complete(a) \/ RecordFailure(a)
    <3>1. pc[a] \in RunningPcs
      BY <2>2 DEF CrossBoundary, Appends, Complete, RecordFailure, RunningPcs
    <3>2. plan[a] \in Plans
      BY <3>1, RunningPhase
    <3> QED
      BY <2>2, <3>2, LedgerOpen, LedgerComplete, LedgerGiveUp DEF Ledger!Next
  <2>3. CASE ~(SendWrite(a) \/ CrossBoundary(a) \/ Complete(a) \/ RecordFailure(a))
    <3>1. /\ sent' = sent /\ audit \subseteq audit'
          /\ \A r \in audit' \ audit : r.event \notin {"completed", "ambiguous", "started"}
      <4>1. CASE Reserve(a)
        <5>1. audit' = audit \/ \E q : audit' = audit \cup {PlanRecord("reserved", q)}
          BY <4>1 DEF Reserve
        <5> QED
          BY <4>1, <5>1 DEF Reserve, PlanRecord
      <4>2. CASE PreflightPasses(a) \/ GuardRefuses(a) \/ WriteAcknowledged(a) \/ ReadBackVerified(a)
                 \/ ReadBackMismatch(a)
        <5>1. \E event \in {"state", "validate_only", "provider_write", "change_verified",
                            "change_unverified"} :
                 audit' = audit \cup {ChangeRecord(event, Change(a))}
          BY <4>2 DEF PreflightPasses, GuardRefuses, WriteAcknowledged, ReadBackVerified,
             ReadBackMismatch, Appends
        <5> QED
          BY <4>2, <5>1 DEF PreflightPasses, GuardRefuses, WriteAcknowledged, ReadBackVerified,
             ReadBackMismatch, Appends, ChangeRecord
      <4>3. CASE FailsBeforeBoundary(a) \/ TokenFails(a) \/ WriteFails(a) \/ ReadBackUnreadable(a)
        BY <4>3 DEF FailsBeforeBoundary, TokenFails, WriteFails, ReadBackUnreadable, Moves
      <4> QED
        BY <1>2, <2>3, <4>1, <4>2, <4>3 DEF RunnerStep
    <3> QED
      BY <3>1, PhaseKept
  <2> QED
    BY <2>1, <2>2, <2>3
<1> QED
  BY <1>1, <1>2

\* The execution implements PlanLedger: through retries, crashes and resubmissions every
\* plan is written in order, each change once, and never after it was closed.
THEOREM ImplementsLedger == ASSUME StartupApart PROVE Spec => LedgerSpec
<1>1. Init => Ledger!Init
  <2> SUFFICES ASSUME Init, NEW p \in Plans PROVE PhaseOf(p) = "fresh"
    BY DEF Init, Ledger!Init
  <2>1. \A r \in audit : r.event \in {"legacy_started", "legacy_progress"}
    BY DEF Init, LegacyStores, PlanRecord
  <2> QED
    BY <2>1 DEF PhaseOf, Recorded, ProviderStarted, PlanRecord, StartedRecord
<1>2. IInv /\ [Next]_vars => [Ledger!Next]_<<[p \in Plans |-> PhaseOf(p)], sent>>
  BY LedgerStep
<1> QED
  BY <1>1, <1>2, Inductive, PTL DEF Spec, LedgerSpec, Ledger!Spec
=============================================================================
