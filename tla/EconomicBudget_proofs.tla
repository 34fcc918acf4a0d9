------------------------ MODULE EconomicBudget_proofs ------------------------
(***************************************************************************)
(* For every set of jobs and budgets: the write of a job is sent at most   *)
(* once, only after its mark is on the volume, its result is final, and an *)
(* undisturbed write is carried out on the budget its check saw.           *)
(***************************************************************************)
EXTENDS EconomicBudget, TLAPS

USE NoneAssumption, AmountsAssumption, PlanAssumption, RankAssumption, LimitAssumption

USE DEF volume, campaign, requests, process, outside

\* The part of the invariant that speaks of one job: its mark, its write, its step.
Kernel == TypeOK /\ SentIsPending /\ AtMostOneWrite /\ MarkedStaysDue /\ AtItsStep

LEMMA InitKernel == Init => Kernel
<1>1. Init => TypeOK
  BY DEF Init, TypeOK, Rest
<1>2. Init => SentIsPending /\ AtMostOneWrite /\ MarkedStaysDue /\ AtItsStep
  BY DEF Init, Rest, SentIsPending, AtMostOneWrite, MarkedStaysDue, AtItsStep
<1> QED
  BY <1>1, <1>2 DEF Kernel

\* What the outside does: it neither sends nor marks, and a due job stays due.
LEMMA OutsideStep == ASSUME IInv, Outside PROVE Kernel'
<1> USE DEF IInv, Kernel, TypeOK, SentIsPending, AtMostOneWrite, MarkedStaysDue, AtItsStep
<1>1. ASSUME NEW j \in Jobs, Submit(j) PROVE Kernel'
  BY <1>1 DEF Submit
<1>2. ASSUME NEW j \in Jobs, Corrupt(j) PROVE Kernel'
  BY <1>2 DEF Corrupt
<1>3. ASSUME NEW j \in Jobs, FallsDue(j) \/ Expire(j) PROVE Kernel'
  BY <1>3 DEF FallsDue, Expire
<1>4. ASSUME NEW j \in Jobs, ProviderApplies(j) \/ ProviderRejects(j) PROVE Kernel'
  BY <1>4 DEF ProviderApplies, ProviderRejects, PlanRecords
<1>5. ASSUME NEW r \in Resources, Reattach(r) \/ \E a \in Amounts : EditAmount(r, a)
      PROVE  Kernel'
  BY <1>5 DEF Reattach, EditAmount
<1>6. CASE Crash
  BY <1>6 DEF Crash, Rest
<1> QED
  BY <1>1, <1>2, <1>3, <1>4, <1>5, <1>6 DEF Outside

LEMMA RouteStep ==
  ASSUME IInv, NEW j \in todo,
         \/ AlreadyResolved(j) \/ GiveUpExpired(j) \/ Schedule(j) \/ NoCredentials(j)
         \/ BeginReconcile(j) \/ BeginRead(j)
  PROVE  Kernel'
<1> USE DEF IInv, Kernel, TypeOK, SentIsPending, AtMostOneWrite, MarkedStaysDue, AtItsStep, Takes
<1>1. CASE AlreadyResolved(j) \/ NoCredentials(j)
  BY <1>1 DEF AlreadyResolved, NoCredentials, Leaves
<1>2. CASE Schedule(j)
  BY <1>2 DEF Schedule, Leaves
<1>3. CASE GiveUpExpired(j)
  BY <1>3 DEF GiveUpExpired, Enters, Results
<1>4. CASE BeginReconcile(j)
  BY <1>4 DEF BeginReconcile, Ready, Enters
<1>5. CASE BeginRead(j)
  BY <1>5 DEF BeginRead, Ready, Enters
<1> QED
  BY <1>1, <1>2, <1>3, <1>4, <1>5

\* The worker inside a job.
LEMMA JobStep ==
  ASSUME IInv,
         \/ ReadThrows \/ Reconcile \/ CheckFails \/ CheckPasses \/ Validated \/ SendWrite
         \/ WriteAcknowledged \/ TimesOut \/ FailsOtherwise \/ ReadBack \/ SaveResult \/ Archive
  PROVE  Kernel'
<1> USE DEF IInv, Kernel, TypeOK, SentIsPending, AtMostOneWrite, MarkedStaysDue, AtItsStep
<1>1. CASE ReadThrows \/ TimesOut \/ Archive
  BY <1>1 DEF ReadThrows, TimesOut, Archive, Rest, GoesOn
<1>2. CASE Reconcile \/ CheckFails \/ FailsOtherwise \/ ReadBack
  BY <1>2 DEF Reconcile, CheckFails, FailsOtherwise, ReadBack, Moves, Results
<1>3. CASE Validated \/ WriteAcknowledged
  BY <1>3 DEF Validated, WriteAcknowledged, Moves
<1>4. CASE CheckPasses
  BY <1>4 DEF CheckPasses
<1>5. CASE SendWrite
  BY <1>5 DEF SendWrite
<1>6. CASE SaveResult
  BY <1>6 DEF SaveResult
<1> QED
  BY <1>1, <1>2, <1>3, <1>4, <1>5, <1>6

LEMMA KernelStep == ASSUME IInv, [Next]_vars PROVE Kernel'
<1>1. CASE UNCHANGED vars
  BY <1>1 DEF vars, IInv, Kernel, TypeOK, SentIsPending, AtMostOneWrite, MarkedStaysDue, AtItsStep
<1>2. CASE Tick
  BY <1>2 DEF Tick, IInv, Kernel, TypeOK, SentIsPending, AtMostOneWrite, MarkedStaysDue, AtItsStep
<1> QED
  BY <1>1, <1>2, OutsideStep, RouteStep, JobStep DEF Next, Worker

-----------------------------------------------------------------------------
(* Requests on their way, results, and what the check saw.                 *)

LEMMA AppliedWasSentStep == ASSUME IInv, Next PROVE AppliedWasSent'
<1> USE DEF IInv, TypeOK, AppliedWasSent
<1>1. CASE SendWrite
  BY <1>1 DEF SendWrite, AtItsStep
<1>2. ASSUME NEW j \in Jobs, ProviderApplies(j) \/ ProviderRejects(j) PROVE AppliedWasSent'
  BY <1>2 DEF ProviderApplies, ProviderRejects
<1>3. CASE UNCHANGED requests
  BY <1>3
<1>4. \/ SendWrite
      \/ \E j \in Jobs : ProviderApplies(j) \/ ProviderRejects(j)
      \/ UNCHANGED requests
  BY DEF Next, Worker, Outside, Tick, AlreadyResolved, GiveUpExpired, Schedule, NoCredentials,
     BeginReconcile, BeginRead, Leaves, Enters, ReadThrows, Reconcile, CheckFails, CheckPasses,
     Validated, WriteAcknowledged, TimesOut, FailsOtherwise, ReadBack, SaveResult, Archive,
     Moves, GoesOn, Submit, Corrupt, FallsDue, Expire, Reattach, EditAmount, Crash
<1> QED
  BY <1>1, <1>2, <1>3, <1>4

\* A verdict of done is reached from an acknowledged write only.
LEMMA DoneWasAppliedStep == ASSUME IInv, Next PROVE DoneWasApplied'
<1> USE DEF IInv, TypeOK, DoneWasApplied
<1>1. CASE Tick
  BY <1>1 DEF Tick
<1>2. ASSUME NEW j \in todo,
             \/ AlreadyResolved(j) \/ GiveUpExpired(j) \/ Schedule(j) \/ NoCredentials(j)
             \/ BeginReconcile(j) \/ BeginRead(j)
      PROVE  DoneWasApplied'
  <2>1. CASE AlreadyResolved(j) \/ Schedule(j) \/ NoCredentials(j)
    BY <2>1 DEF AlreadyResolved, Schedule, NoCredentials, Leaves, Takes
  <2>2. CASE GiveUpExpired(j) \/ BeginReconcile(j) \/ BeginRead(j)
    BY <2>2 DEF GiveUpExpired, BeginReconcile, BeginRead, Enters, Takes
  <2> QED
    BY <1>2, <2>1, <2>2
<1>3. CASE ReadThrows \/ TimesOut \/ Archive
  BY <1>3 DEF ReadThrows, TimesOut, Archive, Rest, GoesOn
<1>4. CASE Reconcile \/ CheckFails \/ FailsOtherwise \/ ReadBack
  BY <1>4 DEF Reconcile, CheckFails, FailsOtherwise, ReadBack, Moves
<1>5. CASE Validated \/ WriteAcknowledged
  BY <1>5 DEF Validated, WriteAcknowledged, Moves
<1>6. CASE CheckPasses \/ SendWrite
  BY <1>6 DEF CheckPasses, SendWrite
<1>7. CASE SaveResult
  BY <1>7 DEF SaveResult
<1>8. CASE Outside
  BY <1>8 DEF Outside, Submit, Corrupt, FallsDue, Expire, ProviderApplies, ProviderRejects,
     Reattach, EditAmount, Crash, Rest
<1> QED
  BY <1>1, <1>2, <1>3, <1>4, <1>5, <1>6, <1>7, <1>8 DEF Next, Worker

\* What is undisturbed after a step that gives no result was so before it.
LEMMA DisturbedStays ==
  ASSUME IInv, NEW j \in Jobs, result' = result, edits' = edits,
         sent' = sent \/ (SendWrite /\ job = j), Undisturbed(j)'
  PROVE  Undisturbed(j)
BY DEF IInv, TypeOK, Undisturbed, SendWrite

\* A write that is on its way and cannot disturb j is that of j.
LEMMA OnlyOwnInFlight ==
  ASSUME IInv, NEW j \in Jobs, Undisturbed(j), NEW k \in inflight
  PROVE  k = j
BY DEF IInv, TypeOK, Undisturbed, AppliedWasSent, DoneWasApplied

LEMMA CheckHoldsStep == ASSUME IInv, Next PROVE CheckHolds'
<1> SUFFICES ASSUME pc' \in {"validate", "write", "sent"}, job' \notin applied', Undisturbed(job)'
             PROVE  AsChecked(job)'
  BY DEF CheckHolds
<1>1. CASE CheckPasses
  BY <1>1 DEF CheckPasses, Valid, AsChecked
<1>2. ASSUME NEW k \in Jobs, ProviderApplies(k) PROVE FALSE
  <2>1. pc \in {"validate", "write", "sent"} /\ job' = job /\ job \in Jobs
    BY <1>2 DEF ProviderApplies, IInv, TypeOK
  <2>2. Undisturbed(job)
    BY <1>2, <2>1, DisturbedStays DEF ProviderApplies
  <2>3. k = job
    BY <1>2, <2>1, <2>2, OnlyOwnInFlight DEF ProviderApplies
  <2> QED
    BY <1>2, <2>1, <2>3 DEF ProviderApplies
<1>3. ASSUME NEW r \in Resources, Reattach(r) \/ \E a \in Amounts : EditAmount(r, a)
      PROVE  FALSE
  <2>1. edits' = edits + 1 /\ edits \in Nat
    BY <1>3 DEF Reattach, EditAmount, IInv, TypeOK
  <2>2. edits' = 0
    BY DEF Undisturbed
  <2> QED
    BY <2>1, <2>2
<1>4. CASE /\ pc \in {"validate", "write", "sent"} /\ job' = job /\ applied' = applied
           /\ UNCHANGED campaign
           /\ result' = result /\ edits' = edits /\ (sent' = sent \/ SendWrite)
  <2>1. job \in Jobs
    BY <1>4 DEF IInv, TypeOK
  <2>2. Undisturbed(job)
    BY <1>4, <2>1, DisturbedStays
  <2>3. AsChecked(job)
    BY <1>4, <2>2 DEF IInv, CheckHolds
  <2> QED
    BY <1>4, <2>3 DEF AsChecked
<1>5. \/ Validated \/ SendWrite
      \/ \E j \in Jobs : Submit(j) \/ Corrupt(j) \/ FallsDue(j) \/ Expire(j) \/ ProviderRejects(j)
      \/ CheckPasses
      \/ \E k \in Jobs : ProviderApplies(k)
      \/ \E r \in Resources : Reattach(r) \/ \E a \in Amounts : EditAmount(r, a)
  BY DEF Next, Worker, Outside, Tick, AlreadyResolved, GiveUpExpired, Schedule, NoCredentials,
     BeginReconcile, BeginRead, Leaves, Enters, Takes, ReadThrows, Reconcile, CheckFails,
     WriteAcknowledged, TimesOut, FailsOtherwise, ReadBack, SaveResult, Archive, Moves, GoesOn,
     Crash, Rest
<1>6. CASE Validated \/ SendWrite
  BY <1>4, <1>6 DEF Validated, SendWrite, Moves
<1>7. ASSUME NEW j \in Jobs,
             Submit(j) \/ Corrupt(j) \/ FallsDue(j) \/ Expire(j) \/ ProviderRejects(j)
      PROVE  AsChecked(job)'
  BY <1>4, <1>7 DEF Submit, Corrupt, FallsDue, Expire, ProviderRejects
<1> QED
  BY <1>1, <1>2, <1>3, <1>5, <1>6, <1>7

LEMMA InitIInv == Init => IInv
<1>1. Init => AppliedWasSent /\ DoneWasApplied /\ CheckHolds
  BY DEF Init, Rest, Results, AppliedWasSent, DoneWasApplied, CheckHolds
<1> QED
  BY <1>1, InitKernel DEF IInv, Kernel

LEMMA Step == ASSUME IInv, [Next]_vars PROVE IInv'
<1>1. CASE UNCHANGED vars
  BY <1>1 DEF vars, IInv, TypeOK, SentIsPending, AtMostOneWrite, MarkedStaysDue, AtItsStep,
     AppliedWasSent, DoneWasApplied, CheckHolds, Undisturbed, AsChecked
<1> QED
  BY <1>1, KernelStep, AppliedWasSentStep, DoneWasAppliedStep, CheckHoldsStep DEF IInv, Kernel

-----------------------------------------------------------------------------
\* The invariant is inductive.
THEOREM EconomicInductive == Spec => []IInv
<1> QED
  BY InitIInv, Step, PTL DEF Spec

\* However often a job is retried or handed off again and whenever the process dies, its
\* budget write is sent at most once.
THEOREM BudgetWrittenAtMostOnce == Spec => []AtMostOneWrite
<1>1. IInv => AtMostOneWrite
  BY DEF IInv
<1> QED
  BY <1>1, EconomicInductive, PTL

\* A sent write is marked on the volume from then on.
THEOREM BudgetWriteIsMarked == Spec => []SentIsPending
<1>1. IInv => SentIsPending
  BY DEF IInv
<1> QED
  BY <1>1, EconomicInductive, PTL

\* The result a job was given is never replaced.
THEOREM BudgetResultIsFinal == Spec => ResultIsFinal
<1>1. IInv /\ [Next]_vars => [\A j \in Jobs : result[j] # None => result'[j] = result[j]]_vars
  <2> SUFFICES ASSUME IInv, Next, NEW j \in Jobs, result[j] # None
               PROVE  result'[j] = result[j]
    OBVIOUS
  <2>1. CASE SaveResult
    BY <2>1 DEF SaveResult, IInv, TypeOK, AtItsStep
  <2>2. CASE ~SaveResult
    BY <2>2 DEF Next, Worker, Outside, Tick, AlreadyResolved, GiveUpExpired, Schedule,
       NoCredentials, BeginReconcile, BeginRead, Leaves, Enters, Takes, ReadThrows, Reconcile,
       CheckFails, CheckPasses, Validated, SendWrite, WriteAcknowledged, TimesOut,
       FailsOtherwise, ReadBack, Archive, Moves, GoesOn, Rest, Submit, Corrupt, FallsDue,
       Expire, ProviderApplies, ProviderRejects, Reattach, EditAmount, Crash
  <2> QED
    BY <2>1, <2>2
<1> QED
  BY <1>1, EconomicInductive, PTL DEF Spec, ResultIsFinal

\* An undisturbed write is carried out on what its check saw: it is the only request on its
\* way, and neither people nor another request changed the campaign since.
THEOREM BudgetAppliedAsChecked == Spec => AppliedAsChecked
<1>1. IInv /\ [Next]_vars =>
        [\A j \in applied' \ applied :
            pc = "sent" /\ job = j /\ Undisturbed(j) => AsChecked(j)]_vars
  <2> SUFFICES ASSUME IInv, NEW j \in applied' \ applied, pc = "sent", job = j, Undisturbed(j)
               PROVE  AsChecked(j)
    OBVIOUS
  <2> QED
    BY DEF IInv, CheckHolds
<1> QED
  BY <1>1, EconomicInductive, PTL DEF Spec, AppliedAsChecked
=============================================================================
