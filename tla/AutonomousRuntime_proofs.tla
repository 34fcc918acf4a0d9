----------------------- MODULE AutonomousRuntime_proofs -----------------------
(***************************************************************************)
(* For every set of objectives, tasks and workers: a task that is done     *)
(* stays done, a handler runs on finished dependencies only, attempts      *)
(* beyond the limit are explained by what befell the task, a lease keeps   *)
(* other executions out unless it lapses, and an objective that is done    *)
(* has nothing left to do.                                                 *)
(***************************************************************************)
EXTENDS AutonomousRuntime, FiniteSetTheorems, TLAPS

USE NoneAssumption, TaskAssumption, BoundAssumption

USE DEF file, time, processes, events, Cells

\* Appending tasks loses none.
LEMMA MembersGrow ==
  ASSUME NEW s \in Seq(Tasks), NEW r \in Seq(Tasks)
  PROVE  /\ s \o r \in Seq(Tasks)
         /\ Members(s \o r) = Members(s) \cup Members(r)
<1>1. s \o r \in Seq(Tasks) /\ Len(s \o r) = Len(s) + Len(r)
  OBVIOUS
<1>2. \A i \in 1..Len(s) : (s \o r)[i] = s[i]
  OBVIOUS
<1>3. \A i \in 1..Len(r) : (s \o r)[Len(s) + i] = r[i]
  OBVIOUS
<1>4. \A i \in 1..(Len(s) + Len(r)) : i <= Len(s) \/ (i - Len(s)) \in 1..Len(r)
  OBVIOUS
<1>5. Members(s \o r) \subseteq Members(s) \cup Members(r)
  BY <1>1, <1>2, <1>3, <1>4 DEF Members
<1>6. Members(s) \subseteq Members(s \o r)
  BY <1>1, <1>2 DEF Members
<1>7. Members(r) \subseteq Members(s \o r)
  <2>1. ASSUME NEW i \in DOMAIN r PROVE r[i] \in Members(s \o r)
    <3>1. i \in 1..Len(r) /\ Len(s) + i \in 1..Len(s \o r)
      BY <1>1
    <3>2. r[i] = (s \o r)[Len(s) + i] /\ Len(s) + i \in DOMAIN (s \o r)
      BY <1>1, <1>3, <3>1
    <3> QED
      BY <3>2 DEF Members
  <2> QED
    BY <2>1 DEF Members
<1> QED
  BY <1>1, <1>5, <1>6, <1>7

\* What a planner spawns is new to the objective.
LEMMA SpawnedIsNew ==
  ASSUME TypeOK, NEW o \in Ids, NEW k \in DOMAIN Stages
  PROVE  /\ Spawned(o, k) \in Seq(Tasks)
         /\ \A t \in Members(Spawned(o, k)) : t \in Tasks /\ t \notin Members(order[o])
<1>1. ASSUME NEW t \in Tasks
      PROVE  /\ IfNew(o, t) \in Seq(Tasks)
             /\ \A u \in Members(IfNew(o, t)) : u \in Tasks /\ u \notin Members(order[o])
  BY DEF IfNew, Members
<1>2. Stages[k] \in Tasks /\ (k \in DOMAIN PlannerAfter => PlannerAfter[k] \in Tasks)
  OBVIOUS
<1>3. CASE k \in DOMAIN PlannerAfter
  BY <1>1, <1>2, <1>3, MembersGrow DEF Spawned
<1>4. CASE k \notin DOMAIN PlannerAfter
  <2>1. Spawned(o, k) = IfNew(o, Stages[k]) \o << >>
    BY <1>4 DEF Spawned
  <2>2. << >> \in Seq(Tasks) /\ Members(<< >>) = {}
    BY DEF Members
  <2> QED
    BY <1>1, <1>2, <2>1, <2>2, MembersGrow
<1> QED
  BY <1>3, <1>4

LEMMA InitIInv == Init => IInv
<1>1. Init => TypeOK
  <2> SUFFICES ASSUME Init PROVE TypeOK
    OBVIOUS
  <2>1. queue \in Seq(Ids) /\ order \in [Ids -> Seq(Tasks)]
    BY DEF Init
  <2>2. running \subseteq Executions /\ overdue \subseteq Cells /\ backoff \subseteq Cells
    BY DEF Init
  <2>3. started \subseteq Workers /\ alive \subseteq started
    BY DEF Init
  <2>4. /\ status \in [Ids -> ObjectiveStates \cup {None}]
        /\ task \in [Cells -> TaskStates \cup {None}]
        /\ attempts \in [Cells -> Nat]
        /\ lease \in [Cells -> Workers \cup {None}]
    BY DEF Init
  <2>5. /\ crashes \in 0..MaxCrashes /\ slow \in 0..MaxSlow /\ busy \in 0..MaxBusy
        /\ resumes \in 0..MaxResumes /\ switches \in 0..MaxSwitches
    BY DEF Init
  <2> QED
    BY <2>1, <2>2, <2>3, <2>4, <2>5 DEF Init, TypeOK, FileOK, TimeOK, ProcessesOK, EventsOK
<1>2. Init => DependenciesHeld /\ AttemptsExplained /\ SomethingLeft /\ Latest /\ OverdueRuns /\ Listed
  BY DEF Init, DependenciesHeld, AttemptsExplained, SomethingLeft, Latest, OverdueRuns, Listed,
         Excuses
<1>3. Init => LeaseExcludes /\ LapsesExplain
  <2> SUFFICES ASSUME Init PROVE LeaseExcludes /\ LapsesExplain
    OBVIOUS
  <2>1. running = {} /\ slow = 0
    BY DEF Init
  <2>2. \A c : Executing(c) = {}
    BY <2>1 DEF Executing
  <2>3. Cardinality({}) = 0 /\ IsFiniteSet({})
    BY FS_EmptySet
  <2>4. \A c \in Cells : Cardinality(Executing(c)) = 0
    BY <2>2, <2>3
  <2> QED
    BY <2>1, <2>3, <2>4 DEF LeaseExcludes, LapsesExplain
<1>4. Init => CycleInv
  <2> SUFFICES ASSUME Init PROVE CycleInv
    OBVIOUS
  <2>1. /\ status = [o \in Ids |-> None] /\ order = [o \in Ids |-> <<>>]
        /\ task = [c \in Cells |-> None] /\ running = {}
    BY DEF Init
  <2>2. None \notin Resumable /\ None # "DONE" /\ None # "NEEDS_HUMAN"
    BY DEF Resumable, TaskStates
  <2>3. \A o \in Ids, t \in Tasks : task[<<o, t>>] = None
    BY <2>1
  <2>4. \A o \in Ids : Members(order[o]) = {} /\ status[o] = None
    BY <2>1 DEF Members
  <2>5. Begun /\ StagesInOrder /\ HumanAsked /\ DoneObjectiveComplete
    BY <2>2, <2>3, <2>4 DEF Begun, StagesInOrder, HumanAsked, DoneObjectiveComplete
  <2>6. ASSUME NEW o \in Ids PROVE Continues(o)
    <3> SUFFICES ASSUME NEW f \in DOMAIN Stages, NextStage(o, f) PROVE ToCome(o, f)
      BY DEF Continues
    <3>1. \A k \in DOMAIN Stages : ~StageDone(o, k)
      BY <2>2, <2>3 DEF StageDone
    <3>2. f = 1
      <4>1. f # 1 => 1 \in 1..(f - 1) /\ 1 \in DOMAIN Stages
        OBVIOUS
      <4> QED
        BY <3>1, <4>1 DEF NextStage
    <3> QED
      BY <2>1, <2>2, <2>3, <3>2 DEF ToCome, Spent
  <2> QED
    BY <2>5, <2>6 DEF CycleInv
<1> QED
  BY <1>1, <1>2, <1>3, <1>4 DEF IInv

-----------------------------------------------------------------------------
(* Done is final.                                                          *)

\* A task with Recovered taken into account is done exactly when it is done in the file.
LEMMA RecoveryKeepsDone ==
  ASSUME TypeOK, NEW c \in Cells
  PROVE  /\ TaskNow[c] = "DONE" <=> task[c] = "DONE"
         /\ TaskNow[c] = IF c \in Recovered THEN "PENDING" ELSE task[c]
         /\ c \in Recovered => task[c] = "RUNNING"
         /\ TaskNow[c] = None <=> task[c] = None
BY DEF TaskNow, Recovered, TypeOK, FileOK, TimeOK, TaskStates

LEMMA SelectedFacts ==
  ASSUME TypeOK, NEW o \in Ids, NEW t \in Tasks, Selected(o, t)
  PROVE  /\ TaskNow[<<o, t>>] \in {"PENDING", "RETRY_WAIT"}
         /\ DependenciesMet(o, t)
         /\ t \in Members(order[o])
<1>1. PICK i \in DOMAIN order[o] :
         /\ order[o][i] = t
         /\ TaskNow[<<o, t>>] \in {"PENDING", "RETRY_WAIT"}
         /\ DependenciesMet(o, t)
  BY DEF Selected, Selectable
<1> QED
  BY <1>1 DEF Members

LEMMA RunningCells ==
  ASSUME TypeOK, NEW x \in running
  PROVE  /\ x.cell \in Cells /\ x.cell[1] \in Ids /\ x.cell[2] \in Tasks
         /\ x.cell = <<x.cell[1], x.cell[2]>>
         /\ x.worker \in Workers /\ x.attempt \in Nat /\ x.answer \in Answers \cup {None}
BY DEF TypeOK, ProcessesOK, Executions

\* A planner and a submission add tasks and leave those that exist alone.
LEMMA PlanKeeps ==
  ASSUME TypeOK, Listed, NEW x \in running, Plan(x), NEW c \in Cells
  PROVE  IF task[c] = None THEN task'[c] \in {None, "PENDING"} ELSE task'[c] = task[c]
<1> DEFINE o == x.cell[1]
<1> PICK k \in DOMAIN Stages :
      task' = [d \in Cells |-> IF d[1] = o /\ d[2] \in Members(Spawned(o, k))
                               THEN "PENDING" ELSE task[d]]
  BY DEF Plan
<1>1. c[1] \in Ids /\ c[2] \in Tasks /\ c = <<c[1], c[2]>>
  OBVIOUS
<1>2. task[c] # None => c[2] \notin Members(Spawned(c[1], k))
  BY <1>1, SpawnedIsNew DEF Listed
<1> QED
  BY <1>2

LEMMA SubmitKeeps ==
  ASSUME TypeOK, Listed, NEW o \in Ids, Submit(o), NEW c \in Cells
  PROVE  IF task[c] = None THEN task'[c] \in {None, "PENDING"} ELSE task'[c] = task[c]
<1>1. c[1] \in Ids /\ c[2] \in Tasks /\ c = <<c[1], c[2]>>
  OBVIOUS
<1>2. task[c] # None => c[1] # o
  BY <1>1 DEF Listed, Submit
<1> QED
  BY <1>2 DEF Submit

LEMMA DoneStays ==
  ASSUME TypeOK, Listed, Next, NEW c \in Cells, task[c] = "DONE" PROVE task'[c] = "DONE"
<1>1. ASSUME NEW w \in Workers, Start(w) \/ Crash(w) PROVE task'[c] = "DONE"
  BY <1>1 DEF Start, Crash
<1>2. ASSUME NEW w \in Workers, NEW o \in Ids, NEW t \in Tasks,
             Claim(w, o, t) \/ AskHuman(w, o, t) \/ SkipDuplicate(w, o, t)
      PROVE  task'[c] = "DONE"
  <2>1. TaskNow[<<o, t>>] \in {"PENDING", "RETRY_WAIT"} /\ TaskNow \in [Cells -> TaskStates \cup {None}]
    BY <1>2, SelectedFacts DEF Claim, AskHuman, SkipDuplicate, Picks, TaskNow, TypeOK, FileOK, TimeOK, TaskStates
  <2>2. TaskNow[c] = "DONE" /\ c # <<o, t>>
    BY <2>1, RecoveryKeepsDone
  <2> QED
    BY <1>2, <2>1, <2>2 DEF Claim, AskHuman, SkipDuplicate
<1>3. ASSUME NEW w \in Workers, NEW o \in Ids, Close(w, o) PROVE task'[c] = "DONE"
  BY <1>3, RecoveryKeepsDone DEF Close
<1>4. ASSUME NEW w \in Workers, OnlyRecover(w) PROVE task'[c] = "DONE"
  BY <1>4, RecoveryKeepsDone DEF OnlyRecover
<1>5. ASSUME NEW x \in running, Plan(x) PROVE task'[c] = "DONE"
  BY <1>5, PlanKeeps DEF TaskStates
<1>6. ASSUME NEW x \in running,
             PlanComplete(x) \/ PlanBusy(x) \/ Discard(x) \/ Lose(x)
      PROVE  task'[c] = "DONE"
  BY <1>6 DEF PlanComplete, PlanBusy, Discard, Lose
<1>7. ASSUME NEW x \in running, Validated(x) \/ Retry(x) \/ Block(x) PROVE task'[c] = "DONE"
  BY <1>7 DEF Validated, Retry, Block, Reports, Accepts, TypeOK, FileOK, TimeOK
<1>8. ASSUME NEW o \in Ids, Submit(o) PROVE task'[c] = "DONE"
  BY <1>8, SubmitKeeps DEF TaskStates
<1>9. CASE Request
  BY <1>8, <1>9 DEF Request, Resume, SetKillSwitch, Resumable, TypeOK, FileOK, TimeOK
<1>10. CASE Time
  BY <1>10 DEF Time, LeaseLapses, BackoffEnds, LockLapses
<1> QED
  BY <1>1, <1>2, <1>3, <1>4, <1>5, <1>6, <1>7, <1>9, <1>10 DEF Next, TickStep, AnswerStep

-----------------------------------------------------------------------------
(* Types and the shape of the state file.                                  *)

LEMMA EventsStep == ASSUME EventsOK, Next PROVE EventsOK'
<1> USE DEF EventsOK
<1>1. CASE UNCHANGED events
  BY <1>1
<1>2. ASSUME NEW w \in Workers, Crash(w) PROVE EventsOK'
  BY <1>2 DEF Crash
<1>3. CASE SetKillSwitch
  BY <1>3 DEF SetKillSwitch
<1>4. ASSUME NEW o \in Ids, NEW t \in Tasks, NEW to \in {"PENDING", "DONE"}, Resume(o, t, to)
      PROVE  EventsOK'
  BY <1>4 DEF Resume
<1>5. ASSUME NEW x \in running, PlanBusy(x) \/ Lose(x) PROVE EventsOK'
  BY <1>5 DEF PlanBusy, Lose, Busy
<1>6. ASSUME NEW c \in Cells, LeaseLapses(c) PROVE EventsOK'
  BY <1>6 DEF LeaseLapses
<1>7. ASSUME NEW w \in Workers, Start(w) \/ TickStep(w) PROVE UNCHANGED events
  BY <1>7 DEF Start, TickStep, Claim, AskHuman, SkipDuplicate, Close, OnlyRecover, Picks, Ticks
<1>8. ASSUME NEW x \in running,
             Plan(x) \/ PlanComplete(x) \/ Validated(x) \/ Retry(x) \/ Block(x) \/ Discard(x)
      PROVE  UNCHANGED events
  BY <1>8 DEF Plan, PlanComplete, Validated, Retry, Block, Reports, Discard, Records
<1>9. CASE \E o \in Ids : Submit(o)
  BY <1>1, <1>9 DEF Submit
<1>10. CASE LockLapses \/ \E c \in Cells : BackoffEnds(c)
  BY <1>1, <1>10 DEF LockLapses, BackoffEnds
<1> QED
  BY <1>1, <1>2, <1>3, <1>4, <1>5, <1>6, <1>7, <1>8, <1>9, <1>10
     DEF Next, AnswerStep, Request, Time

LEMMA TimeStep == ASSUME TypeOK, Next PROVE TimeOK'
<1> USE DEF TimeOK
<1>1. TimeOK
  BY DEF TypeOK
<1>2. ASSUME NEW w \in Workers, Start(w) \/ Crash(w) PROVE TimeOK'
  BY <1>1, <1>2 DEF Start, Crash
<1>3. ASSUME NEW w \in Workers, TickStep(w) PROVE TimeOK'
  BY <1>1, <1>3 DEF TickStep, Claim, AskHuman, SkipDuplicate, Close, OnlyRecover, Picks, Ticks, Locks
<1>4. ASSUME NEW x \in running, Plan(x) \/ PlanComplete(x) \/ PlanBusy(x) \/ Discard(x) \/ Lose(x)
      PROVE  TimeOK'
  BY <1>1, <1>4 DEF Plan, PlanComplete, PlanBusy, Discard, Records, Lose, Locks, Busy
<1>5. ASSUME NEW x \in running, Validated(x) \/ Retry(x) \/ Block(x) PROVE TimeOK'
  BY <1>1, <1>5, RunningCells DEF Validated, Retry, Block, Reports, Records, Locks
<1>6. CASE Request
  BY <1>1, <1>6 DEF Request, Submit, Resume, SetKillSwitch, Locks
<1>7. CASE Time
  BY <1>1, <1>7 DEF Time, LeaseLapses, BackoffEnds, LockLapses
<1> QED
  BY <1>2, <1>3, <1>4, <1>5, <1>6, <1>7 DEF Next, AnswerStep

LEMMA AnsweredIsExecution ==
  ASSUME TypeOK, NEW x \in running, NEW r \in Answers, Comes(x, r)
  PROVE  running' \subseteq Executions
<1>1. x \in Executions /\ running \subseteq Executions
  BY DEF TypeOK, ProcessesOK
<1>2. [x EXCEPT !.answer = r] \in Executions
  BY <1>1 DEF Executions
<1> QED
  BY <1>1, <1>2 DEF Comes

LEMMA ProcessesStep == ASSUME TypeOK, Next PROVE ProcessesOK'
<1> USE DEF ProcessesOK
<1>1. ProcessesOK
  BY DEF TypeOK
<1>2. ASSUME NEW w \in Workers, Start(w) \/ Crash(w) PROVE ProcessesOK'
  BY <1>1, <1>2 DEF Start, Crash
<1>3. ASSUME NEW w \in Workers, NEW o \in Ids, NEW t \in Tasks, Claim(w, o, t)
      PROVE  ProcessesOK'
  <2>1. attempts[<<o, t>>] + 1 \in Nat /\ <<o, t>> \in Cells
    BY DEF TypeOK, FileOK
  <2>2. [worker |-> w, cell |-> <<o, t>>, attempt |-> attempts[<<o, t>>] + 1, answer |-> None]
          \in Executions
    BY <2>1 DEF Executions
  <2> QED
    BY <1>1, <1>3, <2>2 DEF Claim, Picks, Ticks
<1>4. ASSUME NEW w \in Workers, NEW o \in Ids, NEW t \in Tasks,
             AskHuman(w, o, t) \/ SkipDuplicate(w, o, t) \/ Close(w, o) \/ OnlyRecover(w)
      PROVE  ProcessesOK'
  BY <1>1, <1>4 DEF AskHuman, SkipDuplicate, Close, OnlyRecover, Picks, Ticks
<1>5. ASSUME NEW w \in Workers, OnlyRecover(w) PROVE ProcessesOK'
  BY <1>1, <1>5 DEF OnlyRecover, Ticks
<1>6. ASSUME NEW w \in Workers, NEW o \in Ids, Close(w, o) PROVE ProcessesOK'
  BY <1>1, <1>6 DEF Close, Ticks
<1>7. ASSUME NEW x \in running, Plan(x) \/ PlanComplete(x) \/ PlanBusy(x) PROVE ProcessesOK'
  BY <1>1, <1>7, AnsweredIsExecution DEF Plan, PlanComplete, PlanBusy, Answers
<1>8. ASSUME NEW x \in running, Validated(x) \/ Retry(x) \/ Block(x) \/ Discard(x) \/ Lose(x)
      PROVE  ProcessesOK'
  BY <1>1, <1>8 DEF Validated, Retry, Block, Reports, Discard, Records, Lose
<1>9. CASE Request \/ Time
  BY <1>1, <1>9 DEF Request, Submit, Resume, SetKillSwitch, Time, LeaseLapses, BackoffEnds, LockLapses
<1> QED
  BY <1>2, <1>3, <1>4, <1>5, <1>6, <1>7, <1>8, <1>9 DEF Next, TickStep, AnswerStep

LEMMA FileStep == ASSUME TypeOK, Next PROVE FileOK'
<1> USE DEF FileOK
<1>1. FileOK
  BY DEF TypeOK
<1>2. /\ TaskNow \in [Cells -> TaskStates \cup {None}]
      /\ LeaseNow \in [Cells -> Workers \cup {None}]
  BY <1>1 DEF TaskNow, LeaseNow, TaskStates
<1>3. CASE UNCHANGED file
  BY <1>1, <1>3
<1>4. ASSUME NEW w \in Workers, NEW o \in Ids, NEW t \in Tasks,
             Claim(w, o, t) \/ AskHuman(w, o, t) \/ SkipDuplicate(w, o, t)
      PROVE  FileOK'
  <2>1. UNCHANGED <<queue, order, killed>>
    BY <1>4 DEF Claim, AskHuman, SkipDuplicate, Picks, Ticks
  <2>2. <<o, t>> \in Cells
    OBVIOUS
  <2>3. CASE Claim(w, o, t)
    <3>1. task' \in [Cells -> TaskStates \cup {None}] /\ lease' \in [Cells -> Workers \cup {None}]
      BY <1>2, <2>2, <2>3 DEF Claim, TaskStates
    <3>2. attempts' \in [Cells -> Nat] /\ status' = status
      BY <1>1, <2>2, <2>3 DEF Claim
    <3> QED
      BY <1>1, <2>1, <3>1, <3>2
  <2>4. CASE AskHuman(w, o, t)
    BY <1>1, <1>2, <2>1, <2>4 DEF AskHuman, TaskStates, ObjectiveStates, Resumable
  <2>5. CASE SkipDuplicate(w, o, t)
    BY <1>1, <1>2, <2>1, <2>5 DEF SkipDuplicate, TaskStates
  <2> QED
    BY <1>4, <2>3, <2>4, <2>5
<1>5. ASSUME NEW w \in Workers, OnlyRecover(w) \/ \E o \in Ids : Close(w, o) PROVE FileOK'
  BY <1>1, <1>2, <1>5 DEF Close, OnlyRecover, Ticks, ObjectiveStates
<1>6. ASSUME NEW x \in running, Plan(x) PROVE FileOK'
  <2> DEFINE o == x.cell[1]
  <2>1. PICK k \in DOMAIN Stages :
          /\ order' = [order EXCEPT ![o] = @ \o Spawned(o, k)]
          /\ task' = [c \in Cells |-> IF c[1] = o /\ c[2] \in Members(Spawned(o, k))
                                      THEN "PENDING" ELSE task[c]]
    BY <1>6 DEF Plan
  <2>2. o \in Ids
    BY RunningCells
  <2>3. order[o] \o Spawned(o, k) \in Seq(Tasks)
    BY <1>1, <2>2, SpawnedIsNew, MembersGrow
  <2>4. order' \in [Ids -> Seq(Tasks)]
    BY <1>1, <2>1, <2>2, <2>3
  <2>5. task' \in [Cells -> TaskStates \cup {None}]
    BY <1>1, <2>1 DEF TaskStates
  <2> QED
    BY <1>1, <1>6, <2>4, <2>5 DEF Plan
<1>7. ASSUME NEW x \in running, Validated(x) \/ Retry(x) \/ Block(x) PROVE FileOK'
  <2>1. /\ task' \in [Cells -> TaskStates \cup {None}]
        /\ status' \in [Ids -> ObjectiveStates \cup {None}]
    BY <1>1, <1>7, RunningCells
       DEF Validated, Retry, Block, Reports, TaskStates, ObjectiveStates, Resumable
  <2>2. lease' \in [Cells -> Workers \cup {None}]
    BY <1>1, <1>7 DEF Validated, Retry, Block, Reports
  <2> QED
    BY <1>1, <1>7, <2>1, <2>2 DEF Validated, Retry, Block, Reports, Records
<1>8. ASSUME NEW o \in Ids, Submit(o) PROVE FileOK'
  <2>1. Append(queue, o) \in Seq(Ids) /\ Template[o] \in Seq(Tasks)
    BY <1>1
  <2>2. task' \in [Cells -> TaskStates \cup {None}]
    BY <1>1, <1>8 DEF Submit, TaskStates
  <2>3. order' \in [Ids -> Seq(Tasks)] /\ status' \in [Ids -> ObjectiveStates \cup {None}]
    BY <1>1, <1>8, <2>1 DEF Submit, ObjectiveStates
  <2> QED
    BY <1>1, <1>8, <2>1, <2>2, <2>3 DEF Submit
<1>9. ASSUME NEW o \in Ids, NEW t \in Tasks, NEW to \in {"PENDING", "DONE"}, Resume(o, t, to)
      PROVE  FileOK'
  BY <1>1, <1>9 DEF Resume, TaskStates, ObjectiveStates
<1>10. CASE SetKillSwitch
  BY <1>1, <1>10 DEF SetKillSwitch
<1>11. ASSUME NEW x \in running, PlanComplete(x) \/ PlanBusy(x) \/ Discard(x) \/ Lose(x)
       PROVE  UNCHANGED file
  BY <1>11 DEF PlanComplete, PlanBusy, Discard, Records, Lose
<1>12. CASE Time \/ \E w \in Workers : Start(w) \/ Crash(w)
  BY <1>3, <1>12 DEF Time, LeaseLapses, BackoffEnds, LockLapses, Start, Crash
<1>13. ASSUME NEW w \in Workers, TickStep(w) PROVE FileOK'
  BY <1>4, <1>5, <1>13 DEF TickStep
<1>14. ASSUME NEW x \in running, AnswerStep(x) PROVE FileOK'
  BY <1>3, <1>6, <1>7, <1>11, <1>14 DEF AnswerStep
<1>15. CASE Request
  <2>1. CASE \E o \in Ids : Submit(o)
    BY <1>8, <2>1
  <2>2. CASE \E o \in Ids, t \in Tasks, to \in {"PENDING", "DONE"} : Resume(o, t, to)
    <3> HIDE DEF FileOK
    <3> QED
      BY <1>9, <2>2
  <2> QED
    BY <1>10, <1>15, <2>1, <2>2 DEF Request
<1> QED
  BY <1>12, <1>13, <1>14, <1>15 DEF Next

LEMMA TypeStep == ASSUME TypeOK, Next PROVE TypeOK'
BY EventsStep, TimeStep, ProcessesStep, FileStep DEF TypeOK

\* A dependency stays done, and only done dependencies let a task be claimed.
LEMMA DependenciesStep ==
  ASSUME TypeOK, Listed, DependenciesHeld, Next PROVE DependenciesHeld'
<1>1. ASSUME NEW w \in Workers, NEW o \in Ids, NEW t \in Tasks, Claim(w, o, t)
      PROVE  DependenciesHeld'
  <2>1. \A d \in DependsOn[t] : task[<<o, d>>] = "DONE"
    BY <1>1, SelectedFacts DEF Claim, Picks, DependenciesMet
  <2>2. ASSUME NEW x \in running', NEW d \in DependsOn[x.cell[2]]
        PROVE  task[<<x.cell[1], d>>] = "DONE" /\ <<x.cell[1], d>> \in Cells
    BY <1>1, <2>1, RunningCells DEF Claim, DependenciesHeld
  <2> QED
    BY <2>2, DoneStays DEF DependenciesHeld
<1>2. ASSUME \A x \in running' : \E y \in running : y.cell = x.cell PROVE DependenciesHeld'
  <2>1. ASSUME NEW x \in running', NEW d \in DependsOn[x.cell[2]]
        PROVE  task[<<x.cell[1], d>>] = "DONE" /\ <<x.cell[1], d>> \in Cells
    BY <1>2, RunningCells DEF DependenciesHeld
  <2> QED
    BY <2>1, DoneStays DEF DependenciesHeld
<1>3. CASE \E w \in Workers, o \in Ids, t \in Tasks : Claim(w, o, t)
  BY <1>1, <1>3
<1>4. ASSUME NEW x \in running, NEW r \in Answers, Comes(x, r) PROVE DependenciesHeld'
  <2>1. [x EXCEPT !.answer = r].cell = x.cell
    BY DEF TypeOK, ProcessesOK, Executions
  <2> QED
    BY <1>2, <1>4, <2>1 DEF Comes
<1>5. CASE running' \subseteq running
  BY <1>2, <1>5
<1> QED
  BY <1>3, <1>4, <1>5 DEF Next, Start, Crash, TickStep, AskHuman, SkipDuplicate, Close, OnlyRecover,
     AnswerStep, Plan, PlanComplete, PlanBusy, Validated, Retry, Block, Reports, Discard, Lose,
     Records, Request, Submit, Resume, SetKillSwitch, Time, LeaseLapses, BackoffEnds, LockLapses,
     Answers

\* Every task of the file belongs to the order of a submitted objective.
LEMMA ListedStep == ASSUME TypeOK, Latest, Listed, Next PROVE Listed'
<1>1. CASE /\ \A c \in Cells : task'[c] # None => task[c] # None
           /\ \A o \in Ids : /\ status[o] # None => status'[o] # None
                             /\ Members(order[o]) \subseteq Members(order'[o])
  BY <1>1 DEF Listed
<1>2. CASE UNCHANGED <<status, order, task>>
  BY <1>2 DEF Listed
<1>3. ASSUME NEW w \in Workers, NEW o \in Ids, NEW t \in Tasks,
             Claim(w, o, t) \/ AskHuman(w, o, t) \/ SkipDuplicate(w, o, t)
      PROVE  Listed'
  <2>1. task[<<o, t>>] # None
    <3>1. TaskNow[<<o, t>>] # None /\ <<o, t>> \in Cells
      BY <1>3, SelectedFacts DEF Claim, AskHuman, SkipDuplicate, Picks, TaskStates
    <3> QED
      BY <3>1, RecoveryKeepsDone
  <2>2. \A c \in Cells : task'[c] # None => task[c] # None
    <3>1. TaskNow \in [Cells -> TaskStates \cup {None}]
      BY DEF TaskNow, TypeOK, FileOK, TaskStates
    <3>2. \A c \in Cells \ {<<o, t>>} : task'[c] = TaskNow[c]
      BY <1>3, <3>1 DEF Claim, AskHuman, SkipDuplicate
    <3> QED
      BY <2>1, <3>2, RecoveryKeepsDone
  <2>3. order' = order /\ \A i \in Ids : status[i] # None => status'[i] # None
    BY <1>3 DEF Claim, AskHuman, SkipDuplicate, Picks, Ticks, TypeOK, FileOK, ObjectiveStates, Resumable
  <2> QED
    BY <1>1, <2>2, <2>3
<1>4. ASSUME NEW w \in Workers, OnlyRecover(w) \/ \E o \in Ids : Close(w, o) PROVE Listed'
  <2>1. \A c \in Cells : task'[c] # None => task[c] # None
    BY <1>4, RecoveryKeepsDone DEF OnlyRecover, Close
  <2>2. order' = order /\ \A i \in Ids : status[i] # None => status'[i] # None
    BY <1>4 DEF OnlyRecover, Close, Ticks, TypeOK, FileOK, ObjectiveStates
  <2> QED
    BY <1>1, <2>1, <2>2
<1>5. ASSUME NEW x \in running, Validated(x) \/ Retry(x) \/ Block(x) PROVE Listed'
  <2>1. task[x.cell] # None
    BY <1>5 DEF Validated, Retry, Block, Reports, Accepts, TaskStates
  <2>2. \A c \in Cells : task'[c] # None => task[c] # None
    BY <1>5, <2>1 DEF Validated, Retry, Block, Reports, TypeOK, FileOK
  <2>3. order' = order /\ \A i \in Ids : status[i] # None => status'[i] # None
    BY <1>5 DEF Validated, Retry, Block, Reports, Records, TypeOK, FileOK, ObjectiveStates, Resumable
  <2> QED
    BY <1>1, <2>2, <2>3
<1>6. ASSUME NEW x \in running, Plan(x) PROVE Listed'
  <2> DEFINE o == x.cell[1]
  <2>1. PICK k \in DOMAIN Stages :
          /\ order' = [order EXCEPT ![o] = @ \o Spawned(o, k)]
          /\ task' = [c \in Cells |-> IF c[1] = o /\ c[2] \in Members(Spawned(o, k))
                                      THEN "PENDING" ELSE task[c]]
    BY <1>6 DEF Plan
  <2>2. o \in Ids /\ x.cell[2] \in Tasks /\ x.cell = <<o, x.cell[2]>>
    BY RunningCells
  <2>3. Members(order'[o]) = Members(order[o]) \cup Members(Spawned(o, k))
    BY <2>1, <2>2, SpawnedIsNew, MembersGrow DEF TypeOK, FileOK
  <2>4. \A i \in Ids \ {o} : order'[i] = order[i]
    BY <2>1, <2>2 DEF TypeOK, FileOK
  <2>5. status' = status
    BY <1>6 DEF Plan
  <2>6. status[o] # None
    BY <2>2 DEF Latest, Listed
  <2> QED
    BY <2>1, <2>2, <2>3, <2>4, <2>5, <2>6 DEF Listed
<1>7. ASSUME NEW i \in Ids, Submit(i) PROVE Listed'
  BY <1>7 DEF Submit, Listed, TypeOK, FileOK, ObjectiveStates
<1>8. ASSUME NEW i \in Ids, NEW t \in Tasks, NEW to \in {"PENDING", "DONE"}, Resume(i, t, to)
      PROVE  Listed'
  BY <1>8 DEF Resume, Listed, TypeOK, FileOK, ObjectiveStates, Resumable
<1>9. ASSUME NEW x \in running, PlanComplete(x) \/ PlanBusy(x) \/ Discard(x) \/ Lose(x)
      PROVE  Listed'
  BY <1>2, <1>9 DEF PlanComplete, PlanBusy, Discard, Records, Lose
<1>10. CASE Time \/ SetKillSwitch \/ \E w \in Workers : Start(w) \/ Crash(w)
  BY <1>2, <1>10 DEF Time, LeaseLapses, BackoffEnds, LockLapses, SetKillSwitch, Start, Crash
<1>11. ASSUME NEW w \in Workers, TickStep(w) PROVE Listed'
  BY <1>3, <1>4, <1>11 DEF TickStep
<1>12. ASSUME NEW x \in running, AnswerStep(x) PROVE Listed'
  BY <1>5, <1>6, <1>9, <1>12 DEF AnswerStep
<1>13. CASE \E i \in Ids, t \in Tasks, to \in {"PENDING", "DONE"} : Resume(i, t, to)
  BY <1>8, <1>13
<1> QED
  BY <1>7, <1>10, <1>11, <1>12, <1>13 DEF Next, Request

\* What a tick does to the tasks it does not select.
LEMMA TickKeeps ==
  ASSUME TypeOK, NEW w \in Workers, TickStep(w)
  PROVE  /\ overdue' = overdue \ Recovered /\ lock' = "free" /\ UNCHANGED events
         /\ \A c \in Cells : \/ task'[c] = TaskNow[c] /\ lease'[c] = LeaseNow[c]
                             \/ TaskNow[c] \in {"PENDING", "RETRY_WAIT"}
<1>1. TaskNow \in [Cells -> TaskStates \cup {None}] /\ LeaseNow \in [Cells -> Workers \cup {None}]
  BY DEF TaskNow, LeaseNow, TypeOK, FileOK, TaskStates
<1>2. Ticks(w)
  BY DEF TickStep, Claim, AskHuman, SkipDuplicate, Picks, Close, OnlyRecover
<1>3. overdue' = overdue \ Recovered /\ lock' = "free" /\ UNCHANGED events
  BY <1>2 DEF Ticks, Locks
<1>4. ASSUME NEW o \in Ids, NEW t \in Tasks, NEW c \in Cells,
             Claim(w, o, t) \/ AskHuman(w, o, t) \/ SkipDuplicate(w, o, t)
      PROVE  \/ task'[c] = TaskNow[c] /\ lease'[c] = LeaseNow[c]
             \/ TaskNow[c] \in {"PENDING", "RETRY_WAIT"}
  <2>1. TaskNow[<<o, t>>] \in {"PENDING", "RETRY_WAIT"}
    BY <1>4, SelectedFacts DEF Claim, AskHuman, SkipDuplicate, Picks
  <2>2. CASE c # <<o, t>>
    BY <1>1, <1>4, <2>2 DEF Claim, AskHuman, SkipDuplicate
  <2> QED
    BY <2>1, <2>2
<1>5. CASE OnlyRecover(w) \/ \E o \in Ids : Close(w, o)
  BY <1>3, <1>5 DEF Close, OnlyRecover
<1>6. CASE \E o \in Ids, t \in Tasks : Claim(w, o, t) \/ AskHuman(w, o, t) \/ SkipDuplicate(w, o, t)
  BY <1>3, <1>4, <1>6
<1> QED
  BY <1>5, <1>6 DEF TickStep

LEMMA OverdueStep == ASSUME TypeOK, Listed, OverdueRuns, Next PROVE OverdueRuns'
<1>1. ASSUME overdue' \subseteq overdue, \A c \in overdue : task'[c] = task[c] PROVE OverdueRuns'
  BY <1>1 DEF OverdueRuns
<1>2. ASSUME NEW w \in Workers, TickStep(w) PROVE OverdueRuns'
  <2> SUFFICES ASSUME NEW c \in overdue' PROVE task'[c] = "RUNNING"
    BY DEF OverdueRuns
  <2>1. c \in Cells /\ c \in overdue /\ c \notin Recovered
    BY <1>2, TickKeeps DEF TypeOK, TimeOK
  <2>2. TaskNow[c] = "RUNNING"
    BY <2>1, RecoveryKeepsDone DEF OverdueRuns
  <2> QED
    BY <1>2, <2>1, <2>2, TickKeeps
<1>3. ASSUME NEW x \in running, Plan(x) PROVE OverdueRuns'
  <2>1. overdue' = overdue
    BY <1>3 DEF Plan
  <2>2. \A c \in overdue : c \in Cells /\ task[c] # None
    BY DEF OverdueRuns, TypeOK, TimeOK, TaskStates
  <2> QED
    BY <1>1, <1>3, <2>1, <2>2, PlanKeeps
<1>4. ASSUME NEW x \in running, Validated(x) \/ Retry(x) \/ Block(x) PROVE OverdueRuns'
  BY <1>4 DEF Validated, Retry, Block, Reports, OverdueRuns, TypeOK, FileOK, TimeOK
<1>5. ASSUME NEW x \in running, PlanComplete(x) \/ PlanBusy(x) \/ Discard(x) \/ Lose(x)
      PROVE  OverdueRuns'
  BY <1>1, <1>5 DEF PlanComplete, PlanBusy, Discard, Records, Lose
<1>6. ASSUME NEW o \in Ids, Submit(o) PROVE OverdueRuns'
  <2>1. overdue' = overdue
    BY <1>6 DEF Submit
  <2>2. \A c \in overdue : c \in Cells /\ task[c] # None
    BY DEF OverdueRuns, TypeOK, TimeOK, TaskStates
  <2> QED
    BY <1>1, <1>6, <2>1, <2>2, SubmitKeeps
<1>7. ASSUME NEW o \in Ids, NEW t \in Tasks, NEW to \in {"PENDING", "DONE"}, Resume(o, t, to)
      PROVE  OverdueRuns'
  BY <1>7 DEF Resume, Resumable, OverdueRuns, TypeOK, FileOK, TimeOK
<1>8. CASE SetKillSwitch \/ \E w \in Workers : Start(w) \/ Crash(w)
  BY <1>1, <1>8 DEF SetKillSwitch, Start, Crash
<1>9. CASE Time
  BY <1>9 DEF Time, LeaseLapses, BackoffEnds, LockLapses, OverdueRuns
<1>10. ASSUME NEW x \in running, AnswerStep(x) PROVE OverdueRuns'
  BY <1>3, <1>4, <1>5, <1>10 DEF AnswerStep
<1>11. CASE \E o \in Ids, t \in Tasks, to \in {"PENDING", "DONE"} : Resume(o, t, to)
  BY <1>7, <1>11
<1> QED
  BY <1>2, <1>6, <1>8, <1>9, <1>10, <1>11 DEF Next, Request

-----------------------------------------------------------------------------
(* Executions and attempts.                                                *)

\* A step that starts no execution and takes no task into the running state.
LEMMA LatestKept ==
  ASSUME TypeOK, Latest, attempts' = attempts,
         \A x \in running' : \E y \in running :
             x.worker = y.worker /\ x.cell = y.cell /\ x.attempt = y.attempt,
         \A c \in Cells : /\ task[c] # None => task'[c] # None
                          /\ task'[c] = "RUNNING" => task[c] = "RUNNING" /\ lease'[c] = lease[c]
  PROVE  Latest'
<1> SUFFICES ASSUME NEW x \in running'
             PROVE  /\ task'[x.cell] # None
                    /\ x.attempt <= attempts'[x.cell]
                    /\ x.attempt = attempts'[x.cell] /\ task'[x.cell] = "RUNNING"
                          => lease'[x.cell] = x.worker
  BY DEF Latest
<1> PICK y \in running : x.worker = y.worker /\ x.cell = y.cell /\ x.attempt = y.attempt
  OBVIOUS
<1> QED
  BY RunningCells DEF Latest

LEMMA ComesKeeps ==
  ASSUME TypeOK, NEW x \in running, NEW r \in Answers, Comes(x, r)
  PROVE  /\ \A z \in running' : \E y \in running :
                z.worker = y.worker /\ z.cell = y.cell /\ z.attempt = y.attempt
         /\ \A y \in running : \E z \in running' :
                z.worker = y.worker /\ z.cell = y.cell /\ z.attempt = y.attempt
<1> DEFINE new == [x EXCEPT !.answer = r]
<1>1. new.worker = x.worker /\ new.cell = x.cell /\ new.attempt = x.attempt
  BY DEF TypeOK, ProcessesOK, Executions
<1>2. running' = (running \ {x}) \cup {new}
  BY DEF Comes
<1> HIDE DEF new
<1> QED
  BY <1>1, <1>2

LEMMA LatestStep == ASSUME TypeOK, Listed, Latest, Next PROVE Latest'
<1>1. ASSUME NEW w \in Workers, NEW o \in Ids, NEW t \in Tasks, Claim(w, o, t) PROVE Latest'
  <2> DEFINE c == <<o, t>>
             new == [worker |-> w, cell |-> c, attempt |-> attempts[c] + 1, answer |-> None]
  <2>1. /\ running' = running \cup {new} /\ attempts' = [attempts EXCEPT ![c] = @ + 1]
        /\ task'[c] = "RUNNING" /\ lease'[c] = w
    BY <1>1 DEF Claim, TypeOK, FileOK, TaskNow, LeaseNow
  <2>2. c \in Cells /\ attempts[c] \in Nat /\ attempts'[c] = attempts[c] + 1
    BY <2>1 DEF TypeOK, FileOK
  <2>3. ASSUME NEW x \in running
        PROVE  /\ task'[x.cell] # None
               /\ x.attempt <= attempts'[x.cell]
               /\ x.attempt = attempts'[x.cell] /\ task'[x.cell] = "RUNNING"
                     => lease'[x.cell] = x.worker
    <3>1. x.cell \in Cells /\ x.attempt \in Nat /\ x.attempt <= attempts[x.cell]
          /\ task[x.cell] # None
      BY RunningCells DEF Latest
    <3>2. CASE x.cell = c
      BY <2>1, <2>2, <3>1, <3>2 DEF TaskStates
    <3>3. CASE x.cell # c
      <4>1. attempts'[x.cell] = attempts[x.cell]
        BY <2>1, <3>1, <3>3 DEF TypeOK, FileOK
      <4>2. task'[x.cell] = TaskNow[x.cell] /\ lease'[x.cell] = LeaseNow[x.cell]
        BY <1>1, <3>1, <3>3 DEF Claim, TaskNow, LeaseNow
      <4>3. task'[x.cell] = "RUNNING" => task[x.cell] = "RUNNING" /\ x.cell \notin Recovered
        BY <3>1, <4>2, RecoveryKeepsDone
      <4>4. task'[x.cell] = "RUNNING" => lease'[x.cell] = lease[x.cell]
        BY <3>1, <4>2, <4>3 DEF LeaseNow
      <4> QED
        BY <3>1, <4>1, <4>2, <4>3, <4>4, RecoveryKeepsDone DEF Latest
    <3> QED
      BY <3>2, <3>3
  <2>4. /\ new.cell = c /\ new.attempt = attempts'[c] /\ new.worker = w
    BY <2>2
  <2>5. new.attempt <= attempts'[c] /\ task'[c] # None
    BY <2>1, <2>2, <2>4 DEF TaskStates
  <2> HIDE DEF new, c
  <2> QED
    BY <2>1, <2>3, <2>4, <2>5 DEF Latest
<1>2. \A c \in Cells : /\ task[c] # None => TaskNow[c] # None
                       /\ TaskNow[c] = "RUNNING" => task[c] = "RUNNING" /\ LeaseNow[c] = lease[c]
  BY RecoveryKeepsDone DEF LeaseNow
<1>3. ASSUME NEW w \in Workers, NEW o \in Ids, NEW t \in Tasks,
             AskHuman(w, o, t) \/ SkipDuplicate(w, o, t)
      PROVE  Latest'
  <2>1. \A c \in Cells : /\ task[c] # None => task'[c] # None
                         /\ task'[c] = "RUNNING" => TaskNow[c] = "RUNNING" /\ lease'[c] = LeaseNow[c]
    BY <1>2, <1>3 DEF AskHuman, SkipDuplicate, TaskNow, TaskStates
  <2>2. running' = running /\ attempts' = attempts
    BY <1>3 DEF AskHuman, SkipDuplicate
  <2> QED
    BY <1>2, <2>1, <2>2, LatestKept
<1>4. ASSUME NEW w \in Workers, OnlyRecover(w) \/ \E o \in Ids : Close(w, o) PROVE Latest'
  <2>1. running' = running /\ attempts' = attempts /\ task' = TaskNow /\ lease' = LeaseNow
    BY <1>4 DEF OnlyRecover, Close
  <2> QED
    BY <1>2, <2>1, LatestKept
<1>5. ASSUME NEW w \in Workers, Start(w) \/ Crash(w) PROVE Latest'
  <2>1. running' \subseteq running /\ attempts' = attempts /\ task' = task /\ lease' = lease
    BY <1>5 DEF Start, Crash
  <2> QED
    BY <2>1, LatestKept
<1>6. ASSUME NEW x \in running, Plan(x) PROVE Latest'
  <2>1. attempts' = attempts /\ lease' = lease
    BY <1>6 DEF Plan
  <2>2. \A c \in Cells : /\ task[c] # None => task'[c] # None
                         /\ task'[c] = "RUNNING" => task[c] = "RUNNING"
    BY <1>6, PlanKeeps DEF TaskStates
  <2>3. Comes(x, "validated") /\ "validated" \in Answers
    BY <1>6 DEF Plan, Answers
  <2> QED
    BY <2>1, <2>2, <2>3, ComesKeeps, LatestKept
<1>7. ASSUME NEW x \in running, PlanComplete(x) \/ PlanBusy(x) PROVE Latest'
  <2>1. attempts' = attempts /\ lease' = lease /\ task' = task
    BY <1>7 DEF PlanComplete, PlanBusy
  <2>2. \E r \in Answers : Comes(x, r)
    BY <1>7 DEF PlanComplete, PlanBusy, Answers
  <2> QED
    BY <2>1, <2>2, ComesKeeps, LatestKept
<1>8. ASSUME NEW x \in running, Validated(x) \/ Retry(x) \/ Block(x) PROVE Latest'
  <2>1. running' \subseteq running /\ attempts' = attempts
    BY <1>8 DEF Validated, Retry, Block, Reports, Records
  <2>2. \A c \in Cells : /\ task[c] # None => task'[c] # None
                         /\ task'[c] = "RUNNING" => task[c] = "RUNNING" /\ lease'[c] = lease[c]
    BY <1>8 DEF Validated, Retry, Block, Reports, TypeOK, FileOK, TaskStates
  <2> QED
    BY <2>1, <2>2, LatestKept
<1>9. ASSUME NEW x \in running, Discard(x) \/ Lose(x) PROVE Latest'
  <2>1. running' \subseteq running /\ attempts' = attempts /\ task' = task /\ lease' = lease
    BY <1>9 DEF Discard, Records, Lose
  <2> QED
    BY <2>1, LatestKept
<1>10. ASSUME NEW o \in Ids, Submit(o) PROVE Latest'
  <2>1. running' = running /\ attempts' = attempts /\ lease' = lease
    BY <1>10 DEF Submit
  <2>2. \A c \in Cells : /\ task[c] # None => task'[c] # None
                         /\ task'[c] = "RUNNING" => task[c] = "RUNNING"
    BY <1>10, SubmitKeeps DEF TaskStates
  <2> QED
    BY <2>1, <2>2, LatestKept
<1>11. ASSUME NEW o \in Ids, NEW t \in Tasks, NEW to \in {"PENDING", "DONE"}, Resume(o, t, to)
       PROVE  Latest'
  <2>1. running' = running /\ attempts' = attempts
    BY <1>11 DEF Resume
  <2>2. \A c \in Cells : /\ task[c] # None => task'[c] # None
                         /\ task'[c] = "RUNNING" => task[c] = "RUNNING" /\ lease'[c] = lease[c]
    BY <1>11 DEF Resume, TypeOK, FileOK, TaskStates
  <2> QED
    BY <2>1, <2>2, LatestKept
<1>12. CASE UNCHANGED <<running, attempts, task, lease>>
  BY <1>12, LatestKept
<1>13. CASE Time \/ SetKillSwitch
  BY <1>12, <1>13 DEF Time, LeaseLapses, BackoffEnds, LockLapses, SetKillSwitch
<1>14. ASSUME NEW w \in Workers, TickStep(w) PROVE Latest'
  BY <1>1, <1>3, <1>4, <1>14 DEF TickStep
<1>15. ASSUME NEW x \in running, AnswerStep(x) PROVE Latest'
  BY <1>6, <1>7, <1>8, <1>9, <1>15 DEF AnswerStep
<1>16. CASE \E o \in Ids, t \in Tasks, to \in {"PENDING", "DONE"} : Resume(o, t, to)
  BY <1>11, <1>16
<1> QED
  BY <1>5, <1>10, <1>13, <1>14, <1>15, <1>16 DEF Next, Request

\* A new excuse covers whatever may run again because of it.
LEMMA NewExcuse ==
  ASSUME TypeOK, AttemptsExplained, attempts' = attempts, Excuses \in Nat, Excuses' \in Nat,
         Excuses' > Excuses
  PROVE  AttemptsExplained' /\ SomethingLeft'
<1>1. \A c \in Cells : attempts[c] \in Nat
  BY DEF TypeOK, FileOK
<1> QED
  BY <1>1 DEF AttemptsExplained, SomethingLeft

\* A step that lets no further task run again, unless it has an attempt left.
LEMMA NothingNew ==
  ASSUME TypeOK, AttemptsExplained, SomethingLeft, attempts' = attempts,
         Excuses \in Nat, Excuses' = Excuses,
         \A c \in Cells : MayRunAgain(c)' => MayRunAgain(c) \/ attempts[c] < MaxAttempts
  PROVE  AttemptsExplained' /\ SomethingLeft'
<1>1. \A c \in Cells : attempts[c] \in Nat
  BY DEF TypeOK, FileOK
<1> QED
  BY <1>1 DEF AttemptsExplained, SomethingLeft

LEMMA AttemptsStep ==
  ASSUME TypeOK, TypeOK', Listed, Latest, OverdueRuns, AttemptsExplained, SomethingLeft, Next
  PROVE  AttemptsExplained' /\ SomethingLeft'
<1> DEFINE Goal == AttemptsExplained' /\ SomethingLeft'
<1> SUFFICES Goal
  OBVIOUS
<1>1. /\ crashes \in Nat /\ slow \in Nat /\ busy \in Nat /\ resumes \in Nat
      /\ Excuses = slow + crashes + busy + resumes
  BY DEF TypeOK, EventsOK, Excuses
<1>2. Excuses \in Nat /\ Excuses' \in Nat /\ Excuses' = slow' + crashes' + busy' + resumes'
  <2>1. crashes' \in Nat /\ slow' \in Nat /\ busy' \in Nat /\ resumes' \in Nat
    BY DEF TypeOK, EventsOK
  <2>2. Excuses' = slow' + crashes' + busy' + resumes'
    BY DEF Excuses
  <2>3. Excuses \in Nat
    BY <1>1
  <2>4. Excuses' \in Nat
    <3>1. \A i, j, m, n \in Nat : i + j + m + n \in Nat
      OBVIOUS
    <3> QED
      BY <2>1, <2>2, <3>1
  <2> QED
    BY <2>2, <2>3, <2>4
<1>3. \A c \in Cells : attempts[c] \in Nat
  BY DEF TypeOK, FileOK
<1>4. ASSUME NEW w \in Workers, NEW o \in Ids, NEW t \in Tasks, Claim(w, o, t) PROVE Goal
  <2> DEFINE c == <<o, t>>
             new == [worker |-> w, cell |-> c, attempt |-> attempts[c] + 1, answer |-> None]
  <2>1. TickStep(w)
    BY <1>4 DEF TickStep
  <2>2. c \in Cells /\ TaskNow[c] \in {"PENDING", "RETRY_WAIT"}
    BY <1>4, SelectedFacts DEF Claim, Picks
  <2>3. MayRunAgain(c) /\ (c \in overdue => c \in Recovered)
    BY <2>2, RecoveryKeepsDone DEF MayRunAgain, OverdueRuns, Recovered
  <2>4. Excuses' = Excuses
    BY <1>1, <1>2, <2>1, TickKeeps
  <2>5. /\ attempts' = [attempts EXCEPT ![c] = @ + 1]
        /\ task'[c] = "RUNNING" /\ new \in running' /\ running \subseteq running'
    BY <1>4 DEF Claim, TaskNow
  <2>6. attempts'[c] = attempts[c] + 1 /\ \A d \in Cells \ {c} : attempts'[d] = attempts[d]
    BY <2>2, <2>5 DEF TypeOK, FileOK
  <2>7. AttemptsExplained'
    <3> HIDE DEF c
    <3>1. attempts'[c] <= MaxAttempts + Excuses
      BY <1>2, <1>3, <2>2, <2>3, <2>6 DEF SomethingLeft
    <3>2. \A d \in Cells \ {c} : attempts'[d] <= MaxAttempts + Excuses
      BY <2>6 DEF AttemptsExplained
    <3> QED
      BY <2>4, <3>1, <3>2 DEF AttemptsExplained
  <2>8. ~MayRunAgain(c)'
    <3>1. InFlight(c)'
      BY <2>5, <2>6 DEF InFlight
    <3>2. c \notin overdue' /\ lock' = "free"
      BY <2>1, <2>3, TickKeeps
    <3> QED
      BY <2>5, <3>1, <3>2 DEF MayRunAgain, TaskStates
  <2>9. ASSUME NEW d \in Cells, d # c, MayRunAgain(d)' PROVE MayRunAgain(d)
    <3>1. InFlight(d) => InFlight(d)'
      BY <2>5, <2>6, <2>9 DEF InFlight
    <3>2. d \in overdue' => d \in overdue
      BY <2>1, TickKeeps
    <3>3. lock' = "free"
      BY <2>1, TickKeeps
    <3>4. task'[d] = TaskNow[d]
      BY <1>4, <2>9 DEF Claim, TaskNow
    <3>5. d \in Recovered => d \in overdue
      BY DEF Recovered
    <3> QED
      BY <2>9, <3>1, <3>2, <3>3, <3>4, <3>5, RecoveryKeepsDone DEF MayRunAgain
  <2> QED
    BY <1>2, <1>3, <2>4, <2>6, <2>7, <2>8, <2>9 DEF SomethingLeft
<1>5. ASSUME NEW w \in Workers, TickStep(w), UNCHANGED <<running, attempts>> PROVE Goal
  <2>1. Excuses' = Excuses
    BY <1>1, <1>2, <1>5, TickKeeps
  <2>2. ASSUME NEW d \in Cells, MayRunAgain(d)' PROVE MayRunAgain(d)
    <3>1. InFlight(d) <=> InFlight(d)'
      BY <1>5 DEF InFlight
    <3>2. (d \in overdue' => d \in overdue) /\ lock' = "free"
      BY <1>5, TickKeeps
    <3>3. d \in Recovered => d \in overdue
      BY DEF Recovered
    <3>4. TaskNow[d] \in {"PENDING", "RETRY_WAIT"} => MayRunAgain(d)
      BY <3>3, RecoveryKeepsDone DEF MayRunAgain
    <3>5. task'[d] = TaskNow[d] => MayRunAgain(d)
      BY <2>2, <3>1, <3>2, <3>3, RecoveryKeepsDone DEF MayRunAgain
    <3> QED
      BY <1>5, <3>4, <3>5, TickKeeps
  <2> QED
    BY <1>2, <1>5, <2>1, <2>2, NothingNew
<1>6. ASSUME NEW w \in Workers, TickStep(w) PROVE Goal
  <2>1. CASE UNCHANGED <<running, attempts>>
    BY <1>5, <1>6, <2>1
  <2>2. CASE \E o \in Ids, t \in Tasks : Claim(w, o, t)
    BY <1>4, <2>2
  <2> QED
    BY <1>6, <2>1, <2>2 DEF TickStep, AskHuman, SkipDuplicate, Close, OnlyRecover
<1>7. ASSUME NEW w \in Workers, Crash(w) PROVE Goal
  <2>1. attempts' = attempts /\ Excuses' > Excuses
    <3>1. attempts' = attempts /\ crashes' = crashes + 1 /\ UNCHANGED <<slow, busy, resumes>>
      BY <1>7 DEF Crash
    <3> QED
      BY <1>1, <1>2, <3>1
  <2> QED
    BY <1>2, <2>1, NewExcuse
<1>8. ASSUME NEW o \in Ids, NEW t \in Tasks, NEW to \in {"PENDING", "DONE"}, Resume(o, t, to)
      PROVE  Goal
  <2>1. attempts' = attempts /\ Excuses' > Excuses
    <3>1. attempts' = attempts /\ resumes' = resumes + 1 /\ UNCHANGED <<slow, busy, crashes>>
      BY <1>8 DEF Resume
    <3> QED
      BY <1>1, <1>2, <3>1
  <2> QED
    BY <1>2, <2>1, NewExcuse
<1>9. ASSUME NEW x \in running, PlanBusy(x) \/ Lose(x) PROVE Goal
  <2>1. attempts' = attempts /\ lock' = lock /\ UNCHANGED <<crashes, slow, resumes>>
    BY <1>9 DEF PlanBusy, Lose, Busy
  <2>2. CASE busy' = busy + 1
    BY <1>1, <1>2, <2>1, <2>2, NewExcuse
  <2>3. CASE lock \in {"left", "orphan"} /\ busy' = busy
    BY <1>1, <1>2, <2>1, <2>3, NothingNew DEF MayRunAgain
  <2> QED
    BY <1>9, <2>2, <2>3 DEF PlanBusy, Lose, Busy
<1>10. ASSUME NEW c \in Cells, LeaseLapses(c) PROVE Goal
  <2>1. attempts' = attempts /\ UNCHANGED <<running, task, lock, crashes, busy, resumes>>
    BY <1>10 DEF LeaseLapses
  <2>2. CASE slow' = slow + 1
    BY <1>1, <1>2, <2>1, <2>2, NewExcuse
  <2>3. CASE ~InFlight(c) /\ slow' = slow
    <3>1. \A d \in Cells : MayRunAgain(d)' => MayRunAgain(d)
      BY <1>10, <2>1, <2>3 DEF MayRunAgain, InFlight, LeaseLapses
    <3> QED
      BY <1>1, <1>2, <2>1, <2>3, <3>1, NothingNew
  <2> QED
    BY <1>10, <2>2, <2>3 DEF LeaseLapses
\* The rest leaves attempts and events alone.
<1>11. ASSUME UNCHANGED <<attempts, events>>,
              \A c \in Cells : MayRunAgain(c)' => MayRunAgain(c) \/ attempts[c] < MaxAttempts
       PROVE  Goal
  BY <1>1, <1>2, <1>11, NothingNew
<1>12. ASSUME NEW x \in running, Plan(x) \/ PlanComplete(x) PROVE Goal
  <2>1. Comes(x, "validated") /\ "validated" \in Answers
    BY <1>12 DEF Plan, PlanComplete, Answers
  <2>2. UNCHANGED <<attempts, overdue, events>> /\ (lock' = lock \/ lock' = "free")
    BY <1>12 DEF Plan, PlanComplete, Locks
  <2>3. ASSUME NEW c \in Cells
        PROVE  IF task[c] = None THEN task'[c] \in {None, "PENDING"} ELSE task'[c] = task[c]
    BY <1>12, PlanKeeps DEF PlanComplete
  <2>4. \A c \in Cells : InFlight(c) => InFlight(c)'
    BY <2>1, <2>2, ComesKeeps DEF InFlight
  <2>5. \A c \in Cells : MayRunAgain(c)' => MayRunAgain(c)
    BY <2>2, <2>3, <2>4 DEF MayRunAgain
  <2> QED
    BY <1>11, <2>2, <2>5
<1>13. ASSUME NEW x \in running, Validated(x) \/ Retry(x) \/ Block(x) PROVE Goal
  <2>1. UNCHANGED <<attempts, events>> /\ lock' = "free" /\ running' = running \ {x}
    BY <1>13 DEF Validated, Retry, Block, Reports, Records, Locks
  <2>2. overdue' \subseteq overdue /\ \A c \in Cells \ {x.cell} : task'[c] = task[c]
    BY <1>13 DEF Validated, Retry, Block, Reports, TypeOK, FileOK
  <2>3. ASSUME NEW c \in Cells, MayRunAgain(c)' PROVE MayRunAgain(c) \/ attempts[c] < MaxAttempts
    <3>1. CASE c # x.cell
      <4>1. InFlight(c) => InFlight(c)'
        BY <2>1, <3>1 DEF InFlight
      <4> QED
        BY <2>1, <2>2, <2>3, <3>1, <4>1 DEF MayRunAgain
    <3>2. CASE c = x.cell
      <4>1. c \notin overdue'
        BY <1>13, <3>2 DEF Validated, Retry, Block, Reports
      <4>2. CASE Retry(x)
        BY <3>2, <4>2 DEF Retry
      <4>3. CASE Validated(x) \/ Block(x)
        <5>1. task'[c] \in {"DONE", "BLOCKED_EXTERNAL"}
          BY <3>2, <4>3 DEF Validated, Block, Reports, TypeOK, FileOK
        <5> QED
          BY <2>1, <2>3, <4>1, <5>1 DEF MayRunAgain, TaskStates
      <4> QED
        BY <1>13, <4>2, <4>3
    <3> QED
      BY <3>1, <3>2
  <2> QED
    BY <1>11, <2>1, <2>3
<1>14. ASSUME NEW x \in running, Discard(x) PROVE Goal
  <2>1. UNCHANGED <<attempts, events, task, overdue>> /\ lock' = "free" /\ running' = running \ {x}
    BY <1>14 DEF Discard, Records, Locks
  <2>2. task[x.cell] = "RUNNING" => x.attempt # attempts[x.cell]
    BY <1>14 DEF Discard, Accepts, Latest
  <2>3. ASSUME NEW c \in Cells, task[c] = "RUNNING", InFlight(c) PROVE InFlight(c)'
    BY <2>1, <2>2, <2>3 DEF InFlight
  <2>4. \A c \in Cells : MayRunAgain(c)' => MayRunAgain(c)
    BY <2>1, <2>3 DEF MayRunAgain
  <2> QED
    BY <1>11, <2>1, <2>4
<1>15. ASSUME NEW o \in Ids, Submit(o) PROVE Goal
  <2>1. UNCHANGED <<attempts, events, running, overdue>> /\ lock' = "free"
    BY <1>15 DEF Submit, Locks
  <2>2. \A c \in Cells : InFlight(c) <=> InFlight(c)'
    BY <2>1 DEF InFlight
  <2>3. \A c \in Cells : MayRunAgain(c)' => MayRunAgain(c)
    BY <1>15, <2>1, <2>2, SubmitKeeps DEF MayRunAgain
  <2> QED
    BY <1>11, <2>1, <2>3
<1>16. CASE UNCHANGED <<attempts, task, running, overdue, slow, crashes, busy, resumes>>
            /\ (lock' = lock \/ lock' \in {"free", "lapsed"})
  <2>1. \A c \in Cells : MayRunAgain(c)' => MayRunAgain(c)
    BY <1>16 DEF MayRunAgain, InFlight
  <2> QED
    BY <1>1, <1>2, <1>16, <2>1, NothingNew
<1>17. CASE SetKillSwitch \/ (\E w \in Workers : Start(w)) \/ LockLapses \/ \E c \in Cells : BackoffEnds(c)
  BY <1>16, <1>17 DEF SetKillSwitch, Locks, Start, LockLapses, BackoffEnds
<1>18. ASSUME NEW x \in running, AnswerStep(x) PROVE Goal
  BY <1>9, <1>12, <1>13, <1>14, <1>18 DEF AnswerStep
<1>19. CASE \E o \in Ids, t \in Tasks, to \in {"PENDING", "DONE"} : Resume(o, t, to)
  BY <1>8, <1>19
<1> HIDE DEF Goal
<1>20. CASE \E w \in Workers : Start(w) \/ Crash(w) \/ TickStep(w)
  BY <1>6, <1>7, <1>17, <1>20
<1>21. CASE Request
  BY <1>15, <1>17, <1>19, <1>21 DEF Request
<1>22. CASE Time
  BY <1>10, <1>17, <1>22 DEF Time
<1> QED
  BY <1>18, <1>20, <1>21, <1>22 DEF Next

-----------------------------------------------------------------------------
(* The lease.                                                              *)

LEMMA ExecutingFinite ==
  ASSUME IsFiniteSet(running), NEW c
  PROVE  IsFiniteSet(Executing(c)) /\ Cardinality(Executing(c)) \in Nat
<1>1. Executing(c) \in SUBSET running
  BY DEF Executing
<1> QED
  BY <1>1, FS_Subset, FS_CardinalityType

\* A step that starts no execution, and after which a task is unheld only if it was before,
\* if one of its executions has ended, or if a lease has lapsed under a handler.
LEMMA LapsesKept ==
  ASSUME TypeOK, LeaseExcludes, LapsesExplain, IsFiniteSet(running'),
         slow' \in Nat, slow' >= slow,
         \A c \in Cells :
            /\ Cardinality(Executing(c)') <= Cardinality(Executing(c))
            /\ Unheld(c)' => \/ Unheld(c) \/ slow' >= slow + 1
                             \/ Cardinality(Executing(c)') + 1 <= Cardinality(Executing(c))
  PROVE  LeaseExcludes' /\ LapsesExplain'
<1>1. slow \in Nat
  BY DEF TypeOK, EventsOK
<1>2. ASSUME NEW c \in Cells
      PROVE  /\ Cardinality(Executing(c)') <= 1 + slow'
             /\ Unheld(c)' => Cardinality(Executing(c)') <= slow'
  <2>1. Cardinality(Executing(c)) \in Nat /\ Cardinality(Executing(c)') \in Nat
    <3>1. Executing(c)' \in SUBSET running'
      BY DEF Executing
    <3> QED
      BY <3>1, ExecutingFinite, FS_Subset, FS_CardinalityType DEF LapsesExplain
  <2>2. Cardinality(Executing(c)) <= 1 + slow
    BY DEF LeaseExcludes
  <2>3. Unheld(c) => Cardinality(Executing(c)) <= slow
    BY DEF LapsesExplain
  <2> QED
    BY <1>1, <2>1, <2>2, <2>3
<1> QED
  BY <1>2 DEF LeaseExcludes, LapsesExplain

\* An execution ends.
LEMMA ExecutionEnds ==
  ASSUME TypeOK, IsFiniteSet(running), running' \subseteq running
  PROVE  /\ IsFiniteSet(running')
         /\ \A c \in Cells : Cardinality(Executing(c)') <= Cardinality(Executing(c))
         /\ \A x \in running : x \notin running' =>
               Cardinality(Executing(x.cell)') + 1 <= Cardinality(Executing(x.cell))
<1>1. IsFiniteSet(running')
  BY FS_Subset
<1>2. ASSUME NEW c \in Cells PROVE Cardinality(Executing(c)') <= Cardinality(Executing(c))
  <2>1. Executing(c)' \in SUBSET Executing(c)
    BY DEF Executing
  <2> QED
    BY <2>1, ExecutingFinite, FS_Subset
<1>3. ASSUME NEW x \in running, x \notin running'
      PROVE  Cardinality(Executing(x.cell)') + 1 <= Cardinality(Executing(x.cell))
  <2> DEFINE S == Executing(x.cell)
  <2>1. Executing(x.cell)' \in SUBSET (S \ {x}) /\ x \in S
    BY <1>3 DEF Executing
  <2>2. IsFiniteSet(S) /\ Cardinality(S) \in Nat
    BY ExecutingFinite
  <2>3. IsFiniteSet(S \ {x}) /\ Cardinality(S \ {x}) = Cardinality(S) - 1
    BY <2>1, <2>2, FS_RemoveElement
  <2>4. Cardinality(Executing(x.cell)') <= Cardinality(S \ {x})
        /\ Cardinality(Executing(x.cell)') \in Nat
    BY <2>1, <2>3, FS_Subset, FS_CardinalityType
  <2> QED
    BY <2>2, <2>3, <2>4
<1> QED
  BY <1>1, <1>2, <1>3

\* An answer that comes replaces an execution by the answered one.
LEMMA ComesCounts ==
  ASSUME TypeOK, IsFiniteSet(running), NEW x \in running, NEW r \in Answers, Comes(x, r)
  PROVE  /\ IsFiniteSet(running')
         /\ \A c \in Cells : Cardinality(Executing(c)') <= Cardinality(Executing(c))
<1> DEFINE new == [x EXCEPT !.answer = r]
<1>1. new.cell = x.cell
  BY DEF TypeOK, ProcessesOK, Executions
<1>2. running' = (running \ {x}) \cup {new}
  BY DEF Comes
<1> HIDE DEF new
<1>3. IsFiniteSet(running')
  BY <1>2, FS_RemoveElement, FS_AddElement
<1>4. ASSUME NEW c \in Cells PROVE Cardinality(Executing(c)') <= Cardinality(Executing(c))
  <2> DEFINE S == Executing(c)
  <2>1. IsFiniteSet(S) /\ Cardinality(S) \in Nat
    BY ExecutingFinite
  <2>2. CASE x.cell = c
    <3>1. x \in S /\ Executing(c)' = (S \ {x}) \cup {new}
      BY <1>1, <1>2, <2>2 DEF Executing
    <3> HIDE DEF S
    <3>2. IsFiniteSet(S \ {x}) /\ Cardinality(S \ {x}) = Cardinality(S) - 1
      BY <2>1, <3>1, FS_RemoveElement
    <3>3. \/ Cardinality(Executing(c)') = Cardinality(S \ {x})
          \/ Cardinality(Executing(c)') = Cardinality(S \ {x}) + 1
      BY <3>1, <3>2, FS_AddElement
    <3> QED
      BY <2>1, <3>2, <3>3 DEF S
  <2>3. CASE x.cell # c
    <3>1. Executing(c)' = S
      BY <1>1, <1>2, <2>3 DEF Executing
    <3> QED
      BY <2>1, <3>1
  <2> QED
    BY <2>2, <2>3
<1> QED
  BY <1>3, <1>4

LEMMA LeaseStep ==
  ASSUME TypeOK, TypeOK', Listed, Latest, OverdueRuns, LeaseExcludes, LapsesExplain, Next
  PROVE  LeaseExcludes' /\ LapsesExplain'
<1> DEFINE Goal == LeaseExcludes' /\ LapsesExplain'
<1> SUFFICES Goal
  OBVIOUS
<1>1. slow \in Nat /\ slow' \in Nat /\ IsFiniteSet(running)
  BY DEF TypeOK, EventsOK, LapsesExplain
<1>2. ASSUME NEW w \in Workers, NEW o \in Ids, NEW t \in Tasks, Claim(w, o, t) PROVE Goal
  <2> DEFINE c == <<o, t>>
             new == [worker |-> w, cell |-> c, attempt |-> attempts[c] + 1, answer |-> None]
  <2>1. TickStep(w)
    BY <1>2 DEF TickStep
  <2>2. c \in Cells /\ TaskNow[c] \in {"PENDING", "RETRY_WAIT"}
    BY <1>2, SelectedFacts DEF Claim, Picks
  <2>3. Unheld(c) /\ (c \in overdue => c \in Recovered)
    BY <2>2, RecoveryKeepsDone DEF Unheld, OverdueRuns, Recovered
  <2>4. slow' = slow
    BY <2>1, TickKeeps
  <2>5. /\ attempts' = [attempts EXCEPT ![c] = @ + 1]
        /\ task'[c] = "RUNNING" /\ running' = running \cup {new}
    BY <1>2 DEF Claim, TaskNow
  <2>6. attempts'[c] = attempts[c] + 1 /\ \A d \in Cells \ {c} : attempts'[d] = attempts[d]
    BY <2>2, <2>5 DEF TypeOK, FileOK
  <2>7. new.cell = c /\ new.attempt = attempts'[c]
    BY <2>6
  <2>8. ~Unheld(c)'
    <3>1. InFlight(c)'
      BY <2>5, <2>7 DEF InFlight
    <3>2. c \notin overdue'
      BY <2>1, <2>3, TickKeeps
    <3> QED
      BY <2>5, <3>1, <3>2 DEF Unheld
  <2> HIDE DEF c, new
  <2>9. IsFiniteSet(running')
    BY <1>1, <2>5, FS_AddElement
  <2>10. Cardinality(Executing(c)') <= 1 + slow'
    <3>1. Executing(c)' = Executing(c) \cup {new}
      BY <2>5, <2>7 DEF Executing
    <3>2. IsFiniteSet(Executing(c)) /\ Cardinality(Executing(c)) \in Nat
      BY <1>1, ExecutingFinite
    <3>3. Cardinality(Executing(c)) <= slow
      BY <2>2, <2>3 DEF LapsesExplain
    <3>4. \/ Cardinality(Executing(c)') = Cardinality(Executing(c))
          \/ Cardinality(Executing(c)') = Cardinality(Executing(c)) + 1
      BY <3>1, <3>2, FS_AddElement
    <3> QED
      BY <1>1, <2>4, <3>2, <3>3, <3>4
  <2>11. ASSUME NEW d \in Cells, d # c
         PROVE  /\ Cardinality(Executing(d)') <= 1 + slow'
                /\ Unheld(d)' => Cardinality(Executing(d)') <= slow'
    <3>1. Executing(d)' = Executing(d)
      BY <2>5, <2>7, <2>11 DEF Executing
    <3>2. InFlight(d) => InFlight(d)'
      BY <2>5, <2>6, <2>11 DEF InFlight
    <3>3. d \in overdue' => d \in overdue
      BY <2>1, TickKeeps
    <3>4. task'[d] = TaskNow[d]
      BY <1>2, <2>11 DEF Claim, TaskNow, c
    <3>5. d \in Recovered => d \in overdue
      BY DEF Recovered
    <3>6. Unheld(d)' => Unheld(d)
      BY <3>2, <3>3, <3>4, <3>5, RecoveryKeepsDone DEF Unheld
    <3> QED
      BY <2>4, <3>1, <3>6 DEF LeaseExcludes, LapsesExplain
  <2> QED
    BY <2>2, <2>8, <2>9, <2>10, <2>11 DEF LeaseExcludes, LapsesExplain
<1>3. ASSUME running' = running, slow' >= slow,
             \A c \in Cells : Unheld(c)' => Unheld(c) \/ slow' >= slow + 1
      PROVE  Goal
  <2>1. \A c \in Cells : /\ Executing(c)' = Executing(c) /\ Cardinality(Executing(c)) \in Nat
    BY <1>1, <1>3, ExecutingFinite DEF Executing
  <2>2. \A c \in Cells : Cardinality(Executing(c)') <= Cardinality(Executing(c))
    BY <2>1
  <2> QED
    BY <1>1, <1>3, <2>2, LapsesKept
<1>4. ASSUME NEW w \in Workers, TickStep(w), UNCHANGED <<running, attempts>> PROVE Goal
  <2>1. slow' = slow
    BY <1>4, TickKeeps
  <2>2. ASSUME NEW d \in Cells, Unheld(d)' PROVE Unheld(d)
    <3>1. InFlight(d) <=> InFlight(d)'
      BY <1>4 DEF InFlight
    <3>2. d \in overdue' => d \in overdue
      BY <1>4, TickKeeps
    <3>3. d \in Recovered => d \in overdue
      BY DEF Recovered
    <3>4. TaskNow[d] \in {"PENDING", "RETRY_WAIT"} => Unheld(d)
      BY <3>3, RecoveryKeepsDone DEF Unheld
    <3>5. task'[d] = TaskNow[d] => Unheld(d)
      BY <2>2, <3>1, <3>2, <3>3, RecoveryKeepsDone DEF Unheld
    <3> QED
      BY <1>4, <3>4, <3>5, TickKeeps
  <2> QED
    BY <1>1, <1>3, <1>4, <2>1, <2>2
<1>5. ASSUME NEW w \in Workers, TickStep(w) PROVE Goal
  <2>1. CASE UNCHANGED <<running, attempts>>
    BY <1>4, <1>5, <2>1
  <2>2. CASE \E o \in Ids, t \in Tasks : Claim(w, o, t)
    BY <1>2, <2>2
  <2> QED
    BY <1>5, <2>1, <2>2 DEF TickStep, AskHuman, SkipDuplicate, Close, OnlyRecover
\* An execution that ends may leave its task unheld, and is one less.
<1>6. ASSUME UNCHANGED <<attempts, slow>>, running' \subseteq running, overdue' \subseteq overdue,
             \A c \in Cells : \/ task'[c] = task[c]
                             \/ \E x \in running : x.cell = c /\ x \notin running'
      PROVE  Goal
  <2>1. ASSUME NEW c \in Cells, Unheld(c)'
        PROVE  Unheld(c) \/ \E x \in running : x.cell = c /\ x \notin running'
    BY <1>6, <2>1 DEF Unheld, InFlight
  <2>2. \A c \in Cells : Unheld(c)' =>
           Unheld(c) \/ Cardinality(Executing(c)') + 1 <= Cardinality(Executing(c))
    BY <1>1, <1>6, <2>1, ExecutionEnds
  <2> QED
    BY <1>1, <1>6, <2>2, ExecutionEnds, LapsesKept
<1>7. ASSUME NEW w \in Workers, Start(w) \/ Crash(w) PROVE Goal
  BY <1>6, <1>7 DEF Start, Crash
<1>8. ASSUME NEW x \in running, Validated(x) \/ Retry(x) \/ Block(x) \/ Discard(x) \/ Lose(x)
      PROVE  Goal
  <2>1. UNCHANGED <<attempts, slow>> /\ running' = running \ {x} /\ overdue' \subseteq overdue
    BY <1>8 DEF Validated, Retry, Block, Reports, Discard, Lose, Records
  <2>2. \A c \in Cells \ {x.cell} : task'[c] = task[c]
    BY <1>8 DEF Validated, Retry, Block, Reports, Discard, Lose, TypeOK, FileOK
  <2> QED
    BY <1>6, <2>1, <2>2
<1>9. ASSUME NEW x \in running, Plan(x) \/ PlanComplete(x) \/ PlanBusy(x) PROVE Goal
  <2>1. PICK r \in Answers : Comes(x, r)
    BY <1>9 DEF Plan, PlanComplete, PlanBusy, Answers
  <2>2. UNCHANGED <<attempts, overdue, slow>>
    BY <1>9 DEF Plan, PlanComplete, PlanBusy
  <2>3. ASSUME NEW c \in Cells
        PROVE  IF task[c] = None THEN task'[c] \in {None, "PENDING"} ELSE task'[c] = task[c]
    BY <1>9, PlanKeeps DEF PlanComplete, PlanBusy
  <2>4. \A c \in Cells : InFlight(c) => InFlight(c)'
    BY <2>1, <2>2, ComesKeeps DEF InFlight
  <2>5. \A c \in Cells : Unheld(c)' => Unheld(c)
    BY <2>2, <2>3, <2>4 DEF Unheld, TaskStates
  <2>6. IsFiniteSet(running') /\ \A c \in Cells :
           Cardinality(Executing(c)') <= Cardinality(Executing(c))
    BY <1>1, <2>1, ComesCounts
  <2> QED
    BY <1>1, <2>2, <2>5, <2>6, LapsesKept
<1>10. ASSUME NEW o \in Ids, Submit(o) PROVE Goal
  <2>1. UNCHANGED <<attempts, events, running, overdue>>
    BY <1>10 DEF Submit
  <2>2. \A c \in Cells : InFlight(c) <=> InFlight(c)'
    BY <2>1 DEF InFlight
  <2>3. \A c \in Cells : Unheld(c)' => Unheld(c)
    BY <1>10, <2>1, <2>2, SubmitKeeps DEF Unheld, TaskStates
  <2> QED
    BY <1>1, <1>3, <2>1, <2>3
<1>11. ASSUME NEW o \in Ids, NEW t \in Tasks, NEW to \in {"PENDING", "DONE"}, Resume(o, t, to)
       PROVE  Goal
  <2>1. UNCHANGED <<attempts, slow, running, overdue>>
    BY <1>11 DEF Resume
  <2>2. \A c \in Cells : task'[c] = task[c] \/ task[c] # "RUNNING"
    BY <1>11 DEF Resume, Resumable, TypeOK, FileOK
  <2>3. \A c \in Cells : Unheld(c)' => Unheld(c)
    BY <2>1, <2>2 DEF Unheld, InFlight
  <2> QED
    BY <1>1, <1>3, <2>1, <2>3
<1>12. ASSUME NEW c \in Cells, LeaseLapses(c) PROVE Goal
  <2>1. UNCHANGED <<attempts, running, task>>
    BY <1>12 DEF LeaseLapses
  <2>2. CASE slow' = slow + 1
    BY <1>1, <1>3, <2>1, <2>2
  <2>3. CASE ~InFlight(c) /\ slow' = slow
    <3>1. \A d \in Cells : Unheld(d)' => Unheld(d)
      BY <1>12, <2>1, <2>3 DEF Unheld, InFlight, LeaseLapses
    <3> QED
      BY <1>1, <1>3, <2>1, <2>3, <3>1
  <2> QED
    BY <1>12, <2>2, <2>3 DEF LeaseLapses
<1>13. CASE SetKillSwitch \/ LockLapses \/ \E c \in Cells : BackoffEnds(c)
  BY <1>6, <1>13 DEF SetKillSwitch, LockLapses, BackoffEnds
<1>14. ASSUME NEW x \in running, AnswerStep(x) PROVE Goal
  BY <1>8, <1>9, <1>14 DEF AnswerStep
<1>15. CASE \E o \in Ids, t \in Tasks, to \in {"PENDING", "DONE"} : Resume(o, t, to)
  BY <1>11, <1>15
<1> HIDE DEF Goal
<1>16. CASE \E w \in Workers : Start(w) \/ Crash(w) \/ TickStep(w)
  BY <1>5, <1>7, <1>16
<1>17. CASE Request
  BY <1>10, <1>13, <1>15, <1>17 DEF Request
<1>18. CASE Time
  BY <1>12, <1>13, <1>18 DEF Time
<1> QED
  BY <1>14, <1>16, <1>17, <1>18 DEF Next

-----------------------------------------------------------------------------
(* The planned cycle.                                                      *)

\* How a task may move: what waits moves on only when its dependencies are done, and
\* what is blocked only by a decision of the operator.
LEMMA TaskMoves ==
  ASSUME TypeOK, Listed, Next, NEW o \in Ids, NEW t \in Tasks
  PROVE  LET c == <<o, t>> IN
         \/ task'[c] = task[c]
         \/ task[c] \notin Resumable /\ task'[c] = "PENDING"
         \/ task[c] = "RUNNING"
         \/ task[c] \in {"PENDING", "RETRY_WAIT"} /\ DependenciesMet(o, t)
         \/ task[c] \in Resumable /\ \E to \in {"PENDING", "DONE"} : Resume(o, t, to)
<1> DEFINE c == <<o, t>>
           Goal == \/ task'[c] = task[c]
                   \/ task[c] \notin Resumable /\ task'[c] = "PENDING"
                   \/ task[c] = "RUNNING"
                   \/ task[c] \in {"PENDING", "RETRY_WAIT"} /\ DependenciesMet(o, t)
                   \/ task[c] \in Resumable /\ \E to \in {"PENDING", "DONE"} : Resume(o, t, to)
<1> SUFFICES Goal
  OBVIOUS
<1>1. c \in Cells /\ c[1] = o /\ c[2] = t
  OBVIOUS
<1>2. ASSUME NEW w \in Workers, NEW i \in Ids, NEW u \in Tasks,
             Claim(w, i, u) \/ AskHuman(w, i, u) \/ SkipDuplicate(w, i, u)
      PROVE  Goal
  <2>1. CASE <<i, u>> = c
    <3>1. TaskNow[c] \in {"PENDING", "RETRY_WAIT"} /\ DependenciesMet(o, t)
      BY <1>2, <2>1, SelectedFacts DEF Claim, AskHuman, SkipDuplicate, Picks
    <3> QED
      BY <1>1, <3>1, RecoveryKeepsDone
  <2>2. CASE <<i, u>> # c
    <3>1. task'[c] = TaskNow[c]
      BY <1>1, <1>2, <2>2 DEF Claim, AskHuman, SkipDuplicate, TaskNow
    <3> QED
      BY <1>1, <3>1, RecoveryKeepsDone
  <2> QED
    BY <2>1, <2>2
<1>3. ASSUME NEW w \in Workers, OnlyRecover(w) \/ \E i \in Ids : Close(w, i) PROVE Goal
  BY <1>1, <1>3, RecoveryKeepsDone DEF OnlyRecover, Close
<1>4. ASSUME NEW x \in running, Validated(x) \/ Retry(x) \/ Block(x) PROVE Goal
  BY <1>1, <1>4 DEF Validated, Retry, Block, Reports, Accepts, TypeOK, FileOK
<1>5. ASSUME NEW x \in running, Plan(x) PROVE Goal
  BY <1>1, <1>5, PlanKeeps DEF Resumable, TaskStates
<1>6. ASSUME NEW i \in Ids, Submit(i) PROVE Goal
  BY <1>1, <1>6, SubmitKeeps DEF Resumable, TaskStates
<1>7. ASSUME NEW i \in Ids, NEW u \in Tasks, NEW to \in {"PENDING", "DONE"}, Resume(i, u, to)
      PROVE  Goal
  <2>1. CASE <<i, u>> = c
    BY <1>7, <2>1 DEF Resume
  <2>2. CASE <<i, u>> # c
    BY <1>1, <1>7, <2>2 DEF Resume, TypeOK, FileOK
  <2> QED
    BY <2>1, <2>2
<1>8. CASE task' = task
  BY <1>8
<1> HIDE DEF Goal, c
<1>9. ASSUME NEW x \in running, PlanComplete(x) \/ PlanBusy(x) \/ Discard(x) \/ Lose(x) PROVE Goal
  BY <1>8, <1>9 DEF PlanComplete, PlanBusy, Discard, Lose
<1>10. CASE Time \/ SetKillSwitch \/ \E w \in Workers : Start(w) \/ Crash(w)
  BY <1>8, <1>10 DEF Time, LeaseLapses, BackoffEnds, LockLapses, SetKillSwitch, Start, Crash
<1>11. ASSUME NEW w \in Workers, TickStep(w) PROVE Goal
  BY <1>2, <1>3, <1>11 DEF TickStep
<1>12. ASSUME NEW x \in running, AnswerStep(x) PROVE Goal
  BY <1>4, <1>5, <1>9, <1>12 DEF AnswerStep
<1>13. CASE \E i \in Ids, u \in Tasks, to \in {"PENDING", "DONE"} : Resume(i, u, to)
  BY <1>7, <1>13
<1> QED
  BY <1>6, <1>10, <1>11, <1>12, <1>13 DEF Next, Request

\* How the status of an objective may move.
StatusMove(o) ==
  \/ status'[o] = status[o]
  \/ status'[o] = "ACTIVE"
  \/ /\ status'[o] \in Resumable
     /\ \E t \in Tasks :
           /\ task[<<o, t>>] \notin Resumable /\ task'[<<o, t>>] \in Resumable
           /\ status'[o] = "NEEDS_HUMAN" => t \in Human
  \/ status'[o] = "DONE" /\ AllDone(o)

LEMMA StatusMoves == ASSUME TypeOK, Next, NEW o \in Ids PROVE StatusMove(o)
<1> DEFINE Goal == StatusMove(o)
<1> SUFFICES Goal
  OBVIOUS
<1> USE DEF StatusMove
<1>1. CASE status' = status
  BY <1>1
<1>2. ASSUME NEW w \in Workers, NEW i \in Ids, NEW t \in Tasks, AskHuman(w, i, t) PROVE Goal
  <2>1. TaskNow[<<i, t>>] \in {"PENDING", "RETRY_WAIT"} /\ <<i, t>> \in Cells
    BY <1>2, SelectedFacts DEF AskHuman, Picks
  <2>2. task[<<i, t>>] \notin Resumable
    BY <2>1, RecoveryKeepsDone DEF Resumable
  <2>3. task'[<<i, t>>] = "NEEDS_HUMAN" /\ t \in Human
    BY <1>2, <2>1 DEF AskHuman, TaskNow
  <2>4. status'[o] = IF o = i THEN "NEEDS_HUMAN" ELSE status[o]
    BY <1>2 DEF AskHuman, TypeOK, FileOK
  <2> QED
    BY <2>2, <2>3, <2>4 DEF Resumable
<1>3. ASSUME NEW w \in Workers, NEW i \in Ids, Close(w, i) PROVE Goal
  BY <1>3 DEF Close, TypeOK, FileOK
<1>4. ASSUME NEW x \in running, Validated(x) \/ Retry(x) \/ Block(x) PROVE Goal
  <2>1. x.cell \in Cells /\ x.cell = <<x.cell[1], x.cell[2]>> /\ x.cell[2] \in Tasks /\ x.cell[1] \in Ids
    BY RunningCells
  <2>2. task[x.cell] = "RUNNING" /\ "RUNNING" \notin Resumable
    BY <1>4 DEF Validated, Retry, Block, Reports, Accepts, Resumable
  <2>3. CASE Validated(x) \/ Retry(x)
    BY <2>1, <2>3 DEF Validated, Retry, Reports, TypeOK, FileOK
  <2>4. CASE Block(x)
    <3>1. task'[x.cell] = "BLOCKED_EXTERNAL"
      BY <2>1, <2>4 DEF Block, Reports, TypeOK, FileOK
    <3>2. status'[o] = IF o = x.cell[1] THEN "BLOCKED_EXTERNAL" ELSE status[o]
      BY <2>1, <2>4 DEF Block, Reports, TypeOK, FileOK
    <3> QED
      BY <2>1, <2>2, <3>1, <3>2 DEF Resumable
  <2> QED
    BY <1>4, <2>3, <2>4
<1>5. ASSUME NEW i \in Ids, Submit(i) PROVE Goal
  BY <1>5 DEF Submit, TypeOK, FileOK
<1>6. ASSUME NEW i \in Ids, NEW t \in Tasks, NEW to \in {"PENDING", "DONE"}, Resume(i, t, to) PROVE Goal
  BY <1>6 DEF Resume, TypeOK, FileOK
<1> HIDE DEF Goal, StatusMove
<1>7. ASSUME NEW w \in Workers, TickStep(w) PROVE Goal
  BY <1>1, <1>2, <1>3, <1>7 DEF TickStep, Claim, SkipDuplicate, OnlyRecover
<1>8. ASSUME NEW x \in running, AnswerStep(x) PROVE Goal
  BY <1>1, <1>4, <1>8 DEF AnswerStep, Plan, PlanComplete, PlanBusy, Discard, Lose
<1>9. CASE Time \/ SetKillSwitch \/ \E w \in Workers : Start(w) \/ Crash(w)
  BY <1>1, <1>9 DEF Time, LeaseLapses, BackoffEnds, LockLapses, SetKillSwitch, Start, Crash
<1>10. CASE \E i \in Ids, t \in Tasks, to \in {"PENDING", "DONE"} : Resume(i, t, to)
  BY <1>6, <1>10
<1> QED
  BY <1>5, <1>7, <1>8, <1>9, <1>10 DEF Next, Request

\* Only a submission and a planner change the order of an objective.
LEMMA OrderMoves ==
  ASSUME TypeOK, Next, NEW o \in Ids
  PROVE  \/ order'[o] = order[o]
         \/ Submit(o)
         \/ \E x \in running : x.cell[1] = o /\ Plan(x)
<1> DEFINE Goal == \/ order'[o] = order[o] \/ Submit(o)
                   \/ \E x \in running : x.cell[1] = o /\ Plan(x)
<1> SUFFICES Goal
  OBVIOUS
<1>1. CASE order' = order
  BY <1>1
<1>2. ASSUME NEW i \in Ids, Submit(i) PROVE Goal
  BY <1>2 DEF Submit, TypeOK, FileOK
<1>3. ASSUME NEW x \in running, Plan(x) PROVE Goal
  <2>1. PICK k \in DOMAIN Stages :
           order' = [order EXCEPT ![x.cell[1]] = order[x.cell[1]] \o Spawned(x.cell[1], k)]
    BY <1>3 DEF Plan
  <2> QED
    BY <1>3, <2>1 DEF TypeOK, FileOK
<1> HIDE DEF Goal
<1>4. ASSUME NEW w \in Workers, TickStep(w) PROVE Goal
  BY <1>1, <1>4 DEF TickStep, Claim, AskHuman, SkipDuplicate, Close, OnlyRecover, Picks, Ticks
<1>5. ASSUME NEW x \in running, AnswerStep(x) PROVE Goal
  BY <1>1, <1>3, <1>5 DEF AnswerStep, PlanComplete, PlanBusy, Validated, Retry, Block, Reports,
                          Discard, Records, Lose
<1>6. CASE Time \/ SetKillSwitch \/ \E w \in Workers : Start(w) \/ Crash(w)
  BY <1>1, <1>6 DEF Time, LeaseLapses, BackoffEnds, LockLapses, SetKillSwitch, Start, Crash
<1>7. CASE \E i \in Ids, t \in Tasks, to \in {"PENDING", "DONE"} : Resume(i, t, to)
  BY <1>1, <1>7 DEF Resume
<1> QED
  BY <1>2, <1>4, <1>5, <1>6, <1>7 DEF Next, Request

\* An execution after a step: its dependencies were done before it, and only a planner
\* that plans makes its answer a success.
LEMMA ExecutionMoves ==
  ASSUME TypeOK, DependenciesHeld, Next, NEW x \in running'
  PROVE  /\ x.cell \in Cells /\ DependenciesMet(x.cell[1], x.cell[2])
         /\ x.answer = "validated" =>
               \/ x \in running
               \/ \E y \in running : y.cell = x.cell /\ (Plan(y) \/ PlanComplete(y))
<1> DEFINE Goal == /\ x.cell \in Cells /\ DependenciesMet(x.cell[1], x.cell[2])
                   /\ x.answer = "validated" =>
                         \/ x \in running
                         \/ \E y \in running : y.cell = x.cell /\ (Plan(y) \/ PlanComplete(y))
<1> SUFFICES Goal
  OBVIOUS
<1>1. ASSUME NEW y \in running PROVE y.cell \in Cells /\ DependenciesMet(y.cell[1], y.cell[2])
  BY RunningCells DEF DependenciesHeld, DependenciesMet
<1>2. CASE x \in running
  BY <1>1, <1>2
<1>3. ASSUME NEW w \in Workers, NEW o \in Ids, NEW t \in Tasks, Claim(w, o, t) PROVE Goal
  <2>1. DependenciesMet(o, t)
    BY <1>3, SelectedFacts DEF Claim, Picks
  <2>2. x \in running \/ (x.cell = <<o, t>> /\ x.answer = None)
    BY <1>3 DEF Claim
  <2>3. <<o, t>> \in Cells /\ <<o, t>>[1] = o /\ <<o, t>>[2] = t /\ None # "validated"
    BY DEF Answers
  <2> QED
    BY <1>2, <2>1, <2>2, <2>3
<1>4. ASSUME NEW y \in running, NEW r \in Answers, Comes(y, r),
             r = "validated" => Plan(y) \/ PlanComplete(y)
      PROVE  Goal
  <2>1. [y EXCEPT !.answer = r].cell = y.cell /\ [y EXCEPT !.answer = r].answer = r
    BY DEF TypeOK, ProcessesOK, Executions
  <2>2. x \in running \/ (x.cell = y.cell /\ x.answer = r)
    BY <1>4, <2>1 DEF Comes
  <2> QED
    BY <1>1, <1>2, <1>4, <2>2
<1>5. CASE running' \subseteq running
  BY <1>2, <1>5
<1> HIDE DEF Goal
<1>6. ASSUME NEW y \in running, Plan(y) \/ PlanComplete(y) \/ PlanBusy(y) PROVE Goal
  BY <1>4, <1>6 DEF Plan, PlanComplete, PlanBusy, Answers
<1>7. ASSUME NEW y \in running, AnswerStep(y) PROVE Goal
  BY <1>5, <1>6, <1>7 DEF AnswerStep, Validated, Retry, Block, Reports, Discard, Records, Lose
<1>8. ASSUME NEW w \in Workers, TickStep(w) PROVE Goal
  BY <1>3, <1>5, <1>8 DEF TickStep, AskHuman, SkipDuplicate, Close, OnlyRecover
<1>9. CASE Time \/ Request \/ \E w \in Workers : Start(w) \/ Crash(w)
  BY <1>5, <1>9 DEF Time, LeaseLapses, BackoffEnds, LockLapses, Request, Submit, Resume,
                    SetKillSwitch, Start, Crash
<1> QED
  BY <1>7, <1>8, <1>9 DEF Next

\* Dependencies that are met stay met.
LEMMA MetStays ==
  ASSUME TypeOK, Listed, Next, NEW o \in Ids, NEW t \in Tasks, DependenciesMet(o, t)
  PROVE  DependenciesMet(o, t)'
<1>1. \A d \in DependsOn[t] : <<o, d>> \in Cells /\ task[<<o, d>>] = "DONE"
  BY DEF DependenciesMet
<1> QED
  BY <1>1, DoneStays DEF DependenciesMet

LEMMA BegunStep == ASSUME TypeOK, Listed, Begun, Next PROVE Begun'
<1> SUFFICES ASSUME NEW o \in Ids, NEW t \in Tasks, task'[<<o, t>>] \notin {None, "PENDING"}
             PROVE  DependenciesMet(o, t)'
  BY DEF Begun
<1>1. DependenciesMet(o, t)
  <2>1. task[<<o, t>>] \notin {None, "PENDING"} => DependenciesMet(o, t)
    BY DEF Begun
  <2> QED
    BY <2>1, TaskMoves DEF Resumable, TaskStates
<1> QED
  BY <1>1, MetStays

\* What a planner adds to the order of its objective.
LEMMA PlanOrder ==
  ASSUME TypeOK, CycleShape, NEW x \in running, Plan(x)
  PROVE  LET o == x.cell[1] IN
         \E k \in DOMAIN Stages :
            /\ NextStage(o, k)
            /\ Members(order[o]) \subseteq Members(order'[o])
            /\ Stages[k] \in Members(order'[o])
            /\ k \in DOMAIN PlannerAfter => PlannerAfter[k] \in Members(order'[o])
            /\ \A t \in Members(order'[o]) :
                  \/ t \in Members(order[o]) \/ t = Stages[k]
                  \/ k \in DOMAIN PlannerAfter /\ t = PlannerAfter[k]
<1> DEFINE o == x.cell[1]
<1>1. o \in Ids
  BY RunningCells
<1>2. PICK k \in DOMAIN Stages :
         NextStage(o, k) /\ order' = [order EXCEPT ![o] = @ \o Spawned(o, k)]
  BY DEF Plan
<1>3. order[o] \in Seq(Tasks) /\ Members(order[o]) \subseteq Tasks
  BY <1>1 DEF TypeOK, FileOK, Members
<1>4. order'[o] = order[o] \o Spawned(o, k)
  BY <1>1, <1>2 DEF TypeOK, FileOK
<1> HIDE DEF o
<1>5. Members(order'[o]) = Members(order[o]) \cup Members(Spawned(o, k))
  BY <1>1, <1>3, <1>4, SpawnedIsNew, MembersGrow
<1>6. ASSUME NEW t \in Members(Stages) \cup Planners, t \in Tasks
      PROVE  /\ IfNew(o, t) \in Seq(Tasks)
             /\ Members(IfNew(o, t)) \subseteq {t}
             /\ t \notin Members(order[o]) => Members(IfNew(o, t)) = {t}
  <2>1. \A u \in Members(order[o]) : Key[u] = Key[t] => u = t
    BY <1>3, <1>6 DEF CycleShape
  <2>2. IfNew(o, t) = IF t \in Members(order[o]) THEN <<>> ELSE <<t>>
    BY <2>1 DEF IfNew
  <2>3. Members(<<>>) = {} /\ Members(<<t>>) = {t} /\ <<>> \in Seq(Tasks) /\ <<t>> \in Seq(Tasks)
    BY <1>6 DEF Members
  <2> QED
    BY <2>2, <2>3
<1>7. Stages[k] \in Members(Stages) /\ Stages[k] \in Tasks
  BY DEF Members
<1>8. k \in DOMAIN PlannerAfter => PlannerAfter[k] \in Planners /\ PlannerAfter[k] \in Tasks
  BY DEF CycleShape, Members
<1>9. Members(Spawned(o, k)) = Members(IfNew(o, Stages[k]))
         \cup (IF k \in DOMAIN PlannerAfter THEN Members(IfNew(o, PlannerAfter[k])) ELSE {})
  <2>1. CASE k \in DOMAIN PlannerAfter
    BY <1>6, <1>7, <1>8, <2>1, MembersGrow DEF Spawned
  <2>2. CASE k \notin DOMAIN PlannerAfter
    <3>1. <<>> \in Seq(Tasks) /\ Members(<<>>) = {}
      BY DEF Members
    <3> QED
      BY <1>6, <1>7, <2>2, <3>1, MembersGrow DEF Spawned
  <2> QED
    BY <2>1, <2>2
<1>10. Stages[k] \in Members(order'[o])
  BY <1>5, <1>6, <1>7, <1>9
<1>11. k \in DOMAIN PlannerAfter => PlannerAfter[k] \in Members(order'[o])
  BY <1>5, <1>6, <1>8, <1>9
<1>12. \A t \in Members(order'[o]) :
           \/ t \in Members(order[o]) \/ t = Stages[k]
           \/ k \in DOMAIN PlannerAfter /\ t = PlannerAfter[k]
  BY <1>5, <1>6, <1>7, <1>8, <1>9
<1> QED
  BY <1>2, <1>5, <1>10, <1>11, <1>12 DEF o

\* An objective keeps what is in its order once it is submitted.
LEMMA OrderKeeps ==
  ASSUME TypeOK, CycleShape, Next, NEW o \in Ids, ~Submit(o)
  PROVE  Members(order[o]) \subseteq Members(order'[o])
BY OrderMoves, PlanOrder

LEMMA StageDoneStays ==
  ASSUME TypeOK, Listed, Next, NEW o \in Ids, NEW k \in DOMAIN Stages, StageDone(o, k)
  PROVE  StageDone(o, k)'
<1>1. <<o, Stages[k]>> \in Cells
  OBVIOUS
<1> QED
  BY <1>1, DoneStays DEF StageDone

LEMMA StagesStep ==
  ASSUME TypeOK, Listed, CycleShape, StagesInOrder, Next PROVE StagesInOrder'
<1> SUFFICES ASSUME NEW o \in Ids, NEW j \in DOMAIN Stages, Stages[j] \in Members(order'[o])
             PROVE  /\ \A m \in 1..(j - 1) : StageDone(o, m)'
                    /\ j \in DOMAIN PlannerAfter => PlannerAfter[j] \in Members(order'[o])
  BY DEF StagesInOrder
<1>1. \A m \in 1..(j - 1) : m \in DOMAIN Stages
  OBVIOUS
<1>2. CASE Stages[j] \in Members(order[o]) /\ ~Submit(o)
  BY <1>1, <1>2, OrderKeeps, StageDoneStays DEF StagesInOrder
<1>3. CASE Submit(o)
  <2>1. order'[o] = Template[o]
    BY <1>3 DEF Submit, TypeOK, FileOK
  <2>2. Stages[j] \in Members(Stages)
    BY DEF Members
  <2> QED
    BY <2>1, <2>2 DEF CycleShape
<1>4. CASE Stages[j] \notin Members(order[o]) /\ ~Submit(o)
  <2>1. PICK x \in running : x.cell[1] = o /\ Plan(x)
    BY <1>4, OrderMoves
  <2>2. PICK k \in DOMAIN Stages :
            /\ NextStage(o, k)
            /\ k \in DOMAIN PlannerAfter => PlannerAfter[k] \in Members(order'[o])
            /\ \A t \in Members(order'[o]) :
                  \/ t \in Members(order[o]) \/ t = Stages[k]
                  \/ k \in DOMAIN PlannerAfter /\ t = PlannerAfter[k]
    BY <2>1, PlanOrder
  <2>3. Stages[j] \in Members(Stages)
        /\ \A i \in DOMAIN PlannerAfter : PlannerAfter[i] \in Members(PlannerAfter)
    BY DEF Members
  <2>4. Stages[j] = Stages[k]
    BY <1>4, <2>2, <2>3 DEF CycleShape
  <2>5. j = k
    BY <2>4 DEF CycleShape
  <2>6. \A m \in 1..(j - 1) : StageDone(o, m)
    BY <2>2, <2>5 DEF NextStage
  <2> QED
    BY <1>1, <2>2, <2>5, <2>6, StageDoneStays
<1> QED
  BY <1>2, <1>3, <1>4

\* A task that waits for ever goes on waiting.
LEMMA StuckStays ==
  ASSUME TypeOK, Listed, Next, NEW o \in Ids, Stuck(o) PROVE Stuck(o)'
<1>1. PICK t \in Tasks :
         /\ task[<<o, t>>] \in Resumable
         /\ status[o] \notin Resumable \/ \E u \in Tasks \ {t} : task[<<o, u>>] \in Resumable
  BY DEF Stuck
<1>2. CASE \E r \in Tasks, to \in {"PENDING", "DONE"} : Resume(o, r, to)
  <2>1. PICK r \in Tasks, to \in {"PENDING", "DONE"} : Resume(o, r, to)
    BY <1>2
  <2>2. status[o] \in Resumable /\ status'[o] = "ACTIVE" /\ "ACTIVE" \notin Resumable
    BY <2>1 DEF Resume, Resumable, TypeOK, FileOK
  <2>3. PICK u \in Tasks \ {t} : task[<<o, u>>] \in Resumable
    BY <1>1, <2>2
  <2>4. \A v \in Tasks \ {r} : task'[<<o, v>>] = task[<<o, v>>]
    BY <2>1 DEF Resume, TypeOK, FileOK
  <2> QED
    BY <1>1, <2>2, <2>3, <2>4 DEF Stuck
<1>3. CASE ~\E r \in Tasks, to \in {"PENDING", "DONE"} : Resume(o, r, to)
  <2>1. \A v \in Tasks : task[<<o, v>>] \in Resumable => task'[<<o, v>>] = task[<<o, v>>]
    BY <1>3, TaskMoves DEF Resumable
  <2>2. CASE status'[o] = status[o]
    BY <1>1, <2>1, <2>2 DEF Stuck
  <2>3. CASE status'[o] \notin Resumable
    BY <1>1, <2>1, <2>3 DEF Stuck
  <2>4. CASE \E v \in Tasks : task[<<o, v>>] \notin Resumable /\ task'[<<o, v>>] \in Resumable
    BY <1>1, <2>1, <2>4 DEF Stuck
  <2>5. "ACTIVE" \notin Resumable /\ "DONE" \notin Resumable
    BY DEF Resumable
  <2>6. \/ status'[o] = status[o] \/ status'[o] = "ACTIVE" \/ status'[o] = "DONE"
        \/ \E v \in Tasks : task[<<o, v>>] \notin Resumable /\ task'[<<o, v>>] \in Resumable
    <3>1. StatusMove(o)
      BY StatusMoves
    <3> QED
      BY <3>1 DEF StatusMove
  <2> QED
    BY <2>2, <2>3, <2>4, <2>5, <2>6
<1> QED
  BY <1>2, <1>3

LEMMA HumanStep == ASSUME TypeOK, Listed, HumanAsked, Next PROVE HumanAsked'
<1> SUFFICES ASSUME NEW o \in Ids, status'[o] = "NEEDS_HUMAN"
             PROVE  Stuck(o)' \/ \E t \in Human : task'[<<o, t>>] \in Resumable
  BY DEF HumanAsked
<1>1. CASE status'[o] = status[o]
  <2>1. Stuck(o) \/ \E t \in Human : task[<<o, t>>] \in Resumable
    BY <1>1 DEF HumanAsked
  <2>2. ~\E r \in Tasks, to \in {"PENDING", "DONE"} : Resume(o, r, to)
    BY DEF Resume, TypeOK, FileOK
  <2>3. ASSUME NEW v \in Tasks, task[<<o, v>>] \in Resumable PROVE task'[<<o, v>>] = task[<<o, v>>]
    <3>1. task[<<o, v>>] \notin {"PENDING", "RETRY_WAIT", "RUNNING"}
      BY <2>3 DEF Resumable
    <3> QED
      BY <2>2, <2>3, <3>1, TaskMoves
  <2>4. CASE Stuck(o)
    BY <2>4, StuckStays
  <2>5. CASE \E t \in Human : task[<<o, t>>] \in Resumable
    BY <2>3, <2>5
  <2> QED
    BY <2>1, <2>4, <2>5
<1>2. \/ status'[o] = status[o]
      \/ \E t \in Tasks : task'[<<o, t>>] \in Resumable /\ t \in Human
  <2>1. StatusMove(o)
    BY StatusMoves
  <2> QED
    BY <2>1 DEF StatusMove
<1> QED
  BY <1>1, <1>2

\* Before its submission nothing of an objective is there.
LEMMA SubmittedFresh ==
  ASSUME TypeOK, Latest, Listed, NEW o \in Ids, Submit(o)
  PROVE  /\ \A t \in Tasks : task[<<o, t>>] = None
         /\ running' = running /\ \A x \in running : x.cell[1] # o
<1>1. \A t \in Tasks : task[<<o, t>>] = None
  BY DEF Submit, Listed
<1>2. \A x \in running : x.cell[1] # o
  BY <1>1, RunningCells DEF Latest
<1> QED
  BY <1>1, <1>2 DEF Submit

\* A planner of an objective that is not stuck is spent by planning only.
LEMMA SpentByPlanning ==
  ASSUME TypeOK, Listed, Latest, DependenciesHeld, CycleShape, HumanAsked, Next,
         NEW o \in Ids, NEW p \in Planners, ~Stuck(o), ~Spent(o, p), Spent(o, p)'
  PROVE  \E x \in running : x.cell = <<o, p>> /\ (Plan(x) \/ PlanComplete(x))
<1> DEFINE c == <<o, p>>
           Goal == \E x \in running : x.cell = c /\ (Plan(x) \/ PlanComplete(x))
<1> SUFFICES Goal
  OBVIOUS
<1>1. c \in Cells /\ p \in Tasks
  OBVIOUS
<1>2. CASE \E x \in running' : x.cell = c /\ x.answer = "validated"
  BY <1>2, ExecutionMoves DEF Spent
<1>3. ASSUME task'[c] = "DONE" PROVE Goal
  <2> SUFFICES FALSE
    OBVIOUS
  <2>1. task[c] # "DONE"
    BY DEF Spent
  <2>2. ASSUME NEW w \in Workers, TickStep(w) PROVE FALSE
    <3>1. TaskNow[c] # "DONE"
      BY <1>1, <2>1, RecoveryKeepsDone
    <3>2. ASSUME NEW i \in Ids, NEW t \in Tasks, SkipDuplicate(w, i, t) PROVE FALSE
      <4>1. CASE <<i, t>> = c
        <5>1. PICK u \in Members(order[o]) \ {p} : Key[u] = Key[p]
          BY <3>2, <4>1 DEF SkipDuplicate, Duplicate
        <5>2. u \in Tasks
          BY DEF TypeOK, FileOK, Members
        <5> QED
          BY <5>1, <5>2 DEF CycleShape
      <4>2. CASE <<i, t>> # c
        BY <1>1, <1>3, <3>1, <3>2, <4>2 DEF SkipDuplicate, TaskNow
      <4> QED
        BY <4>1, <4>2
    <3>3. ASSUME NEW i \in Ids, NEW t \in Tasks, Claim(w, i, t) \/ AskHuman(w, i, t) PROVE FALSE
      BY <1>1, <1>3, <3>1, <3>3 DEF Claim, AskHuman, TaskNow
    <3>4. task' # TaskNow
      BY <1>3, <3>1
    <3> QED
      BY <2>2, <3>2, <3>3, <3>4 DEF TickStep, Close, OnlyRecover
  <2>3. ASSUME NEW x \in running, Validated(x) PROVE FALSE
    <3>1. CASE x.cell = c
      <4>1. x.answer = "validated"
        BY <2>3, <3>1 DEF Validated, Reports, Answered
      <4> QED
        BY <3>1, <4>1 DEF Spent
    <3>2. CASE x.cell # c
      BY <1>1, <1>3, <2>1, <2>3, <3>2 DEF Validated, Reports, TypeOK, FileOK
    <3> QED
      BY <3>1, <3>2
  <2>4. ASSUME NEW x \in running, Retry(x) \/ Block(x) PROVE FALSE
    BY <1>1, <1>3, <2>1, <2>4 DEF Retry, Block, Reports, TypeOK, FileOK
  <2>5. ASSUME NEW x \in running, Plan(x) PROVE FALSE
    BY <1>1, <1>3, <2>1, <2>5, PlanKeeps DEF TaskStates
  <2>6. ASSUME NEW i \in Ids, Submit(i) PROVE FALSE
    BY <1>1, <1>3, <2>1, <2>6, SubmitKeeps DEF TaskStates
  <2>7. ASSUME NEW i \in Ids, NEW t \in Tasks, NEW to \in {"PENDING", "DONE"}, Resume(i, t, to)
        PROVE  FALSE
    <3>1. i = o /\ t = p /\ to = "DONE"
      BY <1>1, <1>3, <2>1, <2>7 DEF Resume, TypeOK, FileOK
    <3>2. status[o] = "NEEDS_HUMAN" /\ task[c] \in Resumable
      BY <2>7, <3>1 DEF Resume, Resumable
    <3>3. PICK h \in Human : task[<<o, h>>] \in Resumable
      BY <3>2 DEF HumanAsked
    <3>4. h = p
      BY <3>2, <3>3 DEF Stuck
    <3> QED
      BY <3>4 DEF CycleShape
  <2>8. task' # task
    BY <1>3, <2>1
  <2>9. ASSUME NEW x \in running, AnswerStep(x) PROVE FALSE
    BY <2>3, <2>4, <2>5, <2>8, <2>9 DEF AnswerStep, PlanComplete, PlanBusy, Discard, Lose
  <2>10. ~\E i \in Ids, t \in Tasks, to \in {"PENDING", "DONE"} : Resume(i, t, to)
    BY <2>7
  <2>11. ~Time /\ ~SetKillSwitch /\ ~\E w \in Workers : Start(w) \/ Crash(w)
    BY <2>8 DEF Time, LeaseLapses, BackoffEnds, LockLapses, SetKillSwitch, Start, Crash
  <2> QED
    BY <2>2, <2>6, <2>9, <2>10, <2>11 DEF Next, Request
<1> QED
  BY <1>2, <1>3 DEF Spent

\* While the next stage is not spawned, its planner is yet to come.
LEMMA ContinuesStep ==
  ASSUME TypeOK, Listed, Latest, DependenciesHeld, CycleShape, Begun, StagesInOrder, HumanAsked,
         Next, NEW o \in Ids, ~Stuck(o), Continues(o)
  PROVE  Continues(o)'
<1> SUFFICES ASSUME NEW f \in DOMAIN Stages, NextStage(o, f)', Stages[f] \notin Members(order'[o])
             PROVE  ToCome(o, f)'
  BY DEF Continues
<1>1. /\ f \in 1..Len(Stages) /\ f \in Nat
      /\ f # 1 => /\ f - 1 \in DOMAIN PlannerAfter /\ f - 1 \in DOMAIN Stages
                   /\ PlannerAfter[f - 1] \in Planners
                   /\ Stages[f - 1] \in DependsOn[PlannerAfter[f - 1]]
  <2>1. f \in 1..Len(Stages) /\ Len(Stages) \in Nat
    OBVIOUS
  <2>2. f # 1 => f - 1 \in 1..(Len(Stages) - 1) /\ f - 1 \in DOMAIN Stages
    BY <2>1
  <2> QED
    BY <2>1, <2>2 DEF CycleShape, Members
<1>2. \A m \in 1..(f - 1) : m \in DOMAIN Stages /\ StageDone(o, m)'
  BY <1>1 DEF NextStage
<1>3. ~StageDone(o, f)
  BY StageDoneStays DEF NextStage
<1>4. CASE Submit(o)
  <2>1. \A t \in Tasks : task'[<<o, t>>] # "DONE"
    <3>1. ASSUME NEW t \in Tasks PROVE task'[<<o, t>>] \in {None, "PENDING"}
      BY <1>4, SubmittedFresh, SubmitKeeps
    <3> QED
      BY <3>1 DEF TaskStates
  <2>2. \A p \in Planners : ~Spent(o, p)'
    BY <1>4, <2>1, SubmittedFresh DEF Spent
  <2>3. f = 1
    <3>1. f # 1 => 1 \in 1..(f - 1)
      BY <1>1
    <3>2. f # 1 => 1 \in DOMAIN Stages /\ StageDone(o, 1)'
      BY <1>2, <3>1
    <3>3. 1 \in DOMAIN Stages => Stages[1] \in Tasks
      OBVIOUS
    <3> QED
      BY <2>1, <3>2, <3>3 DEF StageDone
  <2> QED
    BY <2>2, <2>3 DEF ToCome
<1>5. CASE ~Submit(o) /\ \A m \in 1..(f - 1) : StageDone(o, m)
  <2>1. NextStage(o, f) /\ Stages[f] \notin Members(order[o])
    BY <1>3, <1>5, OrderKeeps DEF NextStage
  <2>2. ToCome(o, f)
    BY <2>1 DEF Continues
  <2>3. ASSUME NEW p \in Planners, ~Spent(o, p) PROVE ~Spent(o, p)'
    <3> SUFFICES ASSUME Spent(o, p)' PROVE FALSE
      OBVIOUS
    <3>1. PICK x \in running : x.cell = <<o, p>> /\ (Plan(x) \/ PlanComplete(x))
      BY <2>3, SpentByPlanning
    <3>2. CASE Plan(x)
      <4>1. PICK k \in DOMAIN Stages : NextStage(o, k) /\ Stages[k] \in Members(order'[o])
        BY <3>1, <3>2, PlanOrder
      <4>2. k \in Nat /\ f \in Nat /\ ~(k < f) /\ ~(f < k)
        <5>1. k \in 1..Len(Stages) /\ f \in 1..Len(Stages)
          OBVIOUS
        <5>2. k < f => k \in 1..(f - 1)
          BY <5>1
        <5>3. f < k => f \in 1..(k - 1)
          BY <5>1
        <5> QED
          BY <2>1, <4>1, <5>1, <5>2, <5>3 DEF NextStage
      <4> QED
        BY <4>1, <4>2
    <3>3. CASE PlanComplete(x)
      BY <1>3, <3>1, <3>3 DEF PlanComplete, CycleDone
    <3> QED
      BY <3>1, <3>2, <3>3
  <2> QED
    BY <1>1, <1>5, <2>2, <2>3, OrderKeeps DEF ToCome
\* The stage before f is the one that has just been done.
<1>6. CASE ~Submit(o) /\ ~\A m \in 1..(f - 1) : StageDone(o, m)
  <2>1. f # 1 /\ f - 1 \in DOMAIN Stages
    BY <1>1, <1>6
  <2> DEFINE e == f - 1
             p == PlannerAfter[e]
  <2>2. e \in DOMAIN Stages /\ e \in DOMAIN PlannerAfter /\ p \in Planners /\ p \in Tasks
        /\ Stages[e] \in DependsOn[p] /\ Stages[e] \in Tasks
    BY <1>1, <2>1
  <2>3. e \in 1..(f - 1) /\ \A m \in 1..(f - 1) : m = e \/ m \in 1..(e - 1)
    BY <1>1, <2>1
  <2>4. StageDone(o, e)'
    BY <1>2, <2>3
  <2> HIDE DEF e, p
  <2>5. Stages[e] \in Members(order[o])
    <3>1. task[<<o, Stages[e]>>] # None
      BY <2>2, <2>4, TaskMoves DEF StageDone, TaskStates, Resumable
    <3> QED
      BY <2>2, <3>1 DEF Listed
  <2>6. ~StageDone(o, e)
    BY <1>6, <2>2, <2>3, <2>5 DEF StagesInOrder
  <2>7. p \in Members(order'[o])
    BY <1>6, <2>2, <2>5, OrderKeeps DEF StagesInOrder, p
  <2>8. ~DependenciesMet(o, p)
    BY <2>2, <2>6 DEF DependenciesMet, StageDone
  <2>9. task'[<<o, p>>] # "DONE"
    <3>1. task[<<o, p>>] \in {None, "PENDING"}
      BY <2>2, <2>8 DEF Begun
    <3> QED
      BY <2>2, <2>8, <3>1, TaskMoves DEF TaskStates, Resumable
  <2>10. \A x \in running' : x.cell # <<o, p>>
    BY <2>8, ExecutionMoves
  <2>11. ~Spent(o, p)'
    BY <2>9, <2>10 DEF Spent
  <2> QED
    BY <2>1, <2>7, <2>11 DEF ToCome, e, p
<1> QED
  BY <1>4, <1>5, <1>6

\* Nothing is left of an objective that is done, and no planner finds a stage to spawn.
LEMMA DoneStep ==
  ASSUME TypeOK, Listed, Latest, CycleShape, DoneObjectiveComplete, Next,
         \A o \in Ids : Continues(o) \/ Stuck(o)
  PROVE  DoneObjectiveComplete'
<1> SUFFICES ASSUME NEW o \in Ids, status'[o] = "DONE" PROVE AllDone(o)'
  BY DEF DoneObjectiveComplete
<1>1. AllDone(o)
  <2>1. StatusMove(o)
    BY StatusMoves
  <2> QED
    BY <2>1 DEF StatusMove, DoneObjectiveComplete, Resumable
<1>2. Members(order[o]) \subseteq Tasks
  BY DEF TypeOK, FileOK, Members
<1>3. CASE order'[o] = order[o]
  BY <1>1, <1>2, <1>3, DoneStays DEF AllDone
<1>4. ~Submit(o)
  BY DEF Submit, TypeOK, FileOK
<1>5. ASSUME NEW x \in running, x.cell[1] = o, Plan(x) PROVE FALSE
  <2>1. PICK k \in DOMAIN Stages : NextStage(o, k)
    BY <1>5 DEF Plan
  <2>2. x.cell[2] \in Planners /\ x.cell[2] \in Members(order[o]) /\ x.cell = <<o, x.cell[2]>>
    BY <1>5, RunningCells DEF Plan, Latest, Listed
  <2>3. task[<<o, x.cell[2]>>] = "DONE"
    BY <1>1, <2>2 DEF AllDone
  <2>4. ~Stuck(o)
    BY <1>1 DEF Stuck, AllDone, Listed, Resumable, TaskStates
  <2>5. Stages[k] \notin Members(order[o])
    BY <1>1, <2>1 DEF NextStage, StageDone, AllDone
  <2>6. ToCome(o, k)
    BY <2>1, <2>4, <2>5 DEF Continues
  <2>7. CASE k = 1
    BY <2>2, <2>3, <2>6, <2>7 DEF ToCome, Spent
  <2>8. CASE k # 1
    BY <1>1, <2>6, <2>8 DEF ToCome, Spent, AllDone
  <2> QED
    BY <2>7, <2>8
<1> QED
  BY <1>3, <1>4, <1>5, OrderMoves

LEMMA CycleStep ==
  ASSUME TypeOK, Listed, Latest, DependenciesHeld, CycleShape, CycleInv, Next PROVE CycleInv'
<1>1. Begun' /\ StagesInOrder' /\ HumanAsked' /\ DoneObjectiveComplete'
  BY BegunStep, StagesStep, HumanStep, DoneStep DEF CycleInv
<1>2. \A o \in Ids : Continues(o)' \/ Stuck(o)'
  BY ContinuesStep, StuckStays DEF CycleInv
<1> QED
  BY <1>1, <1>2 DEF CycleInv

-----------------------------------------------------------------------------
LEMMA Step == ASSUME IInv, [Next]_vars PROVE IInv'
<1>1. CASE UNCHANGED vars
  <2>1. TypeOK'
    BY <1>1 DEF vars, IInv, TypeOK, FileOK, TimeOK, ProcessesOK, EventsOK
  <2>2. /\ DependenciesHeld' /\ AttemptsExplained' /\ SomethingLeft'
        /\ Latest' /\ OverdueRuns' /\ Listed'
    BY <1>1 DEF vars, IInv, DependenciesHeld, AttemptsExplained, SomethingLeft, Latest,
                OverdueRuns, Listed, Excuses, MayRunAgain, InFlight
  <2>3. LeaseExcludes' /\ LapsesExplain'
    BY <1>1 DEF vars, IInv, LeaseExcludes, LapsesExplain, Executing, Unheld, InFlight
  <2>4. CycleInv => CycleInv'
    <3>1. UNCHANGED <<task, order, status, running>>
      BY <1>1 DEF vars
    <3>2. Begun => Begun'
      BY <3>1 DEF Begun, DependenciesMet
    <3>3. StagesInOrder => StagesInOrder'
      BY <3>1 DEF StagesInOrder, StageDone
    <3>4. HumanAsked => HumanAsked'
      BY <3>1 DEF HumanAsked, Stuck
    <3>5. DoneObjectiveComplete => DoneObjectiveComplete'
      BY <3>1 DEF DoneObjectiveComplete, AllDone
    <3>6. ASSUME NEW o \in Ids PROVE (Continues(o) => Continues(o)') /\ (Stuck(o) => Stuck(o)')
      BY <3>1 DEF Continues, NextStage, StageDone, ToCome, Spent, Stuck
    <3> QED
      BY <3>2, <3>3, <3>4, <3>5, <3>6 DEF CycleInv
  <2> QED
    BY <2>1, <2>2, <2>3, <2>4 DEF IInv
<1>2. CASE Next
  <2>1. TypeOK'
    BY <1>2, TypeStep DEF IInv
  <2>2. CycleShape => CycleInv'
    BY <1>2, CycleStep DEF IInv
  <2> QED
    BY <1>2, <2>1, <2>2, DependenciesStep, AttemptsStep, LatestStep, OverdueStep, ListedStep,
       LeaseStep DEF IInv
<1> QED
  BY <1>1, <1>2

\* The invariant is inductive.
THEOREM RuntimeInductive == Spec => []IInv
<1> QED
  BY InitIInv, Step, PTL DEF Spec

\* A handler runs on finished dependencies only, whatever else is in flight.
THEOREM DependenciesAreDone == Spec => []DependenciesHeld
<1>1. IInv => DependenciesHeld
  BY DEF IInv
<1> QED
  BY <1>1, RuntimeInductive, PTL

\* Every attempt beyond the limit has its reason.
THEOREM AttemptsAreBounded == Spec => []AttemptsExplained
<1>1. IInv => AttemptsExplained
  BY DEF IInv
<1> QED
  BY <1>1, RuntimeInductive, PTL

\* A task is executed once at a time, but for the leases that lapsed under a handler.
THEOREM LeaseIsExclusive == Spec => []LeaseExcludes
<1>1. IInv => LeaseExcludes
  BY DEF IInv
<1> QED
  BY <1>1, RuntimeInductive, PTL

\* With the ids, keys and dependencies planNext gives to the tasks it spawns, no late
\* planner adds a task to an objective that is done.
THEOREM DoneObjectivesStayComplete == ASSUME CycleShape PROVE Spec => []DoneObjectiveComplete
<1>1. IInv => DoneObjectiveComplete
  BY CycleShape DEF IInv, CycleInv
<1> QED
  BY <1>1, RuntimeInductive, PTL

\* No late answer, recovery, operator or planner reopens a task that is done.
THEOREM TaskDoneIsFinal == Spec => DoneIsFinal
<1>1. IInv /\ [Next]_vars => [\A c \in Cells : task[c] = "DONE" => task'[c] = "DONE"]_vars
  BY DoneStays DEF IInv
<1> QED
  BY <1>1, RuntimeInductive, PTL DEF Spec, DoneIsFinal
=============================================================================
