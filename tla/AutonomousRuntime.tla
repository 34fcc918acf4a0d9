------------------------- MODULE AutonomousRuntime -------------------------
(***************************************************************************)
(* The autonomous runtime (autonomous-runtime.js, autonomous-runtime-      *)
(* resume.js, runtime-task-spawner.js, autonomous-cycle-planner.js).       *)
(*                                                                         *)
(* Objectives wait in one state file.  Every process ticks on a timer,     *)
(* claims a task of the first active objective under a lease, runs its     *)
(* handler outside the file lock and then records the answer.  Ticks are   *)
(* not awaited, so one process may have several handlers in flight; a      *)
(* lease can lapse under a handler that is still running; a process may    *)
(* die with the lock held; during a deployment two processes overlap.      *)
(***************************************************************************)
EXTENDS Naturals, Sequences, FiniteSets

CONSTANTS
    Ids,           \* objectives
    Tasks,
    Workers,       \* incarnations of the process, each with a worker id of its own
    Template,      \* the tasks an objective is submitted with, in their order
    DependsOn,     \* the tasks a task waits for
    Key,           \* the idempotency key of a task
    Stages,        \* the cycle that planner tasks unfold, in its order
    PlannerAfter,  \* the planner task spawned behind each stage but the last
    Planners,      \* all planner tasks, the one that starts the cycle included
    Human,         \* tasks the autonomy policy does not allow
    MaxAttempts,   \* max_attempts of a task (3 in the code)
    None,
    MaxCrashes,    \* bound: process deaths
    MaxSlow,       \* bound: leases that lapse under a running handler
    MaxBusy,       \* bound: answers lost to a lock that another process holds
    MaxResumes,    \* bound: decisions of the operator on a blocked task
    MaxSwitches    \* bound: uses of the kill switch

Cells == Ids \X Tasks
TaskStates == {"PENDING", "RUNNING", "RETRY_WAIT", "DONE", "NEEDS_HUMAN", "BLOCKED_EXTERNAL"}
Resumable == {"NEEDS_HUMAN", "BLOCKED_EXTERNAL"}
\* READY, RUNNING and RETRY_WAIT of an objective differ for readers only.
ObjectiveStates == {"ACTIVE", "DONE"} \cup Resumable
\* What a handler comes back with: validated, a transient or correctable failure, any other.
Answers == {"validated", "again", "fails"}
Executions == [worker : Workers, cell : Cells, attempt : Nat, answer : Answers \cup {None}]

ASSUME NoneAssumption == None \notin Ids \cup Tasks \cup Workers \cup TaskStates
                                     \cup ObjectiveStates \cup Answers
ASSUME TaskAssumption ==
    /\ Template \in [Ids -> Seq(Tasks)]
    /\ DependsOn \in [Tasks -> SUBSET Tasks]
    /\ DOMAIN Key = Tasks
    /\ Stages \in Seq(Tasks) /\ PlannerAfter \in Seq(Tasks)
    /\ Planners \subseteq Tasks /\ Human \subseteq Tasks
ASSUME BoundAssumption ==
    /\ MaxAttempts \in Nat \ {0}
    /\ MaxCrashes \in Nat /\ MaxSlow \in Nat /\ MaxBusy \in Nat
    /\ MaxResumes \in Nat /\ MaxSwitches \in Nat

VARIABLES
    (* the state file *)
    queue,      \* objectives in the order of their submission
    status,     \* of every objective, None before its submission
    order,      \* the tasks of every objective
    task,       \* the status of every task, None where it is not part of the objective
    attempts,   \* of every task
    lease,      \* the worker that holds a task, or None
    killed,     \* the kill switch
    (* time *)
    overdue,    \* running tasks whose lease has lapsed
    backoff,    \* waiting tasks whose retry is not due yet
    (* the lock directory and the processes *)
    lock,       \* free, left behind, left behind and lapsed, or left without a lease file
    started, alive,
    running,    \* handlers in flight
    (* bounded events *)
    crashes, slow, busy, resumes, switches

file == <<queue, status, order, task, attempts, lease, killed>>
time == <<overdue, backoff>>
processes == <<started, alive, running>>
events == <<crashes, slow, busy, resumes, switches>>
vars == <<file, time, lock, processes, events>>

FileOK ==
    /\ queue \in Seq(Ids)
    /\ status \in [Ids -> ObjectiveStates \cup {None}]
    /\ order \in [Ids -> Seq(Tasks)]
    /\ task \in [Cells -> TaskStates \cup {None}]
    /\ attempts \in [Cells -> Nat]
    /\ lease \in [Cells -> Workers \cup {None}]
    /\ killed \in BOOLEAN
TimeOK ==
    /\ overdue \subseteq Cells /\ backoff \subseteq Cells
    /\ lock \in {"free", "left", "lapsed", "orphan"}
ProcessesOK ==
    /\ started \subseteq Workers /\ alive \subseteq started
    /\ running \subseteq Executions
EventsOK ==
    /\ crashes \in 0..MaxCrashes /\ slow \in 0..MaxSlow /\ busy \in 0..MaxBusy
    /\ resumes \in 0..MaxResumes /\ switches \in 0..MaxSwitches
TypeOK == FileOK /\ TimeOK /\ ProcessesOK /\ EventsOK

-----------------------------------------------------------------------------
(* Reading the state file.                                                 *)

Members(s) == {s[i] : i \in DOMAIN s}

Active(o) == status[o] = "ACTIVE"

\* Variant: whatever is marked running belonged to the process that died.
RecoveredAll == {c \in Cells : Active(c[1]) /\ task[c] = "RUNNING"}

\* Variant: a task that has used up its attempts is not recovered.
RecoveredWithin ==
    {c \in Cells : Active(c[1]) /\ task[c] = "RUNNING" /\ c \in overdue /\ attempts[c] < MaxAttempts}

\* recoverExpiredLeases, which opens every tick: these tasks are pending again.
Recovered == {c \in Cells : Active(c[1]) /\ task[c] = "RUNNING" /\ c \in overdue}

TaskNow == [c \in Cells |-> IF c \in Recovered THEN "PENDING" ELSE task[c]]
LeaseNow == [c \in Cells |-> IF c \in Recovered THEN None ELSE lease[c]]

AtHead(o) ==
    /\ Active(o)
    /\ \E i \in DOMAIN queue : queue[i] = o /\ \A k \in 1..(i - 1) : ~Active(queue[k])

\* Variant: a dependency that has been claimed counts as met.
DependenciesStarted(o, t) == \A d \in DependsOn[t] : d \in Members(order[o]) /\ task[<<o, d>>] \in {"RUNNING", "DONE"}

DependenciesMet(o, t) == \A d \in DependsOn[t] : task[<<o, d>>] = "DONE"

\* selectTask: pending tasks before tasks whose retry is due, each in their order.
Selectable(o) ==
    LET In(S) == {i \in DOMAIN order[o] : TaskNow[<<o, order[o][i]>>] \in S
                                          /\ <<o, order[o][i]>> \notin backoff
                                          /\ DependenciesMet(o, order[o][i])}
    IN  IF In({"PENDING"}) # {} THEN In({"PENDING"}) ELSE In({"RETRY_WAIT"})

Selected(o, t) == \E i \in Selectable(o) : order[o][i] = t /\ \A k \in Selectable(o) : i <= k

Duplicate(o, t) ==
    \E u \in Members(order[o]) \ {t} : Key[u] = Key[t] /\ task[<<o, u>>] = "DONE"

AllDone(o) == \A t \in Members(order[o]) : task[<<o, t>>] = "DONE"

\* planNext: the first stage that is not done, and the planner behind it.
StageDone(o, k) == task[<<o, Stages[k]>>] = "DONE"
NextStage(o, k) == ~StageDone(o, k) /\ \A m \in 1..(k - 1) : StageDone(o, m)
CycleDone(o) == \A k \in DOMAIN Stages : StageDone(o, k)

\* spawnTasks: only what the objective does not have yet, by id or by key.
IfNew(o, t) == IF \A u \in Members(order[o]) : u # t /\ Key[u] # Key[t] THEN <<t>> ELSE <<>>
Spawned(o, k) == IfNew(o, Stages[k]) \o (IF k \in DOMAIN PlannerAfter
                                          THEN IfNew(o, PlannerAfter[k]) ELSE <<>>)

-----------------------------------------------------------------------------
(* The lock, and who may run.                                              *)

\* A section that finds a lapsed lease takes the lock over.
Locks == lock \in {"free", "lapsed"} /\ lock' = "free"

\* A section that finds the lock held gives up at once.
Busy(w) ==
    /\ \/ lock \in {"left", "orphan"} /\ UNCHANGED busy
       \/ busy < MaxBusy /\ alive # {w} /\ busy' = busy + 1
    /\ UNCHANGED lock

\* From the spawning of tasks to the answer that follows it a process does not yield.
Turn(w) == w \in alive /\ \A x \in running : x.worker = w => x.answer = None

Init ==
    /\ queue = <<>>
    /\ status = [o \in Ids |-> None]
    /\ order = [o \in Ids |-> <<>>]
    /\ task = [c \in Cells |-> None]
    /\ attempts = [c \in Cells |-> 0]
    /\ lease = [c \in Cells |-> None]
    /\ killed = FALSE
    /\ overdue = {} /\ backoff = {}
    /\ lock = "free"
    /\ started = {} /\ alive = {} /\ running = {}
    /\ crashes = 0 /\ slow = 0 /\ busy = 0 /\ resumes = 0 /\ switches = 0

\* start() recovers and ticks at once; that is the first tick of w.
Start(w) ==
    /\ w \notin started
    /\ started' = started \cup {w} /\ alive' = alive \cup {w}
    /\ UNCHANGED <<file, time, lock, running, events>>

\* Inside a locked section the process leaves the lock behind, before its lease
\* file is written or after; the state file is replaced by one rename or not at all.
Crash(w) ==
    /\ crashes < MaxCrashes
    /\ w \in alive
    /\ crashes' = crashes + 1
    /\ alive' = alive \ {w}
    /\ running' = {x \in running : x.worker # w}
    /\ lock' \in {lock} \cup (IF lock = "free" THEN {"left", "orphan"} ELSE {})
    /\ UNCHANGED <<file, time, started, slow, busy, resumes, switches>>

-----------------------------------------------------------------------------
(* Requests.                                                               *)

\* An objective that is not in the queue.  The code does not ask: an id submitted again
\* becomes a second objective of that id, which the model names apart only.
Submit(o) ==
    /\ \E w \in alive : Turn(w)
    /\ status[o] = None
    /\ Locks
    /\ queue' = Append(queue, o)
    /\ status' = [status EXCEPT ![o] = "ACTIVE"]
    /\ order' = [order EXCEPT ![o] = Template[o]]
    /\ task' = [c \in Cells |-> IF c[1] = o /\ c[2] \in Members(Template[o])
                                THEN "PENDING" ELSE task[c]]
    /\ UNCHANGED <<attempts, lease, killed, time, processes, events>>

SetKillSwitch ==
    /\ \E w \in alive : Turn(w)
    /\ switches < MaxSwitches
    /\ switches' = switches + 1
    /\ Locks
    /\ killed' = ~killed
    /\ UNCHANGED <<queue, status, order, task, attempts, lease, time, processes,
                   crashes, slow, busy, resumes>>

\* resumeObjective: a blocked objective can only be retried.
Resume(o, t, to) ==
    /\ \E w \in alive : Turn(w)
    /\ resumes < MaxResumes
    /\ resumes' = resumes + 1
    /\ Locks
    /\ status[o] \in Resumable
    /\ task[<<o, t>>] \in Resumable
    /\ to \in (IF status[o] = "BLOCKED_EXTERNAL" THEN {"PENDING"} ELSE {"PENDING", "DONE"})
    /\ task' = [task EXCEPT ![<<o, t>>] = to]
    /\ lease' = [lease EXCEPT ![<<o, t>>] = None]
    /\ status' = [status EXCEPT ![o] = "ACTIVE"]
    /\ UNCHANGED <<queue, order, attempts, killed, time, processes, crashes, slow, busy, switches>>

-----------------------------------------------------------------------------
(* A tick.  Every alternative also stores what was recovered.              *)

Ticks(w) ==
    /\ Turn(w)
    /\ Locks
    /\ overdue' = overdue \ Recovered
    /\ UNCHANGED <<queue, order, killed, backoff, started, alive, events>>

Picks(w, o, t) == Ticks(w) /\ ~killed /\ AtHead(o) /\ Selected(o, t)

Claim(w, o, t) ==
    /\ Picks(w, o, t)
    /\ t \notin Human /\ ~Duplicate(o, t)
    /\ task' = [TaskNow EXCEPT ![<<o, t>>] = "RUNNING"]
    /\ attempts' = [attempts EXCEPT ![<<o, t>>] = @ + 1]
    /\ lease' = [LeaseNow EXCEPT ![<<o, t>>] = w]
    /\ running' = running \cup {[worker |-> w, cell |-> <<o, t>>,
                                 attempt |-> attempts[<<o, t>>] + 1, answer |-> None]}
    /\ UNCHANGED status

AskHuman(w, o, t) ==
    /\ Picks(w, o, t)
    /\ t \in Human
    /\ task' = [TaskNow EXCEPT ![<<o, t>>] = "NEEDS_HUMAN"]
    /\ status' = [status EXCEPT ![o] = "NEEDS_HUMAN"]
    /\ lease' = LeaseNow
    /\ UNCHANGED <<attempts, running>>

SkipDuplicate(w, o, t) ==
    /\ Picks(w, o, t)
    /\ t \notin Human /\ Duplicate(o, t)
    /\ task' = [TaskNow EXCEPT ![<<o, t>>] = "DONE"]
    /\ lease' = LeaseNow
    /\ UNCHANGED <<status, attempts, running>>

\* Variant: an objective without a task to claim is finished.
CloseIdle(w, o) ==
    /\ Ticks(w)
    /\ ~killed /\ AtHead(o) /\ Selectable(o) = {}
    /\ \A t \in Members(order[o]) : task[<<o, t>>] \notin {"PENDING", "RETRY_WAIT"}
    /\ status' = [status EXCEPT ![o] = "DONE"]
    /\ task' = TaskNow /\ lease' = LeaseNow
    /\ UNCHANGED <<attempts, running>>

Close(w, o) ==
    /\ Ticks(w)
    /\ ~killed /\ AtHead(o) /\ Selectable(o) = {}
    /\ AllDone(o)
    /\ status' = [status EXCEPT ![o] = "DONE"]
    /\ task' = TaskNow /\ lease' = LeaseNow
    /\ UNCHANGED <<attempts, running>>

OnlyRecover(w) ==
    /\ Ticks(w)
    /\ Recovered # {}
    /\ killed \/ \A o \in Ids : AtHead(o) => Selectable(o) = {} /\ ~AllDone(o)
    /\ task' = TaskNow /\ lease' = LeaseNow
    /\ UNCHANGED <<status, attempts, running>>

-----------------------------------------------------------------------------
(* A handler, and the recording of its answer.                             *)

Comes(x, r) == running' = (running \ {x}) \cup {[x EXCEPT !.answer = r]}

\* The handler of a planner task spawns the next tasks before it answers.
Plan(x) ==
    /\ Turn(x.worker)
    /\ x.cell[2] \in Planners
    /\ LET o == x.cell[1] IN \E k \in DOMAIN Stages :
       /\ NextStage(o, k)
       /\ Locks
       /\ order' = [order EXCEPT ![o] = @ \o Spawned(o, k)]
       /\ task' = [c \in Cells |-> IF c[1] = o /\ c[2] \in Members(Spawned(o, k))
                                   THEN "PENDING" ELSE task[c]]
    /\ Comes(x, "validated")
    /\ UNCHANGED <<queue, status, attempts, lease, killed, time, started, alive, events>>

PlanComplete(x) ==
    /\ Turn(x.worker)
    /\ x.cell[2] \in Planners /\ CycleDone(x.cell[1])
    /\ Comes(x, "validated")
    /\ UNCHANGED <<file, time, lock, started, alive, events>>

\* spawnTasks throws, and no API failure class knows its message.
PlanBusy(x) ==
    /\ Turn(x.worker)
    /\ x.cell[2] \in Planners /\ ~CycleDone(x.cell[1])
    /\ Busy(x.worker)
    /\ Comes(x, "fails")
    /\ UNCHANGED <<file, time, started, alive, crashes, slow, resumes, switches>>

Answered(x, r) ==
    IF x.answer # None THEN r = x.answer
    ELSE Turn(x.worker) /\ x.cell[2] \notin Planners

\* Variant: an answer is recorded whatever became of the task in the meantime.
AcceptsAny(x) == TRUE

Accepts(x) == task[x.cell] = "RUNNING" /\ lease[x.cell] = x.worker

Records(x) ==
    /\ Locks
    /\ running' = running \ {x}
    /\ UNCHANGED <<queue, order, attempts, killed, started, alive, events>>

Reports(x, r, to, obj) ==
    /\ Answered(x, r)
    /\ Records(x)
    /\ Accepts(x)
    /\ task' = [task EXCEPT ![x.cell] = to]
    /\ lease' = [lease EXCEPT ![x.cell] = None]
    /\ overdue' = overdue \ {x.cell}
    /\ backoff' = IF to = "RETRY_WAIT" THEN backoff \cup {x.cell} ELSE backoff
    /\ status' = [status EXCEPT ![x.cell[1]] = obj]

Validated(x) == Reports(x, "validated", "DONE", "ACTIVE")

\* Variant: a failing task is tried again without a limit.
RetryAlways(x) == Reports(x, "again", "RETRY_WAIT", "ACTIVE")

Retry(x) == attempts[x.cell] < MaxAttempts /\ Reports(x, "again", "RETRY_WAIT", "ACTIVE")

Block(x) ==
    \/ Reports(x, "fails", "BLOCKED_EXTERNAL", "BLOCKED_EXTERNAL")
    \/ /\ attempts[x.cell] >= MaxAttempts
       /\ Reports(x, "again", "BLOCKED_EXTERNAL", "BLOCKED_EXTERNAL")

\* The task was recovered or closed in the meantime: the answer is dropped.
Discard(x) ==
    /\ \E r \in Answers : Answered(x, r)
    /\ Records(x)
    /\ ~Accepts(x)
    /\ UNCHANGED <<status, task, lease, time>>

\* withLockedState found the lock held; nobody looks at what it returns.
Lose(x) ==
    /\ \E r \in Answers : Answered(x, r)
    /\ Busy(x.worker)
    /\ running' = running \ {x}
    /\ UNCHANGED <<file, time, started, alive, crashes, slow, resumes, switches>>

-----------------------------------------------------------------------------
(* Time.                                                                   *)

\* The execution a task is claimed for has not come to its end.
InFlight(c) == \E x \in running : x.cell = c /\ x.attempt = attempts[c]

LeaseLapses(c) ==
    /\ task[c] = "RUNNING" /\ c \notin overdue
    /\ overdue' = overdue \cup {c}
    /\ \/ ~InFlight(c) /\ UNCHANGED slow
       \/ InFlight(c) /\ slow < MaxSlow /\ slow' = slow + 1
    /\ UNCHANGED <<file, backoff, lock, processes, crashes, busy, resumes, switches>>

BackoffEnds(c) ==
    /\ c \in backoff
    /\ backoff' = backoff \ {c}
    /\ UNCHANGED <<file, overdue, lock, processes, events>>

LockLapses ==
    /\ lock = "left"
    /\ lock' = "lapsed"
    /\ UNCHANGED <<file, time, processes, events>>

-----------------------------------------------------------------------------
TickStep(w) ==
    \/ \E o \in Ids : \/ \E t \in Tasks : Claim(w, o, t) \/ AskHuman(w, o, t) \/ SkipDuplicate(w, o, t)
                      \/ Close(w, o)
    \/ OnlyRecover(w)

AnswerStep(x) ==
    \/ Plan(x) \/ PlanComplete(x) \/ PlanBusy(x)
    \/ Validated(x) \/ Retry(x) \/ Block(x) \/ Discard(x) \/ Lose(x)

Request ==
    \/ \E o \in Ids : \/ Submit(o)
                      \/ \E t \in Tasks : \E to \in {"PENDING", "DONE"} : Resume(o, t, to)
    \/ SetKillSwitch

Time == (\E c \in Cells : LeaseLapses(c) \/ BackoffEnds(c)) \/ LockLapses

Next ==
    \/ \E w \in Workers : Start(w) \/ Crash(w) \/ TickStep(w)
    \/ \E x \in running : AnswerStep(x)
    \/ Request
    \/ Time

Spec == Init /\ [][Next]_vars

\* The platform restarts a dead process, timers fire, handlers return, time passes.
\* Nothing makes a lease lapse under a handler that is still running.
Fairness ==
    /\ WF_vars(alive = {} /\ \E w \in Workers : Start(w))
    /\ \A w \in Workers : /\ WF_vars(TickStep(w))
                          /\ WF_vars(\E x \in running : x.worker = w /\ AnswerStep(x))
    /\ \A c \in Cells : WF_vars(~InFlight(c) /\ LeaseLapses(c)) /\ WF_vars(BackoffEnds(c))
    /\ WF_vars(LockLapses)

FairSpec == Spec /\ Fairness

-----------------------------------------------------------------------------
(* Properties.                                                             *)

\* A handler runs only while every dependency of its task is done, although several
\* handlers are in flight and tasks are recovered, retried and resumed around it.
DependenciesHeld ==
    \A x \in running : \A d \in DependsOn[x.cell[2]] : task[<<x.cell[1], d>>] = "DONE"

\* A task that is done stays done: the late answer of an execution whose lease lapsed, a
\* recovery, an operator or a planner that runs again never reopens it.
DoneIsFinal == [][\A c \in Cells : task[c] = "DONE" => task'[c] = "DONE"]_vars

\* An objective that is done has no task left to do, not even one that a late planner
\* execution spawned behind its back.
DoneObjectiveComplete == \A o \in Ids : status[o] = "DONE" => AllDone(o)

\* "Task lease prevents two workers executing same task": a second execution of a task is
\* in flight only for each lease that lapsed under a running handler.
Executing(c) == {x \in running : x.cell = c}
LeaseExcludes == \A c \in Cells : Cardinality(Executing(c)) <= 1 + slow

\* "Retries are bounded": beyond MaxAttempts a task is executed again only for a lapsed
\* lease, a process death, a lost answer or a decision of the operator.
Excuses == slow + crashes + busy + resumes
AttemptsExplained == \A c \in Cells : attempts[c] <= MaxAttempts + Excuses

\* Why: a task that can be claimed again, because it waits, its lease has lapsed, or its
\* answer is lost or about to be refused by the lock, still has an attempt or an excuse.
MayRunAgain(c) ==
    \/ task[c] \in {None, "PENDING", "RETRY_WAIT"}
    \/ task[c] = "RUNNING" /\ ~InFlight(c)
    \/ c \in overdue
    \/ lock \in {"left", "orphan"}
SomethingLeft == \A c \in Cells : MayRunAgain(c) => attempts[c] < MaxAttempts + Excuses

\* The execution with the latest attempt holds the lease, only running tasks are overdue,
\* and every task of the state file is in the order of an objective that was submitted.
Latest ==
    \A x \in running :
        /\ task[x.cell] # None
        /\ x.attempt <= attempts[x.cell]
        /\ x.attempt = attempts[x.cell] /\ task[x.cell] = "RUNNING" => lease[x.cell] = x.worker
OverdueRuns == \A c \in overdue : task[c] = "RUNNING"
Listed ==
    \A o \in Ids, t \in Tasks :
        task[<<o, t>>] # None => status[o] # None /\ t \in Members(order[o])

\* Why LeaseExcludes: while nobody holds a task, the executions still in flight are all
\* ones whose lease lapsed under them; a claim adds one.
Unheld(c) == task[c] # "RUNNING" \/ c \in overdue \/ ~InFlight(c)
LapsesExplain ==
    IsFiniteSet(running) /\ \A c \in Cells : Unheld(c) => Cardinality(Executing(c)) <= slow

(* Why DoneObjectiveComplete: the cycle never loses its next planner.       *)

\* What planNext writes into the tasks it spawns: the planner behind a stage waits for
\* it, nothing else has their ids or keys, and the policy allows a planner to run.
CycleShape ==
    /\ \A k \in 1..(Len(Stages) - 1) :
           k \in DOMAIN PlannerAfter /\ Stages[k] \in DependsOn[PlannerAfter[k]]
    /\ \A i, k \in DOMAIN Stages : Stages[i] = Stages[k] => i = k
    /\ Members(PlannerAfter) \subseteq Planners /\ Members(Stages) \cap Planners = {}
    /\ Planners \cap Human = {}
    /\ \A o \in Ids : Members(Template[o]) \cap (Members(Stages) \cup Members(PlannerAfter)) = {}
    /\ \A t \in Members(Stages) \cup Planners, u \in Tasks : Key[t] = Key[u] => t = u

\* Whatever was ever selected has its dependencies done.
Begun ==
    \A o \in Ids, t \in Tasks :
        task[<<o, t>>] \notin {None, "PENDING"} => DependenciesMet(o, t)

\* Stages are spawned in their order, each together with the planner behind it.
StagesInOrder ==
    \A o \in Ids, k \in DOMAIN Stages :
        Stages[k] \in Members(order[o]) =>
            /\ \A m \in 1..(k - 1) : StageDone(o, m)
            /\ k \in DOMAIN PlannerAfter => PlannerAfter[k] \in Members(order[o])

\* More tasks wait for a decision than the status of the objective lets be taken: one of
\* them waits for ever, and the objective is never done.
Stuck(o) ==
    \E t \in Tasks :
        /\ task[<<o, t>>] \in Resumable
        /\ status[o] \notin Resumable \/ \E u \in Tasks \ {t} : task[<<o, u>>] \in Resumable

\* An operator may complete a task only where a task of the policy waits for a person.
HumanAsked ==
    \A o \in Ids : status[o] = "NEEDS_HUMAN" =>
        Stuck(o) \/ \E t \in Human : task[<<o, t>>] \in Resumable

\* While the next stage is not spawned, a planner that will spawn it is yet to come.
Spent(o, p) ==
    \/ task[<<o, p>>] = "DONE"
    \/ \E x \in running : x.cell = <<o, p>> /\ x.answer = "validated"
ToCome(o, f) ==
    IF f = 1 THEN \A p \in Planners : ~Spent(o, p)
    ELSE PlannerAfter[f - 1] \in Members(order[o]) /\ ~Spent(o, PlannerAfter[f - 1])
Continues(o) ==
    \A f \in DOMAIN Stages :
        NextStage(o, f) /\ Stages[f] \notin Members(order[o]) => ToCome(o, f)

CycleInv ==
    /\ Begun /\ StagesInOrder /\ HumanAsked /\ DoneObjectiveComplete
    /\ \A o \in Ids : Continues(o) \/ Stuck(o)

IInv ==
    /\ TypeOK /\ DependenciesHeld
    /\ AttemptsExplained /\ SomethingLeft /\ Latest /\ OverdueRuns /\ Listed
    /\ LeaseExcludes /\ LapsesExplain /\ (CycleShape => CycleInv)

\* An objective is stuck when the lock has no lease, or when a task of an active
\* objective waits for a person who is refused because the objective is active.
Blocked(o) == \E t \in Members(order[o]) : task[<<o, t>>] \in Resumable
Wedged == lock = "orphan" \/ \E o \in Ids : Active(o) /\ Blocked(o)

\* Every objective comes to an end or to a decision, unless the runtime is stopped or stuck.
QueueDrains == \A o \in Ids : Active(o) ~> (~Active(o) \/ killed \/ Wedged)

\* NEEDS_HUMAN and BLOCKED_EXTERNAL are terminal (TERMINAL, and the interruption states of
\* the work loop): an objective with a blocked task is not active.
BlockedIsTerminal == \A o \in Ids : Active(o) => ~Blocked(o)
=============================================================================
