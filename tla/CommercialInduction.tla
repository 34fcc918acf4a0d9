------------------------ MODULE CommercialInduction ------------------------
(***************************************************************************)
(* The inductive invariant of the execution: where each runner is in its   *)
(* plan, the evidence on the volume for what it has sent and verified,     *)
(* what the outcomes that are being stored rest on, and, if no two runners *)
(* ever have the same plan, what each may still send.                      *)
(***************************************************************************)
EXTENDS CommercialExecution

\* The plan of the process start is not also handed off as a job.  The code does not
\* prevent it: what needs it says so.
StartupApart == \A j \in Jobs : PlanOf[j] # StartupPlan

RunningPcs == {"preflight", "validate", "started", "sent", "readback", "complete",
               "failing", "refused"}
OutcomePcs == {"save_state", "save_result", "archive"}

\* Each actor stays inside its own part of the code.
Placed ==
    /\ pc["worker"] \in {"idle", "reserve", "reconcile"} \cup RunningPcs \cup OutcomePcs
    /\ pc["startup"] \in {"boot", "off"} \cup RunningPcs
    /\ pc["startup"] = "boot" => StartupPlan \in Plans
    /\ pc["housekeeping"] \in {"idle"} \cup OutcomePcs

\* An actor that deals with a job knows which one, and what to store about it.
Informed ==
    /\ pc["worker"] # "idle" => entry["worker"] \in Entries
    /\ pc["housekeeping"] # "idle" => entry["housekeeping"] \in Entries
    /\ \A w \in Writers : pc[w] \in {"reconcile", "save_state", "save_result"} =>
           verdict[w] \in Verdicts

\* A runner inside a plan is at one of its changes, and no two are inside the same plan.
InPlan ==
    /\ \A a \in Runners : pc[a] \in RunningPcs =>
           /\ plan[a] \in Plans
           /\ step[a] \in 1..Len(Actions[plan[a]])
    /\ pc["worker"] = "reserve" => plan["worker"] \in Plans
    /\ plan["worker"] # None => \E j \in Jobs : plan["worker"] = PlanOf[j]
    /\ plan["startup"] # None => plan["startup"] = StartupPlan

\* Every request that left has its marker on the volume, and a runner that is about
\* to send one has written it.
Marked ==
    /\ \A p \in Plans : \A c \in Changes :
           sent[<<p, c>>] > 0 => StartedRecord(p, c) \in audit
    /\ \A a \in Runners : pc[a] = "started" => StartedRecord(plan[a], Change(a)) \in audit

\* What a runner still has to send has not been sent by anyone.
Unsent ==
    \A a \in Runners : pc[a] \in RunningPcs => \A i \in 1..Len(Actions[plan[a]]) :
        \/ pc[a] \in {"preflight", "validate", "started"} /\ i >= step[a]
        \/ pc[a] \in {"sent", "readback"} /\ i > step[a]
        => sent[<<plan[a], Actions[plan[a]][i]>>] = 0

\* The worker runs the plan of the job it took, and the changes of the jobs that one
\* waits for are in effect.
Dispatched ==
    pc["worker"] \in {"reserve"} \cup RunningPcs =>
        LET j == entry["worker"].job IN
        /\ plan["worker"] = PlanOf[j]
        /\ \A d \in DependsOn[j] : \A c \in ChangesOf(PlanOf[d]) : Live(c)

\* The changes a runner has left behind, at the end the last one too.
Passed(a) ==
    {i \in 1..Len(Actions[plan[a]]) : i < step[a] \/ (i = step[a] /\ pc[a] = "complete")}

\* They are in effect at the provider and recorded as verified.
PassedVerified ==
    \A a \in Runners : pc[a] \in RunningPcs =>
        /\ pc[a] = "complete" => step[a] = Len(Actions[plan[a]])
        /\ \A i \in Passed(a) :
              /\ Live(Actions[plan[a]][i])
              /\ ChangeRecord("change_verified", Actions[plan[a]][i]) \in audit

\* Nothing is recorded between the worker's checkpoint and the runner's own guard.
CheckpointStands ==
    pc["worker"] = "reserve" => Checkpoint(audit, plan["worker"]) \notin
        {"VERIFIED_COMPLETE", "PROVIDER_BOUNDARY_REACHED", "AMBIGUOUS"}

\* A plan that an older version left in progress is not reserved, and nobody is inside it.
LegacyShut ==
    /\ \A p \in Plans : Recorded(audit, "legacy_progress", p) => ~Recorded(audit, "reserved", p)
    /\ \A a \in Runners : pc[a] \in RunningPcs => ~Recorded(audit, "legacy_progress", plan[a])

\* What the markers that close a plan rest on, and the runner's own memory of the boundary.
ClosedForCause ==
    /\ \A p \in Plans : Recorded(audit, "completed", p) => \A c \in ChangesOf(p) : Live(c)
    /\ \A p \in Plans : Recorded(audit, "ambiguous", p) =>
           ProviderStarted(audit, p) \/ WriteRecorded(audit, p)
    /\ \A a \in Runners : pc[a] \in RunningPcs /\ boundary[a] => ProviderStarted(audit, plan[a])

\* An outcome on its way to the volume is true, and its file leaves the queue last.
Concluded ==
    \A w \in Writers :
        /\ pc[w] = "reconcile" => verdict[w].outcome = "NEEDS_HUMAN"
        /\ pc[w] \in {"save_state", "save_result"} /\ verdict[w].outcome = "DONE" =>
               \A c \in ChangesOf(PlanOf[entry[w].job]) : Live(c)
        /\ pc[w] = "archive" => result[entry[w].job] # None

RecordInv ==
    /\ TypeOK /\ Placed /\ Informed /\ InPlan /\ Marked
    /\ Dispatched /\ PassedVerified /\ ClosedForCause /\ Concluded /\ CheckpointStands /\ LegacyShut
    /\ ArchivedHasResult /\ GuardsPartOnLegacy /\ VerifiedPrefix /\ DoneIsLive

\* While a plan runs nobody closes it.
NotClosed ==
    \A a \in Runners : pc[a] \in RunningPcs =>
        ~Recorded(audit, "completed", plan[a]) /\ ~Recorded(audit, "ambiguous", plan[a])

\* A runner has sent what it has passed, and the change it waits for.
SentInOrder ==
    \A a \in Runners : pc[a] \in RunningPcs => \A i \in 1..Len(Actions[plan[a]]) :
        i \in Passed(a) \/ (i = step[a] /\ pc[a] \in {"sent", "readback"}) =>
            sent[<<plan[a], Actions[plan[a]][i]>>] = 1

\* FAILED_SAFE is on its way to the volume only while nothing of the plan was sent.
SafeIsUnsent ==
    \A w \in Writers :
        pc[w] \in {"save_state", "save_result"} /\ verdict[w].outcome = "FAILED_SAFE" =>
            \A c \in ChangesOf(PlanOf[entry[w].job]) : sent[<<PlanOf[entry[w].job], c>>] = 0

WriteInv == Unsent /\ AtMostOneWrite /\ NotClosed /\ SentInOrder /\ SafeIsUnsent

IInv == RecordInv /\ (StartupApart => WriteInv)
=============================================================================
