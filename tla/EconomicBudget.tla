--------------------------- MODULE EconomicBudget ---------------------------
(***************************************************************************)
(* Scheduled budget changes (google-ads-economic-budget-job.js).           *)
(*                                                                         *)
(* A signed job on the volume moves the daily budget of one campaign from  *)
(* a known value to a target, once its execute_at has come.  One worker    *)
(* handles the jobs in the order of execute_at; between its calls to the   *)
(* provider the budget may be edited by people, an answer may be lost, the *)
(* authorization may run out and the process may die.  What survives is    *)
(* the state and the result of each job.  Amounts are whole euros.         *)
(***************************************************************************)
EXTENDS Naturals

CONSTANTS
    Jobs,
    Resources,           \* budget resources a campaign can be attached to
    Amounts,             \* daily budgets that occur
    PlanOf,              \* the plan of a job: resource, before, target, increment, cap
    Rank,                \* the order of execute_at, ties broken by job id
    AuthorityBudget,     \* 8 in the code
    AuthorityIncrement,  \* 4 in the code
    None,
    MaxSubmits,          \* bound: handoffs
    MaxCrashes,          \* bound: process deaths
    MaxEdits,            \* bound: changes of the campaign by people
    MaxCorrupt           \* bound: job files that become unreadable

PlanRecords == [resource : Resources, before : Amounts, target : Amounts,
                increment : Amounts, cap : Amounts]

Results == {"DONE", "EXPIRED", "FAILED_SAFE", "NEEDS_HUMAN", "RECONCILED_DONE"}

ASSUME NoneAssumption == None \notin Jobs \cup Results \cup {"SCHEDULED", "PROVIDER_WRITE_PENDING"}
ASSUME AmountsAssumption == Amounts \subseteq Nat
ASSUME PlanAssumption == PlanOf \in [Jobs -> PlanRecords]
ASSUME RankAssumption ==
    /\ Rank \in [Jobs -> Nat]
    /\ \A i, k \in Jobs : Rank[i] = Rank[k] => i = k
ASSUME AuthorityAssumption == AuthorityBudget \in Nat /\ AuthorityIncrement \in Nat
ASSUME LimitAssumption ==
    MaxSubmits \in Nat /\ MaxCrashes \in Nat /\ MaxEdits \in Nat /\ MaxCorrupt \in Nat

VARIABLES
    (* the volume *)
    incoming, corrupt, jobState, result,
    (* the campaign at the provider *)
    attached,   \* the budget resource of the campaign
    amount,     \* the amount of every budget resource
    inflight,   \* jobs whose write request is on its way
    applied,    \* jobs whose write request was carried out
    sent,       \* write requests sent for a job
    (* the process *)
    pc, job, verdict,
    todo,       \* the rest of the queue this tick read
    (* time and the outside *)
    due, expired, submissions, crashes, edits

volume == <<incoming, corrupt, jobState, result>>
campaign == <<attached, amount>>
requests == <<inflight, applied, sent>>
process == <<pc, job, verdict, todo>>
outside == <<due, expired, submissions, crashes, edits>>
vars == <<volume, campaign, requests, process, outside>>

TypeOK ==
    /\ incoming \subseteq Jobs /\ corrupt \subseteq Jobs
    /\ jobState \in [Jobs -> {"SCHEDULED", "PROVIDER_WRITE_PENDING", None}]
    /\ result \in [Jobs -> Results \cup {None}]
    /\ attached \in Resources /\ amount \in [Resources -> Amounts]
    /\ inflight \subseteq Jobs /\ applied \subseteq Jobs
    /\ sent \in [Jobs -> Nat]
    /\ pc \in {"idle", "reconcile", "read", "validate", "write", "sent", "readback",
               "save_result", "archive"}
    /\ job \in Jobs \cup {None}
    /\ pc # "idle" => job \in Jobs
    /\ verdict \in Results \cup {None}
    /\ pc = "save_result" => verdict \in Results
    /\ todo \subseteq Jobs
    /\ due \subseteq Jobs /\ expired \subseteq due
    /\ submissions \in 0..MaxSubmits /\ crashes \in 0..MaxCrashes
    /\ edits \in 0..MaxEdits

\* The whole of validateEconomicJob: authority, the plan's own caps, time and drift.
WithinAuthority(p) ==
    /\ p.cap <= AuthorityBudget
    /\ p.target <= AuthorityBudget
    /\ p.increment <= AuthorityIncrement
    /\ p.target <= p.cap
    /\ p.target <= p.before + p.increment
    /\ p.target # p.before

\* Variant: what the campaign now costs is not compared.
ValidUnlessDrift(j) == WithinAuthority(PlanOf[j]) /\ j \notin expired

Valid(j) ==
    /\ WithinAuthority(PlanOf[j])
    /\ j \notin expired
    /\ amount[attached] = PlanOf[j].before
    /\ attached = PlanOf[j].resource

Rest(p, j, v, t) == p = "idle" /\ j = None /\ v = None /\ t = {}

Init ==
    /\ incoming = {} /\ corrupt = {}
    /\ jobState = [j \in Jobs |-> None]
    /\ result = [j \in Jobs |-> None]
    /\ attached \in Resources /\ amount \in [Resources -> Amounts]
    /\ inflight = {} /\ applied = {} /\ sent = [j \in Jobs |-> 0]
    /\ Rest(pc, job, verdict, todo)
    /\ due = {} /\ expired = {} /\ submissions = 0 /\ crashes = 0 /\ edits = 0

-----------------------------------------------------------------------------
(* The outside.                                                            *)

\* buildEnvelope signs no plan whose time has run out.
EnvelopeBuilds(j) == j \notin expired

\* A handoff is refused only while a file of the same id waits.  A job whose
\* execute_at is earlier than that of a due job is due itself.
Submit(j) ==
    /\ submissions < MaxSubmits
    /\ EnvelopeBuilds(j)
    /\ j \notin incoming \cup corrupt
    /\ submissions' = submissions + 1
    /\ incoming' = incoming \cup {j}
    /\ due' = due \cup {i \in {j} : \E k \in due : Rank[i] < Rank[k]}
    /\ UNCHANGED <<corrupt, jobState, result, campaign, requests, process,
                   expired, crashes, edits>>

Corrupt(j) ==
    /\ MaxCorrupt > 0 /\ corrupt = {}
    /\ j \in incoming
    /\ incoming' = incoming \ {j}
    /\ corrupt' = corrupt \cup {j}
    /\ UNCHANGED <<jobState, result, campaign, requests, process, outside>>

\* execute_at comes in the order of Rank, expires_at later than execute_at.
FallsDue(j) ==
    /\ j \in incoming \ due
    /\ \A k \in incoming \ due : Rank[j] <= Rank[k]
    /\ due' = due \cup {j}
    /\ UNCHANGED <<volume, campaign, requests, process, expired, submissions, crashes, edits>>

Expire(j) ==
    /\ j \in due \ expired
    /\ expired' = expired \cup {j}
    /\ UNCHANGED <<volume, campaign, requests, process, due, submissions, crashes, edits>>

\* People work on the same campaign.
EditAmount(r, a) ==
    /\ edits < MaxEdits
    /\ a # amount[r]
    /\ edits' = edits + 1
    /\ amount' = [amount EXCEPT ![r] = a]
    /\ UNCHANGED <<volume, attached, requests, process, due, expired, submissions, crashes>>

Reattach(r) ==
    /\ edits < MaxEdits
    /\ r # attached
    /\ edits' = edits + 1
    /\ attached' = r
    /\ UNCHANGED <<volume, amount, requests, process, due, expired, submissions, crashes>>

ProviderApplies(j) ==
    /\ j \in inflight
    /\ inflight' = inflight \ {j}
    /\ applied' = applied \cup {j}
    /\ amount' = [amount EXCEPT ![PlanOf[j].resource] = PlanOf[j].target]
    /\ UNCHANGED <<volume, attached, sent, process, outside>>

ProviderRejects(j) ==
    /\ j \in inflight
    /\ inflight' = inflight \ {j}
    /\ UNCHANGED <<volume, campaign, applied, sent, process, outside>>

Crash ==
    /\ crashes < MaxCrashes
    /\ crashes' = crashes + 1
    /\ Rest(pc', job', verdict', todo')
    /\ UNCHANGED <<volume, campaign, requests, due, expired, submissions, edits>>

-----------------------------------------------------------------------------
(* The worker.                                                             *)

\* A file that cannot be unsealed is left out, and left where it is.
Tick ==
    /\ pc = "idle" /\ todo = {}
    /\ incoming # {}
    /\ todo' = incoming
    /\ UNCHANGED <<volume, campaign, requests, pc, job, verdict, outside>>

Takes(j) ==
    /\ pc = "idle"
    /\ j \in todo
    /\ \A k \in todo : Rank[j] <= Rank[k]
    /\ todo' = todo \ {j}

Leaves(j) ==
    /\ Takes(j)
    /\ UNCHANGED <<campaign, requests, pc, job, verdict, outside>>

Enters(j, to, v) ==
    /\ Takes(j)
    /\ job' = j
    /\ pc' = to
    /\ verdict' = v
    /\ UNCHANGED <<volume, campaign, requests, outside>>

\* Resolved earlier: the file stays in incoming/.
AlreadyResolved(j) ==
    /\ Leaves(j)
    /\ result[j] # None
    /\ UNCHANGED volume

\* Variant: a job with a write in doubt waits for its reconciliation.
GiveUpExpiredUnsent(j) ==
    /\ result[j] = None
    /\ j \in expired /\ jobState[j] # "PROVIDER_WRITE_PENDING"
    /\ Enters(j, "save_result", "EXPIRED")

\* The expiry is looked at before the state.
GiveUpExpired(j) ==
    /\ result[j] = None
    /\ j \in expired
    /\ Enters(j, "save_result", "EXPIRED")

Schedule(j) ==
    /\ Leaves(j)
    /\ result[j] = None /\ j \notin due
    /\ jobState' = [jobState EXCEPT ![j] = "SCHEDULED"]
    /\ UNCHANGED <<incoming, corrupt, result>>

\* Variant: an earlier result does not matter.
ReadyAgain(j) == j \in due \ expired

Ready(j) == result[j] = None /\ j \in due \ expired

NoCredentials(j) ==
    /\ Leaves(j)
    /\ Ready(j)
    /\ UNCHANGED volume

BeginReconcile(j) ==
    /\ Ready(j)
    /\ jobState[j] = "PROVIDER_WRITE_PENDING"
    /\ Enters(j, "reconcile", None)

\* Variant: a job is retried whatever its state says.
BeginReadAgain(j) == Ready(j) /\ Enters(j, "read", None)

BeginRead(j) ==
    /\ Ready(j)
    /\ jobState[j] # "PROVIDER_WRITE_PENDING"
    /\ Enters(j, "read", None)

Moves(from, to, v) ==
    /\ pc = from
    /\ pc' = to
    /\ verdict' = v
    /\ UNCHANGED <<volume, campaign, requests, job, todo, outside>>

\* The worker goes on with the next job of the tick; nothing is stored for this one.
GoesOn ==
    /\ pc' = "idle" /\ job' = None /\ verdict' = None
    /\ UNCHANGED <<campaign, requests, todo, outside>>

\* A read that throws ends the whole tick.
ReadThrows ==
    /\ pc \in {"read", "readback", "reconcile"}
    /\ Rest(pc', job', verdict', todo')
    /\ UNCHANGED <<volume, campaign, requests, outside>>

\* Only the amount is compared, of whatever budget the campaign now has.
Reconcile ==
    /\ pc = "reconcile"
    /\ LET live == amount[attached] IN
       Moves("reconcile", "save_result",
             IF live = PlanOf[job].target THEN "RECONCILED_DONE"
             ELSE IF live = PlanOf[job].before THEN "FAILED_SAFE" ELSE "NEEDS_HUMAN")

CheckFails ==
    /\ pc = "read" /\ ~Valid(job)
    /\ Moves("read", "save_result", "FAILED_SAFE")

\* Variant: the state is left for after the write.
CheckPassesUnmarked ==
    /\ pc = "read" /\ Valid(job)
    /\ pc' = "validate"
    /\ UNCHANGED <<volume, campaign, requests, job, verdict, todo, outside>>

\* The pending state is on the volume before the provider is called.
CheckPasses ==
    /\ pc = "read" /\ Valid(job)
    /\ pc' = "validate"
    /\ jobState' = [jobState EXCEPT ![job] = "PROVIDER_WRITE_PENDING"]
    /\ UNCHANGED <<incoming, corrupt, result, campaign, requests, job, verdict, todo, outside>>

Validated == Moves("validate", "write", None)

SendWrite ==
    /\ pc = "write"
    /\ pc' = "sent"
    /\ inflight' = inflight \cup {job}
    /\ sent' = [sent EXCEPT ![job] = @ + 1]
    /\ UNCHANGED <<volume, campaign, applied, job, verdict, todo, outside>>

WriteAcknowledged == job \in applied /\ Moves("sent", "readback", None)

\* The error says timeout: nothing is stored, the next tick reconciles.
TimesOut ==
    /\ pc \in {"validate", "write", "sent"}
    /\ GoesOn
    /\ UNCHANGED volume

\* Any other error, a broken connection or a server error included.
FailsOtherwise ==
    /\ pc \in {"validate", "write", "sent"}
    /\ Moves(pc, "save_result", "FAILED_SAFE")

ReadBack ==
    /\ pc = "readback"
    /\ LET verified == amount[attached] = PlanOf[job].target /\ attached = PlanOf[job].resource
       IN  Moves("readback", "save_result", IF verified THEN "DONE" ELSE "NEEDS_HUMAN")

SaveResult ==
    /\ pc = "save_result"
    /\ pc' = "archive"
    /\ result' = [result EXCEPT ![job] = verdict]
    /\ UNCHANGED <<incoming, corrupt, jobState, campaign, requests, job, verdict, todo, outside>>

Archive ==
    /\ pc = "archive"
    /\ incoming' = incoming \ {job}
    /\ corrupt' = corrupt \ {job}
    /\ GoesOn
    /\ UNCHANGED <<jobState, result>>

-----------------------------------------------------------------------------
Worker ==
    \/ Tick
    \/ \E j \in todo : \/ AlreadyResolved(j)
                       \/ GiveUpExpired(j)
                       \/ Schedule(j)
                       \/ NoCredentials(j)
                       \/ BeginReconcile(j)
                       \/ BeginRead(j)
    \/ ReadThrows \/ Reconcile \/ CheckFails \/ CheckPasses \/ Validated
    \/ SendWrite \/ WriteAcknowledged \/ TimesOut \/ FailsOtherwise \/ ReadBack
    \/ SaveResult \/ Archive

Outside ==
    \/ \E j \in Jobs : \/ Submit(j)
                       \/ Corrupt(j)
                       \/ FallsDue(j)
                       \/ Expire(j)
                       \/ ProviderApplies(j)
                       \/ ProviderRejects(j)
    \/ \E r \in Resources : Reattach(r) \/ (\E a \in Amounts : EditAmount(r, a))
    \/ Crash

Next == Worker \/ Outside

Spec == Init /\ [][Next]_vars

\* Every call of the worker returns and time passes; the provider owes nothing.
FairSpec ==
    /\ Spec
    /\ WF_vars(Worker)
    /\ \A j \in Jobs : WF_vars(FallsDue(j)) /\ WF_vars(Expire(j))

-----------------------------------------------------------------------------
(* Properties.                                                             *)

\* Through timeouts, crashes, ticks and resubmissions the write of a job is sent at most once.
AtMostOneWrite == \A j \in Jobs : sent[j] <= 1

\* Once the write of a job has left, its state on the volume says so, whatever the
\* process lived through, so that a later tick reads and does not write.
SentIsPending == \A j \in Jobs : sent[j] > 0 => jobState[j] = "PROVIDER_WRITE_PENDING"

\* The result of a job is written once: neither a later tick, nor a crash between the
\* result and the archive, nor a resubmission of the same id changes it.
ResultIsFinal == [][\A j \in Jobs : result[j] # None => result'[j] = result[j]]_vars

\* Why the three above hold: a marked job stays due, since only an undue job is marked
\* scheduled again; a job is read for its write only due and unmarked, and about to be
\* written only marked and not yet sent; and nothing is done for a job with a result.
MarkedStaysDue == \A j \in Jobs : jobState[j] = "PROVIDER_WRITE_PENDING" => j \in due

AtItsStep ==
    /\ pc = "read" => job \in due /\ jobState[job] # "PROVIDER_WRITE_PENDING"
    /\ pc \in {"validate", "write"} =>
           jobState[job] = "PROVIDER_WRITE_PENDING" /\ sent[job] = 0
    /\ pc \notin {"idle", "archive"} => result[job] = None

\* Why AppliedAsChecked holds: only what was sent is in flight or was applied, never both;
\* a job is done only after it was applied; and as long as neither people nor another
\* write in doubt can touch it, the campaign stays what the check saw.
AppliedWasSent ==
    /\ \A j \in inflight \cup applied : sent[j] > 0
    /\ inflight \cap applied = {}

DoneWasApplied ==
    /\ \A j \in Jobs : result[j] = "DONE" => j \in applied
    /\ pc = "readback" \/ (pc = "save_result" /\ verdict = "DONE") => job \in applied

Undisturbed(j) == edits = 0 /\ \A k \in Jobs \ {j} : sent[k] > 0 => result[k] = "DONE"
AsChecked(j) == attached = PlanOf[j].resource /\ amount[PlanOf[j].resource] = PlanOf[j].before
CheckHolds ==
    pc \in {"validate", "write", "sent"} /\ job \notin applied /\ Undisturbed(job) => AsChecked(job)

IInv ==
    /\ TypeOK /\ SentIsPending /\ AtMostOneWrite /\ MarkedStaysDue /\ AtItsStep
    /\ AppliedWasSent /\ DoneWasApplied /\ CheckHolds

\* If no other write is in doubt and people keep away, the write the worker waits for is
\* carried out on the very budget and amount its check saw, the drift
\* that matters between the check and the write can only come from outside.
AppliedAsChecked ==
    [][\A j \in applied' \ applied :
          pc = "sent" /\ job = j /\ Undisturbed(j) => AsChecked(j)]_vars

\* Every readable job is answered, even if each read fails until its time has run out.
EveryJobAnswered == \A j \in Jobs : j \in incoming ~> (result[j] # None \/ j \in corrupt)

\* What the header and comments of the source say and the code does not do.

\* Header: after an ambiguous provider write, read-only reconciliation.  A job closed as
\* expired or failed safe, which both report no write, was not carried out.
NoWriteClosedUnread ==
    \A j \in Jobs : result[j] \in {"EXPIRED", "FAILED_SAFE"} => j \notin applied
=============================================================================
