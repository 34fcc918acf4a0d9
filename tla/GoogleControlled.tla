-------------------------- MODULE GoogleControlled --------------------------
(***************************************************************************)
(* Controlled changes of the account (google-controlled-executor.js,       *)
(* -journal.js, -runner.js and -negative.js).                              *)
(*                                                                         *)
(* Every change, a proposed daily budget or one exact negative and its     *)
(* rollback, runs under a lock of the account, validates twice, and is     *)
(* recorded as sending before its one request.  A marker says that the     *)
(* account has a change whose outcome is not verified; while it stands     *)
(* nothing else is sent.  Lock, marker and records are files: they survive *)
(* the process, and no code removes a lock that a dead process left.       *)
(***************************************************************************)
EXTENDS Naturals, FiniteSets, Functions

CONSTANTS
    Workers,          \* processes and tasks that may run a job at the same time
    BudgetJobs,       \* proposals to set a daily budget
    AdCampaigns,
    NewBudget,        \* of a proposal: the campaign and its amount
    TrustedCampaigns, \* campaigns whose conversion integrity the inventory trusts
    BudgetCap,        \* the owner's mandate, EUR 10 of enabled budgets
    EditedAmounts,    \* daily budgets people set
    FirstBudgets,     \* the configured budgets at the start
    MaxPeople         \* bound: changes of the account by people

Ops == BudgetJobs \cup {"add", "rollback"}
NoOp == "none"

ASSUME BudgetJobAssumption ==
    /\ BudgetJobs \cap {"add", "rollback", NoOp} = {}
    /\ FirstBudgets \in [AdCampaigns -> Nat \ {0}]
    /\ NewBudget \in [BudgetJobs -> [campaign : AdCampaigns, amount : Nat \ {0}]]
    /\ BudgetCap \in Nat /\ MaxPeople \in Nat
    /\ TrustedCampaigns \subseteq AdCampaigns /\ EditedAmounts \subseteq Nat \ {0}

VARIABLES
    (* the account at the provider *)
    budget, negatives,       \* makers of the exact negative: "add", "people"
    sending,                 \* changes whose request is on its way
    delivered,               \* changes whose request was carried out
    requests,                \* of every change, requests sent
    (* the volume *)
    proposal, proposedOn,    \* the journal: status, and the inventory it was made on
    record,                  \* the ledger
    rollbackTarget,          \* the resource the record of "add" names
    accountLock, pendingMark, journalLock,
    (* the workers *)
    workerPc, workerOp, workerSaw,
    (* the outside *)
    switchOpen, peopleEdits

ctlAccount == <<budget, negatives, sending, delivered, requests>>
ctlVolume == <<proposal, proposedOn, record, rollbackTarget, accountLock, pendingMark,
               journalLock>>
ctlWorkers == <<workerPc, workerOp, workerSaw>>
ctlOutside == <<switchOpen, peopleEdits>>
ctlVars == <<ctlAccount, ctlVolume, ctlWorkers, ctlOutside>>

Inventory == [budget |-> budget, negatives |-> negatives]
FinalRecord == {"blocked", "verified", "uncertain", "reconciliation_required"}

ControlledTypeOK ==
    /\ budget \in [AdCampaigns -> Nat] /\ negatives \subseteq {"add", "people"}
    /\ sending \subseteq Ops /\ delivered \subseteq Ops
    /\ requests \in [Ops -> Nat]
    /\ proposal \in [BudgetJobs -> {"none", "proposed", "approved", "rejected",
                                    "cancelled", "expired"}]
    /\ proposedOn \in [BudgetJobs -> [AdCampaigns -> Nat]]
    /\ record \in [Ops -> {"none", "sending"} \cup FinalRecord]
    /\ rollbackTarget \in {"none", "add", "people"}
    /\ accountLock \in BOOLEAN /\ pendingMark \in BOOLEAN /\ journalLock \in BOOLEAN
    /\ workerPc \in [Workers -> {"idle", "recheck", "armed", "wait"}]
    /\ workerOp \in [Workers -> Ops \cup {NoOp}]
    /\ workerSaw \in [Workers -> [budget : [AdCampaigns -> Nat],
                                  negatives : SUBSET {"add", "people"}]]
    /\ switchOpen \in BOOLEAN
    /\ peopleEdits \in 0..MaxPeople

ControlledInit ==
    /\ budget = FirstBudgets /\ negatives = {}
    /\ sending = {} /\ delivered = {} /\ requests = [o \in Ops |-> 0]
    /\ proposal = [b \in BudgetJobs |-> "none"]
    /\ proposedOn = [b \in BudgetJobs |-> FirstBudgets]
    /\ record = [o \in Ops |-> "none"] /\ rollbackTarget = "none"
    /\ accountLock = FALSE /\ pendingMark = FALSE /\ journalLock = FALSE
    /\ workerPc = [w \in Workers |-> "idle"] /\ workerOp = [w \in Workers |-> NoOp]
    /\ workerSaw = [w \in Workers |-> Inventory]
    /\ switchOpen \in BOOLEAN /\ peopleEdits = 0

Enabled(b) == SumFunction(b)

-----------------------------------------------------------------------------
(* prepareControlledProposal and configuredBudgetGuard on the inventory:    *)
(* the caps of the campaign and of the account, the size of the change, and *)
(* no increase where the conversions are not trusted.                       *)
Fits(b) ==
    LET c == NewBudget[b].campaign
        amount == NewBudget[b].amount
    IN  /\ amount # budget[c]
        /\ amount <= BudgetCap
        /\ Enabled([budget EXCEPT ![c] = amount]) <= BudgetCap
        /\ amount <= 2 * budget[c]
        /\ amount > budget[c] => c \in TrustedCampaigns

JournalStep(b, next) ==
    /\ ~journalLock
    /\ proposal' = [proposal EXCEPT ![b] = next]
    /\ UNCHANGED <<ctlAccount, record, rollbackTarget, accountLock, pendingMark,
                   journalLock, ctlWorkers, ctlOutside>>

Propose(b) ==
    /\ proposal[b] = "none" /\ Fits(b)
    /\ JournalStep(b, "proposed")
    /\ proposedOn' = [proposedOn EXCEPT ![b] = budget]

(* Whatever is decided after the expiry of the proposal makes it expired.   *)
Decide(b) ==
    /\ \/ proposal[b] = "proposed"
          /\ \E d \in {"approved", "rejected", "cancelled", "expired"} : JournalStep(b, d)
       \/ proposal[b] = "approved"
          /\ \E d \in {"cancelled", "expired"} : JournalStep(b, d)
    /\ UNCHANGED proposedOn

(* The lock of the journal is a file too.                                   *)
DiesInJournal ==
    /\ ~journalLock /\ journalLock' = TRUE
    /\ UNCHANGED <<ctlAccount, proposal, proposedOn, record, rollbackTarget, accountLock,
                   pendingMark, ctlWorkers, ctlOutside>>

-----------------------------------------------------------------------------
(* One change: execute, executeOne and rollbackOne.  Any check may also     *)
(* fail for a reason outside the model (expiry, evidence, a reading).       *)

(* What every check asks of the account and of the journal.                 *)
Allowed(o) ==
    /\ switchOpen
    /\ CASE o \in BudgetJobs -> proposal[o] = "approved" /\ proposedOn[o] = budget /\ Fits(o)
         [] o = "add" -> negatives = {} /\ Enabled(budget) <= BudgetCap
         [] o = "rollback" -> /\ record["add"] = "verified"
                              /\ rollbackTarget \in negatives
                              /\ Enabled(budget) <= BudgetCap

Goto(w, next) == workerPc' = [workerPc EXCEPT ![w] = next]

Leaves(w) == /\ Goto(w, "idle") /\ workerOp' = [workerOp EXCEPT ![w] = NoOp]
             /\ UNCHANGED workerSaw

\* Variant: the marker of an unverified change is not looked at.
MayTakeMarked(o) == ~accountLock /\ record[o] = "none"

\* Variant: a record of the change does not end the attempt.
MayTakeAgain(o) == ~accountLock /\ ~pendingMark

MayTake(o) == ~accountLock /\ record[o] = "none" /\ ~pendingMark

Take(w, o) ==
    /\ workerPc[w] = "idle" /\ MayTake(o) /\ Allowed(o)
    /\ accountLock' = TRUE
    /\ Goto(w, "recheck") /\ workerOp' = [workerOp EXCEPT ![w] = o]
    /\ workerSaw' = [workerSaw EXCEPT ![w] = Inventory]
    /\ UNCHANGED <<ctlAccount, proposal, proposedOn, record, rollbackTarget, pendingMark,
                   journalLock, ctlOutside>>

(* Validate-only has passed and the account is as it was: marker and record *)
(* are durable before anything is sent.                                     *)
Record(w) ==
    LET o == workerOp[w]
    IN  /\ workerPc[w] = "recheck" /\ Allowed(o)
        /\ o \in {"add", "rollback"} => Inventory = workerSaw[w]
        /\ pendingMark' = TRUE
        /\ record' = [record EXCEPT ![o] = "sending"]
        /\ Goto(w, "armed")
        /\ UNCHANGED <<ctlAccount, proposal, proposedOn, rollbackTarget, accountLock,
                       journalLock, workerOp, workerSaw, ctlOutside>>

(* The kill switch is read once more, but not before a rollback.            *)
Blocked(w) ==
    /\ workerPc[w] = "armed" /\ ~switchOpen /\ workerOp[w] # "rollback"
    /\ record' = [record EXCEPT ![workerOp[w]] = "blocked"]
    /\ pendingMark' = FALSE /\ accountLock' = FALSE
    /\ Leaves(w)
    /\ UNCHANGED <<ctlAccount, proposal, proposedOn, rollbackTarget, journalLock, ctlOutside>>

SendOnce(w) ==
    LET o == workerOp[w]
    IN  /\ workerPc[w] = "armed" /\ (switchOpen \/ o = "rollback")
        /\ sending' = sending \cup {o}
        /\ requests' = [requests EXCEPT ![o] = @ + 1]
        /\ Goto(w, "wait")
        /\ UNCHANGED <<budget, negatives, delivered, ctlVolume, workerOp, workerSaw,
                       ctlOutside>>

(* What the reading after the answer has to show.                           *)
ReadBackShows(w) ==
    LET o == workerOp[w]
        before == workerSaw[w]
    IN  CASE o \in BudgetJobs ->
                budget = [before.budget EXCEPT ![NewBudget[o].campaign] = NewBudget[o].amount]
          [] o = "add" -> negatives # {} /\ budget = before.budget
          [] o = "rollback" -> rollbackTarget \notin negatives /\ budget = before.budget

MarkAfter(w) == ~ReadBackShows(w)

(* The record of an added negative names the resource of the answer, or a   *)
(* row with the text.                                                       *)
Answered(w) ==
    LET o == workerOp[w]
    IN  /\ workerPc[w] = "wait" /\ o \in delivered
        /\ record' = [record EXCEPT ![o] = IF ReadBackShows(w) THEN "verified"
                                           ELSE "reconciliation_required"]
        /\ IF o = "add" THEN rollbackTarget' \in {"add"} \cup negatives
           ELSE UNCHANGED rollbackTarget
        /\ pendingMark' = MarkAfter(w) /\ accountLock' = FALSE
        /\ Leaves(w)
        /\ UNCHANGED <<ctlAccount, proposal, proposedOn, journalLock, ctlOutside>>

(* A timeout, a refusal or a failed reading: the marker stays.              *)
Uncertain(w) ==
    /\ workerPc[w] = "wait"
    /\ record' = [record EXCEPT ![workerOp[w]] = "uncertain"]
    /\ accountLock' = FALSE
    /\ Leaves(w)
    /\ UNCHANGED <<ctlAccount, proposal, proposedOn, rollbackTarget, pendingMark,
                   journalLock, ctlOutside>>

CheckFails(w) ==
    /\ workerPc[w] = "recheck"
    /\ accountLock' = FALSE
    /\ Leaves(w)
    /\ UNCHANGED <<ctlAccount, proposal, proposedOn, record, rollbackTarget, pendingMark,
                   journalLock, ctlOutside>>

(* "A process crash deliberately leaves the lock": also between the marker  *)
(* and the record.                                                          *)
Dies(w) ==
    /\ workerPc[w] # "idle"
    /\ pendingMark' \in {pendingMark, pendingMark \/ workerPc[w] = "recheck"}
    /\ Leaves(w)
    /\ UNCHANGED <<ctlAccount, proposal, proposedOn, record, rollbackTarget, accountLock,
                   journalLock, ctlOutside>>

-----------------------------------------------------------------------------
(* Outside.                                                                 *)

Carried(o) ==
    /\ o \in sending
    /\ sending' = sending \ {o} /\ delivered' = delivered \cup {o}
    /\ budget' = IF o \in BudgetJobs
                 THEN [budget EXCEPT ![NewBudget[o].campaign] = NewBudget[o].amount]
                 ELSE budget
    /\ negatives' = CASE o = "add" -> negatives \cup {"add"}
                      [] o = "rollback" -> negatives \ {rollbackTarget}
                      [] OTHER -> negatives
    /\ UNCHANGED <<requests, ctlVolume, ctlWorkers, ctlOutside>>

Refused(o) ==
    /\ o \in sending /\ sending' = sending \ {o}
    /\ UNCHANGED <<budget, negatives, delivered, requests, ctlVolume, ctlWorkers, ctlOutside>>

AccountEdited ==
    /\ peopleEdits < MaxPeople /\ peopleEdits' = peopleEdits + 1
    /\ \/ \E c \in AdCampaigns, a \in EditedAmounts :
             budget' = [budget EXCEPT ![c] = a] /\ UNCHANGED negatives
       \/ UNCHANGED budget /\ \E n \in SUBSET {"add", "people"} :
             negatives' = (negatives \ n) \cup ({"people"} \ n)
    /\ UNCHANGED <<sending, delivered, requests, ctlVolume, ctlWorkers, switchOpen>>

(* People remove the lock of a dead worker; nobody removes the marker.      *)
LockRemoved ==
    /\ \A w \in Workers : workerPc[w] = "idle"
    /\ accountLock' = FALSE /\ journalLock' = FALSE
    /\ UNCHANGED <<ctlAccount, proposal, proposedOn, record, rollbackTarget, pendingMark,
                   ctlWorkers, ctlOutside>>

SwitchMoves ==
    /\ switchOpen' = ~switchOpen
    /\ UNCHANGED <<ctlAccount, ctlVolume, ctlWorkers, peopleEdits>>

ControlledNext ==
    \/ \E b \in BudgetJobs : Propose(b) \/ Decide(b)
    \/ \E w \in Workers :
          \/ \E o \in Ops : Take(w, o)
          \/ Record(w) \/ Blocked(w) \/ SendOnce(w) \/ Answered(w) \/ Uncertain(w)
          \/ CheckFails(w) \/ Dies(w)
    \/ \E o \in Ops : Carried(o) \/ Refused(o)
    \/ DiesInJournal \/ AccountEdited \/ LockRemoved \/ SwitchMoves

ControlledSpec == ControlledInit /\ [][ControlledNext]_ctlVars

-----------------------------------------------------------------------------
(* The enabled budgets the program writes never exceed the mandate, through *)
(* timeouts, crashes and answers that come late: two proposals that each    *)
(* fit the account of their time are never both under way.                  *)
EnabledBudgetCage == peopleEdits = 0 => Enabled(budget) <= BudgetCap

(* "this ID can never send again, even after a timeout/crash", and one      *)
(* account has at most one request whose outcome is open.                   *)
OneRequestOpen ==
    /\ \A o \in Ops : requests[o] <= 1
    /\ \A o, p \in sending : o = p

(* What strengthens OneRequestOpen: the lock has one holder, and a request  *)
(* of a change leaves once its record is there.  While a request is on its  *)
(* way its sender waits for it or the account is marked.                    *)
OneHolder ==
    /\ \A w \in Workers : workerPc[w] # "idle" => accountLock /\ workerOp[w] \in Ops
    /\ \A w, v \in Workers : workerPc[w] # "idle" /\ workerPc[v] # "idle" => w = v
RequestsKept ==
    /\ \A o \in Ops : record[o] = "none" => requests[o] = 0
    /\ \A o \in sending \cup delivered : requests[o] = 1
    /\ sending \cap delivered = {}
    /\ sending # {} => pendingMark
    /\ \A w \in Workers :
          /\ workerPc[w] = "recheck" => record[workerOp[w]] = "none" /\ sending = {}
          /\ workerPc[w] = "armed" => requests[workerOp[w]] = 0 /\ sending = {}
          /\ workerPc[w] \in {"armed", "wait"} =>
                record[workerOp[w]] = "sending" /\ pendingMark
          /\ workerPc[w] = "wait" => sending \subseteq {workerOp[w]}

(* What strengthens EnabledBudgetCage: a change was fitted to the account   *)
(* as it is now, and stays fitted until its request is carried out.         *)
EnabledWith(b) == Enabled([budget EXCEPT ![NewBudget[b].campaign] = NewBudget[b].amount])

BudgetsFit ==
    peopleEdits = 0 =>
        /\ Enabled(budget) <= BudgetCap
        /\ \A b \in BudgetJobs :
              (b \in sending \/ \E w \in Workers : workerPc[w] = "armed" /\ workerOp[w] = b)
                => EnabledWith(b) <= BudgetCap
=============================================================================
