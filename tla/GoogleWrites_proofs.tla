-------------------------- MODULE GoogleWrites_proofs --------------------------
(***************************************************************************)
(* The writes to Google Ads of the controlled executor, the lunch campaign *)
(* and the canary, for every value of their constants.                     *)
(***************************************************************************)
EXTENDS GoogleControlled, LunchCampaign, GoogleCanary, TLAPS

-----------------------------------------------------------------------------
(* The controlled changes: a change is sent at most once, an account has at  *)
(* most one request whose outcome is open, and the enabled budgets stay     *)
(* within the mandate.                                                      *)

USE BudgetJobAssumption

ControlledIInv == ControlledTypeOK /\ OneHolder /\ RequestsKept /\ OneRequestOpen

LEMMA OpFacts == NoOp \notin Ops /\ "add" \in Ops /\ "rollback" \in Ops /\ BudgetJobs \subseteq Ops
BY DEF Ops, NoOp

LEMMA ControlledInitIInv == ControlledInit => ControlledIInv
<1> SUFFICES ASSUME ControlledInit PROVE ControlledIInv
  OBVIOUS
<1>1. ControlledTypeOK
  <2>1. budget \in [AdCampaigns -> Nat] /\ proposedOn \in [BudgetJobs -> [AdCampaigns -> Nat]]
    BY DEF ControlledInit
  <2>2. Inventory \in [budget : [AdCampaigns -> Nat], negatives : SUBSET {"add", "people"}]
    BY <2>1 DEF ControlledInit, Inventory
  <2>3. peopleEdits \in 0..MaxPeople
    BY DEF ControlledInit
  <2> QED
    BY <2>1, <2>2, <2>3 DEF ControlledInit, ControlledTypeOK, FinalRecord
<1>2. OneHolder /\ RequestsKept /\ OneRequestOpen
  BY DEF ControlledInit, OneHolder, RequestsKept, OneRequestOpen
<1> QED
  BY <1>1, <1>2 DEF ControlledIInv

-----------------------------------------------------------------------------
\* The journal, people, the switch, the provider.

LEMMA OutsideType ==
  ASSUME ControlledTypeOK,
         \/ \E b \in BudgetJobs : Propose(b) \/ Decide(b)
         \/ \E o \in Ops : Carried(o) \/ Refused(o)
         \/ DiesInJournal \/ AccountEdited \/ LockRemoved \/ SwitchMoves
  PROVE  ControlledTypeOK'
<1> USE DEF ControlledTypeOK, ctlAccount, ctlVolume, ctlWorkers, ctlOutside
<1>1. ASSUME NEW b \in BudgetJobs, Propose(b) \/ Decide(b) PROVE ControlledTypeOK'
  <2>1. proposal' \in [BudgetJobs -> {"none", "proposed", "approved", "rejected",
                                     "cancelled", "expired"}]
    BY <1>1 DEF Propose, Decide, JournalStep
  <2>2. proposedOn' \in [BudgetJobs -> [AdCampaigns -> Nat]]
    BY <1>1 DEF Propose, Decide
  <2>3. UNCHANGED <<ctlAccount, record, rollbackTarget, accountLock, pendingMark,
                    journalLock, ctlWorkers, ctlOutside>>
    BY <1>1 DEF Propose, Decide, JournalStep
  <2> QED
    BY <2>1, <2>2, <2>3
<1>2. ASSUME NEW o \in Ops, Carried(o) PROVE ControlledTypeOK'
  <2>1. budget' \in [AdCampaigns -> Nat]
    BY <1>2 DEF Carried
  <2>2. negatives' \subseteq {"add", "people"}
    BY <1>2 DEF Carried
  <2> QED
    BY <1>2, <2>1, <2>2 DEF Carried
<1>3. ASSUME NEW o \in Ops, Refused(o) PROVE ControlledTypeOK'
  BY <1>3 DEF Refused
<1>4. CASE DiesInJournal \/ LockRemoved \/ SwitchMoves
  BY <1>4 DEF DiesInJournal, LockRemoved, SwitchMoves
<1>5. CASE AccountEdited
  <2>1. budget' \in [AdCampaigns -> Nat] /\ negatives' \subseteq {"add", "people"}
    BY <1>5 DEF AccountEdited
  <2>2. peopleEdits' \in 0..MaxPeople
    BY <1>5 DEF AccountEdited
  <2> QED
    BY <1>5, <2>1, <2>2 DEF AccountEdited
<1> QED
  BY <1>1, <1>2, <1>3, <1>4, <1>5

\* None of them sends, takes the lock or clears the marker; a lock goes only while all
\* workers are idle, and a carried request is open no more.
LEMMA OutsideStep ==
  ASSUME ControlledIInv,
         \/ \E b \in BudgetJobs : Propose(b) \/ Decide(b)
         \/ \E o \in Ops : Carried(o) \/ Refused(o)
         \/ DiesInJournal \/ AccountEdited \/ LockRemoved \/ SwitchMoves
  PROVE  ControlledIInv'
<1> USE DEF ctlAccount, ctlVolume, ctlWorkers, ctlOutside
<1>1. ControlledTypeOK'
  BY OutsideType DEF ControlledIInv
<1>2. UNCHANGED <<requests, record, pendingMark, workerPc, workerOp>>
  BY DEF Propose, Decide, JournalStep, Carried, Refused, DiesInJournal, AccountEdited,
     LockRemoved, SwitchMoves
<1>3. OneHolder'
  <2>1. accountLock' = accountLock \/ \A w \in Workers : workerPc[w] = "idle"
    BY DEF Propose, Decide, JournalStep, Carried, Refused, DiesInJournal, AccountEdited,
       LockRemoved, SwitchMoves
  <2> QED
    BY <1>2, <2>1 DEF ControlledIInv, OneHolder
<1>4. /\ sending' \subseteq sending
      /\ sending' \cup delivered' \subseteq sending \cup delivered
      /\ sending' \cap delivered' \subseteq sending \cap delivered
  BY DEF Propose, Decide, JournalStep, Carried, Refused, DiesInJournal, AccountEdited,
     LockRemoved, SwitchMoves
<1>5. RequestsKept' /\ OneRequestOpen'
  BY <1>2, <1>4 DEF ControlledIInv, RequestsKept, OneRequestOpen
<1> QED
  BY <1>1, <1>3, <1>5 DEF ControlledIInv

-----------------------------------------------------------------------------
\* A worker inside one change.

LEMMA InventoryType ==
  ControlledTypeOK =>
    Inventory \in [budget : [AdCampaigns -> Nat], negatives : SUBSET {"add", "people"}]
BY DEF ControlledTypeOK, Inventory

LEMMA WorkerType ==
  ASSUME ControlledTypeOK, OneHolder, NEW w \in Workers,
         \/ \E o \in Ops : Take(w, o)
         \/ Record(w) \/ Blocked(w) \/ SendOnce(w) \/ Answered(w) \/ Uncertain(w)
         \/ CheckFails(w) \/ Dies(w)
  PROVE  ControlledTypeOK'
<1> USE DEF ControlledTypeOK, ctlAccount, ctlVolume, ctlWorkers, ctlOutside, FinalRecord,
            Goto, Leaves
<1>1. ASSUME NEW o \in Ops, Take(w, o) PROVE ControlledTypeOK'
  BY <1>1, InventoryType DEF Take
<1>2. CASE Record(w)
  BY <1>2 DEF Record
<1>3. CASE Blocked(w)
  BY <1>3 DEF Blocked
<1>4. CASE SendOnce(w)
  BY <1>4 DEF SendOnce, OneHolder
<1>5. CASE Answered(w)
  <2>1. rollbackTarget' \in {"none", "add", "people"}
    BY <1>5 DEF Answered
  <2>2. pendingMark' \in BOOLEAN
    BY <1>5 DEF Answered, MarkAfter
  <2> QED
    BY <1>5, <2>1, <2>2 DEF Answered
<1>6. CASE Uncertain(w) \/ CheckFails(w)
  BY <1>6 DEF Uncertain, CheckFails
<1>7. CASE Dies(w)
  <2>1. pendingMark' \in BOOLEAN
    BY <1>7 DEF Dies
  <2> QED
    BY <1>7, <2>1 DEF Dies
<1> QED
  BY <1>1, <1>2, <1>3, <1>4, <1>5, <1>6, <1>7

\* The lock: taken by one while all others are idle.
LEMMA HolderStep ==
  ASSUME ControlledTypeOK, OneHolder, NEW w \in Workers,
         \/ \E o \in Ops : Take(w, o)
         \/ Record(w) \/ Blocked(w) \/ SendOnce(w) \/ Answered(w) \/ Uncertain(w)
         \/ CheckFails(w) \/ Dies(w)
  PROVE  /\ OneHolder'
         /\ \A v \in Workers \ {w} : workerPc'[v] = "idle"
         /\ \A v \in Workers \ {w} : workerPc[v] = "idle"
<1> USE DEF ControlledTypeOK, OneHolder, Goto, Leaves, ctlVolume, ctlWorkers
<1>1. ASSUME NEW o \in Ops, Take(w, o)
      PROVE  /\ \A v \in Workers : workerPc[v] = "idle"
             /\ accountLock' /\ workerPc' = [workerPc EXCEPT ![w] = "recheck"]
             /\ workerOp' = [workerOp EXCEPT ![w] = o]
  BY <1>1 DEF Take, MayTake
<1>2. CASE \E o \in Ops : Take(w, o)
  BY <1>1, <1>2
<1>3. CASE ~\E o \in Ops : Take(w, o)
  <2>1. /\ workerPc[w] # "idle"
        /\ \/ workerPc' = [workerPc EXCEPT ![w] = "idle"]
           \/ /\ workerPc'[w] # "idle" /\ workerOp' = workerOp /\ accountLock' = accountLock
              /\ \A v \in Workers \ {w} : workerPc'[v] = workerPc[v]
    <3>1. CASE Record(w)
      BY <3>1 DEF Record
    <3>2. CASE SendOnce(w)
      BY <3>2 DEF SendOnce
    <3>3. CASE Blocked(w) \/ Answered(w) \/ Uncertain(w)
      BY <3>3 DEF Blocked, Answered, Uncertain
    <3>4. CASE CheckFails(w) \/ Dies(w)
      BY <3>4 DEF CheckFails, Dies
    <3> QED
      BY <1>3, <3>1, <3>2, <3>3, <3>4
  <2>2. \A v \in Workers \ {w} : workerPc[v] = "idle"
    BY <2>1
  <2>3. CASE workerPc' = [workerPc EXCEPT ![w] = "idle"]
    <3>1. \A v \in Workers : workerPc'[v] = "idle"
      BY <2>2, <2>3
    <3> QED
      BY <2>2, <3>1
  <2>4. CASE workerPc' # [workerPc EXCEPT ![w] = "idle"]
    BY <2>1, <2>2, <2>4
  <2> QED
    BY <2>3, <2>4
<1> QED
  BY <1>2, <1>3

LEMMA WorkerStep ==
  ASSUME ControlledIInv, NEW w \in Workers,
         \/ \E o \in Ops : Take(w, o)
         \/ Record(w) \/ Blocked(w) \/ SendOnce(w) \/ Answered(w) \/ Uncertain(w)
         \/ CheckFails(w) \/ Dies(w)
  PROVE  ControlledIInv'
<1>1. ControlledTypeOK' /\ OneHolder'
      /\ \A v \in Workers \ {w} : workerPc'[v] = "idle" /\ workerPc[v] = "idle"
  BY WorkerType, HolderStep DEF ControlledIInv
<1> USE DEF ControlledIInv, ControlledTypeOK, ctlAccount, ctlVolume, ctlWorkers, Goto, Leaves
<1>2. ASSUME NEW o \in Ops, Take(w, o) PROVE RequestsKept' /\ OneRequestOpen'
  <2>1. /\ record[o] = "none" /\ ~pendingMark
        /\ UNCHANGED <<requests, sending, delivered, record, pendingMark>>
        /\ workerPc'[w] = "recheck" /\ workerOp'[w] = o
    BY <1>2 DEF Take, MayTake
  <2> QED
    BY <1>1, <2>1 DEF RequestsKept, OneRequestOpen
<1>3. CASE Record(w)
  <2>1. /\ workerPc[w] = "recheck" /\ workerOp[w] \in Ops
        /\ record' = [record EXCEPT ![workerOp[w]] = "sending"]
        /\ pendingMark' /\ workerPc'[w] = "armed" /\ workerOp' = workerOp
        /\ UNCHANGED <<requests, sending, delivered>>
    BY <1>3 DEF Record, OneHolder
  <2>2. requests[workerOp[w]] = 0 /\ sending = {} /\ record'[workerOp[w]] = "sending"
    BY <2>1 DEF RequestsKept
  <2>3. \A o \in Ops : record'[o] = "none" => requests'[o] = 0
    BY <2>1 DEF RequestsKept
  <2>4. \A v \in Workers : v # w => workerPc'[v] = "idle"
    BY <1>1
  <2> QED
    BY <1>1, <2>1, <2>2, <2>3, <2>4 DEF RequestsKept, OneRequestOpen
<1>4. CASE SendOnce(w)
  <2>1. /\ workerPc[w] = "armed" /\ workerOp[w] \in Ops
        /\ requests' = [requests EXCEPT ![workerOp[w]] = @ + 1]
        /\ sending' = sending \cup {workerOp[w]}
        /\ workerPc'[w] = "wait"
        /\ UNCHANGED <<delivered, record, pendingMark, workerOp>>
    BY <1>4 DEF SendOnce, OneHolder
  <2>2. /\ sending = {} /\ requests[workerOp[w]] = 0 /\ workerOp[w] \notin delivered
        /\ record[workerOp[w]] = "sending" /\ pendingMark
    BY <2>1 DEF RequestsKept
  <2>3. /\ requests'[workerOp[w]] = 1 /\ sending' = {workerOp[w]}
        /\ \A o \in Ops \ {workerOp[w]} : requests'[o] = requests[o]
    BY <2>1, <2>2
  <2>4. \A v \in Workers : v # w => workerPc'[v] = "idle"
    BY <1>1
  <2>5. \A o \in Ops : record'[o] = "none" => requests'[o] = 0
    BY <2>1, <2>2, <2>3 DEF RequestsKept
  <2>6. \A o \in sending' \cup delivered' : requests'[o] = 1
    BY <2>1, <2>2, <2>3 DEF RequestsKept
  <2>7. OneRequestOpen'
    BY <2>1, <2>2, <2>3 DEF OneRequestOpen
  <2>8. /\ sending' \cap delivered' = {} /\ pendingMark'
        /\ record'[workerOp'[w]] = "sending" /\ sending' \subseteq {workerOp'[w]}
    BY <2>1, <2>2, <2>3
  <2>9. RequestsKept'
    BY ONLY <2>1, <2>4, <2>5, <2>6, <2>8 DEF RequestsKept
  <2> QED
    BY <1>1, <2>7, <2>9
<1>5. CASE Blocked(w) \/ Answered(w) \/ Uncertain(w) \/ CheckFails(w) \/ Dies(w)
  <2>1. /\ workerPc'[w] = "idle"
        /\ UNCHANGED <<requests, sending, delivered>>
        /\ \/ record' = record
           \/ /\ workerPc[w] \in {"armed", "wait"}
              /\ \E x \in FinalRecord : record' = [record EXCEPT ![workerOp[w]] = x]
    BY <1>5 DEF Blocked, Answered, Uncertain, CheckFails, Dies, FinalRecord
  <2>2. pendingMark' \/ sending = {} \/ pendingMark' = pendingMark
    <3>1. CASE Blocked(w)
      BY <3>1 DEF Blocked, RequestsKept
    <3>2. CASE Answered(w)
      BY <3>2 DEF Answered, RequestsKept
    <3>3. CASE Uncertain(w) \/ CheckFails(w) \/ Dies(w)
      BY <3>3 DEF Uncertain, CheckFails, Dies
    <3> QED
      BY <1>5, <3>1, <3>2, <3>3
  <2>3. \A o \in Ops : record'[o] = "none" => record[o] = "none"
    BY <2>1 DEF FinalRecord
  <2> QED
    BY <1>1, <2>1, <2>2, <2>3 DEF RequestsKept, OneRequestOpen
<1> QED
  BY <1>1, <1>2, <1>3, <1>4, <1>5

LEMMA ControlledStep == ASSUME ControlledIInv, [ControlledNext]_ctlVars PROVE ControlledIInv'
<1>1. CASE UNCHANGED ctlVars
  BY <1>1 DEF ControlledIInv, ControlledTypeOK, OneHolder, RequestsKept, OneRequestOpen, ctlVars,
     ctlAccount, ctlVolume, ctlWorkers, ctlOutside
<1>2. CASE ControlledNext
  BY <1>2, OutsideStep, WorkerStep DEF ControlledNext
<1> QED
  BY <1>1, <1>2

\* The invariant of the controlled changes: types, one holder of the lock, and what the
\* records and the marker say of the requests.
THEOREM ControlledInductive == ControlledSpec => []ControlledIInv
<1> QED
  BY ControlledInitIInv, ControlledStep, PTL DEF ControlledSpec

\* A change is sent at most once, through timeouts, deaths and removed locks, and the
\* account has at most one open request.
THEOREM RequestsOneByOne == ControlledSpec => []OneRequestOpen
<1>1. ControlledIInv => OneRequestOpen
  BY DEF ControlledIInv
<1> QED
  BY <1>1, ControlledInductive, PTL

\* What a step may do to the budgets: only a request that is carried out changes them, and
\* people, who are counted.
LEMMA BudgetsMove ==
  ASSUME ControlledTypeOK, [ControlledNext]_ctlVars, peopleEdits' = 0
  PROVE  /\ peopleEdits = 0
         /\ \/ budget' = budget
            \/ \E o \in sending :
                  /\ o \in BudgetJobs /\ sending' = sending \ {o}
                  /\ UNCHANGED <<workerPc, workerOp>>
                  /\ budget' = [budget EXCEPT ![NewBudget[o].campaign] = NewBudget[o].amount]
<1> USE DEF ctlVars, ctlAccount, ctlVolume, ctlWorkers, ctlOutside
<1>1. CASE UNCHANGED ctlVars
  BY <1>1
<1>2. ASSUME NEW b \in BudgetJobs, Propose(b) \/ Decide(b)
      PROVE  budget' = budget /\ peopleEdits' = peopleEdits
  BY <1>2 DEF Propose, Decide, JournalStep
<1>3. ASSUME NEW w \in Workers,
             \/ \E o \in Ops : Take(w, o)
             \/ Record(w) \/ Blocked(w) \/ SendOnce(w)
      PROVE  budget' = budget /\ peopleEdits' = peopleEdits
  BY <1>3 DEF Take, Record, Blocked, SendOnce
<1>4. ASSUME NEW w \in Workers, Answered(w) \/ Uncertain(w) \/ CheckFails(w) \/ Dies(w)
      PROVE  budget' = budget /\ peopleEdits' = peopleEdits
  BY <1>4 DEF Answered, Uncertain, CheckFails, Dies
<1>5. CASE (\E o \in Ops : Refused(o)) \/ DiesInJournal \/ LockRemoved \/ SwitchMoves
  BY <1>5 DEF Refused, DiesInJournal, LockRemoved, SwitchMoves
<1>6. ~AccountEdited
  BY DEF AccountEdited, ControlledTypeOK
<1>7. ASSUME NEW o \in Ops, Carried(o)
      PROVE  /\ o \in sending /\ sending' = sending \ {o}
             /\ UNCHANGED <<peopleEdits, workerPc, workerOp>>
             /\ budget' = IF o \in BudgetJobs
                          THEN [budget EXCEPT ![NewBudget[o].campaign] = NewBudget[o].amount]
                          ELSE budget
  BY <1>7 DEF Carried
<1> QED
  BY <1>1, <1>2, <1>3, <1>4, <1>5, <1>6, <1>7 DEF ControlledNext

\* A change comes under way through Record, which fits it to the account as it is.
LEMMA BecomesArmed ==
  ASSUME ControlledTypeOK, OneHolder, [ControlledNext]_ctlVars,
         NEW w \in Workers, workerPc'[w] = "armed"
  PROVE  \/ workerPc[w] = "armed" /\ workerOp'[w] = workerOp[w]
         \/ /\ workerPc[w] = "recheck" /\ Allowed(workerOp[w]) /\ workerOp'[w] = workerOp[w]
            /\ workerOp[w] \in Ops
<1> USE DEF ctlVars, ctlAccount, ctlVolume, ctlWorkers, ctlOutside, ControlledTypeOK
<1>1. CASE UNCHANGED <<workerPc, workerOp>>
  BY <1>1
<1>2. ASSUME NEW v \in Workers, Record(v)
      PROVE  /\ v # w => workerPc'[w] = workerPc[w]
             /\ workerOp' = workerOp /\ workerPc[v] = "recheck" /\ Allowed(workerOp[v])
             /\ workerOp[v] \in Ops
  BY <1>2 DEF Record, Goto, OneHolder
<1>3. ASSUME NEW v \in Workers,
             (\E o \in Ops : Take(v, o)) \/ SendOnce(v)
      PROVE  workerPc[w] = "armed" /\ workerOp'[w] = workerOp[w]
  <2>1. CASE \E o \in Ops : Take(v, o)
    BY <2>1 DEF Take, Goto
  <2>2. CASE SendOnce(v)
    BY <2>2 DEF SendOnce, Goto
  <2> QED
    BY <1>3, <2>1, <2>2
<1>4. ASSUME NEW v \in Workers,
             Blocked(v) \/ Answered(v) \/ Uncertain(v) \/ CheckFails(v) \/ Dies(v)
      PROVE  workerPc[w] = "armed" /\ workerOp'[w] = workerOp[w]
  <2>1. Leaves(v)
    BY <1>4 DEF Blocked, Answered, Uncertain, CheckFails, Dies
  <2> QED
    BY <2>1 DEF Leaves, Goto
<1>5. CASE \/ \E b \in BudgetJobs : Propose(b) \/ Decide(b)
           \/ \E o \in Ops : Carried(o) \/ Refused(o)
           \/ DiesInJournal \/ AccountEdited \/ LockRemoved \/ SwitchMoves
  BY <1>1, <1>5 DEF Propose, Decide, JournalStep, Carried, Refused, DiesInJournal, AccountEdited,
     LockRemoved, SwitchMoves
<1> QED
  BY <1>1, <1>2, <1>3, <1>4, <1>5 DEF ControlledNext

LEMMA BecomesSent ==
  ASSUME ControlledTypeOK, [ControlledNext]_ctlVars, NEW o \in sending', o \notin sending
  PROVE  \E w \in Workers : workerPc[w] = "armed" /\ workerOp[w] = o
<1> USE DEF ctlVars, ctlAccount
<1>1. ASSUME NEW w \in Workers, SendOnce(w)
      PROVE  workerPc[w] = "armed" /\ sending' = sending \cup {workerOp[w]}
  BY <1>1 DEF SendOnce
<1>2. ASSUME NEW w \in Workers,
             \/ \E p \in Ops : Take(w, p)
             \/ Record(w) \/ Blocked(w) \/ Answered(w) \/ Uncertain(w) \/ CheckFails(w) \/ Dies(w)
      PROVE  sending' = sending
  BY <1>2 DEF Take, Record, Blocked, Answered, Uncertain, CheckFails, Dies
<1>3. CASE \/ \E b \in BudgetJobs : Propose(b) \/ Decide(b)
           \/ \E p \in Ops : Carried(p) \/ Refused(p)
           \/ DiesInJournal \/ AccountEdited \/ LockRemoved \/ SwitchMoves
  BY <1>3 DEF Propose, Decide, JournalStep, Carried, Refused, DiesInJournal, AccountEdited,
     LockRemoved, SwitchMoves
<1> QED
  BY <1>1, <1>2, <1>3 DEF ControlledNext

LEMMA FitStep ==
  ASSUME ControlledIInv, BudgetsFit, [ControlledNext]_ctlVars
  PROVE  BudgetsFit'
<1> SUFFICES ASSUME peopleEdits' = 0
             PROVE  /\ Enabled(budget') <= BudgetCap
                    /\ \A b \in BudgetJobs :
                          (\/ b \in sending'
                           \/ \E w \in Workers : workerPc'[w] = "armed" /\ workerOp'[w] = b)
                          => Enabled([budget' EXCEPT ![NewBudget[b].campaign] = NewBudget[b].amount])
                               <= BudgetCap
  BY DEF BudgetsFit, EnabledWith
<1>1. /\ peopleEdits = 0 /\ Enabled(budget) <= BudgetCap
      /\ \A b \in BudgetJobs :
            (b \in sending \/ \E w \in Workers : workerPc[w] = "armed" /\ workerOp[w] = b)
              => Enabled([budget EXCEPT ![NewBudget[b].campaign] = NewBudget[b].amount])
                   <= BudgetCap
  BY BudgetsMove DEF ControlledIInv, BudgetsFit, EnabledWith
<1>2. CASE budget' = budget
  <2> SUFFICES ASSUME NEW b \in BudgetJobs,
                      b \in sending' \/ \E w \in Workers : workerPc'[w] = "armed" /\ workerOp'[w] = b
               PROVE  Enabled([budget EXCEPT ![NewBudget[b].campaign] = NewBudget[b].amount])
                        <= BudgetCap
    BY <1>1, <1>2
  <2>1. CASE b \in sending'
    BY <1>1, <2>1, BecomesSent DEF ControlledIInv
  <2>2. ASSUME NEW w \in Workers, workerPc'[w] = "armed", workerOp'[w] = b
        PROVE  Enabled([budget EXCEPT ![NewBudget[b].campaign] = NewBudget[b].amount]) <= BudgetCap
    <3>1. CASE workerPc[w] = "armed" /\ workerOp'[w] = workerOp[w]
      BY <1>1, <2>2, <3>1
    <3>2. CASE Allowed(b)
      BY <3>2 DEF Allowed, Fits
    <3> QED
      BY <2>2, <3>1, <3>2, BecomesArmed DEF ControlledIInv
  <2> QED
    BY <2>1, <2>2
<1>3. CASE budget' # budget
  <2>1. PICK o \in sending :
          /\ o \in BudgetJobs /\ sending' = sending \ {o}
          /\ UNCHANGED <<workerPc, workerOp>>
          /\ budget' = [budget EXCEPT ![NewBudget[o].campaign] = NewBudget[o].amount]
    BY <1>3, BudgetsMove DEF ControlledIInv
  <2>2. sending' = {} /\ \A w \in Workers : workerPc'[w] # "armed"
    BY <2>1 DEF ControlledIInv, OneRequestOpen, RequestsKept
  <2> QED
    BY <1>1, <2>1, <2>2
<1> QED
  BY <1>2, <1>3

\* A change is fitted to the account it will be carried out on.
THEOREM BudgetsStayFit ==
  ASSUME Enabled(FirstBudgets) <= BudgetCap
  PROVE  ControlledSpec => []BudgetsFit
<1>1. ControlledInit => BudgetsFit
  <2> SUFFICES ASSUME ControlledInit PROVE BudgetsFit
    OBVIOUS
  <2>1. budget = FirstBudgets /\ sending = {} /\ \A w \in Workers : workerPc[w] = "idle"
    BY DEF ControlledInit
  <2> QED
    BY <2>1 DEF BudgetsFit
<1> QED
  BY <1>1, ControlledInductive, FitStep, PTL DEF ControlledSpec

\* Where the account begins within the mandate and nobody else edits it, its enabled budgets
\* stay within it: a change is fitted to the account it is carried out on.
THEOREM BudgetsStayInMandate ==
  ASSUME Enabled(FirstBudgets) <= BudgetCap
  PROVE  ControlledSpec => []EnabledBudgetCage
<1>1. BudgetsFit => EnabledBudgetCage
  BY DEF BudgetsFit, EnabledBudgetCage
<1> QED
  BY <1>1, BudgetsStayFit, PTL

HIDE BudgetJobAssumption

-----------------------------------------------------------------------------
(* The lunch campaign: at most one is active, and a monitor that completes   *)
(* every day keeps it within the cap.                                       *)

USE LunchAssumption, CampaignAssumption

LunchIInv == LunchTypeOK /\ ChosenOnce /\ CostKept /\ LunchCapHeld

LEMMA LunchInitIInv == LunchInit => LunchIInv
<1> SUFFICES ASSUME LunchInit PROVE LunchIInv
  OBVIOUS
<1> USE DEF LunchInit
<1>1. LunchTypeOK
  <2>1. day \in 1..(LunchDays + 1) /\ spent \in [Campaigns -> 0..DailyCeiling]
    OBVIOUS
  <2>2. status \in [Campaigns -> {"absent", "PAUSED", "ENABLED", "REMOVED"}]
    OBVIOUS
  <2>3. creatorPc \in [Creators -> {"idle", "create", "created", "verify", "enable", "enabled"}]
    OBVIOUS
  <2>4. creatorOf \in [Creators -> Campaigns \cup {NoCampaign}] /\ cost \in [Campaigns -> Nat]
    OBVIOUS
  <2>5. \A w \in Creators : creatorPc[w] \in {"idle", "create"} \/ creatorOf[w] \in Campaigns
    OBVIOUS
  <2> QED
    BY <2>1, <2>2, <2>3, <2>4, <2>5 DEF LunchTypeOK
<1>2. ChosenOnce
  BY DEF ChosenOnce, Chosen, Existing
<1>3. CostKept /\ LunchCapHeld
  BY DEF CostKept, LunchCapHeld, Creating, Existing
<1> QED
  BY <1>1, <1>2, <1>3 DEF LunchIInv

-----------------------------------------------------------------------------
\* The create tasks.

CreatorStep(w) ==
    \/ CreateRead(w) \/ CreateSend(w) \/ CreateReadBack(w)
    \/ VerifyCreated(w) \/ ActivateSend(w) \/ CreatorEnds(w)

LEMMA CreatorType ==
  ASSUME LunchTypeOK, NEW w \in Creators, CreatorStep(w)
  PROVE  LunchTypeOK'
<1> USE DEF LunchTypeOK, lunchProvider, lunchCreators, lunchMonitor, lunchOutside,
            CreatorGoto
<1>1. CASE CreateRead(w)
  BY <1>1 DEF CreateRead
<1>2. CASE CreateSend(w)
  BY <1>2 DEF CreateSend
<1>3. CASE CreateReadBack(w)
  BY <1>3 DEF CreateReadBack, ReadsOne
<1>4. CASE VerifyCreated(w)
  BY <1>4 DEF VerifyCreated
<1>5. CASE ActivateSend(w)
  BY <1>5 DEF ActivateSend
<1>6. CASE CreatorEnds(w)
  BY <1>6 DEF CreatorEnds
<1> QED
  BY <1>1, <1>2, <1>3, <1>4, <1>5, <1>6 DEF CreatorStep

\* A task verifies and activates the one campaign there is.
LEMMA CreatorChosen ==
  ASSUME LunchTypeOK, ChosenOnce, NEW w \in Creators, CreatorStep(w)
  PROVE  ChosenOnce'
<1> USE DEF lunchProvider, lunchCreators, lunchMonitor, lunchOutside, CreatorGoto
<1>1. CASE CreateReadBack(w)
  <2>1. PICK c \in Campaigns :
          /\ Existing = {c}
          /\ creatorOf' = [creatorOf EXCEPT ![w] = c]
    BY <1>1 DEF CreateReadBack, ReadsOne
  <2>2. /\ creatorPc' = [creatorPc EXCEPT ![w] = "verify"]
        /\ UNCHANGED lunchProvider
    BY <1>1 DEF CreateReadBack
  <2>3. Existing' = {c} /\ status'[c] # "absent"
    BY <2>1, <2>2 DEF Existing
  <2>4. \A d \in Campaigns : Chosen(d)' => Chosen(d) \/ d = c
    BY <2>1, <2>2 DEF Chosen, LunchTypeOK
  <2> QED
    BY <2>2, <2>3, <2>4 DEF ChosenOnce
<1>2. CASE ~CreateReadBack(w)
  <2>1. /\ status' = status
        /\ \A d \in creating' : d \in creating \/ status[d] = "absent"
    BY <1>2 DEF CreatorStep, CreateRead, CreateSend, VerifyCreated, ActivateSend, CreatorEnds
  <2>2. \A d \in Campaigns : Chosen(d)' => Chosen(d)
    <3>1. CASE CreateRead(w) \/ CreateSend(w)
      <4>1. /\ UNCHANGED <<status, enabling>>
            /\ creatorPc'[w] \notin {"verify", "enable"}
            /\ \A v \in Creators \ {w} :
                  creatorPc'[v] = creatorPc[v] /\ creatorOf'[v] = creatorOf[v]
        BY <3>1 DEF CreateRead, CreateSend, LunchTypeOK
      <4> QED
        BY <4>1 DEF Chosen
    <3>2. CASE VerifyCreated(w)
      BY <3>2 DEF VerifyCreated, Chosen, LunchTypeOK
    <3>3. CASE ActivateSend(w)
      BY <3>3 DEF ActivateSend, Chosen, LunchTypeOK
    <3>4. CASE CreatorEnds(w)
      <4>1. /\ UNCHANGED <<status, enabling>>
            /\ creatorPc'[w] = "idle"
            /\ \A v \in Creators \ {w} :
                  creatorPc'[v] = creatorPc[v] /\ creatorOf'[v] = creatorOf[v]
        BY <3>4 DEF CreatorEnds, LunchTypeOK
      <4> QED
        BY <4>1 DEF Chosen
    <3> QED
      BY <1>2, <3>1, <3>2, <3>3, <3>4 DEF CreatorStep
  <2> QED
    BY <2>1, <2>2 DEF ChosenOnce, Existing
<1> QED
  BY <1>1, <1>2

\* A task that starts has read that nothing exists.
LEMMA CreatorCost ==
  ASSUME LunchTypeOK, CostKept, NEW w \in Creators, CreatorStep(w)
  PROVE  CostKept'
<1> USE DEF lunchProvider, lunchCreators, lunchMonitor, lunchOutside, CreatorGoto
<1>1. UNCHANGED <<status, cost, spent, serving, monitored, missed, monitorPc>>
  BY DEF CreatorStep, CreateRead, CreateSend, CreateReadBack, VerifyCreated, ActivateSend,
     CreatorEnds
<1>2. Existing' = Existing
  BY <1>1 DEF Existing
<1>3. Creating' => Creating \/ Existing = {}
  <2>1. CASE CreateRead(w)
    BY <2>1 DEF CreateRead
  <2>2. CASE ~CreateRead(w) /\ ~CreatorEnds(w)
    BY <2>2 DEF CreatorStep, CreateSend, CreateReadBack, VerifyCreated, ActivateSend, Creating
  <2>3. CASE CreatorEnds(w)
    BY <2>3 DEF CreatorEnds, Creating
  <2> QED
    BY <2>1, <2>2, <2>3
<1> QED
  BY <1>1, <1>2, <1>3 DEF CostKept

LEMMA CreatorKeeps ==
  ASSUME LunchIInv, NEW w \in Creators, CreatorStep(w)
  PROVE  LunchIInv'
<1>1. UNCHANGED <<cost, missed>>
  BY DEF CreatorStep, CreateRead, CreateSend, CreateReadBack, VerifyCreated, ActivateSend,
     CreatorEnds, CreatorGoto, lunchProvider, lunchOutside
<1>2. LunchCapHeld'
  BY <1>1 DEF LunchIInv, LunchCapHeld
<1> QED
  BY <1>2, CreatorType, CreatorChosen, CreatorCost DEF LunchIInv

-----------------------------------------------------------------------------
\* The monitor.

MonitorStep == MonitorRead \/ MonitorSend \/ MonitorReadBack \/ MonitorFails

LEMMA MonitorKeeps == ASSUME LunchIInv, MonitorStep PROVE LunchIInv'
<1> USE DEF lunchProvider, lunchCreators, lunchMonitor, lunchOutside
<1>1. LunchTypeOK'
  <2>1. CASE MonitorRead
    BY <2>1 DEF LunchIInv, LunchTypeOK, MonitorRead
  <2>2. CASE MonitorSend
    BY <2>2 DEF LunchIInv, LunchTypeOK, MonitorSend
  <2>3. CASE MonitorReadBack \/ MonitorFails
    BY <2>3 DEF LunchIInv, LunchTypeOK, MonitorReadBack, MonitorFails
  <2> QED
    BY <2>1, <2>2, <2>3 DEF MonitorStep
<1>2. UNCHANGED <<status, drift, cost, creating, enabling, lunchCreators, spent, serving,
                  missed>>
  BY DEF MonitorStep, MonitorRead, MonitorSend, MonitorReadBack, MonitorFails
<1>3. ChosenOnce' /\ LunchCapHeld'
  BY <1>2 DEF LunchIInv, ChosenOnce, Chosen, Existing, LunchCapHeld
<1>4. serving => ~monitored' /\ monitorPc' = "idle"
  BY DEF LunchIInv, CostKept, MonitorStep, MonitorRead, MonitorSend, MonitorReadBack,
     MonitorFails
<1>5. \A c \in Campaigns : monitored' /\ status[c] = "ENABLED" =>
        monitored \/ cost[c] < Threshold
  <2>1. CASE MonitorRead
    <3>1. PICK c \in Campaigns :
            /\ Existing = {c}
            /\ \/ ~(NeedsPause(c) /\ status[c] = "ENABLED")
               \/ monitored' = monitored
      BY <2>1 DEF MonitorRead, ReadsOne
    <3>2. cost[c] \in Nat
      BY DEF LunchIInv, LunchTypeOK
    <3>3. status[c] = "ENABLED" /\ ~NeedsPause(c) => cost[c] < Threshold
      BY <3>2 DEF NeedsPause
    <3>4. \A d \in Campaigns : status[d] = "ENABLED" => d = c
      BY <3>1 DEF Existing
    <3> QED
      BY <3>1, <3>3, <3>4
  <2>2. CASE MonitorReadBack
    BY <2>2 DEF MonitorReadBack, ReadsOne, Existing
  <2>3. CASE MonitorSend \/ MonitorFails
    BY <2>3 DEF MonitorSend, MonitorFails
  <2> QED
    BY <2>1, <2>2, <2>3 DEF MonitorStep
<1>6. Creating' = Creating /\ Existing' = Existing
  BY <1>2 DEF Creating, Existing
<1>7. CostKept'
  BY <1>2, <1>4, <1>5, <1>6 DEF LunchIInv, CostKept
<1> QED
  BY <1>1, <1>3, <1>7 DEF LunchIInv

-----------------------------------------------------------------------------
\* The provider and people.

ProviderStep(c) ==
    \/ CreationApplies(c) \/ ActivationApplies(c) \/ PauseApplies(c)
    \/ RequestRefused(c) \/ PeopleChange(c)

LEMMA ProviderType ==
  ASSUME LunchTypeOK, NEW c \in Campaigns, ProviderStep(c)
  PROVE  LunchTypeOK'
<1> USE DEF LunchTypeOK, lunchProvider, lunchCreators, lunchMonitor, lunchOutside
<1>1. CASE CreationApplies(c)
  BY <1>1 DEF CreationApplies
<1>2. CASE ActivationApplies(c)
  BY <1>2 DEF ActivationApplies
<1>3. CASE PauseApplies(c)
  BY <1>3 DEF PauseApplies
<1>4. CASE RequestRefused(c)
  BY <1>4 DEF RequestRefused
<1>5. CASE PeopleChange(c)
  BY <1>5 DEF PeopleChange, Existing
<1> QED
  BY <1>1, <1>2, <1>3, <1>4, <1>5 DEF ProviderStep

\* What each request may do to a campaign.
LEMMA ProviderFrame ==
  ASSUME LunchTypeOK, ChosenOnce, NEW c \in Campaigns, ProviderStep(c)
  PROVE  /\ UNCHANGED <<cost, spent, serving, monitored, missed, monitorPc, lunchCreators>>
         /\ creating' \subseteq creating /\ enabling' \subseteq enabling
         /\ \A d \in Campaigns \ {c} : status'[d] = status[d]
         /\ \/ status'[c] = status[c]
            \/ status[c] = "absent" /\ status'[c] = "PAUSED" /\ c \in creating /\ c \notin creating'
            \/ status[c] = "PAUSED" /\ status'[c] = "ENABLED" /\ c \in enabling
            \/ status[c] = "ENABLED" /\ status'[c] = "PAUSED"
            \/ c \in Existing /\ status'[c] = "REMOVED"
<1> USE DEF LunchTypeOK, lunchProvider, lunchCreators, lunchMonitor, lunchOutside
<1>1. CASE CreationApplies(c)
  BY <1>1 DEF CreationApplies, ChosenOnce
<1>2. CASE ActivationApplies(c)
  BY <1>2 DEF ActivationApplies
<1>3. CASE PauseApplies(c)
  BY <1>3 DEF PauseApplies
<1>4. CASE RequestRefused(c)
  BY <1>4 DEF RequestRefused
<1>5. CASE PeopleChange(c)
  BY <1>5 DEF PeopleChange, Existing
<1> QED
  BY <1>1, <1>2, <1>3, <1>4, <1>5 DEF ProviderStep

LEMMA ProviderKeeps ==
  ASSUME LunchIInv, NEW c \in Campaigns, ProviderStep(c)
  PROVE  LunchIInv'
<1>1. LunchTypeOK'
  BY ProviderType DEF LunchIInv
<1>2. /\ UNCHANGED <<cost, spent, serving, monitored, missed, monitorPc, lunchCreators>>
      /\ creating' \subseteq creating /\ enabling' \subseteq enabling
      /\ \A d \in Campaigns \ {c} : status'[d] = status[d]
      /\ \/ status'[c] = status[c]
         \/ status[c] = "absent" /\ status'[c] = "PAUSED" /\ c \in creating /\ c \notin creating'
         \/ status[c] = "PAUSED" /\ status'[c] = "ENABLED" /\ c \in enabling
         \/ status[c] = "ENABLED" /\ status'[c] = "PAUSED"
         \/ c \in Existing /\ status'[c] = "REMOVED"
  BY ProviderFrame DEF LunchIInv
<1>3. \A d \in Campaigns : Chosen(d)' => Chosen(d)
  BY <1>2 DEF Chosen, lunchCreators
<1>4. \A d \in Existing' : d \in Existing \/ (d = c /\ status[c] = "absent" /\ c \in creating)
  BY <1>2 DEF Existing
<1>5. ChosenOnce'
  <2>1. \A d, e \in Existing' : Chosen(d)' /\ Chosen(e)' => d = e
    BY <1>3, <1>4 DEF LunchIInv, ChosenOnce, Existing
  <2>2. \A d \in Campaigns : Chosen(d)' => status'[d] # "absent"
    BY <1>2, <1>3 DEF LunchIInv, ChosenOnce, Existing
  <2>3. \A d \in creating' : status'[d] = "absent"
    BY <1>2 DEF LunchIInv, ChosenOnce, Existing, LunchTypeOK, Chosen
  <2> QED
    BY <2>1, <2>2, <2>3 DEF ChosenOnce
<1>6. Creating' => Creating
  BY <1>2 DEF Creating, lunchCreators
<1>7. CostKept'
  <2> USE DEF LunchIInv, CostKept, LunchTypeOK
  <2>1. \A d \in Campaigns : spent'[d] <= cost'[d]
    BY <1>2
  <2>2. \A d \in Campaigns : status'[d] = "absent" => cost'[d] = 0
    BY <1>2 DEF Existing
  <2>3. Creating' => \A d \in Existing' : cost'[d] = IF serving' THEN spent'[d] ELSE 0
    <3>1. ASSUME Creating', NEW d \in Existing'
          PROVE  cost'[d] = IF serving' THEN spent'[d] ELSE 0
      <4>1. CASE d \in Existing
        BY <1>2, <1>6, <3>1, <4>1
      <4>2. CASE d = c /\ status[c] = "absent"
        <5>1. cost[c] = 0 /\ spent[c] <= cost[c] /\ spent[c] \in Nat
          BY <4>2
        <5>2. spent[c] = 0
          BY <5>1
        <5> QED
          BY <1>2, <4>2, <5>1, <5>2
      <4> QED
        BY <1>4, <3>1, <4>1, <4>2
    <3> QED
      BY <3>1
  <2>4. serving' => ~monitored' /\ monitorPc' = "idle"
    BY <1>2
  <2>5. ASSUME NEW d \in Campaigns, ~missed', status'[d] = "ENABLED"
        PROVE  (serving' => cost'[d] < Threshold + spent'[d]) /\ (monitored' => cost'[d] < Threshold)
    <3>1. CASE status[d] = "ENABLED"
      BY <1>2, <2>5, <3>1
    <3>2. CASE status[d] # "ENABLED"
      <4>1. d = c /\ status[c] = "PAUSED" /\ c \in enabling
        BY <1>2, <2>5, <3>2
      <4>2. Creating /\ c \in Existing
        BY <4>1 DEF Creating, Existing
      <4>3. cost[c] = IF serving THEN spent[c] ELSE 0
        BY <4>2
      <4>4. spent[c] \in Nat /\ Threshold \in Nat \ {0}
        OBVIOUS
      <4> QED
        BY <1>2, <4>1, <4>3, <4>4
    <3> QED
      BY <3>1, <3>2
  <2> QED
    BY <2>1, <2>2, <2>3, <2>4, <2>5 DEF CostKept
<1>8. LunchCapHeld'
  BY <1>2 DEF LunchIInv, LunchCapHeld
<1> QED
  BY <1>1, <1>5, <1>7, <1>8 DEF LunchIInv

\* What an active campaign may still cost today lies below the cap.
LEMMA SpendKeeps ==
  ASSUME LunchIInv, NEW c \in Campaigns, Spend(c)
  PROVE  LunchIInv'
<1>1. /\ status[c] = "ENABLED" /\ serving /\ spent[c] < DailyCeiling
      /\ cost' = [cost EXCEPT ![c] = @ + 1] /\ spent' = [spent EXCEPT ![c] = @ + 1]
      /\ UNCHANGED <<status, drift, creating, enabling, pausing, creatorPc, creatorOf,
                     monitorPc, monitorOf, writesOpen, day, serving, monitored, missed>>
  BY DEF Spend, lunchCreators, lunchMonitor
<1>2. LunchTypeOK'
  BY <1>1 DEF LunchIInv, LunchTypeOK
<1>3. ChosenOnce' /\ Creating' = Creating /\ Existing' = Existing
  BY <1>1 DEF LunchIInv, ChosenOnce, Chosen, Existing, Creating
<1>4. cost \in [Campaigns -> Nat] /\ spent \in [Campaigns -> 0..DailyCeiling]
  BY DEF LunchIInv, LunchTypeOK
<1>5. CostKept'
  BY <1>1, <1>3, <1>4 DEF LunchIInv, CostKept
<1>6. LunchCapHeld'
  <2>1. ASSUME ~missed PROVE cost[c] + 1 <= TotalCap
    <3>1. cost[c] < Threshold + spent[c]
      BY <1>1, <2>1 DEF LunchIInv, CostKept
    <3> QED
      BY <1>1, <1>4, <3>1
  <2> QED
    BY <1>1, <1>4, <2>1 DEF LunchIInv, LunchCapHeld
<1> QED
  BY <1>2, <1>3, <1>5, <1>6 DEF LunchIInv

-----------------------------------------------------------------------------
\* The calendar and the switch.

CalendarStep == HoursEnd \/ NextDay \/ SwitchWrites

LEMMA CalendarKeeps == ASSUME LunchIInv, CalendarStep PROVE LunchIInv'
<1> USE DEF lunchProvider, lunchCreators, lunchMonitor, lunchOutside
<1>1. UNCHANGED <<lunchProvider, lunchCreators, lunchMonitor>>
  BY DEF CalendarStep, HoursEnd, NextDay, SwitchWrites
<1>2. ChosenOnce' /\ Creating' = Creating /\ Existing' = Existing
  BY <1>1 DEF LunchIInv, ChosenOnce, Chosen, Existing, Creating
<1>3. CASE SwitchWrites
  BY <1>2, <1>3 DEF SwitchWrites, LunchIInv, LunchTypeOK, CostKept, LunchCapHeld
<1>4. ASSUME HoursEnd \/ NextDay PROVE ~Creating
  BY <1>4 DEF HoursEnd, NextDay, NothingUnderWay, Creating
<1>5. CASE HoursEnd
  BY <1>2, <1>4, <1>5 DEF HoursEnd, LunchIInv, LunchTypeOK, CostKept, LunchCapHeld
<1>6. CASE NextDay
  <2>1. LunchTypeOK'
    <3>1. day' \in 1..(LunchDays + 1) /\ spent' \in [Campaigns -> 0..DailyCeiling]
      BY <1>6 DEF NextDay, LunchIInv, LunchTypeOK
    <3>2. missed' \in BOOLEAN /\ serving' \in BOOLEAN /\ monitored' \in BOOLEAN
      BY <1>6, Zenon DEF NextDay, LunchIInv, LunchTypeOK
    <3>3. UNCHANGED <<status, drift, cost, creating, enabling, pausing, creatorPc, creatorOf,
                      monitorPc, monitorOf, writesOpen>>
      BY <1>6 DEF NextDay
    <3> QED
      BY <3>1, <3>2, <3>3 DEF LunchIInv, LunchTypeOK
  <2>2. CostKept'
    <3>1. /\ monitorPc' = "idle" /\ ~monitored' /\ serving'
          /\ spent' = [c \in Campaigns |-> 0] /\ UNCHANGED <<status, cost>>
          /\ ~missed' => ~missed /\ monitored
      BY <1>6 DEF NextDay, NothingUnderWay
    <3>2. cost \in [Campaigns -> Nat]
      BY DEF LunchIInv, LunchTypeOK
    <3>3. \A c \in Campaigns : ~missed' /\ status[c] = "ENABLED" => cost[c] < Threshold + 0
      BY <3>1, <3>2 DEF LunchIInv, CostKept
    <3>4. \A c \in Campaigns : status[c] = "absent" => cost[c] = 0
      BY DEF LunchIInv, CostKept
    <3> QED
      BY <1>2, <1>4, <1>6, <3>1, <3>2, <3>3, <3>4 DEF CostKept
  <2>3. LunchCapHeld'
    BY <1>6 DEF NextDay, LunchIInv, LunchCapHeld
  <2> QED
    BY <1>2, <2>1, <2>2, <2>3 DEF LunchIInv
<1> QED
  BY <1>3, <1>5, <1>6 DEF CalendarStep

LEMMA LunchStep == ASSUME LunchIInv, [LunchNext]_lunchVars PROVE LunchIInv'
<1>1. CASE UNCHANGED lunchVars
  BY <1>1 DEF LunchIInv, LunchTypeOK, ChosenOnce, Chosen, CostKept, Creating, Existing,
     LunchCapHeld, lunchVars, lunchProvider, lunchCreators, lunchMonitor, lunchOutside
<1>2. CASE LunchNext
  <2>1. \/ \E w \in Creators : CreatorStep(w)
        \/ MonitorStep
        \/ \E c \in Campaigns : ProviderStep(c) \/ Spend(c)
        \/ CalendarStep
    BY <1>2 DEF LunchNext, CreatorStep, MonitorStep, ProviderStep, CalendarStep
  <2> QED
    BY <2>1, CreatorKeeps, MonitorKeeps, ProviderKeeps, SpendKeeps, CalendarKeeps
<1> QED
  BY <1>1, <1>2

\* The invariant of the lunch campaign: one campaign is chosen, and what may still be
\* spent is known.
THEOREM LunchInductive == LunchSpec => []LunchIInv
<1> QED
  BY LunchInitIInv, LunchStep, PTL DEF LunchSpec

\* However many create tasks overlap, at most one campaign of the name is active.
THEOREM OneCampaignRuns == LunchSpec => []OneLunchActive
<1>1. LunchIInv => OneLunchActive
  BY DEF LunchIInv, ChosenOnce, Chosen, Existing, OneLunchActive
<1> QED
  BY <1>1, LunchInductive, PTL

\* As long as the monitor completes every day, the campaign stays within its cap: the
\* threshold leaves room for one day of overdelivery.
THEOREM CapHolds == LunchSpec => []LunchCapHeld
<1>1. LunchIInv => LunchCapHeld
  BY DEF LunchIInv
<1> QED
  BY <1>1, LunchInductive, PTL

HIDE LunchAssumption
HIDE CampaignAssumption

-----------------------------------------------------------------------------
(* The canary: a rollback removes what its own run added, and what a run    *)
(* leaves behind it names.                                                  *)

USE MaxCanaryRunsAssumption

CanaryIInv == CanaryTypeOK /\ CanaryKept /\ VerdictKept /\ RemovesItsOwn

LEMMA MakerFacts ==
  /\ CanaryRuns \subseteq Nat \ {0} /\ CanaryRuns \subseteq 0..MaxCanaryRuns
  /\ People \notin CanaryRuns /\ NoMaker \notin Makers /\ CanaryRuns \subseteq Makers
  /\ \A r \in CanaryRuns : r \in Nat /\ r # People
BY DEF CanaryRuns, People, NoMaker, Makers

LEMMA CanaryInitIInv == CanaryInit => CanaryIInv
<1> SUFFICES ASSUME CanaryInit PROVE CanaryIInv
  OBVIOUS
<1>1. CanaryTypeOK
  <2>1. criteria \subseteq Makers
    BY DEF CanaryInit, Makers
  <2>2. canaryRun \in 0..MaxCanaryRuns
    BY DEF CanaryInit
  <2> QED
    BY <2>1, <2>2 DEF CanaryInit, CanaryTypeOK, CanaryModes
<1>2. CanaryKept /\ VerdictKept /\ RemovesItsOwn
  BY DEF CanaryInit, CanaryKept, VerdictKept, RemovesItsOwn
<1> QED
  BY <1>1, <1>2 DEF CanaryIInv

\* A new run has sent nothing yet.
LEMMA CanaryStartStep == ASSUME CanaryIInv, CanaryStart PROVE CanaryIInv'
<1> USE DEF CanaryIInv, CanaryTypeOK, CanaryStart, canaryProvider
<1>1. /\ canaryRun' = canaryRun + 1 /\ canaryRun' \in CanaryRuns /\ canaryRun < canaryRun'
      /\ canaryRun \in Nat
      /\ UNCHANGED <<criteria, adding, removing, made, authExpired>>
      /\ usedSteps' = {} /\ named' = FALSE /\ emergency' = FALSE
      /\ target' = NoMaker /\ removed' = FALSE
  BY DEF CanaryRuns
<1>2. /\ canaryPc' \in {"read_before", "ended"}
      /\ canaryPc' = "ended" => canaryVerdict' = "BLOCKED"
      /\ canaryVerdict' \in {"none", "BLOCKED"} /\ canaryMode' \in CanaryModes
  OBVIOUS
<1> HIDE DEF CanaryStart
<1>3. CanaryTypeOK'
  BY <1>1, <1>2, MakerFacts
<1>4. canaryRun' \notin adding' \cup made' /\ \A r \in adding' \cup made' : r <= canaryRun'
  <2>1. \A r \in adding \cup made : r <= canaryRun /\ r \in Nat
    BY MakerFacts DEF CanaryKept
  <2> QED
    BY <1>1, <2>1
<1>5. CanaryKept' /\ VerdictKept' /\ RemovesItsOwn'
  BY <1>1, <1>2, <1>4 DEF CanaryKept, VerdictKept, RemovesItsOwn
<1> QED
  BY <1>3, <1>5

\* Up to the answer to the ADD.
LEMMA CanaryAddStep ==
  ASSUME CanaryIInv,
         \/ CanaryReadBefore \/ CanaryPreflight \/ CanaryExecuteAdd \/ CanaryAddAnswered
         \/ CanaryAddUnverified \/ CanaryPollAdd
  PROVE  CanaryIInv'
<1> USE DEF CanaryIInv, CanaryTypeOK, CanaryKept, VerdictKept, RemovesItsOwn, canaryProvider,
            CanaryGoto, CanaryEnd, CanarySteps, CanaryModes
<1>1. CASE CanaryReadBefore
  <2>1. /\ \/ canaryPc' = "preflight" /\ canaryVerdict' = canaryVerdict
           \/ canaryPc' = "ended" /\ canaryVerdict' \in {"BLOCKED", "EXCEPTION"}
        /\ canaryPc = "read_before"
        /\ UNCHANGED <<criteria, adding, removing, made, canaryRun, canaryMode, usedSteps, named,
                       emergency, target, removed, authExpired>>
    BY <1>1 DEF CanaryReadBefore
  <2> HIDE DEF CanaryGoto, CanaryEnd
  <2> QED
    BY <2>1
<1>2. CASE CanaryPreflight
  <2>1. /\ \/ canaryPc' = "execute_add" /\ canaryVerdict' = canaryVerdict
           \/ canaryPc' = "ended" /\ canaryVerdict' \in {"BLOCKED", "READY"}
        /\ canaryPc = "preflight"
        /\ usedSteps' \in {usedSteps, usedSteps \cup {"ADD"}}
        /\ UNCHANGED <<criteria, adding, removing, made, canaryRun, canaryMode, named,
                       emergency, target, removed, authExpired>>
    BY <1>2 DEF CanaryPreflight
  <2> HIDE DEF CanaryGoto, CanaryEnd
  <2> QED
    BY <2>1
<1>3. CASE CanaryExecuteAdd
  BY <1>3, MakerFacts DEF CanaryExecuteAdd
<1>4. CASE CanaryAddAnswered
  BY <1>4 DEF CanaryAddAnswered
<1>5. CASE CanaryAddUnverified
  BY <1>5 DEF CanaryAddUnverified
<1>6. CASE CanaryPollAdd
  BY <1>6 DEF CanaryPollAdd
<1> QED
  BY <1>1, <1>2, <1>3, <1>4, <1>5, <1>6

\* The rollback, of the run's own keyword unless the provider never named it.
LEMMA CanaryRollbackStep ==
  ASSUME CanaryIInv, CanaryCheckAdd \/ CanaryFind
  PROVE  CanaryIInv'
<1> USE DEF CanaryIInv, CanaryTypeOK, CanaryKept, VerdictKept, RemovesItsOwn, canaryProvider,
            CanaryClaim, CanarySteps
<1>1. CASE CanaryCheckAdd
  BY <1>1, MakerFacts DEF CanaryCheckAdd
<1>2. CASE CanaryFind
  BY <1>2, MakerFacts DEF CanaryFind, FindCreated
<1> QED
  BY <1>1, <1>2

LEMMA CanaryRemoveStep ==
  ASSUME CanaryIInv,
         \/ CanaryExecuteRemove \/ CanaryRemoveAnswered \/ CanaryRemoveUnverified
         \/ CanaryPollRemove \/ CanaryFinal \/ CanaryEmergencyFinal \/ CanaryException
         \/ CanaryRestart
  PROVE  CanaryIInv'
<1> USE DEF CanaryIInv, CanaryTypeOK, CanaryKept, VerdictKept, RemovesItsOwn, canaryProvider,
            CanaryGoto, CanaryEnd
<1>1. CASE CanaryExecuteRemove
  BY <1>1 DEF CanaryExecuteRemove
<1>2. CASE CanaryRemoveAnswered \/ CanaryRemoveUnverified \/ CanaryPollRemove
  <2>1. /\ canaryPc \in {"execute_remove", "post_remove", "poll_remove"}
        /\ canaryPc' \in {"poll_remove", "final"} /\ removed' \in BOOLEAN
        /\ UNCHANGED <<criteria, adding, removing, made, canaryRun, canaryMode, usedSteps, named,
                       emergency, target, canaryVerdict, authExpired>>
    BY <1>2 DEF CanaryRemoveAnswered, CanaryRemoveUnverified, CanaryPollRemove
  <2> QED
    BY <2>1
<1>3. CASE CanaryFinal \/ CanaryEmergencyFinal
  BY <1>3 DEF CanaryFinal, CanaryEmergencyFinal, RollbackVerified
<1>4. CASE CanaryException
  BY <1>4 DEF CanaryException
<1>5. CASE CanaryRestart
  BY <1>5 DEF CanaryRestart
<1> QED
  BY <1>1, <1>2, <1>3, <1>4, <1>5

\* The provider, people and the clock.
LEMMA CanaryOutsideStep ==
  ASSUME CanaryIInv,
         \/ \E r \in CanaryRuns : AddApplies(r) \/ AddRefused(r)
         \/ \E c \in Makers : RemoveApplies(c)
         \/ PeopleEdit \/ CanaryExpires
  PROVE  CanaryIInv'
<1> USE DEF CanaryIInv, CanaryTypeOK, CanaryKept, VerdictKept, RemovesItsOwn, canaryProvider,
            canaryProcess
<1>1. CASE \E r \in CanaryRuns : AddApplies(r)
  BY <1>1, MakerFacts DEF AddApplies
<1>2. CASE \E r \in CanaryRuns : AddRefused(r)
  BY <1>2 DEF AddRefused
<1>3. CASE \E c \in Makers : RemoveApplies(c)
  BY <1>3 DEF RemoveApplies
<1>4. CASE PeopleEdit
  <2>1. /\ criteria' \ {People} \subseteq criteria \ {People} /\ criteria' \subseteq Makers
        /\ UNCHANGED <<adding, removing, made, canaryProcess, authExpired>>
    BY <1>4 DEF PeopleEdit, Makers
  <2>2. canaryRun \in CanaryRuns /\ canaryRun \notin criteria => canaryRun \notin criteria'
    BY <2>1, MakerFacts
  <2>3. CanaryTypeOK' /\ CanaryKept'
    BY <2>1
  <2>4. VerdictKept'
    BY <2>1, <2>2
  <2> QED
    BY <2>1, <2>3, <2>4
<1>5. CASE CanaryExpires
  BY <1>5 DEF CanaryExpires
<1> QED
  BY <1>1, <1>2, <1>3, <1>4, <1>5

LEMMA CanaryInductiveStep == ASSUME CanaryIInv, [CanaryNext]_canaryVars PROVE CanaryIInv'
<1>1. CASE UNCHANGED canaryVars
  BY <1>1 DEF canaryVars, canaryProvider, canaryProcess, CanaryIInv, CanaryTypeOK, CanaryKept,
     VerdictKept, RemovesItsOwn
<1>2. CASE CanaryNext
  BY <1>2, CanaryStartStep, CanaryAddStep, CanaryRollbackStep, CanaryRemoveStep,
     CanaryOutsideStep DEF CanaryNext, CanaryStep
<1> QED
  BY <1>1, <1>2

\* The canary's types and what it keeps about each run, from which the next two follow.
THEOREM CanaryInductive == CanarySpec => []CanaryIInv
<1> QED
  BY CanaryInitIInv, CanaryInductiveStep, PTL DEF CanarySpec

\* Only a run whose ADD was never answered with a name can remove what it did not make.
THEOREM CanaryRemovesItsOwn == CanarySpec => []RemovesItsOwn
<1>1. CanaryIInv => RemovesItsOwn
  BY DEF CanaryIInv
<1> QED
  BY <1>1, CanaryInductive, PTL

\* A run that reports success has not left its keyword active, however late the provider
\* carried out the ADD and whenever the process was replaced.
THEOREM CanaryLeavesNothingSilently == CanarySpec => []NoSilentLeftover
<1>1. CanaryIInv => NoSilentLeftover
  BY MakerFacts DEF CanaryIInv, CanaryTypeOK, CanaryKept, VerdictKept, NoSilentLeftover
<1> QED
  BY <1>1, CanaryInductive, PTL

HIDE MaxCanaryRunsAssumption
================================================================================
