-------------------------- MODULE ObjectiveIntake --------------------------
(***************************************************************************)
(* The two ways by which an objective comes to the runtime without a       *)
(* person: the recurring schedule (recurring-objective-scheduler.js and    *)
(* its -bootstrap.js) and the signed ingress (objective-ingress-auth.js    *)
(* with its route).  runtime.submit adds an objective whatever its id, so  *)
(* each way has to see that it submits once.                               *)
(***************************************************************************)
EXTENDS Naturals, FiniteSets

CONSTANTS
    Slots,             \* local times of day, with their date
    LocalTime,         \* of every minute; one hour comes twice in autumn
    LastMinute,        \* bound
    MaxRecovery,       \* maxRecoveryMinutes, 2880
    MaxUnsaved,        \* bound: ticks that are not stored
    Calls,             \* requests to the ingress
    ObjectiveOf,       \* the objective id a request brings
    Attempt            \* its run, attempt and commit, the key of its receipt

ASSUME IntakeAssumption ==
    /\ LastMinute \in Nat \ {0} /\ MaxRecovery \in Nat /\ MaxUnsaved \in Nat
    /\ LocalTime \in [1..LastMinute -> Slots]
    /\ IsFiniteSet(Slots) /\ IsFiniteSet(Calls)

NoSlot == "no schedule"
Kinds == {"allowed", "idempotent_existing"}
Receipts == [attempt : {Attempt[c] : c \in Calls}, id : {ObjectiveOf[c] : c \in Calls},
             kind : Kinds]

VARIABLES
    (* the recurring state file *)
    cadence, enabled,  \* the managed schedule
    emitted,           \* slots for which an objective was submitted
    lastScan,
    (* the ingress state file *)
    receipts,
    (* the server *)
    minute, running,
    callPc,            \* "sent", "verifying", "submit", "answered"
    loaded,            \* the receipts a call read before it awaits the signature
    (* the runtime and history *)
    recurred,          \* objectives submitted, by slot
    taken,             \* objectives submitted, by id
    unsaved,           \* ticks that submitted and were not stored
    overtaken          \* some call stored receipts over newer ones

recurringVars == <<cadence, enabled, emitted, lastScan, recurred, unsaved>>
ingressVars == <<receipts, callPc, loaded, taken, overtaken>>
intakeVars == <<recurringVars, ingressVars, minute, running>>

IntakeTypeOK ==
    /\ cadence \in Slots \cup {NoSlot} /\ enabled \in BOOLEAN
    /\ emitted \subseteq Slots /\ lastScan \in 0..LastMinute
    /\ receipts \subseteq Receipts
    /\ minute \in 1..LastMinute /\ running \in BOOLEAN
    /\ callPc \in [Calls -> {"sent", "verifying", "submit", "answered"}]
    /\ loaded \in [Calls -> SUBSET Receipts]
    /\ recurred \in [Slots -> Nat] /\ taken \in [{ObjectiveOf[c] : c \in Calls} -> Nat]
    /\ unsaved \in Nat /\ overtaken \in BOOLEAN

IntakeInit ==
    /\ cadence = NoSlot /\ enabled = FALSE /\ emitted = {} /\ lastScan = 0
    /\ receipts = {}
    /\ minute = 1 /\ running = FALSE
    /\ callPc = [c \in Calls |-> "sent"] /\ loaded = [c \in Calls |-> {}]
    /\ recurred = [s \in Slots |-> 0]
    /\ taken = [i \in {ObjectiveOf[c] : c \in Calls} |-> 0]
    /\ unsaved = 0 /\ overtaken = FALSE

(***************************************************************************)
(* startAutonomousRuntime reconciles the managed schedule with the         *)
(* configuration: it is created, brought back from drift, or disabled; a   *)
(* disabled one keeps its place, and a campaign id that is invalid leaves  *)
(* an enabled one alone.                                                   *)
(***************************************************************************)
ReconcileSchedule(on, slot, valid) ==
    /\ ~running
    /\ running' = TRUE
    /\ cadence' = IF valid /\ (on \/ cadence # NoSlot) THEN slot ELSE cadence
    /\ enabled' = IF on THEN valid \/ enabled ELSE FALSE
    /\ UNCHANGED <<emitted, lastScan, recurred, unsaved, ingressVars, minute>>

(***************************************************************************)
(* A tick looks at every minute since the last scan, as far back as the    *)
(* recovery reaches, and submits what is due and not emitted.  A busy lock *)
(* skips the slot for good; any other error, or a death, ends the tick     *)
(* before it stores anything.                                              *)
(***************************************************************************)
ScanFrom ==
    IF lastScan = 0 THEN minute
    ELSE IF minute > MaxRecovery /\ lastScan + 1 < minute - MaxRecovery
         THEN minute - MaxRecovery ELSE lastScan + 1

DueSlots == {s \in Slots : enabled /\ s = cadence /\ \E m \in ScanFrom..minute : LocalTime[m] = s}

\* Variant: what was emitted is not looked up.
NotEmittedAny == DueSlots

NotEmitted == DueSlots \ emitted

(* Of the marks the code keeps a thousand, more than the slots one schedule *)
(* has in MaxRecovery minutes.                                              *)
SchedulerTick(sent, end) ==
    /\ running
    /\ sent \subseteq NotEmitted
    /\ end = "stored" \/ unsaved < MaxUnsaved
    /\ recurred' = [s \in Slots |-> IF s \in sent THEN recurred[s] + 1 ELSE recurred[s]]
    /\ IF end = "stored"
       THEN /\ emitted' = emitted \cup sent /\ lastScan' = minute
            /\ UNCHANGED <<unsaved, running>>
       ELSE /\ unsaved' = unsaved + 1
            /\ running' = (end = "threw")
            /\ UNCHANGED <<emitted, lastScan>>
    /\ UNCHANGED <<cadence, enabled, minute>>
    /\ IF running' THEN UNCHANGED ingressVars
       ELSE /\ callPc' = [c \in Calls |-> IF callPc[c] = "sent" THEN "sent" ELSE "answered"]
            /\ UNCHANGED <<receipts, loaded, taken, overtaken>>

MinutePasses ==
    /\ minute < LastMinute
    /\ minute' = minute + 1
    /\ UNCHANGED <<recurringVars, ingressVars, running>>

(***************************************************************************)
(* authorize reads the receipts, awaits the signature, and stores its copy *)
(* with what it adds.                                                      *)
(***************************************************************************)
Load(c) ==
    /\ running /\ callPc[c] = "sent"
    /\ callPc' = [callPc EXCEPT ![c] = "verifying"]
    /\ loaded' = [loaded EXCEPT ![c] = receipts]
    /\ UNCHANGED <<receipts, taken, overtaken, recurringVars, minute, running>>

Stores(c, new) ==
    /\ receipts' = loaded[c] \cup new
    /\ overtaken' = (overtaken \/ receipts # loaded[c])
    /\ UNCHANGED <<loaded, taken, recurringVars, minute, running>>

Receipt(c, k) == [attempt |-> Attempt[c], id |-> ObjectiveOf[c], kind |-> k]
Replayed(c) == \E r \in loaded[c] : r.attempt = Attempt[c] /\ r.id = ObjectiveOf[c]
Prior(c) == \E r \in loaded[c] : r.id = ObjectiveOf[c] /\ r.kind = "allowed"

\* The signature or the binding to the run is refused, or the attempt is a replay.
Refuse(c) ==
    /\ callPc[c] = "verifying"
    /\ callPc' = [callPc EXCEPT ![c] = "answered"]
    /\ Stores(c, {})

Existing(c) ==
    /\ callPc[c] = "verifying" /\ ~Replayed(c) /\ Prior(c)
    /\ callPc' = [callPc EXCEPT ![c] = "answered"]
    /\ Stores(c, {Receipt(c, "idempotent_existing")})

Allow(c) ==
    /\ callPc[c] = "verifying" /\ ~Replayed(c) /\ ~Prior(c)
    /\ callPc' = [callPc EXCEPT ![c] = "submit"]
    /\ Stores(c, {Receipt(c, "allowed")})

\* Back in the route: the objective is submitted, or the lock is busy and it is lost.
IngressSubmit(c, busy) ==
    /\ callPc[c] = "submit"
    /\ callPc' = [callPc EXCEPT ![c] = "answered"]
    /\ taken' = IF busy THEN taken ELSE [taken EXCEPT ![ObjectiveOf[c]] = @ + 1]
    /\ UNCHANGED <<receipts, loaded, overtaken, recurringVars, minute, running>>

IntakeRestart ==
    /\ running
    /\ running' = FALSE
    /\ callPc' = [c \in Calls |-> IF callPc[c] = "sent" THEN "sent" ELSE "answered"]
    /\ UNCHANGED <<recurringVars, receipts, loaded, taken, overtaken, minute>>

IntakeNext ==
    \/ \E on \in BOOLEAN, slot \in Slots, valid \in BOOLEAN : ReconcileSchedule(on, slot, valid)
    \/ \E sent \in SUBSET Slots, end \in {"stored", "threw", "died"} :
        SchedulerTick(sent, end)
    \/ MinutePasses \/ IntakeRestart
    \/ \E c \in Calls : Load(c) \/ Refuse(c) \/ Existing(c) \/ Allow(c)
    \/ \E c \in Calls, busy \in BOOLEAN : IngressSubmit(c, busy)

IntakeSpec == IntakeInit /\ [][IntakeNext]_intakeVars

(***************************************************************************)
(* Properties.                                                             *)
(***************************************************************************)

\* An objective is taken in once.  A slot of the schedule is submitted once however far
\* the scan has to catch up, through the hour that comes twice and through every change
\* of the schedule, and again only for a tick that submitted and could not store it; an
\* id that comes through the ingress again is submitted once, unless a call stored its
\* receipts over those of another that came in between (tick, authorize).
TakenOnce ==
    /\ \A s \in Slots : recurred[s] <= 1 + unsaved
    /\ overtaken \/ \A i \in DOMAIN taken : taken[i] <= 1

\* What strengthens TakenOnce: what was submitted is marked or counted as unsaved, and
\* an id that was submitted, or is about to be, has its receipt.
Pending(i) == {c \in Calls : ObjectiveOf[c] = i /\ callPc[c] = "submit"}
IntakeKept ==
    /\ \A s \in Slots : recurred[s] <= (IF s \in emitted THEN 1 ELSE 0) + unsaved
    /\ ~overtaken => \A i \in DOMAIN taken :
        /\ taken[i] + Cardinality(Pending(i)) <= 1
        /\ taken[i] + Cardinality(Pending(i)) > 0 =>
            \E r \in receipts : r.id = i /\ r.kind = "allowed"
=============================================================================
