---------------------------- MODULE AdsExperiments ----------------------------
(***************************************************************************)
(* Experiments with ads: the engine of ads-controlled-execution-core.js,   *)
(* with its exploration policy and its append-only store, and the          *)
(* functions of meta-ads-experiment-engine.js, whose caller keeps what     *)
(* they return.  No server route reaches either: they are libraries, here  *)
(* used by any caller of their interface.                                  *)
(*                                                                         *)
(* The engine's table of experiments is in memory.  It changes the table   *)
(* and then appends to the store, which may throw; a restart empties the   *)
(* table, while the records stay.  The decision an experiment is closed    *)
(* with (outcome_decision) is left out: nothing reads it, and a caller may *)
(* close any live experiment with any words.                               *)
(***************************************************************************)
EXTENDS Naturals, Sequences, FiniteSets

CONSTANTS
    Tests,        \* experiments of the engine
    TestInput,    \* of each: class, lowVolume, cost, daily
    Policy,       \* cost, daily, campaign, concurrent, oneSerendipity
    MetaTests,    \* experiments of the Meta functions
    MaxThrows     \* bound: appends that throw

Classes == {"OPTIMIZATION_TEST", "SERENDIPITY_TEST"}

ASSUME TestAssumption ==
    /\ TestInput \in [Tests -> [class : Classes, lowVolume : BOOLEAN, cost : Nat, daily : Nat]]
    /\ Policy \in [cost : Nat, daily : Nat, campaign : Nat, concurrent : Nat,
                   oneSerendipity : BOOLEAN]
    /\ MaxThrows \in Nat

VARIABLES
    order,         \* the table of the engine, in the order of creation
    testStatus,    \* "forgotten" once a restart has emptied the table
    throws,
    shownStatus,   \* the status the store shows
    approvals,     \* history: what an operator has approved
    pastEnd,       \* experiments whose expires_at has passed
    metaStatus

testVars == <<order, testStatus, throws, shownStatus, approvals, pastEnd, metaStatus>>
engineVars == <<order, testStatus, throws, shownStatus>>

(* The stages of a life, in the order in which they are passed.             *)
Life == <<"none", "DRAFT", "PREFLIGHT", "AWAITING_APPROVAL", "RUNNING", "OBSERVING",
          "CLOSED", "forgotten">>
Rank(s) == CHOOSE i \in DOMAIN Life : Life[i] = s
LiveStages == {"DRAFT", "PREFLIGHT", "AWAITING_APPROVAL", "RUNNING", "OBSERVING"}
TestOutcomes == {"KEEP", "EXTEND", "ROLLBACK"}
Events == LiveStages \cup TestOutcomes \cup {"CLOSED"}

ExperimentsTypeOK ==
    /\ order \in Seq(Tests)
    /\ testStatus \in [Tests -> {Life[i] : i \in DOMAIN Life}]
    /\ throws \in 0..MaxThrows
    /\ shownStatus \in [Tests -> {"none", "CLOSED"} \cup LiveStages]
    /\ approvals \subseteq Tests \cup MetaTests /\ pastEnd \subseteq Tests \cup MetaTests
    /\ metaStatus \in [MetaTests -> {"none", "CLOSED", "KEEP", "ROLLBACK"} \cup LiveStages]

ExperimentsInit ==
    /\ order = <<>> /\ testStatus = [e \in Tests |-> "none"]
    /\ shownStatus = [e \in Tests |-> "none"]
    /\ throws = 0 /\ approvals = {} /\ pastEnd = {}
    /\ metaStatus = [m \in MetaTests |-> "none"]

-----------------------------------------------------------------------------
(* The rules of the engine.                                                 *)

WithinBudget(e) ==
    /\ TestInput[e].cost <= Policy.cost
    /\ TestInput[e].daily <= Policy.daily
    /\ TestInput[e].cost <= Policy.campaign

OpenTests == {e \in Tests : testStatus[e] \in LiveStages}

Serendipity(S) == {e \in S : TestInput[e].class = "SERENDIPITY_TEST"}

(* Only the candidate's own volume counts.                                  *)
NoSecondSerendipity(e, others) ==
    e \in Serendipity({e}) /\ Policy.oneSerendipity /\ TestInput[e].lowVolume
        => Serendipity(others) = {}

\* Variant: the cap is compared with > where the code has >=.
MayRunBesideOneMore(e) ==
    LET others == OpenTests \ {e}
    IN  /\ Cardinality(others) <= Policy.concurrent
        /\ NoSecondSerendipity(e, others)

MayRunBeside(e) ==
    LET others == OpenTests \ {e}
    IN  /\ Policy.concurrent # 0 /\ Cardinality(others) < Policy.concurrent
        /\ NoSecondSerendipity(e, others)

(* The events a stage allows.                                               *)
Follows(s) ==
    CASE s = "DRAFT" -> {"PREFLIGHT", "CLOSED"}
      [] s = "PREFLIGHT" -> {"AWAITING_APPROVAL", "RUNNING", "CLOSED"}
      [] s = "AWAITING_APPROVAL" -> {"RUNNING", "CLOSED"}
      [] s = "RUNNING" -> {"OBSERVING", "CLOSED"}
      [] s = "OBSERVING" -> TestOutcomes \cup {"CLOSED"}
      [] OTHER -> {}

(* Every experiment is made with approval_required.                         *)
ApprovedAsNeeded(s, event, approved) ==
    /\ event = "RUNNING" => approved
    /\ s = "PREFLIGHT" /\ event = "AWAITING_APPROVAL" => ~approved

-----------------------------------------------------------------------------
(* The store.  append reads the whole file, adds the record and replaces    *)
(* the file; it throws with the record absent, or present when only the     *)
(* last flush of the directory fails.                                       *)
MayThrow == throws < MaxThrows /\ throws' = throws + 1

AppendRecord(e, s) ==
    \/ shownStatus' = [shownStatus EXCEPT ![e] = s] /\ UNCHANGED throws
    \/ shownStatus' \in {shownStatus, [shownStatus EXCEPT ![e] = s]} /\ MayThrow

-----------------------------------------------------------------------------
(* The operations.  Each is synchronous.                                    *)

(* The input has every field, and its end is still to come.                 *)
NewDraft(e) == testStatus[e] = "none" /\ e \notin pastEnd

Create(e) ==
    /\ NewDraft(e)
    /\ WithinBudget(e) /\ MayRunBeside(e)
    /\ testStatus' = [testStatus EXCEPT ![e] = "DRAFT"]
    /\ order' = order \o <<e>>
    /\ AppendRecord(e, "DRAFT")
    /\ UNCHANGED <<approvals, pastEnd, metaStatus>>

(* An event on an experiment past its end closes it, whatever the event.    *)
Expires(e) ==
    /\ testStatus[e] \in LiveStages /\ e \in pastEnd
    /\ testStatus' = [testStatus EXCEPT ![e] = "CLOSED"]
    /\ AppendRecord(e, "CLOSED")
    /\ UNCHANGED <<order, approvals, pastEnd, metaStatus>>

(* KEEP, EXTEND and ROLLBACK close.  Any live stage may be closed, with any  *)
(* words of the caller as the decision, those of an outcome too.            *)
Transition(e, event, approved) ==
    LET s == testStatus[e]
        next == IF event \in TestOutcomes THEN "CLOSED" ELSE event
    IN  /\ e \notin pastEnd /\ event \in Follows(s)
        /\ ApprovedAsNeeded(s, event, approved)
        /\ next = "RUNNING" => MayRunBeside(e)
        /\ testStatus' = [testStatus EXCEPT ![e] = next]
        /\ approvals' = IF approved /\ event = "RUNNING" THEN approvals \cup {e} ELSE approvals
        /\ AppendRecord(e, next)
        /\ UNCHANGED <<order, pastEnd, metaStatus>>

(* From a draft, approve walks through three transitions; one that throws   *)
(* leaves the experiment where it is.                                       *)
ApproveDraft(e) ==
    /\ testStatus[e] = "DRAFT" /\ e \notin pastEnd
    /\ \E stop \in {"PREFLIGHT", "AWAITING_APPROVAL", "RUNNING"} :
          /\ testStatus' = [testStatus EXCEPT ![e] = stop]
          /\ \/ /\ stop = "RUNNING" /\ MayRunBeside(e)
                /\ AppendRecord(e, stop)
             \/ /\ stop = "AWAITING_APPROVAL" /\ ~MayRunBeside(e)
                /\ shownStatus' = [shownStatus EXCEPT ![e] = stop] /\ UNCHANGED throws
             \/ /\ stop # "RUNNING" /\ MayThrow
                /\ \E shown \in {stop, IF stop = "PREFLIGHT" THEN shownStatus[e] ELSE "PREFLIGHT"} :
                      shownStatus' = [shownStatus EXCEPT ![e] = shown]
    /\ approvals' = approvals \cup {e}
    /\ UNCHANGED <<order, pastEnd, metaStatus>>

(* expireAll, in the order of creation; an append that throws ends it after *)
(* the experiment is closed.                                                *)
ExpireAll ==
    LET due == {i \in DOMAIN order : /\ testStatus[order[i]] \in LiveStages
                                     /\ order[i] \in pastEnd}
        upTo(n) == {order[i] : i \in {j \in due : j <= n}}
    IN  \E last \in due : \E noted \in {last - 1, last} :
          /\ testStatus' = [e \in Tests |-> IF e \in upTo(last) THEN "CLOSED" ELSE testStatus[e]]
          /\ shownStatus' = [e \in Tests |-> IF e \in upTo(noted) THEN "CLOSED"
                                             ELSE shownStatus[e]]
          /\ IF \A i \in due : i <= noted THEN UNCHANGED throws ELSE MayThrow
          /\ UNCHANGED <<order, approvals, pastEnd, metaStatus>>

(* The table is not read back from the store.                               *)
EngineRestart ==
    /\ order # <<>> /\ order' = <<>>
    /\ testStatus' = [e \in Tests |-> IF testStatus[e] = "none" THEN "none" ELSE "forgotten"]
    /\ UNCHANGED <<throws, shownStatus, approvals, pastEnd, metaStatus>>

-----------------------------------------------------------------------------
(* The Meta functions.  A caller keeps what they return; whether there is   *)
(* another search, or money for it, are functions of their own, which no    *)
(* code calls with them.                                                    *)

MetaCreate(m) ==
    /\ metaStatus[m] = "none" /\ m \notin pastEnd
    /\ metaStatus' = [metaStatus EXCEPT ![m] = "DRAFT"]
    /\ UNCHANGED <<engineVars, approvals, pastEnd>>

MetaFollows(s) ==
    CASE s = "DRAFT" -> {"PREFLIGHT", "CLOSED"}
      [] s = "PREFLIGHT" -> {"AWAITING_APPROVAL", "CLOSED"}
      [] s = "AWAITING_APPROVAL" -> {"RUNNING", "CLOSED"}
      [] s = "RUNNING" -> {"OBSERVING", "CLOSED"}
      [] s = "OBSERVING" -> {"KEEP", "ROLLBACK", "CLOSED"}
      [] s \in {"KEEP", "ROLLBACK"} -> {"CLOSED"}
      [] OTHER -> {}

(* Past the end any event closes, also what is closed.                      *)
MetaTransition(m, event, approved) ==
    /\ metaStatus[m] # "none"
    /\ IF m \in pastEnd
       THEN metaStatus' = [metaStatus EXCEPT ![m] = "CLOSED"]
       ELSE /\ event \in MetaFollows(metaStatus[m])
            /\ event = "RUNNING" => approved
            /\ metaStatus' = [metaStatus EXCEPT ![m] = event]
    /\ approvals' = IF approved /\ event = "RUNNING" THEN approvals \cup {m} ELSE approvals
    /\ UNCHANGED <<engineVars, pastEnd>>

EndPasses(e) ==
    /\ e \notin pastEnd /\ pastEnd' = pastEnd \cup {e}
    /\ UNCHANGED <<engineVars, approvals, metaStatus>>

-----------------------------------------------------------------------------
EngineNext ==
    \/ \E e \in Tests :
          \/ Create(e) \/ Expires(e) \/ ApproveDraft(e) \/ EndPasses(e)
          \/ \E event \in Events, approved \in BOOLEAN  : Transition(e, event, approved)
    \/ ExpireAll \/ EngineRestart

MetaTestsNext ==
    \E m \in MetaTests :
       \/ MetaCreate(m) \/ EndPasses(m)
       \/ \E event \in Events, approved \in BOOLEAN  : MetaTransition(m, event, approved)

ExperimentsSpec == ExperimentsInit /\ [][EngineNext \/ MetaTestsNext]_testVars

-----------------------------------------------------------------------------
(* The cage of the experiments, through appends that throw, expiries,       *)
(* closings for any reason and approvals that stop halfway: of those the    *)
(* engine knows (a restart forgets them), never more open than the policy   *)
(* allows, and never two open searches for serendipity that are both on     *)
(* campaigns of low volume.  Nothing runs, and the store shows nothing as   *)
(* running, also after a restart, that no operator approved; and the store  *)
(* never shows an experiment further than it is.                            *)
ExperimentsCaged ==
    /\ Cardinality(OpenTests) <= Policy.concurrent
    /\ Policy.oneSerendipity =>
          \A e, f \in Serendipity(OpenTests) :
              TestInput[e].lowVolume /\ TestInput[f].lowVolume => e = f
    /\ \A e \in Tests : {testStatus[e], shownStatus[e]} \cap {"RUNNING", "OBSERVING"} # {}
                          => e \in approvals
    /\ \A e \in Tests : Rank(shownStatus[e]) <= Rank(testStatus[e])
    /\ \A m \in MetaTests : metaStatus[m] \in {"RUNNING", "OBSERVING", "KEEP", "ROLLBACK"}
                              => m \in approvals
=============================================================================
