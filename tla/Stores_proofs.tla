----------------------------- MODULE Stores_proofs -----------------------------
(***************************************************************************)
(* The components that work from what they have stored, for every value of *)
(* their constants: each one's invariant and what it is for, and that the  *)
(* composition of MCStores is each of them with the others standing still. *)
(***************************************************************************)
EXTENDS MCStores, FiniteSetTheorems, TLAPS

-----------------------------------------------------------------------------
(* The exchange with Personal OS: an id stands for one task, its result is  *)
(* of that task, and no handoff is stored twice.                            *)

USE PersonalOsAssumption, NoneAssumption

PersonalOsIInv == PersonalOsTypeOK /\ OneTaskOneResult /\ OutboxOnce /\ QueueKept

LEMMA EnvelopeFacts ==
  \A e \in Envelopes : e.request \in Requests /\ e.task \in IssueTimes /\ e.nonce \in Nonces
BY DEF Envelopes

LEMMA PersonalOsInitIInv == PersonalOsInit => PersonalOsIInv
<1> SUFFICES ASSUME PersonalOsInit PROVE PersonalOsIInv
  OBVIOUS
<1> USE DEF PersonalOsInit
<1>1. outbox \in Seq((1..Deploys) \X Outcomes) /\ OutboxOnce
  BY DEF OutboxOnce
<1>2. outcome \in [Objectives -> Outcomes \cup {Running}] /\ deploy \in 1..Deploys
  OBVIOUS
<1>3. /\ queue \in [Requests -> IssueTimes \cup {None}]
      /\ acks \in [Requests -> Envelopes \cup {None}]
      /\ nonces \in [Nonces -> Envelopes \cup {None}]
      /\ accepted \in [Requests -> SUBSET IssueTimes]
  OBVIOUS
<1>4. PersonalOsTypeOK
  BY <1>1, <1>2, <1>3 DEF PersonalOsTypeOK
<1>5. OneTaskOneResult /\ QueueKept
  BY DEF OneTaskOneResult, QueueKept
<1> QED
  BY <1>1, <1>4, <1>5 DEF PersonalOsIInv

\* A task that is taken in is the first under its id.
LEMMA SubmitStep ==
  ASSUME PersonalOsIInv, NEW r \in Requests, NEW t \in IssueTimes, Submit(r, t),
         acks' = acks, nonces' = nonces, outbox' = outbox, UNCHANGED executorVars
  PROVE  OneTaskOneResult' /\ OutboxOnce' /\ QueueKept'
<1> USE DEF PersonalOsIInv, PersonalOsTypeOK, Submit, Unanswered, executorVars
<1>1. accepted[r] = {} /\ accepted' = [accepted EXCEPT ![r] = {t}] /\ acks[r] = None
  BY DEF QueueKept
<1>2. \A q \in Requests : accepted[q] \subseteq accepted'[q]
  BY <1>1
<1>3. OneTaskOneResult'
  BY <1>1, <1>2 DEF OneTaskOneResult
<1>4. OutboxOnce'
  BY DEF OutboxOnce
<1>5. QueueKept'
  BY <1>1, <1>2 DEF QueueKept
<1> QED
  BY <1>3, <1>4, <1>5

LEMMA TakesInStep ==
  ASSUME PersonalOsIInv, NEW r \in Requests, NEW t \in IssueTimes, NEW dies \in BOOLEAN,
         SubmitTask(r, t) \/ Seed(r, t, dies)
  PROVE  PersonalOsIInv'
<1>1. Submit(r, t) /\ acks' = acks /\ nonces' = nonces /\ outbox' = outbox
      /\ UNCHANGED <<serverVars, executorVars>>
  BY DEF SubmitTask, Seed
<1>2. PersonalOsTypeOK'
  BY <1>1 DEF PersonalOsIInv, PersonalOsTypeOK, Submit, SubmitTask, Seed, serverVars, executorVars
<1> QED
  BY <1>1, <1>2, SubmitStep DEF PersonalOsIInv

\* What neither takes a task in nor answers one.
LEMMA ExchangeRestStep ==
  ASSUME PersonalOsIInv,
         \/ Serve \/ List \/ OsRestart
         \/ \E e \in Envelopes : Sign(e)
         \/ \E e \in signed : Stale(e)
         \/ \E o \in Objectives, x \in Outcomes : ObjectiveEnds(o, x)
  PROVE  PersonalOsIInv'
<1> USE DEF PersonalOsIInv, PersonalOsTypeOK, OneTaskOneResult, OutboxOnce, QueueKept,
            fileVars, serverVars, executorVars
<1>1. CASE Serve \/ OsRestart
  <2>1. /\ UNCHANGED <<fileVars, outcome, executorVars, accepted>>
        /\ deploy' \in 1..Deploys /\ serving' \in BOOLEAN
    <3>1. CASE Serve
      BY <3>1 DEF Serve
    <3>2. CASE OsRestart
      BY <3>2 DEF OsRestart
    <3> QED
      BY <1>1, <3>1, <3>2
  <2> QED
    BY <2>1
<1>2. CASE List
  <2>1. \A p \in shown' : p \in shown \/ \E r \in Requests : queue[r] # None /\ p = <<r, queue[r]>>
    BY <1>2 DEF List
  <2>2. shown' \subseteq Requests \X IssueTimes /\ \A p \in shown' : p[2] \in accepted[p[1]]
    BY <2>1
  <2> QED
    BY <1>2, <2>2 DEF List
<1>3. CASE \E e \in Envelopes : Sign(e)
  BY <1>3 DEF Sign
<1>4. CASE \E e \in signed : Stale(e)
  BY <1>4 DEF Stale
<1>5. CASE \E o \in Objectives, x \in Outcomes : ObjectiveEnds(o, x)
  BY <1>5 DEF ObjectiveEnds
<1> QED
  BY <1>1, <1>2, <1>3, <1>4, <1>5

\* An answer is of the task that is pending under its id.
LEMMA AnswerStep ==
  ASSUME PersonalOsIInv, NEW e \in signed, NEW until \in {"nonce", "record", "end"},
         AcceptAck(e, until)
  PROVE  PersonalOsIInv'
<1> USE DEF PersonalOsIInv, PersonalOsTypeOK, AcceptAck, serverVars, executorVars
<1> DEFINE r == e.request
<1>1. /\ e \in Envelopes /\ r \in Requests /\ e.nonce \in Nonces /\ e # None
      /\ acks[r] = None /\ queue[r] = e.task /\ e.task \in accepted[r]
      /\ nonces[e.nonce] \in {None, e}
  BY EnvelopeFacts DEF Unanswered, AnswersPending, NonceFree, QueueKept
<1>2. nonces' = [nonces EXCEPT ![e.nonce] = e]
  BY <1>1
<1>3. acks' = acks \/ acks' = [acks EXCEPT ![r] = e]
  OBVIOUS
<1>4. queue' = queue \/ (until = "end" /\ queue' = [queue EXCEPT ![r] = None])
  OBVIOUS
<1>5. /\ accepted' = accepted /\ outbox' = outbox /\ shown' = shown
      /\ until = "end" => acks' = [acks EXCEPT ![r] = e]
  OBVIOUS
<1>6. PersonalOsTypeOK'
  BY <1>1, <1>2, <1>3, <1>4
<1> HIDE DEF AcceptAck, r
<1>7. OneTaskOneResult'
  <2>1. \A q \in Requests : acks[q] # None =>
           acks[q] \in Envelopes /\ acks[q].nonce \in Nonces /\ nonces'[acks[q].nonce] = acks[q]
    BY <1>1, <1>2, EnvelopeFacts DEF OneTaskOneResult
  <2>2. e.request = r
    BY DEF r
  <2> QED
    BY <1>1, <1>2, <1>3, <1>5, <2>1, <2>2 DEF OneTaskOneResult
<1>8. QueueKept'
  BY <1>1, <1>3, <1>4, <1>5 DEF QueueKept
<1>9. OutboxOnce'
  BY <1>5 DEF OutboxOnce
<1> QED
  BY <1>6, <1>7, <1>8, <1>9

LEMMA HandoffStep ==
  ASSUME PersonalOsIInv, NEW h \in Handoffs, EmitHandoff(h)
  PROVE  PersonalOsIInv'
<1> USE DEF PersonalOsIInv, PersonalOsTypeOK, EmitHandoff, serverVars, executorVars
<1>1. h \in (1..Deploys) \X Outcomes
  BY DEF Handoffs
<1>2. PersonalOsTypeOK'
  BY <1>1
<1>3. OutboxOnce'
  BY DEF OutboxOnce, InOutbox
<1>4. OneTaskOneResult' /\ QueueKept'
  BY DEF OneTaskOneResult, QueueKept
<1> QED
  BY <1>2, <1>3, <1>4

LEMMA PersonalOsStep == ASSUME PersonalOsIInv, [PersonalOsNext]_osVars PROVE PersonalOsIInv'
<1>1. CASE UNCHANGED osVars
  BY <1>1 DEF PersonalOsIInv, PersonalOsTypeOK, OneTaskOneResult, OutboxOnce, QueueKept, osVars,
     fileVars, serverVars, executorVars
<1>2. CASE PersonalOsNext
  BY <1>2, TakesInStep, ExchangeRestStep, AnswerStep, HandoffStep DEF PersonalOsNext
<1> QED
  BY <1>1, <1>2

\* The invariant of the exchange with Personal OS.
THEOREM PersonalOsInductive == PersonalOsSpec => []PersonalOsIInv
<1> QED
  BY PersonalOsInitIInv, PersonalOsStep, PTL DEF PersonalOsSpec

\* An id stands for one task for good, and the recorded result is of that task.
THEOREM OneTaskUnderAnId == PersonalOsSpec => []OneTaskOneResult
<1>1. PersonalOsIInv => OneTaskOneResult
  BY DEF PersonalOsIInv
<1> QED
  BY <1>1, PersonalOsInductive, PTL

HIDE PersonalOsAssumption
HIDE NoneAssumption

-----------------------------------------------------------------------------
(* The MCP tokens: a family of tokens exists only for a flow the owner       *)
(* approved, and it never has two pairs of use.                             *)

USE McpAssumption

McpIInv == McpTypeOK /\ FlowsKept /\ LastPair

\* A pair is its family and its number, which starts at 1.
LEMMA PairFacts ==
  /\ \A p \in Pairs : p[1] \in Flows /\ p[2] \in 1..MaxPairs /\ p = <<p[1], p[2]>>
  /\ \A f \in Flows : Family(f) = {p \in Pairs : p[1] = f}
BY DEF Pairs, Family

LEMMA McpInitIInv == McpInit => McpIInv
<1> SUFFICES ASSUME McpInit PROVE McpIInv
  OBVIOUS
<1>1. IsFiniteSet(open) /\ active = Cardinality(open) /\ active <= MaxReads
  BY FS_EmptySet DEF McpInit
<1>2. McpTypeOK
  <2>1. locked \in BOOLEAN
    BY DEF McpInit
  <2>2. stage \in [Flows -> Stages] /\ answering \in [Flows -> Nat]
    BY DEF McpInit, Stages
  <2>3. issued \in [Flows -> 0..MaxPairs]
    BY DEF McpInit
  <2> QED
    BY <2>1, <2>2, <2>3 DEF McpInit, McpTypeOK
<1>3. FlowsKept
  BY <1>1 DEF McpInit, FlowsKept
<1>4. LastPair
  BY PairFacts DEF McpInit, LastPair
<1> QED
  BY <1>2, <1>3, <1>4 DEF McpIInv

\* The flow up to its code: nothing is issued before it.
LEMMA FlowStep ==
  ASSUME McpIInv, NEW f \in Flows, NEW yes \in BOOLEAN,
         \/ Authorize(f) \/ Callback(f) \/ FlowExpires(f) \/ ExchangeCodeBlocked(f)
         \/ GoogleAnswers(f, yes) \/ Consent(f, yes)
  PROVE  McpIInv'
<1> USE DEF mcpTokens, mcpRest, Moves
<1>1. UNCHANGED <<mcpTokens, mcpRest>>
  BY DEF Authorize, Callback, FlowExpires, ExchangeCodeBlocked, GoogleAnswers, Consent
<1>2. McpTypeOK'
  BY <1>1 DEF McpIInv, McpTypeOK, Stages, FlowsKept, Authorize, Callback, FlowExpires,
     ExchangeCodeBlocked, GoogleAnswers, Consent, Pairs
<1>3. LastPair'
  BY <1>1 DEF McpIInv, LastPair, Pairs
<1>4. FlowsKept'
  <2> USE DEF McpIInv, McpTypeOK, Stages, FlowsKept
  <2>1. CASE Authorize(f)
    BY <1>1, <2>1 DEF Authorize
  <2>2. CASE Callback(f)
    BY <1>1, <2>2 DEF Callback
  <2>3. CASE FlowExpires(f)
    BY <1>1, <2>3 DEF FlowExpires
  <2>4. CASE ExchangeCodeBlocked(f)
    BY <1>1, <2>4 DEF ExchangeCodeBlocked, CodeStage
  <2>5. CASE GoogleAnswers(f, yes)
    BY <1>1, <2>5 DEF GoogleAnswers
  <2>6. CASE Consent(f, yes)
    BY <1>1, <2>6 DEF Consent
  <2> QED
    BY <2>1, <2>2, <2>3, <2>4, <2>5, <2>6
<1> QED
  BY <1>2, <1>3, <1>4 DEF McpIInv

\* A call that saves tokens either goes on or dies, and a death ends every flow.
LEMMA ForgetsKeeps ==
  ASSUME McpIInv, NEW f \in Flows, NEW end \in Ends, NEW to \in {"over", stage[f]},
         Saved(end), Forgets(end, f, to),
         approved' = approved,
         \A g \in Flows : issued'[g] > 0 /\ issued[g] = 0 =>
                             g = f /\ stage[f] = "code" /\ to = "over",
         issued' \in [Flows -> 0..MaxPairs]
  PROVE  /\ FlowsKept'
         /\ stage' \in [Flows -> Stages] /\ answering' \in [Flows -> Nat]
         /\ locked' \in BOOLEAN /\ open' \subseteq Reads /\ active' \in Nat
<1> USE DEF McpIInv, McpTypeOK, FlowsKept, Stages, Forgets, Saved, Moves
<1>0. locked' \in BOOLEAN
  OBVIOUS
<1>1. CASE Dies(end)
  <2>1. /\ stage' = [g \in Flows |-> IF stage[g] = "none" THEN "none" ELSE "over"]
        /\ answering' = [g \in Flows |-> 0] /\ open' = {} /\ active' = 0
    BY <1>1
  <2>2. stage' \in [Flows -> Stages] /\ answering' \in [Flows -> Nat]
        /\ open' \subseteq Reads /\ active' \in Nat
    BY <2>1
  <2>3. IsFiniteSet(open') /\ active' = Cardinality(open') /\ active' <= MaxReads
    BY <2>1, FS_EmptySet
  <2>4. FlowsKept'
    <3> HIDE DEF Forgets, Saved
    <3> QED
      BY <2>1, <2>2, <2>3
  <2> QED
    BY <1>0, <2>2, <2>4
<1>2. CASE ~Dies(end)
  <2>1. /\ stage' = [stage EXCEPT ![f] = to]
        /\ UNCHANGED <<answering, open, active>>
    BY <1>2
  <2>2. stage' \in [Flows -> Stages] /\ answering' \in [Flows -> Nat]
        /\ open' \subseteq Reads /\ active' \in Nat
    BY <2>1
  <2>3. FlowsKept'
    <3> HIDE DEF Forgets, Saved
    <3> QED
      BY <2>1, <2>2
  <2> QED
    BY <1>0, <2>1, <2>2, <2>3
<1> QED
  BY <1>1, <1>2

LEMMA ExchangeStep ==
  ASSUME McpIInv, NEW f \in Flows, NEW end \in Ends, ExchangeCode(f, end)
  PROVE  McpIInv'
<1> USE DEF ExchangeCode, CodeStage
<1>1. /\ stage[f] = "code" /\ issued[f] = 0 /\ f \in approved
      /\ \A p \in refresh \cup access : p[1] # f
  BY PairFacts DEF McpIInv, McpTypeOK, FlowsKept, LastPair
<1>2. issued' \in [Flows -> 0..MaxPairs]
  BY DEF McpIInv, McpTypeOK
<1>3. /\ FlowsKept'
      /\ stage' \in [Flows -> Stages] /\ answering' \in [Flows -> Nat]
      /\ locked' \in BOOLEAN /\ open' \subseteq Reads /\ active' \in Nat
  <2> "over" \in {"over", stage[f]}
    OBVIOUS
  <2>1. \A g \in Flows : issued'[g] > 0 /\ issued[g] = 0 => g = f
    BY DEF McpIInv, McpTypeOK
  <2> QED
    BY <1>1, <1>2, <2>1, ForgetsKeeps
<1>4. NewPair(f) \in Pairs /\ NewPair(f)[1] = f /\ NewPair(f)[2] = 1
  BY <1>1 DEF NewPair, Pairs, McpIInv, McpTypeOK
<1>5. McpTypeOK'
  BY <1>2, <1>3, <1>4 DEF McpIInv, McpTypeOK
<1>6. LastPair'
  <2>1. CASE ~Persists(end)
    BY <2>1 DEF McpIInv, LastPair, Persists
  <2>2. CASE Persists(end)
    <3>1. issued' = [issued EXCEPT ![f] = 1] /\ issued \in [Flows -> 0..MaxPairs]
      BY <2>2, <1>1 DEF McpIInv, McpTypeOK
    <3>2. /\ (refresh \cup access)' = refresh \cup access \cup {NewPair(f)}
          /\ held' \subseteq held \cup {NewPair(f)} /\ used' = used
          /\ ((refresh \ used) \cup access)'
                \subseteq (refresh \ used) \cup access \cup {NewPair(f)}
      BY <2>2
    <3>3. \A q \in Pairs : q[1] \in Flows /\ issued[q[1]] <= issued'[q[1]]
      BY <3>1, <1>1, PairFacts
    <3>4. \A q \in Pairs : q[2] \in Nat
      BY PairFacts
    <3> HIDE DEF ExchangeCode
    <3> QED
      BY <3>1, <3>2, <3>3, <3>4, <1>1, <1>4 DEF McpIInv, LastPair
  <2> QED
    BY <2>1, <2>2
<1> QED
  BY <1>3, <1>5, <1>6 DEF McpIInv

LEMMA RefreshStep ==
  ASSUME McpIInv, NEW p \in Pairs, NEW end \in Ends, Refresh(p, end)
  PROVE  McpIInv'
<1> DEFINE f == p[1]
<1> USE DEF Refresh, mcpTokens
<1>1. /\ f \in Flows /\ p[2] \in 1..MaxPairs /\ issued[f] = p[2] /\ p \in refresh \ used
      /\ f \in approved /\ issued[f] < MaxPairs
      /\ \A q \in (refresh \ used) \cup access : q[1] = f => q = p
  BY PairFacts DEF McpIInv, McpTypeOK, FlowsKept, LastPair
<1>2. issued' \in [Flows -> 0..MaxPairs]
  BY <1>1 DEF McpIInv, McpTypeOK
<1>3. /\ FlowsKept'
      /\ stage' \in [Flows -> Stages] /\ answering' \in [Flows -> Nat]
      /\ locked' \in BOOLEAN /\ open' \subseteq Reads /\ active' \in Nat
  <2>1. stage[f] \in {"over", stage[f]}
    OBVIOUS
  <2>2. \A g \in Flows : ~(issued'[g] > 0 /\ issued[g] = 0)
    BY <1>1 DEF McpIInv, McpTypeOK
  <2>3. Saved(end) /\ Forgets(end, f, stage[f]) /\ approved' = approved
    OBVIOUS
  <2> HIDE DEF f
  <2> QED
    BY <1>1, <1>2, <2>1, <2>2, <2>3, ForgetsKeeps
<1>4. NewPair(f) \in Pairs /\ NewPair(f)[1] = f /\ NewPair(f)[2] = issued[f] + 1
  BY <1>1 DEF NewPair, Pairs, McpIInv, McpTypeOK
<1>5. McpTypeOK'
  BY <1>1, <1>2, <1>3, <1>4 DEF McpIInv, McpTypeOK, Spends, Family
<1>6. LastPair'
  <2>1. CASE ~Persists(end)
    BY <2>1, <1>1, <1>4, PairFacts DEF McpIInv, LastPair, Persists
  <2>2. CASE Persists(end)
    <3>1. issued' = [issued EXCEPT ![f] = @ + 1] /\ issued \in [Flows -> 0..MaxPairs]
      BY <2>2 DEF McpIInv, McpTypeOK
    <3>2. /\ (refresh \cup access)' \subseteq refresh \cup access \cup {NewPair(f)}
          /\ held' \subseteq held \cup {NewPair(f)}
      BY <2>2
    <3>3. ((refresh \ used) \cup access)'
             \subseteq {q \in (refresh \ used) \cup access : q[1] # f} \cup {NewPair(f)}
      BY <2>2, <1>1, <1>4, PairFacts DEF Spends, McpIInv, McpTypeOK
    <3>4. \A q \in Pairs : q[1] \in Flows /\ issued[q[1]] <= issued'[q[1]]
      BY <3>1, PairFacts
    <3>5. \A q \in Pairs : q[2] \in Nat
      BY PairFacts
    <3> HIDE DEF f, Refresh
    <3> QED
      BY <3>1, <3>2, <3>3, <3>4, <3>5, <1>1, <1>4, PairFacts DEF McpIInv, LastPair
  <2> QED
    BY <2>1, <2>2
<1> QED
  BY <1>3, <1>5, <1>6 DEF McpIInv

LEMMA DropStep ==
  ASSUME McpIInv, NEW f \in Flows, NEW end \in Ends, DropFamily(f, end)
  PROVE  McpIInv'
<1> USE DEF DropFamily
<1>1. /\ FlowsKept'
      /\ stage' \in [Flows -> Stages] /\ answering' \in [Flows -> Nat]
      /\ locked' \in BOOLEAN /\ open' \subseteq Reads /\ active' \in Nat
  <2>1. stage[f] \in {"over", stage[f]} /\ issued' \in [Flows -> 0..MaxPairs]
    BY DEF McpIInv, McpTypeOK
  <2>2. \A g \in Flows : ~(issued'[g] > 0 /\ issued[g] = 0)
    BY DEF McpIInv, McpTypeOK
  <2> QED
    BY <2>1, <2>2, ForgetsKeeps
<1>2. McpTypeOK' /\ LastPair'
  BY <1>1 DEF McpIInv, McpTypeOK, LastPair, Family
<1> QED
  BY <1>1, <1>2 DEF McpIInv

\* What leaves the flows alone: expiry of tokens, requests served, a restart.
LEMMA SessionsStep ==
  ASSUME McpIInv,
         \/ \E f \in Flows : FamilyExpires(f)
         \/ \E p \in Pairs : AccessExpires(p)
         \/ \E q \in Reads : Open(q) \/ Close(q)
         \/ McpRestart
  PROVE  McpIInv'
<1> USE DEF McpIInv, mcpFlow, mcpTokens, mcpRest
<1>1. CASE \E f \in Flows : FamilyExpires(f)
  BY <1>1 DEF FamilyExpires, Family, McpTypeOK, FlowsKept, LastPair
<1>2. CASE \E p \in Pairs : AccessExpires(p)
  BY <1>2 DEF AccessExpires, McpTypeOK, FlowsKept, LastPair
<1>3. ASSUME NEW q \in Reads, Open(q) PROVE McpIInv'
  BY <1>3, FS_AddElement DEF Open, McpTypeOK, FlowsKept, LastPair
<1>4. ASSUME NEW q \in Reads, Close(q) PROVE McpIInv'
  <2>1. q \in open /\ IsFiniteSet(open) /\ active = Cardinality(open)
    BY <1>4 DEF Close, FlowsKept
  <2>2. IsFiniteSet(open \ {q}) /\ Cardinality(open \ {q}) = Cardinality(open) - 1
    BY <2>1, FS_RemoveElement
  <2>3. Cardinality(open \ {q}) \in Nat
    BY <2>2, FS_CardinalityType
  <2>4. IsFiniteSet(open') /\ active' = Cardinality(open') /\ active' \in Nat
    BY <1>4, <2>1, <2>2, <2>3 DEF Close
  <2> QED
    BY <1>4, <2>4 DEF Close, McpTypeOK, FlowsKept, LastPair
<1>5. CASE McpRestart
  <2>1. IsFiniteSet(open') /\ active' = Cardinality(open') /\ active' <= MaxReads
    BY <1>5, FS_EmptySet DEF McpRestart
  <2>2. McpTypeOK' /\ LastPair'
    BY <1>5 DEF McpRestart, McpTypeOK, LastPair, Stages
  <2>3. FlowsKept'
    BY <1>5, <2>1 DEF McpRestart, McpTypeOK, FlowsKept, Stages
  <2> QED
    BY <2>2, <2>3
<1> QED
  BY <1>1, <1>2, <1>3, <1>4, <1>5

LEMMA McpStep == ASSUME McpIInv, [McpNext]_mcpVars PROVE McpIInv'
<1>1. CASE UNCHANGED mcpVars
  BY <1>1 DEF McpIInv, McpTypeOK, FlowsKept, LastPair, mcpVars, mcpFlow, mcpTokens, mcpRest
<1>2. ASSUME NEW p \in Pairs, NEW end \in Ends, Replay(p, end) \/ Revoke(p, end)
      PROVE  McpIInv'
  <2>1. p[1] \in Flows
    BY PairFacts
  <2>2. DropFamily(p[1], end)
    BY <1>2 DEF Replay, Revoke
  <2> QED
    BY <2>1, <2>2, DropStep
<1>3. CASE McpNext
  BY <1>2, <1>3, FlowStep, ExchangeStep, RefreshStep, SessionsStep DEF McpNext
<1> QED
  BY <1>1, <1>3

\* The invariant of the token store: the types, the flows, and the last pair of a family.
THEOREM McpInductive == McpSpec => []McpIInv
<1> QED
  BY McpInitIInv, McpStep, PTL DEF McpSpec

LEMMA PairsApart == McpIInv => OnePairPerFamily
<1> SUFFICES ASSUME McpIInv, NEW p \in refresh \cup access
             PROVE  /\ p[1] \in approved
                    /\ \A q \in (refresh \ used) \cup access :
                          p \in (refresh \ used) \cup access /\ q[1] = p[1] => q = p
  BY DEF OnePairPerFamily
<1>1. p \in Pairs /\ access \cup refresh \subseteq Pairs
  BY DEF McpIInv, McpTypeOK
<1>2. p[1] \in approved
  BY <1>1, PairFacts DEF McpIInv, McpTypeOK, FlowsKept, LastPair
<1>3. ASSUME NEW q \in (refresh \ used) \cup access,
             p \in (refresh \ used) \cup access, q[1] = p[1]
      PROVE  q = p
  <2>1. q \in Pairs
    BY <1>1
  <2>2. q[2] = p[2]
    BY <1>1, <1>3, <2>1 DEF McpIInv, LastPair
  <2> QED
    BY <1>1, <1>3, <2>1, <2>2, PairFacts
<1> QED
  BY <1>2, <1>3

\* What one consent grants: tokens only of approved flows, and of a family at most one
\* pair that is still accepted, through replays, lost answers and deaths in a save.
THEOREM OnePairIsAccepted == McpSpec => []OnePairPerFamily
<1> QED
  BY McpInductive, PairsApart, PTL

HIDE McpAssumption

-----------------------------------------------------------------------------
(* The intake: an objective is taken in once, but for the ticks that were    *)
(* not stored and the receipts that were stored over newer ones.            *)

USE IntakeAssumption

IntakeIInv == IntakeTypeOK /\ IntakeKept

Ids == {ObjectiveOf[c] : c \in Calls}

\* The part of the invariant about the schedule, and the one about the ingress.
SlotsKept == \A s \in Slots : recurred[s] <= (IF s \in emitted THEN 1 ELSE 0) + unsaved
IdsKept ==
    ~overtaken => \A i \in Ids :
        /\ taken[i] + Cardinality(Pending(i)) <= 1
        /\ taken[i] + Cardinality(Pending(i)) > 0 =>
            \E r \in receipts : r.id = i /\ r.kind = "allowed"

LEMMA IntakeParts == IntakeTypeOK => (IntakeKept <=> SlotsKept /\ IdsKept)
BY DEF IntakeTypeOK, IntakeKept, SlotsKept, IdsKept, Ids

LEMMA IntakePartsPrimed == IntakeTypeOK' => (IntakeKept' <=> SlotsKept' /\ IdsKept')
BY DEF IntakeTypeOK, IntakeKept, SlotsKept, IdsKept, Ids

\* The calls that are about to submit an id are finitely many.
LEMMA PendingFinite ==
  ASSUME NEW i
  PROVE  IsFiniteSet(Pending(i)) /\ Cardinality(Pending(i)) \in Nat
<1>1. Pending(i) \in SUBSET Calls
  BY DEF Pending
<1> QED
  BY <1>1, FS_Subset, FS_CardinalityType

LEMMA IntakeInitIInv == IntakeInit => IntakeIInv
<1> SUFFICES ASSUME IntakeInit PROVE IntakeIInv
  OBVIOUS
<1>1. IntakeTypeOK
  <2>1. minute \in 1..LastMinute /\ lastScan \in 0..LastMinute
    BY DEF IntakeInit
  <2>2. /\ callPc \in [Calls -> {"sent", "verifying", "submit", "answered"}]
        /\ loaded \in [Calls -> SUBSET Receipts]
    BY DEF IntakeInit
  <2>3. recurred \in [Slots -> Nat] /\ taken \in [{ObjectiveOf[c] : c \in Calls} -> Nat]
    BY DEF IntakeInit
  <2> QED
    BY <2>1, <2>2, <2>3 DEF IntakeInit, IntakeTypeOK
<1>2. SlotsKept
  BY DEF IntakeInit, SlotsKept
<1>3. ASSUME NEW i \in Ids PROVE taken[i] = 0 /\ Cardinality(Pending(i)) = 0
  <2>1. Pending(i) = {}
    BY DEF IntakeInit, Pending
  <2> QED
    BY <2>1, FS_EmptySet DEF IntakeInit, Ids
<1>4. IdsKept
  BY <1>3 DEF IdsKept
<1> QED
  BY <1>1, <1>2, <1>4, IntakeParts DEF IntakeIInv

LEMMA IntakeTypeStep == ASSUME IntakeTypeOK, IntakeNext PROVE IntakeTypeOK'
<1> USE DEF IntakeTypeOK, recurringVars, ingressVars
<1>1. ASSUME NEW on \in BOOLEAN, NEW slot \in Slots, NEW valid \in BOOLEAN,
             ReconcileSchedule(on, slot, valid)
      PROVE  IntakeTypeOK'
  BY <1>1 DEF ReconcileSchedule
<1>2. ASSUME NEW sent \in SUBSET Slots, NEW end \in {"stored", "threw", "died"},
             SchedulerTick(sent, end)
      PROVE  IntakeTypeOK'
  <2>1. recurred' \in [Slots -> Nat] /\ callPc' \in [Calls -> {"sent", "verifying", "submit", "answered"}]
    BY <1>2 DEF SchedulerTick
  <2>2. emitted' \subseteq Slots /\ lastScan' \in 0..LastMinute /\ unsaved' \in Nat
    <3>1. CASE end = "stored"
      BY <1>2, <3>1 DEF SchedulerTick
    <3>2. CASE end # "stored"
      BY <1>2, <3>2 DEF SchedulerTick
    <3> QED
      BY <3>1, <3>2
  <2>3. running' \in BOOLEAN
    BY <1>2 DEF SchedulerTick
  <2>4. UNCHANGED <<cadence, enabled, minute, receipts, loaded, taken, overtaken>>
    BY <1>2 DEF SchedulerTick
  <2> QED
    BY <2>1, <2>2, <2>3, <2>4
<1>3. CASE MinutePasses \/ IntakeRestart
  <2>1. CASE MinutePasses
    BY <2>1 DEF MinutePasses
  <2>2. CASE IntakeRestart
    BY <2>2 DEF IntakeRestart
  <2> QED
    BY <1>3, <2>1, <2>2
<1>4. ASSUME NEW c \in Calls, Load(c) \/ Refuse(c) \/ Existing(c) \/ Allow(c)
      PROVE  IntakeTypeOK'
  <2>1. \A k \in Kinds : Receipt(c, k) \in Receipts
    BY DEF Receipt, Receipts
  <2>2. CASE Load(c)
    BY <2>2 DEF Load
  <2>3. CASE ~Load(c)
    <3>1. PICK new \in SUBSET Receipts : Stores(c, new)
      BY <1>4, <2>1, <2>3 DEF Refuse, Existing, Allow, Kinds
    <3>2. callPc' \in [Calls -> {"sent", "verifying", "submit", "answered"}]
      BY <1>4, <2>3 DEF Refuse, Existing, Allow
    <3>3. overtaken' \in BOOLEAN
      BY <3>1 DEF Stores
    <3> QED
      BY <3>1, <3>2, <3>3 DEF Stores
  <2> QED
    BY <2>2, <2>3
<1>5. ASSUME NEW c \in Calls, NEW busy \in BOOLEAN, IngressSubmit(c, busy)
      PROVE  IntakeTypeOK'
  BY <1>5 DEF IngressSubmit
<1> QED
  BY <1>1, <1>2, <1>3, <1>4, <1>5 DEF IntakeNext

\* A slot that is submitted is marked, or its tick counts as unsaved.
LEMMA SlotsStep == ASSUME IntakeTypeOK, SlotsKept, IntakeNext PROVE SlotsKept'
<1> USE DEF IntakeTypeOK, SlotsKept, recurringVars, ingressVars
<1>1. ASSUME NEW sent \in SUBSET Slots, NEW end \in {"stored", "threw", "died"},
             SchedulerTick(sent, end)
      PROVE  SlotsKept'
  <2>1. /\ recurred' = [s \in Slots |-> IF s \in sent THEN recurred[s] + 1 ELSE recurred[s]]
        /\ sent \cap emitted = {}
        /\ \/ emitted' = emitted \cup sent /\ unsaved' = unsaved
           \/ emitted' = emitted /\ unsaved' = unsaved + 1
    BY <1>1 DEF SchedulerTick, NotEmitted
  <2> QED
    BY <2>1
<1>2. CASE UNCHANGED <<recurred, emitted, unsaved>>
  BY <1>2
<1> QED
  BY <1>1, <1>2 DEF IntakeNext, ReconcileSchedule, MinutePasses, IntakeRestart, Load, Refuse,
     Existing, Allow, Stores, IngressSubmit

\* An id whose calls are gone, or have all submitted, keeps its receipt.
LEMMA IdsStep == ASSUME IntakeTypeOK, IdsKept, IntakeNext PROVE IdsKept'
<1> USE DEF IntakeTypeOK, recurringVars, ingressVars
<1>1. CASE UNCHANGED <<taken, receipts, overtaken>> /\ \A i \in Ids : Pending(i)' \subseteq Pending(i)
  <2>1. \A i \in Ids : /\ Cardinality(Pending(i)') <= Cardinality(Pending(i))
                       /\ Cardinality(Pending(i)') \in Nat /\ Cardinality(Pending(i)) \in Nat
    BY <1>1, PendingFinite, FS_Subset, FS_CardinalityType
  <2>2. \A i \in Ids : taken[i] \in Nat
    BY DEF Ids
  <2> QED
    BY <1>1, <2>1, <2>2 DEF IdsKept
<1>2. ASSUME NEW c \in Calls, Refuse(c) \/ Existing(c) \/ Load(c)
      PROVE  IdsKept'
  <2>1. \A i \in Ids : Pending(i)' = Pending(i)
    BY <1>2 DEF Refuse, Existing, Load, Pending, Stores
  <2>2. /\ taken' = taken
        /\ ~overtaken' => ~overtaken /\ receipts \subseteq receipts'
    BY <1>2 DEF Refuse, Existing, Load, Stores
  <2> QED
    BY <2>1, <2>2 DEF IdsKept
<1>3. ASSUME NEW c \in Calls, Allow(c) PROVE IdsKept'
  <2> SUFFICES ASSUME ~overtaken', NEW i \in Ids
               PROVE  /\ taken'[i] + Cardinality(Pending(i)') <= 1
                      /\ \/ ~(taken'[i] + Cardinality(Pending(i)') > 0)
                         \/ \E r \in receipts' : r.id = i /\ r.kind = "allowed"
    BY DEF IdsKept, Ids
  <2>1. /\ taken' = taken /\ ~overtaken /\ receipts = loaded[c]
        /\ receipts' = receipts \cup {Receipt(c, "allowed")}
        /\ callPc[c] = "verifying" /\ callPc' = [callPc EXCEPT ![c] = "submit"]
    BY <1>3 DEF Allow, Stores
  <2>2. taken[i] \in Nat /\ Cardinality(Pending(i)) \in Nat
    BY PendingFinite DEF Ids
  <2>3. CASE i = ObjectiveOf[c]
    <3>1. ~\E r \in receipts : r.id = i /\ r.kind = "allowed"
      BY <1>3, <2>1, <2>3 DEF Allow, Prior
    <3>2. taken[i] = 0 /\ Cardinality(Pending(i)) = 0
      BY <2>1, <2>2, <3>1 DEF IdsKept
    <3>3. Pending(i)' = {c}
      <4>1. Pending(i) = {}
        BY <3>2, PendingFinite, FS_EmptySet
      <4> QED
        BY <2>1, <2>3, <4>1 DEF Pending
    <3>4. Cardinality(Pending(i)') = 1
      BY <3>3, FS_Singleton
    <3>5. Receipt(c, "allowed").id = i /\ Receipt(c, "allowed").kind = "allowed"
      BY <2>3 DEF Receipt
    <3> QED
      BY <2>1, <3>2, <3>4, <3>5
  <2>4. CASE i # ObjectiveOf[c]
    <3>1. Pending(i)' = Pending(i)
      BY <2>1, <2>4 DEF Pending
    <3> QED
      BY <2>1, <3>1 DEF IdsKept
  <2> QED
    BY <2>3, <2>4
<1>4. ASSUME NEW c \in Calls, NEW busy \in BOOLEAN, IngressSubmit(c, busy) PROVE IdsKept'
  <2>1. /\ callPc[c] = "submit" /\ callPc' = [callPc EXCEPT ![c] = "answered"]
        /\ UNCHANGED <<receipts, overtaken>>
        /\ \/ taken' = taken
           \/ taken' = [taken EXCEPT ![ObjectiveOf[c]] = @ + 1]
    BY <1>4 DEF IngressSubmit
  <2>2. ASSUME NEW i \in Ids
        PROVE  /\ taken[i] \in Nat /\ taken'[i] \in Nat
               /\ Cardinality(Pending(i)) \in Nat /\ Cardinality(Pending(i)') \in Nat
               /\ taken'[i] + Cardinality(Pending(i)') <= taken[i] + Cardinality(Pending(i))
    <3>1. taken[i] \in Nat /\ Cardinality(Pending(i)) \in Nat /\ IsFiniteSet(Pending(i))
      BY PendingFinite DEF Ids
    <3>2. CASE i = ObjectiveOf[c]
      <4>1. c \in Pending(i) /\ Pending(i)' = Pending(i) \ {c}
        BY <2>1, <3>2 DEF Pending
      <4>2. /\ Cardinality(Pending(i)') = Cardinality(Pending(i)) - 1
            /\ Cardinality(Pending(i)') \in Nat
        BY <3>1, <4>1, FS_RemoveElement, FS_CardinalityType
      <4>3. taken'[i] = taken[i] \/ taken'[i] = taken[i] + 1
        BY <2>1, <3>2
      <4> QED
        BY <3>1, <4>2, <4>3
    <3>3. CASE i # ObjectiveOf[c]
      <4>1. Pending(i)' = Pending(i)
        BY <2>1, <3>3 DEF Pending
      <4>2. taken'[i] = taken[i]
        BY <2>1, <3>3 DEF Ids
      <4> QED
        BY <3>1, <4>1, <4>2
    <3> QED
      BY <3>2, <3>3
  <2> QED
    BY <2>1, <2>2 DEF IdsKept
<1>5. ASSUME NEW sent \in SUBSET Slots, NEW end \in {"stored", "threw", "died"},
             SchedulerTick(sent, end)
      PROVE  IdsKept'
  BY <1>1, <1>5 DEF SchedulerTick, Pending
<1>6. CASE IntakeRestart \/ MinutePasses
           \/ \E on \in BOOLEAN, slot \in Slots, valid \in BOOLEAN : ReconcileSchedule(on, slot, valid)
  BY <1>1, <1>6 DEF IntakeRestart, MinutePasses, ReconcileSchedule, Pending
<1> QED
  BY <1>2, <1>3, <1>4, <1>5, <1>6 DEF IntakeNext

LEMMA IntakeStep == ASSUME IntakeIInv, [IntakeNext]_intakeVars PROVE IntakeIInv'
<1>1. CASE UNCHANGED intakeVars
  BY <1>1 DEF IntakeIInv, IntakeTypeOK, IntakeKept, Pending, intakeVars, recurringVars, ingressVars
<1>2. CASE IntakeNext
  <2>1. IntakeTypeOK' /\ SlotsKept' /\ IdsKept'
    BY <1>2, IntakeTypeStep, SlotsStep, IdsStep, IntakeParts DEF IntakeIInv
  <2> QED
    BY <2>1, IntakePartsPrimed DEF IntakeIInv
<1> QED
  BY <1>1, <1>2

\* The invariant of the two ways in: what was submitted is marked or counted, and an id
\* that was submitted, or is about to be, has its receipt.
THEOREM IntakeInductive == IntakeSpec => []IntakeIInv
<1> QED
  BY IntakeInitIInv, IntakeStep, PTL DEF IntakeSpec

\* An objective is taken in once: by slot, but for unsaved ticks, and by id, unless
\* receipts were stored over newer ones.
THEOREM ObjectiveTakenOnce == IntakeSpec => []TakenOnce
<1>1. IntakeIInv => TakenOnce
  <2> SUFFICES ASSUME IntakeIInv PROVE TakenOnce
    OBVIOUS
  <2>1. \A i \in Ids : taken[i] \in Nat /\ Cardinality(Pending(i)) \in Nat
    BY PendingFinite DEF IntakeIInv, IntakeTypeOK, Ids
  <2>2. SlotsKept /\ IdsKept
    BY IntakeParts DEF IntakeIInv
  <2> QED
    BY <2>1, <2>2 DEF IntakeIInv, IntakeTypeOK, SlotsKept, IdsKept, TakenOnce, Ids
<1> QED
  BY <1>1, IntakeInductive, PTL

HIDE IntakeAssumption

-----------------------------------------------------------------------------
(* The publication: scheduled once, it is published once at most.           *)

USE InstagramAssumption

InstagramIInv == InstagramTypeOK /\ IsFiniteSet(scheduled) /\ LiveKept /\ SpentKept

LEMMA WindowFacts ==
  /\ Hours \subseteq Nat
  /\ \A w \in Windows : w.opens \in Nat /\ w.closes \in Nat /\ w.expires \in Nat
BY DEF Hours, Windows

\* Where one package is scheduled it is the only one.
LEMMA OneSchedule ==
  ASSUME IsFiniteSet(scheduled)
  PROVE  Cardinality(scheduled) <= 1 => \A v, w \in scheduled : v = w
<1> SUFFICES ASSUME Cardinality(scheduled) <= 1 PROVE \A v, w \in scheduled : v = w
  OBVIOUS
<1>1. Cardinality(scheduled) \in Nat
  BY FS_CardinalityType
<1>2. CASE Cardinality(scheduled) = 0
  BY <1>2, FS_EmptySet
<1>3. CASE Cardinality(scheduled) = 1
  <2>1. PICK x : scheduled = {x}
    BY <1>3, FS_Singleton
  <2> QED
    BY <2>1
<1> QED
  BY <1>1, <1>2, <1>3

LEMMA InstagramInitIInv == InstagramInit => InstagramIInv
<1> SUFFICES ASSUME InstagramInit PROVE InstagramIInv
  OBVIOUS
<1> USE DEF InstagramInit
<1>1. InstagramTypeOK
  <2>1. hour \in Hours /\ calls \in 0..MaxPublishCalls /\ pubState \in PublicationStates
    BY DEF Hours, PublicationStates
  <2> QED
    BY <2>1 DEF InstagramTypeOK
<1>2. LiveKept
  BY DEF LiveKept
<1>3. SpentKept
  BY DEF SpentKept, Spent
<1> QED
  BY <1>1, <1>2, <1>3, FS_EmptySet DEF InstagramIInv

\* An execution that comes back: failed, only if no call was sent.
LEMMA ReturnStep ==
  ASSUME InstagramIInv, execPc # "idle",
         NEW state \in {"VERIFIED_LIVE", "AMBIGUOUS", "FAILED"}, NEW isFinal \in BOOLEAN,
         ExecutionReturns(state, isFinal), recorded' \in BOOLEAN,
         state = "FAILED" => execPc \in {"validate", "prepare", "container", "publish"},
         state = "VERIFIED_LIVE" => live # {},
         UNCHANGED <<hour, writesOn, stale, igProvider>>
  PROVE  InstagramIInv'
<1>1. /\ pubState' = state /\ final' = isFinal /\ execPc' = "idle" /\ execFor' = {}
      /\ executed' \subseteq executed \cup execFor
      /\ UNCHANGED <<scheduled, reportedByHand, hour, writesOn, stale, publishing, live, calls>>
  BY DEF ExecutionReturns, Mark, igProvider
<1>2. InstagramTypeOK'
  BY <1>1 DEF InstagramIInv, InstagramTypeOK, PublicationStates
<1>3. LiveKept'
  BY <1>1 DEF LiveKept
<1>4. SpentKept'
  <2> SUFFICES ASSUME Cardinality(scheduled) <= 1
               PROVE  /\ scheduled = {} => calls = 0
                      /\ \A w \in scheduled : calls > 0 => w.opens <= hour /\ ~Retryable'
                      /\ calls <= 1
    BY <1>1 DEF SpentKept, Spent, Ready
  <2>1. /\ scheduled # {} /\ calls <= 1
        /\ \A w \in scheduled : w.opens <= hour
        /\ execPc \in {"validate", "prepare", "container", "publish"} => calls = 0
    BY DEF InstagramIInv, SpentKept, Spent
  <2>2. state # "FAILED" => ~Retryable'
    BY <1>1 DEF Retryable
  <2> QED
    BY <2>1, <2>2
<1> QED
  BY <1>1, <1>2, <1>3, <1>4 DEF InstagramIInv

\* An execution that goes on without sending anything.
LEMMA GotoStep ==
  ASSUME InstagramIInv, execPc # "idle",
         NEW pc \in {"prepare", "container", "publish", "verify"}, ExecGoto(pc),
         pc # "verify" => execPc \in {"validate", "prepare", "container", "publish"},
         pc = "verify" => calls \in live,
         UNCHANGED <<hour, writesOn, stale, igProvider>>
  PROVE  InstagramIInv'
<1>1. /\ execPc' = pc
      /\ UNCHANGED <<scheduled, executed, pubState, final, recorded, reportedByHand, execFor,
                     hour, writesOn, stale, publishing, live, calls>>
  BY DEF ExecGoto, igStore, igProvider
<1>2. InstagramTypeOK'
  BY <1>1 DEF InstagramIInv, InstagramTypeOK
<1>3. LiveKept'
  BY <1>1 DEF InstagramIInv, LiveKept
<1>4. SpentKept'
  BY <1>1 DEF InstagramIInv, SpentKept, Spent, Ready, Retryable
<1> QED
  BY <1>1, <1>2, <1>3, <1>4 DEF InstagramIInv

LEMMA ExecutionStep ==
  ASSUME InstagramIInv,
         Validate \/ Prepare \/ Container \/ Answer \/ Verify \/ ExecutionThrows
  PROVE  InstagramIInv'
<1> USE DEF AttemptRecorded
<1>0. recorded \in BOOLEAN
  BY DEF InstagramIInv, InstagramTypeOK
<1>1. CASE Validate
  <2>1. CASE ExecGoto("prepare")
    BY <1>1, <2>1, GotoStep DEF Validate
  <2>2. ASSUME NEW reason, ExecutionReturns(Derived("BLOCKED", FALSE), reason \in FinalReasons),
               UNCHANGED recorded
        PROVE  InstagramIInv'
    <3>1. Derived("BLOCKED", FALSE) = "FAILED"
      BY DEF Derived
    <3>2. (reason \in FinalReasons) \in BOOLEAN
      OBVIOUS
    <3> QED
      BY <1>0, <1>1, <2>2, <3>1, <3>2, ReturnStep DEF Validate
  <2> QED
    BY <1>1, <2>1, <2>2 DEF Validate
<1>2. CASE Prepare
  <2>1. CASE ExecGoto("container")
    BY <1>2, <2>1, GotoStep DEF Prepare
  <2>2. ASSUME NEW reason, AttemptRecorded("BLOCKED", FALSE, reason \in FinalReasons)
        PROVE  InstagramIInv'
    <3>1. Derived("BLOCKED", FALSE) = "FAILED"
      BY DEF Derived
    <3>2. (reason \in FinalReasons) \in BOOLEAN
      OBVIOUS
    <3> QED
      BY <1>2, <2>2, <3>1, <3>2, ReturnStep DEF Prepare
  <2> QED
    BY <1>2, <2>1, <2>2 DEF Prepare
<1>3. CASE Container
  <2>1. CASE ExecGoto("publish")
    BY <1>3, <2>1, GotoStep DEF Container
  <2>2. ASSUME NEW end \in PollEnds, end # "finished", AttemptRecorded(end, FALSE, FALSE)
        PROVE  InstagramIInv'
    <3>1. Derived(end, FALSE) = "FAILED"
      BY DEF Derived, PollEnds
    <3> QED
      BY <1>3, <2>2, <3>1, ReturnStep DEF Container
  <2> QED
    BY <1>3, <2>1, <2>2 DEF Container
<1>4. CASE Answer
  <2>1. CASE ExecGoto("verify")
    BY <1>4, <2>1, GotoStep DEF Answer
  <2>2. CASE AttemptRecorded("BLOCKED", TRUE, FALSE)
    <3>1. Derived("BLOCKED", TRUE) = "AMBIGUOUS"
      BY DEF Derived
    <3> QED
      BY <1>4, <2>2, <3>1, ReturnStep DEF Answer
  <2> QED
    BY <1>4, <2>1, <2>2 DEF Answer
<1>5. CASE Verify
  <2>1. PICK status \in {"INSTAGRAM_PUBLISH_VERIFIED", "BLOCKED"} :
          AttemptRecorded(status, TRUE, FALSE)
    BY <1>5 DEF Verify
  <2>2. Derived(status, TRUE) \in {"VERIFIED_LIVE", "AMBIGUOUS"}
    BY DEF Derived
  <2>3. live # {} /\ execPc = "verify"
    BY <1>5 DEF Verify, InstagramIInv, LiveKept
  <2> QED
    BY <1>5, <2>1, <2>2, <2>3, ReturnStep DEF Verify
<1>6. CASE ExecutionThrows
  BY <1>0, <1>6, ReturnStep DEF ExecutionThrows
<1> QED
  BY <1>1, <1>2, <1>3, <1>4, <1>5, <1>6

LEMMA PublishStep ==
  ASSUME InstagramIInv, Publish
  PROVE  InstagramIInv'
<1>1. /\ execPc = "publish" /\ calls < MaxPublishCalls /\ calls' = calls + 1 /\ execPc' = "answer"
      /\ publishing' = publishing \cup {calls + 1}
      /\ UNCHANGED <<scheduled, executed, pubState, final, recorded, reportedByHand, execFor,
                     hour, writesOn, stale, live>>
  BY DEF Publish, ExecGoto, igStore
<1>2. InstagramTypeOK'
  BY <1>1 DEF InstagramIInv, InstagramTypeOK
<1>3. LiveKept'
  BY <1>1 DEF InstagramIInv, LiveKept
<1>4. SpentKept'
  <2> SUFFICES ASSUME Cardinality(scheduled) <= 1
               PROVE  /\ scheduled # {} /\ calls = 0
                      /\ \A w \in scheduled : w.opens <= hour /\ ~(Ready(w) /\ Retryable)
    BY <1>1 DEF SpentKept, Spent, Ready, Retryable
  <2> QED
    BY <1>1 DEF InstagramIInv, SpentKept, Spent
<1> QED
  BY <1>1, <1>2, <1>3, <1>4 DEF InstagramIInv

LEMMA ScheduleStep ==
  ASSUME InstagramIInv, NEW w \in Windows, Schedule(w)
  PROVE  InstagramIInv'
<1>1. /\ scheduled' = scheduled \cup {w} /\ w \notin scheduled /\ pubState' = "SCHEDULED"
      /\ final' = FALSE
      /\ UNCHANGED <<hour, executed, recorded, reportedByHand, writesOn, stale, execPc,
                     execFor, publishing, live, calls>>
  BY DEF Schedule, Mark, SameFingerprint, igProvider
<1>2. InstagramTypeOK'
  BY <1>1 DEF InstagramIInv, InstagramTypeOK, PublicationStates
<1>3. LiveKept'
  BY <1>1 DEF InstagramIInv, LiveKept
<1>4. /\ IsFiniteSet(scheduled') /\ Cardinality(scheduled) \in Nat
      /\ Cardinality(scheduled') = Cardinality(scheduled) + 1
  BY <1>1, FS_AddElement, FS_CardinalityType DEF InstagramIInv
<1>5. SpentKept'
  <2> SUFFICES ASSUME Cardinality(scheduled') <= 1
               PROVE  ~Spent' /\ calls' <= 1
                      /\ (execPc' \in {"validate", "prepare", "container", "publish"} => calls' = 0)
    BY <1>1 DEF SpentKept
  <2>1. Cardinality(scheduled) = 0
    BY <1>4
  <2>2. scheduled = {}
    BY <2>1, FS_EmptySet DEF InstagramIInv
  <2>3. ~Spent
    BY <2>1, <2>2 DEF InstagramIInv, SpentKept
  <2> QED
    BY <1>1, <2>3 DEF Spent, InstagramIInv, InstagramTypeOK
<1> QED
  BY <1>2, <1>3, <1>4, <1>5 DEF InstagramIInv

\* A visit that sends nothing: the new state is not one to try again in the window, unless
\* nothing has begun.
LEMMA QuietVisit ==
  ASSUME InstagramIInv, NEW w \in scheduled,
         executed' \in {executed, executed \cup {w}}, stale' \subseteq stale,
         final' \in BOOLEAN,
         \/ UNCHANGED <<pubState, final>>
         \/ pubState' \in {"HELD", "AMBIGUOUS"}
         \/ pubState' = "SCHEDULED" /\ (~Ready(w) \/ Retryable),
         UNCHANGED <<hour, scheduled, recorded, reportedByHand, writesOn, execPc, execFor,
                     igProvider>>
  PROVE  InstagramIInv'
<1>1. InstagramTypeOK'
  BY DEF InstagramIInv, InstagramTypeOK, PublicationStates, igProvider
<1>2. LiveKept'
  BY DEF InstagramIInv, LiveKept, igProvider
<1>3. SpentKept'
  <2> SUFFICES ASSUME Cardinality(scheduled) <= 1, Spent
               PROVE  ~(Ready(w) /\ Retryable')
    <3>1. Cardinality(scheduled) <= 1 => \A v \in scheduled : v = w
      BY OneSchedule DEF InstagramIInv
    <3> QED
      BY <3>1 DEF InstagramIInv, SpentKept, Spent, Ready, igProvider
  <2>1. ~(Ready(w) /\ Retryable)
    BY DEF InstagramIInv, SpentKept
  <2> QED
    BY <2>1 DEF Retryable
<1> QED
  BY <1>1, <1>2, <1>3 DEF InstagramIInv

LEMMA VisitStep ==
  ASSUME InstagramIInv, NEW w \in Windows, Visit(w)
  PROVE  InstagramIInv'
<1>1. /\ w \in scheduled /\ stale' \subseteq stale
      /\ UNCHANGED <<hour, scheduled, recorded, reportedByHand, writesOn, igProvider>>
  BY DEF Visit, Due, InstagramIInv, InstagramTypeOK
<1>2. final \in BOOLEAN
  BY DEF InstagramIInv, InstagramTypeOK
<1>3. CASE NotReady(w)
  <2>1. /\ executed' \in {executed, executed \cup {w}} /\ final' \in BOOLEAN
        /\ UNCHANGED <<execPc, execFor>>
        /\ \/ UNCHANGED <<pubState, final>>
           \/ pubState' \in {"HELD", "AMBIGUOUS"}
           \/ pubState' = "SCHEDULED" /\ (~Ready(w) \/ Retryable)
    BY <1>2, <1>3 DEF NotReady, CloseSchedule, Mark
  <2> QED
    BY <1>1, <2>1, QuietVisit
<1>4. CASE Settled(w)
  <2>1. /\ executed' \in {executed, executed \cup {w}} /\ final' \in BOOLEAN
        /\ UNCHANGED <<execPc, execFor>>
        /\ \/ UNCHANGED <<pubState, final>>
           \/ pubState' \in {"HELD", "AMBIGUOUS"}
           \/ pubState' = "SCHEDULED" /\ (~Ready(w) \/ Retryable)
    BY <1>2, <1>4 DEF Settled, CloseSchedule
  <2> QED
    BY <1>1, <2>1, QuietVisit
<1>5. CASE Reconcile(w)
  <2>1. /\ executed' \in {executed, executed \cup {w}} /\ final' \in BOOLEAN
        /\ UNCHANGED <<execPc, execFor>>
        /\ \/ UNCHANGED <<pubState, final>>
           \/ pubState' \in {"HELD", "AMBIGUOUS"}
           \/ pubState' = "SCHEDULED" /\ (~Ready(w) \/ Retryable)
    BY <1>2, <1>5 DEF Reconcile, Mark, ReconciledState
  <2> QED
    BY <1>1, <2>1, QuietVisit
<1>6. CASE Frozen(w)
  <2>1. /\ executed' \in {executed, executed \cup {w}} /\ final' \in BOOLEAN
        /\ UNCHANGED <<execPc, execFor>>
        /\ \/ UNCHANGED <<pubState, final>>
           \/ pubState' \in {"HELD", "AMBIGUOUS"}
           \/ pubState' = "SCHEDULED" /\ (~Ready(w) \/ Retryable)
    BY <1>2, <1>6 DEF Frozen, Mark
  <2> QED
    BY <1>1, <2>1, QuietVisit
<1>7. CASE Dispatch(w) /\ ~LockFree
  BY <1>1, <1>2, <1>7, QuietVisit DEF Dispatch
<1>8. CASE Dispatch(w) /\ LockFree
  <2>1. /\ Ready(w) /\ Retryable /\ execPc = "idle" /\ pubState' = "DISPATCHED" /\ final' = FALSE
        /\ execPc' = "validate" /\ execFor' = {w} /\ executed' = executed
    BY <1>8 DEF Dispatch, LockFree, Mark
  <2>2. InstagramTypeOK'
    BY <1>1, <2>1 DEF InstagramIInv, InstagramTypeOK, PublicationStates, igProvider
  <2>3. LiveKept'
    BY <1>1, <2>1 DEF InstagramIInv, LiveKept, igProvider
  <2>4. SpentKept'
    <3> SUFFICES ASSUME Cardinality(scheduled) <= 1
                 PROVE  calls = 0 /\ w.opens <= hour /\ \A v \in scheduled : v = w
      BY <1>1, <2>1 DEF SpentKept, Spent, Retryable, igProvider
    <3>0. \A v \in scheduled : v = w
      BY <1>1, OneSchedule DEF InstagramIInv
    <3>1. ~Spent
      BY <1>1, <2>1 DEF InstagramIInv, SpentKept
    <3>2. calls = 0
      BY <3>1 DEF Spent, InstagramIInv, InstagramTypeOK
    <3> QED
      BY <2>1, <3>0, <3>2 DEF Ready
  <2> QED
    BY <1>1, <2>2, <2>3, <2>4 DEF InstagramIInv
<1> QED
  BY <1>3, <1>4, <1>5, <1>6, <1>7, <1>8 DEF Visit

LEMMA AroundStep ==
  ASSUME InstagramIInv,
         TickWaits \/ HourPasses \/ \E n \in 1..MaxPublishCalls : PublishApplies(n) \/ PublishRefused(n)
  PROVE  InstagramIInv'
<1> USE DEF igStore, igProvider
<1>1. CASE TickWaits
  <2> USE <1>1 DEF TickWaits
  <2>1. InstagramTypeOK'
    BY DEF InstagramIInv, InstagramTypeOK, Due
  <2>2. LiveKept' /\ SpentKept'
    BY DEF InstagramIInv, LiveKept, SpentKept, Spent, Ready, Retryable
  <2> QED
    BY <2>1, <2>2 DEF InstagramIInv
<1>2. CASE HourPasses
  <2> USE <1>2 DEF HourPasses
  <2>1. InstagramTypeOK'
    BY DEF InstagramIInv, InstagramTypeOK, Hours
  <2>2. LiveKept'
    BY DEF InstagramIInv, LiveKept
  <2>3. \A w \in scheduled : w.opens <= hour => w.opens <= hour' /\ (Ready(w)' => Ready(w))
    BY WindowFacts DEF InstagramIInv, InstagramTypeOK, Ready
  <2>4. SpentKept'
    BY <2>3 DEF InstagramIInv, SpentKept, Spent, Retryable, Ready
  <2> QED
    BY <2>1, <2>2, <2>4 DEF InstagramIInv
<1>3. ASSUME NEW n \in 1..MaxPublishCalls, PublishApplies(n) \/ PublishRefused(n)
      PROVE  InstagramIInv'
  <2>1. /\ n \in publishing /\ publishing' \subseteq publishing
        /\ live \subseteq live' /\ live' \subseteq live \cup {n}
        /\ UNCHANGED <<hour, scheduled, executed, pubState, final, recorded, reportedByHand,
                       writesOn, stale, execPc, execFor, calls>>
    BY <1>3 DEF PublishApplies, PublishRefused
  <2>2. InstagramTypeOK'
    BY <2>1 DEF InstagramIInv, InstagramTypeOK
  <2>3. LiveKept' /\ SpentKept'
    BY <2>1 DEF InstagramIInv, LiveKept, SpentKept, Spent, Ready, Retryable
  <2> QED
    BY <2>1, <2>2, <2>3 DEF InstagramIInv
<1> QED
  BY <1>1, <1>2, <1>3

LEMMA StartStep ==
  ASSUME InstagramIInv, StartRuntime
  PROVE  InstagramIInv'
<1>1. /\ execPc' = "idle" /\ execFor' = {} /\ stale' = {} /\ writesOn' \in BOOLEAN
      /\ \/ UNCHANGED <<pubState, final>>
         \/ pubState' = "HELD"
         \/ pubState' = "FAILED" /\ final' = TRUE
         \/ pubState' = "VERIFIED_LIVE" /\ live # {}
      /\ final' \in BOOLEAN /\ recorded' \in BOOLEAN /\ reportedByHand' \in BOOLEAN
      /\ UNCHANGED <<hour, scheduled, executed, publishing, live, calls>>
  <2>1. final \in BOOLEAN /\ recorded \in BOOLEAN /\ reportedByHand \in BOOLEAN
    BY DEF InstagramIInv, InstagramTypeOK
  <2>2. CASE ImportByHand
    BY <2>1, <2>2 DEF StartRuntime, ImportByHand, Mark, igProvider
  <2>3. CASE UNCHANGED igStore
    BY <2>1, <2>3 DEF StartRuntime, igStore, igProvider
  <2>4. CASE RecordsCut
    <3>1. execPc = "verify" => live # {}
      BY DEF InstagramIInv, LiveKept
    <3>2. /\ \/ UNCHANGED <<pubState, final>>
             \/ pubState' = "FAILED" /\ final' = TRUE
             \/ execPc = "verify" /\ pubState' = "VERIFIED_LIVE" /\ final' = FALSE
          /\ recorded' = recorded \/ recorded' = TRUE
          /\ UNCHANGED <<scheduled, executed, reportedByHand>>
      BY <2>4 DEF RecordsCut, Mark
    <3> QED
      BY <2>1, <3>1, <3>2 DEF StartRuntime, igProvider
  <2> QED
    BY <2>2, <2>3, <2>4 DEF StartRuntime
<1>2. InstagramTypeOK'
  BY <1>1 DEF InstagramIInv, InstagramTypeOK, PublicationStates
<1>3. LiveKept'
  BY <1>1 DEF InstagramIInv, LiveKept
<1>4. Retryable' => Retryable
  BY <1>1 DEF Retryable
<1>5. SpentKept'
  BY <1>1, <1>4 DEF InstagramIInv, SpentKept, Spent, Ready
<1> QED
  BY <1>1, <1>2, <1>3, <1>5 DEF InstagramIInv

LEMMA InstagramStep == ASSUME InstagramIInv, [InstagramNext]_igVars PROVE InstagramIInv'
<1>1. CASE UNCHANGED igVars
  BY <1>1 DEF igVars, igStore, igProvider, InstagramIInv, InstagramTypeOK, LiveKept, SpentKept,
     Spent, Ready, Retryable
<1>2. ASSUME NEW w \in Windows, Wake(w) PROVE InstagramIInv'
  BY <1>2, VisitStep DEF Wake
<1>3. CASE InstagramNext
  BY <1>2, <1>3, ScheduleStep, VisitStep, ExecutionStep, PublishStep, AroundStep, StartStep
     DEF InstagramNext
<1> QED
  BY <1>1, <1>3

\* The invariant of the publication.
THEOREM InstagramInductive == InstagramSpec => []InstagramIInv
<1> QED
  BY InstagramInitIInv, InstagramStep, PTL DEF InstagramSpec

\* A package scheduled once is published once at most, for every window and any number of ticks,
\* restarts and lost answers.
THEOREM PublishedOnce == InstagramSpec => []ScheduledOncePublishedOnce
<1>1. InstagramIInv => ScheduledOncePublishedOnce
  <2> SUFFICES ASSUME InstagramIInv, Cardinality(scheduled) <= 1
               PROVE  Cardinality(live \cup publishing) <= 1
    BY DEF ScheduledOncePublishedOnce
  <2>1. calls \in 0..1 /\ live \cup publishing \subseteq 1..calls
    BY DEF InstagramIInv, InstagramTypeOK, SpentKept
  <2>2. live \cup publishing \in SUBSET {1}
    BY <2>1
  <2>3. IsFiniteSet({1}) /\ Cardinality({1}) = 1
    BY FS_Singleton
  <2> QED
    BY <2>2, <2>3, FS_Subset
<1> QED
  BY <1>1, InstagramInductive, PTL

HIDE InstagramAssumption

-----------------------------------------------------------------------------
(* The experiments: the limits of the policy hold, whatever throws.         *)

USE TestAssumption

\* The open experiments are finitely many, whatever the set of experiments.
ExperimentsIInv == ExperimentsTypeOK /\ IsFiniteSet(OpenTests) /\ ExperimentsCaged

\* The conjuncts of the cage, named.
OpenCaged == Cardinality(OpenTests) <= Policy.concurrent

SearchesCaged ==
  Policy.oneSerendipity =>
     \A e, f \in Serendipity(OpenTests) :
        TestInput[e].lowVolume /\ TestInput[f].lowVolume => e = f

RunsCaged ==
  \A e \in Tests :
     testStatus[e] \in {"RUNNING", "OBSERVING"} \/ shownStatus[e] \in {"RUNNING", "OBSERVING"}
       => e \in approvals

ShownCaged == \A e \in Tests : Rank(shownStatus[e]) <= Rank(testStatus[e])

MetaCaged ==
  \A m \in MetaTests : metaStatus[m] \in {"RUNNING", "OBSERVING", "KEEP", "ROLLBACK"}
                          => m \in approvals

LEMMA CageParts ==
  ExperimentsCaged <=> OpenCaged /\ SearchesCaged /\ RunsCaged /\ ShownCaged /\ MetaCaged
BY DEF ExperimentsCaged, OpenCaged, SearchesCaged, RunsCaged, ShownCaged, MetaCaged

LEMMA CagePartsPrimed ==
  ExperimentsCaged' <=> OpenCaged' /\ SearchesCaged' /\ RunsCaged' /\ ShownCaged' /\ MetaCaged'
BY CageParts, PTL

LEMMA LifeFacts == DOMAIN Life = 1..8
BY DEF Life

LEMMA Ranks ==
  /\ Rank("none") = 1 /\ Rank("DRAFT") = 2 /\ Rank("PREFLIGHT") = 3
  /\ Rank("AWAITING_APPROVAL") = 4 /\ Rank("RUNNING") = 5 /\ Rank("OBSERVING") = 6
  /\ Rank("CLOSED") = 7 /\ Rank("forgotten") = 8
<1>1. ASSUME NEW s, NEW i \in 1..8, Life[i] = s, \A j \in 1..8 : Life[j] = s => j = i
      PROVE  Rank(s) = i
  BY <1>1, LifeFacts DEF Rank
<1>2. /\ Life[1] = "none" /\ Life[2] = "DRAFT" /\ Life[3] = "PREFLIGHT"
      /\ Life[4] = "AWAITING_APPROVAL" /\ Life[5] = "RUNNING" /\ Life[6] = "OBSERVING"
      /\ Life[7] = "CLOSED" /\ Life[8] = "forgotten"
  BY DEF Life
<1>3. \A i, j \in 1..8 : Life[i] = Life[j] => i = j
  <2> SUFFICES ASSUME NEW i \in 1..8, NEW j \in 1..8, i # j PROVE Life[i] # Life[j]
    OBVIOUS
  <2>1. i \in {1, 2, 3, 4, 5, 6, 7, 8} /\ j \in {1, 2, 3, 4, 5, 6, 7, 8}
    OBVIOUS
  <2> QED
    BY <1>2, <2>1
<1>4. ASSUME NEW i \in 1..8 PROVE Rank(Life[i]) = i
  BY <1>1, <1>3, <1>4
<1> QED
  BY <1>2, <1>4

LEMMA Statuses ==
  {Life[i] : i \in DOMAIN Life} = LiveStages \cup {"none", "CLOSED", "forgotten"}
<1>1. DOMAIN Life = {1, 2, 3, 4, 5, 6, 7, 8}
  BY DEF Life
<1>2. /\ Life[1] = "none" /\ Life[2] = "DRAFT" /\ Life[3] = "PREFLIGHT"
      /\ Life[4] = "AWAITING_APPROVAL" /\ Life[5] = "RUNNING" /\ Life[6] = "OBSERVING"
      /\ Life[7] = "CLOSED" /\ Life[8] = "forgotten"
  BY DEF Life
<1> QED
  BY <1>1, <1>2 DEF LiveStages

LEMMA RanksOf ==
  ASSUME ExperimentsTypeOK, NEW e \in Tests
  PROVE  Rank(testStatus[e]) \in 1..8 /\ Rank(shownStatus[e]) \in 1..7
<1>1. testStatus[e] \in LiveStages \cup {"none", "CLOSED", "forgotten"}
  BY Statuses DEF ExperimentsTypeOK
<1>2. shownStatus[e] \in LiveStages \cup {"none", "CLOSED"}
  BY DEF ExperimentsTypeOK
<1>3. Rank(testStatus[e]) \in 1..8
  BY <1>1, Ranks DEF LiveStages
<1>4. Rank(shownStatus[e]) \in 1..7
  BY <1>2, Ranks DEF LiveStages
<1> QED
  BY <1>3, <1>4

-----------------------------------------------------------------------------

LEMMA ExperimentsInitIInv == ExperimentsInit => ExperimentsIInv
<1> SUFFICES ASSUME ExperimentsInit PROVE ExperimentsIInv
  OBVIOUS
<1> USE DEF ExperimentsInit
<1>1. ExperimentsTypeOK
  <2>1. "none" \in {Life[i] : i \in DOMAIN Life}
    BY Statuses
  <2>2. <<>> \in Seq(Tests)
    OBVIOUS
  <2> QED
    BY <2>1, <2>2 DEF ExperimentsTypeOK
<1>2. OpenTests = {}
  BY DEF OpenTests, LiveStages
<1>3. OpenCaged /\ SearchesCaged
  BY <1>2, FS_EmptySet DEF OpenCaged, SearchesCaged, Serendipity
<1>4. RunsCaged
  BY DEF RunsCaged
<1>5. ShownCaged
  BY Ranks DEF ShownCaged
<1>6. MetaCaged
  BY DEF MetaCaged
<1> QED
  BY <1>1, <1>2, <1>3, <1>4, <1>5, <1>6, CageParts, FS_EmptySet DEF ExperimentsIInv

\* What runs, or is shown as running, was approved before or is approved now.
LEMMA RunsKeep ==
  ASSUME RunsCaged, approvals \subseteq approvals',
         \A f \in Tests : testStatus'[f] \in {"RUNNING", "OBSERVING"} => f \in approvals',
         \A f \in Tests : \/ shownStatus'[f] = shownStatus[f]
                          \/ shownStatus'[f] \in {"RUNNING", "OBSERVING"} => f \in approvals'
  PROVE  RunsCaged'
BY DEF RunsCaged

\* Where nothing becomes open the limits hold still.
LEMMA NoneOpens ==
  ASSUME ExperimentsTypeOK, IsFiniteSet(OpenTests), OpenCaged, SearchesCaged,
         OpenTests' \subseteq OpenTests
  PROVE  IsFiniteSet(OpenTests)' /\ OpenCaged' /\ SearchesCaged'
<1>1. /\ IsFiniteSet(OpenTests') /\ Cardinality(OpenTests') <= Cardinality(OpenTests)
      /\ Cardinality(OpenTests) \in Nat /\ Cardinality(OpenTests') \in Nat
  BY FS_Subset, FS_CardinalityType
<1>2. OpenCaged'
  BY <1>1 DEF OpenCaged
<1>3. SearchesCaged'
  BY DEF SearchesCaged, Serendipity
<1> QED
  BY <1>1, <1>2, <1>3

\* What an append leaves in the store is the status it was given, or what was there.
LEMMA Appended ==
  ASSUME ExperimentsTypeOK, NEW e \in Tests, NEW s \in {"CLOSED"} \cup LiveStages,
         AppendRecord(e, s)
  PROVE  /\ shownStatus' \in [Tests -> {"none", "CLOSED"} \cup LiveStages]
         /\ throws' \in 0..MaxThrows
         /\ \A f \in Tests : shownStatus'[f] = shownStatus[f] \/ (f = e /\ shownStatus'[f] = s)
<1> USE DEF ExperimentsTypeOK, AppendRecord, MayThrow
<1>1. shownStatus' \in {shownStatus, [shownStatus EXCEPT ![e] = s]}
  OBVIOUS
<1>2. throws' \in 0..MaxThrows
  OBVIOUS
<1> QED
  BY <1>1, <1>2

\* The store stays behind where only one experiment moves, and moves on.
LEMMA ShownKeeps ==
  ASSUME ExperimentsTypeOK, ShownCaged, NEW e \in Tests, NEW s,
         testStatus' = [testStatus EXCEPT ![e] = s],
         Rank(testStatus[e]) <= Rank(s), Rank(s) \in Nat,
         \A f \in Tests : \/ shownStatus'[f] = shownStatus[f]
                          \/ f = e /\ Rank(shownStatus'[f]) <= Rank(s)
  PROVE  ShownCaged'
<1> SUFFICES ASSUME NEW f \in Tests PROVE Rank(shownStatus'[f]) <= Rank(testStatus'[f])
  BY DEF ShownCaged
<1>1. testStatus'[f] = IF f = e THEN s ELSE testStatus[f]
  BY DEF ExperimentsTypeOK
<1>2. Rank(shownStatus[f]) <= Rank(testStatus[f])
  BY DEF ShownCaged
<1>3. Rank(testStatus[f]) \in Nat /\ Rank(shownStatus[f]) \in Nat
  BY RanksOf
<1> QED
  BY <1>1, <1>2, <1>3

LEMMA CreateStep ==
  ASSUME ExperimentsIInv, NEW e \in Tests, Create(e)
  PROVE  ExperimentsIInv'
<1> USE DEF ExperimentsIInv, Create
<1>1. /\ ExperimentsTypeOK /\ testStatus' = [testStatus EXCEPT ![e] = "DRAFT"]
      /\ testStatus[e] = "none" /\ e \notin OpenTests
      /\ UNCHANGED <<approvals, pastEnd, metaStatus>>
  BY DEF NewDraft, OpenTests, LiveStages
<1>2. OpenTests' = OpenTests \cup {e}
  BY <1>1 DEF ExperimentsTypeOK, OpenTests, LiveStages
<1>3. ExperimentsTypeOK'
  <2>1. order' \in Seq(Tests)
    BY <1>1 DEF ExperimentsTypeOK
  <2>2. testStatus' \in [Tests -> {Life[i] : i \in DOMAIN Life}]
    BY <1>1, Statuses DEF ExperimentsTypeOK, LiveStages
  <2> QED
    BY <1>1, <2>1, <2>2, Appended DEF ExperimentsTypeOK, LiveStages
<1>4. IsFiniteSet(OpenTests) /\ OpenCaged /\ SearchesCaged /\ RunsCaged /\ ShownCaged /\ MetaCaged
  BY CageParts
<1>5. OpenTests \ {e} = OpenTests
  BY <1>1
<1>6. /\ Cardinality(OpenTests) < Policy.concurrent
      /\ NoSecondSerendipity(e, OpenTests)
  BY <1>5 DEF MayRunBeside
<1>7. IsFiniteSet(OpenTests)' /\ OpenCaged'
  <2>1. /\ IsFiniteSet(OpenTests \cup {e}) /\ Cardinality(OpenTests) \in Nat
        /\ Cardinality(OpenTests \cup {e}) = Cardinality(OpenTests) + 1
    BY <1>1, <1>4, FS_AddElement, FS_CardinalityType
  <2> QED
    BY <1>2, <1>6, <2>1 DEF OpenCaged
<1>8. SearchesCaged'
  <2> SUFFICES ASSUME Policy.oneSerendipity, NEW f \in Serendipity(OpenTests'),
                      NEW g \in Serendipity(OpenTests'),
                      TestInput[f].lowVolume, TestInput[g].lowVolume
               PROVE  f = g
    BY DEF SearchesCaged, Serendipity
  <2>1. e \in Serendipity({e}) /\ TestInput[e].lowVolume => Serendipity(OpenTests) = {}
    BY <1>6 DEF NoSecondSerendipity
  <2>2. Serendipity(OpenTests') = Serendipity(OpenTests) \cup Serendipity({e})
    BY <1>2 DEF Serendipity
  <2>3. \A h \in Serendipity({e}) : h = e
    BY DEF Serendipity
  <2> QED
    BY <1>4, <2>1, <2>2, <2>3 DEF SearchesCaged
<1>9. RunsCaged'
  <2>1. \A f \in Tests : testStatus'[f] \in {"RUNNING", "OBSERVING"} => f \in approvals'
    BY <1>1, <1>4 DEF RunsCaged, ExperimentsTypeOK
  <2>2. "DRAFT" \in LiveStages
    BY DEF LiveStages
  <2>3. \A f \in Tests : shownStatus'[f] = shownStatus[f] \/ shownStatus'[f] = "DRAFT"
    BY <1>1, <2>2, Appended
  <2> QED
    BY <1>1, <1>4, <2>1, <2>3, RunsKeep
<1>10. ShownCaged'
  <2>1. "DRAFT" \in LiveStages /\ Rank("DRAFT") = 2 /\ Rank("none") = 1
    BY Ranks DEF LiveStages
  <2>2. \A f \in Tests : \/ shownStatus'[f] = shownStatus[f]
                         \/ f = e /\ shownStatus'[f] = "DRAFT"
    BY <1>1, <2>1, Appended
  <2>3. \A f \in Tests : \/ shownStatus'[f] = shownStatus[f]
                         \/ f = e /\ Rank(shownStatus'[f]) <= Rank("DRAFT")
    BY <2>1, <2>2
  <2>4. testStatus' = [testStatus EXCEPT ![e] = "DRAFT"]
    BY <1>1
  <2>5. Rank(testStatus[e]) <= Rank("DRAFT") /\ Rank("DRAFT") \in Nat
    BY <1>1, <2>1
  <2> QED
    BY <1>1, <1>4, <2>3, <2>4, <2>5, ShownKeeps
<1>11. MetaCaged'
  BY <1>1, <1>4 DEF MetaCaged
<1> QED
  BY <1>3, <1>7, <1>8, <1>9, <1>10, <1>11, CagePartsPrimed

LEMMA ExpiresStep ==
  ASSUME ExperimentsIInv, NEW e \in Tests, Expires(e)
  PROVE  ExperimentsIInv'
<1> USE DEF ExperimentsIInv
<1>1. /\ ExperimentsTypeOK /\ testStatus' = [testStatus EXCEPT ![e] = "CLOSED"]
      /\ UNCHANGED <<order, approvals, pastEnd, metaStatus>>
      /\ testStatus[e] \in LiveStages /\ AppendRecord(e, "CLOSED")
  BY DEF Expires
<1>2. IsFiniteSet(OpenTests) /\ OpenCaged /\ SearchesCaged /\ RunsCaged /\ ShownCaged /\ MetaCaged
  BY CageParts
<1>3. ExperimentsTypeOK'
  <2>1. testStatus' \in [Tests -> {Life[i] : i \in DOMAIN Life}]
    BY <1>1, Statuses DEF ExperimentsTypeOK
  <2> QED
    BY <1>1, <2>1, Appended DEF ExperimentsTypeOK
<1>4. OpenTests' \subseteq OpenTests
  BY <1>1 DEF ExperimentsTypeOK, OpenTests, LiveStages
<1>5. RunsCaged'
  <2>1. \A f \in Tests : testStatus'[f] \in {"RUNNING", "OBSERVING"} => f \in approvals'
    BY <1>1, <1>2 DEF RunsCaged, ExperimentsTypeOK
  <2>2. \A f \in Tests : shownStatus'[f] = shownStatus[f] \/ shownStatus'[f] = "CLOSED"
    BY <1>1, Appended
  <2> QED
    BY <1>1, <1>2, <2>1, <2>2, RunsKeep
<1>6. ShownCaged'
  <2>1. Rank("CLOSED") = 7 /\ Rank(testStatus[e]) \in 2..6
    BY <1>1, Ranks DEF LiveStages
  <2>2. \A f \in Tests : \/ shownStatus'[f] = shownStatus[f]
                         \/ f = e /\ shownStatus'[f] = "CLOSED"
    BY <1>1, Appended
  <2>3. \A f \in Tests : \/ shownStatus'[f] = shownStatus[f]
                         \/ f = e /\ Rank(shownStatus'[f]) <= Rank("CLOSED")
    BY <2>1, <2>2
  <2>4. testStatus' = [testStatus EXCEPT ![e] = "CLOSED"]
    BY <1>1
  <2>5. Rank(testStatus[e]) <= Rank("CLOSED") /\ Rank("CLOSED") \in Nat
    BY <2>1
  <2> QED
    BY <1>1, <1>2, <2>3, <2>4, <2>5, ShownKeeps
<1>7. MetaCaged'
  BY <1>1, <1>2 DEF MetaCaged
<1> QED
  BY <1>1, <1>2, <1>3, <1>4, <1>5, <1>6, <1>7, NoneOpens, CagePartsPrimed

LEMMA TransitionStep ==
  ASSUME ExperimentsIInv, NEW e \in Tests, NEW event \in Events, NEW given \in BOOLEAN,
         Transition(e, event, given)
  PROVE  ExperimentsIInv'
<1> USE DEF ExperimentsIInv
<1> DEFINE next == IF event \in TestOutcomes THEN "CLOSED" ELSE event
<1>1. /\ ExperimentsTypeOK /\ testStatus' = [testStatus EXCEPT ![e] = next]
      /\ approvals' = IF given /\ event = "RUNNING" THEN approvals \cup {e} ELSE approvals
      /\ event \in Follows(testStatus[e]) /\ (event = "RUNNING" => given)
      /\ AppendRecord(e, next)
      /\ UNCHANGED <<order, pastEnd, metaStatus>>
  BY DEF Transition, ApprovedAsNeeded
<1>2. IsFiniteSet(OpenTests) /\ OpenCaged /\ SearchesCaged /\ RunsCaged /\ ShownCaged /\ MetaCaged
  BY CageParts
<1>3. testStatus[e] \in LiveStages
  BY <1>1 DEF Follows, LiveStages
<1>4. next \in {"CLOSED"} \cup LiveStages /\ next # "DRAFT"
      /\ (event \in TestOutcomes => testStatus[e] = "OBSERVING")
      /\ (next = "OBSERVING" => testStatus[e] = "RUNNING")
      /\ (next = "RUNNING" => given /\ event = "RUNNING")
  BY <1>1, <1>3 DEF Follows, LiveStages, TestOutcomes
<1>5. Rank(testStatus[e]) <= Rank(next) /\ Rank(next) \in Nat
  BY <1>1, <1>3, Ranks DEF Follows, LiveStages, TestOutcomes
<1> HIDE DEF next
<1>6. ExperimentsTypeOK'
  <2>1. testStatus' \in [Tests -> {Life[i] : i \in DOMAIN Life}]
    BY <1>1, <1>4, Statuses DEF ExperimentsTypeOK
  <2>2. approvals' \subseteq Tests \cup MetaTests
    BY <1>1 DEF ExperimentsTypeOK
  <2> QED
    BY <1>1, <1>4, <2>1, <2>2, Appended DEF ExperimentsTypeOK
<1>7. OpenTests' \subseteq OpenTests
  BY <1>1, <1>3 DEF ExperimentsTypeOK, OpenTests
<1>8. RunsCaged'
  <2>1. approvals \subseteq approvals'
    BY <1>1
  <2>2. next \in {"RUNNING", "OBSERVING"} => e \in approvals'
    BY <1>1, <1>2, <1>4 DEF RunsCaged
  <2>3. \A f \in Tests : testStatus'[f] = IF f = e THEN next ELSE testStatus[f]
    BY <1>1 DEF ExperimentsTypeOK
  <2>4. \A f \in Tests : testStatus'[f] \in {"RUNNING", "OBSERVING"} => f \in approvals'
    BY <1>2, <2>1, <2>2, <2>3 DEF RunsCaged
  <2>5. \A f \in Tests : \/ shownStatus'[f] = shownStatus[f]
                         \/ f = e /\ shownStatus'[f] = next
    BY <1>1, <1>4, Appended
  <2> QED
    BY <1>2, <2>1, <2>2, <2>4, <2>5, RunsKeep
<1>9. ShownCaged'
  <2>1. \A f \in Tests : \/ shownStatus'[f] = shownStatus[f]
                         \/ f = e /\ shownStatus'[f] = next
    BY <1>1, <1>4, Appended
  <2>2. \A f \in Tests : \/ shownStatus'[f] = shownStatus[f]
                         \/ f = e /\ Rank(shownStatus'[f]) <= Rank(next)
    BY <1>5, <2>1
  <2>3. testStatus' = [testStatus EXCEPT ![e] = next]
    BY <1>1
  <2>4. Rank(testStatus[e]) <= Rank(next) /\ Rank(next) \in Nat
    BY <1>5
  <2> QED
    BY <1>1, <1>2, <2>2, <2>3, <2>4, ShownKeeps
<1>10. MetaCaged'
  BY <1>1, <1>2 DEF MetaCaged
<1> QED
  BY <1>1, <1>2, <1>6, <1>7, <1>8, <1>9, <1>10, NoneOpens, CagePartsPrimed

LEMMA ApproveStep ==
  ASSUME ExperimentsIInv, NEW e \in Tests, ApproveDraft(e)
  PROVE  ExperimentsIInv'
<1> USE DEF ExperimentsIInv
<1>1. PICK stop \in {"PREFLIGHT", "AWAITING_APPROVAL", "RUNNING"} :
          /\ testStatus' = [testStatus EXCEPT ![e] = stop]
          /\ \/ /\ stop = "RUNNING" /\ MayRunBeside(e)
                /\ AppendRecord(e, stop)
             \/ /\ stop = "AWAITING_APPROVAL" /\ ~MayRunBeside(e)
                /\ shownStatus' = [shownStatus EXCEPT ![e] = stop] /\ UNCHANGED throws
             \/ /\ stop # "RUNNING" /\ MayThrow
                /\ \E left \in {stop, IF stop = "PREFLIGHT" THEN shownStatus[e] ELSE "PREFLIGHT"} :
                      shownStatus' = [shownStatus EXCEPT ![e] = left]
  BY DEF ApproveDraft
<1>2. /\ ExperimentsTypeOK /\ testStatus[e] = "DRAFT" /\ approvals' = approvals \cup {e}
      /\ UNCHANGED <<order, pastEnd, metaStatus>>
  BY DEF ApproveDraft
<1>3. IsFiniteSet(OpenTests) /\ OpenCaged /\ SearchesCaged /\ RunsCaged /\ ShownCaged /\ MetaCaged
  BY CageParts
<1>4. stop \in LiveStages
  BY DEF LiveStages
<1>5. /\ shownStatus' \in [Tests -> {"none", "CLOSED"} \cup LiveStages]
      /\ throws' \in 0..MaxThrows
      /\ \A f \in Tests : \/ shownStatus'[f] = shownStatus[f]
                          \/ f = e /\ shownStatus'[f] \in {stop, "PREFLIGHT"}
  <2>1. CASE AppendRecord(e, stop)
    <3>1. /\ shownStatus' \in [Tests -> {"none", "CLOSED"} \cup LiveStages]
          /\ throws' \in 0..MaxThrows
          /\ \A f \in Tests : \/ shownStatus'[f] = shownStatus[f]
                              \/ f = e /\ shownStatus'[f] = stop
      BY <1>2, <1>4, <2>1, Appended
    <3> QED
      BY <3>1
  <2>2. CASE ~AppendRecord(e, stop)
    <3>1. PICK left \in {stop, shownStatus[e], "PREFLIGHT"} :
             shownStatus' = [shownStatus EXCEPT ![e] = left]
      BY <1>1, <2>2
    <3>2. throws' \in 0..MaxThrows
      BY <1>1, <1>2, <2>2 DEF MayThrow, ExperimentsTypeOK
    <3>3. shownStatus' \in [Tests -> {"none", "CLOSED"} \cup LiveStages]
      BY <1>2, <1>4, <3>1 DEF ExperimentsTypeOK, LiveStages
    <3>4. \A f \in Tests : shownStatus'[f] = IF f = e THEN left ELSE shownStatus[f]
      BY <1>2, <3>1 DEF ExperimentsTypeOK
    <3>5. \A f \in Tests : \/ shownStatus'[f] = shownStatus[f]
                           \/ f = e /\ shownStatus'[f] \in {stop, "PREFLIGHT"}
      BY <3>4
    <3> QED
      BY <3>2, <3>3, <3>5
  <2> QED
    BY <2>1, <2>2
<1>6. ExperimentsTypeOK'
  <2>1. testStatus' \in [Tests -> {Life[i] : i \in DOMAIN Life}]
    BY <1>1, <1>2, <1>4, Statuses DEF ExperimentsTypeOK
  <2> QED
    BY <1>2, <1>5, <2>1 DEF ExperimentsTypeOK
<1>7. OpenTests' \subseteq OpenTests
  BY <1>1, <1>2 DEF ExperimentsTypeOK, OpenTests, LiveStages
<1>8. RunsCaged'
  <2>1. \A f \in Tests : testStatus'[f] \in {"RUNNING", "OBSERVING"} => f \in approvals'
    BY <1>1, <1>2, <1>3 DEF RunsCaged, ExperimentsTypeOK
  <2>2. \A f \in Tests : shownStatus'[f] = shownStatus[f] \/ f \in approvals'
    BY <1>2, <1>5
  <2> QED
    BY <1>2, <1>3, <2>1, <2>2, RunsKeep
<1>9. ShownCaged'
  <2>1. /\ Rank(stop) \in 3..5 /\ Rank("PREFLIGHT") = 3 /\ Rank(testStatus[e]) = 2
    BY <1>2, Ranks
  <2>2. \A f \in Tests : \/ shownStatus'[f] = shownStatus[f]
                         \/ f = e /\ Rank(shownStatus'[f]) <= Rank(stop)
    BY <1>5, <2>1
  <2>3. testStatus' = [testStatus EXCEPT ![e] = stop]
    BY <1>1
  <2>4. Rank(testStatus[e]) <= Rank(stop) /\ Rank(stop) \in Nat
    BY <2>1
  <2> QED
    BY <1>2, <1>3, <2>2, <2>3, <2>4, ShownKeeps
<1>10. MetaCaged'
  BY <1>2, <1>3 DEF MetaCaged
<1> QED
  BY <1>2, <1>3, <1>6, <1>7, <1>8, <1>9, <1>10, NoneOpens, CagePartsPrimed

LEMMA ExpireAllStep ==
  ASSUME ExperimentsIInv, ExpireAll
  PROVE  ExperimentsIInv'
<1> USE DEF ExperimentsIInv
<1> DEFINE due == {i \in DOMAIN order : testStatus[order[i]] \in LiveStages /\ order[i] \in pastEnd}
           upTo(n) == {order[i] : i \in {j \in due : j <= n}}
<1>1. PICK last \in due, noted \in Int :
         /\ noted <= last
         /\ testStatus' = [e \in Tests |-> IF e \in upTo(last) THEN "CLOSED" ELSE testStatus[e]]
         /\ shownStatus' = [e \in Tests |-> IF e \in upTo(noted) THEN "CLOSED" ELSE shownStatus[e]]
         /\ (UNCHANGED throws \/ MayThrow)
  <2>1. PICK last \in due : \E noted \in {last - 1, last} :
         /\ testStatus' = [e \in Tests |-> IF e \in upTo(last) THEN "CLOSED" ELSE testStatus[e]]
         /\ shownStatus' = [e \in Tests |-> IF e \in upTo(noted) THEN "CLOSED" ELSE shownStatus[e]]
         /\ (UNCHANGED throws \/ MayThrow)
    BY DEF ExpireAll
  <2>2. last \in Int
    BY DEF ExperimentsTypeOK
  <2>3. PICK noted \in {last - 1, last} :
         /\ testStatus' = [e \in Tests |-> IF e \in upTo(last) THEN "CLOSED" ELSE testStatus[e]]
         /\ shownStatus' = [e \in Tests |-> IF e \in upTo(noted) THEN "CLOSED" ELSE shownStatus[e]]
         /\ (UNCHANGED throws \/ MayThrow)
    BY <2>1
  <2>4. noted \in Int /\ noted <= last
    BY <2>2
  <2> HIDE DEF upTo
  <2> QED
    BY <2>3, <2>4
<1>2. /\ ExperimentsTypeOK
      /\ UNCHANGED <<order, approvals, pastEnd, metaStatus>>
  BY DEF ExpireAll
<1>3. IsFiniteSet(OpenTests) /\ OpenCaged /\ SearchesCaged /\ RunsCaged /\ ShownCaged /\ MetaCaged
  BY CageParts
<1>4. /\ \A e \in upTo(last) : testStatus[e] \in LiveStages
      /\ upTo(noted) \subseteq upTo(last)
  <2>1. \A i \in due : i \in Int
    BY <1>2 DEF ExperimentsTypeOK
  <2> QED
    BY <1>1, <2>1
<1> HIDE DEF upTo
<1>5. ExperimentsTypeOK'
  <2>1. testStatus' \in [Tests -> {Life[i] : i \in DOMAIN Life}]
    BY <1>1, <1>2, Statuses DEF ExperimentsTypeOK
  <2>2. shownStatus' \in [Tests -> {"none", "CLOSED"} \cup LiveStages]
    BY <1>1, <1>2 DEF ExperimentsTypeOK
  <2>3. throws' \in 0..MaxThrows
    BY <1>1, <1>2 DEF ExperimentsTypeOK, MayThrow
  <2> QED
    BY <1>2, <2>1, <2>2, <2>3 DEF ExperimentsTypeOK
<1>6. OpenTests' \subseteq OpenTests
  BY <1>1, <1>4 DEF OpenTests, LiveStages
<1>7. RunsCaged'
  BY <1>1, <1>2, <1>3 DEF RunsCaged
<1>8. ShownCaged'
  <2> SUFFICES ASSUME NEW e \in Tests PROVE Rank(shownStatus'[e]) <= Rank(testStatus'[e])
    BY DEF ShownCaged
  <2>1. Rank(shownStatus[e]) <= Rank(testStatus[e])
    BY <1>3 DEF ShownCaged
  <2>2. Rank(shownStatus[e]) \in 1..7
    BY <1>2, RanksOf
  <2>3. Rank("CLOSED") = 7
    BY Ranks
  <2> QED
    BY <1>1, <1>4, <2>1, <2>2, <2>3
<1>9. MetaCaged'
  BY <1>2, <1>3 DEF MetaCaged
<1> QED
  BY <1>2, <1>3, <1>5, <1>6, <1>7, <1>8, <1>9, NoneOpens, CagePartsPrimed

LEMMA RestartExperiments ==
  ASSUME ExperimentsIInv, EngineRestart
  PROVE  ExperimentsIInv'
<1> USE DEF ExperimentsIInv
<1>1. /\ ExperimentsTypeOK /\ order' = <<>>
      /\ testStatus' = [e \in Tests |-> IF testStatus[e] = "none" THEN "none" ELSE "forgotten"]
      /\ UNCHANGED <<throws, shownStatus, approvals, pastEnd, metaStatus>>
  BY DEF EngineRestart
<1>2. IsFiniteSet(OpenTests) /\ OpenCaged /\ SearchesCaged /\ RunsCaged /\ ShownCaged /\ MetaCaged
  BY CageParts
<1>3. ExperimentsTypeOK'
  <2>1. testStatus' \in [Tests -> {Life[i] : i \in DOMAIN Life}]
    BY <1>1, Statuses DEF ExperimentsTypeOK
  <2> QED
    BY <1>1, <2>1 DEF ExperimentsTypeOK
<1>4. OpenTests' \subseteq OpenTests
  BY <1>1 DEF OpenTests, LiveStages
<1>5. RunsCaged'
  BY <1>1, <1>2 DEF RunsCaged
<1>6. ShownCaged'
  <2> SUFFICES ASSUME NEW e \in Tests PROVE Rank(shownStatus[e]) <= Rank(testStatus'[e])
    BY <1>1 DEF ShownCaged
  <2>1. Rank(shownStatus[e]) <= Rank(testStatus[e]) /\ Rank(shownStatus[e]) \in 1..7
    BY <1>1, <1>2, RanksOf DEF ShownCaged
  <2>2. testStatus'[e] = IF testStatus[e] = "none" THEN "none" ELSE "forgotten"
    BY <1>1
  <2>3. Rank("forgotten") = 8
    BY Ranks
  <2> QED
    BY <2>1, <2>2, <2>3
<1>7. MetaCaged'
  BY <1>1, <1>2 DEF MetaCaged
<1> QED
  BY <1>1, <1>2, <1>3, <1>4, <1>5, <1>6, <1>7, NoneOpens, CagePartsPrimed

\* The table of the engine is as it was.
LEMMA MetaStep ==
  ASSUME ExperimentsIInv, UNCHANGED engineVars, ExperimentsTypeOK', approvals \subseteq approvals',
         MetaCaged'
  PROVE  ExperimentsIInv'
<1> USE DEF ExperimentsIInv, engineVars
<1>1. IsFiniteSet(OpenTests) /\ OpenCaged /\ SearchesCaged /\ RunsCaged /\ ShownCaged
  BY CageParts
<1>2. OpenTests' = OpenTests
  BY DEF OpenTests
<1>3. RunsCaged' /\ ShownCaged'
  BY <1>1 DEF RunsCaged, ShownCaged
<1> QED
  BY <1>1, <1>2, <1>3, NoneOpens, CagePartsPrimed

LEMMA MetaTestStep ==
  ASSUME ExperimentsIInv,
         NEW m \in MetaTests, NEW event \in Events, NEW given \in BOOLEAN,
         MetaCreate(m) \/ MetaTransition(m, event, given)
  PROVE  ExperimentsIInv'
<1>1. ExperimentsTypeOK /\ MetaCaged
  BY CageParts DEF ExperimentsIInv
<1>2. CASE MetaCreate(m)
  <2> USE <1>2 DEF MetaCreate, engineVars
  <2>1. ExperimentsTypeOK'
    BY <1>1 DEF ExperimentsTypeOK, LiveStages
  <2>2. MetaCaged'
    BY <1>1 DEF MetaCaged, ExperimentsTypeOK
  <2> QED
    BY <2>1, <2>2, MetaStep
<1>3. CASE MetaTransition(m, event, given)
  <2>1. /\ UNCHANGED <<engineVars, pastEnd>> /\ metaStatus[m] # "none"
        /\ approvals \subseteq approvals' /\ approvals' \subseteq approvals \cup {m}
        /\ (given /\ event = "RUNNING" => m \in approvals')
    BY <1>3 DEF MetaTransition
  <2>2. PICK s \in {"CLOSED", event} :
          /\ metaStatus' = [metaStatus EXCEPT ![m] = s]
          /\ (s # "CLOSED" => s = event /\ event \in MetaFollows(metaStatus[m])
                              /\ (event = "RUNNING" => given))
    BY <1>3 DEF MetaTransition
  <2>3. /\ s \in {"none", "CLOSED", "KEEP", "ROLLBACK"} \cup LiveStages
        /\ (s \in {"OBSERVING", "KEEP", "ROLLBACK"}
              => metaStatus[m] \in {"RUNNING", "OBSERVING", "KEEP", "ROLLBACK"})
        /\ (s = "RUNNING" => m \in approvals')
    BY <2>1, <2>2 DEF MetaFollows, LiveStages
  <2>4. ExperimentsTypeOK'
    BY <1>1, <2>1, <2>2, <2>3 DEF ExperimentsTypeOK, engineVars
  <2>5. MetaCaged'
    <3>1. \A n \in MetaTests : metaStatus'[n] = IF n = m THEN s ELSE metaStatus[n]
      BY <1>1, <2>2 DEF ExperimentsTypeOK
    <3>2. \A n \in MetaTests : metaStatus'[n] \in {"RUNNING", "OBSERVING", "KEEP", "ROLLBACK"}
                                 => n \in approvals'
      BY <1>1, <2>1, <2>3, <3>1 DEF MetaCaged
    <3> QED
      BY <3>2 DEF MetaCaged
  <2> QED
    BY <2>1, <2>4, <2>5, MetaStep
<1> QED
  BY <1>2, <1>3

LEMMA EndPassesStep ==
  ASSUME ExperimentsIInv, NEW e \in Tests \cup MetaTests, EndPasses(e)
  PROVE  ExperimentsIInv'
<1>1. ExperimentsTypeOK /\ MetaCaged /\ UNCHANGED <<engineVars, approvals, metaStatus>>
  BY CageParts DEF ExperimentsIInv, EndPasses
<1>2. ExperimentsTypeOK'
  BY <1>1 DEF EndPasses, ExperimentsTypeOK, engineVars
<1>3. MetaCaged'
  BY <1>1 DEF MetaCaged
<1> QED
  BY <1>1, <1>2, <1>3, MetaStep

LEMMA ExperimentsStep ==
  ASSUME ExperimentsIInv, [EngineNext \/ MetaTestsNext]_testVars
  PROVE  ExperimentsIInv'
<1>1. CASE UNCHANGED testVars
  <2>1. ExperimentsTypeOK /\ MetaCaged
    BY CageParts DEF ExperimentsIInv
  <2>2. ExperimentsTypeOK' /\ MetaCaged'
    BY <1>1, <2>1 DEF testVars, ExperimentsTypeOK, MetaCaged
  <2> QED
    BY <1>1, <2>2, MetaStep DEF testVars, engineVars
<1>2. CASE EngineNext
  BY <1>2, CreateStep, ExpiresStep, ApproveStep, EndPassesStep, TransitionStep, ExpireAllStep,
     RestartExperiments DEF EngineNext
<1>3. CASE MetaTestsNext
  <2>1. "CLOSED" \in Events
    BY DEF Events
  <2>2. ASSUME NEW m \in MetaTests, MetaCreate(m) PROVE ExperimentsIInv'
    BY <2>1, <2>2, MetaTestStep
  <2> QED
    BY <1>3, <2>2, MetaTestStep, EndPassesStep DEF MetaTestsNext
<1> QED
  BY <1>1, <1>2, <1>3

\* The invariant of the experiments.
THEOREM ExperimentsInductive == ExperimentsSpec => []ExperimentsIInv
<1> QED
  BY ExperimentsInitIInv, ExperimentsStep, PTL DEF ExperimentsSpec

\* Of the experiments the engine knows no more are open than the limits allow; nothing runs, or
\* is shown as running by the store, that no operator approved; and the store shows nothing
\* further than it is: whatever throws, expires or is closed.  A restart makes the engine
\* forget, and what it has forgotten the limits do not count.
THEOREM ExperimentsStayCaged == ExperimentsSpec => []ExperimentsCaged
<1>1. ExperimentsIInv => ExperimentsCaged
  BY DEF ExperimentsIInv
<1> QED
  BY <1>1, ExperimentsInductive, PTL

-----------------------------------------------------------------------------
(* The composition.                                                         *)

\* Each component behaves in the composition as it does alone.
THEOREM StoresApart ==
  Spec => PersonalOsSpec /\ McpSpec /\ IntakeSpec /\ InstagramSpec /\ ExperimentsSpec
<1>1. Init => PersonalOsInit /\ McpInit /\ IntakeInit /\ InstagramInit /\ ExperimentsInit
  BY DEF Init
<1>2. [Next]_vars => [PersonalOsNext]_osVars
  BY DEF Next, vars
<1>3. [Next]_vars => [McpNext]_mcpVars
  BY DEF Next, vars
<1>4. [Next]_vars => [IntakeNext]_intakeVars
  BY DEF Next, vars
<1>5. [Next]_vars => [InstagramNext]_igVars
  BY DEF Next, vars
<1>6. [Next]_vars => [EngineNext \/ MetaTestsNext]_testVars
  BY DEF Next, vars
<1> QED
  BY <1>1, <1>2, <1>3, <1>4, <1>5, <1>6, PTL
     DEF Spec, PersonalOsSpec, McpSpec, IntakeSpec, InstagramSpec, ExperimentsSpec

\* The invariants of the stores hold in the composition.
THEOREM StoresInductive == Spec => []StoresIInv
<1>1. PersonalOsIInv /\ McpIInv /\ IntakeIInv /\ InstagramIInv /\ ExperimentsIInv => StoresIInv
  BY DEF PersonalOsIInv, McpIInv, IntakeIInv, InstagramIInv, ExperimentsIInv, StoresIInv
<1> QED
  BY <1>1, StoresApart, PersonalOsInductive, McpInductive, IntakeInductive, InstagramInductive,
     ExperimentsInductive, PTL
================================================================================
