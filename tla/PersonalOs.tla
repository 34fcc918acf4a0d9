----------------------------- MODULE PersonalOs -----------------------------
(***************************************************************************)
(* What the agent exchanges with Personal OS: the queue of remote          *)
(* procedures with their acknowledged results (personal-os-step3-store.js) *)
(* and the outbox of handoffs about ended objectives.                      *)
(*                                                                         *)
(* Every record is a file.  A call runs to its end unless the process dies *)
(* between two writes; the network delivers an envelope late or again.     *)
(***************************************************************************)
EXTENDS Naturals, Sequences, FiniteSets

CONSTANTS
    Requests,          \* request ids
    Seeded,            \* the ids of the canaries the server queues as it starts
    IssueTimes,        \* a task is its id and the time it was issued
    Nonces,            \* the executor's nonces
    Outcomes,          \* what a handoff says of an objective: status, reason, counts
    Objectives,
    Deploys,           \* bound: commits the agent is deployed with, in order
    MaxEnvelopes       \* bound: envelopes the executor signs

ASSUME PersonalOsAssumption ==
    Seeded \subseteq Requests /\ Deploys \in Nat \ {0} /\ MaxEnvelopes \in Nat

None == [none |-> TRUE]
Running == "running"

Envelopes == [request : Requests, task : IssueTimes, nonce : Nonces]

ASSUME NoneAssumption == None \notin IssueTimes /\ None \notin Envelopes

VARIABLES
    (* files *)
    queue,         \* tasks/: the task pending under every id
    acks,          \* acks/: the envelope whose result is recorded
    nonces,        \* acks/nonces/: the envelope that used every nonce
    seeds,         \* seeds/: ids whose seed has been marked
    outbox,        \* pending/: handoff ids in the order of stored_at
    (* the server *)
    serving,       \* the routes are installed
    deploy,        \* RAILWAY_GIT_COMMIT_SHA
    outcome,       \* of every objective, or Running
    (* the executor and the network *)
    shown,         \* ids and tasks that were listed to it
    signed,        \* envelopes it signed, any of which may arrive again
    expired,         \* those older than five minutes
    (* history *)
    accepted          \* tasks the store took in, by id

fileVars == <<queue, acks, nonces, seeds, outbox>>
serverVars == <<serving, deploy, outcome>>
executorVars == <<shown, signed, expired>>
osVars == <<fileVars, serverVars, executorVars, accepted>>

PersonalOsTypeOK ==
    /\ queue \in [Requests -> IssueTimes \cup {None}]
    /\ acks \in [Requests -> Envelopes \cup {None}]
    /\ nonces \in [Nonces -> Envelopes \cup {None}]
    /\ seeds \subseteq Requests
    /\ outbox \in Seq((1..Deploys) \X Outcomes)
    /\ serving \in BOOLEAN /\ deploy \in 1..Deploys
    /\ outcome \in [Objectives -> Outcomes \cup {Running}]
    /\ shown \subseteq Requests \X IssueTimes
    /\ signed \subseteq Envelopes /\ expired \subseteq signed
    /\ accepted \in [Requests -> SUBSET IssueTimes]

PersonalOsInit ==
    /\ queue = [r \in Requests |-> None] /\ acks = [r \in Requests |-> None]
    /\ nonces = [n \in Nonces |-> None] /\ seeds = {} /\ outbox = <<>>
    /\ serving = FALSE /\ deploy = 1
    /\ outcome = [o \in Objectives |-> Running]
    /\ shown = {} /\ signed = {} /\ expired = {}
    /\ accepted = [r \in Requests |-> {}]

(***************************************************************************)
(* submit: refused once the result is recorded; the same task again is a   *)
(* duplicate and another one under the id a conflict.                      *)
(***************************************************************************)
\* Variant: the acknowledgement is not looked for.
UnansweredAny(r) == TRUE

Unanswered(r) == acks[r] = None

Submit(r, t) ==
    /\ Unanswered(r) /\ queue[r] = None
    /\ queue' = [queue EXCEPT ![r] = t]
    /\ accepted' = [accepted EXCEPT ![r] = @ \cup {t}]

SubmitTask(r, t) ==
    /\ serving
    /\ Submit(r, t)
    /\ UNCHANGED <<acks, nonces, seeds, outbox, serverVars, executorVars>>

\* seedOnce of a canary: it is queued and then marked, and a death comes in between.
Seed(r, t, dies) ==
    /\ ~serving /\ r \in Seeded \ seeds
    /\ Submit(r, t)
    /\ seeds' = IF dies THEN seeds ELSE seeds \cup {r}
    /\ UNCHANGED <<acks, nonces, outbox, serverVars, executorVars>>

\* The routes are installed once every seed is marked; a seed that is refused throws.
Serve ==
    /\ ~serving /\ Seeded \subseteq seeds
    /\ serving' = TRUE
    /\ UNCHANGED <<fileVars, deploy, outcome, executorVars, accepted>>

(***************************************************************************)
(* list gives every pending task without an acknowledgement, signed anew.  *)
(***************************************************************************)
List ==
    /\ serving
    /\ shown' = shown \cup {<<r, queue[r]>> : r \in {q \in Requests :
                                queue[q] # None /\ acks[q] = None}}
    /\ UNCHANGED <<fileVars, serverVars, signed, expired, accepted>>

\* The executor signs a result of a task it was given, under a nonce of its own.
Sign(e) ==
    /\ Cardinality(signed) < MaxEnvelopes
    /\ <<e.request, e.task>> \in shown /\ e \notin signed
    /\ signed' = signed \cup {e}
    /\ UNCHANGED <<fileVars, serverVars, shown, expired, accepted>>

Stale(e) ==
    /\ e \in signed \ expired
    /\ expired' = expired \cup {e}
    /\ UNCHANGED <<fileVars, serverVars, shown, signed, accepted>>

(***************************************************************************)
(* acceptAck writes the nonce, then the record, then removes the task; it  *)
(* dies after one of these, or comes to its end.                           *)
(***************************************************************************)
NonceFree(e) == nonces[e.nonce] \in {None, e}

AnswersPending(e) == queue[e.request] = e.task

AcceptAck(e, until) ==
    /\ serving /\ e \in signed \ expired
    /\ Unanswered(e.request) /\ AnswersPending(e) /\ NonceFree(e)
    /\ nonces' = [nonces EXCEPT ![e.nonce] = IF @ = None THEN e ELSE @]
    /\ acks' = IF until = "nonce" THEN acks ELSE [acks EXCEPT ![e.request] = e]
    /\ queue' = IF until = "end" THEN [queue EXCEPT ![e.request] = None] ELSE queue
    /\ serving' = (until = "end")
    /\ UNCHANGED <<seeds, outbox, deploy, outcome, executorVars, accepted>>

(***************************************************************************)
(* Every tick of the runtime hands over all ended objectives.  The handoff *)
(* id is a digest of the commit and the outcome and leaves the objective   *)
(* out; a record that exists is a duplicate.                               *)
(***************************************************************************)
Handoffs == {<<deploy, outcome[o]>> : o \in {p \in Objectives : outcome[p] # Running}}
InOutbox == {outbox[i] : i \in DOMAIN outbox}

EmitHandoff(h) ==
    /\ serving
    /\ h \in Handoffs \ InOutbox
    /\ outbox' = Append(outbox, h)
    /\ UNCHANGED <<queue, acks, nonces, seeds, serverVars, executorVars, accepted>>

\* The runtime ends an objective, or resumes it.
ObjectiveEnds(o, x) ==
    /\ serving
    /\ outcome' = [outcome EXCEPT ![o] = IF @ = Running THEN x ELSE Running]
    /\ UNCHANGED <<fileVars, serving, deploy, executorVars, accepted>>

OsRestart ==
    /\ serving' = FALSE
    /\ deploy' \in {deploy, deploy + 1} \cap (1..Deploys)
    /\ UNCHANGED <<fileVars, outcome, executorVars, accepted>>

PersonalOsNext ==
    \/ \E r \in Requests, t \in IssueTimes : SubmitTask(r, t)
    \/ \E r \in Requests, t \in IssueTimes, dies \in BOOLEAN : Seed(r, t, dies)
    \/ Serve \/ List \/ OsRestart
    \/ \E e \in Envelopes : Sign(e)
    \/ \E e \in signed : Stale(e)
    \/ \E e \in signed, until \in {"nonce", "record", "end"} : AcceptAck(e, until)
    \/ \E h \in Handoffs : EmitHandoff(h)
    \/ \E o \in Objectives, x \in Outcomes : ObjectiveEnds(o, x)

PersonalOsSpec == PersonalOsInit /\ [][PersonalOsNext]_osVars

(***************************************************************************)
(* Properties.                                                             *)
(***************************************************************************)

\* An id stands for one task for good: whatever is submitted, seeded, listed, answered
\* late or again, and wherever the process dies, at most one task is ever taken in
\* under it; the recorded result is of that task, under a nonce that answers nothing
\* else (submit, seedOnce and acceptAck of personal-os-step3-store.js).
OneTaskOneResult ==
    /\ \A r \in Requests : \A t, u \in accepted[r] : t = u
    /\ \A r \in Requests : acks[r] # None =>
        /\ acks[r].request = r /\ acks[r].task \in accepted[r]
        /\ nonces[acks[r].nonce] = acks[r]

\* No handoff is stored twice (writeExclusiveAtomic and submit of the outbox).
OutboxOnce ==
    \A i, j \in DOMAIN outbox : outbox[i] = outbox[j] => i = j

\* What strengthens OneTaskOneResult: a task that is pending or was given was taken in,
\* and an id that is free and unanswered has seen no task.
QueueKept ==
    /\ \A r \in Requests : queue[r] # None => queue[r] \in accepted[r]
    /\ \A r \in Requests : (queue[r] = None /\ acks[r] = None) => accepted[r] = {}
    /\ \A p \in shown : p[2] \in accepted[p[1]]
=============================================================================
