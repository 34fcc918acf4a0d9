----------------------------- MODULE PlanLedger -----------------------------
(***************************************************************************)
(* What executing a commercial plan promises, without queue, worker, audit *)
(* store or process: the changes of a plan are sent in order and once, and *)
(* a plan that was closed, completed or ambiguous, is never written again. *)
(***************************************************************************)
EXTENDS Naturals, Sequences

CONSTANTS Plans, Changes, Actions

VARIABLES phase,   \* per plan: fresh, open, completed or ambiguous
          writes   \* per plan and change: write requests sent

Init ==
    /\ phase = [p \in Plans |-> "fresh"]
    /\ writes = [r \in Plans \X Changes |-> 0]

SentUpTo(p, n) ==
    \A i \in 1..Len(Actions[p]) : writes[<<p, Actions[p][i]>>] = IF i <= n THEN 1 ELSE 0

Open(p) ==
    /\ phase[p] = "fresh"
    /\ phase' = [phase EXCEPT ![p] = "open"]
    /\ UNCHANGED writes

Write(p) ==
    /\ phase[p] = "open"
    /\ \E n \in 0..(Len(Actions[p]) - 1) :
          /\ SentUpTo(p, n)
          /\ writes' = [writes EXCEPT ![<<p, Actions[p][n + 1]>>] = @ + 1]
    /\ UNCHANGED phase

\* A plan completes only after its last change was sent.
Complete(p) ==
    /\ phase[p] = "open"
    /\ SentUpTo(p, Len(Actions[p]))
    /\ phase' = [phase EXCEPT ![p] = "completed"]
    /\ UNCHANGED writes

GiveUp(p) ==
    /\ phase[p] \in {"fresh", "open"}
    /\ phase' = [phase EXCEPT ![p] = "ambiguous"]
    /\ UNCHANGED writes

Next == \E p \in Plans : Open(p) \/ Write(p) \/ Complete(p) \/ GiveUp(p)

Spec == Init /\ [][Next]_<<phase, writes>>
=============================================================================
