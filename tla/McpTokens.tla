----------------------------- MODULE McpTokens -----------------------------
(***************************************************************************)
(* Authorization of the MCP connector: the flow from authorize over        *)
(* Google's answer and the owner's consent to a code, and the families of  *)
(* tokens that are issued, rotated, replayed and revoked                   *)
(* (mcp-oauth-provider.js over mcp-auth-store.js), beside the limit on     *)
(* requests that are served at once (mcp-server.js).                       *)
(*                                                                         *)
(* A call runs to its end except while it awaits Google.  Flows and codes  *)
(* are kept in memory, tokens in one file under a lock file.               *)
(***************************************************************************)
EXTENDS Naturals, FiniteSets

CONSTANTS
    Flows,             \* bound: flows that are started; a family is named after its flow
    MaxPairs,          \* bound: pairs of tokens a family is issued
    Reads,             \* requests to /mcp
    MaxReads           \* requests served at once, 4

ASSUME McpAssumption == MaxPairs \in Nat \ {0} /\ MaxReads \in Nat

Stages == {"none", "google", "verifying", "consent", "code", "over"}
Pairs == Flows \X (1..MaxPairs)

VARIABLES
    stage,         \* in memory, of every flow
    answering,     \* calls of finishGoogle that await Google, by flow
    approved,      \* flows the owner consented to
    access,        \* in the file: access tokens, by family and number
    refresh, used, \* refresh tokens, and those marked used
    issued,        \* pairs issued, by family
    held,          \* refresh tokens a client may present
    locked,        \* a death left tokens.json.lock behind
    open, active   \* requests being served, and the server's count of them

mcpFlow == <<stage, answering, approved>>
mcpTokens == <<access, refresh, used, issued>>
mcpRest == <<held, locked, open, active>>
mcpVars == <<mcpFlow, mcpTokens, mcpRest>>

McpTypeOK ==
    /\ stage \in [Flows -> Stages]
    /\ answering \in [Flows -> Nat]
    /\ approved \subseteq Flows
    /\ access \subseteq Pairs /\ refresh \subseteq Pairs /\ used \subseteq refresh
    /\ issued \in [Flows -> 0..MaxPairs]
    /\ held \subseteq Pairs /\ locked \in BOOLEAN
    /\ open \subseteq Reads /\ active \in Nat

McpInit ==
    /\ stage = [f \in Flows |-> "none"] /\ answering = [f \in Flows |-> 0]
    /\ approved = {}
    /\ access = {} /\ refresh = {} /\ used = {}
    /\ issued = [f \in Flows |-> 0]
    /\ held = {} /\ locked = FALSE
    /\ open = {} /\ active = 0

Family(f) == {p \in Pairs : p[1] = f}
Moves(f, to) == stage' = [stage EXCEPT ![f] = to]

(***************************************************************************)
(* The flow.                                                               *)
(***************************************************************************)
Authorize(f) ==
    /\ stage[f] = "none"
    /\ Moves(f, "google")
    /\ UNCHANGED <<answering, approved, mcpTokens, mcpRest>>

\* Variant: the callback is taken only once Google has answered.
CallbackLate(f) ==
    /\ stage[f] = "google" /\ answering[f] < 2
    /\ answering' = [answering EXCEPT ![f] = @ + 1]
    /\ UNCHANGED <<stage, approved, mcpTokens, mcpRest>>

\* finishGoogle takes the callback before it awaits Google.
Callback(f) ==
    /\ stage[f] = "google"
    /\ Moves(f, "verifying")
    /\ answering' = [answering EXCEPT ![f] = @ + 1]
    /\ UNCHANGED <<approved, mcpTokens, mcpRest>>

\* The row stays referenced by the call that awaits: its stage changes even when the
\* flow has gone from the map meanwhile, which nobody sees.
GoogleAnswers(f, owner) ==
    /\ answering[f] > 0
    /\ answering' = [answering EXCEPT ![f] = @ - 1]
    /\ IF stage[f] = "over" THEN UNCHANGED stage
       ELSE Moves(f, IF owner THEN "consent" ELSE "over")
    /\ UNCHANGED <<approved, mcpTokens, mcpRest>>

Consent(f, yes) ==
    /\ stage[f] = "consent"
    /\ Moves(f, IF yes THEN "code" ELSE "over")
    /\ approved' = IF yes THEN approved \cup {f} ELSE approved
    /\ UNCHANGED <<answering, mcpTokens, mcpRest>>

\* A flow and a code expire, and a restart forgets them all.
FlowExpires(f) ==
    /\ stage[f] \notin {"none", "over"}
    /\ Moves(f, "over")
    /\ UNCHANGED <<answering, approved, mcpTokens, mcpRest>>

(***************************************************************************)
(* Tokens.  Whatever a call changes in its copy reaches the file in one    *)
(* rename, or not at all when the lock is taken or the process dies; a     *)
(* death under the lock leaves the lock.  A pair is returned only after    *)
(* that, and may be lost on its way to the client.                         *)
(***************************************************************************)
Ends == {"returned", "lost", "died before", "died after"}
Persists(end) == end # "died before"
Dies(end) == end \in {"died before", "died after"}

Saved(end) == ~locked /\ IF Dies(end) THEN locked' = TRUE ELSE UNCHANGED locked

\* A death takes the memory along: flows, codes, answers awaited, requests.
Forgets(end, f, to) ==
    IF Dies(end)
    THEN /\ stage' = [g \in Flows |-> IF stage[g] = "none" THEN "none" ELSE "over"]
         /\ answering' = [g \in Flows |-> 0]
         /\ open' = {} /\ active' = 0
    ELSE Moves(f, to) /\ UNCHANGED <<answering, open, active>>

NewPair(f) == <<f, issued[f] + 1>>

\* exchangeAuthorizationCode: the code goes, and a family begins.
CodeStage(f) == stage[f] = "code"
ExchangeCode(f, end) ==
    /\ CodeStage(f) /\ issued[f] < MaxPairs
    /\ Saved(end) /\ Forgets(end, f, "over")
    /\ IF Persists(end)
       THEN /\ access' = access \cup {NewPair(f)} /\ refresh' = refresh \cup {NewPair(f)}
            /\ issued' = [issued EXCEPT ![f] = @ + 1]
       ELSE UNCHANGED <<access, refresh, issued>>
    /\ held' = IF end = "returned" THEN held \cup {NewPair(f)} ELSE held
    /\ UNCHANGED <<approved, used>>

\* The save throws on the leftover lock after the code has gone.
ExchangeCodeBlocked(f) ==
    /\ CodeStage(f) /\ locked
    /\ Moves(f, "over")
    /\ UNCHANGED <<answering, approved, mcpTokens, mcpRest>>

\* exchangeRefreshToken of a token that is not used: it is marked, the access tokens of
\* the family go, and the next pair is issued.
\* Variant: the token is not marked.
SpendsNone(p) == used

Spends(p) == used \cup {p}

Refresh(p, end) ==
    /\ p \in held /\ p \in refresh \ used /\ issued[p[1]] < MaxPairs
    /\ Saved(end) /\ Forgets(end, p[1], stage[p[1]])
    /\ IF Persists(end)
       THEN /\ used' = Spends(p)
            /\ access' = (access \ Family(p[1])) \cup {NewPair(p[1])}
            /\ refresh' = refresh \cup {NewPair(p[1])}
            /\ issued' = [issued EXCEPT ![p[1]] = @ + 1]
       ELSE UNCHANGED mcpTokens
    /\ held' = IF end = "returned" THEN held \cup {NewPair(p[1])} ELSE held
    /\ UNCHANGED approved

\* A used token is a replay: the family goes.  revokeToken does the same.
DropFamily(f, end) ==
    /\ Saved(end) /\ Forgets(end, f, stage[f])
    /\ IF Persists(end)
       THEN access' = access \ Family(f) /\ refresh' = refresh \ Family(f)
            /\ used' = used \ Family(f)
       ELSE UNCHANGED <<access, refresh, used>>
    /\ UNCHANGED <<approved, issued, held>>

Replay(p, end) == p \in held /\ p \in used /\ DropFamily(p[1], end)
Revoke(p, end) == p \in held /\ p \in refresh /\ DropFamily(p[1], end)

AccessExpires(p) ==
    /\ p \in access
    /\ access' = access \ {p}
    /\ UNCHANGED <<mcpFlow, refresh, used, issued, mcpRest>>

\* After thirty days nothing of a family is accepted, and issue deletes it.
FamilyExpires(f) ==
    /\ Family(f) \cap refresh # {}
    /\ access' = access \ Family(f) /\ refresh' = refresh \ Family(f)
    /\ used' = used \ Family(f)
    /\ UNCHANGED <<mcpFlow, issued, mcpRest>>

(***************************************************************************)
(* Requests to /mcp: the count goes down once, whichever of the timeout,   *)
(* the end of the response and an error comes first.                       *)
(***************************************************************************)
Open(q) ==
    /\ q \notin open /\ active < MaxReads /\ access # {}
    /\ open' = open \cup {q} /\ active' = active + 1
    /\ UNCHANGED <<mcpFlow, mcpTokens, held, locked>>

Close(q) ==
    /\ q \in open
    /\ open' = open \ {q} /\ active' = active - 1
    /\ UNCHANGED <<mcpFlow, mcpTokens, held, locked>>

\* The container restarts; people remove the leftover lock.
McpRestart ==
    /\ stage' = [g \in Flows |-> IF stage[g] = "none" THEN "none" ELSE "over"]
    /\ answering' = [g \in Flows |-> 0]
    /\ open' = {} /\ active' = 0
    /\ locked' \in {locked, FALSE}
    /\ UNCHANGED <<approved, mcpTokens, held>>

McpNext ==
    \/ \E f \in Flows : \/ Authorize(f) \/ Callback(f) \/ FlowExpires(f)
                        \/ ExchangeCodeBlocked(f) \/ FamilyExpires(f)
    \/ \E f \in Flows, owner \in BOOLEAN : GoogleAnswers(f, owner) \/ Consent(f, owner)
    \/ \E f \in Flows, end \in Ends : ExchangeCode(f, end)
    \/ \E p \in Pairs, end \in Ends : Refresh(p, end) \/ Replay(p, end) \/ Revoke(p, end)
    \/ \E p \in Pairs : AccessExpires(p)
    \/ \E q \in Reads : Open(q) \/ Close(q)
    \/ McpRestart

McpSpec == McpInit /\ [][McpNext]_mcpVars

(***************************************************************************)
(* Properties.                                                             *)
(***************************************************************************)

\* What one consent grants: a family of tokens exists only for a flow the owner approved,
\* and whatever is lost, replayed or dies, it never has a second refresh token that
\* would still be accepted, nor an access token beside the one of its last pair
\* (exchangeAuthorizationCode, exchangeRefreshToken and FileTokenStore.save).
OnePairPerFamily ==
    \A p \in refresh \cup access :
        /\ p[1] \in approved
        /\ \A q \in (refresh \ used) \cup access :
            p \in (refresh \ used) \cup access /\ q[1] = p[1] => q = p

\* A flow is verified by one call at a time, and a code comes once of a flow.
FlowsKept ==
    /\ \A f \in Flows : answering[f] <= 1
    /\ \A f \in Flows : answering[f] > 0 => stage[f] \in {"verifying", "over"}
    /\ \A f \in Flows : stage[f] = "code" => f \in approved /\ issued[f] = 0
    /\ \A f \in Flows : stage[f] \notin {"code", "over"} => f \notin approved
    /\ \A f \in Flows : issued[f] > 0 => stage[f] = "over" /\ f \in approved
    /\ IsFiniteSet(open) /\ active = Cardinality(open) /\ active <= MaxReads

\* Only the last pair of a family is of use.
LastPair ==
    \A p \in Pairs :
        /\ p \in refresh \cup access => p[2] <= issued[p[1]]
        /\ p \in (refresh \ used) \cup access => p[2] = issued[p[1]]
        /\ p \in held => p[2] <= issued[p[1]]
=============================================================================
