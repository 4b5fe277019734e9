----------------------------- MODULE WebToggles -----------------------------
(***************************************************************************)
(* Switching agents on and off from the browser: the view with its lock    *)
(* per agent (AgentsView.svelte), the optimistic flip and its rollback     *)
(* (stores/agents.ts), the refresh of the list (stores/dashboard.ts), the  *)
(* proxy's handler, which runs `at enable' or `at disable' and waits       *)
(* (handlers.go), and that command (commands/health.ts).                   *)
(***************************************************************************)
EXTENDS Naturals, FiniteSets

CONSTANTS Agents, Fetches, MaxElsewhere     \* bound: changes made from elsewhere

VARIABLES
  off,        \* state.json: the agents that are deactivated
  shown,      \* the page's list: the agents it shows as deactivated
  request,    \* [Agents -> "none", "sent", "applied" or "refused"]: the toggle under way
  before,     \* [Agents -> the list its toggle will roll back to]
  fetch,      \* [Fetches -> "none", "asked" or "served"]
  list,       \* [Fetches -> the list it carries]
  crossed,    \* [Agents \cup Fetches -> agents that changed while it was under way] (history)
  stale,      \* agents whose row something older than its last change has overwritten, or
              \* which changed behind the page (history)
  elsewhere   \* changes made from elsewhere

vars == <<off, shown, request, before, fetch, list, crossed, stale, elsewhere>>

Init ==
  /\ off \in SUBSET Agents /\ shown = off
  /\ request = [a \in Agents |-> "none"] /\ before = [a \in Agents |-> {}]
  /\ fetch = [f \in Fetches |-> "none"] /\ list = [f \in Fetches |-> {}]
  /\ crossed = [x \in Agents \cup Fetches |-> {}] /\ stale = {} /\ elsewhere = 0

Flip(S, a) == IF a \in S THEN S \ {a} ELSE S \cup {a}
Pending == {a \in Agents : request[a] # "none"}
UnderWay == Pending \cup {f \in Fetches : fetch[f] = "served"}
Cross(a) == [x \in DOMAIN crossed |->
              IF x \in UnderWay \ {a} THEN crossed[x] \cup {a} ELSE crossed[x]]

\* toggle, toggleAgentEnabled: not while one for the same agent is under way; the row flips.
Toggle(a) ==
  /\ request[a] = "none"
  /\ request' = [request EXCEPT ![a] = "sent"]
  /\ before' = [before EXCEPT ![a] = shown] /\ shown' = Flip(shown, a)
  /\ crossed' = [Cross(a) EXCEPT ![a] = Pending]
  /\ UNCHANGED <<off, fetch, list, stale, elsewhere>>

\* `at enable|disable': the flag is written, or the lock or the name is not to be had.  What is
\* asked for is what the row was flipped to.
Asked(a) == IF a \in before[a] THEN off \ {a} ELSE off \cup {a}

Apply(a) ==
  /\ request[a] = "sent"
  /\ \/ off' = Asked(a) /\ request' = [request EXCEPT ![a] = "applied"] /\ crossed' = Cross(a)
     \/ request' = [request EXCEPT ![a] = "refused"] /\ UNCHANGED <<off, crossed>>
  /\ UNCHANGED <<shown, before, fetch, list, stale, elsewhere>>

(* Mutant: a toggle that failed leaves its row flipped. *)
KeepFlipped(a) == shown' = shown /\ stale' = stale \ {a}

\* The whole list goes back to what it was: also rows that have changed since.
RollBack(a) == shown' = before[a] /\ stale' = stale \cup crossed[a]

Answered(a) ==
  /\ \/ request[a] = "applied" /\ UNCHANGED <<shown, stale>>
     \/ request[a] = "refused" /\ RollBack(a)
  /\ request' = [request EXCEPT ![a] = "none"]
  /\ before' = [before EXCEPT ![a] = {}] /\ crossed' = [crossed EXCEPT ![a] = {}]
  /\ UNCHANGED <<off, fetch, list, elsewhere>>

\* The connection is lost: the child is killed, if it has not done its work.
Lost(a) ==
  /\ request[a] # "none"
  /\ request' = [request EXCEPT ![a] = "none"]
  /\ off' \in IF request[a] = "sent" THEN {off, Asked(a)} ELSE {off}
  /\ shown' = before[a] /\ stale' = stale \cup crossed[a] \cup {a}
  /\ before' = [before EXCEPT ![a] = {}] /\ crossed' = [Cross(a) EXCEPT ![a] = {}]
  /\ UNCHANGED <<fetch, list, elsewhere>>

\* refreshDashboard: asked for, read by the server, set as it arrives; or it fails.
Refresh(f) ==
  /\ fetch[f] = "none"
  /\ fetch' = [fetch EXCEPT ![f] = "asked"]
  /\ UNCHANGED <<off, shown, request, before, list, crossed, stale, elsewhere>>

Serve(f) ==
  /\ fetch[f] = "asked"
  /\ fetch' = [fetch EXCEPT ![f] = "served"] /\ list' = [list EXCEPT ![f] = off]
  /\ crossed' = [crossed EXCEPT ![f] = Pending]
  /\ UNCHANGED <<off, shown, request, before, stale, elsewhere>>

Set(f) ==
  /\ fetch[f] = "served"
  /\ fetch' = [fetch EXCEPT ![f] = "none"] /\ shown' = list[f] /\ stale' = crossed[f]
  /\ list' = [list EXCEPT ![f] = {}]
  /\ crossed' = [x \in DOMAIN crossed |->
       CASE x = f -> {} [] x \in Pending -> Agents [] OTHER -> crossed[x]]
  /\ UNCHANGED <<off, request, before, elsewhere>>

Fail(f) ==
  /\ fetch[f] # "none"
  /\ fetch' = [fetch EXCEPT ![f] = "none"] /\ list' = [list EXCEPT ![f] = {}]
  /\ crossed' = [crossed EXCEPT ![f] = {}]
  /\ UNCHANGED <<off, shown, request, before, stale, elsewhere>>

\* Another terminal toggles the agent, or the deactivation expires.
Elsewhere(a) ==
  /\ elsewhere < MaxElsewhere /\ elsewhere' = elsewhere + 1
  /\ off' = Flip(off, a) /\ stale' = stale \cup {a}
  /\ crossed' = [x \in DOMAIN crossed |->
       IF x \in UnderWay THEN crossed[x] \cup {a} ELSE crossed[x]]
  /\ UNCHANGED <<shown, request, before, fetch, list>>

Next == \/ \E a \in Agents : Toggle(a) \/ Apply(a) \/ Answered(a) \/ Lost(a) \/ Elsewhere(a)
        \/ \E f \in Fetches : Refresh(f) \/ Serve(f) \/ Set(f) \/ Fail(f)

-----------------------------------------------------------------------------
TypeOK ==
  /\ off \subseteq Agents /\ shown \subseteq Agents /\ stale \subseteq Agents
  /\ request \in [Agents -> {"none", "sent", "applied", "refused"}]
  /\ before \in [Agents -> SUBSET Agents]
  /\ fetch \in [Fetches -> {"none", "asked", "served"}] /\ list \in [Fetches -> SUBSET Agents]
  /\ crossed \in [Agents \cup Fetches -> SUBSET Agents] /\ elsewhere \in 0..MaxElsewhere

\* Once all toggles are answered, the page shows an agent as it is, unless its row was
\* overwritten by a list or a rollback from before its last change, the answer was lost, or
\* it was changed from elsewhere.
RowsAreTrue ==
  Pending = {} => \A a \in Agents \ stale : a \in shown <=> a \in off
=============================================================================
