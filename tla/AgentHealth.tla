----------------------------- MODULE AgentHealth -----------------------------
(***************************************************************************)
(* The health of agents, src/health.ts, as run() in src/runner.ts uses it: *)
(* recent failures block an agent for a while, `at disable` and quota      *)
(* markers deactivate it for a day, and a run takes its candidates from    *)
(* what is left.  Time is a clock of whole ticks.                          *)
(*                                                                         *)
(* A locked read-modify-write is one step.  run() reads the health before  *)
(* it takes the lock, and filterHealthy writes the whole section back from *)
(* that copy: a step of its own.  StateJson has the file and its lock.     *)
(*                                                                         *)
(* Of the list of failure times nobody asks for the order: it is the set   *)
(* of the failures, each a time and, among those of one time, a number.    *)
(***************************************************************************)
EXTENDS Naturals, FiniteSets

CONSTANTS
    Agents,      \* the pool of a tier, or of the line
    Procs,       \* the `at` processes
    Window,      \* AT_HEALTH_WINDOW_MS
    Threshold,   \* AT_HEALTH_THRESHOLD, at least 1
    Durations,   \* AT_HEALTH_BLOCK_DURATIONS: <<failures, duration>>, ascending
    Ttl,         \* AT_DEACTIVATE_TTL_MS
    MaxTime,     \* bound: the clock
    MaxResults,  \* bound: results recorded
    MaxOrders    \* bound: `at enable`, `at disable` and quota markers

VARIABLES
    now,        \* the clock, from 1: time 0 stands for null
    health,     \* state.json: agents
    pc,         \* where each process is
    snapshot,   \* healthState of run()
    pool,       \* the candidates of the run
    using,      \* its agent
    reactivate, \* setDeactivated(false) calls under way, which nobody awaits
    failures,   \* history: all failures, per agent
    results, orders

vars == <<now, health, pc, snapshot, pool, using, reactivate, failures,
          results, orders>>

\* deactivatedAt is 0 when the agent is not deactivated.
Failure == [at : Nat, nr : Nat]
Entry == [failureTimes : SUBSET Failure, disabledTo : Nat, deactivatedAt : Nat]

Init ==
    /\ now = 1
    /\ health = [a \in Agents |->
                   [failureTimes |-> {}, disabledTo |-> 0, deactivatedAt |-> 0]]
    /\ pc = [p \in Procs |-> "idle"]
    /\ snapshot = [p \in Procs |-> health]
    /\ pool = [p \in Procs |-> {}]
    /\ using \in [Procs -> Agents]
    /\ reactivate = [p \in Procs |-> {}]
    /\ failures = [a \in Agents |-> {}]
    /\ results = 0
    /\ orders = 0

Tick ==
    /\ now < MaxTime
    /\ now' = now + 1
    /\ UNCHANGED <<health, pc, snapshot, pool, using, reactivate, failures,
                   results, orders>>

-----------------------------------------------------------------------------
\* Pure parts.

\* Mutant: every failure on record counts.
KeepAllFailures(times) == times

\* pruneOldFailures: those of the window stay.
PruneOldFailures(times) == {f \in times : f.at + Window >= now}

\* pruneEntry: no failure left, no block left.
PruneEntry(e) ==
    LET recent == PruneOldFailures(e.failureTimes)
    IN  [e EXCEPT !.failureTimes = recent,
                  !.disabledTo = IF recent = {} THEN 0 ELSE @]

\* blockDurationFor: the last entry the count reaches, the first one if none.
BlockDurationFor(count) ==
    LET reached == {i \in DOMAIN Durations : count >= Durations[i][1]}
    IN  IF reached = {} THEN Durations[1][2]
        ELSE Durations[CHOOSE i \in reached : \A j \in reached : j <= i][2]

Expired(e) == now >= e.deactivatedAt + Ttl

\* isDeactivated.
Deactivated(e) == e.deactivatedAt # 0 /\ ~Expired(e)

Blocked(e) == e.disabledTo # 0 /\ now < e.disabledTo

-----------------------------------------------------------------------------
\* run().

\* loadHealth, then isDeactivated of every agent of the pool: an expired
\* deactivation is lifted by a write of its own.  run() throws when no agent
\* is left.
Load(p) ==
    /\ pc[p] = "idle"
    /\ results < MaxResults
    /\ snapshot' = [snapshot EXCEPT ![p] = health]
    /\ reactivate' = [reactivate EXCEPT ![p] =
                        @ \cup {a \in Agents : health[a].deactivatedAt # 0 /\ Expired(health[a])}]
    /\ \E a \in Agents : ~Deactivated(health[a])
    /\ pool' = [pool EXCEPT ![p] = {a \in Agents : ~Deactivated(health[a])}]
    /\ pc' = [pc EXCEPT ![p] = "loaded"]
    /\ UNCHANGED <<now, health, using, failures, results, orders>>

\* setDeactivated(name, false), some time later.
Reactivate(p, a) ==
    /\ a \in reactivate[p]
    /\ health' = [health EXCEPT ![a].deactivatedAt = 0]
    /\ reactivate' = [reactivate EXCEPT ![p] = @ \ {a}]
    /\ UNCHANGED <<now, pc, snapshot, pool, using, failures, results, orders>>

\* filterHealthy: the enabled agents of the snapshot are pruned and, if that
\* changed anything, the whole snapshot goes back into the file; the candidates
\* are the agents that are not blocked, or all enabled ones if none is left.
FilterHealthy(p) ==
    LET pruned == [a \in Agents |-> IF a \in pool[p] THEN PruneEntry(snapshot[p][a])
                                                     ELSE snapshot[p][a]]
        healthy == {a \in pool[p] : ~Blocked(pruned[a])}
    IN  /\ pc[p] = "loaded"
        /\ health' = IF pruned = snapshot[p] THEN health ELSE pruned
        /\ pool' = [pool EXCEPT ![p] = IF healthy = {} THEN @ ELSE healthy]
        /\ pc' = [pc EXCEPT ![p] = "ready"]
        /\ UNCHANGED <<now, snapshot, using, reactivate, failures, results, orders>>

PickAgent(p, a) ==
    /\ pc[p] = "ready"
    /\ a \in pool[p]
    /\ using' = [using EXCEPT ![p] = a]
    /\ pc' = [pc EXCEPT ![p] = "using"]
    /\ UNCHANGED <<now, health, snapshot, pool, reactivate, failures, results, orders>>

\* recordResult: a success lifts the block and keeps the failures; a failure
\* blocks from the threshold on, and lifts an older block below it.
RecordResult(p, ok) ==
    LET a == using[p]
        failed == IF ok THEN {} ELSE {[at |-> now, nr |-> Cardinality(failures[a])]}
        times == PruneOldFailures(health[a].failureTimes \cup failed)
        until == IF ~ok /\ Cardinality(times) >= Threshold
                 THEN now + BlockDurationFor(Cardinality(times)) ELSE 0
    IN  /\ pc[p] = "using"
        /\ results < MaxResults
        /\ results' = results + 1
        /\ health' = [health EXCEPT ![a].failureTimes = times, ![a].disabledTo = until]
        /\ failures' = [failures EXCEPT ![a] = @ \cup failed]
        /\ pc' = [pc EXCEPT ![p] = "idle"]
        /\ UNCHANGED <<now, snapshot, pool, using, reactivate, orders>>

\* setDeactivated by `at disable`, `at enable`, the TUI, MCP, a quota marker.
SetDeactivated(a, deactivated) ==
    /\ orders < MaxOrders
    /\ orders' = orders + 1
    /\ health' = [health EXCEPT ![a].deactivatedAt = IF deactivated THEN now ELSE 0]
    /\ UNCHANGED <<now, pc, snapshot, pool, using, reactivate, failures, results>>

Next ==
    \/ Tick
    \/ \E p \in Procs :
          \/ Load(p) \/ FilterHealthy(p)
          \/ \E a \in Agents : Reactivate(p, a) \/ PickAgent(p, a)
          \/ \E ok \in BOOLEAN : RecordResult(p, ok)
    \/ \E a \in Agents, d \in BOOLEAN : SetDeactivated(a, d)

Spec == Init /\ [][Next]_vars

-----------------------------------------------------------------------------

\* Every variable has its type.
TypeOK ==
    /\ now \in 1 .. MaxTime
    /\ health \in [Agents -> Entry]
    /\ pc \in [Procs -> {"idle", "loaded", "ready", "using"}]
    /\ snapshot \in [Procs -> [Agents -> Entry]]
    /\ pool \in [Procs -> SUBSET Agents]
    /\ using \in [Procs -> Agents]
    /\ reactivate \in [Procs -> SUBSET Agents]
    /\ failures \in [Agents -> SUBSET Failure]
    /\ results \in 0 .. MaxResults
    /\ orders \in 0 .. MaxOrders

\* The failures an agent had within the window that ends at u.
Recent(a, u) == {f \in failures[a] : f.at <= u /\ f.at + Window >= u}

\* The end of a block that was decided at u for n failures.
Deserved(a, until) ==
    \E u \in 1 .. now : \E n \in Threshold .. Cardinality(Recent(a, u)) :
        until = u + BlockDurationFor(n)

\* A block on file is deserved, however stale the copy it was written from: at
\* some moment the agent really had, within one window, as many failures as the
\* length of the block asks for, and at least the threshold.
BlockIsDeserved ==
    \A a \in Agents : health[a].disabledTo # 0 => Deserved(a, health[a].disabledTo)
=============================================================================
