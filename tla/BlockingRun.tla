----------------------------- MODULE BlockingRun -----------------------------
(***************************************************************************)
(* The blocking modes of `at` (-s and --wait): run() in src/runner.ts      *)
(* picks an agent round robin, starts it, waits for its exit or for the    *)
(* timeout, scans the log for fatal markers, checks the scope, runs the    *)
(* verify command and the callback, records the agent's health, and tries  *)
(* the next agent after an AgentError.                                     *)
(*                                                                         *)
(* Every run is a process of its own.  They meet in state.json (the round  *)
(* robin index), in runs.jsonl and with the user's `at stop`.  A retry     *)
(* keeps the runId: it adds a second record, and updateRun takes the first *)
(* one it finds, the newest.  A locked read-modify-write is one step; the  *)
(* daemon broker, the SSE hub and the eviction of old records are not      *)
(* part of this module (RunLifecycle has the eviction).                    *)
(***************************************************************************)
EXTENDS Naturals, Sequences, FiniteSets

CONSTANTS
    Runs,        \* the invocations of `at`
    Streamed,    \* those with -s; the others have --wait
    Scoped,      \* those with --scope
    Verified,    \* those with --verify
    Sandboxed,   \* those with --sandbox
    Candidates,  \* size of the candidate list, the same list for every run
    Retries,     \* --retries
    MaxStops,    \* bound: `at stop` invocations
    MaxFaults    \* bound: lock timeouts, failed spawns, kills of `at`

ASSUME BlockingAssumption ==
    /\ Streamed \subseteq Runs /\ Scoped \subseteq Runs
    /\ Verified \subseteq Runs /\ Sandboxed \subseteq Runs
    /\ Candidates \in Nat \ {0}
    /\ {Retries, MaxStops, MaxFaults} \subseteq Nat

VARIABLES
    pc,         \* where run() is
    attempt,    \* attempts begun
    agent,      \* the candidate of the current attempt
    index,      \* state.json: scheduler index
    child,      \* the agent process of the current attempt
    marker,     \* the fatal marker in its log
    strayed,    \* runs whose agent changed files outside the scope
    code,       \* exitCode as the code after the exit sees it
    records,    \* runs.jsonl: the records with this runId, newest first, each
                \* with its attempt, whose process is the pid in the record
    health,     \* recordResult calls of the run: [attempt, ok]
    parked,     \* agents deactivated for a quota marker
    callbacks,  \* --callback executions: [attempt, status]
    outcome,    \* how the process ended
    stopper,    \* `at stop <run>`: "signalled" before its write, "marked" after
    stops, faults,
    picks,      \* history: <<run, agent>> of every pickAgent
    unwritten,  \* history: runs that lost an updateRun to a lock timeout
    doomed      \* runs in which the 'error' event of a failed spawn is queued

vars == <<pc, attempt, agent, index, child, marker, strayed, code, records,
          health, parked, callbacks, outcome, stopper, stops, faults, picks,
          unwritten, doomed>>
scheduler == <<agent, index, picks>>
process == <<child, marker, strayed>>
lost == <<unwritten, doomed>>
stopping == <<stopper, stops>>

Agents == 0 .. Candidates - 1

\* Mutant: without the cap.
UncappedAttempts == 1 + Retries

\* 1 + Math.min(options.retries, candidates.length - 1)
MaxAttempts == 1 + (IF Retries < Candidates - 1 THEN Retries ELSE Candidates - 1)

Init ==
    /\ pc = [r \in Runs |-> "idle"]
    /\ attempt = [r \in Runs |-> 0]
    /\ agent = [r \in Runs |-> 0]
    /\ index \in Agents
    /\ child = [r \in Runs |-> "none"]
    /\ marker = [r \in Runs |-> "none"]
    /\ strayed = {}
    /\ code = [r \in Runs |-> "ok"]
    /\ records = [r \in Runs |-> <<>>]
    /\ health = [r \in Runs |-> <<>>]
    /\ parked = {}
    /\ callbacks = [r \in Runs |-> <<>>]
    /\ outcome = [r \in Runs |-> "none"]
    /\ stopper = [r \in Runs |-> "none"]
    /\ stops = 0
    /\ faults = 0
    /\ picks = <<>>
    /\ unwritten = {}
    /\ doomed = {}

Alive(r) == child[r] = "alive"
GoTo(r, label) == pc' = [pc EXCEPT ![r] = label]
\* isPidAlive of a record: the processes of earlier attempts are gone.
PidAlive(r, record) == record.attempt = attempt[r] /\ Alive(r)
Fault == faults < MaxFaults /\ faults' = faults + 1

\* updateRun: findIndex, so the newest record of the run; none, no write.
UpdateRun(r, status) ==
    records' = [records EXCEPT ![r] =
                  IF @ = <<>> THEN @ ELSE [@ EXCEPT ![1].status = status]]

RecordResult(r, ok) ==
    health' = [health EXCEPT ![r] = Append(@, [attempt |-> attempt[r], ok |-> ok])]

ExecuteCallback(r, status) ==
    callbacks' = [callbacks EXCEPT ![r] =
                    Append(@, [attempt |-> attempt[r], status |-> status])]

-----------------------------------------------------------------------------
\* An attempt: pickAgent, launchAgent.

\* pickAgent: read, increment and write under the lock of state.json.
PickAgent(r) ==
    /\ pc[r] \in {"idle", "retry"}
    /\ index' = (index + 1) % Candidates
    /\ agent' = [agent EXCEPT ![r] = index']
    /\ picks' = Append(picks, <<r, index'>>)
    /\ attempt' = [attempt EXCEPT ![r] = @ + 1]
    /\ GoTo(r, "launch")
    /\ UNCHANGED <<process, code, records, health, parked, callbacks, outcome,
                   stopping, faults, lost>>

LaunchAgent(r) ==
    /\ pc[r] = "launch"
    /\ child' = [child EXCEPT ![r] = "alive"]
    /\ marker' = [marker EXCEPT ![r] = "none"]
    /\ strayed' = strayed \ {r}
    /\ GoTo(r, "add")
    /\ UNCHANGED <<attempt, scheduler, code, records, health, parked, callbacks,
                   outcome, stopping, faults, lost>>

\* No pid: an AgentError, thrown before anybody listens to the child.  Its
\* 'error' event comes when run() first waits.
LaunchFails(r) ==
    /\ pc[r] = "launch"
    /\ Fault
    /\ child' = [child EXCEPT ![r] = "none"]
    /\ doomed' = doomed \cup {r}
    /\ GoTo(r, "agentError")
    /\ UNCHANGED <<attempt, scheduler, marker, strayed, code, records, health,
                   parked, callbacks, outcome, stopping, unwritten>>

\* An 'error' event that nobody hears ends the process, and no finally block
\* runs: the last attempt throws before, and an earlier one may have started
\* the next agent.
UnheardError(r) ==
    /\ r \in doomed
    /\ pc[r] # "over"
    /\ outcome' = [outcome EXCEPT ![r] = "crashed"]
    /\ GoTo(r, "over")
    /\ UNCHANGED <<attempt, scheduler, process, code, records, health, parked,
                   callbacks, stopping, faults, lost>>

\* The "close" event of an agent that ends while addRun waits for the lock or
\* the daemon goes by before anybody listens: the run is deaf to it.
AddRun(r, heard) ==
    /\ pc[r] = "add"
    /\ Alive(r) => heard
    /\ records' = [records EXCEPT ![r] =
                      <<[attempt |-> attempt[r], status |-> "running"]>> \o @]
    /\ GoTo(r, IF heard THEN "watch" ELSE "deaf")
    /\ UNCHANGED <<attempt, scheduler, process, code, health, parked, callbacks,
                   outcome, stopping, faults, lost>>

\* The agent (external) ends, of itself or of a signal it handles, and leaves
\* its log and its changes behind.
AgentEnds(r, how, m, inScope) ==
    /\ Alive(r)
    /\ child' = [child EXCEPT ![r] = how]
    /\ marker' = [marker EXCEPT ![r] = m]
    /\ strayed' = IF inScope THEN strayed ELSE strayed \cup {r}
    /\ UNCHANGED <<pc, attempt, scheduler, code, records, health, parked,
                   callbacks, outcome, stopping, faults, lost>>

-----------------------------------------------------------------------------
\* streamLogsAndWatch and awaitDetachedExit.

\* Mutant: no timer.
SeesOnlyKill(r) ==
    /\ pc[r] = "watch"
    /\ child[r] = "killed"
    /\ GoTo(r, "killed")
    /\ UNCHANGED <<attempt, scheduler, process, code, records, health, parked,
                   callbacks, outcome, stopping, faults, lost>>

\* The timeout wins the race (it may win against an exit, too), or the agent
\* ended of a SIGKILL that somebody else sent: both look the same.
SeesKill(r) ==
    /\ pc[r] \in {"watch", "deaf"}
    /\ r \notin doomed
    /\ child' = [child EXCEPT ![r] = IF @ = "alive" THEN "killed" ELSE @]
    /\ GoTo(r, "killed")
    /\ UNCHANGED <<attempt, scheduler, marker, strayed, code, records, health,
                   parked, callbacks, outcome, stopping, faults, lost>>

\* The record fails; --wait records the failure here and again in run().
Killed(r) ==
    /\ pc[r] = "killed"
    /\ UpdateRun(r, "failed")
    /\ IF r \in Streamed THEN UNCHANGED health ELSE RecordResult(r, FALSE)
    /\ GoTo(r, "error")
    /\ UNCHANGED <<attempt, scheduler, process, code, parked, callbacks, outcome,
                   stopping, faults, lost>>

\* The exit is seen first: the record takes its status.
SeesExit(r) ==
    /\ pc[r] = "watch"
    /\ r \notin doomed
    /\ child[r] \in {"ok", "failed"}
    /\ code' = [code EXCEPT ![r] = child[r]]
    /\ UpdateRun(r, IF child[r] = "ok" THEN "done" ELSE "failed")
    /\ GoTo(r, IF child[r] = "ok" THEN "marker" ELSE "health")
    /\ UNCHANGED <<attempt, scheduler, process, health, parked, callbacks,
                   outcome, stopping, faults, lost>>

\* Mutant: only quota markers count.
FatalOnlyQuota(r) ==
    /\ pc[r] = "marker"
    /\ IF marker[r] # "quota"
       THEN UNCHANGED <<records, code, parked>>
       ELSE /\ UpdateRun(r, "failed")
            /\ code' = [code EXCEPT ![r] = "failed"]
            /\ parked' = parked \cup {agent[r]}
    /\ GoTo(r, "health")
    /\ UNCHANGED <<attempt, scheduler, process, health, callbacks, outcome,
                   stopping, faults, lost>>

\* failOnFatalMarker.
FailOnFatalMarker(r) ==
    /\ pc[r] = "marker"
    /\ IF marker[r] = "none"
       THEN UNCHANGED <<records, code, parked>>
       ELSE /\ UpdateRun(r, "failed")
            /\ code' = [code EXCEPT ![r] = "failed"]
            /\ parked' = IF marker[r] = "quota" THEN parked \cup {agent[r]} ELSE parked
    /\ GoTo(r, "health")
    /\ UNCHANGED <<attempt, scheduler, process, health, callbacks, outcome,
                   stopping, faults, lost>>

\* Its updateRun throws: the catch around everything answers "no marker".
MarkerSwallowed(r) ==
    /\ pc[r] = "marker"
    /\ marker[r] # "none"
    /\ Fault
    /\ unwritten' = unwritten \cup {r}
    /\ GoTo(r, "health")
    /\ UNCHANGED <<attempt, scheduler, process, code, records, health, parked,
                   callbacks, outcome, stopping, doomed>>

\* --wait records the health at once, -s leaves it to run().
RecordHealth(r) ==
    /\ pc[r] = "health"
    /\ IF r \in Streamed THEN UNCHANGED health ELSE RecordResult(r, code[r] = "ok")
    /\ GoTo(r, IF r \in Streamed /\ code[r] = "ok" THEN "scope" ELSE "verify")
    /\ UNCHANGED <<attempt, scheduler, process, code, records, parked, callbacks,
                   outcome, stopping, faults, lost>>

\* enforceScopeCheck, of streamed runs only.
EnforceScope(r) ==
    /\ pc[r] = "scope"
    /\ IF r \in Scoped /\ r \in strayed
       THEN /\ UpdateRun(r, "failed")
            /\ ExecuteCallback(r, "failed")
            /\ GoTo(r, "agentError")
       ELSE GoTo(r, "verify") /\ UNCHANGED <<records, callbacks>>
    /\ UNCHANGED <<attempt, scheduler, process, code, health, parked, outcome,
                   stopping, faults, lost>>

\* runVerify, after failed exits too: ok is the outcome of the command.
Verify(r, ok) ==
    /\ pc[r] = "verify"
    /\ r \notin Verified => ok
    /\ IF ok
       THEN GoTo(r, "callback") /\ UNCHANGED <<records, callbacks>>
       ELSE /\ UpdateRun(r, "failed")
            /\ ExecuteCallback(r, "failed")
            /\ GoTo(r, "agentError")
    /\ UNCHANGED <<attempt, scheduler, process, code, health, parked, outcome,
                   stopping, faults, lost>>

Callback(r) ==
    /\ pc[r] = "callback"
    /\ ExecuteCallback(r, IF code[r] = "ok" THEN "done" ELSE "failed")
    /\ GoTo(r, "returned")
    /\ UNCHANGED <<attempt, scheduler, process, code, records, health, parked,
                   outcome, stopping, faults, lost>>

-----------------------------------------------------------------------------
\* The rest of run()'s loop.

\* The spawner returned.  -s records the health and turns a non-zero code into
\* an AgentError; --wait takes any code for success.  sandbox is the outcome of
\* the sandbox test: its AgentError finds the health of -s already recorded.
Returned(r, sandbox) ==
    /\ pc[r] = "returned"
    /\ r \notin Sandboxed => sandbox
    /\ IF r \in Streamed THEN RecordResult(r, code[r] = "ok") ELSE UNCHANGED health
    /\ IF (r \in Streamed /\ code[r] # "ok") \/ ~sandbox
       THEN /\ GoTo(r, IF r \in Streamed THEN "recordedError" ELSE "agentError")
            /\ UNCHANGED outcome
       ELSE GoTo(r, "over") /\ outcome' = [outcome EXCEPT ![r] = "zero"]
    /\ UNCHANGED <<attempt, scheduler, process, code, records, parked, callbacks,
                   stopping, faults, lost>>

\* An AgentError: recorded once, then the next attempt, or the end.
AgentErrorCaught(r) ==
    /\ pc[r] \in {"agentError", "recordedError"}
    /\ IF pc[r] = "agentError" THEN RecordResult(r, FALSE) ELSE UNCHANGED health
    /\ IF attempt[r] = MaxAttempts
       THEN GoTo(r, "over") /\ outcome' = [outcome EXCEPT ![r] = "error"]
       ELSE GoTo(r, "retry") /\ UNCHANGED outcome
    /\ UNCHANGED <<attempt, scheduler, process, code, records, parked, callbacks,
                   stopping, faults, lost>>

\* Mutant: no killActiveChildren in the finally block.
ErrorLeavesChildren(r) ==
    /\ pc[r] = "error"
    /\ RecordResult(r, FALSE)
    /\ outcome' = [outcome EXCEPT ![r] = "error"]
    /\ GoTo(r, "over")
    /\ UNCHANGED <<attempt, scheduler, process, code, records, parked, callbacks,
                   stopping, faults, lost>>

\* Any other error ends the run.  The finally block of -s kills its agent.
ErrorCaught(r) ==
    /\ pc[r] = "error"
    /\ RecordResult(r, FALSE)
    /\ child' = [child EXCEPT ![r] = IF @ = "alive" /\ r \in Streamed THEN "killed" ELSE @]
    /\ outcome' = [outcome EXCEPT ![r] = "error"]
    /\ GoTo(r, "over")
    /\ UNCHANGED <<attempt, scheduler, marker, strayed, code, records, parked,
                   callbacks, stopping, faults, lost>>

\* A lock timeout in addRun, updateRun or recordResult: not an AgentError.  A
\* record that is done stays so when the write of the scope check or of a failed
\* verify command is lost, and no callback fires.
WriteFails(r) ==
    /\ r \notin doomed
    /\ \/ pc[r] \in {"add", "killed"}
       \/ pc[r] = "watch" /\ child[r] \in {"ok", "failed"}
       \/ pc[r] = "health" /\ r \notin Streamed
       \/ pc[r] = "scope" /\ r \in Scoped /\ r \in strayed
       \/ pc[r] = "verify" /\ r \in Verified
       \/ pc[r] = "returned" /\ r \in Streamed
    /\ Fault
    /\ unwritten' = IF pc[r] \in {"scope", "verify"} THEN unwritten \cup {r} ELSE unwritten
    /\ GoTo(r, "error")
    /\ UNCHANGED <<attempt, scheduler, process, code, records, health, parked,
                   callbacks, outcome, stopping, doomed>>

\* A lock timeout in pickAgent or in the recordResult of the catch block is
\* caught by nobody: run() throws, after the finally block.
LockErrorEscapes(r) ==
    /\ r \notin doomed
    /\ pc[r] \in {"idle", "retry", "agentError", "error"}
    /\ Fault
    /\ child' = [child EXCEPT ![r] = IF @ = "alive" /\ r \in Streamed THEN "killed" ELSE @]
    /\ outcome' = [outcome EXCEPT ![r] = "threw"]
    /\ GoTo(r, "over")
    /\ UNCHANGED <<attempt, scheduler, marker, strayed, code, records, health,
                   parked, callbacks, stopping, lost>>

\* SIGINT or SIGTERM: cleanup() kills the tracked agent and exits, but not while
\* spawnSync holds the event loop.
Interrupted(r) ==
    /\ pc[r] \notin {"idle", "over", "callback"}
    /\ Fault
    /\ child' = [child EXCEPT ![r] = IF @ = "alive" THEN "killed" ELSE @]
    /\ outcome' = [outcome EXCEPT ![r] = "interrupted"]
    /\ GoTo(r, "over")
    /\ UNCHANGED <<attempt, scheduler, marker, strayed, code, records, health,
                   parked, callbacks, stopping, lost>>

\* SIGKILL, SIGHUP (which nobody handles) or an exception outside of run(), such
\* as the EPIPE of an agent's stdin: the agent, in a session of its own, lives on.
Crashes(r) ==
    /\ pc[r] \notin {"idle", "over"}
    /\ Fault
    /\ outcome' = [outcome EXCEPT ![r] = "crashed"]
    /\ GoTo(r, "over")
    /\ UNCHANGED <<attempt, scheduler, process, code, records, health, parked,
                   callbacks, stopping, lost>>

-----------------------------------------------------------------------------
\* The other writers of the record.

\* at stop: SIGTERM is left to the agent, SIGKILL ends it.
StopSignals(r, force) ==
    /\ stops < MaxStops
    /\ stopper[r] # "signalled"
    /\ records[r] # <<>> /\ PidAlive(r, records[r][1])
    /\ stops' = stops + 1
    /\ stopper' = [stopper EXCEPT ![r] = "signalled"]
    /\ child' = [child EXCEPT ![r] = IF force THEN "killed" ELSE @]
    /\ UNCHANGED <<pc, attempt, scheduler, marker, strayed, code, records, health,
                   parked, callbacks, outcome, faults, lost>>

StopWrites(r) ==
    /\ stopper[r] = "signalled"
    /\ UpdateRun(r, "failed")
    /\ stopper' = [stopper EXCEPT ![r] = "marked"]
    /\ UNCHANGED <<pc, attempt, scheduler, process, code, health, parked,
                   callbacks, outcome, stops, faults, lost>>

\* at status: detectStuck finds the pid of a running record gone.
Refresh(r) ==
    /\ records' = [records EXCEPT ![r] = [i \in DOMAIN @ |->
                      IF @[i].status = "running" /\ ~PidAlive(r, @[i])
                      THEN [@[i] EXCEPT !.status = "failed"] ELSE @[i]]]
    /\ UNCHANGED <<pc, attempt, scheduler, process, code, health, parked,
                   callbacks, outcome, stopping, faults, lost>>

-----------------------------------------------------------------------------

Step(r) ==
    \/ PickAgent(r) \/ LaunchAgent(r)
    \/ \E heard \in BOOLEAN : AddRun(r, heard)
    \/ SeesKill(r) \/ Killed(r) \/ SeesExit(r)
    \/ FailOnFatalMarker(r) \/ RecordHealth(r) \/ EnforceScope(r)
    \/ \E ok \in BOOLEAN : Verify(r, ok) \/ Returned(r, ok)
    \/ Callback(r) \/ AgentErrorCaught(r) \/ ErrorCaught(r)

Faulty(r) ==
    \/ LaunchFails(r) \/ MarkerSwallowed(r) \/ WriteFails(r)
    \/ LockErrorEscapes(r) \/ Interrupted(r) \/ Crashes(r) \/ UnheardError(r)

Outside(r) ==
    \/ \E how \in {"ok", "failed"}, m \in {"none", "fatal", "quota"}, b \in BOOLEAN :
          AgentEnds(r, how, m, b)
    \/ \E force \in BOOLEAN : StopSignals(r, force)
    \/ StopWrites(r) \/ Refresh(r)

Next == \E r \in Runs : Step(r) \/ Faulty(r) \/ Outside(r)

Spec == Init /\ [][Next]_vars

\* Labels at which run() waits for a command of the user.
Commands == {"scope", "verify", "callback"}

\* run() keeps running, its timer fires if the agent does not end, and a queued
\* event comes.  A verify command or callback (which a violated scope calls, too)
\* need not return: spawnSync has no timeout.
FairSpec ==
    /\ Spec
    /\ \A r \in Runs :
          WF_vars((pc[r] \notin Commands /\ Step(r)) \/ UnheardError(r))

-----------------------------------------------------------------------------

\* Every variable has its type; attempts stay within the limit.
TypeOK ==
    /\ pc \in [Runs -> {"idle", "launch", "add", "watch", "deaf", "killed", "marker",
                         "health", "scope", "verify", "callback", "returned",
                         "agentError", "recordedError", "error", "retry",
                         "over"}]
    /\ attempt \in [Runs -> 0 .. MaxAttempts]
    /\ agent \in [Runs -> Agents]
    /\ index \in Agents
    /\ child \in [Runs -> {"none", "alive", "ok", "failed", "killed"}]
    /\ marker \in [Runs -> {"none", "fatal", "quota"}]
    /\ strayed \in SUBSET Runs
    /\ code \in [Runs -> {"ok", "failed"}]
    /\ records \in [Runs -> Seq([attempt : 1 .. MaxAttempts,
                                  status : {"running", "done", "failed"}])]
    /\ health \in [Runs -> Seq([attempt : 1 .. MaxAttempts, ok : BOOLEAN])]
    /\ parked \in SUBSET Agents
    /\ callbacks \in [Runs -> Seq([attempt : 1 .. MaxAttempts, status : {"done", "failed"}])]
    /\ outcome \in [Runs -> {"none", "zero", "error", "threw", "interrupted",
                              "crashed"}]
    /\ stopper \in [Runs -> {"none", "signalled", "marked"}]
    /\ stops \in 0 .. MaxStops
    /\ faults \in 0 .. MaxFaults
    /\ picks \in Seq(Runs \X Agents)
    /\ unwritten \in SUBSET Runs
    /\ doomed \in SUBSET Runs

\* The last agent of the run did what was asked: exit code 0, no provider
\* error in its log, no file outside the scope.
Good(r) == child[r] = "ok" /\ marker[r] = "none" /\ ~(r \in Scoped /\ r \in strayed)

\* A streamed run that exits 0 had a good agent and, unless the user stopped
\* it, is done for every reader of runs.jsonl, however refreshes interleave.
ZeroMeansDone ==
    \A r \in Streamed : outcome[r] = "zero" =>
        /\ Good(r) \/ r \in unwritten
        /\ records[r] # <<>>
        /\ records[r][1].status = "done" \/ stopper[r] # "none"

\* A streamed run that ends in an error is not done for the readers of runs.jsonl,
\* unless its callback has said "done", too, and what failed came after it (the
\* sandbox test, the write of the health), or the write of the failure was lost to
\* a lock timeout.
SaidDone(r, n) ==
    \E i \in DOMAIN callbacks[r] : callbacks[r][i] = [attempt |-> n, status |-> "done"]
ErrorIsOnRecord ==
    \A r \in Streamed :
        outcome[r] = "error" /\ records[r] # <<>> /\ records[r][1].status = "done" =>
            SaidDone(r, records[r][1].attempt) \/ r \in unwritten

\* Health hears of every attempt of a streamed run exactly once, also when the
\* verify command, the scope check, the sandbox test or a write failed: no
\* agent collects two failures for one attempt, and none gets away without one,
\* unless recordResult itself threw or the process was killed.
OneResultPerAttempt ==
    \A r \in Streamed :
        /\ \A i \in DOMAIN health[r] : health[r][i].attempt = i
        /\ outcome[r] \in {"zero", "error"} => Len(health[r]) = attempt[r]

\* A retry takes another agent unless a concurrent run picked in between.
RetryTakesAnotherUnlessRaced ==
    \A i, j \in DOMAIN picks :
        i < j /\ picks[i] = picks[j] => \E k \in i .. j : picks[k][1] # picks[i][1]

\* However run() itself ends -s, by a return, by an error of any write, or by the
\* SIGINT and SIGTERM it handles, its agent does not outlive it.  Who is left
\* behind was left by a death that run() does not see.
NoAgentLeftBehind ==
    \A r \in Streamed : pc[r] = "over" /\ Alive(r) => outcome[r] = "crashed"

\* The callback fires at most once per attempt, and it says "done" only of a
\* good agent.
CallbackTellsTheTruth ==
    \A r \in Runs :
        /\ \A i, j \in DOMAIN callbacks[r] :
              callbacks[r][i].attempt = callbacks[r][j].attempt => i = j
        /\ \A i \in DOMAIN callbacks[r] :
              callbacks[r][i] = [attempt |-> attempt[r], status |-> "done"]
              /\ pc[r] \in {"returned", "over"} =>
                  child[r] = "ok" /\ (marker[r] = "none" \/ r \in unwritten)

\* What run() tells the outside agrees with what its agents did, whichever of its
\* dozen error paths was taken: the exit code with the record, health with the
\* attempts, the callback with the agent.
ReportsAreTrue ==
    ZeroMeansDone /\ ErrorIsOnRecord /\ OneResultPerAttempt /\ CallbackTellsTheTruth

\* Every run ends, if its verify commands and callbacks return: the timeout bounds
\* an attempt, and attempts are bounded.
RunEnds ==
    \A r \in Runs :
        []<>(pc[r] \notin Commands) => (pc[r] = "launch" ~> pc[r] = "over")

=============================================================================
