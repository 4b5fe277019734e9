---------------------------- MODULE RunLifecycle ----------------------------
(***************************************************************************)
(* The life of detached runs, the default mode of `at`: the CLI that       *)
(* launches the agent (src/runner.ts), the record of the run in runs.jsonl *)
(* (src/run-store.ts), the detached supervisor (src/run-watch.ts), and the *)
(* two other writers of the record, `at stop` (src/commands/stop.ts) and   *)
(* the refresh behind `at status` (refreshRunsLocal, detectStuck).         *)
(*                                                                         *)
(* All of them are separate processes.  A read-modify-write of runs.jsonl  *)
(* is one step, because it runs inside withLock (module FileLock says when *)
(* that holds); it may fail with the lock timeout.  Whatever a process     *)
(* does outside the lock is a step of its own.  Writes go to the file      *)
(* directly: the daemon broker is not part of this module.  A pid is not   *)
(* given to another process while its record is running.                   *)
(***************************************************************************)
EXTENDS Naturals, Sequences, FiniteSets

CONSTANTS
    Runs,           \* the invocations of `at`, one detached run each
    Verified,       \* those with --verify
    MaxConcurrent,  \* AT_MAX_CONCURRENT
    MaxEntries,     \* state.json runs.maxEntries
    MaxStops,       \* bound: `at stop` invocations
    MaxFaults       \* bound: crashes and lock timeouts

ASSUME RunAssumption ==
    /\ Verified \subseteq Runs
    /\ MaxConcurrent \in Nat \ {0}
    /\ MaxEntries \in Nat \ {0}
    /\ MaxStops \in Nat
    /\ MaxFaults \in Nat

VARIABLES
    launcher,   \* the CLI of each run
    agent,      \* the agent process (a detached process group)
    marker,     \* the fatal marker the agent left at the end of its log
    term,       \* runs whose agent was sent SIGTERM
    status,     \* runs.jsonl: the status of each run, "absent" without record
    above,      \* runs.jsonl: the records listed above that of each run
    startedAt,  \* the startedAt of each run's record, 0 before it is taken
    starts,     \* the last startedAt taken
    addedAt,    \* history: the turn of each run's addRun, 0 before it
    adds,       \* history: the last turn
    aged,       \* what was started up to this time is older than the TTL
    watch,      \* the supervisor of each run
    verdict,    \* finalStatus of the supervisor
    called,     \* the AT_STATUS of every --callback execution
    blamed,     \* agent health: what the run recorded against its agent
    stopper,    \* `at stop <run>`: "signalled" before its write, "marked" after
    stops,      \* `at stop` invocations so far
    faults      \* crashes and lock timeouts so far

vars == <<launcher, agent, marker, term, status, above, startedAt, starts,
          addedAt, adds, aged, watch, verdict, called, blamed, stopper, stops,
          faults>>
times == <<startedAt, starts, addedAt, adds, aged>>
store == <<status, above, times>>
supervisor == <<watch, verdict, called, blamed>>

Terminal == {"done", "failed"}
Markers == {"none", "fatal", "quota"}

Init ==
    /\ launcher = [r \in Runs |-> "idle"]
    /\ agent = [r \in Runs |-> "none"]
    /\ marker = [r \in Runs |-> "none"]
    /\ term = {}
    /\ status = [r \in Runs |-> "absent"]
    /\ above = [r \in Runs |-> {}]
    /\ startedAt = [r \in Runs |-> 0]
    /\ addedAt = [r \in Runs |-> 0]
    /\ starts = 0
    /\ adds = 0
    /\ aged = 0
    /\ watch = [r \in Runs |-> "off"]
    /\ verdict = [r \in Runs |-> "done"]
    /\ called = [r \in Runs |-> <<>>]
    /\ blamed = [r \in Runs |-> "no"]
    /\ stopper = [r \in Runs |-> "none"]
    /\ stops = 0
    /\ faults = 0

-----------------------------------------------------------------------------
\* runs.jsonl.

Alive(r) == agent[r] = "alive"
Recorded(r) == status[r] # "absent"

\* addRunLocal: unshift, then slice(0, max).
AddRecord(r) ==
    LET kept == {x \in Runs : Recorded(x) /\ Cardinality(above[x]) + 1 < MaxEntries}
    IN /\ status' = [x \in Runs |-> IF x = r THEN "running"
                                    ELSE IF x \in kept THEN status[x]
                                    ELSE "absent"]
       /\ above' = [x \in Runs |-> IF x \in kept THEN above[x] \cup {r} ELSE {}]

\* updateRunLocal: nothing is written when the record is no longer there.
UpdateRecord(r, new) ==
    /\ status' = [status EXCEPT ![r] = IF @ = "absent" THEN @ ELSE new]
    /\ UNCHANGED <<above, times>>

\* Mutant: no early return for records that are over.
AnnotatedAlways(r, silent) ==
    IF status[r] = "absent" THEN "absent"
    ELSE IF ~Alive(r) THEN "failed"
    ELSE IF r \in silent THEN "stuck"
    ELSE "running"

\* detectStuck leaves every record that is not "running" as it is.  A dead pid
\* is "failed".  A live one is "stuck" when its log is silent for 30 minutes
\* and its processes use no CPU.
Annotated(r, silent) ==
    IF status[r] # "running" THEN status[r]
    ELSE IF ~Alive(r) THEN "failed"
    ELSE IF r \in silent THEN "stuck"
    ELSE "running"

\* A polling supervisor writes a heartbeat into the log every 5 minutes, and a
\* launcher takes less than 30 minutes: only a run without either goes silent.
MayBeSilent == {r \in Runs : launcher[r] = "crashed" \/ watch[r] = "crashed"}

\* sampleSystem: an unlocked read of the file.
RunningRuns == {r \in Runs : status[r] = "running" /\ Alive(r)}

Fault == faults < MaxFaults /\ faults' = faults + 1

-----------------------------------------------------------------------------
\* The CLI of a detached run: preflight, launchAgent, spawnRunWatch.

\* assertSafeToStart counts the running records, and the start goes on.
Preflight(r) ==
    /\ launcher[r] = "idle"
    /\ Cardinality(RunningRuns) < MaxConcurrent
    /\ launcher' = [launcher EXCEPT ![r] = "checked"]
    /\ UNCHANGED <<agent, marker, term, store, supervisor, stopper, stops,
                   faults>>

Refuse(r) ==
    /\ launcher[r] = "idle"
    /\ Cardinality(RunningRuns) >= MaxConcurrent
    /\ launcher' = [launcher EXCEPT ![r] = "refused"]
    /\ UNCHANGED <<agent, marker, term, store, supervisor, stopper, stops,
                   faults>>

\* spawn: the agent runs before its record exists.  Its startedAt is taken
\* before addRun waits for the lock, so that a run that started first may be
\* added last.
SpawnAgent(r) ==
    /\ launcher[r] = "checked"
    /\ launcher' = [launcher EXCEPT ![r] = "spawned"]
    /\ agent' = [agent EXCEPT ![r] = "alive"]
    /\ starts' = starts + 1
    /\ startedAt' = [startedAt EXCEPT ![r] = starts']
    /\ UNCHANGED <<marker, term, status, above, addedAt, adds, aged, supervisor,
                   stopper, stops, faults>>

AddRun(r) ==
    /\ launcher[r] = "spawned"
    /\ launcher' = [launcher EXCEPT ![r] = "recorded"]
    /\ AddRecord(r)
    /\ adds' = adds + 1
    /\ addedAt' = [addedAt EXCEPT ![r] = adds']
    /\ UNCHANGED <<startedAt, starts, aged, agent, marker, term, supervisor, stopper, stops, faults>>

\* addRun throws after the lock timeout: run() records a failure for the agent
\* and rethrows, and the agent stays behind, unrecorded and unsupervised
\* (killActiveChildren is for streamed runs).
AddRunFails(r) ==
    /\ launcher[r] = "spawned"
    /\ Fault
    /\ launcher' = [launcher EXCEPT ![r] = "failed"]
    /\ blamed' = [blamed EXCEPT ![r] = "failure"]
    /\ UNCHANGED <<agent, marker, term, store, watch, verdict, called, stopper,
                   stops>>

\* The supervisor process starts; the CLI returns 0.
SpawnRunWatch(r) ==
    /\ launcher[r] = "recorded"
    /\ launcher' = [launcher EXCEPT ![r] = "exited"]
    /\ watch' = [watch EXCEPT ![r] = "poll"]
    /\ UNCHANGED <<agent, marker, term, store, verdict, called, blamed,
                   stopper, stops, faults>>

\* Killed anywhere, or (when recorded) the spawn of the supervisor failed,
\* which spawnRunWatch swallows.
LauncherCrashes(r) ==
    /\ launcher[r] \in {"checked", "spawned", "recorded"}
    /\ Fault
    /\ launcher' = [launcher EXCEPT ![r] = "crashed"]
    /\ UNCHANGED <<agent, marker, term, store, supervisor, stopper, stops>>

-----------------------------------------------------------------------------
\* The agent process (external): it ends by itself, or of a SIGTERM, and may
\* leave a provider's fatal marker at the end of its log.

AgentEnds(r, m) ==
    /\ Alive(r)
    /\ agent' = [agent EXCEPT ![r] = "dead"]
    /\ marker' = [marker EXCEPT ![r] = m]
    /\ UNCHANGED <<launcher, term, store, supervisor, stopper, stops, faults>>

-----------------------------------------------------------------------------
\* run-watch.ts main().

\* Mutant: the supervisor does not wait for the agent.
WatchSeesExitAtOnce(r) ==
    /\ watch[r] = "poll"
    /\ watch' = [watch EXCEPT ![r] = "finalise"]
    /\ UNCHANGED <<launcher, agent, marker, term, store, verdict, called,
                   blamed, stopper, stops, faults>>

\* while (isPidAlive(pid)) ends.
WatchSeesExit(r) ==
    /\ watch[r] = "poll"
    /\ ~Alive(r)
    /\ watch' = [watch EXCEPT ![r] = "finalise"]
    /\ UNCHANGED <<launcher, agent, marker, term, store, verdict, called,
                   blamed, stopper, stops, faults>>

\* The runtime cap (AT_MAX_RUN_MS): SIGKILL to the group, then the loop ends.
WatchKills(r) ==
    /\ watch[r] = "poll"
    /\ Alive(r)
    /\ agent' = [agent EXCEPT ![r] = "dead"]
    /\ watch' = [watch EXCEPT ![r] = "finalise"]
    /\ UNCHANGED <<launcher, marker, term, store, verdict, called, blamed,
                   stopper, stops, faults>>

\* detectQuotaLimit, then updateRun: "failed" after a marker, else "done",
\* whatever the record says by now.
WatchFinalise(r) ==
    /\ watch[r] = "finalise"
    /\ UpdateRecord(r, IF marker[r] = "none" THEN "done" ELSE "failed")
    /\ watch' = [watch EXCEPT ![r] = IF marker[r] = "none" THEN "verify" ELSE "blame"]
    /\ UNCHANGED <<launcher, agent, marker, term, verdict, called, blamed,
                   stopper, stops, faults>>

\* updateRun throws: logged, and the health update in the same try block is
\* skipped with it.
WatchFinaliseFails(r) ==
    /\ watch[r] = "finalise"
    /\ Fault
    /\ watch' = [watch EXCEPT ![r] = "verify"]
    /\ UNCHANGED <<launcher, agent, marker, term, store, verdict, called,
                   blamed, stopper, stops>>

\* recordResult(false), and setDeactivated for a quota marker.
WatchBlames(r) ==
    /\ watch[r] = "blame"
    /\ blamed' = [blamed EXCEPT ![r] =
                    IF marker[r] = "quota" THEN "parked" ELSE "failure"]
    /\ watch' = [watch EXCEPT ![r] = "verify"]
    /\ UNCHANGED <<launcher, agent, marker, term, store, verdict, called,
                   stopper, stops, faults>>

\* AT_VERIFY_CMD, run by the shell: ok is its outcome.
WatchVerifies(r, ok) ==
    /\ watch[r] = "verify"
    /\ r \notin Verified => ok
    /\ verdict' = [verdict EXCEPT ![r] = IF ok THEN @ ELSE "failed"]
    /\ watch' = [watch EXCEPT ![r] = IF ok THEN "callback" ELSE "flip"]
    /\ UNCHANGED <<launcher, agent, marker, term, store, called, blamed,
                   stopper, stops, faults>>

\* The verify command failed: the record flips to "failed" ...
WatchFlips(r) ==
    /\ watch[r] = "flip"
    /\ UpdateRecord(r, "failed")
    /\ watch' = [watch EXCEPT ![r] = "callback"]
    /\ UNCHANGED <<launcher, agent, marker, term, verdict, called, blamed,
                   stopper, stops, faults>>


\* ... or not: "best effort".
WatchFlipFails(r) ==
    /\ watch[r] = "flip"
    /\ Fault
    /\ watch' = [watch EXCEPT ![r] = "callback"]
    /\ UNCHANGED <<launcher, agent, marker, term, store, verdict, called,
                   blamed, stopper, stops>>

\* runCallback, once, with the supervisor's own finalStatus.
WatchCallsBack(r) ==
    /\ watch[r] = "callback"
    /\ called' = [called EXCEPT ![r] = Append(@, verdict[r])]
    /\ watch' = [watch EXCEPT ![r] = "exited"]
    /\ UNCHANGED <<launcher, agent, marker, term, store, verdict, blamed,
                   stopper, stops, faults>>

WatchCrashes(r) ==
    /\ watch[r] \notin {"off", "exited", "crashed"}
    /\ Fault
    /\ watch' = [watch EXCEPT ![r] = "crashed"]
    /\ UNCHANGED <<launcher, agent, marker, term, store, verdict, called,
                   blamed, stopper, stops>>

-----------------------------------------------------------------------------
\* at stop.

\* stopRun: the record is read without the lock; a run whose pid is alive is
\* signalled, with SIGTERM, which the agent may outlive, or with SIGKILL.
StopSignals(r, force) ==
    /\ stops < MaxStops
    /\ stopper[r] # "signalled"
    /\ Recorded(r)
    /\ Alive(r)
    /\ stops' = stops + 1
    /\ stopper' = [stopper EXCEPT ![r] = "signalled"]
    /\ IF force
       THEN agent' = [agent EXCEPT ![r] = "dead"] /\ UNCHANGED term
       ELSE term' = term \cup {r} /\ UNCHANGED agent
    /\ UNCHANGED <<launcher, marker, store, supervisor, faults>>

StopWrites(r) ==
    /\ stopper[r] = "signalled"
    /\ UpdateRecord(r, "failed")
    /\ stopper' = [stopper EXCEPT ![r] = "marked"]
    /\ UNCHANGED <<launcher, agent, marker, term, supervisor, stops, faults>>

\* The lock timed out, or the user interrupted the command.
StopFails(r) ==
    /\ stopper[r] = "signalled"
    /\ Fault
    /\ stopper' = [stopper EXCEPT ![r] = "none"]
    /\ UNCHANGED <<launcher, agent, marker, term, store, supervisor, stops>>

-----------------------------------------------------------------------------
\* at status, the TUI, the web UI.

\* AT_STATUS_TTL_MS goes by after the start of r, which matters to the records
\* there are.
TtlPasses(r) ==
    /\ Recorded(r)
    /\ startedAt[r] > aged
    /\ aged' = startedAt[r]
    /\ UNCHANGED <<launcher, agent, marker, term, status, above, startedAt,
                   starts, addedAt, adds, supervisor, stopper, stops, faults>>

Aged(r) == startedAt[r] <= aged

\* pruneList: a record without finishedAt ages from its startedAt, a live run's
\* too; one with it ages later, gone being those that did.  The list is never
\* longer than MaxEntries here: addRun keeps it so.
Pruned(gone) ==
    {r \in Runs : /\ Recorded(r)
                  /\ Aged(r) => status[r] \in Terminal /\ r \notin gone}

\* refreshRunsLocal: prune, sort by startedAt and detectStuck in one locked
\* write.
Refresh ==
    \E gone \in SUBSET {r \in Runs : Aged(r)}, silent \in SUBSET MayBeSilent :
        /\ status' = [r \in Runs |-> IF r \in Pruned(gone) THEN Annotated(r, silent)
                                     ELSE "absent"]
        /\ above' = [r \in Runs |->
                        {x \in Pruned(gone) : r \in Pruned(gone)
                                             /\ startedAt[x] > startedAt[r]}]
        /\ UNCHANGED <<launcher, agent, marker, term, times, supervisor,
                       stopper, stops, faults>>

-----------------------------------------------------------------------------

Launch(r) ==
    \/ Preflight(r) \/ Refuse(r) \/ SpawnAgent(r) \/ AddRun(r)
    \/ SpawnRunWatch(r)

Watch(r) ==
    \/ WatchSeesExit(r) \/ WatchKills(r) \/ WatchFinalise(r) \/ WatchBlames(r)
    \/ \E ok \in BOOLEAN : WatchVerifies(r, ok)
    \/ WatchFlips(r) \/ WatchCallsBack(r)

Faulty(r) ==
    \/ AddRunFails(r) \/ LauncherCrashes(r) \/ WatchFinaliseFails(r)
    \/ WatchFlipFails(r) \/ WatchCrashes(r) \/ StopFails(r)

Stop(r) == (\E force \in BOOLEAN : StopSignals(r, force)) \/ StopWrites(r)

Next ==
    \/ \E r \in Runs :
          \/ Launch(r) \/ Watch(r) \/ Faulty(r) \/ Stop(r)
          \/ TtlPasses(r)
          \/ \E m \in Markers : AgentEnds(r, m)
    \/ Refresh

Spec == Init /\ [][Next]_vars

\* Every process keeps running unless it crashes, and somebody looks at the
\* status now and then.  Agents need not end by themselves, stops need not
\* happen.
FairSpec ==
    /\ Spec
    /\ \A r \in Runs : WF_vars(Launch(r)) /\ WF_vars(Watch(r)) /\ WF_vars(StopWrites(r))
    /\ WF_vars(Refresh)

-----------------------------------------------------------------------------

\* Every variable has its type.
TypeOK ==
    /\ launcher \in [Runs -> {"idle", "refused", "checked", "spawned",
                               "recorded", "exited", "failed", "crashed"}]
    /\ agent \in [Runs -> {"none", "alive", "dead"}]
    /\ marker \in [Runs -> Markers]
    /\ term \in SUBSET Runs
    /\ status \in [Runs -> Terminal \cup {"absent", "running", "stuck"}]
    /\ above \in [Runs -> SUBSET Runs]
    /\ startedAt \in [Runs -> Nat]
    /\ addedAt \in [Runs -> Nat]
    /\ starts \in Nat
    /\ adds \in Nat
    /\ aged \in Nat
    /\ watch \in [Runs -> {"off", "poll", "finalise", "blame", "verify", "flip",
                            "callback", "exited", "crashed"}]
    /\ verdict \in [Runs -> Terminal]
    /\ called \in [Runs -> Seq(Terminal)]
    /\ blamed \in [Runs -> {"no", "failure", "parked"}]
    /\ stopper \in [Runs -> {"none", "signalled", "marked"}]
    /\ stops \in 0..MaxStops
    /\ faults \in 0..MaxFaults

\* No reader of runs.jsonl is told that a run is over while its agent still
\* works, except after `at stop` sent a SIGTERM that the agent has not obeyed
\* yet: nobody merges, retries or counts a slot as free too early.
TerminalMeansEnded ==
    \A r \in Runs : status[r] \in Terminal /\ Alive(r) => r \in term

\* A record that is over never comes back to life, whichever of the four
\* writers comes last.
NoResurrection ==
    [][\A r \in Runs :
          status[r] \in Terminal => status'[r] \notin {"running", "stuck"}]_vars

\* Once the supervisor has nothing left to write and no `at stop` is under way
\* the outcome of a run is final: refreshes by any number of viewers never
\* rewrite it.
SettledIsFinal ==
    [][\A r \in Runs :
          /\ status[r] \in Terminal
          /\ watch[r] \in {"callback", "exited", "crashed"}
          /\ stopper[r] # "signalled"
          => status'[r] \in {status[r], "absent"}]_vars

\* The runs that were added after r, or started after it and added.
Newer(r) == {x \in Runs : /\ addedAt[x] > 0
                          /\ addedAt[x] > addedAt[r] \/ startedAt[x] > startedAt[r]}

\* A run whose agent still works drops out of runs.jsonl (where `at stop` and
\* the preflight would no longer see it) only after maxEntries newer runs, or
\* when it works for longer than the TTL.
EvictedOnlyByNewer ==
    \A r \in Runs :
        addedAt[r] > 0 /\ Alive(r) /\ ~Recorded(r) =>
            Cardinality(Newer(r)) >= MaxEntries \/ Aged(r)

\* The --callback of a run fires at most once, never while the agent works, and
\* reports "failed" when the verify command failed.
CallbackOnce ==
    \A r \in Runs :
        /\ Len(called[r]) <= 1
        /\ called[r] # <<>> => ~Alive(r)
        /\ called[r] = <<"done">> => verdict[r] = "done"

\* What anybody concludes from runs.jsonl or the callback is so: a run that is over
\* there has no agent at work, a run at work is there unless maxEntries newer ones or
\* the TTL took it out, and the callback came once.
RecordsAreHonest == TerminalMeansEnded /\ EvictedOnlyByNewer /\ CallbackOnce

\* The status of a record moves forward only, and stops: of four writers that come in
\* any order none brings a run back, and none changes an outcome that is settled.
StatusMovesForward == NoResurrection /\ SettledIsFinal

\* A dead agent is noticed: its record does not stay "running" for ever, even
\* if the supervisor crashed, was never started, or could not write.
DeadIsNoticed ==
    \A r \in Runs :
        status[r] = "running" /\ agent[r] = "dead" ~> status[r] # "running"

\* A supervised run ends (the runtime cap sees to it), its callback fires and
\* its record stops saying "running", unless the supervisor crashes.
SupervisedSettles ==
    \A r \in Runs :
        watch[r] = "poll" ~>
            \/ watch[r] = "crashed"
            \/ ~Alive(r) /\ Len(called[r]) = 1 /\ status[r] # "running"


\* docs/bridge.md: `stop` "marks the run failed in runs.jsonl".
StoppedStaysFailed ==
    \A r \in Runs : stopper[r] = "marked" => status[r] \in {"failed", "absent"}

=============================================================================
