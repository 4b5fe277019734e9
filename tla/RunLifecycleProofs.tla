-------------------------- MODULE RunLifecycleProofs --------------------------
(***************************************************************************)
(* Proofs about the record of a detached run, for any number of runs, any  *)
(* limits and any number of stops, crashes and lock timeouts.  What ties   *)
(* the four writers together is where the processes are: the supervisor    *)
(* writes only when the agent is gone, `at stop` only when the agent was   *)
(* signalled, and no agent starts once its run has a record.               *)
(***************************************************************************)
EXTENDS RunLifecycle, TLAPS, FiniteSetTheorems

\* Before its addRun a run has no record and no stopper; before the spawn it
\* has no agent either.
UnrecordedIsFresh ==
    \A r \in Runs :
        /\ launcher[r] \in {"idle", "refused", "checked"} => agent[r] = "none"
        /\ launcher[r] \in {"idle", "refused", "checked", "spawned"} =>
              status[r] = "absent" /\ stopper[r] = "none"

\* The supervisor comes with the end of the launcher, and is past its poll only
\* when the agent is gone.
WatchAfterAgent ==
    \A r \in Runs :
        /\ watch[r] # "off" => launcher[r] = "exited"
        /\ watch[r] \in {"finalise", "blame", "verify", "flip", "callback", "exited"}
              => ~Alive(r)

\* Who is signalled is dead or was sent SIGTERM.
SignalledIsSignalled ==
    \A r \in Runs : stopper[r] = "signalled" /\ Alive(r) => r \in term

\* The callback is the last step of the supervisor, with its verdict.
CalledAtTheEnd ==
    \A r \in Runs :
        called[r] # <<>> => watch[r] = "exited" /\ called[r] = <<verdict[r]>>

\* The places of the processes.
PlacesInv ==
    /\ UnrecordedIsFresh
    /\ WatchAfterAgent
    /\ SignalledIsSignalled
    /\ CalledAtTheEnd
    /\ TerminalMeansEnded

\* What has a record was added, and who was added is past its addRun.
RecordedIsAdded ==
    \A r \in Runs :
        /\ Recorded(r) => addedAt[r] > 0
        /\ addedAt[r] > 0 => launcher[r] \in {"recorded", "exited", "crashed"}
        /\ addedAt[r] <= adds

\* Above a record are newer ones only, whether addRun put them there or a sort.
AboveIsNewer == \A r \in Runs : Recorded(r) => above[r] \subseteq Newer(r)

AddedRuns == {r \in Runs : addedAt[r] > 0}

\* The order of runs.jsonl.
ListInv ==
    /\ RecordedIsAdded
    /\ AboveIsNewer
    /\ IsFiniteSet(AddedRuns)

RunInv ==
    /\ TypeOK
    /\ PlacesInv
    /\ ListInv
    /\ EvictedOnlyByNewer

Steps(r) ==
    \/ Preflight(r) \/ Refuse(r) \/ SpawnAgent(r) \/ AddRun(r)
    \/ SpawnRunWatch(r) \/ WatchSeesExit(r) \/ WatchKills(r)
    \/ WatchFinalise(r) \/ WatchBlames(r)
    \/ \E ok \in BOOLEAN : WatchVerifies(r, ok)
    \/ WatchFlips(r) \/ WatchCallsBack(r)
    \/ AddRunFails(r) \/ LauncherCrashes(r) \/ WatchFinaliseFails(r)
    \/ WatchFlipFails(r) \/ WatchCrashes(r) \/ StopFails(r)
    \/ \E force \in BOOLEAN : StopSignals(r, force)
    \/ StopWrites(r)
    \/ TtlPasses(r)
    \/ \E m \in Markers : AgentEnds(r, m)

\* The steps of the processes, one by one.
LEMMA NextIsSteps == Next => Refresh \/ \E r \in Runs : Steps(r)
  BY DEF Next, Steps, Launch, Watch, Faulty, Stop

LEMMA FaultType == TypeOK /\ Fault => faults' \in 0..MaxFaults
  BY RunAssumption DEF TypeOK, Fault

LEMMA TypeInductive == TypeOK /\ [Next]_vars => TypeOK'
<1> SUFFICES ASSUME TypeOK, [Next]_vars PROVE TypeOK'
  OBVIOUS
<1> USE DEF TypeOK, store, times, supervisor
<1>1. CASE UNCHANGED vars
  BY <1>1 DEF vars
<1>2. CASE Refresh
  BY <1>2 DEF Refresh, Pruned, Annotated, Terminal
<1>3. ASSUME NEW r \in Runs, Steps(r) PROVE TypeOK'
  <2>1. CASE Preflight(r)
    BY <2>1 DEF Preflight
  <2>2. CASE Refuse(r)
    BY <2>2 DEF Refuse
  <2>3. CASE SpawnAgent(r)
    BY <2>3 DEF SpawnAgent
  <2>4. CASE AddRun(r)
    BY <2>4 DEF AddRun, AddRecord
  <2>5. CASE SpawnRunWatch(r)
    BY <2>5 DEF SpawnRunWatch
  <2>6. CASE WatchSeesExit(r)
    BY <2>6 DEF WatchSeesExit
  <2>7. CASE WatchKills(r)
    BY <2>7 DEF WatchKills
  <2>8. CASE WatchFinalise(r)
    BY <2>8 DEF WatchFinalise, UpdateRecord, Terminal
  <2>9. CASE WatchBlames(r)
    BY <2>9 DEF WatchBlames
  <2>10. CASE \E ok \in BOOLEAN : WatchVerifies(r, ok)
    BY <2>10 DEF WatchVerifies, Terminal
  <2>11. CASE WatchFlips(r)
    BY <2>11 DEF WatchFlips, UpdateRecord, Terminal
  <2>12. CASE WatchCallsBack(r)
    BY <2>12 DEF WatchCallsBack
  <2>13. CASE AddRunFails(r)
    BY <2>13, FaultType DEF AddRunFails
  <2>14. CASE LauncherCrashes(r)
    BY <2>14, FaultType DEF LauncherCrashes
  <2>15. CASE WatchFinaliseFails(r)
    BY <2>15, FaultType DEF WatchFinaliseFails
  <2>16. CASE WatchFlipFails(r)
    BY <2>16, FaultType DEF WatchFlipFails
  <2>17. CASE WatchCrashes(r)
    BY <2>17, FaultType DEF WatchCrashes
  <2>18. CASE StopFails(r)
    BY <2>18, FaultType DEF StopFails
  <2>19. CASE \E force \in BOOLEAN : StopSignals(r, force)
    <3>1. stops' = stops + 1 /\ stops < MaxStops
      BY <2>19 DEF StopSignals
    <3>2. stops' \in 0..MaxStops
      BY <3>1, RunAssumption
    <3>3. \/ agent' = [agent EXCEPT ![r] = "dead"] /\ term' = term
          \/ term' = term \cup {r} /\ agent' = agent
      BY <2>19 DEF StopSignals
    <3>4. term' \in SUBSET Runs /\ agent' \in [Runs -> {"none", "alive", "dead"}]
      BY <3>3
    <3>5. /\ stopper' = [stopper EXCEPT ![r] = "signalled"]
          /\ UNCHANGED <<launcher, marker, store, supervisor, faults>>
      BY <2>19 DEF StopSignals
    <3> QED
      BY <3>2, <3>4, <3>5
  <2>20. CASE StopWrites(r)
    BY <2>20 DEF StopWrites, UpdateRecord, Terminal
  <2>21. CASE \E m \in Markers : AgentEnds(r, m)
    BY <2>21 DEF AgentEnds
  <2>22. CASE TtlPasses(r)
    BY <2>22 DEF TtlPasses
  <2> QED
    BY <1>3, <2>1, <2>2, <2>3, <2>4, <2>5, <2>6, <2>7, <2>8, <2>9, <2>10, <2>11, <2>12,
       <2>13, <2>14, <2>15, <2>16, <2>17, <2>18, <2>19, <2>20, <2>21, <2>22 DEF Steps
<1> QED
  BY <1>1, <1>2, <1>3, NextIsSteps

\* Where the processes are decides what they may write.
LEMMA PlacesInductive == TypeOK /\ PlacesInv /\ [Next]_vars => PlacesInv'
<1> SUFFICES ASSUME TypeOK, PlacesInv, [Next]_vars PROVE PlacesInv'
  OBVIOUS
<1> USE DEF TypeOK, store, times, supervisor, Alive, PlacesInv, UnrecordedIsFresh,
            WatchAfterAgent, SignalledIsSignalled, CalledAtTheEnd, TerminalMeansEnded
<1>1. CASE UNCHANGED vars
  BY <1>1 DEF vars
<1>2. CASE Refresh
  BY <1>2 DEF Refresh, Pruned, Annotated, Terminal, Recorded
<1>3. ASSUME NEW r \in Runs, Steps(r) PROVE PlacesInv'
  <2>1. CASE Preflight(r)
    BY <2>1 DEF Preflight, Terminal
  <2>2. CASE Refuse(r)
    BY <2>2 DEF Refuse, Terminal
  <2>3. CASE SpawnAgent(r)
    BY <2>3 DEF SpawnAgent, Terminal
  <2>4. CASE AddRun(r)
    BY <2>4 DEF AddRun, AddRecord, Terminal
  <2>5. CASE SpawnRunWatch(r)
    <3>1. called[r] = <<>>
      BY <2>5 DEF SpawnRunWatch
    <3>2. CalledAtTheEnd'
      BY <2>5, <3>1 DEF SpawnRunWatch
    <3>3. UnrecordedIsFresh' /\ WatchAfterAgent'
      BY <2>5 DEF SpawnRunWatch
    <3>4. SignalledIsSignalled' /\ TerminalMeansEnded'
      BY <2>5 DEF SpawnRunWatch
    <3> QED
      BY <3>2, <3>3, <3>4
  <2>6. CASE WatchSeesExit(r)
    BY <2>6 DEF WatchSeesExit, Terminal
  <2>7. CASE WatchKills(r)
    BY <2>7 DEF WatchKills, Terminal
  <2>8. CASE WatchFinalise(r)
    BY <2>8 DEF WatchFinalise, UpdateRecord, Terminal
  <2>9. CASE WatchBlames(r)
    BY <2>9 DEF WatchBlames, Terminal
  <2>10. CASE \E ok \in BOOLEAN : WatchVerifies(r, ok)
    BY <2>10 DEF WatchVerifies, Terminal
  <2>11. CASE WatchFlips(r)
    BY <2>11 DEF WatchFlips, UpdateRecord, Terminal
  <2>12. CASE WatchCallsBack(r)
    <3>1. called[r] = <<>> /\ verdict' = verdict
      BY <2>12 DEF WatchCallsBack
    <3>2. called' = [called EXCEPT ![r] = <<verdict[r]>>]
      BY <2>12, <3>1 DEF WatchCallsBack
    <3>3. CalledAtTheEnd'
      BY <2>12, <3>1, <3>2 DEF WatchCallsBack
    <3>4. UnrecordedIsFresh' /\ WatchAfterAgent'
      BY <2>12 DEF WatchCallsBack
    <3>5. SignalledIsSignalled' /\ TerminalMeansEnded'
      BY <2>12 DEF WatchCallsBack
    <3> QED
      BY <3>3, <3>4, <3>5
  <2>13. CASE AddRunFails(r)
    BY <2>13 DEF AddRunFails, Terminal
  <2>14. CASE LauncherCrashes(r)
    BY <2>14 DEF LauncherCrashes, Terminal
  <2>15. CASE WatchFinaliseFails(r)
    BY <2>15 DEF WatchFinaliseFails, Terminal
  <2>16. CASE WatchFlipFails(r)
    BY <2>16 DEF WatchFlipFails, Terminal
  <2>17. CASE WatchCrashes(r)
    BY <2>17 DEF WatchCrashes, Terminal
  <2>18. CASE StopFails(r)
    BY <2>18 DEF StopFails, Terminal
  <2>19. CASE \E force \in BOOLEAN : StopSignals(r, force)
    BY <2>19 DEF StopSignals, Recorded, Terminal
  <2>20. CASE StopWrites(r)
    BY <2>20 DEF StopWrites, UpdateRecord, Terminal
  <2>21. CASE \E m \in Markers : AgentEnds(r, m)
    BY <2>21 DEF AgentEnds, Terminal
  <2>22. CASE TtlPasses(r)
    BY <2>22 DEF TtlPasses, Terminal
  <2> QED
    BY <1>3, <2>1, <2>2, <2>3, <2>4, <2>5, <2>6, <2>7, <2>8, <2>9, <2>10, <2>11, <2>12,
       <2>13, <2>14, <2>15, <2>16, <2>17, <2>18, <2>19, <2>20, <2>21, <2>22 DEF Steps
<1> QED
  BY <1>1, <1>2, <1>3, NextIsSteps

\* A step that adds nobody and starts nobody leaves the order of the list as it
\* is, unless it refreshes.
LEMMA OtherSteps ==
    ASSUME TypeOK, NEW r \in Runs, Steps(r), ~AddRun(r), ~SpawnAgent(r)
    PROVE  /\ UNCHANGED <<above, startedAt, addedAt, adds>>
           /\ aged' \in Nat /\ aged' >= aged
           /\ \A x \in Runs :
                /\ Recorded(x)' <=> Recorded(x)
                /\ Alive(x)' => Alive(x)
                /\ launcher[x] \in {"recorded", "exited", "crashed"} =>
                       launcher'[x] \in {"recorded", "exited", "crashed"}
<1> USE DEF TypeOK, store, times, supervisor, Alive, Recorded
<1>1. CASE Preflight(r) \/ Refuse(r)
  BY <1>1 DEF Preflight, Refuse
<1>2. CASE SpawnRunWatch(r) \/ WatchFinaliseFails(r)
  BY <1>2 DEF SpawnRunWatch, WatchFinaliseFails
<1>3. CASE WatchSeesExit(r) \/ WatchKills(r) \/ WatchBlames(r)
  BY <1>3 DEF WatchSeesExit, WatchKills, WatchBlames
<1>4. CASE WatchFinalise(r) \/ WatchFlips(r) \/ StopWrites(r)
  BY <1>4 DEF WatchFinalise, UpdateRecord, WatchFlips, StopWrites
<1>5. CASE (\E ok \in BOOLEAN : WatchVerifies(r, ok)) \/ WatchCallsBack(r)
  BY <1>5 DEF WatchVerifies, WatchCallsBack
<1>6. CASE AddRunFails(r) \/ LauncherCrashes(r)
  BY <1>6 DEF AddRunFails, LauncherCrashes
<1>7. CASE WatchFlipFails(r) \/ WatchCrashes(r) \/ StopFails(r)
  BY <1>7 DEF WatchFlipFails, WatchCrashes, StopFails
<1>8. CASE \E force \in BOOLEAN : StopSignals(r, force)
  BY <1>8 DEF StopSignals
<1>9. CASE \E m \in Markers : AgentEnds(r, m)
  BY <1>9 DEF AgentEnds
<1>10. CASE TtlPasses(r)
  BY <1>10 DEF TtlPasses
<1> QED
  BY <1>1, <1>2, <1>3, <1>4, <1>5, <1>6, <1>7, <1>8, <1>9, <1>10 DEF Steps

\* The order of the list and its evictions, by a step that adds and starts nobody.
LEMMA OtherStepsKeepList ==
    ASSUME TypeOK, ListInv, EvictedOnlyByNewer,
           UNCHANGED <<above, startedAt, addedAt, adds>>,
           aged' \in Nat, aged' >= aged,
           \A x \in Runs :
                /\ Recorded(x)' <=> Recorded(x)
                /\ Alive(x)' => Alive(x)
                /\ launcher[x] \in {"recorded", "exited", "crashed"} =>
                       launcher'[x] \in {"recorded", "exited", "crashed"}
    PROVE  ListInv' /\ EvictedOnlyByNewer'
<1>1. \A x \in Runs : Newer(x)' = Newer(x)
  BY DEF Newer
<1>2. \A x \in Runs : Aged(x) => Aged(x)'
  BY DEF Aged, TypeOK
<1>3. AddedRuns' = AddedRuns
  BY DEF AddedRuns
<1> QED
  BY <1>1, <1>2, <1>3 DEF ListInv, RecordedIsAdded, AboveIsNewer, EvictedOnlyByNewer

LEMMA RefreshKeepsList ==
    ASSUME TypeOK, ListInv, EvictedOnlyByNewer, Refresh
    PROVE  ListInv' /\ EvictedOnlyByNewer'
<1>1. PICK gone \in SUBSET Runs, silent \in SUBSET Runs :
        /\ status' = [r \in Runs |-> IF r \in Pruned(gone) THEN Annotated(r, silent)
                                     ELSE "absent"]
        /\ above' = [r \in Runs |->
                        {x \in Pruned(gone) : r \in Pruned(gone)
                                             /\ startedAt[x] > startedAt[r]}]
        /\ UNCHANGED <<launcher, agent, times>>
  BY DEF Refresh, MayBeSilent
<1>2. /\ UNCHANGED <<launcher, agent, startedAt, addedAt, adds, aged>>
      /\ AddedRuns' = AddedRuns
      /\ \A x \in Runs : Newer(x)' = Newer(x) /\ (Aged(x)' <=> Aged(x))
                        /\ (Alive(x)' <=> Alive(x))
  BY <1>1 DEF times, AddedRuns, Newer, Aged, Alive
<1>3. \A x \in Runs : Recorded(x)' <=> x \in Pruned(gone)
  BY <1>1 DEF Recorded, Pruned, Annotated
<1>4. \A x \in Pruned(gone) : x \in Runs /\ Recorded(x)
  BY DEF Pruned
<1>5. RecordedIsAdded'
  BY <1>2, <1>3, <1>4 DEF ListInv, RecordedIsAdded
<1>6. AboveIsNewer'
  <2> SUFFICES ASSUME NEW r \in Runs, Recorded(r)', NEW x \in above'[r]
      PROVE  x \in Newer(r)
    BY <1>2 DEF AboveIsNewer
  <2>1. x \in Pruned(gone) /\ startedAt[x] > startedAt[r]
    BY <1>1
  <2>2. x \in Runs /\ addedAt[x] > 0
    BY <1>4, <2>1 DEF ListInv, RecordedIsAdded
  <2> QED
    BY <2>1, <2>2 DEF Newer
<1>7. EvictedOnlyByNewer'
  <2> SUFFICES ASSUME NEW r \in Runs, addedAt[r] > 0, Alive(r), ~Recorded(r)'
      PROVE  Cardinality(Newer(r)) >= MaxEntries \/ Aged(r)
    BY <1>2 DEF EvictedOnlyByNewer
  <2>1. CASE Recorded(r)
    BY <1>3, <2>1 DEF Pruned
  <2>2. CASE ~Recorded(r)
    BY <2>2 DEF EvictedOnlyByNewer
  <2> QED
    BY <2>1, <2>2
<1> QED
  BY <1>2, <1>5, <1>6, <1>7 DEF ListInv

\* A start changes nothing among the runs that were added.
LEMMA SpawnKeepsList ==
    ASSUME TypeOK, PlacesInv, ListInv, EvictedOnlyByNewer,
           NEW r \in Runs, SpawnAgent(r)
    PROVE  ListInv' /\ EvictedOnlyByNewer'
<1>1. /\ launcher[r] = "checked"
      /\ launcher' = [launcher EXCEPT ![r] = "spawned"]
      /\ agent' = [agent EXCEPT ![r] = "alive"]
      /\ startedAt' = [startedAt EXCEPT ![r] = starts + 1]
      /\ UNCHANGED <<status, above, addedAt, adds, aged>>
  BY DEF SpawnAgent
<1>2. ~(addedAt[r] > 0) /\ ~Recorded(r)
  BY <1>1 DEF ListInv, RecordedIsAdded
<1>3. \A x \in Runs : x # r => startedAt'[x] = startedAt[x] /\ agent'[x] = agent[x]
                             /\ launcher'[x] = launcher[x]
  BY <1>1 DEF TypeOK
<1>4. \A x \in Runs : x # r => Newer(x)' = Newer(x) /\ (Aged(x)' <=> Aged(x))
  BY <1>1, <1>2, <1>3 DEF Newer, Aged
<1>5. AddedRuns' = AddedRuns /\ \A x \in Runs : Recorded(x)' <=> Recorded(x)
  BY <1>1 DEF AddedRuns, Recorded
<1>6. RecordedIsAdded'
  BY <1>1, <1>2, <1>3, <1>5 DEF ListInv, RecordedIsAdded
<1>7. AboveIsNewer'
  BY <1>1, <1>2, <1>4, <1>5 DEF ListInv, AboveIsNewer
<1>8. EvictedOnlyByNewer'
  BY <1>1, <1>2, <1>3, <1>4, <1>5 DEF EvictedOnlyByNewer, Alive
<1> QED
  BY <1>5, <1>6, <1>7, <1>8 DEF ListInv

\* An addRun puts a newer record above all others, and drops those that have
\* maxEntries newer ones by then.
LEMMA AddRunKeepsList ==
    ASSUME TypeOK, PlacesInv, ListInv, EvictedOnlyByNewer,
           NEW r \in Runs, AddRun(r)
    PROVE  ListInv' /\ EvictedOnlyByNewer'
<1> DEFINE kept == {x \in Runs : Recorded(x) /\ Cardinality(above[x]) + 1 < MaxEntries}
<1>1. /\ launcher[r] = "spawned"
      /\ launcher' = [launcher EXCEPT ![r] = "recorded"]
      /\ addedAt' = [addedAt EXCEPT ![r] = adds + 1]
      /\ adds' = adds + 1
      /\ UNCHANGED <<agent, startedAt, aged>>
      /\ status' = [x \in Runs |-> IF x = r THEN "running"
                                   ELSE IF x \in kept THEN status[x] ELSE "absent"]
      /\ above' = [x \in Runs |-> IF x \in kept THEN above[x] \cup {r} ELSE {}]
  BY DEF AddRun, AddRecord
<1>2. /\ ~(addedAt[r] > 0) /\ ~Recorded(r)
      /\ adds \in Nat /\ \A x \in Runs : addedAt[x] \in Nat /\ addedAt[x] <= adds
  BY <1>1 DEF ListInv, RecordedIsAdded, TypeOK
<1>3. addedAt'[r] = adds + 1 /\ \A x \in Runs : x # r => addedAt'[x] = addedAt[x]
  BY <1>1 DEF TypeOK
<1>4. \A x \in Runs : x # r => Newer(x) \subseteq Newer(x)' /\ r \in Newer(x)'
                             /\ r \notin Newer(x)
  BY <1>1, <1>2, <1>3 DEF Newer
<1>5. \A x \in Runs : Recorded(x)' <=> x = r \/ x \in kept
  BY <1>1 DEF Recorded
<1>6. r \notin kept
  BY <1>2
<1>7. IsFiniteSet(AddedRuns')
  <2>1. AddedRuns' \subseteq AddedRuns \cup {r}
    BY <1>3 DEF AddedRuns
  <2>2. IsFiniteSet(AddedRuns \cup {r})
    BY FS_AddElement DEF ListInv
  <2> QED
    BY <2>1, <2>2, FS_Subset
<1>8. RecordedIsAdded'
  <2>1. \A x \in Runs : x # r => launcher'[x] = launcher[x]
    BY <1>1 DEF TypeOK
  <2>2. launcher'[r] = "recorded"
    BY <1>1 DEF TypeOK
  <2> QED
    BY <1>1, <1>2, <1>3, <1>5, <2>1, <2>2 DEF ListInv, RecordedIsAdded
<1>9. AboveIsNewer'
  <2> SUFFICES ASSUME NEW x \in Runs, Recorded(x)' PROVE above'[x] \subseteq Newer(x)'
    BY DEF AboveIsNewer
  <2>1. CASE x = r
    BY <1>1, <1>6, <2>1
  <2>2. CASE x \in kept /\ x # r
    <3>1. above[x] \subseteq Newer(x) /\ above'[x] = above[x] \cup {r}
      BY <1>1, <2>2 DEF ListInv, AboveIsNewer
    <3> QED
      BY <1>4, <2>2, <3>1
  <2> QED
    BY <1>5, <2>1, <2>2
<1>10. EvictedOnlyByNewer'
  <2> SUFFICES ASSUME NEW x \in Runs, addedAt'[x] > 0, Alive(x)', ~Recorded(x)'
      PROVE  Cardinality(Newer(x)') >= MaxEntries \/ Aged(x)'
    BY DEF EvictedOnlyByNewer
  <2>1. x # r /\ x \notin kept /\ addedAt[x] > 0 /\ Alive(x)
    BY <1>1, <1>3, <1>5 DEF Alive
  <2>2. /\ IsFiniteSet(Newer(x)') /\ Newer(x) \subseteq Newer(x)'
        /\ IsFiniteSet(Newer(x))
    <3>1. Newer(x)' \subseteq AddedRuns' /\ Newer(x) \subseteq AddedRuns
      BY DEF Newer, AddedRuns
    <3> QED
      BY <1>4, <1>7, <2>1, <3>1, FS_Subset DEF ListInv
  <2>3. Cardinality(Newer(x)) \in Nat /\ Cardinality(Newer(x)') \in Nat
    BY <2>2, FS_CardinalityType
  <2>4. CASE ~Recorded(x)
    <3>1. Cardinality(Newer(x)) >= MaxEntries \/ Aged(x)
      BY <2>1, <2>4 DEF EvictedOnlyByNewer
    <3>2. Cardinality(Newer(x)) <= Cardinality(Newer(x)')
      BY <2>2, FS_Subset
    <3>3. Aged(x)' <=> Aged(x)
      BY <1>1 DEF Aged
    <3> QED
      BY <2>3, <3>1, <3>2, <3>3, RunAssumption
  <2>5. CASE Recorded(x)
    <3>1. above[x] \subseteq Newer(x) /\ IsFiniteSet(above[x])
      BY <2>2, <2>5, FS_Subset DEF ListInv, AboveIsNewer
    <3>2. r \notin above[x] /\ above[x] \cup {r} \subseteq Newer(x)'
      BY <1>4, <2>1, <3>1
    <3>3. /\ IsFiniteSet(above[x] \cup {r})
          /\ Cardinality(above[x] \cup {r}) = Cardinality(above[x]) + 1
      BY <3>1, <3>2, FS_AddElement
    <3>4. Cardinality(above[x] \cup {r}) <= Cardinality(Newer(x)')
      BY <2>2, <3>2, FS_Subset
    <3>5. Cardinality(above[x]) \in Nat /\ ~(Cardinality(above[x]) + 1 < MaxEntries)
      BY <2>1, <2>5, <3>1, FS_CardinalityType
    <3> QED
      BY <2>3, <3>3, <3>4, <3>5, RunAssumption
  <2> QED
    BY <2>4, <2>5
<1> QED
  BY <1>7, <1>8, <1>9, <1>10 DEF ListInv

LEMMA ListInductive ==
    ASSUME TypeOK, PlacesInv, ListInv, EvictedOnlyByNewer, [Next]_vars
    PROVE  ListInv' /\ EvictedOnlyByNewer'
<1>1. CASE UNCHANGED vars
  <2>1. aged' >= aged /\ aged' \in Nat
    BY <1>1 DEF vars, TypeOK
  <2> QED
    BY <1>1, <2>1, OtherStepsKeepList DEF vars, Recorded, Alive
<1>2. CASE Refresh
  BY <1>2, RefreshKeepsList
<1>3. ASSUME NEW r \in Runs, Steps(r) PROVE ListInv' /\ EvictedOnlyByNewer'
  <2>1. CASE AddRun(r)
    BY <2>1, AddRunKeepsList
  <2>2. CASE SpawnAgent(r)
    BY <2>2, SpawnKeepsList
  <2>3. CASE ~AddRun(r) /\ ~SpawnAgent(r)
    BY <1>3, <2>3, OtherSteps, OtherStepsKeepList
  <2> QED
    BY <2>1, <2>2, <2>3
<1> QED
  BY <1>1, <1>2, <1>3, NextIsSteps

LEMMA RunInvInit == Init => RunInv
<1> SUFFICES ASSUME Init PROVE RunInv
  OBVIOUS
<1>1. TypeOK
  <2>1. 0 \in 0..MaxStops /\ 0 \in 0..MaxFaults
    BY RunAssumption
  <2> QED
    BY <2>1 DEF Init, TypeOK, Terminal, Markers
<1>2. PlacesInv
  BY DEF Init, PlacesInv, UnrecordedIsFresh, WatchAfterAgent, SignalledIsSignalled,
         CalledAtTheEnd, TerminalMeansEnded, Terminal, Alive
<1>3. ListInv /\ EvictedOnlyByNewer
  <2>1. AddedRuns = {} /\ \A r \in Runs : addedAt[r] = 0 /\ ~Recorded(r)
    BY DEF Init, AddedRuns, Recorded
  <2>2. RecordedIsAdded /\ AboveIsNewer /\ EvictedOnlyByNewer
    BY <2>1 DEF Init, RecordedIsAdded, AboveIsNewer, EvictedOnlyByNewer
  <2> QED
    BY <2>1, <2>2, FS_EmptySet DEF ListInv
<1> QED
  BY <1>1, <1>2, <1>3 DEF RunInv

LEMMA RunInvInductive == RunInv /\ [Next]_vars => RunInv'
  BY TypeInductive, PlacesInductive, ListInductive DEF RunInv

THEOREM RunInvariant == Spec => []RunInv
  BY RunInvInit, RunInvInductive, PTL DEF Spec

\* The launchers, agents, records and supervisors keep their types.
THEOREM RunTypeOK == Spec => []TypeOK
<1>1. RunInv => TypeOK
  BY DEF RunInv
<1> QED
  BY <1>1, RunInvariant, PTL

\* No reader of runs.jsonl is told that a run is over while its agent works,
\* unless `at stop` sent it a SIGTERM it has not obeyed.
THEOREM NoEarlyTerminal == Spec => []TerminalMeansEnded
<1>1. RunInv => TerminalMeansEnded
  BY DEF RunInv, PlacesInv
<1> QED
  BY <1>1, RunInvariant, PTL

\* The --callback fires at most once, after the agent, with the verdict of the
\* verify command.
THEOREM CallbackAtMostOnce == Spec => []CallbackOnce
<1>1. RunInv => CallbackOnce
  <2> SUFFICES ASSUME RunInv, NEW r \in Runs, called[r] # <<>>
      PROVE  Len(called[r]) <= 1 /\ ~Alive(r) /\ (called[r] = <<"done">> => verdict[r] = "done")
    BY DEF CallbackOnce
  <2>1. watch[r] = "exited" /\ called[r] = <<verdict[r]>>
    BY DEF RunInv, PlacesInv, CalledAtTheEnd
  <2>2. ~Alive(r)
    BY <2>1 DEF RunInv, PlacesInv, WatchAfterAgent
  <2> QED
    BY <2>1, <2>2
<1> QED
  BY <1>1, RunInvariant, PTL

\* An agent at work drops out of runs.jsonl only after maxEntries newer runs, or
\* when it outlives the TTL.
THEOREM EvictionNeedsNewer == Spec => []EvictedOnlyByNewer
<1>1. RunInv => EvictedOnlyByNewer
  BY DEF RunInv
<1> QED
  BY <1>1, RunInvariant, PTL

\* What a step may do to the record of a run that is over.
LEMMA TerminalSteps ==
    ASSUME RunInv, [Next]_vars, NEW q \in Runs, status[q] \in Terminal
    PROVE  /\ status'[q] \in Terminal \cup {"absent"}
           /\ \/ status'[q] \in {status[q], "absent"}
              \/ watch[q] \in {"finalise", "flip"}
              \/ stopper[q] = "signalled"
<1> DEFINE Goal == /\ status'[q] \in Terminal \cup {"absent"}
                   /\ \/ status'[q] \in {status[q], "absent"}
                      \/ watch[q] \in {"finalise", "flip"}
                      \/ stopper[q] = "signalled"
<1>1. CASE status' = status
  BY <1>1
<1>2. CASE Refresh
  BY <1>2 DEF Refresh, Annotated, Terminal
<1>3. ASSUME NEW r \in Runs, Steps(r) PROVE Goal
  <2>1. CASE AddRun(r)
    <3>1. q # r
      BY <2>1 DEF AddRun, RunInv, PlacesInv, UnrecordedIsFresh, Terminal
    <3> QED
      BY <2>1, <3>1 DEF AddRun, AddRecord
  <2>2. CASE WatchFinalise(r) \/ WatchFlips(r) \/ StopWrites(r)
    BY <2>2 DEF WatchFinalise, WatchFlips, StopWrites, UpdateRecord, RunInv, TypeOK, Terminal
  <2>3. CASE ~(AddRun(r) \/ WatchFinalise(r) \/ WatchFlips(r) \/ StopWrites(r))
    <3>1. status' = status
      BY <1>3, <2>3 DEF Steps, store, Preflight, Refuse, SpawnAgent, SpawnRunWatch,
         WatchSeesExit, WatchKills, WatchBlames, WatchVerifies, WatchCallsBack,
         AddRunFails, LauncherCrashes, WatchFinaliseFails, WatchFlipFails,
         WatchCrashes, StopFails, StopSignals, AgentEnds, TtlPasses
    <3> QED
      BY <1>1, <3>1
  <2> QED
    BY <2>1, <2>2, <2>3
<1> QED
  BY <1>1, <1>2, <1>3, NextIsSteps DEF vars

\* A record that is over never comes back to life.
THEOREM TerminalStays == Spec => NoResurrection
<1>1. RunInv /\ [Next]_vars =>
        [\A r \in Runs :
            status[r] \in Terminal => status'[r] \notin {"running", "stuck"}]_vars
  BY TerminalSteps DEF Terminal
<1> QED
  BY <1>1, RunInvariant, PTL DEF Spec, NoResurrection

\* Once the supervisor has nothing left to write and no `at stop` is under way
\* the outcome of a run is final.
THEOREM OutcomeIsFinal == Spec => SettledIsFinal
<1>1. RunInv /\ [Next]_vars =>
        [\A r \in Runs :
            /\ status[r] \in Terminal
            /\ watch[r] \in {"callback", "exited", "crashed"}
            /\ stopper[r] # "signalled"
            => status'[r] \in {status[r], "absent"}]_vars
  BY TerminalSteps
<1> QED
  BY <1>1, RunInvariant, PTL DEF Spec, SettledIsFinal

\* runs.jsonl and the callback are honest, for any number of runs and any limits.
THEOREM HonestRecords == Spec => []RecordsAreHonest
<1>1. TerminalMeansEnded /\ EvictedOnlyByNewer /\ CallbackOnce => RecordsAreHonest
  BY DEF RecordsAreHonest
<1> QED
  BY <1>1, NoEarlyTerminal, EvictionNeedsNewer, CallbackAtMostOnce, PTL

\* No writer takes the status of a record back, or changes a settled outcome.
THEOREM ForwardStatus == Spec => StatusMovesForward
  BY TerminalStays, OutcomeIsFinal DEF StatusMovesForward
=============================================================================
