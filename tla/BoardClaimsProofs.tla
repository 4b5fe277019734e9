------------------------- MODULE BoardClaimsProofs -------------------------
(***************************************************************************)
(* Proofs about the claims of a board, for any number of compose processes *)
(* and tasks.                                                              *)
(*                                                                         *)
(* The lease alone does not keep two processes out of one worktree: it is  *)
(* given back before the merge.  ClaimInv adds that a claimed task is      *)
(* leased to its process, and that a goal is open until its only composer  *)
(* ends it and DONE from then on: whoever gets the lease next finds a      *)
(* terminal goal and stays out.                                            *)
(***************************************************************************)
EXTENDS BoardClaims, TLAPS

\* The lease is held from the claim until it is given back.
Holding(w) == pc[w] \in {"leased", "claimed", "running", "finish", "release"}

HoldersAreLeased == \A w \in Workers : Holding(w) => lease[task[w]] = w

ClaimersHaveTasks ==
    \A w \in Workers : Holding(w) \/ pc[w] \in {"merge", "forward"} => task[w] \in Tasks

\* w has composed its task to DONE and is on the way to its merge.
Completed(w) ==
    \/ pc[w] \in {"finish", "release"} /\ ran[w] /\ outcome[w] = "DONE"
    \/ pc[w] \in {"merge", "forward"}

GoalsAreOpenUntilDone ==
    \A w \in Workers :
        /\ pc[w] = "running" => saved[task[w]] = "open"
        /\ pc[w] \in {"finish", "release"} /\ outcome[w] = "DONE" => saved[task[w]] = "DONE"
        /\ pc[w] \in {"merge", "forward"} =>
              saved[task[w]] = "DONE" /\ ran[w] /\ outcome[w] = "DONE"

OneComposer ==
    \A v, w \in Workers : Completed(v) /\ Completed(w) /\ task[v] = task[w] => v = w

\* What w has finished is merged, but for the task it is about to merge.
OnlyOwnTaskUnmerged ==
    \A w \in Workers :
        /\ pc[w] = "off" => finished[w] = {}
        /\ pc[w] \in {"finish", "release", "merge", "forward"} =>
              finished[w] \subseteq
                  merged \cup (IF ran[w] /\ outcome[w] = "DONE" THEN {task[w]} ELSE {})

\* The claim under way is as it was chosen, since it locks the board.
ClaimsAreCurrent ==
    \A w \in Workers : pc[w] = "leased" =>
        /\ boardLock = w
        /\ request[w] = 0 /\ row[task[w]] # "In Progress" =>
              row[task[w]] = "Backlog" /\ Unblocked(task[w])

ClaimInv == /\ TypeOK /\ ClaimersHaveTasks /\ HoldersAreLeased /\ GoalsAreOpenUntilDone
            /\ OneComposer
            /\ OnlyOwnTaskUnmerged /\ ClaimsAreCurrent /\ DoneIsSound

LEMMA ClaimInit == Init => ClaimInv
<1> SUFFICES ASSUME Init PROVE ClaimInv
  OBVIOUS
<1> USE DEF Init
<1>1. TypeOK
  BY BoardAssumption DEF TypeOK, Statuses
<1>2. ClaimersHaveTasks /\ HoldersAreLeased /\ ClaimsAreCurrent
  BY DEF ClaimersHaveTasks, HoldersAreLeased, Holding, ClaimsAreCurrent
<1>3. GoalsAreOpenUntilDone /\ OneComposer /\ OnlyOwnTaskUnmerged
  BY DEF GoalsAreOpenUntilDone, OneComposer, Completed, OnlyOwnTaskUnmerged
<1>4. DoneIsSound
  BY DEF DoneIsSound, DoneByCompose, OwnBaseIsMerged
<1>. QED
  BY <1>1, <1>2, <1>3, <1>4 DEF ClaimInv

\* The actions of one process, and those on the board.
Steps(w) ==
    \/ Start(w) \/ Leave(w) \/ Drained(w) \/ ClaimFails(w)
    \/ \E t \in Tasks : TakeLease(w, t)
    \/ Mark(w) \/ SkipTerminal(w) \/ StartRun(w) \/ PrepareFails(w)
    \/ \E phase \in {"DONE", "FAILED"} : RunEnds(w, phase)
    \/ RunThrows(w) \/ FinishBoard(w) \/ FinishFails(w) \/ Release(w)
    \/ Rebase(w) \/ MergeFails(w) \/ FastForward(w) \/ Crash(w)

LEMMA NextIsSteps == Next => Kanban \/ \E w \in Workers : Steps(w)
  BY DEF Next, Steps, Work, Trouble

LEMMA BoundTypes ==
  TypeOK /\ (Fault \/ Edit) => edits' \in 0..MaxEdits /\ faults' \in 0..MaxFaults
  BY BoardAssumption DEF TypeOK, Fault, Edit

LEMMA KanbanLeaves ==
  Kanban => BoardFree /\ UNCHANGED <<lease, boardLock, saved, merged, pc, local, finished>>
  BY DEF Kanban, SetStatus, NextStart, Add, RemoveTask, Clean, Remove, Edit

\* Every step leaves every variable with its type.
LEMMA ClaimTypes == TypeOK /\ ClaimersHaveTasks /\ [Next]_vars => TypeOK'
<1> SUFFICES ASSUME TypeOK, ClaimersHaveTasks, [Next]_vars PROVE TypeOK'
  OBVIOUS
<1> USE DEF TypeOK, Goto, Onward, EndTask, disk, local, bounds, history
<1>1. CASE UNCHANGED vars
  BY <1>1 DEF vars
<1>2. ASSUME NEW w \in Workers, Steps(w) PROVE TypeOK'
  <2>1. CASE Leave(w) \/ Drained(w) \/ StartRun(w)
    BY <2>1 DEF Leave, Drained, StartRun
  <2>2. CASE Start(w)
    BY <2>2, BoardAssumption DEF Start
  <2>3. CASE RunThrows(w) \/ Rebase(w)
    BY <2>3 DEF RunThrows, Rebase
  <2>4. CASE Release(w)
    BY <2>4 DEF Release
  <2>5. CASE ClaimFails(w) \/ PrepareFails(w) \/ FinishFails(w) \/ MergeFails(w) \/ Crash(w)
    BY BoundTypes, <2>5 DEF ClaimFails, PrepareFails, FinishFails, MergeFails, Crash, Fault
  <2>6. CASE Mark(w)
    BY <2>6 DEF Mark, Statuses
  <2>7. CASE FinishBoard(w)
    BY <2>7 DEF FinishBoard, Statuses
  <2>8. CASE SkipTerminal(w)
    BY <2>8 DEF SkipTerminal, ClaimersHaveTasks, Holding
  <2>9. CASE FastForward(w)
    BY <2>9 DEF FastForward, ClaimersHaveTasks, Holding
  <2>10. ASSUME NEW t \in Tasks, TakeLease(w, t) PROVE TypeOK'
    BY <2>10 DEF TakeLease
  <2>11. ASSUME NEW phase \in {"DONE", "FAILED"}, RunEnds(w, phase) PROVE TypeOK'
    BY <2>11 DEF RunEnds, ClaimersHaveTasks, Holding
  <2> QED
    BY <1>2, <2>1, <2>2, <2>3, <2>4, <2>5, <2>6, <2>7, <2>8, <2>9, <2>10, <2>11 DEF Steps
<1>3. CASE Kanban
  <2>1. ASSUME NEW t \in Tasks, NEW s \in Statuses, SetStatus(t, s) PROVE TypeOK'
    BY <2>1, BoundTypes DEF SetStatus, Edit
  <2>2. ASSUME NEW t \in Tasks, NextStart(t) \/ Add(t) PROVE TypeOK'
    BY <2>2, BoundTypes DEF NextStart, Add, Edit, Statuses
  <2>3. ASSUME NEW rows, Remove(rows) PROVE TypeOK'
    BY <2>3, BoundTypes DEF Remove, Edit
  <2> QED
    BY <1>3, <2>1, <2>2, <2>3 DEF Kanban, RemoveTask, Clean
<1> QED
  BY <1>1, <1>2, <1>3, NextIsSteps

\* A process keeps the task it has claimed.
LEMMA ClaimTasks == TypeOK /\ ClaimersHaveTasks /\ [Next]_vars => ClaimersHaveTasks'
<1> SUFFICES ASSUME TypeOK, ClaimersHaveTasks, [Next]_vars PROVE ClaimersHaveTasks'
  OBVIOUS
<1> USE DEF TypeOK, ClaimersHaveTasks, Holding, Goto, Onward, EndTask, disk, local,
            bounds, history
<1>1. CASE UNCHANGED vars
  BY <1>1 DEF vars
<1>2. ASSUME NEW w \in Workers, Steps(w) PROVE ClaimersHaveTasks'
  <2>1. CASE Start(w) \/ Leave(w) \/ Drained(w) \/ ClaimFails(w) \/ Mark(w) \/
       SkipTerminal(w) \/ StartRun(w) \/ PrepareFails(w)
    BY <2>1 DEF Start, Leave, Drained, ClaimFails, Mark, SkipTerminal, StartRun,
       PrepareFails, Fault
  <2>2. CASE RunThrows(w) \/ FinishBoard(w) \/ FinishFails(w) \/ Rebase(w) \/ MergeFails(w)
       \/ FastForward(w) \/ Crash(w)
    BY <2>2 DEF RunThrows, FinishBoard, FinishFails, Rebase, MergeFails, FastForward,
       Crash, Fault
  <2>3. CASE Release(w)
    BY <2>3 DEF Release
  <2>4. ASSUME NEW t \in Tasks, TakeLease(w, t) PROVE ClaimersHaveTasks'
    BY <2>4 DEF TakeLease
  <2>5. ASSUME NEW phase \in {"DONE", "FAILED"}, RunEnds(w, phase) PROVE ClaimersHaveTasks'
    BY <2>5 DEF RunEnds
  <2> QED
    BY <1>2, <2>1, <2>2, <2>3, <2>4, <2>5 DEF Steps
<1>3. CASE Kanban
  BY <1>3, KanbanLeaves
<1> QED
  BY <1>1, <1>2, <1>3, NextIsSteps

\* A lease is not taken from a living process.
LEMMA ClaimLeases ==
  TypeOK /\ ClaimersHaveTasks /\ HoldersAreLeased /\ [Next]_vars => HoldersAreLeased'
<1> SUFFICES ASSUME TypeOK, ClaimersHaveTasks, HoldersAreLeased, [Next]_vars
             PROVE  HoldersAreLeased'
  OBVIOUS
<1> USE DEF TypeOK, ClaimersHaveTasks, HoldersAreLeased, Holding, Goto, Onward, EndTask,
            disk, local, bounds, history
<1>1. CASE UNCHANGED vars
  BY <1>1 DEF vars
<1>2. ASSUME NEW w \in Workers, Steps(w) PROVE HoldersAreLeased'
  <2>1. CASE Start(w) \/ Leave(w) \/ Drained(w) \/ ClaimFails(w) \/ Mark(w) \/
       SkipTerminal(w) \/ StartRun(w) \/ PrepareFails(w)
    BY <2>1 DEF Start, Leave, Drained, ClaimFails, Mark, SkipTerminal, StartRun,
       PrepareFails, Fault
  <2>2. CASE RunThrows(w) \/ FinishBoard(w) \/ FinishFails(w) \/ Rebase(w) \/ MergeFails(w)
       \/ FastForward(w) \/ Crash(w)
    BY <2>2 DEF RunThrows, FinishBoard, FinishFails, Rebase, MergeFails, FastForward,
       Crash, Fault
  <2>3. CASE Release(w)
    BY <2>3 DEF Release
  <2>4. ASSUME NEW t \in Tasks, TakeLease(w, t) PROVE HoldersAreLeased'
    BY <2>4 DEF TakeLease, Claimable, LeaseFree, Living, Alive
  <2>5. ASSUME NEW phase \in {"DONE", "FAILED"}, RunEnds(w, phase) PROVE HoldersAreLeased'
    BY <2>5 DEF RunEnds
  <2> QED
    BY <1>2, <2>1, <2>2, <2>3, <2>4, <2>5 DEF Steps
<1>3. CASE Kanban
  BY <1>3, KanbanLeaves
<1> QED
  BY <1>1, <1>2, <1>3, NextIsSteps

\* A goal is run while it is open, by the holder of its lease, and DONE is for ever.
LEMMA ClaimGoals ==
  TypeOK /\ ClaimersHaveTasks /\ HoldersAreLeased /\ GoalsAreOpenUntilDone /\ [Next]_vars
    => GoalsAreOpenUntilDone'
<1> SUFFICES ASSUME TypeOK, ClaimersHaveTasks, HoldersAreLeased, GoalsAreOpenUntilDone,
                    [Next]_vars
             PROVE  GoalsAreOpenUntilDone'
  OBVIOUS
<1> USE DEF TypeOK, ClaimersHaveTasks, HoldersAreLeased, GoalsAreOpenUntilDone, Holding,
            Goto, Onward, EndTask, disk, local, bounds, history
<1>1. CASE UNCHANGED vars
  BY <1>1 DEF vars
<1>2. ASSUME NEW w \in Workers, Steps(w) PROVE GoalsAreOpenUntilDone'
  <2>1. CASE Start(w)
    BY <2>1 DEF Start
  <2>2. CASE Leave(w) \/ Drained(w) \/ ClaimFails(w)
    BY <2>2 DEF Leave, Drained, ClaimFails, Fault
  <2>3. CASE PrepareFails(w) \/ RunThrows(w) \/ FinishFails(w) \/ MergeFails(w) \/ Crash(w)
    BY <2>3 DEF PrepareFails, RunThrows, FinishFails, MergeFails, Crash, Fault
  <2>4. CASE Mark(w)
    BY <2>4 DEF Mark
  <2>5. CASE StartRun(w)
    BY <2>5 DEF StartRun
  <2>6. CASE FinishBoard(w)
    BY <2>6 DEF FinishBoard
  <2>7. CASE SkipTerminal(w)
    BY <2>7 DEF SkipTerminal
  <2>8. CASE Rebase(w)
    BY <2>8 DEF Rebase
  <2>9. CASE FastForward(w)
    BY <2>9 DEF FastForward
  <2>10. CASE Release(w)
    BY <2>10 DEF Release
  <2>11. ASSUME NEW t \in Tasks, TakeLease(w, t) PROVE GoalsAreOpenUntilDone'
    BY <2>11 DEF TakeLease
  <2>12. ASSUME NEW phase \in {"DONE", "FAILED"}, RunEnds(w, phase) PROVE
       GoalsAreOpenUntilDone'
    BY <2>12 DEF RunEnds
  <2> QED
    BY <1>2, <2>1, <2>2, <2>3, <2>4, <2>5, <2>6, <2>7, <2>8, <2>9, <2>10, <2>11, <2>12 DEF
       Steps
<1>3. CASE Kanban
  BY <1>3, KanbanLeaves
<1> QED
  BY <1>1, <1>2, <1>3, NextIsSteps

\* A goal that is over is not composed again.
LEMMA ClaimComposers ==
  TypeOK /\ ClaimersHaveTasks /\ HoldersAreLeased /\ GoalsAreOpenUntilDone
  /\ OneComposer /\ [Next]_vars
    => OneComposer'
<1> SUFFICES ASSUME TypeOK, ClaimersHaveTasks, HoldersAreLeased, GoalsAreOpenUntilDone,
                    OneComposer, [Next]_vars
             PROVE  OneComposer'
  OBVIOUS
<1> USE DEF TypeOK, ClaimersHaveTasks, HoldersAreLeased, GoalsAreOpenUntilDone,
            OneComposer, Completed, Holding, Goto, Onward, EndTask, disk, local, bounds,
            history
<1>1. CASE UNCHANGED vars
  BY <1>1 DEF vars
<1>2. ASSUME NEW w \in Workers, Steps(w) PROVE OneComposer'
  <2>1. CASE Start(w)
    BY <2>1 DEF Start
  <2>2. CASE Leave(w) \/ Drained(w) \/ ClaimFails(w)
    BY <2>2 DEF Leave, Drained, ClaimFails, Fault
  <2>3. CASE PrepareFails(w) \/ RunThrows(w) \/ FinishFails(w) \/ MergeFails(w) \/ Crash(w)
    BY <2>3 DEF PrepareFails, RunThrows, FinishFails, MergeFails, Crash, Fault
  <2>4. CASE Mark(w)
    <3>1. UNCHANGED <<task, ran,
  outcome>> /\ \A v \in Workers : Completed(v)' => Completed(v)
      BY <2>4 DEF Mark
    <3> QED
      BY <3>1
  <2>5. CASE StartRun(w)
    BY <2>5 DEF StartRun
  <2>6. CASE FinishBoard(w)
    BY <2>6 DEF FinishBoard
  <2>7. CASE SkipTerminal(w)
    BY <2>7 DEF SkipTerminal
  <2>8. CASE Rebase(w)
    BY <2>8 DEF Rebase
  <2>9. CASE FastForward(w)
    BY <2>9 DEF FastForward
  <2>10. CASE Release(w)
    BY <2>10 DEF Release
  <2>11. ASSUME NEW t \in Tasks, TakeLease(w, t) PROVE OneComposer'
    BY <2>11 DEF TakeLease
  <2>12. ASSUME NEW phase \in {"DONE", "FAILED"}, RunEnds(w, phase) PROVE OneComposer'
    BY <2>12 DEF RunEnds
  <2> QED
    BY <1>2, <2>1, <2>2, <2>3, <2>4, <2>5, <2>6, <2>7, <2>8, <2>9, <2>10, <2>11, <2>12 DEF
       Steps
<1>3. CASE Kanban
  BY <1>3, KanbanLeaves
<1> QED
  BY <1>1, <1>2, <1>3, NextIsSteps

\* What a process finished and has not merged is its own task.
LEMMA ClaimUnmerged ==
  TypeOK /\ ClaimersHaveTasks /\ GoalsAreOpenUntilDone /\ OnlyOwnTaskUnmerged
  /\ OwnBaseIsMerged /\ [Next]_vars
    => (OnlyOwnTaskUnmerged /\ OwnBaseIsMerged)'
<1> SUFFICES ASSUME TypeOK, ClaimersHaveTasks, GoalsAreOpenUntilDone, OnlyOwnTaskUnmerged,
                    OwnBaseIsMerged, [Next]_vars
             PROVE  (OnlyOwnTaskUnmerged /\ OwnBaseIsMerged)'
  OBVIOUS
<1> USE DEF TypeOK, ClaimersHaveTasks, GoalsAreOpenUntilDone, OnlyOwnTaskUnmerged,
            OwnBaseIsMerged, Holding, Goto, Onward, EndTask, disk, local, bounds, history
<1>1. CASE UNCHANGED vars
  BY <1>1 DEF vars
<1>2. ASSUME NEW w \in Workers, Steps(w) PROVE (OnlyOwnTaskUnmerged /\ OwnBaseIsMerged)'
  <2>1. CASE Start(w)
    BY <2>1 DEF Start
  <2>2. CASE Leave(w) \/ Drained(w) \/ ClaimFails(w)
    BY <2>2 DEF Leave, Drained, ClaimFails, Fault
  <2>3. CASE PrepareFails(w) \/ RunThrows(w) \/ FinishFails(w) \/ MergeFails(w) \/ Crash(w)
    BY <2>3 DEF PrepareFails, RunThrows, FinishFails, MergeFails, Crash, Fault
  <2>4. CASE Mark(w)
    BY <2>4 DEF Mark
  <2>5. CASE StartRun(w)
    BY <2>5 DEF StartRun
  <2>6. CASE FinishBoard(w)
    BY <2>6 DEF FinishBoard
  <2>7. CASE SkipTerminal(w)
    BY <2>7 DEF SkipTerminal
  <2>8. CASE Rebase(w)
    BY <2>8 DEF Rebase
  <2>9. CASE FastForward(w)
    BY <2>9 DEF FastForward
  <2>10. CASE Release(w)
    BY <2>10 DEF Release
  <2>11. ASSUME NEW t \in Tasks, TakeLease(w, t) PROVE (OnlyOwnTaskUnmerged /\
       OwnBaseIsMerged)'
    BY <2>11 DEF TakeLease
  <2>12. ASSUME NEW phase \in {"DONE", "FAILED"}, RunEnds(w, phase) PROVE
       (OnlyOwnTaskUnmerged /\ OwnBaseIsMerged)'
    BY <2>12 DEF RunEnds
  <2> QED
    BY <1>2, <2>1, <2>2, <2>3, <2>4, <2>5, <2>6, <2>7, <2>8, <2>9, <2>10, <2>11, <2>12 DEF
       Steps
<1>3. CASE Kanban
  BY <1>3, KanbanLeaves
<1> QED
  BY <1>1, <1>2, <1>3, NextIsSteps

\* While a claim is under way nobody else writes the board.
LEMMA ClaimChoices == TypeOK /\ ClaimsAreCurrent /\ [Next]_vars => ClaimsAreCurrent'
<1> SUFFICES ASSUME TypeOK, ClaimsAreCurrent, [Next]_vars PROVE ClaimsAreCurrent'
  OBVIOUS
<1> USE DEF TypeOK, ClaimsAreCurrent, Unblocked, Goto, Onward, EndTask, disk, local,
            bounds, history
<1>1. CASE UNCHANGED vars
  BY <1>1 DEF vars
<1>2. ASSUME NEW w \in Workers, Steps(w) PROVE ClaimsAreCurrent'
  <2>1. CASE Start(w)
    BY <2>1 DEF Start
  <2>2. CASE Leave(w) \/ Drained(w) \/ ClaimFails(w)
    BY <2>2 DEF Leave, Drained, ClaimFails, Fault
  <2>3. CASE PrepareFails(w)
    BY <2>3 DEF PrepareFails, Fault
  <2>4. CASE RunThrows(w)
    BY <2>4 DEF RunThrows
  <2>5. CASE FinishFails(w)
    BY <2>5 DEF FinishFails, Fault
  <2>6. CASE MergeFails(w)
    BY <2>6 DEF MergeFails, Fault
  <2>7. CASE Crash(w)
    BY <2>7 DEF Crash, Fault
  <2>8. CASE Mark(w)
    BY <2>8 DEF Mark, BoardFree, Living, Alive
  <2>9. CASE StartRun(w)
    BY <2>9 DEF StartRun
  <2>10. CASE FinishBoard(w)
    BY <2>10 DEF FinishBoard, BoardFree, Living, Alive
  <2>11. CASE SkipTerminal(w)
    BY <2>11 DEF SkipTerminal
  <2>12. CASE Rebase(w)
    BY <2>12 DEF Rebase
  <2>13. CASE FastForward(w)
    BY <2>13 DEF FastForward
  <2>14. CASE Release(w)
    BY <2>14 DEF Release
  <2>15. ASSUME NEW t \in Tasks, TakeLease(w, t) PROVE ClaimsAreCurrent'
    BY <2>15 DEF TakeLease, BoardFree, Living, Alive, Claimable, Candidates
  <2>16. ASSUME NEW phase \in {"DONE", "FAILED"}, RunEnds(w, phase) PROVE ClaimsAreCurrent'
    BY <2>16 DEF RunEnds
  <2> QED
    BY <1>2, <2>1, <2>2, <2>3, <2>4, <2>5, <2>6, <2>7, <2>8, <2>9, <2>10, <2>11, <2>12,
       <2>13, <2>14, <2>15, <2>16 DEF Steps
<1>3. CASE Kanban
  BY <1>3, KanbanLeaves DEF BoardFree, Living, Alive
<1> QED
  BY <1>1, <1>2, <1>3, NextIsSteps

\* A row becomes Done by hand or with its goal, which stays DONE.
LEMMA ClaimDone ==
  TypeOK /\ ClaimersHaveTasks /\ GoalsAreOpenUntilDone /\ DoneByCompose
  /\ [Next]_vars => DoneByCompose'
<1> SUFFICES ASSUME TypeOK, ClaimersHaveTasks, GoalsAreOpenUntilDone, DoneByCompose,
                    [Next]_vars,
                    NEW t \in Tasks, row'[t] = "Done", t \notin touched'
             PROVE  saved'[t] = "DONE"
  BY DEF DoneByCompose
<1> USE DEF Goto, Onward, EndTask, disk, local, bounds, history
<1>0. row[t] = "Done" /\ t \notin touched => saved[t] = "DONE"
  BY DEF DoneByCompose
<1>1. CASE UNCHANGED <<row, saved, touched>>
  BY <1>0, <1>1
<1>2. ASSUME NEW w \in Workers, Steps(w) PROVE saved'[t] = "DONE"
  <2>1. CASE Start(w) \/ Leave(w) \/ Drained(w) \/ ClaimFails(w) \/ PrepareFails(w) \/
  RunThrows(w)
    BY <1>1, <2>1 DEF Start, Leave, Drained, ClaimFails, PrepareFails, RunThrows
  <2>2. CASE SkipTerminal(w) \/ StartRun(w) \/ FinishFails(w) \/ Release(w) \/ Rebase(w)
               \/ MergeFails(w) \/ FastForward(w) \/ Crash(w)
    BY <1>1, <2>2 DEF SkipTerminal, StartRun, FinishFails, Release, Rebase, MergeFails,
       FastForward, Crash
  <2>3. ASSUME NEW u \in Tasks, TakeLease(w, u) PROVE saved'[t] = "DONE"
    BY <1>1, <2>3 DEF TakeLease
  <2>4. CASE Mark(w)
    BY <1>0, <2>4 DEF Mark, TypeOK
  <2>5. ASSUME NEW phase \in {"DONE", "FAILED"}, RunEnds(w, phase) PROVE saved'[t] = "DONE"
    <3>1. saved[task[w]] = "open" /\ saved' = [saved EXCEPT ![task[w]] = phase]
      BY <2>5 DEF RunEnds, GoalsAreOpenUntilDone
    <3> QED
      BY <1>0, <2>5, <3>1 DEF RunEnds, TypeOK
  <2>6. CASE FinishBoard(w)
    <3>1. outcome[w] = "DONE" => saved[task[w]] = "DONE"
      BY <2>6 DEF FinishBoard, GoalsAreOpenUntilDone
    <3>2. UNCHANGED <<saved, touched>>
      BY <2>6 DEF FinishBoard
    <3>3. CASE task[w] # t
      BY <1>0, <2>6, <3>2, <3>3 DEF FinishBoard, TypeOK
    <3>4. CASE task[w] = t
      BY <2>6, <3>1, <3>2, <3>4 DEF FinishBoard, TypeOK
    <3> QED
      BY <3>3, <3>4
  <2> QED
    BY <1>2, <2>1, <2>2, <2>3, <2>4, <2>5, <2>6 DEF Steps
<1>3. CASE Kanban
  <2>1. saved' = saved
    BY <1>3, KanbanLeaves
  <2>2. row[t] = "Done" /\ t \notin touched
    <3>1. ASSUME NEW u \in Tasks, NEW s \in Statuses, SetStatus(u, s)
          PROVE  row[t] = "Done" /\ t \notin touched
      BY <3>1 DEF SetStatus, TypeOK
    <3>2. ASSUME NEW u \in Tasks, NextStart(u) \/ Add(u)
          PROVE  row[t] = "Done" /\ t \notin touched
      BY <3>2 DEF NextStart, Add, TypeOK
    <3>3. ASSUME NEW rows, Remove(rows) PROVE row[t] = "Done" /\ t \notin touched
      BY <3>3 DEF Remove
    <3> QED
      BY <1>3, <3>1, <3>2, <3>3 DEF Kanban, RemoveTask, Clean
  <2> QED
    BY <1>0, <2>1, <2>2
<1> QED
  BY <1>1, <1>2, <1>3, NextIsSteps DEF vars

LEMMA ClaimInductive == ClaimInv /\ [Next]_vars => ClaimInv'
  BY ClaimTypes, ClaimTasks, ClaimLeases, ClaimGoals, ClaimComposers, ClaimUnmerged,
     ClaimChoices, ClaimDone DEF ClaimInv, DoneIsSound

THEOREM ClaimInvariant == Spec => []ClaimInv
  BY ClaimInit, ClaimInductive, PTL DEF Spec

\* Two processes are in one worktree only if both run its task, and then both hold its
\* lease, or both merge it, and then both composed it: a runner finds the goal open, a
\* merger has found it DONE.
LEMMA ClaimExcludes == ClaimInv => OneWorktreeUser
<1> SUFFICES ASSUME ClaimInv, NEW t \in Tasks, NEW v \in Workers, NEW w \in Workers,
                    InWorktree(v, t), InWorktree(w, t)
             PROVE  v = w
  BY DEF OneWorktreeUser
<1> USE DEF ClaimInv, InWorktree
<1>1. CASE pc[v] = "running" /\ pc[w] = "running"
  BY <1>1 DEF HoldersAreLeased, Holding
<1>2. CASE pc[v] # "running" /\ pc[w] # "running"
  BY <1>2 DEF OneComposer, Completed
<1> QED
  BY <1>1, <1>2 DEF GoalsAreOpenUntilDone

\* The board, the leases and the processes keep their types, for any boards and processes
\* (runBoardTasks and the commands of `at kanban`).
THEOREM BoardTypeOK == Spec => []TypeOK
  BY ClaimInvariant, PTL DEF ClaimInv

\* No two processes work in the worktree of one task, whether they run or merge it, whoever
\* dies and whatever is edited meanwhile.
THEOREM WorktreesAreExclusive == Spec => []OneWorktreeUser
  BY ClaimInvariant, ClaimExcludes, PTL

\* What the board calls Done was composed to DONE or set by hand, and a process that takes
\* a task has merged what it finished before.
THEOREM DoneHasBeenDone == Spec => []DoneIsSound
  BY ClaimInvariant, PTL DEF ClaimInv

\* A claim is marked only while its task is free and unblocked on the board of that moment.
THEOREM BlockedNeverStarts == Spec => StartsUnblocked
<1>1. ClaimInv /\ [Next]_vars =>
        [\A w \in Workers :
            pc[w] = "leased" /\ pc'[w] = "claimed" /\ request[w] = 0
               /\ row[task[w]] # "In Progress"
            => row[task[w]] = "Backlog" /\ Unblocked(task[w])]_vars
  BY DEF ClaimInv, ClaimsAreCurrent
<1> QED
  BY <1>1, ClaimInvariant, PTL DEF Spec, StartsUnblocked
=============================================================================
