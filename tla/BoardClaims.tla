---------------------------- MODULE BoardClaims ----------------------------
(***************************************************************************)
(* `at compose --loop --worktree --merge` on a kanban board: processes     *)
(* that claim tasks of one board (src/compose/kanban-source.ts), compose   *)
(* and merge them (runBoardTasks in src/compose/cli.ts), next to people    *)
(* and agents that edit the board with `at kanban` (src/kanban/ops.ts).    *)
(*                                                                         *)
(* Three records say what happens to a task, and no step writes all of     *)
(* them: the row of the board, under the board lock; the lease, a pid lock *)
(* of its own; and state.json of the goal, which outlives the process.     *)
(* What compose does with one goal is module ComposeGoal; here it is its   *)
(* outcome.  The board lock is exclusive and is taken from the dead.       *)
(***************************************************************************)
EXTENDS Naturals, FiniteSets

CONSTANTS
    Workers,    \* the compose processes, a restarted one being another worker
    Followers,  \* those with --follow
    Requests,   \* what a process may be started with: 0 for --loop, or a task
    Tasks,      \* numeric task ids; rows are in this order
    Priority,   \* of each task, 0 is the highest
    BlockedBy,  \* the "Blocked By" column
    Board,      \* the tasks on the board at first
    Nobody,     \* no process
    MaxEdits,   \* bound: `at kanban` commands
    MaxFaults   \* bound: crashes, lock timeouts, failures of git

ASSUME BoardAssumption ==
    /\ Followers \subseteq Workers
    /\ Tasks \subseteq Nat \ {0}
    /\ Requests \subseteq Tasks \cup {0}
    /\ Priority \in [Tasks -> Nat]
    /\ BlockedBy \in [Tasks -> SUBSET Tasks]
    /\ Board \subseteq Tasks
    /\ Nobody \notin Workers
    /\ MaxEdits \in Nat
    /\ MaxFaults \in Nat

VARIABLES
    row,        \* the Status cell of each task, "absent" without a row
    lease,      \* the pid in the lease file of each task
    boardLock,  \* the holder of the board lock while a claim is under way
    saved,      \* the phase in state.json of the goal, "open" unless terminal
    merged,     \* tasks whose branch is in the base branch
    pc,         \* where each worker is
    request,    \* the task of --task, 0 with --loop
    task,       \* the task it claimed
    outcome,    \* how that task ended
    ran,        \* whether this worker composed it
    rebased,    \* the base branch its worktree was rebased on
    edits,      \* `at kanban` commands so far
    faults,     \* crashes, lock timeouts and failures of git so far
    touched,    \* history: tasks whose status was set by hand
    finished    \* history: the tasks each worker composed to DONE

disk == <<row, lease, boardLock, saved, merged>>
local == <<request, task, outcome, ran, rebased>>
bounds == <<edits, faults>>
history == <<touched, finished>>
vars == <<disk, pc, local, bounds, history>>

Statuses == {"Backlog", "In Progress", "Blocked", "Done"}

Init ==
    /\ row = [t \in Tasks |-> IF t \in Board THEN "Backlog" ELSE "absent"]
    /\ lease = [t \in Tasks |-> Nobody]
    /\ boardLock = Nobody
    /\ saved = [t \in Tasks |-> "open"]
    /\ merged = {}
    /\ pc = [w \in Workers |-> "off"]
    /\ request = [w \in Workers |-> 0]
    /\ task = [w \in Workers |-> 0]
    /\ outcome = [w \in Workers |-> "FAILED"]
    /\ ran = [w \in Workers |-> FALSE]
    /\ rebased = [w \in Workers |-> {}]
    /\ edits = 0
    /\ faults = 0
    /\ touched = {}
    /\ finished = [w \in Workers |-> {}]

-----------------------------------------------------------------------------

\* isPidAlive of the process that claims as w.
Alive(w) == pc[w] \notin {"off", "exited", "dead"}
Living == {w \in Workers : Alive(w)}

\* Mutant: the board is read and written without its lock.
BoardUnlocked == TRUE

\* mutateBoard waits for the lock, and lock.ts takes it from a dead holder.
BoardFree == boardLock \notin Living

\* Mutant: the lease is not looked at.
LeaseIgnored(t) == TRUE

\* Mutant: the lease of a dead process is kept for it.
LeaseOutlivesHolder(t) == lease[t] = Nobody

\* leaseHolder: nobody, or a process that is gone.
LeaseFree(t) == lease[t] \notin Living

\* isUnblocked: every blocker that has a row is Done.
Unblocked(t) == \A b \in BlockedBy[t] : row[b] \in {"Done", "absent"}

\* backlogCandidates: by priority, then by id.
Candidates == {t \in Tasks : row[t] = "Backlog" /\ Unblocked(t)}

Before(t, u) ==
    \/ Priority[t] < Priority[u]
    \/ Priority[t] = Priority[u] /\ t <= u

\* opClaim: the task asked for, whatever its status; with --loop the first row
\* of the claim status, else the best candidate, each with a free lease.
Claimable(w, t) ==
    LET resumable == {u \in Tasks : row[u] = "In Progress" /\ LeaseFree(u)}
        fresh == {u \in Candidates : LeaseFree(u)}
    IN  IF request[w] # 0 THEN t = request[w] /\ row[t] # "absent" /\ LeaseFree(t)
        ELSE IF resumable # {} THEN t \in resumable /\ \A u \in resumable : t <= u
        ELSE t \in fresh /\ \A u \in fresh : Before(t, u)

Fault == faults < MaxFaults /\ faults' = faults + 1 /\ UNCHANGED edits

Goto(w, label) == pc' = [pc EXCEPT ![w] = label]

\* After a task: the next one, unless it was asked for by id.
Onward(w) == IF request[w] # 0 THEN "exited" ELSE "loop"

-----------------------------------------------------------------------------
\* runBoardTasks, the claim.

Start(w) ==
    /\ pc[w] = "off"
    /\ \E r \in IF w \in Followers THEN {0} ELSE Requests :
          request' = [request EXCEPT ![w] = r]
    /\ Goto(w, "loop")
    /\ UNCHANGED <<disk, task, outcome, ran, rebased, bounds, history>>

\* A signal that asks the loop to end, or --max-tasks.
Leave(w) ==
    /\ pc[w] = "loop"
    /\ Goto(w, "exited")
    /\ UNCHANGED <<disk, local, bounds, history>>

\* claim() returns null.  With --follow the loop sleeps and asks again.
Drained(w) ==
    /\ pc[w] = "loop" /\ w \notin Followers
    /\ BoardFree
    /\ \A t \in Tasks : ~Claimable(w, t)
    /\ Goto(w, "exited")
    /\ UNCHANGED <<disk, local, bounds, history>>

\* opClaim inside the board lock: the board is loaded and the lease taken ...
TakeLease(w, t) ==
    /\ pc[w] = "loop"
    /\ BoardFree
    /\ Claimable(w, t)
    /\ boardLock' = w
    /\ lease' = [lease EXCEPT ![t] = w]
    /\ task' = [task EXCEPT ![w] = t]
    /\ Goto(w, "leased")
    /\ UNCHANGED <<row, saved, merged, request, outcome, ran, rebased, bounds, history>>

\* ... then the row is marked, the board saved and the lock released.
Mark(w) ==
    /\ pc[w] = "leased"
    /\ row' = [row EXCEPT ![task[w]] = "In Progress"]
    /\ boardLock' = IF boardLock = w THEN Nobody ELSE boardLock
    /\ Goto(w, "claimed")
    /\ UNCHANGED <<lease, saved, merged, local, bounds, history>>

\* The lock timeout leaves runBoardTasks: the process exits with 1.
ClaimFails(w) ==
    /\ pc[w] = "loop"
    /\ Fault
    /\ Goto(w, "exited")
    /\ UNCHANGED <<disk, local, history>>

-----------------------------------------------------------------------------
\* runBoardTasks, one task.

EndTask(w, phase, byRun) ==
    /\ outcome' = [outcome EXCEPT ![w] = phase]
    /\ ran' = [ran EXCEPT ![w] = byRun]
    /\ Goto(w, "finish")
    /\ UNCHANGED <<request, task, rebased>>

\* A terminal state.json is not run again, only reported to the board.
SkipTerminal(w) ==
    /\ pc[w] = "claimed"
    /\ saved[task[w]] # "open"
    /\ EndTask(w, saved[task[w]], FALSE)
    /\ UNCHANGED <<disk, bounds, history>>

\* ensureTaskWorktree, then runOne.
StartRun(w) ==
    /\ pc[w] = "claimed"
    /\ saved[task[w]] = "open"
    /\ Goto(w, "running")
    /\ UNCHANGED <<disk, local, bounds, history>>

\* No worktree, no run: the task fails and state.json is left alone.
PrepareFails(w) ==
    /\ pc[w] = "claimed"
    /\ saved[task[w]] = "open"
    /\ Fault
    /\ EndTask(w, "FAILED", FALSE)
    /\ UNCHANGED <<disk, history>>

\* runCompose reaches DONE or FAILED and saves it.
RunEnds(w, phase) ==
    /\ pc[w] = "running"
    /\ saved' = [saved EXCEPT ![task[w]] = phase]
    /\ EndTask(w, phase, TRUE)
    /\ finished' = [finished EXCEPT ![w] = IF phase = "DONE" THEN @ \cup {task[w]} ELSE @]
    /\ UNCHANGED <<row, lease, boardLock, merged, bounds, touched>>

\* runCompose throws (an agent failed) and the process exits with 1: the lease
\* stays in its file, with a dead pid.
RunThrows(w) ==
    /\ pc[w] = "running"
    /\ Goto(w, "exited")
    /\ UNCHANGED <<disk, local, bounds, history>>

\* onFinish, opFinish inside the board lock.  The row may be gone by now.
FinishBoard(w) ==
    /\ pc[w] = "finish"
    /\ BoardFree
    /\ row' = [row EXCEPT ![task[w]] =
                 IF @ = "absent" THEN @
                 ELSE IF outcome[w] = "DONE" THEN "Done" ELSE "Blocked"]
    /\ Goto(w, "release")
    /\ UNCHANGED <<lease, boardLock, saved, merged, local, bounds, history>>

\* The board cannot be written: the error is logged and the row stays.
FinishFails(w) ==
    /\ pc[w] = "finish"
    /\ Fault
    /\ Goto(w, "release")
    /\ UNCHANGED <<disk, local, history>>

\* onFinish, the finally: the lease, if it is ours.  Then the merge of a DONE
\* run, the next task, or the end (--stop-on-fail).
Release(w) ==
    /\ pc[w] = "release"
    /\ lease' = [lease EXCEPT ![task[w]] = IF @ = w THEN Nobody ELSE @]
    /\ \/ outcome[w] = "DONE" /\ Goto(w, IF ran[w] THEN "merge" ELSE Onward(w))
       \/ outcome[w] = "FAILED" /\ \E next \in {Onward(w), "exited"} : Goto(w, next)
    /\ UNCHANGED <<row, boardLock, saved, merged, local, bounds, history>>

-----------------------------------------------------------------------------
\* mergeNative: rebase in the worktree, then fast-forward the main checkout.

Rebase(w) ==
    /\ pc[w] = "merge"
    /\ rebased' = [rebased EXCEPT ![w] = merged]
    /\ Goto(w, "forward")
    /\ UNCHANGED <<disk, request, task, outcome, ran, bounds, history>>

\* A dirty worktree, a conflict, a main checkout elsewhere: leave the loop.
MergeFails(w) ==
    /\ pc[w] \in {"merge", "forward"}
    /\ Fault
    /\ Goto(w, "exited")
    /\ UNCHANGED <<disk, local, history>>

\* Mutant: the loop goes on after a refused merge.
FastForwardOrSkip(w) ==
    /\ pc[w] = "forward"
    /\ merged' = IF rebased[w] = merged THEN merged \cup {task[w]} ELSE merged
    /\ Goto(w, Onward(w))
    /\ UNCHANGED <<row, lease, boardLock, saved, local, bounds, history>>

\* --ff-only: refused when another loop has merged since the rebase.
FastForward(w) ==
    /\ pc[w] = "forward"
    /\ IF rebased[w] = merged
         THEN merged' = merged \cup {task[w]} /\ Goto(w, Onward(w))
         ELSE merged' = merged /\ Goto(w, "exited")
    /\ UNCHANGED <<row, lease, boardLock, saved, local, bounds, history>>

\* The process is killed: its locks stay in their files, with a dead pid.
Crash(w) ==
    /\ Alive(w)
    /\ Fault
    /\ Goto(w, "dead")
    /\ UNCHANGED <<disk, local, history>>

-----------------------------------------------------------------------------
\* `at kanban`, each command one mutateBoard.

Edit ==
    /\ BoardFree
    /\ edits < MaxEdits
    /\ edits' = edits + 1
    /\ UNCHANGED <<faults, lease, boardLock, saved, merged, pc, local, finished>>

\* opStatus.
SetStatus(t, s) ==
    /\ Edit
    /\ row[t] # "absent"
    /\ row' = [row EXCEPT ![t] = s]
    /\ touched' = touched \cup {t}

\* opNext --start: nothing while a task is In Progress; leases are not looked at.
NextStart(t) ==
    /\ Edit
    /\ \A u \in Tasks : row[u] # "In Progress"
    /\ t \in Candidates /\ \A u \in Candidates : Before(t, u)
    /\ row' = [row EXCEPT ![t] = "In Progress"]
    /\ UNCHANGED touched

\* opAdd of a new row.  nextId is the highest id on the board plus one, so the
\* id of a removed task comes back, while its state.json is still there.
Add(t) ==
    /\ Edit
    /\ row[t] = "absent"
    /\ row' = [row EXCEPT ![t] = "Backlog"]
    /\ touched' = touched \ {t}

\* opRemove and opClean.
Remove(rows) ==
    /\ Edit
    /\ row' = [t \in Tasks |-> IF t \in rows THEN "absent" ELSE row[t]]
    /\ UNCHANGED touched

RemoveTask(t) == row[t] # "absent" /\ Remove({t})

Clean == Remove({t \in Tasks : row[t] = "Done"})

-----------------------------------------------------------------------------

\* What a live process does when nothing goes wrong.
Work(w) ==
    \/ Drained(w)
    \/ \E t \in Tasks : TakeLease(w, t)
    \/ Mark(w)
    \/ SkipTerminal(w)
    \/ StartRun(w)
    \/ \E phase \in {"DONE", "FAILED"} : RunEnds(w, phase)
    \/ FinishBoard(w)
    \/ Release(w)
    \/ Rebase(w)
    \/ FastForward(w)

Trouble(w) ==
    \/ ClaimFails(w)
    \/ PrepareFails(w)
    \/ RunThrows(w)
    \/ FinishFails(w)
    \/ MergeFails(w)
    \/ Crash(w)

Kanban ==
    \/ \E t \in Tasks, s \in Statuses : SetStatus(t, s)
    \/ \E t \in Tasks : NextStart(t) \/ Add(t) \/ RemoveTask(t)
    \/ Clean

Next ==
    \/ \E w \in Workers : Start(w) \/ Leave(w) \/ Work(w) \/ Trouble(w)
    \/ Kanban

Spec == Init /\ [][Next]_vars

\* The operating system schedules every live process, an agent ends, and a lock
\* that is free is got before its timeout unless that is counted as a fault.
FairSpec == Spec /\ \A w \in Workers : WF_vars(Work(w))

-----------------------------------------------------------------------------

TypeOK ==
    /\ row \in [Tasks -> Statuses \cup {"absent"}]
    /\ lease \in [Tasks -> Workers \cup {Nobody}]
    /\ boardLock \in Workers \cup {Nobody}
    /\ saved \in [Tasks -> {"open", "DONE", "FAILED"}]
    /\ merged \subseteq Tasks
    /\ pc \in [Workers -> {"off", "loop", "leased", "claimed", "running", "finish",
                           "release", "merge", "forward", "exited", "dead"}]
    /\ request \in [Workers -> Requests \cup {0}]
    /\ task \in [Workers -> Tasks \cup {0}]
    /\ outcome \in [Workers -> {"DONE", "FAILED"}]
    /\ ran \in [Workers -> BOOLEAN]
    /\ rebased \in [Workers -> SUBSET Tasks]
    /\ edits \in 0..MaxEdits /\ faults \in 0..MaxFaults
    /\ touched \subseteq Tasks
    /\ finished \in [Workers -> SUBSET Tasks]

\* Two live processes are never in the worktree of one task, the one that
\* merges it included: that one has given its lease back before it merges, and
\* only the DONE in state.json keeps the others from running the task again.
InWorktree(w, t) == task[w] = t /\ pc[w] \in {"running", "merge", "forward"}

OneWorktreeUser ==
    \A t \in Tasks : \A v, w \in Workers :
        InWorktree(v, t) /\ InWorktree(w, t) => v = w

\* A row nobody set by hand is Done only when its goal has reached DONE.
DoneByCompose ==
    \A t \in Tasks : row[t] = "Done" /\ t \notin touched => saved[t] = "DONE"

\* A loop never takes another task on top of its own unmerged work.
OwnBaseIsMerged ==
    \A w \in Workers : pc[w] \in {"loop", "leased", "claimed", "running"} =>
        finished[w] \subseteq merged

\* What the board says is Done has been done, and is where the next task starts.
DoneIsSound == DoneByCompose /\ OwnBaseIsMerged

\* A loop starts a task only when all that blocks it is Done, on the board as it
\* is at that moment and not as it was when the claim was chosen.
StartsUnblocked ==
    [][\A w \in Workers :
          pc[w] = "leased" /\ pc'[w] = "claimed" /\ request[w] = 0
             /\ row[task[w]] # "In Progress"
          => row[task[w]] = "Backlog" /\ Unblocked(task[w])]_vars

\* A task left In Progress by a process that is gone is picked up by any loop
\* that stays, and ends Done or Blocked, or is edited by hand.
NoTaskForgotten ==
    \A t \in Tasks :
        row[t] = "In Progress" ~> (row[t] # "In Progress" \/ Living = {})
=============================================================================
