---------------------------- MODULE ComposeGoal ----------------------------
(***************************************************************************)
(* One goal of `at compose` (src/compose/machine.ts): a process that starts *)
(* agents, waits for them and moves through INVESTIGATE, PLAN, IMPLEMENT   *)
(* and CHECK, saving state.json after every transition.  It may die at any *)
(* moment and be started again with the same goal id; the agents are       *)
(* detached and live on.                                                   *)
(*                                                                         *)
(* mode "single" is one implementer and the test command, "two" adds a     *)
(* planner and a reviewer.  What the agents write is external: a planner   *)
(* appends to plan.md the items it finds, a reviewer writes verdict.md.    *)
(* A plan is the sequence of its check boxes, items count from 1.           *)
(***************************************************************************)
EXTENDS Naturals, Sequences, FiniteSets

CONSTANTS
    Modes,      \* a subset of {"single", "two"}
    MaxRounds,  \* --max-rounds
    MaxItems,   \* bound: check boxes of a plan
    MaxStarts,  \* bound: starts and --resume of the process
    MaxFaults,  \* bound: crashes, silent agents, records lost to eviction
    NoPlan      \* plan.md does not exist

\* The check boxes of a plan, ticked or not.
Boxes == UNION {[1 .. n -> BOOLEAN] : n \in 0 .. MaxItems}

ASSUME GoalAssumption ==
    /\ Modes \subseteq {"single", "two"}
    /\ MaxRounds \in Nat \ {0}
    /\ MaxItems \in Nat \ {0}
    /\ MaxStarts \in Nat
    /\ MaxFaults \in Nat
    /\ NoPlan \notin Boxes

VARIABLES
    mode,       \* mode in state.json
    phase,      \* phase in state.json
    round,      \* round in state.json
    runs,       \* item and run of each entry of "runs" in state.json
    plan,       \* plan.md
    verdict,    \* verdict.md: "none", "PASS" or "FAIL"
    agents,     \* every agent ever started
    pc,         \* where the process is, "off" when there is none
    awaited,    \* the run it has started or waits for
    todo,       \* the items pendingItems returned and not yet done
    draft,      \* plan.md as read before a box is ticked
    testOk,     \* the test command exited with 0
    starts,     \* starts of the process so far
    faults,     \* faults so far
    lost,       \* history: agents that lived on when no process and no file
                \* knew of them
    author,     \* history: the run that wrote verdict.md, 0 for the process
    failed      \* history: the rounds that were judged and failed

stateJson == <<mode, phase, round, runs>>
files == <<plan, verdict>>
process == <<pc, awaited, todo, draft, testOk>>
bounds == <<starts, faults>>
history == <<lost, author, failed>>
vars == <<stateJson, files, agents, process, bounds, history>>

Ids == DOMAIN agents
Alive(a) == agents[a].alive
\* runs.jsonl has a record of the run, and it says running.
Running(a) == agents[a].recorded /\ agents[a].status = "running"
Terminal == phase \in {"DONE", "FAILED"}

Init ==
    /\ mode \in Modes
    /\ phase = "INVESTIGATE" /\ round = 1 /\ runs = {}
    /\ plan = NoPlan /\ verdict = "none"
    /\ agents = <<>>
    /\ pc = "off" /\ awaited = 0 /\ todo = {} /\ draft = NoPlan /\ testOk = FALSE
    /\ starts = 0 /\ faults = 0
    /\ lost = {} /\ author = 0 /\ failed = {}

Goto(label) == pc' = label /\ UNCHANGED <<awaited, todo, draft, testOk>>

\* advance: the phase is saved before anything else is done.
Advance(next) ==
    /\ phase' = next
    /\ Goto("top")
    /\ UNCHANGED <<mode, round, runs>>

\* The process exits with what is in state.json: by a ComposeError, by any
\* other exception, or killed.  The run it waited for is known only from runs.
Exit ==
    /\ pc' = "off"
    /\ awaited' = 0 /\ todo' = {} /\ draft' = NoPlan /\ testOk' = FALSE
    /\ lost' = lost \cup {a \in {awaited} \cap Ids :
                            Alive(a) /\ \A r \in runs : r[2] # a}
    /\ UNCHANGED <<stateJson, files, agents, starts, author, failed>>

\* startAt.
StartAgent(kind, item, next) ==
    /\ agents' = Append(agents, [kind |-> kind, item |-> item, round |-> round,
                                 base |-> IF kind = "PLAN" /\ plan # NoPlan THEN plan ELSE <<>>,
                                 status |-> "running", recorded |-> TRUE, alive |-> TRUE,
                                 wrote |-> FALSE])
    /\ awaited' = Len(agents) + 1
    /\ pc' = next
    /\ UNCHANGED draft

\* Mutant: waitRun knows only one way to end.
WaitReturnsWhenDone ==
    pc = "wait" /\ agents[awaited].recorded /\ agents[awaited].status = "done"

\* waitRun: until there is a record and it is no longer running.
WaitReturns == pc = "wait" /\ agents[awaited].recorded /\ ~Running(awaited)

-----------------------------------------------------------------------------
\* runCompose.

\* Once the phase is terminal a start only reports it.
Start ==
    /\ pc = "off" /\ ~Terminal /\ starts < MaxStarts
    /\ starts' = starts + 1
    /\ Goto("top")
    /\ UNCHANGED <<stateJson, files, agents, faults, history>>

Crash ==
    /\ pc # "off"
    /\ faults < MaxFaults /\ faults' = faults + 1
    /\ Exit

Finish ==
    /\ pc = "top" /\ Terminal
    /\ Exit /\ UNCHANGED faults

Investigate ==
    /\ pc = "top" /\ phase = "INVESTIGATE"
    /\ Advance(IF mode = "single" THEN "IMPLEMENT" ELSE "PLAN")
    /\ UNCHANGED <<files, agents, bounds, history>>

\* plan: the planner's run is kept in memory only.
StartPlanner ==
    /\ pc = "top" /\ phase = "PLAN"
    /\ StartAgent("PLAN", 0, "wait")
    /\ UNCHANGED <<stateJson, files, todo, testOk, bounds, history>>

PlannerReturns ==
    /\ phase = "PLAN" /\ WaitReturns
    /\ \/ /\ agents[awaited].status = "done" /\ plan # NoPlan
          /\ Advance("IMPLEMENT")
          /\ UNCHANGED <<files, agents, bounds, history>>
       \/ /\ agents[awaited].status # "done" \/ plan = NoPlan
          /\ Exit /\ UNCHANGED faults

-----------------------------------------------------------------------------
\* implement and implementSingle.

Pending(boxes) == {i \in DOMAIN boxes : ~boxes[i]}

\* The items are listed once.
ReadItems ==
    /\ pc = "top" /\ phase = "IMPLEMENT"
    /\ \/ /\ mode = "single" \/ plan # NoPlan
          /\ todo' = IF mode = "single" THEN {1} ELSE Pending(plan)
          /\ pc' = "items"
          /\ UNCHANGED <<stateJson, files, agents, awaited, draft, testOk, bounds, history>>
       \/ /\ mode = "two" /\ plan = NoPlan
          /\ Exit /\ UNCHANGED faults

NextItem == CHOOSE i \in todo : \A j \in todo : i <= j

\* Mutant: the saved runs are not looked at.
NoneInFlight(i) == {}

\* isRunInFlight, of the runs saved for an item.
InFlight(i) == {r[2] : r \in {s \in runs : s[1] = i /\ Running(s[2])}}

\* runItemAgent, the resume.
Reattach ==
    /\ pc = "items" /\ todo # {}
    /\ \E a \in InFlight(NextItem) : awaited' = a
    /\ pc' = "wait"
    /\ UNCHANGED <<stateJson, files, agents, todo, draft, testOk, bounds, history>>

StartImplementer ==
    /\ pc = "items" /\ todo # {}
    /\ InFlight(NextItem) = {}
    /\ StartAgent("IMPLEMENT", NextItem, "started")
    /\ UNCHANGED <<stateJson, files, todo, testOk, bounds, history>>

\* The run id is saved after the agent was started.
SaveRun ==
    /\ pc = "started"
    /\ runs' = runs \cup {<<NextItem, awaited>>}
    /\ Goto("wait")
    /\ UNCHANGED <<mode, phase, round, files, agents, bounds, history>>

\* Mutant: the exit code is not looked at.
ImplementerReturnsAnyhow ==
    /\ phase = "IMPLEMENT" /\ WaitReturns
    /\ Goto("drop")
    /\ UNCHANGED <<stateJson, files, agents, bounds, history>>

ImplementerReturns ==
    /\ phase = "IMPLEMENT" /\ WaitReturns
    /\ \/ /\ agents[awaited].status = "done"
          /\ Goto("drop")
          /\ UNCHANGED <<stateJson, files, agents, bounds, history>>
       \/ /\ agents[awaited].status # "done"
          /\ Exit /\ UNCHANGED faults

DropRun ==
    /\ pc = "drop"
    /\ runs' = {r \in runs : r[2] # awaited}
    /\ IF mode = "single" THEN pc' = "items" /\ todo' = {}
                          ELSE pc' = "tick" /\ todo' = todo
    /\ UNCHANGED <<mode, phase, round, files, agents, awaited, draft, testOk, bounds, history>>

\* plan.md is read again, and written with one more box ticked.
ReadPlan ==
    /\ pc = "tick"
    /\ draft' = plan
    /\ pc' = "write"
    /\ UNCHANGED <<stateJson, files, agents, awaited, todo, testOk, bounds, history>>

Tick ==
    /\ pc = "write"
    /\ plan' = [i \in DOMAIN draft |-> draft[i] \/ i = NextItem]
    /\ todo' = todo \ {NextItem}
    /\ pc' = "items"
    /\ UNCHANGED <<stateJson, verdict, agents, awaited, draft, testOk, bounds, history>>

ItemsDone ==
    /\ pc = "items" /\ todo = {}
    /\ Advance("CHECK")
    /\ UNCHANGED <<files, agents, bounds, history>>

-----------------------------------------------------------------------------
\* check and checkSingle.

\* Mutant: the verdict of an earlier review stays.
KeepVerdict ==
    /\ pc = "top" /\ phase = "CHECK"
    /\ Goto("test")
    /\ UNCHANGED <<stateJson, files, agents, bounds, history>>

\* The verdict of an earlier review goes before the new one.
RemoveVerdict ==
    /\ pc = "top" /\ phase = "CHECK"
    /\ \/ /\ mode = "single" \/ plan # NoPlan
          /\ verdict' = "none" /\ author' = 0
          /\ Goto("test")
          /\ UNCHANGED <<stateJson, plan, agents, bounds, lost, failed>>
       \/ /\ mode = "two" /\ plan = NoPlan
          /\ Exit /\ UNCHANGED faults

\* The gate of single mode.  A failing test is its verdict.
TestGate ==
    /\ pc = "test" /\ mode = "single"
    /\ \E ok \in BOOLEAN :
          /\ testOk' = ok
          /\ verdict' = IF ok THEN verdict ELSE "FAIL"
    /\ pc' = "judge"
    /\ UNCHANGED <<stateJson, plan, agents, awaited, todo, draft, bounds, history>>

\* The reviewer reads the outcome of the test; its run is in memory only.
StartReviewer ==
    /\ pc = "test" /\ mode = "two"
    /\ testOk' \in BOOLEAN
    /\ StartAgent("CHECK", 0, "wait")
    /\ UNCHANGED <<stateJson, files, todo, bounds, history>>

ReviewerReturns ==
    /\ phase = "CHECK" /\ WaitReturns
    /\ \/ /\ agents[awaited].status = "done" /\ verdict # "none"
          /\ Goto("judge")
          /\ UNCHANGED <<stateJson, files, agents, bounds, history>>
       \/ /\ agents[awaited].status # "done" \/ verdict = "none"
          /\ Exit /\ UNCHANGED faults

\* A PASS cannot stand on a failing test: it is rewritten to FAIL.
Passes == testOk /\ (mode = "two" => verdict = "PASS")

Exhausted == round >= MaxRounds

\* The transition out of CHECK.
Judge ==
    /\ pc = "judge"
    /\ verdict' = IF Passes \/ verdict = "none" THEN verdict ELSE "FAIL"
    /\ IF Passes
         THEN phase' = "DONE" /\ UNCHANGED <<round, failed>>
         ELSE /\ failed' = failed \cup {round}
              /\ IF Exhausted
                   THEN phase' = "FAILED" /\ round' = round
                   ELSE /\ phase' = IF mode = "single" THEN "IMPLEMENT" ELSE "PLAN"
                        /\ round' = round + 1
    /\ Goto("top")
    /\ UNCHANGED <<mode, runs, plan, agents, bounds, lost, author>>

-----------------------------------------------------------------------------
\* The agents (external).

\* A planner writes the plan it was given with new items behind it.
WritePlan(a) ==
    /\ Alive(a) /\ agents[a].kind = "PLAN" /\ ~agents[a].wrote
    /\ \E n \in 0 .. (MaxItems - Len(agents[a].base)) :
          plan' = agents[a].base \o [i \in 1 .. n |-> FALSE]
    /\ agents' = [agents EXCEPT ![a].wrote = TRUE]
    /\ UNCHANGED <<stateJson, verdict, process, bounds, lost, author, failed>>

WriteVerdict(a) ==
    /\ Alive(a) /\ agents[a].kind = "CHECK" /\ ~agents[a].wrote
    /\ verdict' \in {"PASS", "FAIL"}
    /\ author' = a
    /\ agents' = [agents EXCEPT ![a].wrote = TRUE]
    /\ UNCHANGED <<stateJson, plan, process, bounds, lost, failed>>

\* The run ends and its supervisor writes how.
AgentEnds(a) ==
    /\ Alive(a)
    /\ \E status \in {"done", "failed"} :
          agents' = [agents EXCEPT ![a].alive = FALSE, ![a].status = status]
    /\ UNCHANGED <<stateJson, files, process, bounds, history>>

\* A refresh finds its log silent: the record is stuck, the agent lives.
AgentStuck(a) ==
    /\ Running(a)
    /\ faults < MaxFaults /\ faults' = faults + 1
    /\ agents' = [agents EXCEPT ![a].status = "stuck"]
    /\ lost' = lost \cup {a}
    /\ UNCHANGED <<stateJson, files, process, starts, author, failed>>

\* A newer record takes the place of its record, or it is too old.  The record of
\* a run that no process waits for and no file names is not read again.
RecordEvicted(a) ==
    /\ agents[a].recorded
    /\ (a = awaited /\ pc \in {"started", "wait"}) \/ \E r \in runs : r[2] = a
    /\ faults < MaxFaults /\ faults' = faults + 1
    /\ agents' = [agents EXCEPT ![a].recorded = FALSE]
    /\ lost' = IF Alive(a) THEN lost \cup {a} ELSE lost
    /\ UNCHANGED <<stateJson, files, process, starts, author, failed>>

-----------------------------------------------------------------------------

\* What the process does when nothing goes wrong.
Work ==
    \/ Finish
    \/ Investigate
    \/ StartPlanner \/ PlannerReturns
    \/ ReadItems \/ Reattach \/ StartImplementer \/ SaveRun
    \/ ImplementerReturns \/ DropRun \/ ReadPlan \/ Tick \/ ItemsDone
    \/ RemoveVerdict \/ TestGate \/ StartReviewer \/ ReviewerReturns \/ Judge

Agents ==
    \E a \in Ids :
        \/ WritePlan(a) \/ WriteVerdict(a) \/ AgentEnds(a)
        \/ AgentStuck(a) \/ RecordEvicted(a)

Next == Start \/ Work \/ Crash \/ Agents

Spec == Init /\ [][Next]_vars

\* The process is scheduled and its local commands end.
FairSpec == Spec /\ WF_vars(Work)

-----------------------------------------------------------------------------

AgentType ==
    [kind : {"PLAN", "IMPLEMENT", "CHECK"}, item : 0 .. MaxItems, round : 1 .. MaxRounds,
     base : Boxes, status : {"running", "done", "failed", "stuck"},
     recorded : BOOLEAN, alive : BOOLEAN, wrote : BOOLEAN]

TypeOK ==
    /\ mode \in {"single", "two"}
    /\ phase \in {"INVESTIGATE", "PLAN", "IMPLEMENT", "CHECK", "DONE", "FAILED"}
    /\ round \in 1 .. MaxRounds
    /\ runs \subseteq (1 .. MaxItems) \X Ids
    /\ plan = NoPlan \/ plan \in Boxes
    /\ verdict \in {"none", "PASS", "FAIL"}
    /\ agents \in Seq(AgentType)
    /\ pc \in {"off", "top", "wait", "items", "started", "drop", "tick", "write", "test", "judge"}
    /\ awaited \in 0 .. Len(agents)
    /\ todo \subseteq 1 .. MaxItems
    /\ draft = NoPlan \/ draft \in Boxes
    /\ testOk \in BOOLEAN
    /\ starts \in 0 .. MaxStarts /\ faults \in 0 .. MaxFaults
    /\ lost \subseteq Ids /\ author \in 0 .. Len(agents)
    /\ failed \subseteq 1 .. MaxRounds

LostA(kind) == \E a \in lost : agents[a].kind = kind

Implementers == {a \in Ids : agents[a].kind = "IMPLEMENT" /\ Alive(a)}

\* No implementer still writes while the goal is checked or when it is over, and
\* there are never two of them in one tree, however often the process dies and
\* comes back: it waits for the runs in state.json.  Left out are the runs it
\* cannot wait for, whose process died between startAt and saveState, or whose
\* record says stuck or was evicted while they ran, and a planner lost in the same
\* way, which writes another plan under the feet of the next process.
NoLateImplementer ==
    ~LostA("PLAN") /\ phase \in {"CHECK", "DONE", "FAILED"} => Implementers \subseteq lost

OneImplementer ==
    ~LostA("PLAN") => \A a, b \in Implementers \ lost : a = b

\* A ticked box stands for an implementer that succeeded on that item, and the
\* test gate of single mode for one that succeeded in that round.
Succeeded(a) == agents[a].kind = "IMPLEMENT" /\ agents[a].status = "done"

ChecksAreEarned ==
    /\ plan # NoPlan =>
          \A i \in DOMAIN plan : plan[i] => \E a \in Ids : Succeeded(a) /\ agents[a].item = i
    /\ mode = "single" /\ phase = "CHECK" =>
          \E a \in Ids : Succeeded(a) /\ agents[a].round = round

\* IMPLEMENT is left only with every item of the plan ticked, again unless a
\* lost planner has written another plan.
PlanIsWorkedOff ==
    [][phase = "IMPLEMENT" /\ phase' = "CHECK" /\ mode = "two" /\ ~LostA("PLAN")
          => Pending(plan) = {}]_vars

\* DONE follows a passing test and, in mode two, a PASS of the reviewer that was
\* started for this check, or of a reviewer lost by an earlier process.
DoneIsReviewed ==
    [][phase # "DONE" /\ phase' = "DONE"
          => /\ testOk
             /\ mode = "two" => verdict = "PASS" /\ (author = awaited \/ LostA("CHECK"))]_vars

\* FAILED means that every round was judged and failed; a crash costs no round.
FailedUsedEveryRound == phase = "FAILED" => failed = 1 .. MaxRounds

\* No implementer is late, and none has company.
ImplementersInTurn == NoLateImplementer /\ OneImplementer

\* DONE and FAILED are earned: every item worked off, a check passed, or every
\* round used.
VerdictsAreEarned == PlanIsWorkedOff /\ DoneIsReviewed /\ []FailedUsedEveryRound

\* If runs end, a process that is started ends, unless it waits for a run whose
\* record was evicted: for that one it waits for ever, however well it ended.
RunsEnd == []<>(\A a \in Ids : ~Running(a))

WaitsInVain == pc = "wait" /\ ~agents[awaited].recorded

ProcessEnds == RunsEnd => [](pc # "off" => <>(pc = "off" \/ WaitsInVain))
=============================================================================
