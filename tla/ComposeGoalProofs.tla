------------------------- MODULE ComposeGoalProofs -------------------------
(***************************************************************************)
(* ComposeGoal for any number of rounds, items, agents, starts and faults.  *)
(*                                                                         *)
(* GoalInv is inductive.  Its heart is InTurn: an implementer that is alive *)
(* and not lost is the one the process has started, waits for, or will find *)
(* in "runs" when it comes back, and its item is the smallest one that is   *)
(* not ticked, so the next process takes it up again and starts no second  *)
(* one.  TicksEarned, GateEarned and Reviewed say what a tick, the test     *)
(* gate and verdict.md are worth.  They need Known (what the process knows  *)
(* of the runs it holds or has saved), Attended (a planner or a reviewer is *)
(* waited for, or lost), Lives and Single.                                  *)
(***************************************************************************)
EXTENDS ComposeGoal, WellFoundedInduction, SequenceTheorems, TLAPS

\* A set of numbers that is not empty has a smallest one.
LEMMA Smallest ==
  ASSUME NEW T, T \subseteq Nat, T # {}
  PROVE  \E x \in T : \A y \in T : x <= y
<1> DEFINE R == {ss \in Nat \X Nat : ss[1] < ss[2]}
<1>1. IsWellFoundedOn(R, Nat)
  BY NatLessThanWellFounded DEF OpToRel
<1>2. \A x, y \in Nat : <<y, x>> \in R <=> y < x
  OBVIOUS
<1> HIDE DEF R
<1>3. PICK x \in T : \A y \in T : ~ (<<y, x>> \in R)
  BY <1>1, WFMin
<1>4. \A y \in T : x <= y
  <2> SUFFICES ASSUME NEW y \in T PROVE x <= y
    OBVIOUS
  <2>1. x \in Nat /\ y \in Nat /\ ~(y < x)
    BY <1>2, <1>3
  <2> QED
    BY <2>1
<1> QED
  BY <1>4

\* NextItem is the smallest item to do.
LEMMA NextItemIsSmallest ==
  ASSUME todo \subseteq 1 .. MaxItems, todo # {}
  PROVE  NextItem \in todo /\ NextItem \in 1 .. MaxItems /\ \A j \in todo : NextItem <= j
<1>1. todo \subseteq Nat
  BY GoalAssumption
<1>2. \E i \in todo : \A j \in todo : i <= j
  BY <1>1, Smallest
<1> QED
  BY <1>2 DEF NextItem

\* A plan is a short sequence of Booleans.
LEMMA BoxesAreShort ==
  ASSUME NEW b
  PROVE  b \in Boxes <=> b \in Seq(BOOLEAN) /\ Len(b) <= MaxItems
<1>1. ASSUME b \in Boxes PROVE b \in Seq(BOOLEAN) /\ Len(b) <= MaxItems
  <2>1. PICK n \in 0 .. MaxItems : b \in [1 .. n -> BOOLEAN]
    BY <1>1 DEF Boxes
  <2> QED
    BY <2>1, GoalAssumption
<1>2. ASSUME b \in Seq(BOOLEAN), Len(b) <= MaxItems PROVE b \in Boxes
  <2>1. Len(b) \in 0 .. MaxItems /\ b \in [1 .. Len(b) -> BOOLEAN]
    BY <1>2, GoalAssumption
  <2> QED
    BY <2>1 DEF Boxes
<1> QED
  BY <1>1, <1>2

-----------------------------------------------------------------------------
\* What a step does to the agents.

Kinds == {"PLAN", "IMPLEMENT", "CHECK"}

\* startAt adds an agent that runs and touches no other.
LEMMA StartedAgent ==
  ASSUME TypeOK, NEW kind \in Kinds, NEW item \in 0 .. MaxItems, NEW next,
         StartAgent(kind, item, next)
  PROVE  /\ agents' \in Seq(AgentType) /\ Len(agents') = Len(agents) + 1
         /\ Ids = 1 .. Len(agents) /\ Ids' = 1 .. Len(agents) + 1 /\ Len(agents) \in Nat
         /\ awaited' = Len(agents) + 1 /\ pc' = next /\ draft' = draft
         /\ \A a \in Ids : agents'[a] = agents[a]
         /\ agents'[Len(agents) + 1] =
              [kind |-> kind, item |-> item, round |-> round,
               base |-> IF kind = "PLAN" /\ plan # NoPlan THEN plan ELSE <<>>,
               status |-> "running", recorded |-> TRUE, alive |-> TRUE, wrote |-> FALSE]
<1> DEFINE base == IF kind = "PLAN" /\ plan # NoPlan THEN plan ELSE <<>>
           agent == [kind |-> kind, item |-> item, round |-> round, base |-> base,
                     status |-> "running", recorded |-> TRUE, alive |-> TRUE, wrote |-> FALSE]
<1>1. <<>> \in Boxes
  <2>1. <<>> \in Seq(BOOLEAN) /\ Len(<<>>) <= MaxItems
    BY GoalAssumption
  <2> QED
    BY <2>1, BoxesAreShort
<1>2. base \in Boxes
  BY <1>1 DEF TypeOK
<1> HIDE DEF base
<1>3. agent \in AgentType
  BY <1>2 DEF AgentType, TypeOK, Kinds
<1> HIDE DEF agent
<1>4. agents' = Append(agents, agent) /\ awaited' = Len(agents) + 1 /\ pc' = next /\ draft' = draft
  BY DEF StartAgent, agent, base
<1>5. agents \in Seq(AgentType)
  BY DEF TypeOK
<1>6. /\ agents' \in Seq(AgentType) /\ Len(agents') = Len(agents) + 1
      /\ \A a \in 1 .. Len(agents) : agents'[a] = agents[a]
      /\ agents'[Len(agents) + 1] = agent
  BY <1>3, <1>4, <1>5, AppendProperties
<1>7. Ids = 1 .. Len(agents) /\ Ids' = 1 .. Len(agents) + 1 /\ Len(agents) \in Nat
  BY <1>5, <1>6, LenProperties DEF Ids
<1> QED
  BY <1>4, <1>6, <1>7 DEF agent, base

\* An entry that is replaced leaves the others alone.
LEMMA ReplacedAgent ==
  ASSUME TypeOK, NEW a \in Ids, NEW new \in AgentType, agents' = [agents EXCEPT ![a] = new]
  PROVE  /\ agents' \in Seq(AgentType) /\ Len(agents') = Len(agents) /\ Ids' = Ids
         /\ agents'[a] = new
         /\ \A b \in Ids : b # a => agents'[b] = agents[b]
<1>1. agents \in Seq(AgentType) /\ Ids = 1 .. Len(agents) /\ Len(agents) \in Nat
  BY LenProperties DEF TypeOK, Ids
<1>2. agents' \in Seq(AgentType) /\ Len(agents') = Len(agents)
  BY <1>1, ExceptSeq
<1> QED
  BY <1>1, <1>2, LenProperties DEF Ids

\* An agent that writes its file stays as it is otherwise.
LEMMA AgentWrites ==
  ASSUME TypeOK, NEW a \in Ids, WritePlan(a) \/ WriteVerdict(a)
  PROVE  /\ agents' \in Seq(AgentType) /\ Len(agents') = Len(agents) /\ Ids' = Ids
         /\ \A b \in Ids :
               /\ agents'[b].kind = agents[b].kind /\ agents'[b].item = agents[b].item
               /\ agents'[b].round = agents[b].round /\ agents'[b].base = agents[b].base
               /\ agents'[b].status = agents[b].status /\ agents'[b].alive = agents[b].alive
               /\ agents'[b].recorded = agents[b].recorded
<1> DEFINE new == [agents[a] EXCEPT !.wrote = TRUE]
<1>1. agents[a] \in AgentType
  BY ElementOfSeq DEF TypeOK, Ids
<1>2. /\ new \in AgentType
      /\ new.kind = agents[a].kind /\ new.item = agents[a].item /\ new.round = agents[a].round
      /\ new.base = agents[a].base /\ new.status = agents[a].status
      /\ new.alive = agents[a].alive /\ new.recorded = agents[a].recorded
  BY <1>1 DEF AgentType
<1>3. agents' = [agents EXCEPT ![a] = new]
  BY DEF WritePlan, WriteVerdict
<1> HIDE DEF new
<1> QED
  BY <1>2, <1>3, ReplacedAgent

\* The end of a run is the end of its agent.
LEMMA AgentEnded ==
  ASSUME TypeOK, NEW a \in Ids, AgentEnds(a)
  PROVE  /\ agents' \in Seq(AgentType) /\ Len(agents') = Len(agents) /\ Ids' = Ids
         /\ \A b \in Ids : b # a => agents'[b] = agents[b]
         /\ agents'[a].kind = agents[a].kind /\ agents'[a].item = agents[a].item
         /\ agents'[a].round = agents[a].round /\ agents'[a].base = agents[a].base
         /\ agents'[a].status \in {"done", "failed"} /\ agents'[a].alive = FALSE
<1>1. agents[a] \in AgentType
  BY ElementOfSeq DEF TypeOK, Ids
<1>2. PICK status \in {"done", "failed"} :
        agents' = [agents EXCEPT ![a].alive = FALSE, ![a].status = status]
  BY DEF AgentEnds
<1> DEFINE new == [agents[a] EXCEPT !.alive = FALSE, !.status = status]
<1>3. /\ new \in AgentType
      /\ new.kind = agents[a].kind /\ new.item = agents[a].item /\ new.round = agents[a].round
      /\ new.base = agents[a].base /\ new.status = status /\ new.alive = FALSE
  BY <1>1 DEF AgentType
<1>4. agents' = [agents EXCEPT ![a] = new]
  BY <1>2
<1> HIDE DEF new
<1> QED
  BY <1>3, <1>4, ReplacedAgent

\* A record that is stuck or gone is no news for the agent.
LEMMA RecordChanges ==
  ASSUME TypeOK, NEW a \in Ids, AgentStuck(a) \/ RecordEvicted(a)
  PROVE  /\ agents' \in Seq(AgentType) /\ Len(agents') = Len(agents) /\ Ids' = Ids
         /\ \A b \in Ids : b # a => agents'[b] = agents[b]
         /\ agents'[a].kind = agents[a].kind /\ agents'[a].item = agents[a].item
         /\ agents'[a].round = agents[a].round /\ agents'[a].base = agents[a].base
         /\ agents'[a].alive = agents[a].alive
         /\ AgentStuck(a) => agents'[a].status = "stuck"
         /\ RecordEvicted(a) =>
              agents'[a].status = agents[a].status /\ ~agents'[a].recorded
<1>1. agents[a] \in AgentType
  BY ElementOfSeq DEF TypeOK, Ids
<1>2. CASE AgentStuck(a)
  <2> DEFINE new == [agents[a] EXCEPT !.status = "stuck"]
  <2>1. /\ new \in AgentType
        /\ new.kind = agents[a].kind /\ new.item = agents[a].item
        /\ new.round = agents[a].round /\ new.base = agents[a].base
        /\ new.status = "stuck" /\ new.alive = agents[a].alive
        /\ new.recorded = agents[a].recorded /\ agents[a].recorded
    BY <1>1, <1>2 DEF AgentType, AgentStuck, Running
  <2>2. agents' = [agents EXCEPT ![a] = new]
    BY <1>2 DEF AgentStuck
  <2> HIDE DEF new
  <2>3. /\ agents' \in Seq(AgentType) /\ Len(agents') = Len(agents) /\ Ids' = Ids
        /\ \A b \in Ids : b # a => agents'[b] = agents[b]
        /\ agents'[a] = new
    BY <2>1, <2>2, ReplacedAgent
  <2>4. ~RecordEvicted(a)
    <3>1. RecordEvicted(a) => ~agents'[a].recorded
      BY <1>1 DEF RecordEvicted, AgentType, TypeOK, Ids
    <3> QED
      BY <2>1, <2>3, <3>1
  <2> QED
    BY <2>1, <2>3, <2>4
<1>3. CASE RecordEvicted(a) /\ ~AgentStuck(a)
  <2> DEFINE new == [agents[a] EXCEPT !.recorded = FALSE]
  <2>1. /\ new \in AgentType
        /\ new.kind = agents[a].kind /\ new.item = agents[a].item
        /\ new.round = agents[a].round /\ new.base = agents[a].base
        /\ new.status = agents[a].status /\ new.alive = agents[a].alive /\ ~new.recorded
    BY <1>1 DEF AgentType
  <2>2. agents' = [agents EXCEPT ![a] = new]
    BY <1>3 DEF RecordEvicted
  <2> HIDE DEF new
  <2> QED
    BY <1>3, <2>1, <2>2, ReplacedAgent
<1> QED
  BY <1>2, <1>3

\* A process with a run in its hands, or a plan to tick, has it.
InHand ==
    /\ pc \in {"started", "wait", "drop", "tick", "write"} => awaited \in Ids
    /\ pc \in {"started", "drop", "tick", "write"} => todo # {} /\ phase = "IMPLEMENT"
    /\ pc = "items" => phase = "IMPLEMENT"
    /\ pc \in {"test", "judge"} => phase = "CHECK"
    /\ pc = "wait" => phase \in Kinds /\ (phase = "IMPLEMENT" => todo # {})
    /\ pc \in {"tick", "write"} => mode = "two"
    /\ mode = "two" /\ phase = "IMPLEMENT" /\ pc \notin {"off", "top"} => plan # NoPlan
    /\ pc = "write" => draft # NoPlan

\* The agent that the process starts: for the phase it is in, and of its round.
LEMMA AgentStarts ==
  ASSUME TypeOK, InHand, StartPlanner \/ StartImplementer \/ StartReviewer
  PROVE  LET new == Len(agents) + 1
         IN /\ agents' \in Seq(AgentType) /\ Len(agents') = new
            /\ Len(agents) \in Nat /\ Ids = 1 .. Len(agents)
            /\ Ids' = Ids \cup {new} /\ new \notin Ids
            /\ awaited' = new /\ draft' = draft
            /\ UNCHANGED <<mode, phase, round, runs, plan, verdict, todo, starts, faults,
                           lost, author, failed>>
            /\ pc' = IF phase = "IMPLEMENT" THEN "started" ELSE "wait"
            /\ phase \in Kinds
            /\ \A a \in Ids : agents'[a] = agents[a]
            /\ agents'[new].kind = phase /\ agents'[new].round = round
            /\ agents'[new].status = "running" /\ agents'[new].alive = TRUE
            /\ agents'[new].recorded = TRUE
            /\ phase = "IMPLEMENT" => agents'[new].item = NextItem /\ todo # {}
            /\ agents'[new].base = IF phase = "PLAN" /\ plan # NoPlan THEN plan ELSE <<>>
<1>1. \E kind \in Kinds, item \in 0 .. MaxItems :
         /\ StartAgent(kind, item, IF phase = "IMPLEMENT" THEN "started" ELSE "wait")
         /\ kind = phase
         /\ phase = "IMPLEMENT" => item = NextItem /\ todo # {}
  <2>1. CASE StartPlanner
    <3>1. /\ StartAgent("PLAN", 0, "wait") /\ "PLAN" \in Kinds
          /\ 0 \in 0 .. MaxItems /\ phase = "PLAN"
      BY <2>1, GoalAssumption DEF StartPlanner, Kinds
    <3> QED
      BY <3>1
  <2>2. CASE StartReviewer
    <3>1. /\ StartAgent("CHECK", 0, "wait") /\ "CHECK" \in Kinds
          /\ 0 \in 0 .. MaxItems /\ phase = "CHECK"
      BY <2>2, GoalAssumption DEF StartReviewer, Kinds, InHand
    <3> QED
      BY <3>1
  <2>3. CASE StartImplementer
    <3>1. /\ StartAgent("IMPLEMENT", NextItem, "started") /\ "IMPLEMENT" \in Kinds
          /\ phase = "IMPLEMENT" /\ todo # {}
      BY <2>3 DEF StartImplementer, Kinds, InHand
    <3>2. NextItem \in 0 .. MaxItems
      BY <3>1, NextItemIsSmallest, GoalAssumption DEF TypeOK
    <3> QED
      BY <3>1, <3>2
  <2> QED
    BY <2>1, <2>2, <2>3
<1>2. PICK kind \in Kinds, item \in 0 .. MaxItems :
         /\ StartAgent(kind, item, IF phase = "IMPLEMENT" THEN "started" ELSE "wait")
         /\ kind = phase
         /\ phase = "IMPLEMENT" => item = NextItem /\ todo # {}
  BY <1>1
<1>3. /\ agents' \in Seq(AgentType) /\ Len(agents') = Len(agents) + 1
      /\ Ids = 1 .. Len(agents) /\ Ids' = 1 .. Len(agents) + 1 /\ Len(agents) \in Nat
      /\ awaited' = Len(agents) + 1 /\ draft' = draft
      /\ pc' = IF phase = "IMPLEMENT" THEN "started" ELSE "wait"
      /\ \A a \in Ids : agents'[a] = agents[a]
      /\ agents'[Len(agents) + 1] =
              [kind |-> kind, item |-> item, round |-> round,
               base |-> IF kind = "PLAN" /\ plan # NoPlan THEN plan ELSE <<>>,
               status |-> "running", recorded |-> TRUE, alive |-> TRUE, wrote |-> FALSE]
  BY <1>2, StartedAgent
<1>4. UNCHANGED <<mode, phase, round, runs, plan, verdict, todo, starts, faults,
                  lost, author, failed>>
  BY DEF StartPlanner, StartImplementer, StartReviewer, stateJson, files, bounds, history
<1>5. Ids' = Ids \cup {Len(agents) + 1} /\ Len(agents) + 1 \notin Ids
  BY <1>3
<1> QED
  BY <1>2, <1>3, <1>4, <1>5

\* The process that exits leaves the files and the agents as they are.
LEMMA ExitFrame ==
  ASSUME TypeOK, Exit
  PROVE  /\ UNCHANGED <<mode, phase, round, runs, plan, verdict, agents, starts, author, failed>>
         /\ pc' = "off" /\ awaited' = 0 /\ todo' = {} /\ draft' = NoPlan /\ testOk' = FALSE
         /\ lost \subseteq lost' /\ lost' \subseteq Ids
         /\ \A a \in lost' :
               a \in lost \/ (a = awaited /\ Alive(a) /\ \A r \in runs : r[2] # a)
         /\ awaited \in Ids /\ Alive(awaited) /\ (\A r \in runs : r[2] # awaited) =>
               awaited \in lost'
<1>1. UNCHANGED <<mode, phase, round, runs, plan, verdict, agents, starts, author, failed>>
  BY DEF Exit, stateJson, files
<1>2. /\ pc' = "off" /\ awaited' = 0 /\ todo' = {} /\ draft' = NoPlan /\ testOk' = FALSE
      /\ \A a : a \in lost' <=>
            \/ a \in lost
            \/ a = awaited /\ a \in Ids /\ Alive(a) /\ \A r \in runs : r[2] # a
  BY DEF Exit, Alive
<1>3. lost \subseteq Ids
  BY DEF TypeOK
<1>4. /\ lost \subseteq lost'
      /\ \A a \in lost' :
            a \in lost \/ (a = awaited /\ Alive(a) /\ \A r \in runs : r[2] # a)
      /\ lost' \subseteq Ids
  BY <1>2, <1>3
<1>5. awaited \in Ids /\ Alive(awaited) /\ (\A r \in runs : r[2] # awaited) =>
         awaited \in lost'
  BY <1>2
<1> QED
  BY <1>1, <1>2, <1>4, <1>5

\* The plan that is written back is the draft with one more box ticked.
LEMMA TickedPlan ==
  ASSUME TypeOK, InHand, Tick
  PROVE  /\ plan' \in Boxes /\ DOMAIN plan' = DOMAIN draft
         /\ \A i \in DOMAIN draft : plan'[i] <=> draft[i] \/ i = NextItem
<1>1. PICK n \in 0 .. MaxItems : draft \in [1 .. n -> BOOLEAN]
  BY DEF Tick, InHand, TypeOK, Boxes
<1>2. plan' = [i \in DOMAIN draft |-> draft[i] \/ i = NextItem]
  BY DEF Tick
<1>3. plan' \in [1 .. n -> BOOLEAN]
  BY <1>1, <1>2
<1>4. plan' \in Boxes
  BY <1>3 DEF Boxes
<1> QED
  BY <1>2, <1>4

\* The plan a planner writes has no tick but those of the plan it was given.
LEMMA WrittenPlan ==
  ASSUME TypeOK, NEW a \in Ids, WritePlan(a)
  PROVE  /\ plan' \in Boxes
         /\ \A i \in DOMAIN plan' :
               plan'[i] => i \in DOMAIN agents[a].base /\ agents[a].base[i]
<1> DEFINE base == agents[a].base
<1>1. agents[a] \in AgentType
  BY ElementOfSeq DEF TypeOK, Ids
<1>2. base \in Boxes
  BY <1>1 DEF AgentType
<1>3. PICK n \in 0 .. (MaxItems - Len(base)) : plan' = base \o [i \in 1 .. n |-> FALSE]
  BY DEF WritePlan
<1> HIDE DEF base
<1>4. base \in Seq(BOOLEAN) /\ Len(base) \in Nat /\ Len(base) <= MaxItems
  BY <1>2, BoxesAreShort, LenProperties
<1> DEFINE new == [i \in 1 .. n |-> FALSE]
<1>5. n \in Nat /\ new \in Seq(BOOLEAN) /\ Len(new) = n /\ \A i \in 1 .. n : new[i] = FALSE
  BY <1>4, GoalAssumption
<1>6. plan' = base \o new
  BY <1>3
<1> HIDE DEF new
<1>7. /\ plan' \in Seq(BOOLEAN) /\ Len(plan') = Len(base) + n
      /\ \A i \in 1 .. Len(base) + n :
            plan'[i] = IF i <= Len(base) THEN base[i] ELSE new[i - Len(base)]
  BY <1>4, <1>5, <1>6, ConcatProperties
<1>8. plan' \in Boxes
  <2>1. Len(plan') <= MaxItems
    BY <1>3, <1>4, <1>5, <1>7, GoalAssumption
  <2> QED
    BY <1>7, <2>1, BoxesAreShort
<1>9. ASSUME NEW i \in DOMAIN plan', plan'[i] PROVE i \in DOMAIN base /\ base[i]
  <2>1. i \in 1 .. Len(base) + n /\ DOMAIN base = 1 .. Len(base)
    BY <1>4, <1>7, LenProperties
  <2>2. CASE i <= Len(base)
    BY <1>4, <1>7, <1>9, <2>1, <2>2
  <2>3. CASE ~(i <= Len(base))
    <3>1. i - Len(base) \in 1 .. n
      BY <1>4, <1>5, <2>1, <2>3
    <3> QED
      BY <1>5, <1>7, <1>9, <2>1, <2>3, <3>1
  <2> QED
    BY <2>2, <2>3
<1> QED
  BY <1>8, <1>9 DEF base

\* Every step keeps the types.
LEMMA TypesInv == TypeOK /\ InHand /\ [Next]_vars => TypeOK'
<1> SUFFICES ASSUME TypeOK, InHand, [Next]_vars PROVE TypeOK'
  OBVIOUS
<1> USE GoalAssumption DEF stateJson, files, process, bounds, history, Goto
<1>0. Ids = 1 .. Len(agents) /\ Len(agents) \in Nat /\ \A a \in Ids : a \in 0 .. Len(agents)
  BY LenProperties DEF TypeOK, Ids
<1>1. CASE UNCHANGED vars
  BY <1>1 DEF vars, TypeOK, Ids
<1>2. CASE Exit /\ faults' \in 0 .. MaxFaults
  <2>1. /\ UNCHANGED <<mode, phase, round, runs, plan, verdict, agents, starts, author, failed>>
        /\ pc' = "off" /\ awaited' = 0 /\ todo' = {} /\ draft' = NoPlan /\ testOk' = FALSE
        /\ lost' \subseteq Ids
    BY <1>2, ExitFrame
  <2>2. awaited' \in 0 .. Len(agents') /\ author' \in 0 .. Len(agents')
    BY <1>0, <2>1 DEF TypeOK
  <2>3. /\ mode' \in {"single", "two"}
        /\ phase' \in {"INVESTIGATE", "PLAN", "IMPLEMENT", "CHECK", "DONE", "FAILED"}
        /\ round' \in 1 .. MaxRounds /\ runs' \subseteq (1 .. MaxItems) \X Ids'
        /\ plan' = NoPlan \/ plan' \in Boxes
        /\ verdict' \in {"none", "PASS", "FAIL"} /\ agents' \in Seq(AgentType)
        /\ starts' \in 0 .. MaxStarts /\ failed' \subseteq 1 .. MaxRounds /\ lost' \subseteq Ids'
    BY <2>1 DEF TypeOK, Ids
  <2> QED
    BY <1>2, <2>1, <2>2, <2>3 DEF TypeOK
<1>22. ASSUME Exit, UNCHANGED faults PROVE TypeOK'
  BY <1>2, <1>22 DEF TypeOK
<1>3. CASE Start \/ Investigate
  <2>1. CASE Start
    BY <2>1 DEF Start, TypeOK, Ids
  <2>2. CASE Investigate
    BY <2>2 DEF Investigate, Advance, TypeOK, Ids
  <2> QED
    BY <1>3, <2>1, <2>2
<1>23. CASE Finish
  BY <1>22, <1>23 DEF Finish
<1>4. CASE Crash
  <2>1. faults' \in 0 .. MaxFaults
    BY <1>4 DEF Crash, TypeOK
  <2> QED
    BY <1>2, <1>4, <2>1 DEF Crash
<1>5. CASE StartPlanner \/ StartImplementer \/ StartReviewer
  <2>1. /\ agents' \in Seq(AgentType) /\ Len(agents') = Len(agents) + 1
        /\ Ids' = Ids \cup {Len(agents) + 1} /\ awaited' = Len(agents) + 1 /\ draft' = draft
        /\ UNCHANGED <<mode, phase, round, runs, plan, verdict, todo, starts, faults,
                        lost, author, failed>>
        /\ pc' \in {"started", "wait"}
    BY <1>5, AgentStarts
  <2>2. awaited' \in 0 .. Len(agents') /\ author' \in 0 .. Len(agents') /\ lost' \subseteq Ids'
        /\ runs' \subseteq (1 .. MaxItems) \X Ids'
    BY <1>0, <2>1 DEF TypeOK
  <2>3. testOk' \in BOOLEAN
    BY <1>5 DEF StartPlanner, StartImplementer, StartReviewer, TypeOK
  <2> QED
    BY <2>1, <2>2, <2>3 DEF TypeOK
<1>6. CASE PlannerReturns
  BY <1>22, <1>6 DEF PlannerReturns, Advance, TypeOK, Ids
<1>7. CASE ReadItems
  <2>1. Pending(plan) \subseteq 1 .. MaxItems \/ plan = NoPlan
    BY BoxesAreShort, LenProperties DEF Pending, TypeOK
  <2> QED
    <3>1. CASE Exit /\ UNCHANGED faults
      BY <1>22, <3>1
    <3>2. CASE mode = "single" \/ plan # NoPlan
      <4>1. todo' \subseteq 1 .. MaxItems
        BY <1>7, <2>1, <3>2 DEF ReadItems
      <4>2. \/ /\ UNCHANGED <<stateJson, files, agents, awaited, draft, testOk, bounds, history>>
               /\ pc' = "items"
            \/ Exit /\ UNCHANGED faults
        BY <1>7 DEF ReadItems
      <4> QED
        BY <3>1, <4>1, <4>2 DEF TypeOK, Ids
    <3> QED
      BY <1>7, <3>1, <3>2 DEF ReadItems
<1>8. CASE Reattach
  <2>1. awaited' \in Ids
    BY <1>8 DEF Reattach, InFlight, TypeOK
  <2> QED
    BY <1>0, <1>8, <2>1 DEF Reattach, TypeOK, Ids
<1>10. CASE SaveRun
  <2>1. <<NextItem, awaited>> \in (1 .. MaxItems) \X Ids
    BY <1>10, NextItemIsSmallest DEF SaveRun, InHand, TypeOK
  <2> QED
    BY <1>10, <2>1 DEF SaveRun, TypeOK, Ids
<1>11. CASE ImplementerReturns \/ ReviewerReturns
  BY <1>22, <1>11 DEF ImplementerReturns, ReviewerReturns, TypeOK, Ids
<1>12. CASE DropRun \/ ReadPlan \/ ItemsDone
  BY <1>12 DEF DropRun, ReadPlan, ItemsDone, Advance, TypeOK, Ids
<1>13. CASE Tick
  <2>1. plan' \in Boxes
    BY <1>13, TickedPlan
  <2> QED
    BY <1>13, <2>1 DEF Tick, TypeOK, Ids
<1>14. CASE RemoveVerdict
  <2>1. CASE Exit /\ UNCHANGED faults
    BY <1>22, <2>1
  <2>2. CASE ~(Exit /\ UNCHANGED faults)
    <3>1. /\ verdict' = "none" /\ author' = 0 /\ pc' = "test"
          /\ UNCHANGED <<mode, phase, round, runs, plan, agents, awaited, todo, draft, testOk,
                         starts, faults, lost, failed>>
      BY <1>14, <2>2 DEF RemoveVerdict
    <3>2. author' \in 0 .. Len(agents')
      BY <1>0, <3>1
    <3> QED
      BY <3>1, <3>2 DEF TypeOK, Ids
  <2> QED
    BY <2>1, <2>2
<1>15. CASE TestGate
  BY <1>15 DEF TestGate, TypeOK, Ids
<1>17. CASE Judge
  <2>1. round' \in 1 .. MaxRounds
    BY <1>17 DEF Judge, Exhausted, TypeOK
  <2> QED
    BY <1>17, <2>1 DEF Judge, TypeOK, Ids
<1>18. ASSUME NEW a \in Ids, WritePlan(a) PROVE TypeOK'
  <2>1. plan' \in Boxes
    BY <1>18, WrittenPlan
  <2>2. agents' \in Seq(AgentType) /\ Len(agents') = Len(agents) /\ Ids' = Ids
    BY <1>18, AgentWrites
  <2> QED
    BY <1>18, <2>1, <2>2 DEF WritePlan, TypeOK
<1>19. ASSUME NEW a \in Ids, WriteVerdict(a) PROVE TypeOK'
  <2>1. agents' \in Seq(AgentType) /\ Len(agents') = Len(agents) /\ Ids' = Ids
    BY <1>19, AgentWrites
  <2> QED
    BY <1>0, <1>19, <2>1 DEF WriteVerdict, TypeOK
<1>20. ASSUME NEW a \in Ids, AgentEnds(a) PROVE TypeOK'
  <2>1. agents' \in Seq(AgentType) /\ Len(agents') = Len(agents) /\ Ids' = Ids
    BY <1>20, AgentEnded
  <2> QED
    BY <1>0, <1>20, <2>1 DEF AgentEnds, TypeOK
<1>21. ASSUME NEW a \in Ids, AgentStuck(a) \/ RecordEvicted(a) PROVE TypeOK'
  <2>1. agents' \in Seq(AgentType) /\ Len(agents') = Len(agents) /\ Ids' = Ids
    BY <1>21, RecordChanges
  <2> QED
    BY <1>0, <1>21, <2>1 DEF AgentStuck, RecordEvicted, TypeOK
<1> QED
  BY <1>1, <1>3, <1>4, <1>5, <1>6, <1>7, <1>8, <1>10, <1>11, <1>12, <1>13, <1>14, <1>15,
     <1>17, <1>18, <1>19, <1>20, <1>21, <1>23 DEF Next, Work, Agents

\* Every step of the process leaves it with what it needs next.
LEMMA InHandInv == TypeOK /\ InHand /\ [Next]_vars => InHand'
<1> SUFFICES ASSUME TypeOK, InHand, [Next]_vars PROVE InHand'
  OBVIOUS
<1> USE DEF InHand, Kinds
<1>1. CASE UNCHANGED vars
  BY <1>1 DEF vars, stateJson, files, process, Ids
<1>2. CASE Exit
  <2>1. pc' = "off" /\ UNCHANGED <<mode, phase, plan>>
    BY <1>2, ExitFrame
  <2> QED
    BY <2>1
<1>3. CASE Start \/ Investigate
  BY <1>3 DEF Start, Investigate, Advance, Goto, stateJson, files, Ids
<1>4. CASE Crash \/ Finish
  BY <1>2, <1>4 DEF Crash, Finish
<1>5. CASE StartPlanner \/ StartImplementer \/ StartReviewer
  <2>1. /\ awaited' \in Ids' /\ pc' = IF phase = "IMPLEMENT" THEN "started" ELSE "wait"
        /\ UNCHANGED <<mode, phase, plan, todo>> /\ phase \in Kinds
        /\ phase = "IMPLEMENT" => todo # {}
    BY <1>5, AgentStarts
  <2>2. phase = "IMPLEMENT" => pc = "items"
    BY <1>5 DEF StartPlanner, StartImplementer, StartReviewer
  <2> QED
    BY <2>1, <2>2
<1>6. CASE PlannerReturns
  BY <1>2, <1>6 DEF PlannerReturns, Advance, Goto, files
<1>7. CASE ReadItems
  BY <1>2, <1>7 DEF ReadItems, stateJson, files
<1>8. CASE Reattach
  <2>1. awaited' \in Ids
    BY <1>8 DEF Reattach, InFlight, TypeOK
  <2> QED
    BY <1>8, <2>1 DEF Reattach, stateJson, files, Ids
<1>10. CASE SaveRun
  BY <1>10 DEF SaveRun, Goto, files, Ids
<1>11. CASE ImplementerReturns \/ ReviewerReturns
  BY <1>2, <1>11 DEF ImplementerReturns, ReviewerReturns, Goto, WaitReturns, stateJson, files, Ids
<1>12. CASE DropRun
  BY <1>12 DEF DropRun, files, Ids, TypeOK
<1>13. CASE ReadPlan
  BY <1>13 DEF ReadPlan, stateJson, files, Ids
<1>14. CASE Tick
  <2>1. plan' # NoPlan
    BY <1>14, TickedPlan, GoalAssumption
  <2> QED
    BY <1>14, <2>1 DEF Tick, stateJson
<1>15. CASE ItemsDone
  BY <1>15 DEF ItemsDone, Advance, Goto, files
<1>16. CASE RemoveVerdict
  BY <1>2, <1>16 DEF RemoveVerdict, Goto, stateJson
<1>17. CASE TestGate
  BY <1>17 DEF TestGate, stateJson
<1>19. CASE Judge
  BY <1>19 DEF Judge, Goto
<1>20. ASSUME NEW a \in Ids, WritePlan(a) PROVE InHand'
  <2>1. plan' # NoPlan /\ Ids' = Ids
    BY <1>20, WrittenPlan, AgentWrites, GoalAssumption
  <2> QED
    BY <1>20, <2>1 DEF WritePlan, stateJson, process
<1>21. ASSUME NEW a \in Ids, WriteVerdict(a) \/ AgentEnds(a) \/ AgentStuck(a) \/ RecordEvicted(a)
       PROVE  InHand'
  <2>1. Ids' = Ids
    BY <1>21, AgentWrites, AgentEnded, RecordChanges
  <2>2. UNCHANGED <<mode, phase, plan, pc, awaited, todo, draft>>
    BY <1>21 DEF WriteVerdict, AgentEnds, AgentStuck, RecordEvicted, stateJson, files, process
  <2> QED
    BY <2>1, <2>2
<1> QED
  BY <1>1, <1>3, <1>4, <1>5, <1>6, <1>7, <1>8, <1>10, <1>11, <1>12, <1>13, <1>14, <1>15,
     <1>16, <1>17, <1>19, <1>20, <1>21 DEF Next, Work, Agents
\* The steps in which the process starts no agent and no agent does anything.
Bookkeeping ==
    \/ Start \/ Crash \/ Finish \/ Investigate
    \/ PlannerReturns \/ ReadItems \/ Reattach \/ SaveRun \/ ImplementerReturns
    \/ DropRun \/ ReadPlan \/ Tick \/ ItemsDone
    \/ RemoveVerdict \/ TestGate \/ ReviewerReturns \/ Judge

\* They leave every agent as it is, and lose one at most by an exit.
LEMMA BookkeepingFrame ==
  ASSUME TypeOK, Bookkeeping
  PROVE  /\ agents' = agents /\ Ids' = Ids
         /\ lost' = lost \/ Exit
<1> USE DEF stateJson, files, process, bounds, history, Ids
<1>1. CASE Start \/ Finish \/ Crash \/ Investigate \/ PlannerReturns
  BY <1>1 DEF Start, Finish, Crash, Investigate, PlannerReturns, Exit
<1>2. CASE ReadItems \/ Reattach \/ SaveRun \/ ImplementerReturns
  BY <1>2 DEF ReadItems, Reattach, SaveRun, ImplementerReturns, Exit
<1>3. CASE DropRun \/ ReadPlan \/ Tick \/ ItemsDone
  BY <1>3 DEF DropRun, ReadPlan, Tick, ItemsDone
<1>4. CASE RemoveVerdict \/ TestGate \/ ReviewerReturns \/ Judge
  BY <1>4 DEF RemoveVerdict, TestGate, ReviewerReturns, Judge, Exit
<1> QED
  BY <1>1, <1>2, <1>3, <1>4 DEF Bookkeeping

\* Which steps there are.
LEMMA Steps ==
  ASSUME Next
  PROVE  \/ Bookkeeping
         \/ StartPlanner \/ StartImplementer \/ StartReviewer
         \/ \E a \in Ids : WritePlan(a) \/ WriteVerdict(a)
         \/ \E a \in Ids : AgentEnds(a)
         \/ \E a \in Ids : AgentStuck(a) \/ RecordEvicted(a)
  BY DEF Next, Work, Agents, Bookkeeping

\* What no step does to an agent: its kind, item, round and base stay, the dead
\* stay dead, a run that ended stays ended, and what is lost stays lost.
LEMMA AgentsStay ==
  ASSUME TypeOK, InHand, [Next]_vars
  PROVE  /\ Ids \subseteq Ids' /\ lost \subseteq lost'
         /\ Ids' = Ids \/ StartPlanner \/ StartImplementer \/ StartReviewer
         /\ \A a \in Ids :
               /\ agents'[a].kind = agents[a].kind /\ agents'[a].item = agents[a].item
               /\ agents'[a].round = agents[a].round /\ agents'[a].base = agents[a].base
               /\ ~agents[a].alive => agents'[a].alive = agents[a].alive
               /\ ~agents[a].alive /\ agents[a].status # "running" =>
                     agents'[a].status = agents[a].status
<1>1. CASE UNCHANGED vars
  BY <1>1 DEF vars, history, Ids
<1>2. CASE Bookkeeping
  BY <1>2, BookkeepingFrame, ExitFrame
<1>3. CASE StartPlanner \/ StartImplementer \/ StartReviewer
  BY <1>3, AgentStarts
<1>4. ASSUME NEW a \in Ids, WritePlan(a) \/ WriteVerdict(a)
      PROVE  /\ Ids' = Ids /\ lost' = lost
             /\ \A b \in Ids :
               /\ agents'[b].kind = agents[b].kind /\ agents'[b].item = agents[b].item
               /\ agents'[b].round = agents[b].round /\ agents'[b].base = agents[b].base
               /\ agents'[b].status = agents[b].status /\ agents'[b].alive = agents[b].alive
  BY <1>4, AgentWrites DEF WritePlan, WriteVerdict
<1>5. ASSUME NEW a \in Ids, AgentEnds(a)
      PROVE  /\ Ids' = Ids /\ lost' = lost /\ agents[a].alive
             /\ \A b \in Ids :
               /\ agents'[b].kind = agents[b].kind /\ agents'[b].item = agents[b].item
               /\ agents'[b].round = agents[b].round /\ agents'[b].base = agents[b].base
               /\ b # a => agents'[b] = agents[b]
  BY <1>5, AgentEnded DEF AgentEnds, history, Alive
<1>6. ASSUME NEW a \in Ids, AgentStuck(a) \/ RecordEvicted(a)
      PROVE  /\ Ids' = Ids /\ lost \subseteq lost'
             /\ agents[a].status = "running" \/ agents'[a].status = agents[a].status
             /\ agents'[a].alive = agents[a].alive
             /\ \A b \in Ids :
               /\ agents'[b].kind = agents[b].kind /\ agents'[b].item = agents[b].item
               /\ agents'[b].round = agents[b].round /\ agents'[b].base = agents[b].base
               /\ b # a => agents'[b] = agents[b]
  BY <1>6, RecordChanges DEF AgentStuck, RecordEvicted, Running
<1>7. CASE \E a \in Ids : WritePlan(a) \/ WriteVerdict(a)
  BY <1>4, <1>7
<1>8. CASE \E a \in Ids : AgentEnds(a)
  BY <1>5, <1>8
<1>9. CASE \E a \in Ids : AgentStuck(a) \/ RecordEvicted(a)
  BY <1>6, <1>9
<1> QED
  BY <1>1, <1>2, <1>3, <1>7, <1>8, <1>9, Steps

-----------------------------------------------------------------------------
\* The agents alive and the agents known.

\* Only a live agent runs, one that succeeded is gone, and a live one that does
\* not run is lost.
Lives ==
    /\ \A a \in Ids : Running(a) => Alive(a)
    /\ \A a \in Ids : agents[a].status = "done" => ~Alive(a)
    /\ \A a \in Ids : Alive(a) /\ a \notin lost => Running(a)

\* Lives is kept: a run ends with its agent, and a stuck one is lost.
LEMMA LivesInv == TypeOK /\ InHand /\ Lives /\ [Next]_vars => Lives'
<1> SUFFICES ASSUME TypeOK, InHand, Lives, [Next]_vars PROVE Lives'
  OBVIOUS
<1> USE DEF Lives, Running, Alive
<1>1. CASE UNCHANGED vars
  BY <1>1 DEF vars, history, Ids
<1>2. CASE Bookkeeping
  BY <1>2, BookkeepingFrame, ExitFrame
<1>3. CASE StartPlanner \/ StartImplementer \/ StartReviewer
  BY <1>3, AgentStarts
<1>4. ASSUME NEW a \in Ids, WritePlan(a) \/ WriteVerdict(a) PROVE Lives'
  BY <1>4, AgentWrites DEF WritePlan, WriteVerdict
<1>5. ASSUME NEW a \in Ids, AgentEnds(a) PROVE Lives'
  <2>1. lost' = lost
    BY <1>5 DEF AgentEnds, history
  <2>2. /\ Ids' = Ids /\ \A b \in Ids : b # a => agents'[b] = agents[b]
        /\ agents'[a].status # "running" /\ ~agents'[a].alive
    BY <1>5, AgentEnded
  <2> QED
    BY <2>1, <2>2
<1>6. ASSUME NEW a \in Ids, AgentStuck(a) \/ RecordEvicted(a) PROVE Lives'
  <2>1. lost \subseteq lost' /\ (agents[a].alive => a \in lost')
    BY <1>6 DEF AgentStuck, RecordEvicted
  <2>2. /\ Ids' = Ids /\ \A b \in Ids : b # a => agents'[b] = agents[b]
        /\ agents'[a].alive = agents[a].alive
        /\ agents'[a].status # "running" \/ ~agents'[a].recorded
        /\ agents'[a].status \in {agents[a].status, "stuck"}
    BY <1>6, RecordChanges
  <2> QED
    BY <2>1, <2>2
<1> QED
  BY <1>1, <1>2, <1>3, <1>4, <1>5, <1>6, Steps

\* What the process knows of the runs it holds or has saved: whose they are, and
\* that it loses none of them while they run.
Known ==
    /\ \A r \in runs : /\ agents[r[2]].kind = "IMPLEMENT" /\ agents[r[2]].item = r[1]
                       /\ Running(r[2]) => r[2] \notin lost
    /\ pc \in {"started", "wait", "drop", "tick", "write"} =>
          /\ agents[awaited].kind = phase
          /\ phase = "IMPLEMENT" => agents[awaited].item = NextItem
          /\ Running(awaited) => awaited \notin lost
    /\ pc \in {"drop", "tick", "write"} => agents[awaited].status = "done"

\* An agent of the planner's or the reviewer's kind that is alive and not lost is
\* the one that is waited for.
Attended ==
    \A a \in Ids : agents[a].kind # "IMPLEMENT" /\ Alive(a) /\ a \notin lost =>
        phase = agents[a].kind /\ pc = "wait" /\ awaited = a

\* NextItem depends on todo only.
LEMMA NextItemStays == ASSUME UNCHANGED todo PROVE NextItem' = NextItem
  BY DEF NextItem

\* Known is kept by every step.
LEMMA KnownInv ==
  TypeOK /\ InHand /\ Lives /\ Known /\ [Next]_vars => Known'
<1> SUFFICES ASSUME TypeOK, InHand, Lives, Known, [Next]_vars PROVE Known'
  OBVIOUS
<1>0. \A r \in runs : r[2] \in Ids
  BY DEF TypeOK
<1> USE DEF Running
<1>1. CASE UNCHANGED vars
  BY <1>1, NextItemStays DEF Known, vars, stateJson, process, history
<1>2. CASE Exit
  <2>1. /\ UNCHANGED <<runs, agents>> /\ pc' = "off"
        /\ \A a \in lost' :
            a \in lost \/ (a = awaited /\ Alive(a) /\ \A r \in runs : r[2] # a)
    BY <1>2, ExitFrame
  <2> QED
    BY <2>1 DEF Known
<1>3. CASE Start \/ Investigate
  BY <1>3 DEF Known, Start, Investigate, Advance, Goto, stateJson, history
<1>4. CASE Crash \/ Finish
  BY <1>2, <1>4 DEF Crash, Finish
<1>5. CASE StartPlanner \/ StartImplementer \/ StartReviewer
  <2> DEFINE new == Len(agents) + 1
  <2>1. /\ Ids' = Ids \cup {new} /\ new \notin Ids /\ awaited' = new
        /\ UNCHANGED <<phase, runs, todo, lost>> /\ pc' \in {"started", "wait"}
        /\ \A a \in Ids : agents'[a] = agents[a]
        /\ agents'[new].kind = phase
        /\ phase = "IMPLEMENT" => agents'[new].item = NextItem
    BY <1>5, AgentStarts
  <2>2. new \notin lost
    BY <2>1 DEF TypeOK
  <2>3. NextItem' = NextItem
    BY <2>1, NextItemStays
  <2> HIDE DEF new
  <2> QED
    BY <1>0, <2>1, <2>2, <2>3 DEF Known
<1>6. CASE PlannerReturns
  BY <1>2, <1>6 DEF Known, PlannerReturns, Advance, Goto, history
<1>7. CASE ReadItems
  BY <1>2, <1>7 DEF Known, ReadItems, stateJson, history
<1>8. CASE Reattach
  <2>1. /\ UNCHANGED <<phase, runs, agents, todo, lost>> /\ pc' = "wait"
        /\ \E r \in runs : r[1] = NextItem /\ r[2] = awaited' /\ phase = "IMPLEMENT"
    BY <1>8 DEF Reattach, InFlight, InHand, stateJson, history
  <2>2. NextItem' = NextItem
    BY <2>1, NextItemStays
  <2> QED
    BY <2>1, <2>2 DEF Known
<1>10. CASE SaveRun
  <2>1. /\ UNCHANGED <<phase, agents, todo, lost, awaited>> /\ pc = "started" /\ pc' = "wait"
        /\ runs' = runs \cup {<<NextItem, awaited>>} /\ phase = "IMPLEMENT"
    BY <1>10 DEF SaveRun, Goto, history, InHand
  <2>2. NextItem' = NextItem
    BY <2>1, NextItemStays
  <2>3. \A r \in runs' : r \in runs \/ (r[1] = NextItem /\ r[2] = awaited)
    BY <2>1
  <2> QED
    BY <2>1, <2>2, <2>3 DEF Known
<1>11. CASE ImplementerReturns
  <2>1. CASE Exit
    BY <1>2, <2>1
  <2>2. CASE ~Exit
    <3>1. /\ UNCHANGED <<phase, runs, agents, todo, lost, awaited>> /\ pc = "wait" /\ pc' = "drop"
          /\ agents[awaited].status = "done"
      BY <1>11, <2>2 DEF ImplementerReturns, WaitReturns, Goto, stateJson, history
    <3>2. NextItem' = NextItem
      BY <3>1, NextItemStays
    <3> QED
      BY <3>1, <3>2 DEF Known
  <2> QED
    BY <2>1, <2>2
<1>12. CASE DropRun
  <2>1. /\ UNCHANGED <<phase, agents, lost, awaited>> /\ pc = "drop"
        /\ runs' \subseteq runs
        /\ pc' = "items" \/ (pc' = "tick" /\ UNCHANGED todo)
    BY <1>12 DEF DropRun, history
  <2>2. UNCHANGED todo => NextItem' = NextItem
    BY NextItemStays
  <2> QED
    BY <2>1, <2>2 DEF Known
<1>13. CASE ReadPlan
  <2>1. UNCHANGED <<phase, runs, agents, todo, lost, awaited>> /\ pc = "tick" /\ pc' = "write"
    BY <1>13 DEF ReadPlan, stateJson, history
  <2>2. NextItem' = NextItem
    BY <2>1, NextItemStays
  <2> QED
    BY <2>1, <2>2 DEF Known
<1>14. CASE Tick \/ ItemsDone
  BY <1>14 DEF Known, Tick, ItemsDone, Advance, Goto, stateJson, history
<1>15. CASE RemoveVerdict \/ TestGate
  BY <1>2, <1>15 DEF Known, RemoveVerdict, TestGate, Goto, stateJson, history
<1>16. CASE ReviewerReturns \/ Judge
  BY <1>2, <1>16 DEF Known, ReviewerReturns, Judge, Goto, stateJson, history
<1>17. ASSUME NEW a \in Ids, WritePlan(a) \/ WriteVerdict(a) PROVE Known'
  <2>1. UNCHANGED <<phase, runs, pc, awaited, todo, lost>>
    BY <1>17 DEF WritePlan, WriteVerdict, stateJson, process
  <2>2. /\ Ids' = Ids
        /\ \A b \in Ids : /\ agents'[b].kind = agents[b].kind /\ agents'[b].item = agents[b].item
                          /\ agents'[b].status = agents[b].status
                          /\ agents'[b].recorded = agents[b].recorded
    BY <1>17, AgentWrites
  <2>3. NextItem' = NextItem
    BY <2>1, NextItemStays
  <2>4. pc \in {"started", "wait", "drop", "tick", "write"} => awaited \in Ids
    BY DEF InHand
  <2> QED
    BY <1>0, <2>1, <2>2, <2>3, <2>4 DEF Known
<1>18. ASSUME NEW a \in Ids, AgentEnds(a) PROVE Known'
  <2>1. UNCHANGED <<phase, runs, pc, awaited, todo, lost>> /\ Alive(a)
    BY <1>18 DEF AgentEnds, stateJson, process, history
  <2>2. /\ Ids' = Ids
        /\ \A b \in Ids : /\ agents'[b].kind = agents[b].kind /\ agents'[b].item = agents[b].item
                          /\ b # a => agents'[b] = agents[b]
        /\ agents'[a].status # "running" /\ agents[a].status # "done"
    BY <1>18, <2>1, AgentEnded DEF Lives
  <2>3. NextItem' = NextItem
    BY <2>1, NextItemStays
  <2>4. pc \in {"started", "wait", "drop", "tick", "write"} => awaited \in Ids
    BY DEF InHand
  <2> QED
    BY <1>0, <2>1, <2>2, <2>3, <2>4 DEF Known
<1>19. ASSUME NEW a \in Ids, AgentStuck(a) \/ RecordEvicted(a) PROVE Known'
  <2>1. /\ UNCHANGED <<phase, runs, pc, awaited, todo>> /\ lost' \subseteq lost \cup {a}
        /\ agents[a].status = "running" \/ RecordEvicted(a)
    BY <1>19 DEF AgentStuck, RecordEvicted, stateJson, process
  <2>2. /\ Ids' = Ids
        /\ \A b \in Ids : /\ agents'[b].kind = agents[b].kind /\ agents'[b].item = agents[b].item
                          /\ b # a => agents'[b] = agents[b]
        /\ ~Running(a)' /\ (agents[a].status = "done" => agents'[a].status = "done")
    BY <1>19, <2>1, RecordChanges
  <2>3. NextItem' = NextItem
    BY <2>1, NextItemStays
  <2>4. pc \in {"started", "wait", "drop", "tick", "write"} => awaited \in Ids
    BY DEF InHand
  <2> QED
    BY <1>0, <2>1, <2>2, <2>3, <2>4 DEF Known
<1> QED
  BY <1>1, <1>3, <1>4, <1>5, <1>6, <1>7, <1>8, <1>10, <1>11, <1>12, <1>13, <1>14, <1>15,
     <1>16, <1>17, <1>18, <1>19 DEF Next, Work, Agents

\* Attended is kept: who leaves a wait leaves an agent that ended or is lost.
LEMMA AttendedInv ==
  TypeOK /\ InHand /\ Lives /\ Known /\ Attended /\ [Next]_vars => Attended'
<1> SUFFICES ASSUME TypeOK, InHand, Lives, Known, Attended, [Next]_vars PROVE Attended'
  OBVIOUS
<1>1. CASE UNCHANGED vars
  BY <1>1 DEF Attended, Alive, vars, stateJson, process, history, Ids
<1>2. CASE Exit
  <2>1. /\ UNCHANGED <<phase, agents>> /\ pc' = "off" /\ lost \subseteq lost' /\ Ids' = Ids
        /\ awaited \in Ids /\ Alive(awaited) /\ (\A r \in runs : r[2] # awaited) =>
              awaited \in lost'
    BY <1>2, ExitFrame DEF Ids
  <2>2. ASSUME NEW a \in Ids, agents[a].kind # "IMPLEMENT", Alive(a), a \notin lost'
        PROVE  FALSE
    <3>1. a = awaited /\ \A r \in runs : r[2] # a
      BY <2>1, <2>2 DEF Attended, Known
    <3> QED
      BY <2>1, <2>2, <3>1
  <2> QED
    BY <2>1, <2>2 DEF Attended, Alive
<1>3. ASSUME UNCHANGED agents, lost' = lost, pc # "wait" PROVE Attended'
  BY <1>3 DEF Attended, Alive, Ids
<1>4. CASE Start \/ Investigate \/ ReadItems \/ Reattach \/ SaveRun
  BY <1>2, <1>3, <1>4 DEF Start, Investigate, ReadItems, Reattach, SaveRun, history
<1>5. CASE Crash \/ Finish
  BY <1>2, <1>5 DEF Crash, Finish
<1>6. CASE StartPlanner \/ StartImplementer \/ StartReviewer
  <2> DEFINE new == Len(agents) + 1
  <2>1. /\ Ids' = Ids \cup {new} /\ new \notin Ids /\ awaited' = new
        /\ UNCHANGED <<phase, lost>> /\ pc' = IF phase = "IMPLEMENT" THEN "started" ELSE "wait"
        /\ \A a \in Ids : agents'[a] = agents[a]
        /\ agents'[new].kind = phase
    BY <1>6, AgentStarts
  <2>2. pc # "wait"
    BY <1>6 DEF StartPlanner, StartImplementer, StartReviewer
  <2> HIDE DEF new
  <2> QED
    BY <2>1, <2>2 DEF Attended, Alive
<1>7. ASSUME phase # "IMPLEMENT", WaitReturns, UNCHANGED agents, lost' = lost
      PROVE  Attended'
  <2>1. ASSUME NEW a \in Ids, agents[a].kind # "IMPLEMENT", Alive(a), a \notin lost
        PROVE  FALSE
    BY <1>7, <2>1 DEF Attended, Lives, WaitReturns
  <2> QED
    BY <1>7, <2>1 DEF Attended, Alive, Ids
<1>8. CASE PlannerReturns \/ ReviewerReturns
  BY <1>2, <1>7, <1>8 DEF PlannerReturns, ReviewerReturns, history
<1>9. CASE ImplementerReturns
  <2>1. CASE Exit
    BY <1>2, <2>1
  <2>2. CASE ~Exit
    <3>1. UNCHANGED agents /\ lost' = lost /\ phase = "IMPLEMENT" /\ pc = "wait"
      BY <1>9, <2>2 DEF ImplementerReturns, WaitReturns, history
    <3>2. \A a \in Ids : agents[a].kind # "IMPLEMENT" /\ Alive(a) => a \in lost
      BY <3>1 DEF Attended, Known
    <3> QED
      BY <3>1, <3>2 DEF Attended, Alive, Ids
  <2> QED
    BY <2>1, <2>2
<1>10. CASE DropRun \/ ReadPlan \/ Tick \/ ItemsDone
  BY <1>3, <1>10 DEF DropRun, ReadPlan, Tick, ItemsDone, history
<1>11. CASE RemoveVerdict \/ TestGate \/ Judge
  BY <1>2, <1>3, <1>11 DEF RemoveVerdict, TestGate, Judge, history
<1>12. ASSUME NEW a \in Ids, WritePlan(a) \/ WriteVerdict(a) PROVE Attended'
  <2>1. UNCHANGED <<phase, pc, awaited, lost>>
    BY <1>12 DEF WritePlan, WriteVerdict, stateJson, process
  <2> QED
    BY <1>12, <2>1, AgentWrites DEF Attended, Alive
<1>13. ASSUME NEW a \in Ids, AgentEnds(a) \/ AgentStuck(a) \/ RecordEvicted(a)
       PROVE  Attended'
  <2>1. UNCHANGED <<phase, pc, awaited>> /\ lost \subseteq lost'
    BY <1>13 DEF AgentEnds, AgentStuck, RecordEvicted, stateJson, process, history
  <2>2. /\ Ids' = Ids /\ \A b \in Ids : b # a => agents'[b] = agents[b]
        /\ agents'[a].kind = agents[a].kind
        /\ agents'[a].alive = FALSE \/ agents'[a].alive = agents[a].alive
    BY <1>13, AgentEnded, RecordChanges
  <2> QED
    BY <2>1, <2>2 DEF Attended, Alive
<1> QED
  BY <1>1, <1>4, <1>5, <1>6, <1>8, <1>9, <1>10, <1>11, <1>12, <1>13 DEF Next, Work, Agents

\* Mode "single" has implementers only, and one item.
Single ==
    mode = "single" => /\ phase # "PLAN" /\ todo \subseteq {1}
                       /\ \A a \in Ids : agents[a].kind = "IMPLEMENT" /\ agents[a].item = 1

\* Mode "single" never leads to another kind of agent.
LEMMA SingleInv == TypeOK /\ InHand /\ Single /\ [Next]_vars => Single'
<1> SUFFICES ASSUME TypeOK, InHand, Single, [Next]_vars, mode' = "single" PROVE Single'
  BY DEF Single
<1>1. CASE UNCHANGED vars
  BY <1>1 DEF Single, vars, stateJson, process, Ids
<1>2. CASE Bookkeeping
  <2>1. mode' = mode /\ phase' # "PLAN" /\ todo' \subseteq {1}
    <3>1. CASE Exit
      BY <3>1, ExitFrame DEF Single
    <3>2. CASE Start \/ Investigate
      BY <3>2 DEF Single, Start, Investigate, Advance, Goto, stateJson
    <3>3. CASE ReadItems \/ Reattach \/ SaveRun \/ ItemsDone
      BY <3>1, <3>3 DEF Single, ReadItems, Reattach, SaveRun, ItemsDone, Advance, Goto, stateJson
    <3>4. CASE PlannerReturns \/ ImplementerReturns \/ ReviewerReturns
      BY <3>1, <3>4 DEF Single, PlannerReturns, ImplementerReturns, ReviewerReturns, Advance,
                        Goto, stateJson
    <3>5. CASE DropRun \/ ReadPlan \/ Tick
      BY <3>5 DEF Single, DropRun, ReadPlan, Tick, stateJson
    <3>6. CASE RemoveVerdict \/ TestGate \/ Judge
      BY <3>1, <3>6 DEF Single, RemoveVerdict, TestGate, Judge, Goto, stateJson
    <3> QED
      BY <1>2, <3>1, <3>2, <3>3, <3>4, <3>5, <3>6 DEF Bookkeeping, Crash, Finish
  <2>2. agents' = agents /\ Ids' = Ids
    BY <1>2, BookkeepingFrame
  <2> QED
    BY <2>1, <2>2 DEF Single
<1>3. CASE StartPlanner \/ StartImplementer \/ StartReviewer
  <2> DEFINE new == Len(agents) + 1
  <2>1. /\ Ids' = Ids \cup {new} /\ UNCHANGED <<mode, phase, todo>>
        /\ \A a \in Ids : agents'[a] = agents[a]
        /\ agents'[new].kind = phase
        /\ phase = "IMPLEMENT" => agents'[new].item = NextItem /\ todo # {}
    BY <1>3, AgentStarts
  <2>2. phase = "IMPLEMENT"
    BY <1>3, <2>1 DEF StartPlanner, StartImplementer, StartReviewer, InHand, Single
  <2>3. NextItem = 1
    BY <2>1, <2>2, NextItemIsSmallest DEF Single, TypeOK
  <2> HIDE DEF new
  <2> QED
    BY <2>1, <2>2, <2>3 DEF Single
<1>4. ASSUME NEW a \in Ids, WritePlan(a) \/ WriteVerdict(a) PROVE Single'
  <2>1. UNCHANGED <<mode, phase, todo>>
    BY <1>4 DEF WritePlan, WriteVerdict, stateJson, process
  <2> QED
    BY <1>4, <2>1, AgentWrites DEF Single
<1>5. ASSUME NEW a \in Ids, AgentEnds(a) \/ AgentStuck(a) \/ RecordEvicted(a) PROVE Single'
  <2>1. UNCHANGED <<mode, phase, todo>>
    BY <1>5 DEF AgentEnds, AgentStuck, RecordEvicted, stateJson, process
  <2>2. /\ Ids' = Ids /\ \A b \in Ids : b # a => agents'[b] = agents[b]
        /\ agents'[a].kind = agents[a].kind /\ agents'[a].item = agents[a].item
    BY <1>5, AgentEnded, RecordChanges
  <2> QED
    BY <2>1, <2>2 DEF Single
<1> QED
  BY <1>1, <1>2, <1>3, <1>4, <1>5, Steps

-----------------------------------------------------------------------------
\* The rounds.

\* The rounds before this one were judged and failed, this one too at FAILED.
RoundsFailed ==
    failed = IF phase = "FAILED" THEN 1 .. MaxRounds ELSE 1 .. (round - 1)

\* Only Judge fails a round, and it fails this one.
LEMMA RoundsFailedInv == TypeOK /\ InHand /\ RoundsFailed /\ [Next]_vars => RoundsFailed'
<1> SUFFICES ASSUME TypeOK, InHand, RoundsFailed, [Next]_vars PROVE RoundsFailed'
  OBVIOUS
<1> USE DEF RoundsFailed
<1>1. CASE UNCHANGED vars
  BY <1>1 DEF vars, stateJson, history
<1>2. CASE Exit
  BY <1>2, ExitFrame
<1>3. CASE Start \/ Investigate
  BY <1>3 DEF Start, Investigate, Advance, stateJson, history
<1>4. CASE ReadItems \/ Reattach \/ SaveRun \/ ItemsDone
  BY <1>2, <1>4 DEF ReadItems, Reattach, SaveRun, ItemsDone, InHand, Advance, stateJson, history
<1>5. CASE PlannerReturns \/ ImplementerReturns \/ ReviewerReturns
  BY <1>2, <1>5 DEF PlannerReturns, ImplementerReturns, ReviewerReturns, Advance, stateJson,
                    history
<1>6. CASE DropRun \/ ReadPlan \/ Tick
  BY <1>6 DEF DropRun, ReadPlan, Tick, stateJson, history
<1>7. CASE RemoveVerdict \/ TestGate
  BY <1>2, <1>7 DEF RemoveVerdict, TestGate, stateJson, history
<1>8. CASE Judge
  <2>1. round \in 1 .. MaxRounds /\ MaxRounds \in Nat
    BY GoalAssumption DEF TypeOK
  <2>2. phase = "CHECK" /\ failed = 1 .. (round - 1)
    BY <1>8 DEF Judge, InHand
  <2>3. CASE Passes
    <3>1. phase' = "DONE" /\ UNCHANGED <<round, failed>>
      BY <1>8, <2>3 DEF Judge
    <3> QED
      BY <2>2, <3>1
  <2>4. CASE ~Passes
    <3>1. failed' = failed \cup {round}
      BY <1>8, <2>4 DEF Judge
    <3>2. CASE Exhausted
      <4>1. phase' = "FAILED" /\ round = MaxRounds
        BY <1>8, <2>1, <2>4, <3>2 DEF Judge, Exhausted
      <4> QED
        BY <2>1, <2>2, <3>1, <4>1
    <3>3. CASE ~Exhausted
      <4>1. phase' # "FAILED" /\ round' = round + 1
        BY <1>8, <2>4, <3>3 DEF Judge
      <4>2. (1 .. (round - 1)) \cup {round} = 1 .. ((round + 1) - 1)
        BY <2>1
      <4> QED
        BY <2>2, <3>1, <4>1, <4>2
    <3> QED
      BY <3>2, <3>3
  <2> QED
    BY <2>3, <2>4
<1>9. CASE StartPlanner \/ StartImplementer \/ StartReviewer
  BY <1>9 DEF StartPlanner, StartImplementer, StartReviewer, stateJson, history
<1>10. CASE Agents
  BY <1>10 DEF Agents, WritePlan, WriteVerdict, AgentEnds, AgentStuck, RecordEvicted,
       stateJson, history
<1> QED
  BY <1>1, <1>2, <1>3, <1>4, <1>5, <1>6, <1>7, <1>8, <1>9, <1>10 DEF Next, Work, Crash, Finish

-----------------------------------------------------------------------------
\* One implementer at a time.

\* The implementers alive and not lost.
Attached == Implementers \ lost

\* An implementer alive is the one that the process has started, waits for or
\* will find in "runs" and wait for again, and its item is the next one.
Due(a) ==
    /\ phase = "IMPLEMENT" /\ pc \in {"off", "top", "items", "started", "wait"}
    /\ pc \in {"started", "wait"} => a = awaited
    /\ pc # "started" => <<agents[a].item, a>> \in runs
    /\ pc = "items" => todo # {}
    /\ agents[a].round = round
    /\ mode = "two" => /\ plan # NoPlan /\ agents[a].item \in Pending(plan)
                       /\ \A j \in Pending(plan) : agents[a].item <= j

\* What is left to do is what is not ticked, and nobody else writes the plan.
PlanIsCurrent ==
    /\ mode = "two" /\ phase = "IMPLEMENT" /\ pc \notin {"off", "top"} => todo = Pending(plan)
    /\ pc = "write" => draft = plan

InTurn ==
    ~LostA("PLAN") =>
       /\ \A a, b \in Attached : a = b
       /\ \A a \in Attached : Due(a)
       /\ PlanIsCurrent

\* A lost planner stays lost.
LEMMA LostStays ==
  ASSUME TypeOK, InHand, [Next]_vars, NEW kind, LostA(kind)
  PROVE  LostA(kind)'
<1>1. PICK a \in lost : agents[a].kind = kind
  BY DEF LostA
<1>2. a \in Ids /\ a \in lost'
  BY AgentsStay DEF TypeOK
<1>3. agents'[a].kind = kind
  BY <1>1, <1>2, AgentsStay
<1> QED
  BY <1>2, <1>3 DEF LostA

\* Only StartImplementer makes one more.
LEMMA AttachedShrinks ==
  ASSUME TypeOK, InHand, [Next]_vars
  PROVE  \A a \in Attached' : a \in Attached \/ (StartImplementer /\ a = Len(agents) + 1)
<1> SUFFICES ASSUME NEW a \in Attached',
                    ~(StartImplementer /\ a = Len(agents) + 1)
             PROVE  a \in Attached
  OBVIOUS
<1>1. a \in Ids' /\ agents'[a].kind = "IMPLEMENT" /\ agents'[a].alive /\ a \notin lost'
  BY DEF Attached, Implementers, Alive
<1>2. a \in Ids
  <2>1. CASE StartPlanner \/ StartImplementer \/ StartReviewer
    <3>1. /\ Ids' = Ids \cup {Len(agents) + 1} /\ agents'[Len(agents) + 1].kind = phase
      BY <2>1, AgentStarts
    <3>2. a = Len(agents) + 1 => StartImplementer
      BY <1>1, <2>1, <3>1 DEF StartPlanner, StartReviewer, InHand
    <3> QED
      BY <1>1, <3>1, <3>2
  <2>2. CASE ~(StartPlanner \/ StartImplementer \/ StartReviewer)
    BY <1>1, <2>2, AgentsStay
  <2> QED
    BY <2>1, <2>2
<1>3. agents[a].kind = "IMPLEMENT" /\ a \notin lost
  BY <1>1, <1>2, AgentsStay
<1>4. agents[a].alive
  BY <1>1, <1>2, AgentsStay
<1> QED
  BY <1>2, <1>3, <1>4 DEF Attached, Implementers, Alive

\* An attached implementer runs.
LEMMA AttachedRuns ==
  ASSUME Lives, NEW a \in Attached
  PROVE  a \in Ids /\ Running(a) /\ Alive(a) /\ a \notin lost /\ agents[a].kind = "IMPLEMENT"
  BY DEF Lives, Attached, Implementers

\* A plan is only written while its planner is waited for.
LEMMA WriterIsAwaited ==
  ASSUME TypeOK, Attended, ~LostA("PLAN"), NEW a \in Ids, WritePlan(a)
  PROVE  phase = "PLAN" /\ pc = "wait"
<1>1. agents[a].kind = "PLAN" /\ Alive(a)
  BY DEF WritePlan
<1>2. a \notin lost
  BY <1>1 DEF LostA
<1> QED
  BY <1>1, <1>2 DEF Attended

\* PlanIsCurrent is kept as long as no planner is lost.
LEMMA PlanIsCurrentInv ==
  ASSUME TypeOK, InHand, Attended, ~LostA("PLAN"), PlanIsCurrent, [Next]_vars
  PROVE  PlanIsCurrent'
<1> USE DEF PlanIsCurrent
<1>1. CASE UNCHANGED vars
  BY <1>1 DEF vars, stateJson, files, process, Pending
<1>2. CASE Exit
  BY <1>2, ExitFrame
<1>3. CASE Start \/ Investigate \/ PlannerReturns
  BY <1>2, <1>3 DEF Start, Investigate, PlannerReturns, Advance, Goto
<1>4. CASE Crash \/ Finish
  BY <1>2, <1>4 DEF Crash, Finish
<1>5. CASE StartPlanner \/ StartImplementer \/ StartReviewer
  <2>1. /\ UNCHANGED <<mode, phase, plan, todo, draft>> /\ pc' \in {"started", "wait"}
    BY <1>5, AgentStarts
  <2>2. phase = "IMPLEMENT" => pc = "items"
    BY <1>5 DEF StartPlanner, StartImplementer, StartReviewer, InHand
  <2> QED
    BY <2>1, <2>2 DEF Pending
<1>6. CASE ReadItems
  BY <1>2, <1>6 DEF ReadItems, stateJson, files, Pending
<1>7. CASE Reattach \/ SaveRun \/ ImplementerReturns
  <2>1. CASE Exit
    BY <1>2, <2>1
  <2>2. CASE ~Exit
    <3>1. /\ UNCHANGED <<mode, phase, plan, todo, draft>> /\ pc \notin {"off", "top"}
          /\ pc' # "write"
      BY <1>7, <2>2 DEF Reattach, SaveRun, ImplementerReturns, WaitReturns, Goto, stateJson, files
    <3> QED
      BY <3>1 DEF Pending
  <2> QED
    BY <2>1, <2>2
<1>8. CASE DropRun
  <2>1. UNCHANGED <<mode, phase, plan>> /\ pc' # "write" /\ pc = "drop"
    BY <1>8 DEF DropRun, files
  <2>2. mode = "two" => todo' = todo
    BY <1>8 DEF DropRun
  <2>3. Pending(plan)' = Pending(plan)
    BY <2>1 DEF Pending
  <2> QED
    BY <2>1, <2>2, <2>3
<1>9. CASE ReadPlan
  BY <1>9 DEF ReadPlan, stateJson, files, Pending
<1>10. CASE Tick
  <2>1. /\ UNCHANGED <<mode, phase>> /\ todo' = todo \ {NextItem} /\ pc' = "items"
        /\ draft = plan /\ todo = Pending(plan)
    BY <1>10 DEF Tick, stateJson, InHand
  <2>2. /\ DOMAIN plan' = DOMAIN plan
        /\ \A i \in DOMAIN plan : plan'[i] <=> plan[i] \/ i = NextItem
    BY <1>10, <2>1, TickedPlan
  <2>3. Pending(plan') = Pending(plan) \ {NextItem}
    BY <2>2 DEF Pending
  <2>4. Pending(plan)' = Pending(plan')
    BY DEF Pending
  <2> QED
    BY <2>1, <2>3, <2>4
<1>11. CASE ItemsDone \/ Judge
  BY <1>11 DEF ItemsDone, Judge, Advance, Goto
<1>12. CASE RemoveVerdict \/ TestGate \/ ReviewerReturns
  <2>1. CASE Exit
    BY <1>2, <2>1
  <2>2. CASE ~Exit
    BY <1>12, <2>2 DEF RemoveVerdict, TestGate, ReviewerReturns, InHand, Goto, stateJson
  <2> QED
    BY <2>1, <2>2
<1>13. ASSUME NEW a \in Ids, WritePlan(a) PROVE PlanIsCurrent'
  <2>1. phase = "PLAN" /\ pc = "wait" /\ UNCHANGED <<phase, pc>>
    BY <1>13, WriterIsAwaited DEF WritePlan, stateJson, process
  <2> QED
    BY <2>1
<1>14. ASSUME NEW a \in Ids, WriteVerdict(a) \/ AgentEnds(a) \/ AgentStuck(a) \/ RecordEvicted(a)
       PROVE  PlanIsCurrent'
  <2>1. UNCHANGED <<mode, phase, plan, pc, todo, draft>>
    BY <1>14 DEF WriteVerdict, AgentEnds, AgentStuck, RecordEvicted, stateJson, files, process
  <2> QED
    BY <2>1 DEF Pending
<1> QED
  BY <1>1, <1>3, <1>4, <1>5, <1>6, <1>7, <1>8, <1>9, <1>10, <1>11, <1>12, <1>13, <1>14
     DEF Next, Work, Agents

\* The item of the implementer in turn is the next one.
LEMMA NextItemIsCurrent ==
  ASSUME TypeOK, Single, PlanIsCurrent, NEW a \in Ids, Due(a), pc = "items"
  PROVE  agents[a].item = NextItem
<1>1. todo # {} /\ phase = "IMPLEMENT"
  BY DEF Due
<1>2. NextItem \in todo /\ NextItem \in Nat /\ \A j \in todo : NextItem <= j
  BY <1>1, NextItemIsSmallest, GoalAssumption DEF TypeOK
<1>3. CASE mode = "single"
  BY <1>2, <1>3 DEF Single
<1>4. CASE mode = "two"
  <2>1. todo = Pending(plan)
    BY <1>1, <1>4 DEF PlanIsCurrent
  <2>2. agents[a].item \in todo /\ \A j \in todo : agents[a].item <= j
    BY <1>4, <2>1 DEF Due
  <2>3. agents[a].item \in Nat
    <3>1. todo \subseteq 1 .. MaxItems
      BY DEF TypeOK
    <3>2. agents[a].item \in 1 .. MaxItems
      BY <2>2, <3>1
    <3>3. 1 .. MaxItems \subseteq Nat
      BY GoalAssumption
    <3> QED
      BY <3>2, <3>3
  <2>4. NextItem <= agents[a].item /\ agents[a].item <= NextItem
    BY <1>2, <2>2
  <2> QED
    BY <1>2, <2>3, <2>4
<1> QED
  BY <1>3, <1>4 DEF TypeOK

\* Who is in turn stays in turn as long as it is attached.
LEMMA DueStays ==
  ASSUME TypeOK, InHand, Lives, Known, Attended, Single, ~LostA("PLAN"), PlanIsCurrent,
         \A b, c \in Attached : b = c, [Next]_vars,
         NEW a \in Attached, a \in Attached', Due(a)
  PROVE  Due(a)'
<1>1. /\ a \in Ids /\ Running(a) /\ Alive(a) /\ a \notin lost /\ agents[a].kind = "IMPLEMENT"
      /\ a \notin lost'
  BY AttachedRuns DEF Attached
<1>2. /\ phase = "IMPLEMENT" /\ pc \in {"off", "top", "items", "started", "wait"}
      /\ pc \in {"started", "wait"} => a = awaited
      /\ pc # "started" => <<agents[a].item, a>> \in runs
      /\ pc = "items" => todo # {}
      /\ agents[a].round = round
      /\ mode = "two" => /\ plan # NoPlan /\ agents[a].item \in Pending(plan)
                         /\ \A j \in Pending(plan) : agents[a].item <= j
  BY DEF Due
<1>3. agents'[a].item = agents[a].item /\ agents'[a].round = agents[a].round
  BY <1>1, AgentsStay
<1>4. ASSUME UNCHANGED <<mode, phase, round, plan>>,
             pc' \in {"off", "top", "items", "started", "wait"},
             pc' \in {"started", "wait"} => a = awaited',
             pc' # "started" => <<agents[a].item, a>> \in runs',
             pc' = "items" => todo' # {}
      PROVE  Due(a)'
  BY <1>2, <1>3, <1>4 DEF Due, Pending
<1>5. CASE UNCHANGED <<stateJson, process, plan>>
  BY <1>2, <1>4, <1>5 DEF stateJson, process
<1>6. CASE Exit
  <2>1. /\ UNCHANGED <<mode, phase, round, runs, plan>> /\ pc' = "off"
        /\ awaited \in Ids /\ Alive(awaited) /\ (\A r \in runs : r[2] # awaited) =>
              awaited \in lost'
    BY <1>6, ExitFrame
  <2>2. <<agents[a].item, a>> \in runs
    <3>1. CASE pc = "started"
      <4>1. a = awaited
        BY <1>2, <3>1
      <4>2. PICK r \in runs : r[2] = a
        BY <1>1, <2>1, <4>1
      <4>3. r[1] = agents[a].item /\ r = <<r[1], r[2]>>
        BY <4>2 DEF Known, TypeOK
      <4> QED
        BY <4>2, <4>3
    <3>2. CASE pc # "started"
      BY <1>2, <3>2
    <3> QED
      BY <3>1, <3>2
  <2> QED
    BY <1>4, <2>1, <2>2
<1>7. CASE Start
  BY <1>2, <1>4, <1>7 DEF Start, Goto, stateJson, files
<1>8. CASE ReadItems
  <2>1. CASE Exit
    BY <1>6, <2>1
  <2>2. CASE ~Exit
    <3>1. /\ UNCHANGED <<mode, phase, round, runs, plan>> /\ pc = "top" /\ pc' = "items"
          /\ todo' = IF mode = "single" THEN {1} ELSE Pending(plan)
      BY <1>8, <2>2 DEF ReadItems, stateJson, files
    <3>2. todo' # {}
      BY <1>2, <3>1 DEF TypeOK
    <3> QED
      BY <1>2, <1>4, <3>1, <3>2
  <2> QED
    BY <2>1, <2>2
<1>9. CASE Reattach
  <2>1. /\ UNCHANGED <<mode, phase, round, runs, plan>> /\ pc = "items" /\ pc' = "wait"
        /\ \E r \in runs : r[2] = awaited' /\ Running(r[2])
    BY <1>9 DEF Reattach, InFlight, stateJson, files
  <2>2. awaited' \in Attached
    BY <2>1 DEF Known, Lives, Attached, Implementers, TypeOK
  <2>3. awaited' = a
    BY <2>2
  <2> QED
    BY <1>2, <1>4, <2>1, <2>3
<1>10. CASE SaveRun
  <2>1. /\ UNCHANGED <<mode, phase, round, plan, awaited>> /\ pc = "started" /\ pc' = "wait"
        /\ runs' = runs \cup {<<NextItem, awaited>>}
    BY <1>10 DEF SaveRun, Goto, files
  <2>2. a = awaited /\ agents[a].item = NextItem
    BY <1>2, <2>1 DEF Known
  <2> QED
    BY <1>4, <2>1, <2>2
<1>11. CASE ImplementerReturns
  BY <1>1, <1>2, <1>11 DEF ImplementerReturns, WaitReturns
<1>12. CASE ItemsDone
  BY <1>2, <1>12 DEF ItemsDone
<1>13. CASE Crash
  BY <1>6, <1>13 DEF Crash
<1>14. CASE StartImplementer
  <2>1. pc = "items" /\ todo # {} /\ InFlight(NextItem) = {}
    BY <1>14 DEF StartImplementer
  <2>2. agents[a].item = NextItem
    BY <1>1, <1>2, <2>1, NextItemIsCurrent
  <2>3. a \in InFlight(NextItem)
    BY <1>1, <1>2, <2>1, <2>2 DEF InFlight
  <2> QED
    BY <2>1, <2>3
<1>15. CASE \/ Finish \/ Investigate \/ StartPlanner \/ PlannerReturns
            \/ DropRun \/ ReadPlan \/ Tick
            \/ RemoveVerdict \/ TestGate \/ StartReviewer \/ ReviewerReturns \/ Judge
  BY <1>2, <1>15 DEF Finish, Terminal, Investigate, StartPlanner, PlannerReturns, DropRun,
     ReadPlan, Tick, RemoveVerdict, TestGate, StartReviewer, ReviewerReturns, Judge, InHand
<1>16. ASSUME NEW b \in Ids, WritePlan(b) PROVE Due(a)'
  BY <1>2, <1>16, WriterIsAwaited
<1>17. ASSUME NEW b \in Ids, WriteVerdict(b) \/ AgentEnds(b) \/ AgentStuck(b) \/ RecordEvicted(b)
       PROVE  Due(a)'
  BY <1>5, <1>17 DEF WriteVerdict, AgentEnds, AgentStuck, RecordEvicted, files
<1>18. CASE UNCHANGED vars
  BY <1>5, <1>18 DEF vars, files
<1> QED
  BY <1>7, <1>8, <1>9, <1>10, <1>11, <1>12, <1>13, <1>14, <1>15, <1>16, <1>17, <1>18
     DEF Next, Work, Agents

\* InTurn is kept: a start finds nobody attached, and no other step adds one.
LEMMA InTurnInv ==
  TypeOK /\ InHand /\ Lives /\ Known /\ Attended /\ Single /\ InTurn /\ [Next]_vars => InTurn'
<1> SUFFICES ASSUME TypeOK, InHand, Lives, Known, Attended, Single, InTurn, [Next]_vars,
                    ~LostA("PLAN")'
             PROVE  /\ (\A a, b \in Attached : a = b)'
                    /\ (\A a \in Attached : Due(a))'
                    /\ PlanIsCurrent'
  BY DEF InTurn
<1>1. ~LostA("PLAN")
  BY LostStays
<1>2. PlanIsCurrent /\ (\A a, b \in Attached : a = b) /\ \A a \in Attached : Due(a)
  BY <1>1 DEF InTurn
<1>3. PlanIsCurrent'
  BY <1>1, <1>2, PlanIsCurrentInv
<1>4. CASE StartImplementer
  <2>0. PICK new : new = Len(agents) + 1
    OBVIOUS
  <2>1. /\ Ids' = Ids \cup {new} /\ new \notin Ids /\ awaited' = new
        /\ UNCHANGED <<mode, phase, round, runs, plan, todo>> /\ pc' = "started"
        /\ agents'[new].round = round /\ agents'[new].item = NextItem
    BY <1>4, <2>0, AgentStarts DEF StartImplementer, InHand
  <2>2. pc = "items" /\ phase = "IMPLEMENT" /\ todo # {} /\ InFlight(NextItem) = {}
    BY <1>4 DEF StartImplementer, InHand
  <2>3. Attached = {}
    <3> SUFFICES ASSUME NEW a \in Attached PROVE FALSE
      OBVIOUS
    <3>1. a \in Ids /\ Running(a) /\ Due(a)
      BY <1>2, AttachedRuns
    <3>2. agents[a].item = NextItem /\ <<agents[a].item, a>> \in runs
      BY <1>2, <2>2, <3>1, NextItemIsCurrent DEF Due
    <3>3. a \in InFlight(NextItem)
      BY <3>1, <3>2 DEF InFlight
    <3> QED
      BY <2>2, <3>3
  <2>4. \A a \in Attached' : a = new
    BY <2>0, <2>3, AttachedShrinks
  <2>5. mode = "two" => /\ plan # NoPlan /\ NextItem \in Pending(plan)
                        /\ \A j \in Pending(plan) : NextItem <= j
    BY <1>2, <2>2, NextItemIsSmallest DEF PlanIsCurrent, TypeOK, InHand
  <2>6. Pending(plan)' = Pending(plan)
    BY <2>1 DEF Pending
  <2>7. Due(new)'
    BY <2>1, <2>2, <2>5, <2>6 DEF Due
  <2> QED
    BY <1>3, <2>4, <2>7
<1>5. CASE ~StartImplementer
  <2>1. \A a \in Attached' : a \in Attached
    BY <1>5, AttachedShrinks
  <2>2. ASSUME NEW a \in Attached' PROVE Due(a)'
    BY <1>1, <1>2, <2>1, <2>2, DueStays
  <2> QED
    BY <1>2, <1>3, <2>1, <2>2
<1> QED
  BY <1>4, <1>5

-----------------------------------------------------------------------------
\* Ticked boxes and the test gate.

\* An implementer has succeeded on item i.
Earned(i) == \E a \in Ids : Succeeded(a) /\ agents[a].item = i

AllEarned(boxes) == \A i \in DOMAIN boxes : boxes[i] => Earned(i)

\* No tick is unearned, wherever a plan is kept.
TicksEarned ==
    /\ plan # NoPlan => AllEarned(plan)
    /\ draft # NoPlan => AllEarned(draft)
    /\ \A a \in Ids : AllEarned(agents[a].base)

\* In mode "single" the implementer in hand is of this round, and the test gate
\* is reached only after one of this round has succeeded.
GateEarned ==
    mode = "single" =>
       /\ phase = "IMPLEMENT" /\ pc \in {"started", "wait", "drop"} =>
             agents[awaited].round = round
       /\ phase = "CHECK" \/ (phase = "IMPLEMENT" /\ pc = "items" /\ todo = {}) =>
             \E a \in Ids : Succeeded(a) /\ agents[a].round = round

\* Success is final.
LEMMA SuccessStays ==
  ASSUME TypeOK, InHand, Lives, [Next]_vars, NEW a \in Ids, Succeeded(a)
  PROVE  /\ a \in Ids' /\ Succeeded(a)'
         /\ agents'[a].item = agents[a].item /\ agents'[a].round = agents[a].round
<1>1. agents[a].kind = "IMPLEMENT" /\ agents[a].status = "done" /\ ~agents[a].alive
  BY DEF Succeeded, Lives, Alive
<1>2. agents'[a].kind = "IMPLEMENT" /\ agents'[a].status = "done"
  BY <1>1, AgentsStay
<1> QED
  BY <1>2, AgentsStay DEF Succeeded

\* What is earned stays earned.
LEMMA EarnedStays ==
  ASSUME TypeOK, InHand, Lives, [Next]_vars, NEW i, Earned(i)
  PROVE  Earned(i)'
<1>1. PICK a \in Ids : Succeeded(a) /\ agents[a].item = i
  BY DEF Earned
<1>2. a \in Ids' /\ Succeeded(a)' /\ agents'[a].item = i
  BY <1>1, SuccessStays
<1> QED
  BY <1>2 DEF Earned

\* So does a whole plan.
LEMMA AllEarnedStays ==
  ASSUME TypeOK, InHand, Lives, [Next]_vars, NEW boxes, AllEarned(boxes)
  PROVE  \A i \in DOMAIN boxes : boxes[i] => Earned(i)'
  BY EarnedStays DEF AllEarned

\* A tick is copied from a plan, or made for the run that has succeeded.
LEMMA TicksEarnedInv ==
  TypeOK /\ InHand /\ Lives /\ Known /\ TicksEarned /\ [Next]_vars => TicksEarned'
<1> SUFFICES ASSUME TypeOK, InHand, Lives, Known, TicksEarned, [Next]_vars PROVE TicksEarned'
  OBVIOUS
<1>1. ASSUME plan' = NoPlan \/ plan' = plan PROVE (plan # NoPlan => AllEarned(plan))'
  BY <1>1, AllEarnedStays DEF TicksEarned, AllEarned
<1>2. ASSUME draft' = NoPlan \/ draft' = draft \/ draft' = plan
      PROVE  (draft # NoPlan => AllEarned(draft))'
  BY <1>2, AllEarnedStays DEF TicksEarned, AllEarned
<1>3. ASSUME NEW a \in Ids PROVE AllEarned(agents[a].base)'
  <2>1. agents'[a].base = agents[a].base
    BY AgentsStay
  <2> QED
    BY <2>1, AllEarnedStays DEF TicksEarned, AllEarned
<1>4. ASSUME Ids' = Ids PROVE (\A a \in Ids : AllEarned(agents[a].base))'
  BY <1>3, <1>4
<1>5. ASSUME UNCHANGED plan, draft' = draft \/ draft' = NoPlan \/ draft' = plan, Ids' = Ids
      PROVE  TicksEarned'
  BY <1>1, <1>2, <1>4, <1>5 DEF TicksEarned
<1>6. CASE Tick
  <2>1. /\ DOMAIN plan' = DOMAIN draft
        /\ \A i \in DOMAIN draft : plan'[i] <=> draft[i] \/ i = NextItem
    BY <1>6, TickedPlan
  <2>2. draft # NoPlan /\ draft' = draft /\ pc = "write" /\ phase = "IMPLEMENT" /\ awaited \in Ids
    BY <1>6 DEF Tick, InHand
  <2>3. Earned(NextItem)
    BY <2>2 DEF Known, Succeeded, Earned
  <2>4. Ids' = Ids
    BY <1>6 DEF Tick, Ids
  <2>5. \A i \in DOMAIN plan' : plan'[i] => Earned(i)
    BY <2>1, <2>2, <2>3 DEF TicksEarned, AllEarned
  <2>6. AllEarned(plan)'
    BY <2>5, EarnedStays DEF AllEarned
  <2> QED
    BY <1>2, <1>4, <2>2, <2>4, <2>6 DEF TicksEarned
<1>7. ASSUME NEW a \in Ids, WritePlan(a) PROVE TicksEarned'
  <2>1. \A i \in DOMAIN plan' : plan'[i] => i \in DOMAIN agents[a].base /\ agents[a].base[i]
    BY <1>7, WrittenPlan
  <2>2. \A i \in DOMAIN plan' : plan'[i] => Earned(i)
    BY <2>1 DEF TicksEarned, AllEarned
  <2>3. AllEarned(plan)'
    BY <2>2, EarnedStays DEF AllEarned
  <2>4. draft' = draft /\ Ids' = Ids
    BY <1>7, AgentWrites DEF WritePlan, process
  <2> QED
    BY <1>2, <1>4, <2>3, <2>4 DEF TicksEarned
<1>8. CASE StartPlanner \/ StartImplementer \/ StartReviewer
  <2>0. PICK new : new = Len(agents) + 1
    OBVIOUS
  <2>1. /\ Ids' = Ids \cup {new} /\ plan' = plan /\ draft' = draft
        /\ agents'[new].base = IF phase = "PLAN" /\ plan # NoPlan THEN plan ELSE <<>>
    BY <1>8, <2>0, AgentStarts
  <2>2. AllEarned(agents'[new].base)
    BY <2>1 DEF TicksEarned, AllEarned
  <2>3. \A i \in DOMAIN agents'[new].base : agents'[new].base[i] => Earned(i)'
    BY <2>2, EarnedStays DEF AllEarned
  <2>4. AllEarned(agents[new].base)'
    BY <2>3 DEF AllEarned
  <2>5. (\A a \in Ids : AllEarned(agents[a].base))'
    BY <1>3, <2>1, <2>4
  <2> QED
    BY <1>1, <1>2, <2>1, <2>5 DEF TicksEarned
<1>9. ASSUME Bookkeeping, ~Tick PROVE TicksEarned'
  <2>1. plan' = plan /\ (draft' = draft \/ draft' = NoPlan \/ draft' = plan)
    <3> USE DEF stateJson, files, process, Goto, Advance
    <3>1. CASE Exit
      BY <3>1, ExitFrame
    <3>2. CASE Start \/ Investigate \/ PlannerReturns \/ ReadItems
      BY <3>1, <3>2 DEF Start, Investigate, PlannerReturns, ReadItems
    <3>3. CASE Reattach \/ SaveRun \/ ImplementerReturns \/ DropRun
      BY <3>1, <3>3 DEF Reattach, SaveRun, ImplementerReturns, DropRun
    <3>4. CASE ReadPlan \/ ItemsDone \/ RemoveVerdict \/ TestGate
      BY <3>1, <3>4 DEF ReadPlan, ItemsDone, RemoveVerdict, TestGate
    <3>5. CASE ReviewerReturns \/ Judge
      BY <3>1, <3>5 DEF ReviewerReturns, Judge
    <3> QED
      BY <1>9, <3>1, <3>2, <3>3, <3>4, <3>5 DEF Bookkeeping, Crash, Finish
  <2> QED
    BY <1>5, <1>9, <2>1, BookkeepingFrame
<1>10. ASSUME NEW a \in Ids, WriteVerdict(a) \/ AgentEnds(a) \/ AgentStuck(a) \/ RecordEvicted(a)
       PROVE  TicksEarned'
  <2>1. plan' = plan /\ draft' = draft
    BY <1>10 DEF WriteVerdict, AgentEnds, AgentStuck, RecordEvicted, files, process
  <2>2. Ids' = Ids
    BY <1>10, AgentWrites, AgentEnded, RecordChanges
  <2> QED
    BY <1>5, <2>1, <2>2
<1>11. CASE UNCHANGED vars
  BY <1>5, <1>11 DEF vars, files, process, Ids
<1> QED
  BY <1>6, <1>7, <1>8, <1>9, <1>10, <1>11, Steps

\* GateEarned is kept: a run that is attached again is of this round.
LEMMA GateEarnedInv ==
  TypeOK /\ InHand /\ Lives /\ Known /\ Single /\ InTurn /\ GateEarned /\ [Next]_vars
     => GateEarned'
<1> SUFFICES ASSUME TypeOK, InHand, Lives, Known, Single, InTurn, GateEarned, [Next]_vars
             PROVE  GateEarned'
  OBVIOUS
<1>0. CASE mode' # "single"
  BY <1>0 DEF GateEarned
<1> SUFFICES ASSUME mode' = "single" PROVE GateEarned'
  BY <1>0
<1> DEFINE Gate == \E a \in Ids : Succeeded(a) /\ agents[a].round = round
<1>1. ASSUME Gate, round' = round PROVE Gate'
  <2>1. PICK a \in Ids : Succeeded(a) /\ agents[a].round = round
    BY <1>1
  <2>2. a \in Ids' /\ Succeeded(a)' /\ agents'[a].round = round'
    BY <1>1, <2>1, SuccessStays
  <2> QED
    BY <2>2
<1>2. mode = "single" => /\ phase = "IMPLEMENT" /\ pc \in {"started", "wait", "drop"} =>
                               agents[awaited].round = round
                         /\ phase = "CHECK" \/ (phase = "IMPLEMENT" /\ pc = "items" /\ todo = {})
                               => Gate
  BY DEF GateEarned
<1>3. ASSUME phase' = "IMPLEMENT" /\ pc' \in {"started", "wait", "drop"} =>
                agents'[awaited'].round = round',
             phase' = "CHECK" \/ (phase' = "IMPLEMENT" /\ pc' = "items" /\ todo' = {}) => Gate'
      PROVE  GateEarned'
  BY <1>3 DEF GateEarned
<1> HIDE DEF Gate
<1>4. CASE Exit
  <2>1. UNCHANGED <<mode, phase, round>> /\ pc' = "off"
    BY <1>4, ExitFrame
  <2> QED
    BY <1>1, <1>2, <1>3, <2>1
<1>5. CASE Start \/ Investigate
  <2>1. UNCHANGED <<mode, round>> /\ pc' = "top" /\ (phase' = phase \/ phase' # "CHECK")
    BY <1>5 DEF Start, Investigate, Advance, Goto, stateJson
  <2> QED
    BY <1>1, <1>2, <1>3, <2>1
<1>6. CASE StartPlanner \/ StartImplementer \/ StartReviewer
  <2>0. PICK new : new = Len(agents) + 1
    OBVIOUS
  <2>1. /\ UNCHANGED <<mode, phase, round>> /\ awaited' = new /\ agents'[new].round = round
        /\ pc' \in {"started", "wait"}
    BY <1>6, <2>0, AgentStarts
  <2> QED
    BY <1>1, <1>2, <1>3, <2>1
<1>7. CASE PlannerReturns
  <2>1. CASE Exit
    BY <1>4, <2>1
  <2>2. CASE ~Exit
    <3>1. UNCHANGED <<mode, round>> /\ pc' = "top" /\ phase' = "IMPLEMENT"
      BY <1>7, <2>2 DEF PlannerReturns, Advance, Goto
    <3> QED
      BY <1>3, <3>1
  <2> QED
    BY <2>1, <2>2
<1>8. CASE ReadItems
  <2>1. CASE Exit
    BY <1>4, <2>1
  <2>2. CASE ~Exit
    <3>1. UNCHANGED <<mode, phase, round>> /\ pc' = "items" /\ phase = "IMPLEMENT"
          /\ todo' = IF mode = "single" THEN {1} ELSE Pending(plan)
      BY <1>8, <2>2 DEF ReadItems, stateJson
    <3>2. todo' # {}
      BY <3>1
    <3> QED
      BY <1>3, <3>1, <3>2
  <2> QED
    BY <2>1, <2>2
<1>9. CASE Reattach
  <2>1. /\ UNCHANGED <<mode, phase, round, agents>> /\ pc' = "wait" /\ phase = "IMPLEMENT"
        /\ \E r \in runs : r[2] = awaited' /\ Running(r[2])
    BY <1>9 DEF Reattach, InFlight, InHand, stateJson
  <2>2. awaited' \in Attached
    BY <2>1 DEF Known, Lives, Attached, Implementers, TypeOK
  <2>3. ~LostA("PLAN")
    BY <2>1 DEF LostA, Single, TypeOK
  <2>4. agents[awaited'].round = round
    BY <2>2, <2>3 DEF InTurn, Due
  <2> QED
    BY <1>3, <2>1, <2>4
<1>10. CASE SaveRun
  <2>1. UNCHANGED <<mode, phase, round, agents, awaited>> /\ pc = "started" /\ pc' = "wait"
    BY <1>10 DEF SaveRun, Goto
  <2> QED
    BY <1>1, <1>2, <1>3, <2>1
<1>11. CASE ImplementerReturns \/ ReviewerReturns
  <2>1. CASE Exit
    BY <1>4, <2>1
  <2>2. CASE ~Exit
    <3>1. /\ UNCHANGED <<mode, phase, round, agents, awaited>> /\ pc = "wait"
          /\ pc' = IF phase = "IMPLEMENT" THEN "drop" ELSE "judge"
      BY <1>11, <2>2 DEF ImplementerReturns, ReviewerReturns, WaitReturns, Goto, stateJson
    <3> QED
      BY <1>1, <1>2, <1>3, <3>1
  <2> QED
    BY <2>1, <2>2
<1>12. CASE DropRun
  <2>1. /\ UNCHANGED <<mode, phase, round, agents>> /\ pc = "drop"
        /\ pc' \notin {"started", "wait", "drop"}
    BY <1>12 DEF DropRun
  <2>2. agents[awaited].round = round /\ awaited \in Ids /\ phase = "IMPLEMENT"
    BY <1>2, <2>1 DEF InHand
  <2>3. Succeeded(awaited)
    BY <2>1, <2>2 DEF Known, Succeeded
  <2>4. Gate
    BY <2>2, <2>3 DEF Gate
  <2> QED
    BY <1>1, <1>3, <2>1, <2>4
<1>13. CASE ReadPlan \/ Tick
  BY <1>13 DEF ReadPlan, Tick, InHand, stateJson
<1>14. CASE ItemsDone
  <2>1. UNCHANGED <<mode, round>> /\ pc = "items" /\ todo = {} /\ pc' = "top" /\ phase = "IMPLEMENT"
    BY <1>14 DEF ItemsDone, Advance, Goto, InHand
  <2> QED
    BY <1>1, <1>2, <1>3, <2>1
<1>15. CASE RemoveVerdict \/ TestGate
  <2>1. CASE Exit
    BY <1>4, <2>1
  <2>2. CASE ~Exit
    <3>1. UNCHANGED <<mode, phase, round>> /\ pc' \in {"test", "judge"}
      BY <1>15, <2>2 DEF RemoveVerdict, TestGate, Goto, stateJson
    <3> QED
      BY <1>1, <1>2, <1>3, <3>1
  <2> QED
    BY <2>1, <2>2
<1>16. CASE Judge
  <2>1. pc' = "top" /\ phase' # "CHECK"
    BY <1>16 DEF Judge, Goto
  <2> QED
    BY <1>3, <2>1
<1>17. ASSUME NEW a \in Ids, WritePlan(a) \/ WriteVerdict(a) \/ AgentEnds(a) \/ AgentStuck(a)
                             \/ RecordEvicted(a)
       PROVE  GateEarned'
  <2>1. UNCHANGED <<mode, phase, round, pc, awaited, todo>>
    BY <1>17 DEF WritePlan, WriteVerdict, AgentEnds, AgentStuck, RecordEvicted, stateJson,
       process
  <2>2. pc \in {"started", "wait", "drop"} => agents'[awaited].round = agents[awaited].round
    BY AgentsStay DEF InHand
  <2> QED
    BY <1>1, <1>2, <1>3, <2>1, <2>2
<1>18. CASE UNCHANGED vars
  BY <1>1, <1>2, <1>3, <1>18 DEF vars, stateJson, process
<1> QED
  BY <1>4, <1>5, <1>6, <1>7, <1>8, <1>9, <1>10, <1>11, <1>12, <1>13, <1>14, <1>15, <1>16,
     <1>17, <1>18 DEF Next, Work, Agents, Crash, Finish

-----------------------------------------------------------------------------
\* The review.

\* While the process reviews, verdict.md is the work of the reviewer it waits for.
Reviewed ==
    ~LostA("CHECK") /\ phase = "CHECK" /\ mode = "two" =>
       /\ pc = "test" => verdict = "none"
       /\ pc \in {"wait", "judge"} => verdict = "none" \/ author = awaited

\* Reviewed is kept: nobody else writes the verdict.
LEMMA ReviewedInv ==
  TypeOK /\ InHand /\ Attended /\ Reviewed /\ [Next]_vars => Reviewed'
<1> SUFFICES ASSUME TypeOK, InHand, Attended, Reviewed, [Next]_vars, ~LostA("CHECK")',
                    phase' = "CHECK", mode' = "two"
             PROVE  Reviewed'
  BY DEF Reviewed
<1>1. ~LostA("CHECK")
  BY LostStays
<1>2. CASE UNCHANGED <<mode, phase, pc, awaited, verdict, author>>
  BY <1>1, <1>2 DEF Reviewed
<1>3. CASE Exit
  BY <1>3, ExitFrame DEF Reviewed
<1>4. CASE pc' \in {"top", "started"}
  BY <1>4 DEF Reviewed
<1>5. CASE Start \/ Investigate \/ PlannerReturns \/ ItemsDone \/ Judge
  BY <1>3, <1>4, <1>5 DEF Start, Investigate, PlannerReturns, ItemsDone, Judge, Advance, Goto
<1>6. CASE ReadItems \/ Reattach \/ SaveRun \/ ImplementerReturns
  BY <1>3, <1>6 DEF ReadItems, Reattach, SaveRun, ImplementerReturns, InHand, stateJson
<1>7. CASE DropRun \/ ReadPlan \/ Tick
  BY <1>7 DEF DropRun, ReadPlan, Tick, InHand, stateJson
<1>8. CASE RemoveVerdict
  BY <1>3, <1>8 DEF RemoveVerdict, Reviewed, Goto
<1>9. CASE TestGate
  BY <1>9 DEF TestGate, stateJson
<1>10. CASE StartPlanner \/ StartImplementer \/ StartReviewer
  <2>1. UNCHANGED <<mode, phase, verdict>>
    BY <1>10, AgentStarts
  <2>2. verdict = "none"
    BY <1>1, <1>10, <2>1 DEF StartPlanner, StartImplementer, StartReviewer, InHand, Reviewed
  <2> QED
    BY <2>1, <2>2 DEF Reviewed
<1>11. CASE ReviewerReturns
  <2>1. CASE Exit
    BY <1>3, <2>1
  <2>2. CASE ~Exit
    <3>1. /\ UNCHANGED <<mode, phase, awaited, verdict, author>> /\ pc = "wait"
          /\ pc' = "judge"
      BY <1>11, <2>2 DEF ReviewerReturns, WaitReturns, Goto, stateJson, files, history
    <3> QED
      BY <1>1, <3>1 DEF Reviewed
  <2> QED
    BY <2>1, <2>2
<1>12. ASSUME NEW a \in Ids, WritePlan(a) \/ AgentEnds(a) \/ AgentStuck(a) \/ RecordEvicted(a)
       PROVE  Reviewed'
  <2>1. UNCHANGED <<mode, phase, pc, awaited, verdict, author>>
    BY <1>12 DEF WritePlan, AgentEnds, AgentStuck, RecordEvicted, stateJson, files, process,
       history
  <2> QED
    BY <1>2, <2>1
<1>13. ASSUME NEW a \in Ids, WriteVerdict(a) PROVE Reviewed'
  <2>1. agents[a].kind = "CHECK" /\ Alive(a) /\ author' = a /\ UNCHANGED <<pc, awaited>>
    BY <1>13 DEF WriteVerdict, process
  <2>2. a \notin lost
    BY <1>1, <2>1 DEF LostA
  <2>3. pc = "wait" /\ awaited = a
    BY <2>1, <2>2 DEF Attended
  <2> QED
    BY <2>1, <2>3 DEF Reviewed
<1>14. CASE UNCHANGED vars
  BY <1>2, <1>14 DEF vars, stateJson, files, process, history
<1> QED
  BY <1>3, <1>5, <1>6, <1>7, <1>8, <1>9, <1>10, <1>11, <1>12, <1>13, <1>14
     DEF Next, Work, Agents, Crash, Finish

-----------------------------------------------------------------------------
\* The theorems.

\* The inductive invariant: what each property rests on, in the order of need.
GoalInv ==
    /\ TypeOK /\ InHand /\ Lives /\ Known /\ Attended /\ Single
    /\ RoundsFailed /\ InTurn /\ TicksEarned /\ GateEarned /\ Reviewed

\* GoalInv is an invariant of the goal, for any number of agents, crashes and
\* restarts.
THEOREM GoalInvariant == Spec => []GoalInv
<1>1. Init => GoalInv
  <2> SUFFICES ASSUME Init PROVE GoalInv
    OBVIOUS
  <2> USE DEF Init
  <2>1. Ids = {} /\ agents \in Seq(AgentType) /\ Len(agents) = 0 /\ runs = {}
    BY DEF Ids
  <2>2. TypeOK
    <3>1. /\ mode \in {"single", "two"} /\ 1 \in 1 .. MaxRounds
          /\ 0 \in 0 .. MaxStarts /\ 0 \in 0 .. MaxFaults
      BY GoalAssumption
    <3>2. awaited \in 0 .. Len(agents) /\ author \in 0 .. Len(agents)
      BY <2>1
    <3> HIDE DEF Init
    <3>3. /\ phase = "INVESTIGATE" /\ round = 1 /\ plan = NoPlan /\ verdict = "none" /\ pc = "off"
          /\ todo = {} /\ draft = NoPlan /\ testOk = FALSE /\ starts = 0 /\ faults = 0
          /\ lost = {} /\ failed = {}
      BY DEF Init
    <3> QED
      BY <2>1, <3>1, <3>2, <3>3 DEF TypeOK
  <2>3. InHand /\ Lives /\ Known /\ Attended /\ Single
    BY <2>1 DEF InHand, Lives, Known, Attended, Single
  <2>4. RoundsFailed /\ InTurn /\ GateEarned /\ Reviewed
    BY <2>1 DEF RoundsFailed, InTurn, Attached, Implementers, PlanIsCurrent, GateEarned, Reviewed
  <2>5. TicksEarned
    BY <2>1 DEF TicksEarned
  <2> QED
    BY <2>2, <2>3, <2>4, <2>5 DEF GoalInv
<1>2. GoalInv /\ [Next]_vars => GoalInv'
  BY TypesInv, InHandInv, LivesInv, KnownInv, AttendedInv, SingleInv, RoundsFailedInv, InTurnInv,
     TicksEarnedInv, GateEarnedInv, ReviewedInv DEF GoalInv
<1> QED
  BY <1>1, <1>2, PTL DEF Spec

\* The types of the goal's state hold.
THEOREM GoalTypeOK == Spec => []TypeOK
<1>1. GoalInv => TypeOK
  BY DEF GoalInv
<1> QED
  BY <1>1, GoalInvariant, PTL

\* However often the process dies and comes back, no implementer is late and none
\* has company, save those that are lost.
THEOREM OneAtATime == Spec => []ImplementersInTurn
<1>1. GoalInv => ImplementersInTurn
  <2> SUFFICES ASSUME GoalInv PROVE ImplementersInTurn
    OBVIOUS
  <2>1. OneImplementer
    BY DEF GoalInv, InTurn, Attached, OneImplementer
  <2>2. NoLateImplementer
    BY DEF GoalInv, InTurn, Attached, Due, NoLateImplementer
  <2> QED
    BY <2>1, <2>2 DEF ImplementersInTurn
<1> QED
  BY <1>1, GoalInvariant, PTL

\* Every ticked box, and the test gate of mode "single", was earned by an
\* implementer that succeeded.
THEOREM Earning == Spec => []ChecksAreEarned
<1>1. GoalInv => ChecksAreEarned
  BY DEF GoalInv, TicksEarned, AllEarned, Earned, GateEarned, ChecksAreEarned
<1> QED
  BY <1>1, GoalInvariant, PTL

\* The steps that leave a phase.
LEMMA PhaseSteps ==
  ASSUME [Next]_vars, phase' # phase
  PROVE  Investigate \/ PlannerReturns \/ ItemsDone \/ Judge
<1> USE DEF stateJson
<1>1. ~Exit
  BY DEF Exit
<1>2. ~(Start \/ ReadItems \/ Reattach \/ StartImplementer \/ SaveRun \/ ImplementerReturns)
  BY <1>1 DEF Start, ReadItems, Reattach, StartImplementer, SaveRun, ImplementerReturns
<1>3. ~(StartPlanner \/ DropRun \/ ReadPlan \/ Tick \/ RemoveVerdict \/ TestGate)
  BY <1>1 DEF StartPlanner, DropRun, ReadPlan, Tick, RemoveVerdict, TestGate
<1>4. ~(StartReviewer \/ ReviewerReturns \/ Crash \/ Finish)
  BY <1>1 DEF StartReviewer, ReviewerReturns, Crash, Finish
<1>5. ~Agents
  BY DEF Agents, WritePlan, WriteVerdict, AgentEnds, AgentStuck, RecordEvicted
<1> QED
  BY <1>2, <1>3, <1>4, <1>5 DEF Next, Work, vars

\* IMPLEMENT ends with the plan worked off, DONE follows a passing test and a
\* PASS of this check's own reviewer, and FAILED has used every round.
THEOREM VerdictsEarned == Spec => VerdictsAreEarned
<1>1. GoalInv /\ [Next]_vars =>
        (phase = "IMPLEMENT" /\ phase' = "CHECK" /\ mode = "two" /\ ~LostA("PLAN")
           => Pending(plan) = {})
  <2> SUFFICES ASSUME GoalInv, [Next]_vars, phase = "IMPLEMENT", phase' = "CHECK",
                      mode = "two", ~LostA("PLAN")
               PROVE  Pending(plan) = {}
    OBVIOUS
  <2>1. ItemsDone
    BY PhaseSteps DEF Investigate, PlannerReturns, Judge, GoalInv, InHand
  <2>2. pc = "items" /\ todo = {}
    BY <2>1 DEF ItemsDone
  <2> QED
    BY <2>2 DEF GoalInv, InTurn, PlanIsCurrent
<1>2. GoalInv /\ [Next]_vars =>
        (phase # "DONE" /\ phase' = "DONE" =>
           /\ testOk
           /\ mode = "two" => verdict = "PASS" /\ (author = awaited \/ LostA("CHECK")))
  <2> SUFFICES ASSUME GoalInv, [Next]_vars, phase # "DONE", phase' = "DONE"
               PROVE  /\ testOk
                      /\ mode = "two" => verdict = "PASS" /\ (author = awaited \/ LostA("CHECK"))
    OBVIOUS
  <2>1. Judge /\ Passes
    <3>1. ~Exit
      BY DEF Exit, stateJson
    <3>2. ~Investigate /\ ~PlannerReturns /\ ~ItemsDone
      BY <3>1 DEF Investigate, PlannerReturns, ItemsDone, Advance
    <3>3. Judge
      BY <3>2, PhaseSteps
    <3> QED
      BY <3>3 DEF Judge
  <2>2. pc = "judge" /\ phase = "CHECK"
    BY <2>1 DEF Judge, GoalInv, InHand
  <2> QED
    BY <2>1, <2>2 DEF Passes, GoalInv, Reviewed
<1>3. GoalInv => FailedUsedEveryRound
  BY DEF GoalInv, RoundsFailed, FailedUsedEveryRound
<1> QED
  BY <1>1, <1>2, <1>3, GoalInvariant, PTL
     DEF Spec, VerdictsAreEarned, PlanIsWorkedOff, DoneIsReviewed
=============================================================================
