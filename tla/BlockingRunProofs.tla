-------------------------- MODULE BlockingRunProofs --------------------------
(***************************************************************************)
(* Proofs about BlockingRun: for every set of runs, every size of the      *)
(* candidate list and any number of retries, stops and faults, what a run  *)
(* reports agrees with what its agents did, -s leaves an agent behind only *)
(* where run() itself does not see its end (SIGKILL, SIGHUP, an exception  *)
(* outside of it), and a retry moves on to another agent.                  *)
(*                                                                         *)
(* The inductive invariant BlockingInv says at each label of run() which   *)
(* of the four reports of the current attempt (record, health, callback,   *)
(* exit code) are already made.  Each of its parts has a lemma of its own. *)
(***************************************************************************)
EXTENDS BlockingRun, SequenceTheorems, TLAPS

\* The elements of the three histories of a run.
Record == [attempt : 1 .. MaxAttempts, status : {"running", "done", "failed"}]
Result == [attempt : 1 .. MaxAttempts, ok : BOOLEAN]
Call == [attempt : 1 .. MaxAttempts, status : {"done", "failed"}]

\* A function from 1 .. n is a sequence of length n.
LEMMA FunctionIsSeq ==
  ASSUME NEW S, NEW n \in Nat, NEW f \in [1 .. n -> S]
  PROVE  f \in Seq(S) /\ Len(f) = n
  OBVIOUS

\* updateRun on a history that has a record: its newest takes the status.
LEMMA RewrittenRecords ==
  ASSUME NEW s \in Seq(Record), NEW status \in {"running", "done", "failed"}, s # <<>>
  PROVE  /\ [s EXCEPT ![1].status = status] \in Seq(Record)
         /\ [s EXCEPT ![1].status = status] # <<>>
         /\ [s EXCEPT ![1].status = status][1].status = status
<1>1. Len(s) \in Nat \ {0} /\ s[1] \in Record /\ DOMAIN s = 1 .. Len(s)
  BY EmptySeq, ElementOfSeq, LenProperties
<1>2. [s[1] EXCEPT !.status = status] \in Record
  BY <1>1 DEF Record
<1>3. [s EXCEPT ![1] = [s[1] EXCEPT !.status = status]] \in Seq(Record)
  BY <1>1, <1>2, ExceptSeq
<1>4. [s EXCEPT ![1].status = status] = [s EXCEPT ![1] = [s[1] EXCEPT !.status = status]]
  OBVIOUS
<1>5. [s EXCEPT ![1].status = status][1].status = status
  BY <1>1 DEF Record
<1>6. Len([s EXCEPT ![1] = [s[1] EXCEPT !.status = status]]) = Len(s)
  BY <1>1, <1>2, ExceptSeq
<1> QED
  BY <1>1, <1>3, <1>4, <1>5, <1>6, EmptySeq

\* A refresh rewrites records in place.
LEMMA RefreshedRecords ==
  ASSUME NEW s \in Seq(Record), NEW r
  PROVE  LET t == [i \in DOMAIN s |-> IF s[i].status = "running" /\ ~PidAlive(r, s[i])
                                        THEN [s[i] EXCEPT !.status = "failed"] ELSE s[i]]
         IN t \in Seq(Record) /\ Len(t) = Len(s)
<1> DEFINE t == [i \in DOMAIN s |-> IF s[i].status = "running" /\ ~PidAlive(r, s[i])
                                        THEN [s[i] EXCEPT !.status = "failed"] ELSE s[i]]
<1>1. Len(s) \in Nat /\ DOMAIN s = 1 .. Len(s) /\ \A i \in 1 .. Len(s) : s[i] \in Record
  BY ElementOfSeq, LenProperties
<1>2. \A i \in 1 .. Len(s) : [s[i] EXCEPT !.status = "failed"] \in Record
  BY <1>1 DEF Record
<1>3. t \in [1 .. Len(s) -> Record]
  BY <1>1, <1>2
<1> QED
  BY <1>1, <1>3, FunctionIsSeq

\* There is an attempt, and there are no more than candidates.
LEMMA AttemptBound == MaxAttempts \in Nat \ {0} /\ MaxAttempts <= Candidates
  BY BlockingAssumption DEF MaxAttempts

\* Attempts are counted from their pick on, a retry has one left, and only a run
\* that is over has an outcome.
AttemptsCount ==
    \A r \in Runs :
        /\ pc[r] = "idle" => attempt[r] = 0 /\ health[r] = <<>> /\ callbacks[r] = <<>>
        /\ pc[r] \notin {"idle", "over"} => attempt[r] >= 1
        /\ pc[r] = "retry" => attempt[r] < MaxAttempts
        /\ pc[r] = "over" <=> outcome[r] # "none"

\* The types of the variables of the control flow, and of the sequences.
Control ==
    /\ pc \in [Runs -> {"idle", "launch", "add", "watch", "deaf", "killed", "marker",
                         "health", "scope", "verify", "callback", "returned",
                         "agentError", "recordedError", "error", "retry",
                         "over"}]
    /\ attempt \in [Runs -> 0 .. MaxAttempts]
    /\ agent \in [Runs -> Agents]
    /\ index \in Agents
    /\ child \in [Runs -> {"none", "alive", "ok", "failed", "killed"}]
    /\ marker \in [Runs -> {"none", "fatal", "quota"}]
    /\ strayed \in SUBSET Runs
    /\ code \in [Runs -> {"ok", "failed"}]
    /\ parked \in SUBSET Agents
    /\ outcome \in [Runs -> {"none", "zero", "error", "threw", "interrupted",
                              "crashed"}]
    /\ stopper \in [Runs -> {"none", "signalled", "marked"}]
    /\ stops \in 0 .. MaxStops
    /\ faults \in 0 .. MaxFaults
    /\ unwritten \in SUBSET Runs
    /\ doomed \in SUBSET Runs
Logs ==
    /\ records \in [Runs -> Seq(Record)]
    /\ health \in [Runs -> Seq(Result)]
    /\ callbacks \in [Runs -> Seq(Call)]
    /\ picks \in Seq(Runs \X Agents)

\* TypeOK, in two halves: the provers see one without the other.
LEMMA TypesSplit == TypeOK <=> Control /\ Logs
  BY DEF TypeOK, Control, Logs, Record, Result, Call

\* updateRun, on the records of all runs.
LEMMA UpdateTypes ==
  ASSUME records \in [Runs -> Seq(Record)], NEW r \in Runs,
         NEW status \in {"running", "done", "failed"}, UpdateRun(r, status)
  PROVE  /\ records' \in [Runs -> Seq(Record)]
         /\ \A q \in Runs : q # r => records'[q] = records[q]
         /\ records'[r] = <<>> <=> records[r] = <<>>
         /\ records[r] # <<>> => records'[r][1].status = status
<1>2. CASE records[r] = <<>>
  BY <1>2 DEF UpdateRun
<1>3. CASE records[r] # <<>>
  <2>1. records' = [records EXCEPT ![r] = [@ EXCEPT ![1].status = status]]
    BY <1>3 DEF UpdateRun
  <2>2. records'[r] = [records[r] EXCEPT ![1].status = status]
    BY <2>1
  <2> DEFINE s == records[r]
  <2>0. s \in Seq(Record) /\ s # <<>>
    BY <1>3
  <2>x. /\ [s EXCEPT ![1].status = status] \in Seq(Record)
         /\ [s EXCEPT ![1].status = status] # <<>>
         /\ [s EXCEPT ![1].status = status][1].status = status
    <3> HIDE DEF s
    <3> QED BY <2>0, RewrittenRecords
  <2>3. records'[r] \in Seq(Record) /\ records'[r] # <<>> /\ records'[r][1].status = status
    BY <2>2, <2>x
  <2>4. \A q \in Runs : q # r => records'[q] = records[q]
    BY <2>1
  <2> QED
    BY <2>1, <2>3, <2>4, <1>3
<1> QED
  BY <1>2, <1>3

\* Every step keeps the types of the control variables.
LEMMA ControlTypes == Control /\ AttemptsCount /\ [Next]_vars => Control'
<1> SUFFICES ASSUME Control /\ AttemptsCount, [Next]_vars PROVE Control'
  OBVIOUS
<1> USE AttemptBound DEF Control, GoTo, scheduler, process, stopping, lost
<1>1. CASE UNCHANGED vars
  BY <1>1 DEF vars
<1> SUFFICES ASSUME NEW r \in Runs, Step(r) \/ Faulty(r) \/ Outside(r) PROVE Control'
  BY <1>1 DEF Next
<1>2. CASE PickAgent(r)
  <2>1. index' \in Agents
    BY <1>2, BlockingAssumption DEF PickAgent, Agents
  <2>2. attempt[r] + 1 \in 0 .. MaxAttempts
    BY <1>2 DEF PickAgent, AttemptsCount
  <2> QED
    BY <1>2, <2>1, <2>2 DEF PickAgent
<1>3. CASE LaunchAgent(r) \/ (\E heard \in BOOLEAN : AddRun(r, heard))
  <2>1. CASE LaunchAgent(r)
    BY <2>1 DEF LaunchAgent
  <2>2. CASE \E heard \in BOOLEAN : AddRun(r, heard)
    BY <2>2 DEF AddRun
  <2> QED
    BY <1>3, <2>1, <2>2
<1>4. CASE SeesKill(r) \/ Killed(r) \/ SeesExit(r)
  <2>1. CASE SeesKill(r)
    BY <2>1 DEF SeesKill
  <2>2. CASE Killed(r)
    BY <2>2 DEF Killed
  <2>3. CASE SeesExit(r)
    BY <2>3 DEF SeesExit
  <2> QED
    BY <1>4, <2>1, <2>2, <2>3
<1>5. CASE FailOnFatalMarker(r) \/ RecordHealth(r) \/ EnforceScope(r)
          \/ (\E ok \in BOOLEAN : Verify(r, ok))
  <2>1. CASE FailOnFatalMarker(r)
    BY <2>1 DEF FailOnFatalMarker
  <2>2. CASE RecordHealth(r)
    BY <2>2 DEF RecordHealth
  <2>3. CASE EnforceScope(r)
    BY <2>3 DEF EnforceScope
  <2>4. CASE \E ok \in BOOLEAN : Verify(r, ok)
    BY <2>4 DEF Verify
  <2> QED
    BY <1>5, <2>1, <2>2, <2>3, <2>4
<1>6. CASE (\E sandbox \in BOOLEAN : Returned(r, sandbox)) \/ Callback(r)
          \/ AgentErrorCaught(r) \/ ErrorCaught(r)
  <2>1. CASE \E sandbox \in BOOLEAN : Returned(r, sandbox)
    BY <2>1 DEF Returned
  <2>2. CASE Callback(r)
    BY <2>2 DEF Callback
  <2>3. CASE AgentErrorCaught(r)
    BY <2>3 DEF AgentErrorCaught
  <2>4. CASE ErrorCaught(r)
    BY <2>4 DEF ErrorCaught
  <2> QED
    BY <1>6, <2>1, <2>2, <2>3, <2>4
<1>7. CASE LaunchFails(r) \/ MarkerSwallowed(r) \/ WriteFails(r)
  <2>1. CASE LaunchFails(r)
    BY <2>1, BlockingAssumption DEF LaunchFails, Fault
  <2>2. CASE MarkerSwallowed(r)
    BY <2>2, BlockingAssumption DEF MarkerSwallowed, Fault
  <2>3. CASE WriteFails(r)
    BY <2>3, BlockingAssumption DEF WriteFails, Fault
  <2> QED
    BY <1>7, <2>1, <2>2, <2>3
<1>8. CASE LockErrorEscapes(r) \/ Interrupted(r) \/ Crashes(r) \/ UnheardError(r)
  <2>1. CASE LockErrorEscapes(r)
    BY <2>1, BlockingAssumption DEF LockErrorEscapes, Fault
  <2>2. CASE Interrupted(r)
    BY <2>2, BlockingAssumption DEF Interrupted, Fault
  <2>3. CASE Crashes(r)
    BY <2>3, BlockingAssumption DEF Crashes, Fault
  <2>4. CASE UnheardError(r)
    BY <2>4 DEF UnheardError
  <2> QED
    BY <1>8, <2>1, <2>2, <2>3, <2>4
<1>9. ASSUME NEW how \in {"ok", "failed"}, NEW m \in {"none", "fatal", "quota"},
             NEW b \in BOOLEAN, AgentEnds(r, how, m, b)
      PROVE Control'
  BY <1>9 DEF AgentEnds
<1>10. ASSUME NEW force \in BOOLEAN, StopSignals(r, force) PROVE Control'
  BY <1>10, BlockingAssumption DEF StopSignals
<1>11. CASE StopWrites(r) \/ Refresh(r)
  BY <1>11 DEF StopWrites, Refresh
<1> QED
  BY <1>2, <1>3, <1>4, <1>5, <1>6, <1>7, <1>8, <1>9, <1>10, <1>11 DEF Step, Faulty, Outside

\* What recordResult and the callback append has its type.
LEMMA ReportTypes ==
  ASSUME Control, Logs, NEW r \in Runs, attempt[r] >= 1
  PROVE  /\ \A ok \in BOOLEAN : RecordResult(r, ok) =>
              /\ health' \in [Runs -> Seq(Result)]
              /\ health' = [health EXCEPT
                    ![r] = Append(@, [attempt |-> attempt[r], ok |-> ok])]
         /\ \A status \in {"done", "failed"} : ExecuteCallback(r, status) =>
              callbacks' \in [Runs -> Seq(Call)]
<1>1. attempt[r] \in 1 .. MaxAttempts
  BY AttemptBound DEF Control
<1>2. ASSUME NEW ok \in BOOLEAN PROVE [attempt |-> attempt[r], ok |-> ok] \in Result
  BY <1>1 DEF Result
<1>3. ASSUME NEW status \in {"done", "failed"}
      PROVE  [attempt |-> attempt[r], status |-> status] \in Call
  BY <1>1 DEF Call
<1>4. ASSUME NEW ok \in BOOLEAN, RecordResult(r, ok) PROVE health' \in [Runs -> Seq(Result)]
  BY <1>2, <1>4 DEF RecordResult, Logs
<1>5. ASSUME NEW status \in {"done", "failed"}, ExecuteCallback(r, status)
      PROVE  callbacks' \in [Runs -> Seq(Call)]
  BY <1>3, <1>5 DEF ExecuteCallback, Logs
<1> QED
  BY <1>4, <1>5 DEF RecordResult

\* Every step keeps the types of the sequences.
LEMMA LogTypes == Control /\ Logs /\ AttemptsCount /\ [Next]_vars => Logs'
<1> SUFFICES ASSUME Control /\ Logs /\ AttemptsCount, [Next]_vars PROVE Logs'
  OBVIOUS
<1> USE DEF Logs, scheduler, process, stopping, lost
<1>1. CASE UNCHANGED vars
  BY <1>1 DEF vars
<1> SUFFICES ASSUME NEW r \in Runs, Step(r) \/ Faulty(r) \/ Outside(r) PROVE Logs'
  BY <1>1 DEF Next
<1>a. pc[r] \notin {"idle", "over"} => attempt[r] >= 1
  BY DEF AttemptsCount
<1>2. CASE PickAgent(r)
  <2>1. index' \in Agents
    BY <1>2, BlockingAssumption DEF PickAgent, Agents, Control
  <2> QED
    BY <1>2, <2>1 DEF PickAgent
<1>3. ASSUME NEW heard \in BOOLEAN, AddRun(r, heard) PROVE Logs'
  <2>1. [attempt |-> attempt[r], status |-> "running"] \in Record
    BY <1>a, <1>3, AttemptBound DEF AddRun, Control, Record
  <2>2. <<[attempt |-> attempt[r], status |-> "running"]>> \o records[r] \in Seq(Record)
    BY <2>1
  <2> QED
    BY <1>3, <2>2 DEF AddRun
<1>4. CASE Killed(r) \/ SeesExit(r) \/ FailOnFatalMarker(r) \/ RecordHealth(r)
  BY <1>a, <1>4, UpdateTypes, ReportTypes DEF Killed, SeesExit, FailOnFatalMarker, RecordHealth
<1>5. CASE EnforceScope(r) \/ (\E ok \in BOOLEAN : Verify(r, ok)) \/ Callback(r)
  BY <1>a, <1>5, UpdateTypes, ReportTypes DEF EnforceScope, Verify, Callback
<1>6. CASE (\E sandbox \in BOOLEAN : Returned(r, sandbox))
          \/ AgentErrorCaught(r) \/ ErrorCaught(r)
  BY <1>a, <1>6, ReportTypes DEF Returned, AgentErrorCaught, ErrorCaught
<1>7. CASE StopWrites(r)
  BY <1>7, UpdateTypes DEF StopWrites
<1>8. CASE Refresh(r)
  BY <1>8, RefreshedRecords DEF Refresh
<1>9. CASE LaunchAgent(r) \/ SeesKill(r) \/ Faulty(r)
  BY <1>9 DEF LaunchAgent, SeesKill, Faulty, LaunchFails, MarkerSwallowed, WriteFails,
     LockErrorEscapes, Interrupted, Crashes, UnheardError
<1>10. CASE Outside(r) /\ ~StopWrites(r) /\ ~Refresh(r)
  BY <1>10 DEF Outside, AgentEnds, StopSignals
<1> QED
  BY <1>2, <1>3, <1>4, <1>5, <1>6, <1>7, <1>8, <1>9, <1>10 DEF Step, Outside

\* Labels at which the agent of the current attempt is gone.
Gone == {"idle", "launch", "killed", "marker", "health", "scope", "verify", "callback",
         "returned", "agentError", "recordedError", "retry"}

\* Past its exit, and before the next launch, no agent of the run is alive.
AgentIsGone == \A r \in Runs : pc[r] \in Gone => ~Alive(r)

\* Every step keeps the count of the attempts.
LEMMA AttemptsInv == Control /\ Logs /\ AttemptsCount /\ [Next]_vars => AttemptsCount'
<1> SUFFICES ASSUME Control /\ Logs /\ AttemptsCount, [Next]_vars PROVE AttemptsCount'
  OBVIOUS
<1> USE AttemptBound DEF Control, Logs, AttemptsCount, GoTo, scheduler, process, stopping, lost
<1>1. CASE UNCHANGED vars
  BY <1>1 DEF vars
<1> SUFFICES ASSUME NEW r \in Runs, Step(r) \/ Faulty(r) \/ Outside(r) PROVE AttemptsCount'
  BY <1>1 DEF Next
<1>2. CASE PickAgent(r) \/ LaunchAgent(r) \/ (\E heard \in BOOLEAN : AddRun(r, heard))
  <2>1. CASE PickAgent(r)
    BY <2>1 DEF PickAgent
  <2>2. CASE LaunchAgent(r)
    BY <2>2 DEF LaunchAgent
  <2>3. CASE \E heard \in BOOLEAN : AddRun(r, heard)
    BY <2>3 DEF AddRun
  <2> QED
    BY <1>2, <2>1, <2>2, <2>3
<1>3. CASE SeesKill(r) \/ Killed(r) \/ SeesExit(r)
  <2>1. CASE SeesKill(r)
    BY <2>1 DEF SeesKill
  <2>2. CASE Killed(r)
    BY <2>2 DEF Killed, RecordResult
  <2>3. CASE SeesExit(r)
    BY <2>3 DEF SeesExit
  <2> QED
    BY <1>3, <2>1, <2>2, <2>3
<1>4. CASE FailOnFatalMarker(r) \/ RecordHealth(r)
  BY <1>4 DEF FailOnFatalMarker, RecordHealth, RecordResult
<1>5. CASE EnforceScope(r) \/ (\E ok \in BOOLEAN : Verify(r, ok))
  <2>1. CASE EnforceScope(r)
    BY <2>1 DEF EnforceScope, ExecuteCallback
  <2>2. CASE \E ok \in BOOLEAN : Verify(r, ok)
    BY <2>2 DEF Verify, ExecuteCallback
  <2> QED
    BY <1>5, <2>1, <2>2
<1>6. CASE (\E sandbox \in BOOLEAN : Returned(r, sandbox)) \/ Callback(r)
  <2>1. CASE \E sandbox \in BOOLEAN : Returned(r, sandbox)
    BY <2>1 DEF Returned, RecordResult
  <2>2. CASE Callback(r)
    BY <2>2 DEF Callback, ExecuteCallback
  <2> QED
    BY <1>6, <2>1, <2>2
<1>7. CASE AgentErrorCaught(r) \/ ErrorCaught(r)
  <2>1. CASE AgentErrorCaught(r)
    BY <2>1 DEF AgentErrorCaught, RecordResult
  <2>2. CASE ErrorCaught(r)
    BY <2>2 DEF ErrorCaught, RecordResult
  <2> QED
    BY <1>7, <2>1, <2>2
<1>8. CASE LaunchFails(r) \/ MarkerSwallowed(r) \/ WriteFails(r)
  <2>1. CASE LaunchFails(r)
    BY <2>1 DEF LaunchFails
  <2>2. CASE MarkerSwallowed(r)
    BY <2>2 DEF MarkerSwallowed
  <2>3. CASE WriteFails(r)
    BY <2>3 DEF WriteFails
  <2> QED
    BY <1>8, <2>1, <2>2, <2>3
<1>9. CASE Interrupted(r) \/ Crashes(r) \/ UnheardError(r)
  <2>1. pc'[r] = "over" /\ outcome'[r] # "none" /\ UNCHANGED <<attempt, health, callbacks>>
    BY <1>9 DEF Interrupted, Crashes, UnheardError
  <2>2. \A q \in Runs : q # r => pc'[q] = pc[q] /\ outcome'[q] = outcome[q]
    BY <1>9 DEF Interrupted, Crashes, UnheardError
  <2> QED
    BY <2>1, <2>2
<1>10. CASE LockErrorEscapes(r)
  <2>1. pc'[r] = "over" /\ outcome'[r] # "none" /\ UNCHANGED <<attempt, health, callbacks>>
    BY <1>10 DEF LockErrorEscapes
  <2>2. \A q \in Runs : q # r => pc'[q] = pc[q] /\ outcome'[q] = outcome[q]
    BY <1>10 DEF LockErrorEscapes
  <2> QED
    BY <2>1, <2>2
<1>11. ASSUME NEW how \in {"ok", "failed"}, NEW m \in {"none", "fatal", "quota"},
              NEW b \in BOOLEAN, AgentEnds(r, how, m, b)
       PROVE AttemptsCount'
  BY <1>11 DEF AgentEnds
<1>12. CASE (\E force \in BOOLEAN : StopSignals(r, force)) \/ StopWrites(r) \/ Refresh(r)
  BY <1>12 DEF StopSignals, StopWrites, Refresh
<1> QED
  BY <1>2, <1>3, <1>4, <1>5, <1>6, <1>7, <1>8, <1>9, <1>10, <1>11, <1>12 DEF Step, Faulty,
     Outside

\* Every step keeps AgentIsGone.
LEMMA AgentIsGoneInv == Control /\ AgentIsGone /\ [Next]_vars => AgentIsGone'
<1> SUFFICES ASSUME Control /\ AgentIsGone, [Next]_vars PROVE AgentIsGone'
  OBVIOUS
<1> USE DEF Control, AgentIsGone, Gone, Alive, GoTo, scheduler, process, stopping, lost
<1>1. CASE UNCHANGED vars
  BY <1>1 DEF vars
<1> SUFFICES ASSUME NEW r \in Runs, Step(r) \/ Faulty(r) \/ Outside(r) PROVE AgentIsGone'
  BY <1>1 DEF Next
<1>2. CASE PickAgent(r) \/ LaunchAgent(r) \/ (\E heard \in BOOLEAN : AddRun(r, heard))
  BY <1>2 DEF PickAgent, LaunchAgent, AddRun
<1>3. CASE SeesKill(r)
  BY <1>3 DEF SeesKill
<1>4. CASE Killed(r) \/ SeesExit(r)
  BY <1>4 DEF Killed, SeesExit
<1>5. CASE FailOnFatalMarker(r) \/ RecordHealth(r)
  BY <1>5 DEF FailOnFatalMarker, RecordHealth
<1>6. CASE EnforceScope(r) \/ (\E ok \in BOOLEAN : Verify(r, ok))
  BY <1>6 DEF EnforceScope, Verify
<1>7. CASE (\E sandbox \in BOOLEAN : Returned(r, sandbox)) \/ Callback(r)
  BY <1>7 DEF Returned, Callback
<1>8. CASE ErrorCaught(r)
  BY <1>8 DEF ErrorCaught
<1>9. CASE AgentErrorCaught(r)
  BY <1>9 DEF AgentErrorCaught
<1>10. CASE LaunchFails(r) \/ MarkerSwallowed(r) \/ WriteFails(r)
  BY <1>10 DEF LaunchFails, MarkerSwallowed, WriteFails
<1>11. CASE LockErrorEscapes(r) \/ Interrupted(r) \/ Crashes(r) \/ UnheardError(r)
  BY <1>11 DEF LockErrorEscapes, Interrupted, Crashes, UnheardError
<1>12. ASSUME NEW how \in {"ok", "failed"}, NEW m \in {"none", "fatal", "quota"},
              NEW b \in BOOLEAN, AgentEnds(r, how, m, b)
       PROVE AgentIsGone'
  BY <1>12 DEF AgentEnds
<1>13. CASE (\E force \in BOOLEAN : StopSignals(r, force)) \/ StopWrites(r) \/ Refresh(r)
  BY <1>13 DEF StopSignals, PidAlive, StopWrites, Refresh
<1> QED
  BY <1>2, <1>3, <1>4, <1>5, <1>6, <1>7, <1>8, <1>9, <1>10, <1>11, <1>12, <1>13 DEF Step,
     Faulty, Outside

\* A step of the run r leaves every other run alone.
LEMMA OthersAreUntouched ==
  ASSUME Control, Logs, NEW r \in Runs, Step(r) \/ Faulty(r) \/ Outside(r),
         NEW q \in Runs, q # r
  PROVE  /\ pc'[q] = pc[q] /\ attempt'[q] = attempt[q] /\ child'[q] = child[q]
         /\ marker'[q] = marker[q] /\ (q \in strayed' <=> q \in strayed)
         /\ code'[q] = code[q] /\ records'[q] = records[q] /\ health'[q] = health[q]
         /\ callbacks'[q] = callbacks[q] /\ outcome'[q] = outcome[q]
         /\ stopper'[q] = stopper[q] /\ (q \in unwritten' <=> q \in unwritten)
<1> USE DEF Control, Logs, GoTo, UpdateRun, RecordResult, ExecuteCallback, scheduler,
            process, stopping, lost
<1>1. CASE Step(r)
  <2>1. CASE PickAgent(r) \/ LaunchAgent(r) \/ \E heard \in BOOLEAN : AddRun(r, heard)
    BY <2>1 DEF PickAgent, LaunchAgent, AddRun
  <2>2. CASE SeesKill(r) \/ Killed(r) \/ SeesExit(r)
    BY <2>2 DEF SeesKill, Killed, SeesExit
  <2>3. CASE FailOnFatalMarker(r) \/ RecordHealth(r) \/ EnforceScope(r)
    <3>1. CASE FailOnFatalMarker(r)
      BY <3>1 DEF FailOnFatalMarker
    <3>2. CASE RecordHealth(r)
      BY <3>2 DEF RecordHealth
    <3>3. CASE EnforceScope(r)
      BY <3>3 DEF EnforceScope
    <3> QED
      BY <2>3, <3>1, <3>2, <3>3
  <2>4. CASE Callback(r) \/ AgentErrorCaught(r) \/ ErrorCaught(r)
    BY <2>4 DEF Callback, AgentErrorCaught, ErrorCaught
  <2>5. CASE \E ok \in BOOLEAN : Verify(r, ok) \/ Returned(r, ok)
    <3>1. CASE \E ok \in BOOLEAN : Verify(r, ok)
      BY <3>1 DEF Verify
    <3>2. CASE \E ok \in BOOLEAN : Returned(r, ok)
      BY <3>2 DEF Returned
    <3> QED
      BY <2>5, <3>1, <3>2
  <2> QED
    BY <1>1, <2>1, <2>2, <2>3, <2>4, <2>5 DEF Step
<1>2. CASE Faulty(r)
  <2>1. CASE LaunchFails(r) \/ MarkerSwallowed(r) \/ WriteFails(r)
    BY <2>1 DEF LaunchFails, MarkerSwallowed, WriteFails
  <2>2. CASE LockErrorEscapes(r) \/ Interrupted(r) \/ Crashes(r) \/ UnheardError(r)
    BY <2>2 DEF LockErrorEscapes, Interrupted, Crashes, UnheardError
  <2> QED
    BY <1>2, <2>1, <2>2 DEF Faulty
<1>3. CASE Outside(r)
  BY <1>3 DEF Outside, AgentEnds, StopSignals, StopWrites, Refresh
<1> QED
  BY <1>1, <1>2, <1>3

\* No step but an end that run() does not see ends -s and leaves its agent alive.
LEMMA LeftBehindInv ==
  Control /\ Logs /\ AttemptsCount /\ AgentIsGone /\ NoAgentLeftBehind /\ [Next]_vars
  => NoAgentLeftBehind'
<1> SUFFICES ASSUME Control, Logs, AttemptsCount, AgentIsGone, NoAgentLeftBehind, [Next]_vars
             PROVE  NoAgentLeftBehind'
  OBVIOUS
<1> USE BlockingAssumption DEF NoAgentLeftBehind, Alive
<1>1. CASE UNCHANGED vars
  BY <1>1 DEF vars
<1> SUFFICES ASSUME NEW r \in Runs, Step(r) \/ Faulty(r) \/ Outside(r) PROVE NoAgentLeftBehind'
  BY <1>1 DEF Next
<1> DEFINE Stays == pc[r] = "over" /\ Alive(r) => outcome[r] = "crashed"
<1> SUFFICES ASSUME r \in Streamed PROVE Stays'
  BY OthersAreUntouched
<1>a. Stays
  BY DEF NoAgentLeftBehind
<1> USE <1>a DEF Control, AttemptsCount, AgentIsGone, Gone, GoTo, scheduler, process,
    stopping, lost
<1>2. CASE PickAgent(r) \/ LaunchAgent(r) \/ (\E heard \in BOOLEAN : AddRun(r, heard))
  BY <1>2 DEF PickAgent, LaunchAgent, AddRun
<1>3. CASE SeesKill(r) \/ Killed(r) \/ SeesExit(r)
  BY <1>3 DEF SeesKill, Killed, SeesExit
<1>4. CASE FailOnFatalMarker(r) \/ RecordHealth(r)
  BY <1>4 DEF FailOnFatalMarker, RecordHealth
<1>5. CASE EnforceScope(r) \/ (\E ok \in BOOLEAN : Verify(r, ok))
  BY <1>5 DEF EnforceScope, Verify
<1>6. CASE (\E sandbox \in BOOLEAN : Returned(r, sandbox)) \/ Callback(r)
  BY <1>6 DEF Returned, Callback
<1>7. CASE ErrorCaught(r)
  BY <1>7 DEF ErrorCaught
<1>8. CASE AgentErrorCaught(r)
  BY <1>8 DEF AgentErrorCaught
<1>9. CASE LaunchFails(r) \/ MarkerSwallowed(r) \/ WriteFails(r)
  BY <1>9 DEF LaunchFails, MarkerSwallowed, WriteFails
<1>10. CASE LockErrorEscapes(r) \/ Interrupted(r) \/ Crashes(r) \/ UnheardError(r)
  <2>1. CASE LockErrorEscapes(r) \/ Interrupted(r)
    BY <2>1 DEF LockErrorEscapes, Interrupted
  <2>2. CASE Crashes(r) \/ UnheardError(r)
    BY <2>2 DEF Crashes, UnheardError
  <2> QED
    BY <1>10, <2>1, <2>2
<1>11. ASSUME NEW how \in {"ok", "failed"}, NEW m \in {"none", "fatal", "quota"},
              NEW b \in BOOLEAN, AgentEnds(r, how, m, b)
       PROVE Stays'
  BY <1>11 DEF AgentEnds
<1>12. CASE (\E force \in BOOLEAN : StopSignals(r, force)) \/ StopWrites(r) \/ Refresh(r)
  BY <1>12 DEF StopSignals, PidAlive, StopWrites, Refresh
<1> QED
  BY <1>2, <1>3, <1>4, <1>5, <1>6, <1>7, <1>8, <1>9, <1>10, <1>11, <1>12 DEF Step, Faulty,
     Outside

\* A refresh drops no record and spoils none that is done.
LEMMA RefreshKeepsDone ==
  ASSUME Logs, NEW r \in Runs, Refresh(r)
  PROVE  /\ records'[r] = <<>> <=> records[r] = <<>>
         /\ records[r] # <<>> /\ records[r][1].status = "done" =>
              records'[r][1].status = "done"
<1>1. Len(records'[r]) = Len(records[r]) /\ records'[r] \in Seq(Record)
  BY RefreshedRecords DEF Refresh, Logs
<1>2. records'[r] = <<>> <=> records[r] = <<>>
  BY <1>1, EmptySeq DEF Logs
<1>3. ASSUME records[r] # <<>>, records[r][1].status = "done"
      PROVE  records'[r][1].status = "done"
  <2>1. 1 \in DOMAIN records[r]
    BY <1>3 DEF Logs
  <2> QED
    BY <1>3, <2>1 DEF Refresh, Logs
<1> QED
  BY <1>2, <1>3

\* Labels at which `code' is that of the agent.
Coded == {"marker", "health", "scope", "verify", "callback", "returned"}

\* A run past its addRun has a record.  A code "ok" is that of an agent that
\* ended well, whose record says so unless the user stopped it.
CodeTells ==
    \A r \in Runs :
        /\ pc[r] \in {"watch", "deaf", "killed"} \cup Coded => records[r] # <<>>
        /\ pc[r] \in Coded /\ code[r] = "ok" =>
              /\ child[r] = "ok"
              /\ pc[r] # "marker" => marker[r] = "none" \/ r \in unwritten
              /\ records[r][1].status = "done" \/ stopper[r] # "none"
              /\ pc[r] \in {"verify", "callback", "returned"} /\ r \in Streamed =>
                    ~(r \in Scoped /\ r \in strayed)

\* Every step keeps CodeTells: the record is written before the code is used.
LEMMA CodeTellsInv ==
  Control /\ Logs /\ AgentIsGone /\ CodeTells /\ [Next]_vars => CodeTells'
<1> SUFFICES ASSUME Control, Logs, AgentIsGone, CodeTells, [Next]_vars PROVE CodeTells'
  OBVIOUS
<1> USE DEF CodeTells, Coded
<1>1. CASE UNCHANGED vars
  BY <1>1 DEF vars
<1> SUFFICES ASSUME NEW r \in Runs, Step(r) \/ Faulty(r) \/ Outside(r) PROVE CodeTells'
  BY <1>1 DEF Next
<1> DEFINE Tells ==
        /\ pc[r] \in {"watch", "deaf", "killed"} \cup Coded => records[r] # <<>>
        /\ pc[r] \in Coded /\ code[r] = "ok" =>
              /\ child[r] = "ok"
              /\ pc[r] # "marker" => marker[r] = "none" \/ r \in unwritten
              /\ records[r][1].status = "done" \/ stopper[r] # "none"
              /\ pc[r] \in {"verify", "callback", "returned"} /\ r \in Streamed =>
                    ~(r \in Scoped /\ r \in strayed)
<1> SUFFICES Tells'
  BY OthersAreUntouched
<1> USE DEF Control, GoTo, scheduler, process, stopping, lost
<1>2. CASE PickAgent(r) \/ LaunchAgent(r)
  BY <1>2 DEF PickAgent, LaunchAgent
<1>3. ASSUME NEW heard \in BOOLEAN, AddRun(r, heard) PROVE Tells'
  BY <1>3 DEF AddRun, Logs
<1>4. CASE SeesKill(r) \/ Killed(r)
  <2>1. CASE SeesKill(r)
    BY <2>1 DEF SeesKill
  <2>2. CASE Killed(r)
    BY <2>2 DEF Killed
  <2> QED
    BY <1>4, <2>1, <2>2
<1>5. CASE SeesExit(r)
  BY <1>5, UpdateTypes DEF SeesExit, Logs
<1>6. CASE FailOnFatalMarker(r)
  <2>1. CASE marker[r] = "none"
    BY <1>6, <2>1 DEF FailOnFatalMarker
  <2>2. CASE marker[r] # "none"
    <3>1. records'[r] # <<>>
      BY <1>6, <2>2, UpdateTypes DEF FailOnFatalMarker, Logs
    <3>2. pc'[r] = "health" /\ code'[r] = "failed"
      BY <1>6, <2>2 DEF FailOnFatalMarker
    <3> QED
      BY <3>1, <3>2
  <2> QED
    BY <2>1, <2>2
<1>16. CASE MarkerSwallowed(r)
  BY <1>16 DEF MarkerSwallowed
<1>7. CASE RecordHealth(r) \/ Callback(r)
  BY <1>7 DEF RecordHealth, Callback
<1>8. CASE EnforceScope(r) \/ \E ok \in BOOLEAN : Verify(r, ok)
  BY <1>8 DEF EnforceScope, Verify
<1>9. CASE AgentErrorCaught(r) \/ ErrorCaught(r)
          \/ \E sandbox \in BOOLEAN : Returned(r, sandbox)
  <2>1. CASE AgentErrorCaught(r)
    BY <2>1 DEF AgentErrorCaught
  <2>2. CASE ErrorCaught(r)
    BY <2>2 DEF ErrorCaught
  <2>3. CASE \E sandbox \in BOOLEAN : Returned(r, sandbox)
    BY <2>3 DEF Returned
  <2> QED
    BY <1>9, <2>1, <2>2, <2>3
<1>10. CASE LaunchFails(r) \/ WriteFails(r)
  BY <1>10 DEF LaunchFails, WriteFails
<1>11. CASE LockErrorEscapes(r) \/ Interrupted(r) \/ Crashes(r) \/ UnheardError(r)
  BY <1>11 DEF LockErrorEscapes, Interrupted, Crashes, UnheardError
<1>12. ASSUME NEW how \in {"ok", "failed"}, NEW m \in {"none", "fatal", "quota"},
              NEW b \in BOOLEAN, AgentEnds(r, how, m, b)
       PROVE  Tells'
  BY <1>12 DEF AgentEnds, AgentIsGone, Gone
<1>13. ASSUME NEW force \in BOOLEAN, StopSignals(r, force) PROVE Tells'
  BY <1>13 DEF StopSignals, PidAlive, AgentIsGone, Gone
<1>14. CASE StopWrites(r)
  BY <1>14, UpdateTypes DEF StopWrites, Logs
<1>15. CASE Refresh(r)
  BY <1>15, RefreshKeepsDone DEF Refresh
<1> QED
  BY <1>2, <1>3, <1>4, <1>5, <1>6, <1>7, <1>8, <1>9, <1>10, <1>11, <1>12, <1>13, <1>14,
     <1>15, <1>16 DEF Step, Faulty, Outside

\* updateRun and a refresh keep the attempt of the newest record, and make no
\* record done that was not.
LEMMA NewestRecord ==
  ASSUME Logs, NEW r \in Runs
  PROVE  /\ \A status \in {"running", "done", "failed"} : UpdateRun(r, status) =>
              /\ records'[r] = <<>> <=> records[r] = <<>>
              /\ records[r] # <<>> =>
                   /\ records'[r][1].status = status
                   /\ records'[r][1].attempt = records[r][1].attempt
         /\ Refresh(r) =>
              /\ records'[r] = <<>> <=> records[r] = <<>>
              /\ records[r] # <<>> =>
                   /\ records'[r][1].status = "done" => records[r][1].status = "done"
                   /\ records'[r][1].attempt = records[r][1].attempt
<1>0. records[r] # <<>> => 1 \in DOMAIN records[r] /\ records[r][1] \in Record
  <2>1. records[r] \in Seq(Record)
    BY DEF Logs
  <2> QED
    BY <2>1, EmptySeq, ElementOfSeq, LenProperties
<1>1. ASSUME NEW status \in {"running", "done", "failed"}, UpdateRun(r, status)
      PROVE  /\ records'[r] = <<>> <=> records[r] = <<>>
             /\ records[r] # <<>> =>
                  /\ records'[r][1].status = status
                  /\ records'[r][1].attempt = records[r][1].attempt
  <2>1. /\ records'[r] = <<>> <=> records[r] = <<>>
        /\ records[r] # <<>> => records'[r][1].status = status
    BY <1>1, UpdateTypes DEF Logs
  <2>2. CASE records[r] # <<>>
    <3>1. records'[r] = [records[r] EXCEPT ![1].status = status]
      BY <1>1, <2>2 DEF UpdateRun, Logs
    <3>2. records'[r][1] = [records[r][1] EXCEPT !.status = status]
      BY <1>0, <2>2, <3>1
    <3> QED
      BY <1>0, <2>1, <2>2, <3>2 DEF Record
  <2> QED
    BY <2>1, <2>2
<1>2. ASSUME Refresh(r)
      PROVE  /\ records'[r] = <<>> <=> records[r] = <<>>
             /\ records[r] # <<>> =>
                  /\ records'[r][1].status = "done" => records[r][1].status = "done"
                  /\ records'[r][1].attempt = records[r][1].attempt
  <2>1. records'[r] = <<>> <=> records[r] = <<>>
    BY <1>2, RefreshKeepsDone
  <2>2. CASE records[r] # <<>>
    <3>1. records'[r][1] \in {records[r][1], [records[r][1] EXCEPT !.status = "failed"]}
      BY <1>0, <1>2, <2>2 DEF Refresh, Logs
    <3> QED
      BY <1>0, <2>1, <2>2, <3>1 DEF Record
  <2> QED
    BY <2>1, <2>2
<1> QED
  BY <1>1, <1>2

\* A run past its addRun has the record of its attempt.  A done record is that of
\* a run on its way from a good exit to its end, or of one whose callback has said
\* so, or the write that would have changed it was lost.
ErrorTells ==
    \A r \in Streamed :
        /\ pc[r] \in {"watch", "deaf", "killed"} \cup Coded =>
              records[r][1].attempt = attempt[r]
        /\ pc[r] = "returned" /\ code[r] = "ok" => SaidDone(r, attempt[r])
        /\ records[r] # <<>> /\ records[r][1].status = "done"
           /\ (pc[r] \notin Coded \/ code[r] = "failed") /\ outcome[r] \in {"none", "error"}
              => SaidDone(r, records[r][1].attempt) \/ r \in unwritten

\* Every step keeps ErrorTells: no path from a good exit to an error leaves the
\* record done unless its callback fired or its write was lost.
LEMMA ErrorTellsInv ==
  Control /\ Logs /\ AttemptsCount /\ CodeTells /\ ErrorTells /\ [Next]_vars => ErrorTells'
<1> SUFFICES ASSUME Control, Logs, AttemptsCount, CodeTells, ErrorTells, [Next]_vars
             PROVE  ErrorTells'
  OBVIOUS
<1> USE BlockingAssumption DEF Coded, scheduler, process, stopping, lost
<1>1. CASE UNCHANGED vars
  BY <1>1 DEF vars, ErrorTells, SaidDone
<1> SUFFICES ASSUME NEW r \in Runs, Step(r) \/ Faulty(r) \/ Outside(r) PROVE ErrorTells'
  BY <1>1 DEF Next
<1> DEFINE Tells ==
        /\ pc[r] \in {"watch", "deaf", "killed"} \cup Coded =>
              records[r][1].attempt = attempt[r]
        /\ pc[r] = "returned" /\ code[r] = "ok" => SaidDone(r, attempt[r])
        /\ records[r] # <<>> /\ records[r][1].status = "done"
           /\ (pc[r] \notin Coded \/ code[r] = "failed") /\ outcome[r] \in {"none", "error"}
              => SaidDone(r, records[r][1].attempt) \/ r \in unwritten
<1>0. ASSUME NEW q \in Streamed, q # r
      PROVE  /\ pc'[q] = pc[q] /\ attempt'[q] = attempt[q] /\ code'[q] = code[q]
             /\ records'[q] = records[q] /\ outcome'[q] = outcome[q]
             /\ (q \in unwritten' <=> q \in unwritten)
             /\ \A n : SaidDone(q, n)' <=> SaidDone(q, n)
  BY <1>0, OthersAreUntouched DEF SaidDone
<1> SUFFICES ASSUME r \in Streamed PROVE Tells'
  BY <1>0 DEF ErrorTells
<1>a. Tells
  BY DEF ErrorTells
<1>b. /\ pc[r] \in {"watch", "deaf", "killed"} \cup Coded => records[r] # <<>>
      /\ pc[r] = "over" <=> outcome[r] # "none"
  BY DEF CodeTells, AttemptsCount
<1>c. UNCHANGED callbacks => \A n : SaidDone(r, n)' <=> SaidDone(r, n)
  BY DEF SaidDone
<1>d. \A status \in {"done", "failed"} : ExecuteCallback(r, status) =>
        \A n \in Nat :
            SaidDone(r, n) \/ (status = "done" /\ n = attempt[r]) => SaidDone(r, n)'
  <2> SUFFICES ASSUME NEW status \in {"done", "failed"}, ExecuteCallback(r, status)
               PROVE  \A n \in Nat : SaidDone(r, n) \/ (status = "done" /\ n = attempt[r])
                                        => SaidDone(r, n)'
    OBVIOUS
  <2> DEFINE call == [attempt |-> attempt[r], status |-> status]
             s == callbacks[r]
  <2>1. s \in Seq(Call) /\ callbacks'[r] = Append(s, call)
    BY DEF ExecuteCallback, Logs
  <2>2. /\ Len(s) \in Nat /\ DOMAIN s = 1 .. Len(s)
        /\ DOMAIN callbacks'[r] = 1 .. Len(s) + 1
        /\ callbacks'[r][Len(s) + 1] = call
        /\ \A i \in 1 .. Len(s) : callbacks'[r][i] = s[i]
    BY <2>1
  <2>3. ASSUME NEW n \in Nat, SaidDone(r, n) PROVE SaidDone(r, n)'
    <3>1. PICK i \in DOMAIN s : s[i] = [attempt |-> n, status |-> "done"]
      BY <2>3 DEF SaidDone
    <3>2. i \in DOMAIN callbacks'[r] /\ callbacks'[r][i] = s[i]
      BY <2>2
    <3> QED
      BY <3>1, <3>2 DEF SaidDone
  <2>4. ASSUME NEW n \in Nat, status = "done", n = attempt[r] PROVE SaidDone(r, n)'
    BY <2>2, <2>4 DEF SaidDone
  <2> QED
    BY <2>3, <2>4
<1> USE DEF Control, GoTo
<1>2. CASE PickAgent(r) \/ LaunchAgent(r) \/ LaunchFails(r)
  BY <1>2, <1>a, <1>b, <1>c DEF PickAgent, LaunchAgent, LaunchFails
<1>3. ASSUME NEW heard \in BOOLEAN, AddRun(r, heard) PROVE Tells'
  <2>1. /\ records'[r][1] = [attempt |-> attempt[r], status |-> "running"]
        /\ pc'[r] \in {"watch", "deaf"} /\ attempt' = attempt
    BY <1>3 DEF AddRun, Logs
  <2> QED
    BY <2>1
<1>4. CASE SeesKill(r)
  BY <1>4, <1>a, <1>b, <1>c DEF SeesKill
<1>5. CASE Killed(r) \/ SeesExit(r)
  BY <1>5, <1>a, <1>b, <1>c, NewestRecord DEF Killed, SeesExit
<1>6. CASE FailOnFatalMarker(r)
  BY <1>6, <1>a, <1>b, <1>c, NewestRecord DEF FailOnFatalMarker
<1>7. CASE MarkerSwallowed(r) \/ RecordHealth(r)
  BY <1>7, <1>a, <1>b, <1>c DEF MarkerSwallowed, RecordHealth
<1>8. CASE EnforceScope(r)
  BY <1>8, <1>a, <1>b, <1>c, NewestRecord DEF EnforceScope
<1>9. ASSUME NEW ok \in BOOLEAN, Verify(r, ok) PROVE Tells'
  BY <1>9, <1>a, <1>b, <1>c, NewestRecord DEF Verify
<1>10. CASE Callback(r)
  BY <1>10, <1>a, <1>b, <1>d DEF Callback
<1>11. ASSUME NEW sandbox \in BOOLEAN, Returned(r, sandbox) PROVE Tells'
  BY <1>11, <1>a, <1>b, <1>c DEF Returned
<1>12. CASE AgentErrorCaught(r) \/ ErrorCaught(r)
  BY <1>12, <1>a, <1>b, <1>c DEF AgentErrorCaught, ErrorCaught
<1>13. CASE WriteFails(r)
  BY <1>13, <1>a, <1>b, <1>c DEF WriteFails
<1>14. CASE LockErrorEscapes(r) \/ Interrupted(r) \/ Crashes(r) \/ UnheardError(r)
  <2>1. pc'[r] = "over" /\ outcome'[r] \in {"threw", "interrupted", "crashed"}
    BY <1>14 DEF LockErrorEscapes, Interrupted, Crashes, UnheardError
  <2> QED
    BY <2>1
<1>15. ASSUME NEW how \in {"ok", "failed"}, NEW m \in {"none", "fatal", "quota"},
              NEW b \in BOOLEAN, AgentEnds(r, how, m, b)
       PROVE  Tells'
  BY <1>15, <1>a, <1>c DEF AgentEnds
<1>16. ASSUME NEW force \in BOOLEAN, StopSignals(r, force) PROVE Tells'
  BY <1>16, <1>a, <1>c DEF StopSignals
<1>17. CASE StopWrites(r) \/ Refresh(r)
  BY <1>17, <1>a, <1>b, <1>c, NewestRecord DEF StopWrites, Refresh
<1> QED
  BY <1>2, <1>3, <1>4, <1>5, <1>6, <1>7, <1>8, <1>9, <1>10, <1>11, <1>12, <1>13, <1>14,
     <1>15, <1>16, <1>17 DEF Step, Faulty, Outside

\* Exit code 0 comes from Returned alone, and nothing spoils it afterwards.
LEMMA ZeroMeansDoneInv ==
  /\ Control /\ Logs /\ AttemptsCount /\ AgentIsGone /\ CodeTells
  /\ NoAgentLeftBehind /\ ZeroMeansDone
  /\ [Next]_vars
  => ZeroMeansDone'
<1> SUFFICES ASSUME Control, Logs, AttemptsCount, AgentIsGone, CodeTells,
                    NoAgentLeftBehind, ZeroMeansDone, [Next]_vars
             PROVE  ZeroMeansDone'
  OBVIOUS
<1> USE BlockingAssumption DEF ZeroMeansDone, Good, lost
<1>1. CASE UNCHANGED vars
  BY <1>1 DEF vars
<1> SUFFICES ASSUME NEW r \in Runs, Step(r) \/ Faulty(r) \/ Outside(r)
             PROVE  ZeroMeansDone'
  BY <1>1 DEF Next
<1> DEFINE Zero == outcome[r] = "zero" =>
                     /\ Good(r) \/ r \in unwritten
                     /\ records[r] # <<>>
                     /\ records[r][1].status = "done" \/ stopper[r] # "none"
<1> SUFFICES ASSUME r \in Streamed PROVE Zero'
  BY OthersAreUntouched
<1>2. CASE outcome[r] = "zero"
  <2>1. pc[r] = "over" /\ ~Alive(r)
    BY <1>2 DEF AttemptsCount, NoAgentLeftBehind
  <2>2. ~Step(r) /\ ~Faulty(r)
    BY <2>1 DEF Step, Faulty, PickAgent, LaunchAgent, AddRun, SeesKill, Killed, SeesExit,
       FailOnFatalMarker, RecordHealth, EnforceScope, Verify, Returned, Callback,
       AgentErrorCaught, ErrorCaught, LaunchFails, MarkerSwallowed, WriteFails,
       LockErrorEscapes, Interrupted, Crashes, UnheardError
  <2>3. CASE StopWrites(r)
    <3>1. records'[r] # <<>> /\ stopper'[r] = "marked"
      BY <1>2, <2>3, UpdateTypes DEF StopWrites, Logs, Control
    <3> QED
      BY <1>2, <2>3, <3>1 DEF StopWrites, process
  <2>4. CASE Refresh(r)
    BY <1>2, <2>4, RefreshKeepsDone DEF Refresh, process, stopping
  <2> QED
    BY <2>1, <2>2, <2>3, <2>4 DEF Outside, AgentEnds, StopSignals, PidAlive
<1>3. CASE outcome[r] # "zero" /\ outcome'[r] = "zero"
  <2>1. PICK sandbox \in BOOLEAN : Returned(r, sandbox)
    <3>1. \A x : outcome' = [outcome EXCEPT ![r] = x] => outcome'[r] = x
      BY DEF Control
    <3> QED
      BY <1>3, <3>1 DEF Step, Faulty, Outside, PickAgent, LaunchAgent, AddRun, SeesKill,
       Killed, SeesExit, FailOnFatalMarker, RecordHealth, EnforceScope, Verify, Callback,
       AgentErrorCaught, ErrorCaught, LaunchFails, MarkerSwallowed, WriteFails,
       LockErrorEscapes, Interrupted, Crashes, UnheardError, AgentEnds, StopSignals, StopWrites,
       Refresh,
       stopping
  <2>2. pc[r] = "returned" /\ code[r] = "ok"
    BY <1>3, <2>1 DEF Returned
  <2> QED
    BY <2>1, <2>2 DEF Returned, CodeTells, Coded, process, stopping
<1> QED
  BY <1>2, <1>3

\* Labels at which the current attempt has no callback yet.
Before == {"launch", "add", "watch", "deaf", "killed", "marker", "health", "scope",
           "verify", "callback"}

\* Labels at which the health of a streamed run does not hold its current attempt.
Unrecorded == Before \cup {"returned", "agentError", "error"}

\* The health of a streamed run counts its attempts.
ResultsCount ==
    \A r \in Streamed :
        /\ \A i \in DOMAIN health[r] : health[r][i].attempt = i
        /\ pc[r] \in Unrecorded => Len(health[r]) = attempt[r] - 1
        /\ pc[r] \in {"retry", "recordedError"} => Len(health[r]) = attempt[r]
        /\ outcome[r] \in {"zero", "error"} => Len(health[r]) = attempt[r]

\* The result that comes next keeps the count.
LEMMA NextResult ==
  ASSUME NEW s \in Seq(Result), \A i \in DOMAIN s : s[i].attempt = i,
         NEW ok \in BOOLEAN, NEW n, n = Len(s) + 1
  PROVE  LET t == Append(s, [attempt |-> n, ok |-> ok])
         IN Len(t) = n /\ \A i \in DOMAIN t : t[i].attempt = i
<1> DEFINE t == Append(s, [attempt |-> n, ok |-> ok])
<1>1. Len(t) = n /\ DOMAIN t = 1 .. n /\ DOMAIN s = 1 .. Len(s) /\ Len(s) \in Nat
  OBVIOUS
<1>2. \A i \in 1 .. Len(s) : t[i] = s[i]
  OBVIOUS
<1>3. t[n] = [attempt |-> n, ok |-> ok]
  OBVIOUS
<1>4. \A i \in 1 .. n : t[i].attempt = i
  <2> SUFFICES ASSUME NEW i \in 1 .. n PROVE t[i].attempt = i
    OBVIOUS
  <2>1. CASE i = n
    BY <1>3, <2>1
  <2>2. CASE i \in 1 .. Len(s)
    BY <1>1, <1>2, <2>2
  <2> HIDE DEF t
  <2> QED
    BY <1>1, <2>1, <2>2
<1> HIDE DEF t
<1> QED
  BY <1>1, <1>4 DEF t

\* Every error path records exactly one result for its attempt.
LEMMA ResultsCountInv ==
  Control /\ Logs /\ AttemptsCount /\ ResultsCount /\ [Next]_vars => ResultsCount'
<1> SUFFICES ASSUME Control, Logs, AttemptsCount, ResultsCount, [Next]_vars
             PROVE  ResultsCount'
  OBVIOUS
<1> USE BlockingAssumption, AttemptBound DEF ResultsCount, Unrecorded, Before
<1>1. CASE UNCHANGED vars
  BY <1>1 DEF vars
<1> SUFFICES ASSUME NEW r \in Runs, Step(r) \/ Faulty(r) \/ Outside(r)
             PROVE  ResultsCount'
  BY <1>1 DEF Next
<1> DEFINE Counts ==
        /\ \A i \in DOMAIN health[r] : health[r][i].attempt = i
        /\ pc[r] \in Unrecorded => Len(health[r]) = attempt[r] - 1
        /\ pc[r] \in {"retry", "recordedError"} => Len(health[r]) = attempt[r]
        /\ outcome[r] \in {"zero", "error"} => Len(health[r]) = attempt[r]
<1> SUFFICES ASSUME r \in Streamed PROVE Counts'
  BY OthersAreUntouched
<1>a. /\ Counts /\ health[r] \in Seq(Result)
      /\ attempt[r] \in 0 .. MaxAttempts /\ Len(health[r]) \in Nat
  BY DEF Logs, Control
<1>b. /\ pc[r] = "idle" => attempt[r] = 0 /\ Len(health[r]) = 0
      /\ pc[r] = "over" <=> outcome[r] # "none"
      /\ pc[r] \notin {"idle", "over"} => attempt[r] >= 1
  <2>1. pc[r] = "idle" => attempt[r] = 0 /\ health[r] = <<>>
    BY DEF AttemptsCount
  <2>2. pc[r] = "over" <=> outcome[r] # "none"
    BY DEF AttemptsCount
  <2>3. pc[r] \notin {"idle", "over"} => attempt[r] >= 1
    BY DEF AttemptsCount
  <2> QED
    BY <2>1, <2>2, <2>3
<1>c. \A ok \in BOOLEAN : RecordResult(r, ok) /\ pc[r] \in Unrecorded =>
          /\ Len(health'[r]) = attempt[r]
          /\ \A i \in DOMAIN health'[r] : health'[r][i].attempt = i
  <2> SUFFICES ASSUME NEW ok \in BOOLEAN, RecordResult(r, ok), pc[r] \in Unrecorded
               PROVE  /\ Len(health'[r]) = attempt[r]
                      /\ \A i \in DOMAIN health'[r] : health'[r][i].attempt = i
    OBVIOUS
  <2>1. health'[r] = Append(health[r], [attempt |-> attempt[r], ok |-> ok])
    BY DEF RecordResult, Logs
  <2>2. attempt[r] = Len(health[r]) + 1
    BY <1>a
  <2> QED
    BY <1>a, <2>1, <2>2, NextResult
<1> HIDE DEF Counts
<1>2. CASE PickAgent(r) \/ LaunchAgent(r) \/ \E heard \in BOOLEAN : AddRun(r, heard)
  <2>1. CASE PickAgent(r)
    <3>1. pc'[r] = "launch" /\ attempt'[r] = attempt[r] + 1 /\ UNCHANGED <<health, outcome>>
      BY <2>1 DEF PickAgent, GoTo, Control
    <3>2. Len(health[r]) = attempt[r] /\ outcome[r] = "none"
      BY <1>a, <1>b, <2>1 DEF PickAgent, Counts
    <3> QED
      BY <1>a, <3>1, <3>2 DEF Counts
  <2>2. CASE LaunchAgent(r) \/ \E heard \in BOOLEAN : AddRun(r, heard)
    BY <1>a, <1>b, <2>2 DEF LaunchAgent, AddRun, GoTo, Control, Counts
  <2> QED
    BY <1>2, <2>1, <2>2
<1>3. CASE SeesKill(r) \/ Killed(r) \/ SeesExit(r) \/ FailOnFatalMarker(r) \/ RecordHealth(r)
  BY <1>a, <1>b, <1>3 DEF SeesKill, Killed, SeesExit, FailOnFatalMarker, RecordHealth,
     GoTo, Control, Counts
<1>4. CASE EnforceScope(r) \/ Callback(r) \/ \E ok \in BOOLEAN : Verify(r, ok)
  BY <1>a, <1>b, <1>4 DEF EnforceScope, Callback, Verify, GoTo, Control, Counts
<1>5. ASSUME NEW sandbox \in BOOLEAN, Returned(r, sandbox) PROVE Counts'
  <2>1. RecordResult(r, code[r] = "ok") /\ pc[r] = "returned" /\ UNCHANGED attempt
    BY <1>5 DEF Returned
  <2>2. pc'[r] \in {"recordedError", "over"}
    BY <1>5 DEF Returned, GoTo, Control
  <2> QED
    BY <1>c, <2>1, <2>2 DEF Counts
<1>6. CASE AgentErrorCaught(r) \/ ErrorCaught(r)
  <2>1. CASE pc[r] = "recordedError"
    BY <1>a, <1>6, <2>1 DEF AgentErrorCaught, ErrorCaught, GoTo, Control, Counts
  <2>2. CASE pc[r] # "recordedError"
    <3>1. RecordResult(r, FALSE) /\ pc[r] \in {"agentError", "error"} /\ UNCHANGED attempt
      BY <1>6, <2>2 DEF AgentErrorCaught, ErrorCaught
    <3>2. pc'[r] \in {"retry", "over"}
      BY <1>6 DEF AgentErrorCaught, ErrorCaught, GoTo, Control
    <3> QED
      BY <1>c, <3>1, <3>2 DEF Counts
  <2> QED
    BY <2>1, <2>2
<1>7. CASE Faulty(r)
  <2>1. CASE LaunchFails(r) \/ MarkerSwallowed(r) \/ WriteFails(r)
    BY <1>a, <1>b, <2>1 DEF LaunchFails, MarkerSwallowed, WriteFails, GoTo, Control, Counts
  <2>2. CASE LockErrorEscapes(r) \/ Interrupted(r) \/ Crashes(r) \/ UnheardError(r)
    BY <1>a, <1>b, <2>2 DEF LockErrorEscapes, Interrupted, Crashes, UnheardError, GoTo, Control,
       Counts
  <2> QED
    BY <1>7, <2>1, <2>2 DEF Faulty
<1>8. CASE Outside(r)
  BY <1>a, <1>8 DEF Outside, AgentEnds, StopSignals, StopWrites, Refresh, Counts
<1> QED
  BY <1>2, <1>3, <1>4, <1>5, <1>6, <1>7, <1>8 DEF Step

\* The callbacks of a run are for different attempts, the current one has none
\* before its callback, and "done" is said only of a good agent.
CallbacksTell ==
    \A r \in Runs :
        /\ \A i \in DOMAIN callbacks[r] :
              /\ callbacks[r][i].attempt <= attempt[r]
              /\ pc[r] \in Before => callbacks[r][i].attempt < attempt[r]
              /\ callbacks[r][i] = [attempt |-> attempt[r], status |-> "done"] =>
                    child[r] = "ok" /\ (marker[r] = "none" \/ r \in unwritten)
        /\ \A i, j \in DOMAIN callbacks[r] :
              callbacks[r][i].attempt = callbacks[r][j].attempt => i = j

\* Calls for different attempts, and calls for attempts before the n-th.
Distinct(s) == \A i, j \in DOMAIN s : s[i].attempt = s[j].attempt => i = j
Earlier(s, n) == \A i \in DOMAIN s : s[i].attempt < n

\* A call for a new attempt differs from all before it.
LEMMA NextCall ==
  ASSUME NEW s \in Seq(Call), NEW n \in Nat, Earlier(s, n), Distinct(s),
         NEW status \in {"done", "failed"}
  PROVE  LET t == Append(s, [attempt |-> n, status |-> status])
         IN /\ Distinct(t)
            /\ \A i \in DOMAIN t :
                  /\ t[i].attempt <= n
                  /\ t[i] = [attempt |-> n, status |-> "done"] => status = "done"
<1> DEFINE t == Append(s, [attempt |-> n, status |-> status])
           m == Len(s) + 1
<1>1. DOMAIN t = 1 .. m /\ DOMAIN s = 1 .. Len(s) /\ Len(s) \in Nat
  OBVIOUS
<1>2. \A i \in 1 .. Len(s) : t[i] = s[i] /\ s[i] \in Call
  BY ElementOfSeq
<1>3. t[m] = [attempt |-> n, status |-> status]
  OBVIOUS
<1> HIDE DEF t
<1>4. \A i \in 1 .. Len(s) : t[i].attempt < n /\ t[i].attempt \in Nat
  <2> SUFFICES ASSUME NEW i \in 1 .. Len(s)
               PROVE  t[i].attempt < n /\ t[i].attempt \in Nat
    OBVIOUS
  <2>1. t[i] = s[i] /\ s[i].attempt \in 1 .. MaxAttempts /\ s[i].attempt < n
    BY <1>1, <1>2 DEF Call, Earlier
  <2> QED
    BY <2>1, AttemptBound
<1>5. \A i \in 1 .. m : i # m => i \in 1 .. Len(s)
  BY <1>1
<1>6. t[m].attempt = n /\ t[m].status = status
  BY <1>3
<1> HIDE DEF m
<1>7. \A i \in DOMAIN t :
        t[i].attempt <= n /\ (t[i] = [attempt |-> n, status |-> "done"] => status = "done")
  BY <1>1, <1>4, <1>5, <1>6
<1>8. Distinct(t)
  BY <1>1, <1>2, <1>4, <1>5, <1>6 DEF Distinct
<1> QED
  BY <1>7, <1>8 DEF t

\* Every path executes at most one callback for its attempt.
LEMMA CallbacksTellInv ==
  /\ Control /\ Logs /\ AttemptsCount /\ CodeTells /\ CallbacksTell
  /\ [Next]_vars
  => CallbacksTell'
<1> SUFFICES ASSUME Control, Logs, AttemptsCount, CodeTells, CallbacksTell, [Next]_vars
             PROVE  CallbacksTell'
  OBVIOUS
<1> USE BlockingAssumption, AttemptBound DEF CallbacksTell, Before, lost
<1>1. CASE UNCHANGED vars
  BY <1>1 DEF vars
<1> SUFFICES ASSUME NEW r \in Runs, Step(r) \/ Faulty(r) \/ Outside(r)
             PROVE  CallbacksTell'
  BY <1>1 DEF Next
<1> DEFINE Tell ==
        /\ \A i \in DOMAIN callbacks[r] :
              /\ callbacks[r][i].attempt <= attempt[r]
              /\ pc[r] \in Before => callbacks[r][i].attempt < attempt[r]
              /\ callbacks[r][i] = [attempt |-> attempt[r], status |-> "done"] =>
                    child[r] = "ok" /\ (marker[r] = "none" \/ r \in unwritten)
        /\ \A i, j \in DOMAIN callbacks[r] :
              callbacks[r][i].attempt = callbacks[r][j].attempt => i = j
<1> SUFFICES Tell'
  BY OthersAreUntouched
<1>a. /\ Tell /\ callbacks[r] \in Seq(Call) /\ attempt[r] \in Nat
      /\ \A i \in DOMAIN callbacks[r] :
            callbacks[r][i] \in Call /\ callbacks[r][i].attempt \in Nat
  <2>1. callbacks[r] \in Seq(Call) /\ attempt[r] \in Nat
    BY DEF Logs, Control
  <2>2. \A i \in DOMAIN callbacks[r] : callbacks[r][i] \in Call
    BY <2>1, ElementOfSeq
  <2> QED
    BY <2>1, <2>2 DEF Call
<1>b. \A status \in {"done", "failed"} :
          /\ ExecuteCallback(r, status) /\ pc[r] \in Before
          /\ pc'[r] \notin Before /\ UNCHANGED <<attempt, process, unwritten>>
          /\ status = "done" => child[r] = "ok" /\ (marker[r] = "none" \/ r \in unwritten)
          => Tell'
  <2> SUFFICES ASSUME NEW status \in {"done", "failed"},
                      ExecuteCallback(r, status), pc[r] \in Before,
                      pc'[r] \notin Before, UNCHANGED <<attempt, process, unwritten>>,
                      status = "done" =>
                         child[r] = "ok" /\ (marker[r] = "none" \/ r \in unwritten)
               PROVE  Tell'
    OBVIOUS
  <2>1. callbacks'[r] = Append(callbacks[r], [attempt |-> attempt[r], status |-> status])
    BY DEF ExecuteCallback, Logs
  <2>2. \A i \in DOMAIN callbacks[r] : callbacks[r][i].attempt < attempt[r]
    BY <1>a
  <2> DEFINE t == callbacks'[r]
  <2>3. /\ \A i \in DOMAIN t : t[i].attempt <= attempt[r]
        /\ \A i, j \in DOMAIN t : t[i].attempt = t[j].attempt => i = j
        /\ \A i \in DOMAIN t :
              t[i] = [attempt |-> attempt[r], status |-> "done"] => status = "done"
    <3>1. Distinct(callbacks[r]) /\ Earlier(callbacks[r], attempt[r])
      BY <1>a, <2>2 DEF Distinct, Earlier
    <3>2. callbacks[r] \in Seq(Call) /\ attempt[r] \in Nat
      BY <1>a
    <3>3. LET u == Append(callbacks[r], [attempt |-> attempt[r], status |-> status])
          IN /\ Distinct(u)
             /\ \A i \in DOMAIN u :
                   /\ u[i].attempt <= attempt[r]
                   /\ u[i] = [attempt |-> attempt[r], status |-> "done"] => status = "done"
      BY ONLY <3>1, <3>2, NextCall, status \in {"done", "failed"}
    <3> QED
      BY <2>1, <3>3 DEF Distinct
  <2>4. /\ attempt'[r] = attempt[r] /\ child'[r] = child[r]
        /\ marker'[r] = marker[r] /\ unwritten' = unwritten
    BY DEF process
  <2> QED
    BY <2>3, <2>4
<1> HIDE DEF Tell
<1>2. CASE PickAgent(r)
  <2>1. attempt'[r] = attempt[r] + 1 /\ callbacks' = callbacks
    BY <1>2 DEF PickAgent, Control
  <2>2. \A i \in DOMAIN callbacks[r] : callbacks[r][i].attempt < attempt'[r]
    BY <1>a, <2>1 DEF Tell
  <2> QED
    BY <1>a, <2>1, <2>2 DEF Tell
<1>3. CASE LaunchAgent(r) \/ LaunchFails(r)
  BY <1>a, <1>3 DEF LaunchAgent, LaunchFails, GoTo, Control, Tell
<1>4. CASE \E heard \in BOOLEAN : AddRun(r, heard)
  BY <1>a, <1>4 DEF AddRun, GoTo, Control, Tell, process
<1>5. CASE SeesKill(r)
  BY <1>a, <1>5 DEF SeesKill, GoTo, Control, Tell
<1>6. CASE Killed(r) \/ SeesExit(r) \/ FailOnFatalMarker(r) \/ RecordHealth(r)
  BY <1>a, <1>6 DEF Killed, SeesExit, FailOnFatalMarker, RecordHealth, GoTo, Control,
     Tell, process
<1>7. CASE EnforceScope(r)
  <2>1. CASE r \in Scoped /\ r \in strayed
    BY <1>7, <1>b, <2>1 DEF EnforceScope, GoTo, Control
  <2>2. CASE ~(r \in Scoped /\ r \in strayed)
    BY <1>a, <1>7, <2>2 DEF EnforceScope, GoTo, Control, Tell, process
  <2> QED
    BY <2>1, <2>2
<1>8. ASSUME NEW ok \in BOOLEAN, Verify(r, ok) PROVE Tell'
  <2>1. CASE ~ok
    BY <1>8, <1>b, <2>1 DEF Verify, GoTo, Control
  <2>2. CASE ok
    BY <1>a, <1>8, <2>2 DEF Verify, GoTo, Control, Tell, process
  <2> QED
    BY <2>1, <2>2
<1>9. CASE Callback(r)
  <2>1. code[r] = "ok" => child[r] = "ok" /\ (marker[r] = "none" \/ r \in unwritten)
    BY <1>9 DEF CodeTells, Coded, Callback
  <2> QED
    BY <1>9, <1>b, <2>1 DEF Callback, GoTo, Control
<1>10. CASE AgentErrorCaught(r) \/ \E sandbox \in BOOLEAN : Returned(r, sandbox)
  <2>1. UNCHANGED <<attempt, child, marker, callbacks, unwritten>>
    BY <1>10 DEF AgentErrorCaught, Returned, process
  <2>2. pc'[r] \in {"retry", "over", "recordedError", "agentError"}
    <3>1. CASE AgentErrorCaught(r)
      BY <3>1 DEF AgentErrorCaught, GoTo, Control
    <3>2. CASE \E sandbox \in BOOLEAN : Returned(r, sandbox)
      BY <3>2 DEF Returned, GoTo, Control
    <3> QED
      BY <1>10, <3>1, <3>2
  <2> QED
    BY <1>a, <2>1, <2>2 DEF Tell
<1>11. CASE ErrorCaught(r)
  <2>1. child'[r] = child[r] \/ child[r] = "alive"
    BY <1>11 DEF ErrorCaught, Control
  <2>2. pc'[r] = "over" /\ UNCHANGED <<attempt, marker, callbacks, unwritten>>
    BY <1>11 DEF ErrorCaught, GoTo, Control
  <2> QED
    BY <1>a, <2>1, <2>2 DEF Tell
<1>12. CASE MarkerSwallowed(r) \/ WriteFails(r) \/ Crashes(r) \/ UnheardError(r)
  BY <1>a, <1>12 DEF MarkerSwallowed, WriteFails, Crashes, UnheardError, GoTo, Control, Tell,
     process
<1>13. CASE LockErrorEscapes(r) \/ Interrupted(r)
  <2>1. child'[r] = child[r] \/ child[r] = "alive"
    BY <1>13 DEF LockErrorEscapes, Interrupted, Control
  <2>2. pc'[r] = "over" /\ UNCHANGED <<attempt, marker, callbacks, unwritten>>
    BY <1>13 DEF LockErrorEscapes, Interrupted, GoTo, Control
  <2> QED
    BY <1>a, <2>1, <2>2 DEF Tell
<1>14. ASSUME NEW how \in {"ok", "failed"}, NEW m \in {"none", "fatal", "quota"},
              NEW b \in BOOLEAN, AgentEnds(r, how, m, b)
       PROVE  Tell'
  BY <1>a, <1>14 DEF AgentEnds, Alive, Control, Tell
<1>15. ASSUME NEW force \in BOOLEAN, StopSignals(r, force) PROVE Tell'
  BY <1>a, <1>15 DEF StopSignals, PidAlive, Alive, Control, Tell
<1>16. CASE StopWrites(r) \/ Refresh(r)
  BY <1>a, <1>16 DEF StopWrites, Refresh, process, Tell
<1> QED
  BY <1>2, <1>3, <1>4, <1>5, <1>6, <1>7, <1>8, <1>9, <1>10, <1>11, <1>12, <1>13, <1>14,
     <1>15, <1>16 DEF Step, Faulty, Outside

\* The candidate n, counted on from a candidate and at most once around.
Around(n) == IF n < Candidates THEN n ELSE n - Candidates

\* The index is the last pick; while one run picks alone, each of its picks was
\* an attempt of its own and moved the index on by one.
PicksGoRound ==
    /\ picks # <<>> => index = picks[Len(picks)][2]
    /\ \A i \in DOMAIN picks, r \in Runs :
          (\A k \in i .. Len(picks) : picks[k][1] = r) =>
             /\ Len(picks) - i < attempt[r]
             /\ index = Around(picks[i][2] + (Len(picks) - i))

\* pickAgent: the successor of an index, around the list.
LEMMA NextAgent ==
  ASSUME NEW n \in Agents
  PROVE  (n + 1) % Candidates = IF n + 1 = Candidates THEN 0 ELSE n + 1
<1>1. CASE n + 1 = Candidates
  BY <1>1, BlockingAssumption DEF Agents
<1>2. CASE n + 1 < Candidates
  BY <1>2, BlockingAssumption DEF Agents
<1> QED
  BY <1>1, <1>2, BlockingAssumption DEF Agents

\* Counting on: fewer steps than candidates do not come back, and the next one.
LEMMA CountingOn ==
  ASSUME NEW x \in Agents, NEW d \in Nat, d + 1 < Candidates
  PROVE  /\ Around(x + (d + 1)) # x
         /\ Around(x + (d + 1)) =
              IF Around(x + d) + 1 = Candidates THEN 0 ELSE Around(x + d) + 1
<1>1. x \in Nat /\ x < Candidates /\ Candidates \in Nat
  BY BlockingAssumption DEF Agents
<1>2. CASE x + (d + 1) < Candidates
  BY <1>1, <1>2 DEF Around
<1>3. CASE x + (d + 1) >= Candidates
  BY <1>1, <1>3 DEF Around
<1> QED
  BY <1>1, <1>2, <1>3

\* Nobody but pickAgent touches the index, the picks or the attempts.
LEMMA OnlyPicksPick ==
  ASSUME NEW r \in Runs, Step(r) \/ Faulty(r) \/ Outside(r)
  PROVE  PickAgent(r) \/ UNCHANGED <<index, picks, attempt>>
<1>1. CASE Step(r)
  BY <1>1 DEF Step, LaunchAgent, AddRun, SeesKill, Killed, SeesExit, FailOnFatalMarker,
     RecordHealth, EnforceScope, Verify, Returned, Callback, AgentErrorCaught, ErrorCaught,
     scheduler
<1>2. CASE Faulty(r)
  BY <1>2 DEF Faulty, LaunchFails, MarkerSwallowed, WriteFails, LockErrorEscapes,
     Interrupted, Crashes, UnheardError, scheduler
<1>3. CASE Outside(r)
  BY <1>3 DEF Outside, AgentEnds, StopSignals, StopWrites, Refresh, scheduler
<1> QED
  BY <1>1, <1>2, <1>3

\* What a pick makes of the history.
LEMMA Picked ==
  ASSUME Control, Logs, NEW r \in Runs, PickAgent(r)
  PROVE  /\ index' = IF index + 1 = Candidates THEN 0 ELSE index + 1
         /\ index' \in Agents
         /\ attempt'[r] = attempt[r] + 1
         /\ Len(picks') = Len(picks) + 1
         /\ Len(picks) \in Nat /\ DOMAIN picks = 1 .. Len(picks)
         /\ DOMAIN picks' = 1 .. Len(picks) + 1
         /\ picks'[Len(picks) + 1] = <<r, index'>>
         /\ \A i \in DOMAIN picks : picks'[i] = picks[i] /\ picks[i] \in Runs \X Agents
<1>1. index' = IF index + 1 = Candidates THEN 0 ELSE index + 1
  BY NextAgent DEF PickAgent, Control
<1>2. index' \in Agents
  BY <1>1, BlockingAssumption DEF Control, Agents
<1>3. attempt'[r] = attempt[r] + 1
  BY DEF PickAgent, Control
<1>4. picks' = Append(picks, <<r, index'>>) /\ picks \in Seq(Runs \X Agents)
  BY DEF PickAgent, Logs
<1>5. <<r, index'>> \in Runs \X Agents
  BY <1>2
<1> QED
  BY <1>1, <1>2, <1>3, <1>4, <1>5, AppendProperties, ElementOfSeq, LenProperties

\* Every pick moves the index on by one.
LEMMA PicksGoRoundInv ==
  Control /\ Control' /\ Logs /\ PicksGoRound /\ [Next]_vars => PicksGoRound'
<1> SUFFICES ASSUME Control, Control', Logs, PicksGoRound, [Next]_vars PROVE PicksGoRound'
  OBVIOUS
<1>1. CASE UNCHANGED <<index, picks, attempt>>
  BY <1>1 DEF PicksGoRound
<1>2. ASSUME NEW r \in Runs, PickAgent(r) PROVE PicksGoRound'
  <2> DEFINE n == Len(picks)
  <2>1. /\ index' = IF index + 1 = Candidates THEN 0 ELSE index + 1
        /\ index' \in Agents
        /\ attempt'[r] = attempt[r] + 1
        /\ Len(picks') = n + 1
        /\ n \in Nat /\ DOMAIN picks = 1 .. n /\ DOMAIN picks' = 1 .. n + 1
        /\ picks'[n + 1] = <<r, index'>>
        /\ \A i \in 1 .. n : picks'[i] = picks[i] /\ picks[i] \in Runs \X Agents
    BY <1>2, Picked
  <2>2. /\ attempt[r] \in Nat /\ attempt'[r] <= Candidates
        /\ index \in Agents /\ Candidates \in Nat \ {0}
    BY AttemptBound, BlockingAssumption DEF Control
  <2>3. ASSUME NEW i \in DOMAIN picks', NEW q \in Runs,
               \A k \in i .. Len(picks') : picks'[k][1] = q
        PROVE  /\ Len(picks') - i < attempt'[q]
               /\ index' = Around(picks'[i][2] + (Len(picks') - i))
    <3>1. q = r
      BY <2>1, <2>3
    <3>2. CASE i = n + 1
      BY <2>1, <2>2, <3>1, <3>2 DEF Around, Agents
    <3>3. CASE i \in 1 .. n
      <4>1. \A k \in i .. n : picks[k][1] = r
        BY <2>1, <2>3, <3>1, <3>3
      <4>2. n - i < attempt[r] /\ index = Around(picks[i][2] + (n - i))
        BY <2>1, <3>3, <4>1 DEF PicksGoRound
      <4>3. picks[i][2] \in 0 .. Candidates - 1
        BY <2>1, <3>3 DEF Agents
      <4> DEFINE p == picks[i][2]
      <4>4. p \in 0 .. Candidates - 1 /\ index = Around(p + (n - i)) /\ picks'[i][2] = p
        BY <2>1, <3>3, <4>2, <4>3
      <4> HIDE DEF n, p
      <4>5. n + 1 - i < attempt[r] + 1 /\ n + 1 - i <= Candidates - 1
        BY <2>1, <2>2, <3>3, <4>2
      <4>6. n - i \in Nat /\ n + 1 - i = (n - i) + 1 /\ (n - i) + 1 < Candidates
        BY <2>1, <2>2, <3>3, <4>5
      <4>7. index' = Around(p + ((n - i) + 1))
        BY <2>1, <4>3, <4>4, <4>6, CountingOn DEF Agents
      <4>8. Len(picks') - i = n + 1 - i
        BY <2>1 DEF n
      <4> QED
        BY <2>1, <3>1, <4>4, <4>5, <4>6, <4>7, <4>8
    <3> QED
      BY <2>1, <2>3, <3>2, <3>3
  <2>4. index' = picks'[Len(picks')][2]
    BY <2>1
  <2> QED
    BY <2>3, <2>4 DEF PicksGoRound
<1> QED
  BY <1>1, <1>2, OnlyPicksPick DEF Next, vars

\* Fewer picks than candidates do not come back to an agent.
LEMMA RetryTakesAnotherInv ==
  /\ Control /\ Control' /\ Logs /\ PicksGoRound' /\ RetryTakesAnotherUnlessRaced
  /\ [Next]_vars
  => RetryTakesAnotherUnlessRaced'
<1> SUFFICES ASSUME Control, Control', Logs, PicksGoRound', RetryTakesAnotherUnlessRaced,
                    [Next]_vars
             PROVE  RetryTakesAnotherUnlessRaced'
  OBVIOUS
<1>1. CASE UNCHANGED <<index, picks, attempt>>
  BY <1>1 DEF RetryTakesAnotherUnlessRaced
<1>2. ASSUME NEW r \in Runs, PickAgent(r) PROVE RetryTakesAnotherUnlessRaced'
  <2> DEFINE n == Len(picks)
  <2>1. /\ index' \in Agents
        /\ Len(picks') = n + 1
        /\ n \in Nat /\ DOMAIN picks = 1 .. n /\ DOMAIN picks' = 1 .. n + 1
        /\ picks'[n + 1] = <<r, index'>>
        /\ \A i \in 1 .. n : picks'[i] = picks[i] /\ picks[i] \in Runs \X Agents
    BY <1>2, Picked
  <2>2. attempt'[r] <= Candidates /\ attempt'[r] \in Nat /\ Candidates \in Nat \ {0}
    BY AttemptBound, BlockingAssumption DEF Control
  <2> HIDE DEF n
  <2>3. ASSUME NEW i \in 1 .. n + 1, NEW j \in 1 .. n + 1, i < j, picks'[i] = picks'[j],
               \A k \in i .. j : picks'[k][1] = picks'[i][1]
        PROVE  FALSE
    <3>1. CASE j \in 1 .. n
      <4>1. i \in 1 .. n /\ picks[i] = picks[j]
        BY <2>1, <2>3, <3>1
      <4>2. \A k \in i .. j : picks[k][1] = picks[i][1]
        BY <2>1, <2>3, <3>1, <4>1
      <4> QED
        BY <2>1, <2>3, <3>1, <4>1, <4>2 DEF RetryTakesAnotherUnlessRaced
    <3>2. CASE j = n + 1
      <4>1. i \in 1 .. n /\ picks'[i] = <<r, index'>>
        BY <2>1, <2>3, <3>2
      <4>2. \A k \in i .. n + 1 : picks'[k][1] = r
        BY <2>3, <3>2, <4>1
      <4>3. n + 1 - i < attempt'[r] /\ index' = Around(index' + (n + 1 - i))
        BY <2>1, <4>1, <4>2 DEF PicksGoRound
      <4>4. n - i \in Nat /\ n + 1 - i = (n - i) + 1 /\ (n - i) + 1 < Candidates
        BY <2>1, <2>2, <4>1, <4>3
      <4>5. index' \in Agents
        BY <2>1
      <4>6. Around(index' + ((n - i) + 1)) # index'
        BY <4>4, <4>5, CountingOn
      <4> QED
        BY <4>3, <4>4, <4>6
    <3> QED
      BY <2>1, <2>3, <3>1, <3>2
  <2> QED
    BY <2>1, <2>3 DEF RetryTakesAnotherUnlessRaced
<1> QED
  BY <1>1, <1>2, OnlyPicksPick DEF Next, vars

-----------------------------------------------------------------------------

\* The inductive invariant.
BlockingInv ==
    /\ Control /\ Logs /\ AttemptsCount /\ AgentIsGone /\ NoAgentLeftBehind
    /\ CodeTells /\ ErrorTells /\ ZeroMeansDone /\ ResultsCount /\ CallbacksTell
    /\ PicksGoRound /\ RetryTakesAnotherUnlessRaced

\* The inductive invariant holds in every reachable state.
THEOREM BlockingInvariant == Spec => []BlockingInv
<1>1. Init => BlockingInv
  <2> SUFFICES ASSUME Init PROVE BlockingInv
    OBVIOUS
  <2>1. Control /\ Logs
    BY BlockingAssumption, AttemptBound, EmptySeq DEF Init, Control, Logs, Agents
  <2>2. /\ AttemptsCount /\ AgentIsGone /\ NoAgentLeftBehind /\ CodeTells /\ ErrorTells
        /\ ZeroMeansDone
    BY BlockingAssumption DEF Init, AttemptsCount, AgentIsGone, NoAgentLeftBehind, CodeTells,
       Coded, ErrorTells, ZeroMeansDone, Alive
  <2>3. ResultsCount /\ CallbacksTell
    BY BlockingAssumption, AttemptBound DEF Init, ResultsCount, CallbacksTell, Unrecorded,
       Before
  <2>4. PicksGoRound /\ RetryTakesAnotherUnlessRaced
    BY DEF Init, PicksGoRound, RetryTakesAnotherUnlessRaced
  <2> QED
    BY <2>1, <2>2, <2>3, <2>4 DEF BlockingInv
<1>2. BlockingInv /\ [Next]_vars => BlockingInv'
  BY ControlTypes, LogTypes, AttemptsInv, AgentIsGoneInv, LeftBehindInv, CodeTellsInv,
     ErrorTellsInv, ZeroMeansDoneInv, ResultsCountInv, CallbacksTellInv, PicksGoRoundInv,
     RetryTakesAnotherInv DEF BlockingInv
<1> QED
  BY <1>1, <1>2, PTL DEF Spec

\* Every variable has its type, and no run makes more attempts than 1 + retries
\* or than there are agents.
THEOREM BlockingTypeOK == Spec => []TypeOK
<1>1. BlockingInv => TypeOK
  BY TypesSplit DEF BlockingInv
<1> QED
  BY <1>1, BlockingInvariant, PTL

\* Exit code, health, record and callback of a run agree with each other and with
\* what its agents did, but for the named losses: for any number of concurrent
\* runs, candidates, retries, stops and faults.
THEOREM ReportsTrue == Spec => []ReportsAreTrue
<1>1. BlockingInv => ReportsAreTrue
  <2> SUFFICES ASSUME BlockingInv PROVE ReportsAreTrue
    OBVIOUS
  <2> USE BlockingAssumption DEF BlockingInv
  <2>1. OneResultPerAttempt /\ CallbackTellsTheTruth
    BY DEF OneResultPerAttempt, ResultsCount, CallbackTellsTheTruth, CallbacksTell
  <2>2. ErrorIsOnRecord
    <3>1. \A r \in Streamed : outcome[r] = "error" => pc[r] \notin Coded
      BY DEF AttemptsCount, Coded
    <3> QED
      BY <3>1 DEF ErrorIsOnRecord, ErrorTells
  <2> QED
    BY <2>1, <2>2 DEF ReportsAreTrue
<1> QED
  BY <1>1, BlockingInvariant, PTL

\* An agent that outlives -s was left by an end that run() does not see: no return,
\* no error of a write and no SIGINT or SIGTERM leaves one.
THEOREM NoAgentStays == Spec => []NoAgentLeftBehind
<1>1. BlockingInv => NoAgentLeftBehind
  BY DEF BlockingInv
<1> QED
  BY <1>1, BlockingInvariant, PTL

\* A retry takes another agent unless another run picked in between.
THEOREM RetryMovesOn == Spec => []RetryTakesAnotherUnlessRaced
<1>1. BlockingInv => RetryTakesAnotherUnlessRaced
  BY DEF BlockingInv
<1> QED
  BY <1>1, BlockingInvariant, PTL
=============================================================================
