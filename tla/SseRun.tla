------------------------------- MODULE SseRun -------------------------------
(***************************************************************************)
(* A run with --sse, from inside: defaultSpawner's SSE path and the end of *)
(* run() (runner.ts), the same for the MCP tool run_prompt (mcp/tools.ts). *)
(* The process has one hub, its own server or the daemon behind a queue    *)
(* (hub.ts), publishes a start event, the lines its tailer finds in the    *)
(* agent's log and one event at the end, and leaves.                       *)
(*                                                                         *)
(* How an attempt comes to its outcome is BlockingRun's matter, and what   *)
(* clients see of the events EventStream's; lines are whole (LogReaders).  *)
(***************************************************************************)
EXTENDS Naturals, Sequences, Functions

CONSTANTS Attempts, MaxLines      \* maxAttempts; bound: lines of all logs

VARIABLES
  mode,     \* "stream" (-s), "detached" (without), "mcp"
  attempt,  \* the attempt under way
  pc,       \* where the process is, see TypeOK
  outcome,  \* of the attempt: "none", "ok", "exit" (the agent failed), "verify", "timeout", or
            \* "unsaved" (its record could not be written)
  log,      \* [1..Attempts -> lines its agent wrote]
  read,     \* lines the tailer has read of the current log
  tailing,  \* the tailer is polling
  hub,      \* processHub: "none", "own" or "daemon"
  queue,    \* events on their way to the daemon, oldest first
  events,   \* events/<runId>.jsonl
  dropped,  \* events no writer took (history)
  started   \* attempts whose agent was launched (history)

vars == <<mode, attempt, pc, outcome, log, read, tailing, hub, queue, events, dropped,
          started>>

Init ==
  /\ mode \in {"stream", "detached", "mcp"} /\ attempt = 1 /\ pc = "begin" /\ outcome = "none"
  /\ log = [a \in 1..Attempts |-> 0] /\ read = 0 /\ tailing = FALSE
  /\ hub = "none"
  /\ queue = <<>> /\ events = <<>> /\ dropped = {} /\ started = {}

\* Events: of an attempt, of a type, and for a line its number.
Event(what) == <<attempt, what, 0>>
Lines == [i \in 1..(log[attempt] - read) |-> <<attempt, "line", read + i>>]

\* publish: the own hub writes at once, the daemon's is a queue.
Publish(es) ==
  IF hub = "own" THEN events' = events \o es /\ UNCHANGED queue
  ELSE queue' = queue \o es /\ UNCHANGED events

-----------------------------------------------------------------------------
\* getProcessHub: the hub of this process if it has one, else that of the daemon if it
\* answers, else one of its own.  (`at serve --daemon' may come and go at any time.)
HubNow(h) == IF hub # "none" THEN h = hub ELSE h \in {"own", "daemon"}

Open ==
  /\ pc = "begin" /\ pc' = "launch"
  /\ \E h \in {"own", "daemon"} : HubNow(h) /\ hub' = h
  /\ UNCHANGED <<mode, attempt, outcome, log, read, tailing, queue, events, dropped, started>>

\* launchAgent: the agent cannot be started, or its record cannot be added.
LaunchFails ==
  /\ pc = "launch" /\ pc' \in {"retriable", "thrown"}
  /\ UNCHANGED <<mode, attempt, outcome, log, read, tailing, hub, queue, events, dropped,
                 started>>

Launch ==
  /\ pc = "launch" /\ pc' = "running" /\ outcome' = "none"
  /\ started' = started \cup {attempt}
  /\ tailing' = TRUE /\ read' = 0
  /\ Publish(<<Event("start")>>)
  /\ UNCHANGED <<mode, attempt, log, hub, dropped>>

Write ==
  /\ pc = "running" /\ FoldFunction(+, 0, log) < MaxLines
  /\ log' = [log EXCEPT ![attempt] = @ + 1]
  /\ UNCHANGED <<mode, attempt, pc, outcome, read, tailing, hub, queue, events, dropped,
                 started>>

Tick ==
  /\ tailing /\ read < log[attempt]
  /\ read' = log[attempt] /\ Publish(Lines)
  /\ UNCHANGED <<mode, attempt, pc, outcome, log, tailing, hub, dropped, started>>

\* The attempt comes to its outcome: without -s there is no timeout, the tool does not verify.
Settle ==
  /\ pc = "running" /\ pc' = "settled"
  /\ outcome' \in {"ok", "exit", "unsaved"} \cup (IF mode = "detached" THEN {} ELSE {"timeout"})
                                           \cup (IF mode = "mcp" THEN {} ELSE {"verify"})
  /\ UNCHANGED <<mode, attempt, log, read, tailing, hub, queue, events, dropped, started>>

\* run() throws what the spawner throws; only an AgentError is retried.
AfterSpawner == CASE outcome = "verify" -> "retriable" [] outcome = "timeout" -> "thrown"
                  [] outcome = "unsaved" -> "thrown" [] OTHER -> "naming"

(* Mutant: the last lines are left unread. *)
PublishEndAtOnce(end) ==
  /\ Publish(<<Event(end)>>) /\ tailing' = FALSE
  /\ UNCHANGED <<mode, attempt, outcome, log, read, hub, dropped, started>>

\* The end is published, then the tailer reads for the last time.
PublishEnd(end) ==
  /\ Publish(<<Event(end)>> \o Lines) /\ tailing' = FALSE /\ read' = log[attempt]
  /\ UNCHANGED <<mode, attempt, outcome, log, hub, dropped, started>>

\* With -s an agent that failed is "done", with its exit code; the hub is closed in any case.
EndStreamed ==
  /\ pc = "settled" /\ mode = "stream" /\ pc' = "closing"
  /\ PublishEnd(IF outcome \in {"ok", "exit"} THEN "done" ELSE "failed")

\* Without, the hub stays open after a failed verification.
EndDetached ==
  /\ pc = "settled" /\ mode = "detached" /\ outcome # "unsaved"
  /\ PublishEnd(IF outcome = "ok" THEN "done" ELSE "failed")
  /\ pc' = IF outcome = "verify" THEN "retriable" ELSE "closing"

\* The tool keeps its hub.
EndTool ==
  /\ pc = "settled" /\ mode = "mcp" /\ outcome # "unsaved"
  /\ PublishEnd(CASE outcome = "ok" -> "done" [] outcome = "exit" -> "failed" [] OTHER -> "error")
  /\ pc' = AfterSpawner

\* Without -s a record that cannot be written ends the spawner before any of this.
Unsaved ==
  /\ pc = "settled" /\ outcome = "unsaved" /\ mode # "stream" /\ pc' = "thrown"
  /\ UNCHANGED <<mode, attempt, outcome, log, read, tailing, hub, queue, events, dropped,
                 started>>

-----------------------------------------------------------------------------
\* The daemon takes the oldest event, or is gone or too slow and it is dropped with a warning.
Deliver ==
  /\ queue # <<>> /\ pc # "exited"
  /\ queue' = Tail(queue)
  /\ \/ events' = Append(events, Head(queue)) /\ UNCHANGED dropped
     \/ dropped' = dropped \cup {Head(queue)} /\ UNCHANGED events
  /\ UNCHANGED <<mode, attempt, pc, outcome, log, read, tailing, hub, started>>

\* closeProcessHub: after a short timer that does not keep the process alive, the hub is
\* closed: the server at once, the queue when it is empty.
Grace ==
  /\ pc = "closing" /\ pc' = "draining"
  /\ UNCHANGED <<mode, attempt, outcome, log, read, tailing, hub, queue, events, dropped,
                 started>>

Closed ==
  /\ pc = "draining" /\ (hub = "daemon" => queue = <<>>)
  /\ hub' = "none" /\ pc' = AfterSpawner
  /\ UNCHANGED <<mode, attempt, outcome, log, read, tailing, queue, events, dropped, started>>

\* If the queue is empty before the timer is due nothing is left to wait for, and Node ends.
Vanish ==
  /\ pc = "closing" /\ hub = "daemon" /\ queue = <<>>
  /\ pc' = "exited"
  /\ UNCHANGED <<mode, attempt, outcome, log, read, tailing, hub, queue, events, dropped,
                 started>>

\* run(): naming, whose rename event needs a hub again (the tool's goes to another id);
\* with -s a failed agent is an error now.
Name ==
  /\ pc = "naming"
  /\ \/ UNCHANGED <<hub, queue, events>>
     \/ /\ mode # "mcp"
        /\ \E h \in {"own", "daemon"} :
             /\ HubNow(h) /\ hub' = h
             /\ LET rename == <<Event("rename")>>
                IN IF h = "own" THEN events' = events \o rename /\ UNCHANGED queue
                   ELSE queue' = queue \o rename /\ UNCHANGED events
  /\ pc' = IF outcome = "exit" /\ mode # "detached" THEN "retriable" ELSE "returned"
  /\ UNCHANGED <<mode, attempt, outcome, log, read, tailing, dropped, started>>

\* The next candidate, if there is an attempt left.
Retry ==
  /\ pc = "retriable"
  /\ IF attempt < Attempts THEN pc' = "begin" /\ attempt' = attempt + 1 /\ read' = 0
     ELSE pc' = "thrown" /\ UNCHANGED <<attempt, read>>
  /\ UNCHANGED <<mode, outcome, log, tailing, hub, queue, events, dropped, started>>

\* The command exits at once after an error, whatever is queued ...
ProcessExit ==
  /\ pc = "thrown" /\ mode # "mcp"
  /\ pc' = "exited" /\ queue' = <<>> /\ tailing' = FALSE
  /\ dropped' = dropped \cup {queue[i] : i \in DOMAIN queue}
  /\ UNCHANGED <<mode, attempt, outcome, log, read, hub, events, started>>

\* ... and otherwise when it has nothing more to do: no server, no request.
Leave ==
  /\ pc = "returned" /\ mode # "mcp"
  /\ hub # "own" /\ queue = <<>>
  /\ pc' = "exited"
  /\ UNCHANGED <<mode, attempt, outcome, log, read, tailing, hub, queue, events, dropped,
                 started>>

Next == \/ Open \/ LaunchFails \/ Launch \/ Write \/ Tick \/ Settle
        \/ EndStreamed \/ EndDetached \/ EndTool \/ Unsaved \/ Grace \/ Closed \/ Vanish
        \/ Name \/ Retry \/ ProcessExit \/ Leave \/ Deliver

\* Node ends when nothing is left to do; a request to the daemon ends by its answer or its
\* timeout.
Spec == Init /\ [][Next]_vars /\ WF_vars(Leave) /\ WF_vars(Deliver)

-----------------------------------------------------------------------------
TypeOK ==
  /\ mode \in {"stream", "detached", "mcp"} /\ attempt \in 1..Attempts
  /\ pc \in {"begin", "launch", "running", "settled", "closing", "draining", "naming", "retriable",
             "thrown", "returned", "exited"}
  /\ outcome \in {"none", "ok", "exit", "verify", "timeout", "unsaved"}
  /\ log \in [1..Attempts -> 0..MaxLines] /\ read \in 0..log[attempt]
  /\ tailing \in BOOLEAN /\ hub \in {"none", "own", "daemon"}
  /\ started \subseteq 1..Attempts

\* The ends an attempt's part of the stream may have.
Ends == {"done", "failed", "error"}
Of(a) == SelectSeq(events, LAMBDA e : e[1] = a)
Numbers(es) == [i \in DOMAIN SelectSeq(es, LAMBDA e : e[2] = "line") |->
                 SelectSeq(es, LAMBDA e : e[2] = "line")[i][3]]

\* The file has the attempts one after the other, of each the start first, its lines in order
\* and once, and one end, after which only lines or the name may come.
InOrder ==
  \A i, j \in DOMAIN events : i < j =>
    LET e == events[i]  f == events[j]
    IN /\ e[1] <= f[1]
       /\ e[1] = f[1] =>
            /\ f[2] # "start"
            /\ e[2] = "line" /\ f[2] = "line" => e[3] < f[3]
            /\ e[2] \in Ends => f[2] \in {"line", "rename"}
            /\ e[2] = "rename" => FALSE

\* When the run is over nothing is missing but what the daemon or ProcessExit dropped.
Complete ==
  pc \in {"returned", "exited"} /\ queue = <<>> /\ dropped = {} =>
    \A a \in started :
      /\ Of(a) # <<>> /\ Of(a)[1][2] = "start"
      /\ a < attempt \/ outcome # "unsaved" \/ mode = "stream" =>
           /\ Numbers(Of(a)) = [i \in 1..log[a] |-> i]
           /\ \E i \in DOMAIN Of(a) : Of(a)[i][2] \in Ends

\* An end that ProcessExit may drop is of a run without -s, whose verification failed.
EndsAreSent == pc = "thrown" /\ mode = "stream" => \A i \in DOMAIN queue : queue[i][2] \notin Ends

\* The events of a run tell it: in order and complete but for what the daemon did not take, or
\* was still to take when a failed run left; and a run that returned exits, unless its name
\* opened a server that nothing closes.
EventsTellTheRun ==
  /\ [](InOrder /\ Complete /\ EndsAreSent)
  /\ pc = "returned" /\ mode # "mcp" ~> pc = "exited" \/ hub = "own"

\* "closes the SSE hub after the run so the process can exit": a run that returned exits.
SseRunExits == pc = "returned" /\ mode # "mcp" ~> pc = "exited"
=============================================================================
