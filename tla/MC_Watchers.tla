----------------------------- MODULE MC_Watchers -----------------------------
\* What watches runs from outside: the event stream and its clients, the readers of a log
\* and what they make of its lines, the web page, its offline queue, the processes that name finished runs and the resource
\* guard. They share no state here: a behaviour follows one of them, `part', the others rest.
EXTENDS TLC, Naturals

CONSTANTS
  Logs, Hubs, Clients, Publishes, Watch, At, MaxEvents, MaxBreaks, MaxRetries,  \* EventStream: Logs are its Runs
  Requests, Drains, Kind,                                         \* OfflineRuns
  Finished, Viewers, MaxCrashes,                                  \* NamingQueue: Finished are its Runs
  Calls, Starts, MaxLines,                                        \* LogAdapters: Calls are its Runs
  Trees, TempSustain, CpuSustain, AggSustain, PauseMax, MaxRestarts    \* ResourceGuard

\* The adapters of agents with a format, and the one of the others.
Agents == {"claude", "qwen", "pi", "codex", "kimi", "opencode", "kilo", "kiro", "cline", "log"}

\* Each queued request is a run, one the server refuses, or a message, and none is the mark
\* of an idle drain; the processes of runs and of `at status' are different ones, and none is
\* the mark of a free lock.  A call starts one of the agents.
ASSUME WatchersAssumption ==
  /\ Kind \in [Requests -> {"run", "bad", "say"}] /\ "none" \notin Requests
  /\ Finished \cap Viewers = {} /\ "nobody" \notin Finished \cup Viewers
  /\ Starts \subseteq [Calls -> Agents]

\* A hub publishes events of runs, and a client watches one of them, or all; one run has one writer.
ASSUME StreamAssumption ==
  /\ Publishes \subseteq Hubs \X Logs /\ "all" \notin Logs
  /\ Watch \in [Clients -> Logs \cup {"all"}] /\ At \in [Clients -> Hubs]
  /\ MaxEvents \in Nat /\ MaxBreaks \in Nat /\ MaxRetries \in Nat
  /\ \E r \in Logs, h \in Hubs : {g \in Hubs : <<g, r>> \in Publishes} = {h}

VARIABLES
  part,
  file, counter, up, es, lastId, since, wire, got, base, retries, polling, breaks,   \* EventStream
  log, agent, tpos, tailing, cuts, published, spos, streamer, printed, torn,            \* LogReaders
  adapter, tailer, lines, read, held, recent, events, beside,                           \* LogAdapters
  whose, grouped, input, ended, out, logged, buffer, onPath, binary, attempted,         \* LogChop
  ok, installer, calls, answers, compressing, prints, cleared,
  truth, sse, told, others, stream, page, timer, cache, fetch, list, fails,          \* LiveView
  online, reqPage, store, starts, todo, sending, unheard, shared,                    \* OfflineRuns
  queue, namer, rewriter, pc, jobs, done, kept, named, deferred, cut, crashes,       \* NamingQueue
  tree, paused, pausedFor, hotFor, overAgg, overTree, restarts                       \* ResourceGuard

\* Hubs on one state directory, and clients of theirs.
Stream == INSTANCE EventStream WITH Runs <- Logs

\* A log of seven bytes, written a line or less at a time, some of its characters wide; a buffer
\* of four bytes, which the longest lines exceed.
Readers == INSTANCE LogReaders WITH
  Pieces <- {<<"a", "n">>, <<"a">>, <<"n">>, <<"u", "v", "n">>}, MaxLog <- 7, BufSize <- 4

\* Two calls of run_prompt at a time: of the same agent, or of one and a plain one.
Heard == INSTANCE LogAdapters WITH Runs <- Calls, log <- lines, buffer <- held

\* What a terminal shows of the lines, and the logger.
Chop == INSTANCE LogChop WITH agent <- whose, MaxRead <- 3, MaxLogged <- 3, MaxCalls <- 3

\* Two lists may be on their way at once, one request fails.
View == INSTANCE LiveView WITH Fetches <- {"f", "g"}, MaxFails <- 1

\* Runs, messages and requests the server refuses, and drains of the queue.
Offline == INSTANCE OfflineRuns WITH page <- reqPage

\* Runs to name and processes of `at status'.
Naming == INSTANCE NamingQueue WITH todo <- jobs, Runs <- Finished

\* Process trees, and readings sustained for some polls.
Guard == INSTANCE ResourceGuard

streamVars == <<file, counter, up, es, lastId, since, wire, got, base, retries, polling, breaks>>
logVars == <<log, agent, tpos, tailing, cuts, published, spos, streamer, printed, torn>>
heardVars == <<adapter, tailer, lines, read, held, recent, events, beside>>
filterVars == <<whose, grouped, input, ended, out>>
loggerVars == <<logged, buffer, onPath, binary, attempted, ok, installer, calls, answers,
                compressing, prints, cleared>>
viewVars == <<truth, sse, told, others, stream, page, timer, cache, fetch, list, fails>>
offlineVars == <<online, reqPage, store, starts, todo, sending, unheard, shared>>
namingVars == <<queue, namer, rewriter, pc, jobs, done, kept, named, deferred, cut, crashes>>
guardVars == <<tree, paused, pausedFor, hotFor, overAgg, overTree, restarts>>
vars == <<part, streamVars, logVars, heardVars, filterVars, loggerVars, viewVars, offlineVars, namingVars, guardVars>>

\* A part that is not followed starts in one way.
Init == /\ part \in {"stream", "log", "heard", "filter", "logger", "view", "offline", "naming", "guard"}
        /\ Stream!Init /\ Readers!Init /\ View!Init /\ Offline!Init /\ Naming!Init /\ Guard!Init
        /\ Heard!Init /\ (part # "heard" => adapter = CHOOSE s \in Starts : TRUE)
        /\ Chop!Init /\ (part # "filter" => grouped /\ whose = "claude")
                     /\ (part # "logger" => ~onPath /\ ~binary)
        /\ (part # "log" => tailing) /\ (part # "view" => sse)

\* All but the component that is followed rest.
ButStream == UNCHANGED <<part, logVars, heardVars, filterVars, loggerVars, viewVars,
                         offlineVars, namingVars, guardVars>>
ButReaders == UNCHANGED <<part, streamVars, heardVars, filterVars, loggerVars, viewVars,
                          offlineVars, namingVars, guardVars>>
ButHeard == UNCHANGED <<part, streamVars, logVars, filterVars, loggerVars, viewVars,
                        offlineVars, namingVars, guardVars>>
ButFilter == UNCHANGED <<part, streamVars, logVars, heardVars, loggerVars, viewVars,
                         offlineVars, namingVars, guardVars>>
ButLogger == UNCHANGED <<part, streamVars, logVars, heardVars, filterVars, viewVars,
                         offlineVars, namingVars, guardVars>>
ButView == UNCHANGED <<part, streamVars, logVars, heardVars, filterVars, loggerVars,
                       offlineVars, namingVars, guardVars>>
ButOffline == UNCHANGED <<part, streamVars, logVars, heardVars, filterVars, loggerVars,
                          viewVars, namingVars, guardVars>>
ButNaming == UNCHANGED <<part, streamVars, logVars, heardVars, filterVars, loggerVars,
                         viewVars, offlineVars, guardVars>>
ButGuard == UNCHANGED <<part, streamVars, logVars, heardVars, filterVars, loggerVars, viewVars,
                        offlineVars, namingVars>>

Next == \/ part = "stream" /\ Stream!Next /\ ButStream
        \/ part = "log" /\ Readers!Next /\ ButReaders
        \/ part = "heard" /\ Heard!Next /\ ButHeard
        \/ part = "filter" /\ Chop!NextFilter /\ ButFilter
        \/ part = "logger" /\ Chop!NextLogger /\ ButLogger
        \/ part = "view" /\ View!Next /\ ButView
        \/ part = "offline" /\ Offline!Next /\ ButOffline
        \/ part = "naming" /\ Naming!Next /\ ButNaming
        \/ part = "guard" /\ Guard!Next /\ ButGuard

\* The steps the fairness of LogReaders, LiveView and ResourceGuard speaks of.
OfLog(A) == part = "log" /\ A /\ ButReaders
OfView(A) == part = "view" /\ A /\ ButView

\* Two calls for plain agents, two for cline, or one of any agent beside a plain one.
Pairs ==
  {s \in [{"p", "q"} -> Agents] : s["q"] = "log" \/ (s["p"] = "cline" /\ s["q"] = "cline")}
LinesOfPairs == [s \in Pairs |-> IF s["p"] \in {"log", "cline"} THEN 3 ELSE 2]

\* A run, a message and a request the server refuses, for the configuration.
OneOfEach == "a" :> "run" @@ "b" :> "say" @@ "c" :> "bad"

\* `at serve' and the hub of a run that also stores; one client watches a run only the
\* first one writes, the other everything.
TwoHubs == {<<"serve", "a">>, <<"serve", "b">>, <<"own", "b">>}
OneAndAll == "x" :> "a" @@ "y" :> "all"
BothAtServe == "x" :> "serve" @@ "y" :> "serve"

Spec ==
  /\ Init /\ [][Next]_vars
  /\ WF_vars(OfView(View!Reconnect)) /\ WF_vars(OfView(View!Event)) /\ WF_vars(OfView(View!Publish))
  /\ WF_vars(OfView(\E f \in {"f", "g"} : View!Refetch(f)))
  /\ \A f \in {"f", "g"} : /\ WF_vars(OfView(View!Serve(f))) /\ WF_vars(OfView(View!Put(f)))
                           /\ WF_vars(OfView(View!SetRuns(f)))
  /\ WF_vars(OfLog(Readers!Wake)) /\ WF_vars(OfLog(Readers!Turn))
  /\ WF_vars(part = "guard" /\ Guard!Poll /\ ButGuard)

\* EventStream: a connection carries all its hub published above the client's last id, and
\* a client of one run with one writer sees what EventLog promises.
StreamIsALog == [](part = "stream" => Stream!NothingMissedAbove) /\ Stream!IsAnEventLog
\* LogReaders: an event or a printed line is a whole line of the log, which are missing,
\* and that the streamer ends (elsewhere the agent lives); LogChop: what is shown of them tells all of them, and what
\* the logger prints.
LinesReachReaders ==
  /\ [](part = "log" => Readers!LinesAreWhole) /\ Readers!StreamerEnds
  /\ [](part = "filter" => Chop!FilterTellsAll) /\ [](part = "logger" => Chop!LoggerKeepsFaith)
\* LogAdapters: what the hub is given of the lines of several runs.
LinesKeepTheirRun == part = "heard" => Heard!LinesKeepTheirRun
\* LiveView: the page shows the truth again and again, once some run has published.
PageCatchesUp == part = "view" => View!PageCatchesUp
\* OfflineRuns: a request the page was told is queued is stored or was carried out.
QueuedIsKept == part = "offline" => Offline!QueuedIsKept
\* NamingQueue: a deferred job is lost only to a rewrite of the queue.
NoNameLost == part = "naming" => Naming!NoNameLost
\* ResourceGuard: nothing stays stopped for ever under a guard that runs on.
PauseEnds == Guard!PauseEnds
=============================================================================
