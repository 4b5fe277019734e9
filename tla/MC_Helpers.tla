----------------------------- MODULE MC_Helpers ------------------------------
\* What helps a run along: the Go daemon and its cache, the hub daemon, the discuss
\* thread, the feedback file, background compose jobs, the configuration, the health of agents,
\* the breakers of triage, the writers of state.json and the board. They share no state here: a
\* behaviour follows one of them, `part', and the others rest.
EXTENDS TLC, Naturals, Sequences, FiniteSets

CONSTANTS
  Atds, Callers,                          \* AtdProcess: Go daemons started, calls from the CLI
  Starters, JobPids,                      \* ComposeJobs: users of one job name, pids
  Planners, MaxId, MaxAdds,               \* KanbanBoard: users of the board, its bounds
  Connections, CacheKinds, MaxWrites, MaxClock,  \* HotCache: its readers, kinds and bounds
  Hubs, HubClients, HubKind, MaxOps,      \* DaemonHub: hub daemons, clients, "write" or "emit"
  StateUsers, StateKind, MaxKills,        \* StateJson: processes, what each does, those killed
  Askers, Hosts, Direct, Defaulting, MaxThread,  \* Discuss: its commands and bound
  MaxEntries, MaxBytes, MaxLogItems, FeedbackTtl, TextSizes, MaxFeedback, MaxDay,  \* FeedbackStore
  Commands, LineRuns, Registry, Tier, Override, Edits, MaxChanges, MaxEdits, MaxCrashes, \* LineConfig
  Agents, Users, Window, Threshold, Durations, Ttl, MaxTime, MaxResults, MaxOrders, \* AgentHealth
  Triages, Models, UsableModels, Use, Flags, AskTimeout, BreakerTtl, Short, MaxMinute, MaxRuns \* TriageBreaker

ASSUME HelpersAssumption ==
  /\ MaxId \in Nat /\ MaxAdds \in Nat
  /\ CacheKinds \subseteq {"state", "config", "bins"} /\ "none" \notin Connections
  /\ HubKind \in [HubClients -> {"write", "emit"}] /\ MaxOps \in Nat
  /\ StateKind \in [StateUsers -> {"result", "disable", "pick", "prune", "tui", "use"}]
  /\ "none" \notin StateUsers /\ "expired" \notin StateUsers /\ MaxKills \in Nat

ASSUME ThreadAssumption ==
  /\ Direct \subseteq Askers \cup Hosts /\ Defaulting \subseteq Askers
  /\ Askers \cap Hosts = {} /\ "nobody" \notin Askers \cup Hosts /\ MaxThread \in Nat

ASSUME FeedbackAssumption ==
  /\ {MaxEntries, MaxBytes, MaxLogItems, FeedbackTtl, MaxFeedback, MaxDay} \subseteq Nat
  /\ TextSizes \subseteq Nat

\* No agent is listed twice, or has the name of what is no line.
ASSUME LineAssumption ==
  /\ Registry \in Seq({Registry[i] : i \in DOMAIN Registry})
  /\ \A i, j \in DOMAIN Registry : Registry[i] = Registry[j] => i = j
  /\ \A i \in DOMAIN Registry : Registry[i] \notin {"no line", "absent", "torn"}
  /\ \A l \in Edits : l \in Seq({l[i] : i \in DOMAIN l})
  /\ {MaxChanges, MaxEdits, MaxCrashes} \subseteq Nat

ASSUME HealthAssumption ==
  /\ {Window, Threshold, Ttl, MaxTime, MaxResults, MaxOrders} \subseteq Nat /\ MaxTime # 0
  /\ Durations \in Seq(Nat \X Nat) \ {<<>>}

ASSUME BreakerAssumption ==
  /\ {AskTimeout, BreakerTtl, Short, MaxMinute, MaxRuns} \subseteq Nat /\ MaxMinute # 0
  /\ UsableModels \subseteq Models
  /\ \A l \in Flags \cup {Use} : l \in Seq({l[i] : i \in DOMAIN l})

VARIABLES
  part,
  disk, clock, writes, notified, watched, events, unnoticed, k, entry, mu, rd,  \* HotCache
  st, sock, pidFile, call, rivals,                                      \* AtdProcess
  hubSt, hubSock, hubPc, op, frames, answers, applied, gaveUp,          \* DaemonHub
  thread, pc, draft, taken, late, unheard, qid, result, watch, inbox,   \* Discuss
  file, now, adds, lastOp,                                              \* FeedbackStore
  record, proc, userPc, mine, careless,                                 \* ComposeJobs
  text, sig, writer, next, reader, got, seen, ops, edits, crashes,      \* LineConfig
  expected, overlap, unsigned, disturbed,
  time, health, procPc, snapshot, pool, using, reactivate, failures, results, orders,  \* AgentHealth
  minute, downUntil, askPc, left, sent, calls, runs,                    \* TriageBreaker
  stateFile, stateLock, statePc, copies, missed, doneBefore, kills,     \* StateJson
  rows, plans, pending, base, born, reused, cut, added                  \* KanbanBoard

\* Connections read the cache; a file of the state directory, the configuration or a binary.
Cache == INSTANCE HotCache WITH Readers <- Connections, Kinds <- CacheKinds

\* Daemons started and calls from the CLI.
Atd == INSTANCE AtdProcess WITH Daemons <- Atds, Clients <- Callers

\* Hub daemons, writers and runs, a few requests each.
Broker == INSTANCE DaemonHub WITH
  st <- hubSt, sock <- hubSock, pc <- hubPc, Daemons <- Hubs, Clients <- HubClients, Kind <- HubKind

\* A writer and a run.
WriterAndRun == "w" :> "write" @@ "run" :> "emit"

\* Questions, answers and says of one thread.
Thread == INSTANCE Discuss

\* Users of the feedback file, one operation at a time.
Feedback == INSTANCE FeedbackStore WITH
  clock <- now, op <- lastOp, MaxAdds <- MaxFeedback, MaxClock <- MaxDay, Ttl <- FeedbackTtl,
  Texts <- TextSizes

\* Users and pids for one job name.
Jobs == INSTANCE ComposeJobs WITH pc <- userPc, Users <- Starters, Pids <- JobPids

\* Commands that change or sign the configuration, and runs in line mode.
Line == INSTANCE LineConfig WITH
  pc <- writer, rpc <- reader, Writers <- Commands, Readers <- LineRuns, MaxOps <- MaxChanges

\* An agent and a mock; an edit without a line, and one with a name twice and an unknown one.
AgentAndMock == <<"a", "m">>
Tiers == "a" :> 1 @@ "m" :> 4
Overrides == "a" :> 3 @@ "m" :> 4
HandEdits == {<<"no line">>, <<"m", "x", "m">>}

\* Processes that use agents.
Health == INSTANCE AgentHealth WITH now <- time, pc <- procPc, Procs <- Users

\* Blocks of half and of twice the window, as 30 minutes and 2 hours are to 60 minutes.
HalfAndTwice == <<<<2, 1>>, <<3, 4>>>>

\* Commands that ask models.
Breaker == INSTANCE TriageBreaker WITH
  now <- minute, pc <- askPc, Procs <- Triages, Usable <- UsableModels, Timeout <- AskTimeout,
  Ttl <- BreakerTtl, MaxTime <- MaxMinute

\* A model is listed twice in the file, or after an unknown one by a flag.
Twice == <<"m", "m">>
NoneOrUnknownFirst == {<<>>, <<"x", "m">>}

\* Processes that read and write state.json, of which some are killed.
State == INSTANCE StateJson WITH
  file <- stateFile, lock <- stateLock, pc <- statePc, seen <- copies, before <- doneBefore,
  crashes <- kills, Procs <- StateUsers, Kind <- StateKind, NoProc <- "none", MaxCrashes <- MaxKills

\* Each is named for what it does.
ByName == [p \in StateUsers |-> p]

\* Calls of `at kanban add' over a few ids.
Board == INSTANCE KanbanBoard WITH adds <- added, Users <- Planners

cacheVars == <<disk, clock, writes, notified, watched, events, unnoticed, k, entry, mu, rd>>
atdVars == <<st, sock, pidFile, call, rivals>>
brokerVars == <<hubSt, hubSock, hubPc, op, frames, answers, applied, gaveUp>>
threadVars == <<thread, pc, draft, taken, late, unheard, qid, result, watch, inbox>>
feedbackVars == <<file, now, adds, lastOp>>
jobVars == <<record, proc, userPc, mine, careless>>
lineVars == <<text, sig, writer, next, reader, got, seen, ops, edits, crashes,
              expected, overlap, unsigned, disturbed>>
healthVars == <<time, health, procPc, snapshot, pool, using, reactivate, failures, results, orders>>
breakerVars == <<minute, downUntil, askPc, left, sent, calls, runs>>
stateVars == <<stateFile, stateLock, statePc, copies, missed, doneBefore, kills>>
boardVars == <<rows, plans, pending, base, born, reused, cut, added>>
vars == <<part, cacheVars, atdVars, brokerVars, threadVars, feedbackVars, jobVars, lineVars,
          healthVars, breakerVars, stateVars, boardVars>>

Init == /\ part \in {"cache", "atd", "broker", "thread", "feedback", "jobs", "line", "health",
                    "breaker", "state", "board"}
        /\ Cache!Init /\ Atd!Init /\ Broker!Init /\ Thread!Init /\ Feedback!Init /\ Jobs!Init
        /\ Line!Init /\ Health!Init /\ Breaker!Init /\ State!Init /\ Board!Init
        /\ part # "cache" => k = "state" /\ disk["bin"].v = 0     \* one of the initial states
        /\ part # "line" => text.rest
        /\ part # "broker" => hubSock = "none"
        /\ part # "state" => stateFile = State!Empty

\* All but the component that is followed rest.
ButCache ==
  UNCHANGED <<part, atdVars, brokerVars, threadVars, feedbackVars, jobVars, lineVars, healthVars,
    breakerVars, stateVars, boardVars>>
ButAtd ==
  UNCHANGED <<part, cacheVars, brokerVars, threadVars, feedbackVars, jobVars, lineVars, healthVars,
    breakerVars, stateVars, boardVars>>
ButBroker ==
  UNCHANGED <<part, cacheVars, atdVars, threadVars, feedbackVars, jobVars, lineVars, healthVars,
    breakerVars, stateVars, boardVars>>
ButThread ==
  UNCHANGED <<part, cacheVars, atdVars, brokerVars, feedbackVars, jobVars, lineVars, healthVars,
    breakerVars, stateVars, boardVars>>
ButFeedback ==
  UNCHANGED <<part, cacheVars, atdVars, brokerVars, threadVars, jobVars, lineVars, healthVars,
    breakerVars, stateVars, boardVars>>
ButJobs ==
  UNCHANGED <<part, cacheVars, atdVars, brokerVars, threadVars, feedbackVars, lineVars, healthVars,
    breakerVars, stateVars, boardVars>>
ButLine ==
  UNCHANGED <<part, cacheVars, atdVars, brokerVars, threadVars, feedbackVars, jobVars, healthVars,
    breakerVars, stateVars, boardVars>>
ButHealth ==
  UNCHANGED <<part, cacheVars, atdVars, brokerVars, threadVars, feedbackVars, jobVars, lineVars,
    breakerVars, stateVars, boardVars>>
ButBreaker ==
  UNCHANGED <<part, cacheVars, atdVars, brokerVars, threadVars, feedbackVars, jobVars, lineVars,
    healthVars, stateVars, boardVars>>
ButState ==
  UNCHANGED <<part, cacheVars, atdVars, brokerVars, threadVars, feedbackVars, jobVars, lineVars,
    healthVars, breakerVars, boardVars>>
ButBoard ==
  UNCHANGED <<part, cacheVars, atdVars, brokerVars, threadVars, feedbackVars, jobVars, lineVars,
    healthVars, breakerVars, stateVars>>

Next == \/ part = "cache" /\ Cache!Next /\ ButCache
        \/ part = "atd" /\ Atd!Next /\ ButAtd
        \/ part = "broker" /\ Broker!Next /\ ButBroker
        \/ part = "thread" /\ Thread!Next /\ ButThread
        \/ part = "feedback" /\ Feedback!Next /\ ButFeedback
        \/ part = "jobs" /\ Jobs!Next /\ ButJobs
        \/ part = "line" /\ Line!Next /\ ButLine
        \/ part = "health" /\ Health!Next /\ ButHealth
        \/ part = "breaker" /\ Breaker!Next /\ ButBreaker
        \/ part = "state" /\ State!Next /\ ButState
        \/ part = "board" /\ Board!Next /\ ButBoard

Spec == Init /\ [][Next]_vars

\* HotCache: a cached answer that is wrong stands behind an event or a tick of the clock.
HitsAreJustified == part = "cache" => Cache!HitsAreJustified
\* DaemonHub: writes are applied once, or twice after a timeout; events keep their order.
RequestsTakeEffect == part = "broker" => Broker!RequestsTakeEffect
\* Discuss: whatever goes wrong in a thread comes of entries that share an id or were posted twice.
ConfusionNeedsTwins == part = "thread" => Thread!ConfusionNeedsTwins
\* FeedbackStore: what its limits may take away, and in which order.
EvictionIsFair == [][part = "feedback" => Feedback!FairStep]_vars
\* AtdProcess, ComposeJobs: a daemon without rivals owns the socket and the pid file, and a
\* running job is on record unless starts overlapped or were cut short.
BackgroundIsFound == CASE part = "atd" -> Atd!LoneDaemonIsFound [] part = "jobs" -> Jobs!JobsAreFound
                       [] OTHER -> TRUE
\* LineConfig: changes one by one lose nothing, and an undisturbed run goes by them.
ConfigIsAsWritten == part = "line" => Line!ConfigIsAsWritten
\* AgentHealth, TriageBreaker: an agent's block on file was deserved at some moment; a model is
\* skipped for a failure nothing has made up for, and asked again when its time is over.
BlockIsDeserved == CASE part = "health" -> Health!BlockIsDeserved
                     [] part = "breaker" -> Breaker!BreakersAreDeserved
                     [] OTHER -> TRUE
\* StateJson: a finished update is lost, and a use misses a disable, only where a writer that read
\* before or without the lock, or a rewrite of the file, is in the way.
OnlyStaleWritersHarm ==
  part = "state" => State!LostOnlyToStaleWriters /\ State!DisableMissedOnlyMidRewrite
\* KanbanBoard: only an id given a second time freezes the board or swaps plans.
BoardStaysWorkable == part = "board" => Board!BoardStaysWorkable
=============================================================================
