----------------------------- MODULE LogAdapters -----------------------------
(***************************************************************************)
(* What a process with a hub makes of the log lines of its runs: a tailer  *)
(* for each run (src/notify/tailer.ts) feeds the lines to the adapter of   *)
(* its agent (src/notify/adapters), which turns them into events.  The     *)
(* registry (src/notify/index.ts) has one adapter per agent and one for    *)
(* all the others, and they belong to the process: the MCP server          *)
(* (src/mcp/tools.ts) works on several calls at a time.                    *)
(*                                                                         *)
(* Two adapters remember: the log adapter gathers lines for 250 ms, that   *)
(* of cline lets a text through once a second.  `recent' is that their     *)
(* last event is not older.  A line is <<r, n>>, the n-th of run r; its    *)
(* form says what the agent reports with it.  Lines come whole             *)
(* (LogReaders), and the reading of one takes no time.                     *)
(***************************************************************************)
EXTENDS Naturals, Sequences, Functions

CONSTANTS
  Runs,       \* calls of run_prompt with sse, an attempt each
  Starts,     \* functions from Runs to adapters: who may run what
  MaxLines    \* bound: [Starts -> lines of all logs]

VARIABLES
  adapter,    \* [Runs -> the adapter of the agent of the run]
  tailer,     \* [Runs -> "none", "on", "stopped", or "left": nobody will stop it]
  log,        \* [Runs -> the forms of its lines]
  read,       \* [Runs -> lines parsed]
  buffer,     \* lines the log adapter holds
  recent,     \* adapters that have just published
  events,     \* what the hub was given: run, type, and the lines it tells
  beside      \* pairs of runs whose tailers were on at the same time (history)

vars == <<adapter, tailer, log, read, buffer, recent, events, beside>>

-----------------------------------------------------------------------------
(* parseLine of each adapter with a structured format: the forms its agent *)
(* writes, and the types of the events each becomes.  Any line that is not *)
(* JSON of a known form becomes none.                                      *)

ClaudeAdapter == [session |-> {"progress"}, text |-> {"message"}, tool |-> {"tool"},
                  failure |-> {"error"}, end |-> {"progress"}, plain |-> {}]
\* The final text comes with the result.
QwenAdapter == [session |-> {"progress"}, text |-> {"message"}, tool |-> {"tool"},
                failure |-> {"error"}, result |-> {"progress", "message"}, plain |-> {}]
\* A message is told when it starts and when it ends.
PiAdapter == [session |-> {"progress"}, turn |-> {"progress"}, draft |-> {"message"},
              text |-> {"message"}, tool |-> {"tool"}, error |-> {"error"},
              end |-> {"progress"}, plain |-> {}]
CodexAdapter == [session |-> {"progress"}, turn |-> {"progress"}, draft |-> {"message"},
                 text |-> {"message"}, reasoning |-> {"progress"}, tool |-> {"tool"},
                 error |-> {"error"}, end |-> {"progress"}, plain |-> {}]
KimiAdapter == [text |-> {"message"}, tool |-> {"tool"}, failure |-> {"error"}, plain |-> {}]
OpenCodeAdapter == [turn |-> {"progress"}, text |-> {"message"}, tool |-> {"tool"},
                    error |-> {"error"}, end |-> {"progress"}, plain |-> {}]
KiloAdapter == [session |-> {"progress"}, text |-> {"message"}, end |-> {"progress"},
                tool |-> {}, error |-> {}, plain |-> {}]
KiroAdapter == [session |-> {"progress"}, text |-> {"message"},
                result |-> {"progress", "message"}, error |-> {}, plain |-> {}]
ClineAdapter == [session |-> {"progress"}, text |-> {"message"}, tool |-> {"tool"},
                 end |-> {"progress"}, result |-> {"progress", "message"}, plain |-> {}]

Structured == [claude |-> ClaudeAdapter, qwen |-> QwenAdapter, pi |-> PiAdapter,
               codex |-> CodexAdapter, kimi |-> KimiAdapter, opencode |-> OpenCodeAdapter,
               kilo |-> KiloAdapter, kiro |-> KiroAdapter, cline |-> ClineAdapter]

\* getAdapter: every other agent has the log adapter, which takes any text.
Adapters == DOMAIN Structured \cup {"log"}
Forms(a) == IF a = "log" THEN {"plain"} ELSE DOMAIN Structured[a]

-----------------------------------------------------------------------------
Unread(r) == {<<r, n>> : n \in (read[r] + 1)..Len(log[r])}
Form(l) == log[l[1]][l[2]]
First(ls) == {l \in ls : \A k \in ls : l[2] <= k[2]}
Event(r, t, ls) == [run |-> r, type |-> t, lines |-> ls]

\* What cline's agent says is told if the last text was told a second ago.
Throttled(l) == adapter[l[1]] = "cline" /\ Form(l) = "text"
LetThrough(ls) == IF "cline" \in recent THEN {} ELSE First({l \in ls : Throttled(l)})

\* The adapters and the hub after the lines ls of r, one after the other.
ParseStructured(r, ls) ==
  LET told == {l \in ls : ~Throttled(l)} \cup LetThrough(ls) IN
  [events |-> events \cup UNION {{Event(r, t, {l}) : t \in Structured[adapter[r]][Form(l)]} : l \in told},
   buffer |-> buffer,
   recent |-> IF LetThrough(ls) = {} THEN recent ELSE recent \cup {"cline"}]

\* The log adapter tells all it holds with the first line after 250 ms, and holds the rest.
ParseText(r, ls) ==
  IF "log" \in recent \/ ls = {}
  THEN [events |-> events, buffer |-> buffer \cup ls, recent |-> recent]
  ELSE [events |-> events \cup {Event(r, "message", buffer \cup First(ls))},
        buffer |-> ls \ First(ls), recent |-> recent \cup {"log"}]

Parse(r) == IF adapter[r] = "log" THEN ParseText(r, Unread(r)) ELSE ParseStructured(r, Unread(r))

(* Mutant: stop forgets the adapter's buffer. *)
FlushNothing(r, p) == p

\* flushBuffer: what the log adapter holds is told, whoever's it is.
FlushBuffer(r, p) ==
  IF adapter[r] # "log" \/ p.buffer = {} THEN p
  ELSE [p EXCEPT !.events = @ \cup {Event(r, "message", p.buffer)}, !.buffer = {}]

\* The step's outcome p, with all lines of r read.
Becomes(r, p) ==
  /\ events' = p.events /\ buffer' = p.buffer /\ recent' = p.recent
  /\ read' = [read EXCEPT ![r] = Len(log[r])]

On == {r \in Runs : tailer[r] \in {"on", "left"}}

-----------------------------------------------------------------------------
Init ==
  /\ adapter \in Starts /\ tailer = [r \in Runs |-> "none"]
  /\ log = [r \in Runs |-> <<>>] /\ read = [r \in Runs |-> 0]
  /\ buffer = {} /\ recent = {} /\ events = {} /\ beside = {}

\* The agent of a run has been launched.
Start(r) ==
  /\ tailer[r] = "none" /\ tailer' = [tailer EXCEPT ![r] = "on"]
  /\ beside' = beside \cup {{r, s} : s \in On}
  /\ UNCHANGED <<adapter, log, read, buffer, recent, events>>

Write(r) ==
  /\ tailer[r] = "on" /\ FoldFunction(LAMBDA l, n : Len(l) + n, 0, log) < MaxLines[adapter]
  /\ \E f \in Forms(adapter[r]) : log' = [log EXCEPT ![r] = Append(@, f)]
  /\ UNCHANGED <<adapter, tailer, read, buffer, recent, events, beside>>

\* The tailer's timer; a tailer that was left goes on.
Tick(r) ==
  /\ r \in On /\ Unread(r) # {}
  /\ Becomes(r, Parse(r))
  /\ UNCHANGED <<adapter, tailer, log, beside>>

\* The run has ended, or timed out: a last read, and the adapter is flushed.
Stop(r) ==
  /\ tailer[r] = "on" /\ tailer' = [tailer EXCEPT ![r] = "stopped"]
  /\ Becomes(r, FlushBuffer(r, Parse(r)))
  /\ UNCHANGED <<adapter, log, beside>>

\* The run's record cannot be written: the call fails before it stops its tailer.
Leave(r) ==
  /\ tailer[r] = "on" /\ tailer' = [tailer EXCEPT ![r] = "left"]
  /\ UNCHANGED <<adapter, log, read, buffer, recent, events, beside>>

\* 250 ms after the log adapter's last event, a second after cline's.
TimePasses(a) ==
  /\ a \in recent /\ recent' = recent \ {a}
  /\ UNCHANGED <<adapter, tailer, log, read, buffer, events, beside>>

Next ==
  \/ \E r \in Runs : Start(r) \/ Write(r) \/ Tick(r) \/ Stop(r) \/ Leave(r)
  \/ \E a \in {"log", "cline"} : TimePasses(a)

Spec == Init /\ [][Next]_vars

-----------------------------------------------------------------------------
Seen == UNION {{<<r, n>> : n \in 1..read[r]} : r \in Runs}

TypeOK ==
  /\ adapter \in [Runs -> Adapters]
  /\ tailer \in [Runs -> {"none", "on", "stopped", "left"}]
  /\ log \in [Runs -> Seq(UNION {Forms(a) : a \in Adapters})] /\ read \in [Runs -> Nat]
  /\ \A r \in Runs : read[r] <= Len(log[r]) /\ \A n \in DOMAIN log[r] : log[r][n] \in Forms(adapter[r])
  /\ buffer \subseteq Seen /\ recent \subseteq {"log", "cline"}
  /\ events \subseteq [run : Runs, type : {"progress", "message", "tool", "error"}, lines : SUBSET Seen]
  /\ beside \subseteq SUBSET Runs

\* An event tells lines of its own run, or of one that was on beside it when both agents
\* go by the log adapter, which they share.
OnlyOwnLines ==
  \A e \in events : \A l \in e.lines :
    l[1] # e.run =>
      adapter[l[1]] = "log" /\ adapter[e.run] = "log" /\ {l[1], e.run} \in beside

\* The log adapter tells each line once or still holds it, and it holds none of a run
\* whose tailer was stopped: whichever run published it, none is withheld.
GatheredOnce ==
  /\ \A e, f \in events : \A l \in e.lines \cap f.lines : adapter[l[1]] = "log" => e = f
  /\ \A e \in events : e.lines \cap buffer = {}
  /\ \A l \in Seen : adapter[l[1]] = "log" => l \in buffer \/ \E e \in events : l \in e.lines
  /\ \A l \in buffer : tailer[l[1]] \in {"on", "left"}

\* A line of a structured agent is told as its form says, but for a text of cline, which
\* another one can hush: of its own run, or of any other one in the process.
WordsAreHeard ==
  \A l \in Seen : adapter[l[1]] # "log" =>
    \A t \in Structured[adapter[l[1]]][Form(l)] :
      \/ Event(l[1], t, {l}) \in events
      \/ /\ Throttled(l)
         /\ \E k \in Seen \ {l} : Throttled(k) /\ Event(k[1], "message", {k}) \in events

\* What the hub is given of the lines of several runs.
LinesKeepTheirRun == OnlyOwnLines /\ GatheredOnce /\ WordsAreHeard
=============================================================================
