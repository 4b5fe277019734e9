------------------------------- MODULE LogChop -------------------------------
(***************************************************************************)
(* What a terminal shows of a log (src/chop.ts).  The streamer of `at -s'  *)
(* (src/log-streamer.ts) renders the JSON lines of an agent, drops noise   *)
(* and folds repeats; `at status' drops and folds a log it has read whole. *)
(* A line is <<form, text>>; an agent with a structured format writes its  *)
(* forms, and any agent plain text too.                                    *)
(*                                                                         *)
(* ChopLogger gathers lines and prints a batch through the program chop,   *)
(* which it may install first; lines are numbered as they are logged.      *)
(***************************************************************************)
EXTENDS Naturals, Sequences, FiniteSets, SequencesExt, FiniteSetsExt

CONSTANTS
  MaxRead,    \* bound: lines the streamer reads
  MaxLogged,  \* bound: lines given to the logger
  MaxCalls    \* bound: calls of ensureInstalled

VARIABLES
  agent, grouped,     \* whose log it is; groupRepeated of the filter's configuration
  input, ended,       \* complete lines the streamer has read; it has left
  out,                \* lines shown, the last one, how often it was met
  logged, buffer,     \* lines given to the logger; those that wait for a flush
  onPath, binary,     \* chop stands on PATH, in the logger's own directory
  attempted, ok,      \* installAttempted, installOk
  installer,          \* it runs
  calls, answers,     \* of ensureInstalled
  compressing,        \* batches given to chop
  prints, cleared     \* batches printed, in order; lines that were cleared

filterVars == <<agent, grouped, input, ended, out>>
installVars == <<onPath, binary, attempted, ok, installer, calls, answers>>
batchVars == <<logged, buffer, compressing, prints, cleared>>
vars == <<filterVars, installVars, batchVars>>

-----------------------------------------------------------------------------
\* renderStreamJsonLine: the lines shown for those forms of each agent that are rendered;
\* for the other ones it returns null, as for plain text, which the streamer shows as it is.
Rendered ==
  LET claude == [session |-> <<"system">>, text |-> <<"said">>, work |-> <<"said", "tool">>,
                 failure |-> <<"error">>, end |-> <<"result">>]
  IN [claude |-> claude, qwen |-> claude,
      codex |-> [session |-> <<"system">>, text |-> <<"said">>, tool |-> <<"tool">>,
                 error |-> <<"error">>, end |-> <<"result">>],
      kimi |-> [text |-> <<"said">>, work |-> <<"said">>],
      opencode |-> [text |-> <<"said">>, end |-> <<"result">>],
      kilo |-> [text |-> <<"said">>, end |-> <<"result">>],
      pi |-> [session |-> <<"system">>, text |-> <<"said">>, work |-> <<"said">>,
              error |-> <<"error">>, end |-> <<"result">>],
      kiro |-> [session |-> <<"system">>, end |-> <<"result", "said">>],
      cline |-> [none |-> <<>>]]

\* Forms that are not rendered: turns, tools and errors of some, all of cline.
Unrendered == [claude |-> {"answer"}, qwen |-> {"answer"}, codex |-> {"turn", "draft"},
               kimi |-> {"tool", "failure"}, opencode |-> {"turn", "tool", "error"},
               kilo |-> {"session", "tool"}, pi |-> {"turn", "tool"},
               kiro |-> {"text", "error"}, cline |-> {"text", "tool", "end"}]

Lines ==
  ((DOMAIN Rendered[agent] \cup Unrendered[agent]) \ {"none"}) \X {"x"}
  \cup (DOMAIN Rendered[agent] \cap {"text", "work"}) \X {"dots"}
  \cup {"plain"} \X {"x", "dots", "empty"}

\* The text of an event stands in its lines of text, the rest of it in the others.
Sub(kind, l) == IF kind = "said" THEN <<"said", l[2]>> ELSE <<kind, "x">>
Render(l) ==
  IF l[1] \in DOMAIN Rendered[agent]
  THEN [i \in DOMAIN Rendered[agent][l[1]] |-> Sub(Rendered[agent][l[1]][i], l)]
  ELSE <<l>>

\* shouldDrop: of these lines, one of dots only.
Dropped(s) == s[1] \in {"plain", "said"} /\ s[2] = "dots"

\* flushLine: the lines to show for one of the log.
Wanted(l) == SelectSeq(Render(l), LAMBDA s : ~Dropped(s))

-----------------------------------------------------------------------------
Nothing == <<"nothing", "x">>
Start == [shown |-> <<>>, last |-> Nothing, count |-> 0]
Times(o) == IF o.count > 1 THEN <<<<"times", o.count>>>> ELSE <<>>

(* Mutant: a repeat is dropped, as noise is. *)
NotCounted(o, s) == IF s = o.last THEN o ELSE [shown |-> Append(o.shown, s), last |-> s, count |-> 1]

\* A line is shown, or counted if it is the one before again.
Fold(o, s) ==
  IF s = o.last THEN [o EXCEPT !.count = @ + 1]
  ELSE [shown |-> Append(o.shown \o Times(o), s), last |-> s, count |-> 1]

\* Without groupRepeated no line is remembered.
Show(o, s) == IF grouped THEN Fold(o, s) ELSE [o EXCEPT !.shown = Append(@, s)]

\* flushRepeated, and the end of chopLines.
Close(o) == IF o.count > 1 THEN [Start EXCEPT !.shown = o.shown \o Times(o)] ELSE o

\* chopLines of `at status', which renders nothing: all lines and what stands behind the last
\* newline, an empty line if nothing does.
ChopLines(lines, rest) ==
  Close(FoldLeft(Show, Start, SelectSeq(Append(lines, rest), LAMBDA s : ~Dropped(s)))).shown

\* A complete line of the log.
FlushLine ==
  /\ ~ended /\ Len(input) < MaxRead
  /\ \E l \in Lines : /\ input' = Append(input, l)
                      /\ out' = FoldLeft(Show, out, Wanted(l))
  /\ UNCHANGED <<agent, grouped, ended, installVars, batchVars>>

\* The agent is gone for a second, or the streamer has a SIGTERM or a SIGINT.
Leave ==
  /\ ~ended /\ ended' = TRUE /\ out' = Close(out)
  /\ UNCHANGED <<agent, grouped, input, installVars, batchVars>>

-----------------------------------------------------------------------------
\* resolveBinary, once it has looked on PATH, where nothing changes.
Resolved == binary \/ onPath

Log ==
  /\ logged < MaxLogged /\ logged' = logged + 1 /\ buffer' = Append(buffer, logged')
  /\ UNCHANGED <<filterVars, installVars, compressing, prints, cleared>>

Clear ==
  /\ buffer # <<>> /\ buffer' = <<>> /\ cleared' = cleared \cup ToSet(buffer)
  /\ UNCHANGED <<filterVars, installVars, logged, compressing, prints>>

\* ensureInstalled: the first call looks for chop and installs it, if its directory can be
\* made; each later one is told what is known, false while the installer runs.
Ensure ==
  /\ calls < MaxCalls /\ calls' = calls + 1 /\ attempted' = TRUE
  /\ \/ /\ attempted /\ answers' = answers \cup {ok} /\ UNCHANGED <<ok, installer>>
     \/ /\ ~attempted /\ Resolved /\ ok' = TRUE /\ answers' = answers \cup {TRUE}
        /\ UNCHANGED installer
     \/ /\ ~attempted /\ ~Resolved /\ installer' = TRUE /\ UNCHANGED <<ok, answers>>
     \/ /\ ~attempted /\ ~Resolved /\ answers' = answers \cup {FALSE}
        /\ UNCHANGED <<ok, installer>>
  /\ UNCHANGED <<filterVars, onPath, binary, batchVars>>

\* The installer exits, fails or is killed, and has put chop in place or not.
Installed ==
  /\ installer /\ installer' = FALSE /\ binary' \in BOOLEAN
  /\ ok' \in {FALSE, binary'} /\ answers' = answers \cup {ok'}
  /\ UNCHANGED <<filterVars, onPath, attempted, calls, batchVars>>

\* A batch: its lines, whether chop was tried and has done it, what callers had been told
\* of chop when it was flushed, and the batches that were with chop then.
Batch(tried) ==
  [lines |-> buffer, tried |-> tried, short |-> FALSE, after |-> answers,
   beside |-> {b.lines : b \in compressing}]

\* flush: raw if there is no chop or no file to give it, else chop is started.
Flush ==
  /\ buffer # <<>> /\ buffer' = <<>>
  /\ \/ prints' = Append(prints, Batch(Resolved)) /\ UNCHANGED compressing
     \/ Resolved /\ compressing' = compressing \cup {Batch(TRUE)} /\ UNCHANGED prints
  /\ UNCHANGED <<filterVars, installVars, logged, cleared>>

\* chop has done it, or has failed, said nothing or was killed: then the lines are printed raw.
Compressed(b) ==
  /\ compressing' = compressing \ {b}
  /\ \E short \in BOOLEAN : prints' = Append(prints, [b EXCEPT !.short = short])
  /\ UNCHANGED <<filterVars, installVars, logged, buffer, cleared>>

-----------------------------------------------------------------------------
Init ==
  /\ agent \in DOMAIN Rendered /\ grouped \in BOOLEAN
  /\ input = <<>> /\ ended = FALSE /\ out = Start
  /\ logged = 0 /\ buffer = <<>> /\ onPath \in BOOLEAN /\ binary \in BOOLEAN
  /\ attempted = FALSE /\ ok = FALSE /\ installer = FALSE /\ calls = 0 /\ answers = {}
  /\ compressing = {} /\ prints = <<>> /\ cleared = {}

NextFilter == FlushLine \/ Leave
NextLogger ==
  \/ Log \/ Clear \/ Ensure \/ Installed \/ Flush
  \/ \E b \in compressing : Compressed(b)
Next == NextFilter \/ NextLogger

Spec == Init /\ [][Next]_vars

-----------------------------------------------------------------------------
TypeOK ==
  /\ agent \in DOMAIN Rendered /\ {grouped, ended, onPath, binary, attempted, ok, installer} \subseteq BOOLEAN
  /\ ToSet(input) \subseteq Lines /\ Len(input) <= MaxRead
  /\ out.count \in 0..(2 * MaxRead)
  /\ logged <= MaxLogged /\ ToSet(buffer) \cup cleared \subseteq 1..logged
  /\ calls <= MaxCalls /\ answers \subseteq BOOLEAN

\* What a reader makes of the lines shown: a count stands for the repeats of the line before.
Unfold(shown) ==
  FoldLeft(LAMBDA all, s : IF s[1] = "times" THEN all \o [i \in 1..(s[2] - 1) |-> Last(all)]
                           ELSE Append(all, s), <<>>, shown)

\* Whatever is folded, the terminal tells every line of the log that is not noise, in order
\* and as often as it was written: the streamer when it has left, and before it but for a
\* count still to come.
TerminalTellsAll ==
  Unfold(Close(out).shown) = FlattenSeq([i \in DOMAIN input |-> Wanted(input[i])])

\* So does `at status', which shows no line of an agent without a format otherwise than the
\* streamer, but for an empty one at the end, counted with those of the log.
StatusTellsAll ==
  LET empty == <<"plain", "empty">>
      kept == SelectSeq(input, LAMBDA s : ~Dropped(s))
  IN /\ \A rest \in {empty, <<"plain", "x">>} : Unfold(ChopLines(input, rest)) = Append(kept, rest)
     /\ (ToSet(input) \subseteq {"plain"} \X {"x", "dots", "empty"} /\ (kept = <<>> \/ Last(kept) # empty))
        => ChopLines(input, empty) = Append(Close(out).shown, empty)

Batches == ToSet(prints) \cup compressing

\* The logger prints every line once, in one batch with the lines logged next to it, or was
\* told to clear it; batches change places only when one was with chop while the other was
\* flushed.
LoggerTellsAll ==
  /\ \A n \in 1..logged : Cardinality({b \in Batches : n \in ToSet(b.lines)})
       + (IF n \in cleared THEN 1 ELSE 0) + (IF n \in ToSet(buffer) THEN 1 ELSE 0) = 1
  /\ \A b \in Batches : \A i \in DOMAIN b.lines : b.lines[i] = b.lines[1] + i - 1
  /\ \A i, j \in DOMAIN prints :
       (i < j /\ prints[i].lines[1] > prints[j].lines[1]) => prints[j].lines \in prints[i].beside

\* ensureInstalled tells whether later batches go to chop; told no, one may still go there
\* when the installer, asked for by another caller or at its end, has put chop in place.
AnswersHold ==
  \A b \in Batches : /\ TRUE \in b.after => b.tried
                     /\ (b.tried /\ b.after = {FALSE}) => attempted /\ binary
                     /\ b.short => b.tried

FilterTellsAll == TerminalTellsAll /\ StatusTellsAll
LoggerKeepsFaith == LoggerTellsAll /\ AnswersHold
=============================================================================
