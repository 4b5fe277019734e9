----------------------------- MODULE LogReaders -----------------------------
(***************************************************************************)
(* The two readers of an agent's growing log file: the tailer of the event *)
(* hub (src/notify/tailer.ts), which publishes whole lines as events, and  *)
(* the streamer of `at -s' (src/log-streamer.ts), which prints them.       *)
(*                                                                         *)
(* A log is a sequence of bytes: "a" is a character, "u" and "v" together  *)
(* make a wide one, and "n" is the newline.  The tailer keeps its position *)
(* in bytes and slices by characters; its lines are intervals of           *)
(* characters, newline included.  The streamer reads a buffer of BufSize   *)
(* bytes at its position and goes back by byteLength of what it decoded;   *)
(* its lines are intervals of bytes.  The two only have the file in common *)
(* and write nothing either reads: a behaviour is that of one of them.     *)
(***************************************************************************)
EXTENDS Naturals, Sequences, FiniteSets, FiniteSetsExt, SequencesExt

CONSTANTS
    Pieces,     \* what one write of the agent appends
    BufSize,    \* of the streamer: 64 KiB
    MaxLog      \* bound: bytes of the log

VARIABLES
    log, agent,             \* the file; the agent is "alive" or "dead"
    tpos, tailing,          \* the tailer's position (bytes), and whether it still runs
    cuts,                   \* characters in the log at each of its reads (history)
    published,              \* intervals published as events
    spos, streamer,         \* the streamer's position (bytes) and "off", "wait", "loop", "exited", "killed", "lost"
    printed,                \* intervals of bytes printed, in order
    torn                    \* history: a read of the streamer ended or began in a wide character

tailVars == <<tpos, tailing, cuts, published>>
streamVars == <<spos, streamer, printed, torn>>
vars == <<log, agent, tailVars, streamVars>>

Size == Len(log)
Characters == SelectSeq(log, LAMBDA b : b # "v")     \* a wide one counts as one

\* The lines of a text which end in text[from..to] and start there too, cut at `from'.
LinesOf(text, from, to) ==
    LET ends == {i \in from..to : text[i] = "n"}
        start(e) == Max({from} \union {i + 1 : i \in {j \in ends : j < e}})
    IN {<<start(e), e>> : e \in ends}

Blank(line) == line[1] = line[2]
AllLines == {l \in LinesOf(Characters, 1, Len(Characters)) : ~Blank(l)}
Lines == LinesOf(log, 1, Size)      \* as the streamer should print them

Init ==
    /\ log = <<>> /\ agent = "alive"
    /\ tpos = 0 /\ cuts = {} /\ published = {}
    /\ tailing \in BOOLEAN /\ streamer = IF tailing THEN "off" ELSE "wait"
    /\ spos = 0 /\ printed = <<>> /\ torn = FALSE

\* The agent writes to its log, a line or less at a time ...
Write ==
    /\ agent = "alive"
    /\ \E p \in Pieces : Size + Len(p) <= MaxLog /\ log' = log \o p
    /\ UNCHANGED <<agent, tailVars, streamVars>>

\* ... and exits, perhaps in the middle of one.
Exit ==
    /\ agent = "alive"
    /\ agent' = "dead"
    /\ UNCHANGED <<log, tailVars, streamVars>>

-----------------------------------------------------------------------------
\* readChunk: nothing if the file has not grown; else what lies behind the
\* position, taken as a number of characters, and its complete lines.  The
\* position becomes the file's size in bytes, an incomplete last line included.
ReadChunk ==
    IF Size <= tpos
    THEN UNCHANGED <<tpos, cuts, published>>
    ELSE LET end == Len(Characters) IN
         /\ published' = published \union
                            {l \in LinesOf(Characters, tpos + 1, end) : ~Blank(l)}
         /\ tpos' = Size
         /\ cuts' = cuts \union {end}

Tick ==
    /\ tailing
    /\ ReadChunk
    /\ UNCHANGED <<log, agent, tailing, streamVars>>

\* stop, when the run has ended: one more read, and the adapter's buffer is flushed.
Stop ==
    /\ tailing /\ agent = "dead"
    /\ tailing' = FALSE
    /\ ReadChunk
    /\ UNCHANGED <<log, agent, streamVars>>

-----------------------------------------------------------------------------
\* The streamer's timers start readNewData, which reads until nothing is left, with nothing
\* else in between; the second one ends the streamer when the pid is gone and nothing came.
Wake ==
    /\ streamer = "wait"
    /\ streamer' = IF Size > spos THEN "loop"
                   ELSE IF agent = "dead" THEN "exited" ELSE "wait"
    /\ UNCHANGED <<log, agent, tailVars, spos, printed, torn>>

(* Mutant: an incomplete line is not read again. *)
NotRewound(from, to) == 0

\* Buffer.byteLength of what log[from..to] decode to: half a character is replaced by U+FFFD,
\* of three bytes.
ByteLength(from, to) ==
    IF from > to THEN 0
    ELSE (to + 1 - from) + (IF log[from] = "v" THEN 2 ELSE 0) + (IF log[to] = "u" THEN 2 ELSE 0)

\* One turn of the loop: complete lines are printed, and the position goes back to the start of
\* an incomplete one - beyond it, if the buffer ends in a wide character - which the next turn
\* reads again, from a buffer of the same size.  (What the same line repeats once a read was
\* torn is not recorded.  Before the start of the file we follow the streamer no further: it
\* depends on the version of Node whether readSync throws.)
Turn ==
    LET end == Min({spos + BufSize, Size})
        lines == LinesOf(log, spos + 1, end)
        rest == Max({l[2] : l \in lines} \union {spos}) + 1
        back == ByteLength(rest, end)
        cut == rest <= end /\ (log[rest] = "v" \/ log[end] = "u")
        news == IF torn THEN lines \ ToSet(printed) ELSE lines
    IN
    /\ streamer = "loop"
    /\ IF end = spos
       THEN streamer' = "wait" /\ UNCHANGED <<spos, printed, torn>>
       ELSE /\ printed' = printed \o SetToSortSeq(news, LAMBDA x, y : x[1] < y[1])
            /\ torn' = (torn \/ cut)
            /\ IF back > end THEN streamer' = "lost" /\ UNCHANGED spos
                             ELSE spos' = end - back /\ UNCHANGED streamer
    /\ UNCHANGED <<log, agent, tailVars>>

\* `at -s' kills its streamer, with SIGKILL, as soon as the agent has closed.
Kill ==
    /\ streamer \in {"wait", "loop"} /\ agent = "dead"
    /\ streamer' = "killed"
    /\ UNCHANGED <<log, agent, tailVars, spos, printed, torn>>

Next == Write \/ Exit \/ Tick \/ Stop \/ Wake \/ Turn \/ Kill

Spec == Init /\ [][Next]_vars /\ WF_vars(Wake) /\ WF_vars(Turn)

-----------------------------------------------------------------------------
TypeOK ==
    /\ log \in Seq({"a", "u", "v", "n"}) /\ Size <= MaxLog
    /\ agent \in {"alive", "dead"}
    /\ tpos \in 0..MaxLog /\ tailing \in BOOLEAN
    /\ cuts \subseteq 0..MaxLog
    /\ \A l \in published : l[1] < l[2] /\ l[2] <= Size
    /\ spos \in 0..Size /\ torn \in BOOLEAN
    /\ streamer \in {"off", "wait", "loop", "exited", "killed", "lost"}

\* A line the tailer has read past is published whole, unless a read fell in
\* its middle or a wide character stands before it: what an agent writes a line
\* at a time in ASCII loses nothing.  (tailer.ts:31 says an incomplete line is
\* kept for the next read.)
LostOnlySplitOrShifted ==
    \A l \in AllLines :
        (l[2] <= Max(cuts \union {0}) /\ l \notin published)
        => \/ \E c \in cuts : l[1] <= c /\ c < l[2]
           \/ \E i \in 1..(l[1] - 1) : Characters[i] = "u"

\* As long as no read was torn, the streamer prints each complete line once, whole and in the
\* order of the log, however the writes fall between its reads; after that it also prints ends
\* of lines, but the lines themselves still in order.  One that left by itself had printed them
\* all, torn or not.
StreamerIsExact ==
    LET IsEnd(p) == \E l \in Lines : l[1] < p[1] /\ p[1] <= l[2] /\ p[2] = l[2] IN
    /\ \A p \in ToSet(printed) : p \in Lines \/ (torn /\ IsEnd(p))
    /\ \A i, j \in DOMAIN printed :
         (i < j /\ {printed[i], printed[j]} \subseteq Lines) => printed[i][2] < printed[j][1]
    /\ streamer = "exited" => Lines \subseteq ToSet(printed)

\* No line is longer than the buffer, newline included.
LinesFit == \A l \in Lines : l[2] + 1 - l[1] <= BufSize

\* Its agent dead, the streamer leaves if the log ends with a newline and every line fits its
\* buffer, unless a read is torn.  A longer line it rewinds and reads for ever, in a loop that
\* hears no signal but SIGKILL; and it prints nothing from there on.
StreamerEnds ==
    (agent = "dead" /\ (log = <<>> \/ Last(log) = "n") /\ LinesFit)
        ~> (streamer \in {"off", "exited", "killed"} \/ torn)
StuckOnLongLines ==
    \A l \in Lines : l[2] + 1 - l[1] > BufSize => streamer # "exited" /\ l \notin ToSet(printed)

\* What becomes of a line on its way to the hub and to the terminal, and of the streamer.
LinesAreWhole == LostOnlySplitOrShifted /\ StreamerIsExact /\ StuckOnLongLines
LinesReachReaders == []LinesAreWhole /\ StreamerEnds
=============================================================================
