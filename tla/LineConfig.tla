----------------------------- MODULE LineConfig ------------------------------
\* ~/.at/config.json and its HMAC: two files without a lock. `at line` and the bridge
\* rewrite them from what they read unverified, `at config sign` signs what is there, the
\* user edits by hand; a run reads both files, twice, and resolves the queue of agents it
\* takes turns in. A text is what it parses to: a line and whether the other settings
\* (tier overrides, defaults, global prompt) are in it, every writer formatting alike; an
\* HMAC is the text it was made of.
EXTENDS Naturals, Sequences, SequencesExt, FiniteSets

CONSTANTS
  Writers,        \* processes that change the line or sign
  Readers,        \* runs in line mode
  Registry,       \* the agents, in the order of the registry
  Tier,           \* their tiers
  Override,       \* their tiers when the other settings are there
  Edits,          \* lines the user may write, unknown names and NoLine among them
  MaxOps, MaxEdits, MaxCrashes

VARIABLES
  text, sig,      \* the two files
  pc, next,       \* of a writer, and the text it is going to write
  rpc, got, seen, \* of a run: where it is, the text read last, its two configurations
  ops, edits, crashes,
  expected,       \* history: the text if every change had been made in one step
  overlap,        \* history: two changes were under way together, or one was cut off
  unsigned,       \* history: an edit by hand is neither signed nor rewritten
  disturbed       \* history: a change was under way while the run read

files == <<text, sig>>
writers == <<pc, next>>
runs == <<rpc, got, seen, disturbed>>
bounds == <<ops, edits, crashes>>
vars == <<files, writers, runs, bounds, expected, overlap, unsigned>>

Config(l, o) == [line |-> l, rest |-> o]
NoLine == <<"no line">>            \* a config without a "line"
None == Config(NoLine, FALSE)      \* {}
Absent == Config(<<"absent">>, FALSE)   \* no file
Torn == Config(<<"torn">>, FALSE)       \* truncated, and not written yet
Garbled == Config(<<"garbled">>, TRUE)  \* the settings are in it, and a comma too many
Parses(t) == t \notin {Absent, Torn, Garbled}

Busy == {w \in Writers : pc[w] # "idle"}

-----------------------------------------------------------------------------
\* The queue of a run (getLineAgents): the configured names in their order, each once and
\* known ones only; otherwise every agent but the mocks, cheap tiers first. Empty: an error.

TierOf(config) == IF config.rest THEN Override ELSE Tier     \* applyTierOverrides
Known == ToSet(Registry)

\* What is left of a list: what is in T, in its order.
Only(s, T) == FoldLeft(LAMBDA q, x : IF x \in T THEN Append(q, x) ELSE q, <<>>, s)

\* The places of known names that are not named before.
Firsts(s) == {i \in DOMAIN s : s[i] \in Known /\ \A j \in 1..(i - 1) : s[j] # s[i]}
Deduped(s) == LET kept == Only([i \in DOMAIN s |-> i], Firsts(s)) IN [n \in DOMAIN kept |-> s[kept[n]]]

DefaultLine(tier) == LET Of(t) == Only(Registry, {a \in Known : tier[a] = t}) IN Of(3) \o Of(2) \o Of(1)

\* The agents carry the overrides of the first configuration, the line is the second's.
GetLineAgents(first, second) ==
  IF second.line # NoLine THEN Deduped(second.line) ELSE DefaultLine(TierOf(first))

-----------------------------------------------------------------------------
\* Mutant: through loadConfig, which refuses what is not signed.
RawOfVerified(t) == IF Parses(t) /\ sig = t THEN t ELSE None
\* at line add|rm|move: what is on file, verified or not; nothing readable counts as {}.
RawOf(t) == IF Parses(t) THEN t ELSE None

Position(s, a) == CHOOSE i \in DOMAIN s : s[i] = a
Has(c, a) == c.line # NoLine /\ a \in ToSet(c.line)

\* What a command makes of a config; no element: it ends with an error.
LineAdd(c, a) == IF Has(c, a) THEN {} ELSE {[c EXCEPT !.line = IF @ = NoLine THEN <<a>> ELSE Append(@, a)]}
LineRemove(c, a) == IF ~Has(c, a) THEN {} ELSE {[c EXCEPT !.line = RemoveAt(@, Position(@, a))]}
LineMove(c, a, i) == IF ~Has(c, a) \/ i \notin DOMAIN c.line THEN {}
  ELSE {[c EXCEPT !.line = InsertAt(RemoveAt(@, Position(@, a)), i, a)]}

Changed(c, how, a, i) ==
  CASE how = "add" -> LineAdd(c, a) [] how = "rm" -> LineRemove(c, a) [] how = "move" -> LineMove(c, a, i)

\* A change of the file is under way from here on: runs that read are disturbed.
Begin(w) ==
  /\ pc[w] = "idle" /\ ops < MaxOps /\ ops' = ops + 1
  /\ overlap' = (overlap \/ Busy # {})
  /\ disturbed' = [r \in Readers |-> disturbed[r] \/ rpc[r] # "off"]

Command(w) ==
  /\ Begin(w)
  /\ \E how \in {"add", "rm", "move"}, a \in Known, i \in 1..2 :
       /\ \E c \in Changed(RawOf(text), how, a, i) : next' = [next EXCEPT ![w] = c]
       /\ expected' \in IF overlap' \/ expected = Garbled THEN {expected}
                        ELSE Changed(IF Parses(expected) THEN expected ELSE None, how, a, i)
  /\ pc' = [pc EXCEPT ![w] = "text"]
  /\ UNCHANGED <<files, rpc, got, seen, edits, crashes, unsigned>>

\* saveConfig: writeFileSync of the one file and then of the other.
TruncateText(w) ==
  /\ pc[w] = "text" /\ pc' = [pc EXCEPT ![w] = "write"] /\ text' = Torn
  /\ UNCHANGED <<sig, next, runs, bounds, expected, overlap, unsigned>>

WriteText(w) ==
  /\ pc[w] = "write" /\ pc' = [pc EXCEPT ![w] = "sig"] /\ text' = next[w] /\ unsigned' = FALSE
  /\ UNCHANGED <<sig, next, runs, bounds, expected, overlap>>

TruncateSig(w) ==
  /\ pc[w] = "sig" /\ pc' = [pc EXCEPT ![w] = "sign"] /\ sig' = Torn
  /\ UNCHANGED <<text, next, runs, bounds, expected, overlap, unsigned>>

WriteSig(w) ==
  /\ pc[w] = "sign" /\ pc' = [pc EXCEPT ![w] = "idle"] /\ sig' = next[w]
  /\ next' = [next EXCEPT ![w] = None]
  /\ unsigned' = (unsigned /\ text # next[w])
  /\ UNCHANGED <<text, runs, bounds, expected, overlap>>

\* at config sign: the HMAC of whatever the file holds.
SignConfig(w) ==
  /\ Begin(w) /\ text # Absent
  /\ next' = [next EXCEPT ![w] = text] /\ pc' = [pc EXCEPT ![w] = "sig"]
  /\ UNCHANGED <<files, rpc, got, seen, edits, crashes, expected, unsigned>>

\* The user saves another text, with the other settings in it, and maybe one that does not parse.
HandEdit ==
  /\ edits < MaxEdits /\ edits' = edits + 1
  /\ text' \in {Config(l, TRUE) : l \in Edits} \cup {Garbled}
  /\ expected' = text' /\ unsigned' = TRUE
  /\ overlap' = (Busy # {})
  /\ disturbed' = [r \in Readers |-> disturbed[r] \/ rpc[r] # "off"]
  /\ UNCHANGED <<sig, writers, rpc, got, seen, ops, crashes>>

Crash(w) ==
  /\ pc[w] # "idle" /\ crashes < MaxCrashes /\ crashes' = crashes + 1
  /\ pc' = [pc EXCEPT ![w] = "idle"] /\ next' = [next EXCEPT ![w] = None] /\ overlap' = TRUE
  /\ UNCHANGED <<files, runs, ops, edits, expected, unsigned>>

-----------------------------------------------------------------------------
\* loadConfig: the text, then the HMAC; a text that is not signed counts as no config. The
\* command reads it for the overrides, run() again for the line.

Verified(t, s) == IF s = t /\ Parses(t) THEN t ELSE None

ReadText(r) ==
  /\ rpc[r] \in {"off", "first"} /\ Len(seen[r]) < 2
  /\ rpc' = [rpc EXCEPT ![r] = "text"] /\ got' = [got EXCEPT ![r] = text]
  /\ disturbed' = [disturbed EXCEPT ![r] = @ \/ Busy # {}]
  /\ UNCHANGED <<files, writers, seen, bounds, expected, overlap, unsigned>>

ReadSig(r) ==
  /\ rpc[r] = "text" /\ rpc' = [rpc EXCEPT ![r] = "first"]
  /\ seen' = [seen EXCEPT ![r] = Append(@, Verified(got[r], sig))] /\ got' = [got EXCEPT ![r] = Absent]
  /\ UNCHANGED <<files, writers, disturbed, bounds, expected, overlap, unsigned>>

Init ==
  /\ text \in {Absent, Config(NoLine, TRUE)}
  /\ sig = text
  /\ pc = [w \in Writers |-> "idle"] /\ next = [w \in Writers |-> None]
  /\ rpc = [r \in Readers |-> "off"] /\ got = [r \in Readers |-> Absent] /\ seen = [r \in Readers |-> <<>>]
  /\ ops = 0 /\ edits = 0 /\ crashes = 0
  /\ expected = text /\ overlap = FALSE /\ unsigned = FALSE /\ disturbed = [r \in Readers |-> FALSE]

Next ==
  \/ \E w \in Writers : \/ Command(w) \/ TruncateText(w) \/ WriteText(w) \/ TruncateSig(w)
                        \/ WriteSig(w) \/ SignConfig(w) \/ Crash(w)
  \/ \E r \in Readers : ReadText(r) \/ ReadSig(r)
  \/ HandEdit

Spec == Init /\ [][Next]_vars

-----------------------------------------------------------------------------
TypeOK ==
  LET Texts == [line : Seq(Known \cup (UNION {ToSet(l) : l \in Edits}) \cup {"no line", "absent", "torn", "garbled"}), rest : BOOLEAN]
  IN /\ text \in Texts /\ sig \in Texts /\ expected \in Texts
     /\ pc \in [Writers -> {"idle", "text", "write", "sig", "sign"}]
     /\ next \in [Writers -> Texts] /\ got \in [Readers -> Texts]
     /\ rpc \in [Readers -> {"off", "text", "first"}]
     /\ seen \in [Readers -> Seq(Texts)]
     /\ ops \in 0..MaxOps /\ edits \in 0..MaxEdits /\ crashes \in 0..MaxCrashes
     /\ overlap \in BOOLEAN /\ unsigned \in BOOLEAN /\ disturbed \in [Readers -> BOOLEAN]

\* A text a command made of nothing: names, and no other setting.
OnlyNames(t) == ~t.rest /\ t.line \in Seq(Known)

\* Changes that are made one after the other lose nothing - not a name, not a setting, not
\* an edit by hand that was never signed - unless an edit does not parse: `at line add` takes
\* it for {}, refuses nothing, and writes one name over every setting. (So does the second of
\* two changes at a time that finds the file truncated.)
NothingLost ==
  ~overlap /\ Busy = {} => text = expected \/ (expected = Garbled /\ OnlyNames(text))

\* A run that no change came across goes by the file, unless an edit is not signed: its
\* queue is the configured line, each known agent once, or else all agents but the mocks.
RunsGoByFile ==
  \A r \in Readers :
    Len(seen[r]) = 2 /\ ~disturbed[r] /\ ~overlap /\ ~unsigned
      => LET onFile == RawOf(text)
             q == GetLineAgents(seen[r][1], seen[r][2])
         IN /\ seen[r][1] = onFile /\ seen[r][2] = onFile
            /\ IsInjective(q) /\ ToSet(q) \subseteq Known
            /\ onFile.line # NoLine => ToSet(q) = ToSet(onFile.line) \cap Known

ConfigIsAsWritten == NothingLost /\ RunsGoByFile
=============================================================================
