------------------------------ MODULE TuiRuns --------------------------------
\* The terminal UI and the runs: a list polled from two state directories, the selected
\* run, and its log, read without waiting. What a key does goes by the selection, which a
\* refresh may move; what the log pane shows is what the last finished read brought.
EXTENDS Naturals, Sequences, SequencesExt, FiniteSets, FiniteSetsExt

CONSTANTS
  NumRuns,        \* runs, in the order they start
  Dirs, DirOf,    \* the state directories, and the one a run is recorded in
  Pid,            \* the pid of a run; a later one may be given it again
  MaxFetches,     \* refreshes under way at a time
  MaxReads        \* log reads under way at a time

Runs == 1..NumRuns
None == 0

VARIABLES
  disk,           \* what the runs files and the processes say of a run
  fetches,        \* refreshes under way, the oldest first: what they have read and found; history:
                  \* whether another was under way with them
  sessions, sel,  \* the list on screen and the selected run
  current, shown, \* the run the log store follows, and the one whose log is shown
  reads,          \* reads of logs under way, the oldest first
  auto,           \* auto-refresh is on
  stream,         \* a run in stream mode writes to the log pane
  due             \* a refresh half a second after a launch

world == disk
store == <<sessions, sel>>
log == <<current, shown, reads>>
settings == <<auto, stream, due>>
vars == <<world, fetches, store, log, settings>>

Mixed == NumRuns + 1    \* lines of a stream among those of a log
Listed(d) == {r \in Runs : DirOf[r] = d /\ disk[r] \in {"running", "ended"}}

-----------------------------------------------------------------------------
\* The runs.

Start(r) ==
  /\ disk[r] = "none" /\ \A q \in 1..(r - 1) : disk[q] # "none"
  /\ \A q \in Runs : disk[q] = "running" => Pid[q] # Pid[r]
  /\ disk' = [disk EXCEPT ![r] = "running"]

Finish(r) == /\ disk[r] = "running" /\ disk' = [disk EXCEPT ![r] = "ended"]
             /\ UNCHANGED <<fetches, store, log, settings>>
\* By the limits on the number and the age of the records.
Prune(r) == /\ disk[r] = "ended" /\ disk' = [disk EXCEPT ![r] = "gone"]
            /\ UNCHANGED <<fetches, store, log, settings>>

-----------------------------------------------------------------------------
\* The effect of App on the selected record: the log store follows it. Every change of the
\* list brings new objects, so that the log of the same run is read again as well.

LoadLogFile(r) == Len(reads) < MaxReads /\ reads' = Append(reads, r)
RefreshLog == IF current = None THEN UNCHANGED reads ELSE LoadLogFile(current)

Follow(r, list) ==
  IF r \in list THEN current' = r /\ LoadLogFile(r) /\ UNCHANGED shown
  ELSE current' = None /\ shown' = None /\ UNCHANGED reads

\* The callback of readFile, in any order of those under way.
ReadDone(i) ==
  /\ i \in DOMAIN reads
  /\ shown' = reads[i] /\ reads' = RemoveAt(reads, i)
  /\ UNCHANGED <<world, fetches, store, current, settings>>

-----------------------------------------------------------------------------
\* refreshSessions: a directory after the other under its own lock; the last one read
\* publishes the joined list.

Begin ==
  /\ Len(fetches) < MaxFetches
  /\ fetches' = Append([f \in DOMAIN fetches |-> [fetches[f] EXCEPT !.shared = TRUE]],
                       [read |-> {}, list |-> {}, shared |-> fetches # <<>>])

\* Mutant: the newest run is selected with every list.
AlwaysNewest(list) == IF list = {} THEN None ELSE Max(list)
\* The selection stays with its run, and is the newest one when that is not on the list.
NextSelection(list) == IF sel \in list THEN sel ELSE IF list = {} THEN None ELSE Max(list)

Publish(list) ==
  /\ sessions' = list /\ sel' = NextSelection(list)
  /\ IF sel' = sel THEN \/ list = sessions /\ UNCHANGED log
                        \/ (list # sessions \/ sel # None) /\ Follow(sel, list)   \* or a record changed
     ELSE /\ current' = sel'
          /\ shown' = IF list = sessions THEN shown ELSE None
          /\ IF sel' = None THEN UNCHANGED reads ELSE LoadLogFile(sel')

ReadDir(f, d) ==
  /\ f \in DOMAIN fetches /\ d \notin fetches[f].read
  /\ LET read == fetches[f].read \cup {d}
         list == fetches[f].list \cup Listed(d)
     IN IF read = Dirs THEN fetches' = RemoveAt(fetches, f) /\ Publish(list)
        ELSE fetches' = [fetches EXCEPT ![f].read = read, ![f].list = list] /\ UNCHANGED <<store, log>>
  /\ UNCHANGED <<world, settings>>

\* The timer of auto-refresh reads the log as well.
PollLog == RefreshLog

Poll == /\ auto /\ PollLog
        /\ Begin
        /\ UNCHANGED <<world, store, current, shown, settings>>

-----------------------------------------------------------------------------
\* The keys.

\* Enter or a click on a run, and Shift+J/K.
Pick(r) ==
  /\ r \in sessions /\ sel' = r
  /\ IF r = sel THEN UNCHANGED log ELSE Follow(r, sessions)
  /\ UNCHANGED <<world, fetches, sessions, settings>>

\* SIGKILL to the pid in the record, whatever process has it by now.
Victims == IF sel \in sessions THEN {r \in Runs : disk[r] = "running" /\ Pid[r] = Pid[sel]} ELSE {}
Kill ==
  /\ sel \in sessions
  /\ disk' = [r \in Runs |-> IF r \in Victims THEN "ended" ELSE disk[r]]
  /\ Begin
  /\ UNCHANGED <<store, log, settings>>

\* r on the selected run: `at -s' with its prompt, and a refresh.
Retry(r) ==
  /\ sel \in sessions /\ Start(r)
  /\ Begin
  /\ UNCHANGED <<store, log, settings>>

\* Enter in New Task: detached, or with the output appended to whatever log is shown.
Submit(r) ==
  /\ Start(r) /\ due' = TRUE /\ stream' \in {stream, TRUE}
  /\ UNCHANGED <<fetches, store, log, auto>>

Output == /\ stream /\ shown' = Mixed
          /\ UNCHANGED <<world, fetches, store, current, reads, settings>>
StreamEnds == /\ stream /\ stream' = FALSE
              /\ UNCHANGED <<world, fetches, store, log, auto, due>>

LateRefresh == /\ due /\ due' = FALSE
               /\ Begin
               /\ UNCHANGED <<world, store, log, auto, stream>>

\* ^R, and the row of the settings.
Refresh == /\ RefreshLog /\ Begin
           /\ UNCHANGED <<world, store, current, shown, settings>>
SetAutoRefresh == auto' = ~auto /\ UNCHANGED <<world, fetches, store, log, stream, due>>

\* A run from another terminal.
Elsewhere(r) == Start(r) /\ UNCHANGED <<fetches, store, log, settings>>

-----------------------------------------------------------------------------
\* onMount: the saved selection, if there is one, and a refresh.
Init ==
  /\ disk = [r \in Runs |-> IF r = 1 THEN "running" ELSE "none"]
  /\ sel \in {None, 1} /\ sessions = {}
  /\ fetches = <<[read |-> {}, list |-> {}, shared |-> FALSE]>>
  /\ current = None /\ shown = None /\ reads = <<>>
  /\ auto = TRUE /\ stream = FALSE /\ due = FALSE

Next ==
  \/ \E r \in Runs : Finish(r) \/ Prune(r) \/ Elsewhere(r) \/ Pick(r) \/ Retry(r) \/ Submit(r)
  \/ \E i \in 1..MaxReads : ReadDone(i)
  \/ \E f \in 1..MaxFetches, d \in Dirs : ReadDir(f, d)
  \/ Poll \/ Kill \/ Output \/ StreamEnds \/ LateRefresh \/ Refresh \/ SetAutoRefresh

\* Reads of files end, at the latest when they are the oldest, and the timer goes off, whatever
\* else refreshes (it waits for none; only the bounds on what is under way hold it up).
Fairness == SF_vars(Poll) /\ WF_vars(ReadDone(1)) /\ WF_vars(\E d \in Dirs : ReadDir(1, d))

Spec == Init /\ [][Next]_vars /\ Fairness

-----------------------------------------------------------------------------
TypeOK ==
  /\ disk \in [Runs -> {"none", "running", "ended", "gone"}]
  /\ fetches \in Seq([read : SUBSET Dirs, list : SUBSET Runs, shared : BOOLEAN]) /\ Len(fetches) <= MaxFetches
  /\ sessions \subseteq Runs /\ sel \in Runs \cup {None}
  /\ current \in Runs \cup {None} /\ shown \in Runs \cup {None, Mixed}
  /\ reads \in Seq(Runs) /\ Len(reads) <= MaxReads
  /\ {auto, stream, due} \subseteq BOOLEAN

\* The keys that kill and retry go by the selection, and only the user moves it off a run
\* that is on record: a refresh that had no other beside it leaves it alone. (Of two
\* together the older list may come last, without the run just picked, and ^K then kills
\* the newest one.)
SelectionStays ==
  [][\A f \in DOMAIN fetches :
       fetches' = RemoveAt(fetches, f) /\ ~fetches[f].shared /\ sel \in UNION {Listed(d) : d \in Dirs}
         => sel' = sel]_vars

\* When the user leaves the selection alone, the log shown is in the end that of the run
\* selected, though reads end in any order and a stream writes to the same pane.
LogCatchesUp ==
  \A r \in Runs : <>[](sel = r /\ auto /\ ~stream) => <>[](shown = r)

TuiFollowsUser == SelectionStays /\ LogCatchesUp
=============================================================================
