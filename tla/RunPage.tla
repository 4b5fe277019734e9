------------------------------ MODULE RunPage ------------------------------
(***************************************************************************)
(* The details of a run on the web page: RunDetailsView.svelte with its    *)
(* session (stores/run-details.ts), whose buffer of log lines is fed by    *)
(* fetches of the log and by the run's event stream, and the two panels    *)
(* made with a session: LogViewer.svelte and DiscussPanel.svelte.          *)
(*                                                                         *)
(* A connection is sent the run's events from the first on (EventStream);  *)
(* lines are numbered, and the end of a run is event 0.                    *)
(***************************************************************************)
EXTENDS Naturals, Sequences, SequencesExt

CONSTANTS NumRuns, MaxLines, MaxSessions,     \* bounds
          Lively      \* the runs that are not over from the start

Runs == 1..NumRuns
Sessions == 1..MaxSessions

VARIABLES
  disk,     \* [Runs -> lines of its log]
  ended,    \* runs that are over
  feed,     \* [Runs -> its events, in the order of the hub]
  run,      \* selectedRun, 0: none, or not in the list
  open,     \* the view is shown
  of,       \* [Sessions -> its run, 0 before it is made]
  session,  \* of the view, 0: none
  viewer,   \* the session the panels were made with, 0: not shown
  got,      \* [Sessions -> number of events dispatched]
  lines,    \* [Sessions -> the buffer]
  fetches,  \* [Sessions -> fetches under way: Asked, or the lines the answer carries]
  excused,  \* sessions whose last fetch failed or may have been overtaken (history)
  pending,  \* the run whose questions the panel lists, 0: none yet
  loads,    \* runs whose questions are on their way to the panel
  switched, \* the run changed under the panels (history)
  crossed   \* ... while questions were on their way, or these failed (history)

runVars == <<disk, ended, feed>>
logVars == <<got, lines, fetches, excused>>
panelVars == <<pending, loads, switched, crossed>>
vars == <<runVars, run, open, of, session, viewer, logVars, panelVars>>

Asked == MaxLines + 1
End == 0
AllLines(n) == [i \in 1..n |-> i]

Init ==
  /\ disk = [r \in Runs |-> 0] /\ ended = Runs \ Lively /\ feed = [r \in Runs |-> <<>>]
  /\ run = 0 /\ open = FALSE
  /\ of = [s \in Sessions |-> 0] /\ session = 0 /\ viewer = 0
  /\ got = [s \in Sessions |-> 0] /\ lines = [s \in Sessions |-> <<>>]
  /\ fetches = [s \in Sessions |-> {}] /\ excused = {}
  /\ pending = 0 /\ loads = {} /\ switched = FALSE /\ crossed = FALSE

-----------------------------------------------------------------------------
\* The run: its log, its end, and its events, of which the end may come before the last lines
\* (SseRun), or which may never come (a run without --sse).
Write(r) ==
  /\ r \notin ended /\ disk[r] < MaxLines /\ disk' = [disk EXCEPT ![r] = @ + 1]
  /\ UNCHANGED <<ended, feed, run, open, of, session, viewer, logVars, panelVars>>

Finish(r) ==
  /\ ended' = ended \cup {r} /\ ended' # ended
  /\ UNCHANGED <<disk, feed, run, open, of, session, viewer, logVars, panelVars>>

Told(r) == IF Contains(feed[r], End) THEN Len(feed[r]) - 1 ELSE Len(feed[r])
Publish(r) ==
  /\ \/ Told(r) < disk[r] /\ feed' = [feed EXCEPT ![r] = Append(@, Told(r) + 1)]
     \/ r \in ended \cap Lively /\ ~Contains(feed[r], End) /\ feed' = [feed EXCEPT ![r] = Append(@, End)]
  /\ UNCHANGED <<disk, ended, run, open, of, session, viewer, logVars, panelVars>>

-----------------------------------------------------------------------------
\* The panels are made with the session of their run, and only the questions are loaded anew
\* when the run changes under them.
ShowPanels(r) ==
  \/ /\ viewer = 0 /\ viewer' = session' /\ pending' = 0 /\ loads' = {r}
     /\ switched' = FALSE /\ crossed' = FALSE
  \/ /\ viewer # 0 /\ UNCHANGED <<viewer, pending>> /\ loads' = loads \cup {r}
     /\ switched' = TRUE /\ crossed' = (crossed \/ loads # {})

\* The view's reaction to a selection: a session for another run replaces the one there is;
\* the panels stay as they are made until no run is selected.
React(r) ==
  IF r = 0 THEN
    /\ UNCHANGED <<of, session, fetches>> /\ viewer' = 0
    /\ pending' = 0 /\ loads' = {} /\ switched' = FALSE /\ crossed' = FALSE
  ELSE
    /\ IF session # 0 /\ of[session] = r THEN UNCHANGED <<of, session, fetches>>
       ELSE \E s \in Sessions :
              /\ of[s] = 0 /\ (\A t \in 1..(s - 1) : of[t] # 0)
              /\ of' = [of EXCEPT ![s] = r] /\ session' = s
              /\ fetches' = [fetches EXCEPT ![s] = {Asked}]
    /\ ShowPanels(r)

Select(r) ==
  /\ run # r /\ run' = r
  /\ IF open THEN React(r) ELSE UNCHANGED <<of, session, viewer, fetches, panelVars>>
  /\ UNCHANGED <<runVars, open, got, lines, excused>>

Show ==
  /\ ~open /\ open' = TRUE /\ React(run)
  /\ UNCHANGED <<runVars, run, got, lines, excused>>

\* onDestroy closes the session.
Leave ==
  /\ open /\ open' = FALSE
  /\ session' = 0 /\ viewer' = 0
  /\ pending' = 0 /\ loads' = {} /\ switched' = FALSE /\ crossed' = FALSE
  /\ UNCHANGED <<runVars, run, of, logVars>>

-----------------------------------------------------------------------------
\* refresh: the log is read by the server, and its answer replaces the buffer; or it fails.
Serve(s) ==
  /\ Asked \in fetches[s]
  /\ fetches' = [fetches EXCEPT ![s] = (@ \ {Asked}) \cup {disk[of[s]]}]
  /\ UNCHANGED <<runVars, run, open, of, session, viewer, got, lines, excused, panelVars>>

Answered(s, n) ==
  /\ n \in fetches[s] /\ n # Asked
  /\ fetches' = [fetches EXCEPT ![s] = @ \ {n}]
  /\ lines' = [lines EXCEPT ![s] = AllLines(n)]
  /\ UNCHANGED <<runVars, run, open, of, session, viewer, got, excused, panelVars>>

Failed(s, n) ==
  /\ n \in fetches[s]
  /\ fetches' = [fetches EXCEPT ![s] = @ \ {n}] /\ excused' = excused \cup {s}
  /\ UNCHANGED <<runVars, run, open, of, session, viewer, got, lines, panelVars>>

(* Mutant: the end of the run is no reason to fetch. *)
OnlyAppend(s, e) ==
  /\ lines' = [lines EXCEPT ![s] = IF e = End THEN @ ELSE Append(@, e)]
  /\ UNCHANGED <<fetches, excused>>

\* onEvent: a line is appended, the end asks for the log once more.
OnEvent(s, e) ==
  IF e = End THEN
    /\ fetches' = [fetches EXCEPT ![s] = @ \cup {Asked}] /\ UNCHANGED lines
    /\ excused' = IF fetches[s] \subseteq {Asked} THEN excused \ {s} ELSE excused \cup {s}
  ELSE lines' = [lines EXCEPT ![s] = Append(@, e)] /\ UNCHANGED <<fetches, excused>>

\* The stream of the view's session, the others are closed.
Dispatch(s) ==
  /\ s = session /\ got[s] < Len(feed[of[s]])
  /\ got' = [got EXCEPT ![s] = @ + 1] /\ OnEvent(s, feed[of[s]][got[s] + 1])
  /\ UNCHANGED <<runVars, run, open, of, session, viewer, panelVars>>

-----------------------------------------------------------------------------
\* loadPending: the answer is listed whatever run is selected by now; or it fails.
Loaded(r) ==
  /\ r \in loads /\ loads' = loads \ {r} /\ pending' = r
  /\ UNCHANGED <<runVars, run, open, of, session, viewer, logVars, switched, crossed>>

NotLoaded(r) ==
  /\ r \in loads /\ loads' = loads \ {r} /\ crossed' = TRUE
  /\ UNCHANGED <<runVars, run, open, of, session, viewer, logVars, pending, switched>>

\* A question on the stream of the panel's session, or an answer of the user's, which goes to
\* the selected run: the list is loaded again.
LoadAgain ==
  /\ viewer # 0 /\ (viewer = session \/ pending # 0)
  /\ loads' = loads \cup {run}
  /\ UNCHANGED <<runVars, run, open, of, session, viewer, logVars, pending, switched, crossed>>

Next ==
  \/ \E r \in Runs : Write(r) \/ Finish(r) \/ Publish(r) \/ Loaded(r) \/ NotLoaded(r)
  \/ \E r \in Runs \cup {0} : Select(r)
  \/ Show \/ Leave \/ LoadAgain
  \/ \E s \in Sessions : Serve(s) \/ Dispatch(s)
  \/ \E s \in Sessions, n \in 0..Asked : Answered(s, n) \/ Failed(s, n)

-----------------------------------------------------------------------------
TypeOK ==
  /\ disk \in [Runs -> 0..MaxLines] /\ ended \subseteq Runs
  /\ \A r \in Runs : feed[r] \in BoundedSeq(0..MaxLines, MaxLines + 1)
  /\ run \in Runs \cup {0} /\ open \in BOOLEAN /\ of \in [Sessions -> Runs \cup {0}]
  /\ session \in Sessions \cup {0} /\ viewer \in Sessions \cup {0}
  /\ got \in [Sessions -> 0..(MaxLines + 1)] /\ fetches \in [Sessions -> SUBSET (0..Asked)]
  /\ excused \subseteq Sessions /\ pending \in Runs \cup {0} /\ loads \subseteq Runs
  /\ switched \in BOOLEAN /\ crossed \in BOOLEAN

\* After the end of the run was told last, and all fetches are answered, the buffer is the log;
\* unless a fetch failed, or an older answer was on its way when the end was told.
BufferConverges ==
  \A s \in Sessions \ excused :
    (/\ of[s] # 0 /\ got[s] > 0 /\ got[s] = Len(feed[of[s]]) /\ feed[of[s]][got[s]] = End
     /\ fetches[s] = {})
    => lines[s] = AllLines(disk[of[s]])

\* The panels are of the selected run while it does not change under them: the log is read from
\* the view's own session, and no question of another run is listed, which an answer would miss.
\* After a change the log stays the first run's, but the questions are the new run's once they
\* are loaded, unless others were still on their way at a change, or did not come.
PanelsAreOfTheRun ==
  viewer # 0 =>
    /\ ~switched => viewer = session /\ of[viewer] = run /\ pending \in {0, run}
    /\ loads = {} /\ ~crossed => pending = run

DetailsAreOfTheRun == BufferConverges /\ PanelsAreOfTheRun
=============================================================================
