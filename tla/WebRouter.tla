----------------------------- MODULE WebRouter -----------------------------
(***************************************************************************)
(* The address of the web page: its router (webui/utils/router.ts) between *)
(* the browser's history and the stores of the view and the selected run,  *)
(* the keys and clicks that set them (utils/keyboard.ts, MainLayout.svelte *)
(* and the lists of runs), and a new task, which opens its run when that   *)
(* is recorded (NewTaskView.svelte).                                       *)
(*                                                                         *)
(* A store calls its subscribers at each change: the router pushes between *)
(* the change of the run and that of the view, too.  Runs are numbered as  *)
(* they are made; the page lists the newest first.                         *)
(***************************************************************************)
EXTENDS Naturals, Sequences

CONSTANTS Views,         \* what the page can show, "dashboard" and "run-details" among it
          MaxRuns, MaxHistory      \* bounds

VARIABLES
  view,    \* currentView: one of Views or "not-found"
  sel,     \* selectedRunId, 0: null
  list,    \* the runs 1..list are in the page's list
  made,    \* the runs 1..made are recorded
  hist,    \* the browser's history: paths with the state they were pushed with
  at,      \* the current entry
  task,    \* the new task: "none", "posting", "polling"
  known,   \* knownIds: the runs listed when its POST was answered
  mine,    \* the run it started, 0 until that is recorded
  others   \* a run of someone else's may be new to the page since it was posted (history)

vars == <<view, sel, list, made, hist, at, task, known, mine, others>>

\* Paths are pairs of a name and a run; states pairs of a view and a run, or no state.
NoState == <<"none", 0>>
Alias == <<"/runs", 0>>
Unknown == <<"/nope", 0>>

\* parsePath and formatPath.  "/nope" stands for any path they do not know.
ParsePath(p) ==
  CASE p[1] = "/runs/" -> <<"run-details", p[2]>>
    [] p \in {<<"/", 0>>, Alias} -> <<"dashboard", 0>>
    [] p = Unknown -> <<"not-found", 0>>
    [] OTHER -> p
FormatPath(v, r) ==
  CASE v = "run-details" -> IF r = 0 THEN <<"/", 0>> ELSE <<"/runs/", r>>
    [] v = "dashboard" -> <<"/", 0>>
    [] OTHER -> <<v, 0>>

(* Mutant: every change is pushed. *)
PushAlways(h, v, r) ==
  IF v = "not-found" THEN h
  ELSE [entries |-> Append(SubSeq(h.entries, 1, h.at),
                           [path |-> FormatPath(v, r), state |-> <<v, IF v = "run-details" THEN r ELSE 0>>]),
        at |-> h.at + 1]

\* syncRoute: a path that is not the current one is pushed, and what was ahead is gone.
SyncRoute(h, v, r) ==
  IF v = "not-found" \/ FormatPath(v, r) = h.entries[h.at].path THEN h
  ELSE [entries |-> Append(SubSeq(h.entries, 1, h.at),
                           [path |-> FormatPath(v, r), state |-> <<v, IF v = "run-details" THEN r ELSE 0>>]),
        at |-> h.at + 1]

\* The stores are set, the run first; a value that does not change tells nobody.
Selected(h, v, r, new) == IF new = r THEN h ELSE SyncRoute(h, v, new)
Viewed(h, v, r, new) == IF new = v THEN h ELSE SyncRoute(h, new, r)
SetStores(h, r, v) ==
  LET done == Viewed(Selected(h, view, sel, r), view, r, v)
  IN /\ Len(done.entries) <= MaxHistory
     /\ sel' = r /\ view' = v /\ hist' = done.entries /\ at' = done.at

Here == [entries |-> hist, at |-> at]

-----------------------------------------------------------------------------
\* startRouter: the page comes up at a path, as one entry of the history or after a reload.
Start(h) ==
  LET route == ParsePath(h.entries[h.at].path)
      up == SyncRoute(h, route[1], route[2])
  IN [view |-> route[1], sel |-> route[2], hist |-> up.entries, at |-> up.at]

Init ==
  \E p \in {<<"/", 0>>, <<"/runs/", 1>>, Alias, Unknown} :
    LET up == Start([entries |-> <<[path |-> p, state |-> NoState]>>, at |-> 1])
    IN /\ view = up.view /\ sel = up.sel /\ hist = up.hist /\ at = up.at
       /\ list = 0 /\ made = 0 /\ task = "none" /\ known = 0 /\ mine = 0 /\ others = FALSE

Reload ==
  LET up == Start(Here)
  IN /\ Len(up.hist) <= MaxHistory
     /\ view' = up.view /\ sel' = up.sel /\ hist' = up.hist /\ at' = up.at
     /\ list' = 0 /\ task' = "none" /\ known' = 0 /\ mine' = 0 /\ others' = FALSE
     /\ UNCHANGED made

\* The number keys and the navigation; and Enter, when a run is selected.
Show(v) ==
  /\ SetStores(Here, sel, v)
  /\ UNCHANGED <<list, made, task, known, mine, others>>
OpenSelected == sel # 0 /\ Show("run-details")

\* neighborRunId: one further in the list, held at its ends; the first for a run not in it.
Neighbor(down) ==
  CASE list = 0 -> 0
    [] sel \notin 1..list -> list
    [] down -> IF sel > 1 THEN sel - 1 ELSE 1
    [] OTHER -> IF sel < list THEN sel + 1 ELSE list

\* j and k; Escape; and a run picked from a list.
Step(down) ==
  /\ SetStores(Here, Neighbor(down), view)
  /\ UNCHANGED <<list, made, task, known, mine, others>>
Clear ==
  /\ SetStores(Here, 0, view)
  /\ UNCHANGED <<list, made, task, known, mine, others>>
Pick(r) ==
  /\ r \in 1..list /\ SetStores(Here, r, "run-details")
  /\ UNCHANGED <<list, made, task, known, mine, others>>

\* onPopState: the entry's state, or its path if it has none.
Target(i) == IF hist[i].state = NoState THEN ParsePath(hist[i].path) ELSE hist[i].state

Go(i) ==
  /\ i \in DOMAIN hist \ {at}
  /\ LET t == Target(i)
     IN SetStores([entries |-> hist, at |-> i], IF t[2] = 0 THEN sel ELSE t[2], t[1])
  /\ UNCHANGED <<list, made, task, known, mine, others>>

-----------------------------------------------------------------------------
\* Someone else, or the task, starts a run; the page fetches its list.
Made(byTask) ==
  /\ made < MaxRuns /\ made' = made + 1
  /\ IF byTask THEN task \in {"posting", "polling"} /\ mine = 0 /\ mine' = made + 1 /\ UNCHANGED others
     ELSE others' = (others \/ task # "none") /\ UNCHANGED mine
  /\ UNCHANGED <<view, sel, list, hist, at, task, known>>

SetRuns ==
  /\ list < made /\ list' = made
  /\ UNCHANGED <<view, sel, made, hist, at, task, known, mine, others>>

\* submit: one at a time in its view, which may be left meanwhile.
Submit ==
  /\ view = "new-task" /\ task = "none" /\ task' = "posting"
  /\ mine' = 0 /\ others' = (list < made)
  /\ UNCHANGED <<view, sel, list, made, hist, at, known>>

Posted ==
  /\ task = "posting"
  /\ \/ task' = "polling" /\ known' = list
     \/ task' = "none" /\ UNCHANGED known
  /\ UNCHANGED <<view, sel, list, made, hist, at, mine, others>>

\* A poll: the newest run that was not known is opened, whatever the page shows by now.
Found ==
  /\ task = "polling" /\ made > known /\ task' = "none" /\ list' = made
  /\ SetStores(Here, made, "run-details")
  /\ UNCHANGED <<made, known, mine, others>>

\* After the last poll, the newest run; after a failed one, the dashboard.
GaveUp ==
  /\ task = "polling" /\ task' = "none"
  /\ \/ made = known /\ list' = made /\ made # 0 /\ SetStores(Here, made, "run-details")
     \/ UNCHANGED list /\ SetStores(Here, sel, "dashboard")
  /\ UNCHANGED <<made, known, mine, others>>

Next ==
  \/ Reload \/ OpenSelected \/ Clear \/ SetRuns \/ Submit \/ Posted \/ Found \/ GaveUp
  \/ \E v \in Views : Show(v)
  \/ \E b \in BOOLEAN : Step(b) \/ Made(b)
  \/ \E r \in 1..MaxRuns : Pick(r)
  \/ \E i \in DOMAIN hist : Go(i)

-----------------------------------------------------------------------------
TypeOK ==
  /\ view \in Views \cup {"not-found"} /\ sel \in 0..MaxRuns
  /\ list \in 0..made /\ made \in 0..MaxRuns
  /\ Len(hist) <= MaxHistory /\ at \in DOMAIN hist
  /\ task \in {"none", "posting", "polling"} /\ known \in 0..list /\ mine \in 0..made
  /\ others \in BOOLEAN

\* Entries that do not bring back what was shown: a second name of the dashboard, and the
\* details while no run was selected, whose address is the dashboard's.
Lossy(e) == e.path = Alias \/ e.state = <<"run-details", 0>>

\* The address is that of what is shown.
ShowsItsAddress ==
  LET e == hist[at]
  IN IF view = "not-found" THEN e.path = Unknown
     ELSE FormatPath(view, sel) = e.path \/ Lossy(e)

\* Going back or forward shows the run or view gone to, and leaves the history as it is;
\* unless it leads to another run's details from another view, or to a lossy entry:
\* then the router pushes what it passes through, and what lay ahead is lost.
HistoryIsKept ==
  \A i \in DOMAIN hist :
    Go(i) =>
      /\ view' = Target(i)[1] /\ Target(i)[2] \in {0, sel'}
      /\ hist' = hist \/ Lossy(hist[i])
           \/ (Target(i)[2] \notin {0, sel} /\ view \notin {"run-details", "not-found"})

\* The run a task opens at its end is its own, once that is recorded, unless others have made
\* runs that were new to the page.
OpensItsOwn == (Found \/ GaveUp) /\ view' = "run-details" => sel' = mine \/ others \/ mine = 0

AddressFollowsUser == [](ShowsItsAddress) /\ [][HistoryIsKept /\ OpensItsOwn]_vars
=============================================================================
