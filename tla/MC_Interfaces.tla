---------------------------- MODULE MC_Interfaces ----------------------------
\* What a user meets: the runs and the sidebar of the terminal UI, the requests, toggles,
\* addresses and run details of the web page, and the events a run with --sse tells. They share
\* no state here: a behaviour follows one of them, `part', the others rest.
EXTENDS TLC, Naturals

CONSTANTS
  WebCalls, WebKinds,                                  \* WebRequests: requests, what they ask for
  ToggleAgents, ToggleFetches, ToggleElsewhere,        \* WebToggles
  RouterViews, RouterRuns, RouterHistory,              \* WebRouter
  PageRuns, PageLively, PageLines, PageSessions        \* RunPage

ASSUME InterfacesAssumption ==
  /\ ToggleAgents \cap ToggleFetches = {}
  /\ {"dashboard", "run-details"} \subseteq RouterViews
  /\ RouterViews \cap {"/", "/runs", "/runs/", "/nope", "none", "not-found"} = {}
  /\ {ToggleElsewhere, RouterRuns, RouterHistory, PageRuns, PageLines, PageSessions} \subseteq Nat

VARIABLES
  part,
  disk, fetches, sessions, sel, current, shown, reads, auto, stream, due,                   \* TuiRuns
  runs, filter, pane, zone, cursor, marked,                                                 \* TuiSidebar
  agent, record, kind, phase, saw, out, answer, did,                                        \* WebRequests
  off, flipped, request, before, fetch, list, crossed, stale, elsewhere,                    \* WebToggles
  view, picked, listed, made, hist, at, task, known, mine, others,                          \* WebRouter
  written, ended, feed, run, open, of, session, viewer, got, lines, asks, excused, pending,
  loads, switched, overtaken,                                                               \* RunPage
  mode, attempt, pc, outcome, log, read, tailing, hub, queue, events, dropped, started      \* SseRun

\* Two runs, each in a state directory of its own.
Tui == INSTANCE TuiRuns WITH
  NumRuns <- 2, Dirs <- {"proj", "home"}, DirOf <- <<"proj", "home">>, Pid <- <<1, 2>>,
  MaxFetches <- 2, MaxReads <- 2

\* All views; three runs of two days; one filter that keeps a view and a run, and one that
\* keeps two runs.
Menu == <<"dashboard", "new-task", "run-details", "agents", "settings">>
Sidebar == INSTANCE TuiSidebar WITH
  view <- pane, sel <- marked,
  RunOrder <- <<"c", "b", "a">>, Day <- "a" :> "yesterday" @@ "b" :> "today" @@ "c" :> "today",
  Filters <- {"", "x", "y"},
  Keeps <- "" :> {Menu[i] : i \in DOMAIN Menu} \cup {"a", "b", "c"} @@ "x" :> {"agents", "a"} @@ "y" :> {"b", "c"}

\* Requests of any kind about one run.
Web == INSTANCE WebRequests WITH Requests <- WebCalls, Kinds <- WebKinds

\* Agents, lists on their way, changes from elsewhere.
Toggles == INSTANCE WebToggles WITH
  shown <- flipped, Agents <- ToggleAgents, Fetches <- ToggleFetches,
  MaxElsewhere <- ToggleElsewhere

\* Runs and entries of history; the views without a role of their own are one.
Router == INSTANCE WebRouter WITH
  sel <- picked, list <- listed,
  Views <- RouterViews, MaxRuns <- RouterRuns, MaxHistory <- RouterHistory

\* Runs, of which some are not over and write lines, and sessions.
Page == INSTANCE RunPage WITH
  disk <- written, fetches <- asks, crossed <- overtaken,
  NumRuns <- PageRuns, Lively <- PageLively, MaxLines <- PageLines, MaxSessions <- PageSessions

\* Two attempts, two lines.
Sse == INSTANCE SseRun WITH Attempts <- 2, MaxLines <- 2

tuiVars == <<disk, fetches, sessions, sel, current, shown, reads, auto, stream, due>>
sidebarVars == <<runs, filter, pane, zone, cursor, marked>>
webVars == <<agent, record, kind, phase, saw, out, answer, did>>
togglesVars == <<off, flipped, request, before, fetch, list, crossed, stale, elsewhere>>
routerVars == <<view, picked, listed, made, hist, at, task, known, mine, others>>
pageVars == <<written, ended, feed, run, open, of, session, viewer, got, lines, asks, excused, pending,
  loads, switched, overtaken>>
sseVars == <<mode, attempt, pc, outcome, log, read, tailing, hub, queue, events, dropped, started>>
vars == <<part, tuiVars, sidebarVars, webVars, togglesVars, routerVars, pageVars, sseVars>>

\* Those that rest are in one of their initial states.
Resting == /\ (part = "tui" \/ sel = 0)
           /\ (part = "sidebar" \/ (runs = {} /\ pane = "dashboard"))
           /\ (part = "web" \/ (agent = "alive" /\ record = "running"))
           /\ (part = "toggles" \/ off = {})
           /\ (part = "router" \/ view = "not-found")
           /\ (part = "sse" \/ mode = "stream")

Init == /\ part \in {"tui", "sidebar", "web", "toggles", "router", "page", "sse"}
        /\ Tui!Init /\ Sidebar!Init /\ Web!Init /\ Toggles!Init
        /\ Router!Init /\ Page!Init /\ Sse!Init /\ Resting

ButTui == UNCHANGED <<part, sidebarVars, webVars, togglesVars, routerVars, pageVars, sseVars>>
ButSidebar == UNCHANGED <<part, tuiVars, webVars, togglesVars, routerVars, pageVars, sseVars>>
ButWeb == UNCHANGED <<part, tuiVars, sidebarVars, togglesVars, routerVars, pageVars, sseVars>>
ButToggles == UNCHANGED <<part, tuiVars, sidebarVars, webVars, routerVars, pageVars, sseVars>>
ButRouter == UNCHANGED <<part, tuiVars, sidebarVars, webVars, togglesVars, pageVars, sseVars>>
ButPage == UNCHANGED <<part, tuiVars, sidebarVars, webVars, togglesVars, routerVars, sseVars>>
ButSse == UNCHANGED <<part, tuiVars, sidebarVars, webVars, togglesVars, routerVars, pageVars>>

Next == \/ part = "tui" /\ Tui!Next /\ ButTui
        \/ part = "sidebar" /\ Sidebar!Next /\ ButSidebar
        \/ part = "web" /\ Web!Next /\ ButWeb
        \/ part = "toggles" /\ Toggles!Next /\ ButToggles
        \/ part = "router" /\ Router!Next /\ ButRouter
        \/ part = "page" /\ Page!Next /\ ButPage
        \/ part = "sse" /\ Sse!Next /\ ButSse

\* The steps the fairness of TuiRuns and SseRun speaks of.
OfTui(A) == part = "tui" /\ A /\ ButTui
OfSse(A) == part = "sse" /\ A /\ ButSse

Spec ==
  /\ Init /\ [][Next]_vars
  /\ SF_vars(OfTui(Tui!Poll)) /\ WF_vars(OfTui(Tui!ReadDone(1)))
  /\ WF_vars(OfTui(\E d \in {"proj", "home"} : Tui!ReadDir(1, d)))
  /\ WF_vars(OfSse(Sse!Leave)) /\ WF_vars(OfSse(Sse!Deliver))

\* TuiRuns: only the user and runs that come and go move the selection, and the log shown is
\* the selected run's.  TuiSidebar: the cursor is somewhere, and a poll does not move it off
\* its row.
TuiFollowsUser ==
  /\ Tui!TuiFollowsUser
  /\ [](part = "sidebar" => Sidebar!AlwaysSomewhere) /\ [][part = "sidebar" => Sidebar!PollStep]_vars
\* WebRequests: an answer tells what became of the request.
AnswersAreTrue == part = "web" => Web!AnswersAreTrue
\* WebToggles: a row tells whether the agent is on, unless something older overwrote it.
RowsAreTrue == part = "toggles" => Toggles!RowsAreTrue
\* WebRouter: the address is that of what is shown, Back and Forward show what they lead to,
\* and rewrite the history in the named cases only; a new task opens its own run.
AddressFollowsUser ==
  /\ [](part = "router" => Router!ShowsItsAddress)
  /\ [][part = "router" => Router!HistoryIsKept /\ Router!OpensItsOwn]_vars
\* RunPage: log and questions are those of the run the page shows, as far as they can be.
DetailsAreOfTheRun == part = "page" => Page!DetailsAreOfTheRun
\* SseRun: the events of a run are in order and complete, and a run that returned exits.
EventsTellTheRun == Sse!EventsTellTheRun
=============================================================================
