------------------------------ MODULE LiveView ------------------------------
(***************************************************************************)
(* What the web UI shows of a run: the runs store (webui/stores/runs.ts)   *)
(* fed by events (webui/stores/sse.ts over the one-shot replay of          *)
(* web-server/internal/proxy/sse.go and bridge/events.ts) and by refetched *)
(* lists that the service worker answers from its cache while it updates   *)
(* it (staleWhileRevalidate of webui/sw.ts; nobody listens for its         *)
(* CACHE_UPDATED).                                                         *)
(*                                                                         *)
(* A run is absent, running or over: versions 0, 1 and 2 of it. Only runs  *)
(* started with --sse publish that, which those the page itself starts are *)
(* not (web-server/internal/proxy/handlers.go). The proxy sends the stored *)
(* events of all runs and closes; the browser reconnects and, having been  *)
(* given no event ids, is sent all of them again, for ever. Nothing polls: *)
(* startGlobalEvents is given no `poll' to fall back to.                   *)
(***************************************************************************)
EXTENDS Naturals, Sequences, FiniteSets

CONSTANTS Fetches,   \* slots for requests of the list in flight
          MaxFails   \* bound on requests that fail

None == 3   \* no snapshot
Versions == 0..2

VARIABLES
  truth,     \* what the run's record says
  sse,       \* the run has --sse
  told,      \* last version that was published as an event
  others,    \* the start or end of another run is among the stored events
  stream,    \* Seq(Versions), 0 for another run's: events sent by the proxy, not yet dispatched
  page,      \* what the runs store shows
  timer,     \* the debounced refetch is due
  cache,     \* snapshot in the service worker's cache, or None
  fetch,     \* [Fetches -> [st, snap]]: idle, asked, or answered with a snapshot
  list,      \* [Fetches -> Versions \cup {None}]: response on its way to the page
  fails

vars == <<truth, sse, told, others, stream, page, timer, cache, fetch, list, fails>>

Idle == [st |-> "idle", snap |-> None]

TypeOK ==
  /\ truth \in Versions /\ told \in 0..truth /\ {sse, others} \subseteq BOOLEAN
  /\ stream \in Seq(Versions) /\ page \in Versions
  /\ timer \in BOOLEAN /\ cache \in 0..None /\ list \in [Fetches -> 0..None]
  /\ fetch \in [Fetches -> [st : {"idle", "asked", "answered"}, snap : 0..None]]

Init ==
  /\ truth = 0 /\ sse \in BOOLEAN /\ told = 0 /\ others = FALSE /\ stream = <<>> /\ page = 0 /\ timer = TRUE /\ cache = None
  /\ fetch = [f \in Fetches |-> Idle] /\ list = [f \in Fetches |-> None] /\ fails = 0

\* The run starts or ends: its record changes, and then, with --sse, the event is published.
RunAdvances == truth < 2 /\ (sse => told = truth) /\ truth' = truth + 1
               /\ UNCHANGED <<sse, told, others, stream, page, timer, cache, fetch, list, fails>>
Publish == sse /\ told < truth /\ told' = truth
           /\ UNCHANGED <<truth, sse, others, stream, page, timer, cache, fetch, list, fails>>
\* Another run does; to one that publishes itself its events would add nothing.
OtherPublishes == ~sse /\ ~others /\ others' = TRUE
                  /\ UNCHANGED <<truth, sse, told, stream, page, timer, cache, fetch, list, fails>>

\* Something is stored that makes the page fetch the list.
Heard == told > 0 \/ others

\* serveEvents: a connection is sent all stored events and ends.
Reconnect == /\ stream = <<>> /\ Heard
             /\ stream' = IF others THEN <<0>> ELSE [i \in 1..told |-> i]
             /\ UNCHANGED <<truth, sse, told, others, page, timer, cache, fetch, list, fails>>

(* Mutant: an event that starts a run does not fetch the list that has it. *)
RefreshesOnlyShown(e) == page # 0

\* REFRESH_EVENT_TYPES
Refreshes(e) == e \in Versions

\* applySseEvent changes a run the page has, and a start or an end asks for a new list.
Event ==
  /\ stream # <<>> /\ stream' = Tail(stream)
  /\ page' = IF page = 0 \/ Head(stream) = 0 THEN page ELSE Head(stream)
  /\ timer' = (timer \/ Refreshes(Head(stream)))
  /\ UNCHANGED <<truth, sse, told, others, cache, fetch, list, fails>>

\* The timer fires: the worker answers from its cache if it can, and asks the server too.
Refetch(f) ==
  /\ timer /\ fetch[f].st = "idle" /\ list[f] = None
  /\ timer' = FALSE /\ fetch' = [fetch EXCEPT ![f].st = "asked"]
  /\ list' = [list EXCEPT ![f] = cache]
  /\ UNCHANGED <<truth, sse, told, others, stream, page, cache, fails>>

Serve(f) == /\ fetch[f].st = "asked"
            /\ fetch' = [fetch EXCEPT ![f] = [st |-> "answered", snap |-> truth]]
            /\ UNCHANGED <<truth, sse, told, others, stream, page, timer, cache, list, fails>>

\* cache.put, in the order the answers arrive; without a cached one the page gets this.
Put(f) ==
  /\ fetch[f].st = "answered"
  /\ cache' = fetch[f].snap /\ fetch' = [fetch EXCEPT ![f] = Idle]
  /\ list' = IF cache = None THEN [list EXCEPT ![f] = fetch[f].snap] ELSE list
  /\ UNCHANGED <<truth, sse, told, others, stream, page, timer, fails>>

Fail(f) == /\ fetch[f].st = "asked" /\ fails < MaxFails /\ fails' = fails + 1
           /\ fetch' = [fetch EXCEPT ![f] = Idle]
           /\ UNCHANGED <<truth, sse, told, others, stream, page, timer, cache, list>>

\* setRuns replaces everything shown, whatever events were folded since it was asked for.
SetRuns(f) == /\ list[f] # None /\ page' = list[f] /\ list' = [list EXCEPT ![f] = None]
              /\ UNCHANGED <<truth, sse, told, others, stream, timer, cache, fetch, fails>>

Next == \/ RunAdvances \/ Publish \/ OtherPublishes \/ Reconnect \/ Event
        \/ \E f \in Fetches : Refetch(f) \/ Serve(f) \/ Put(f) \/ Fail(f) \/ SetRuns(f)

\* The browser reconnects and dispatches, its timers fire, and requests are answered.
Spec == /\ Init /\ [][Next]_vars
        /\ WF_vars(Reconnect) /\ WF_vars(Event) /\ WF_vars(Publish)
        /\ WF_vars(\E f \in Fetches : Refetch(f))
        /\ \A f \in Fetches : WF_vars(Serve(f)) /\ WF_vars(Put(f)) /\ WF_vars(SetRuns(f))

(* Once the start or end of some run is stored, however stale the cached     *)
(* lists are, the page shows the truth of every run again and again, of      *)
(* those that publish nothing too: a list that is one fetch old is repaired  *)
(* by the next replay. It does not settle: each replay shows a finished run  *)
(* as running again. Before that, as long as no run had --sse, nothing but   *)
(* the user makes the page look.                                             *)
PageCatchesUp == <>Heard => []<>(page = truth)
=============================================================================
