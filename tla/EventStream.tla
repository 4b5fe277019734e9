----------------------------- MODULE EventStream -----------------------------
(***************************************************************************)
(* The event stream: notify/store.ts (one file of events per run),         *)
(* notify/hub.ts (the HTTP hub that numbers, stores, broadcasts and        *)
(* replays) and webui/api/sse.ts (a browser's EventSource and its manager).*)
(*                                                                         *)
(* A hub numbers an event from a counter per run that it initialises from  *)
(* the file once. Two hubs on one state directory (`at serve` and the hub  *)
(* of a run that started before it) therefore give out the same numbers.   *)
(* A client that reconnects sends the number of the last event it got, and *)
(* a hub replays what is numbered higher: of every run, for a client of    *)
(* /events, although each run is numbered from 1.                          *)
(***************************************************************************)
EXTENDS Naturals, Sequences, FiniteSets, SequencesExt

CONSTANTS Runs, Hubs, Clients,
          Publishes,   \* SUBSET (Hubs \X Runs): who publishes events of which run
          Watch,       \* [Clients -> Runs \cup {"all"}]
          At,          \* [Clients -> Hubs]
          MaxEvents,   \* bound on the events of all runs
          MaxBreaks,   \* bound on connections lost and hubs stopped
          MaxRetries   \* maxRetries of SseManager

VARIABLES
  file,      \* [Runs -> Seq(event)]
  counter,   \* [Hubs -> [Runs -> Nat]]: seqMap, 0 is "not yet read"
  up,        \* [Hubs -> BOOLEAN]
  es,        \* [Clients -> state of the EventSource; "none" waits for retryTimer]
  lastId,    \* [Clients -> Nat]: Last-Event-ID the EventSource would send
  since,     \* [Clients -> Nat]: sinceSeq of the connection
  wire,      \* [Clients -> Seq(event)]: written by the hub, not yet dispatched
  got,       \* [Clients -> Seq(event)]: dispatched since this EventSource was made
  base,      \* [Clients -> Nat]: history, how many of got were there at the connect
  retries, polling,  \* of SseManager
  breaks

fvars == <<file, counter>>
cvars == <<es, lastId, since, wire, got, base, retries, polling>>
vars == <<file, counter, up, es, lastId, since, wire, got, base, retries, polling, breaks>>

Watches(c, r) == Watch[c] \in {r, "all"}
Stored == UNION {ToSet(file[r]) : r \in Runs}
Total == Cardinality(Stored)

TypeOK ==
  /\ \A r \in Runs, i \in 1..MaxEvents : i \in DOMAIN file[r] =>
       file[r][i].run = r /\ file[r][i].at = i /\ file[r][i].seq \in 1..i /\ file[r][i].by \in Hubs
  /\ up \in [Hubs -> BOOLEAN] /\ counter \in [Hubs -> [Runs -> 0..MaxEvents + 1]]
  /\ es \in [Clients -> {"none", "connecting", "open"}]
  /\ lastId \in [Clients -> 0..MaxEvents] /\ since \in [Clients -> 0..MaxEvents]
  /\ \A c \in Clients : ToSet(wire[c]) \cup ToSet(got[c]) \subseteq Stored
  /\ retries \in [Clients -> 0..MaxRetries + 1] /\ polling \in [Clients -> BOOLEAN]

Init ==
  /\ file = [r \in Runs |-> <<>>] /\ counter = [h \in Hubs |-> [r \in Runs |-> 0]]
  /\ up = [h \in Hubs |-> TRUE] /\ es = [c \in Clients |-> "connecting"]
  /\ lastId = [c \in Clients |-> 0] /\ since = lastId /\ base = lastId /\ retries = lastId
  /\ wire = [c \in Clients |-> <<>>] /\ got = wire
  /\ polling = [c \in Clients |-> FALSE] /\ breaks = 0

----------------------------------------------------------------------------
(* The hub *)

MaxSeqForRun(r) == Max({e.seq : e \in ToSet(file[r])} \cup {0})

(* Mutant: the counter starts at 1 after a restart. *)
NextSeqFromOne(h, r) == IF counter[h][r] = 0 THEN 1 ELSE counter[h][r]

NextSeq(h, r) == IF counter[h][r] = 0 THEN MaxSeqForRun(r) + 1 ELSE counter[h][r]

\* broadcast: the event is numbered, appended and written to the clients of this hub.
Publish(h, r) ==
  /\ <<h, r>> \in Publishes /\ up[h] /\ Total < MaxEvents
  /\ LET e == [run |-> r, at |-> Len(file[r]) + 1, seq |-> NextSeq(h, r), by |-> h]
     IN  /\ file' = [file EXCEPT ![r] = Append(@, e)]
         /\ counter' = [counter EXCEPT ![h][r] = e.seq + 1]
         /\ wire' = [c \in Clients |-> IF es[c] = "open" /\ At[c] = h /\ Watches(c, r)
                                       THEN Append(wire[c], e) ELSE wire[c]]
  /\ UNCHANGED <<up, es, lastId, since, got, base, retries, polling, breaks>>

\* readEventsSince: what is numbered higher, of a run in the order of its file; replayAll sorts it
\* by number, and leaves what has one number in the order of the files, which the directory gives:
\* dir, with places enough for all the files that hold an event.
Precedes(c, dir, d, e) ==
  \/ Watch[c] = "all" /\ d.seq < e.seq
  \/ /\ Watch[c] = "all" => d.seq = e.seq
     /\ dir[d.run] < dir[e.run] \/ (d.run = e.run /\ d.at < e.at)

Since(c, n) == {e \in Stored : Watches(c, e.run) /\ e.seq > n}

Replays(c, n) ==
  {s \in SeqOf(Since(c, n), MaxEvents) :
     /\ ToSet(s) = Since(c, n)
     /\ \E dir \in [Runs -> 0..MaxEvents] :
          \A i, k \in DOMAIN s : i < k => Precedes(c, dir, s[i], s[k])}

\* GET /events or /events/<runId>: joining the clients and replaying is one synchronous
\* step of the hub. onopen resets the manager's retries and stops its polling.
Connect(c) ==
  /\ es[c] = "connecting" /\ up[At[c]]
  /\ es' = [es EXCEPT ![c] = "open"]
  /\ since' = [since EXCEPT ![c] = lastId[c]]
  /\ \E s \in Replays(c, lastId[c]) : wire' = [wire EXCEPT ![c] = s]
  /\ base' = [base EXCEPT ![c] = Len(got[c])]
  /\ retries' = [retries EXCEPT ![c] = 0] /\ polling' = [polling EXCEPT ![c] = FALSE]
  /\ UNCHANGED <<file, counter, up, lastId, got, breaks>>

\* closeServer ends and destroys the responses: what was written but not read is gone.
Stop(h) ==
  /\ up[h] /\ breaks < MaxBreaks /\ breaks' = breaks + 1
  /\ up' = [up EXCEPT ![h] = FALSE]
  /\ counter' = [counter EXCEPT ![h] = [r \in Runs |-> 0]]
  /\ LET hit == {c \in Clients : At[c] = h /\ es[c] = "open"}
     IN  /\ es' = [c \in Clients |-> IF c \in hit THEN "connecting" ELSE es[c]]
         /\ wire' = [c \in Clients |-> IF c \in hit THEN <<>> ELSE wire[c]]
  /\ UNCHANGED <<file, lastId, since, got, base, retries, polling>>

Start(h) == /\ ~up[h] /\ up' = [up EXCEPT ![h] = TRUE]
            /\ UNCHANGED <<fvars, cvars, breaks>>

----------------------------------------------------------------------------
(* The client *)

\* The browser dispatches the next frame; its id becomes the Last-Event-ID.
Dispatch(c) ==
  /\ es[c] = "open" /\ wire[c] # <<>>
  /\ got' = [got EXCEPT ![c] = Append(@, Head(wire[c]))]
  /\ lastId' = [lastId EXCEPT ![c] = Head(wire[c]).seq]
  /\ wire' = [wire EXCEPT ![c] = Tail(@)]
  /\ UNCHANGED <<fvars, up, es, since, base, retries, polling, breaks>>

\* The connection breaks and the browser itself reconnects (readyState CONNECTING).
Break(c) ==
  /\ es[c] = "open" /\ breaks < MaxBreaks /\ breaks' = breaks + 1
  /\ es' = [es EXCEPT ![c] = "connecting"] /\ wire' = [wire EXCEPT ![c] = <<>>]
  /\ UNCHANGED <<fvars, up, lastId, since, got, base, retries, polling>>

\* The browser gave up (readyState CLOSED): scheduleReconnect counts, polls from the
\* maxRetries-th failure on and drops the source.
GiveUp(c) ==
  /\ es[c] = "connecting" /\ ~up[At[c]]
  /\ es' = [es EXCEPT ![c] = "none"]
  /\ polling' = [polling EXCEPT ![c] = @ \/ retries[c] >= MaxRetries]
  /\ retries' = [retries EXCEPT ![c] = IF @ > MaxRetries THEN @ ELSE @ + 1]
  /\ UNCHANGED <<fvars, up, lastId, since, wire, got, base, breaks>>

\* retryTimer: a fresh EventSource has no Last-Event-ID and is sent everything again.
Reopen(c) ==
  /\ es[c] = "none"
  /\ es' = [es EXCEPT ![c] = "connecting"]
  /\ lastId' = [lastId EXCEPT ![c] = 0] /\ got' = [got EXCEPT ![c] = <<>>]
  /\ base' = [base EXCEPT ![c] = 0]
  /\ UNCHANGED <<fvars, up, since, wire, retries, polling, breaks>>

Next ==
  \/ \E h \in Hubs, r \in Runs : Publish(h, r)
  \/ \E h \in Hubs : Stop(h) \/ Start(h)
  \/ \E c \in Clients : Connect(c) \/ Dispatch(c) \/ Break(c) \/ GiveUp(c) \/ Reopen(c)

Spec == Init /\ [][Next]_vars

----------------------------------------------------------------------------
(* Properties *)

\* What the hub of c has sent or will find in the file for c.
Owed(c) == {e \in Stored : Watches(c, e.run) /\ e.seq > since[c] /\ e.by = At[c]}
OnThisConnection(c) == SubSeq(got[c], base[c] + 1, Len(got[c])) \o wire[c]

(* No event is lost or doubled on a connection: a connected client has been *)
(* sent every event its hub published, each once, except those numbered at  *)
(* or below the Last-Event-ID it came with. Lost for good are therefore     *)
(* only events of a run whose numbers lag behind another's, and those of a  *)
(* hub that shares its numbers with another.                                *)
NothingMissedAbove ==
  \A c \in Clients : es[c] = "open" =>
    /\ Owed(c) \subseteq ToSet(OnThisConnection(c))
    /\ IsInjective(OnThisConnection(c))

Writers(r) == {h \in Hubs : <<h, r>> \in Publishes}
HasOneWriter(r) == \E h \in Hubs : Writers(r) = {h}

(* A client of one run with one writer sees its log in order, from the      *)
(* beginning, without a gap or a repetition, across lost connections and    *)
(* restarts of the hub; only a fresh EventSource starts over.               *)
Sole == CHOOSE r \in Runs : HasOneWriter(r)
SoundReaders == {c \in Clients : Watch[c] = Sole /\ Writers(Sole) = {At[c]}}
Numbers(events) == [i \in DOMAIN events |-> events[i].seq]

Log == INSTANCE EventLog WITH
  Readers <- SoundReaders,
  log <- Numbers(file[Sole]),
  seen <- [c \in SoundReaders |-> Numbers(got[c])]
IsAnEventLog == Log!Spec
=============================================================================
