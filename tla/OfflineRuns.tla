----------------------------- MODULE OfflineRuns -----------------------------
(***************************************************************************)
(* Starting runs from the browser: the service worker's offline queue      *)
(* (webui/sw.ts, utils/sw-queue.ts, utils/sw-strategies.ts), the client    *)
(* (api/client.ts) and the handlers of the Go proxy they talk to.          *)
(*                                                                         *)
(* Every POST under /api/runs that is not answered with success is stored  *)
(* and answered 202; a drain sends what it read of the store to POST       *)
(* /api/runs, whatever the URL was, and deletes what succeeded. Three      *)
(* events start a drain and nothing keeps two of them apart.               *)
(***************************************************************************)
EXTENDS Naturals, Sequences, FiniteSets

CONSTANTS Requests, Drains,
          Kind    \* [Requests -> {"run", "bad", "say"}]: a run, one the server refuses, a
                  \* message of the discuss thread

VARIABLES
  online, page,  \* [Requests -> state of the page's request]
  store,     \* SUBSET Requests: the object store of IndexedDB
  starts,    \* [Requests -> 0..2]: runs it started, 2 for more than one
  todo,      \* [Drains -> SUBSET Requests]: entries the drain has read and not sent, {} for idle
  sending,   \* [Drains -> request sent and to be deleted, or "none"]
  unheard,   \* history: requests that were carried out without the answer arriving
  shared     \* history: requests two drains had read at once

vars == <<online, page, store, starts, todo, sending, unheard, shared>>

TypeOK ==
  /\ online \in BOOLEAN /\ page \in [Requests -> {"new", "sent", "queued", "ok"}]
  /\ store \subseteq Requests /\ starts \in [Requests -> 0..2]
  /\ todo \in [Drains -> SUBSET Requests] /\ sending \in [Drains -> Requests \cup {"none"}]
  /\ unheard \subseteq Requests /\ shared \subseteq Requests

Init ==
  /\ online = TRUE /\ page = [q \in Requests |-> "new"] /\ store = {}
  /\ starts = [q \in Requests |-> 0] /\ todo = [d \in Drains |-> {}]
  /\ sending = [d \in Drains |-> "none"] /\ unheard = {} /\ shared = {}

\* What the proxy does with a request: handleCreateRun starts a run or refuses it, a message
\* is posted at its own URL and is a run without a prompt at the other.
Started(q) == [starts EXCEPT ![q] = IF @ = 2 THEN 2 ELSE @ + 1]
Succeeds(q, replayed) == Kind[q] = "run" \/ (Kind[q] = "say" /\ ~replayed)

\* chooseStrategy, handleRunCreate: known to be offline, the request goes to the store.
Submit(q) ==
  /\ page[q] = "new"
  /\ IF online THEN page' = [page EXCEPT ![q] = "sent"] /\ UNCHANGED store
     ELSE page' = [page EXCEPT ![q] = "queued"] /\ store' = store \cup {q}
  /\ UNCHANGED <<online, starts, todo, sending, unheard, shared>>

\* The answer of the server; if it is no success, or does not arrive, the request is stored.
Answer(q, executed, heard) ==
  /\ page[q] = "sent" /\ (heard => executed)
  /\ LET good == Succeeds(q, FALSE) /\ executed
     IN  /\ starts' = IF good /\ Kind[q] = "run" THEN Started(q) ELSE starts
         /\ page' = [page EXCEPT ![q] = IF good /\ heard THEN "ok" ELSE "queued"]
         /\ store' = IF good /\ heard THEN store ELSE store \cup {q}
         /\ unheard' = IF good /\ ~heard THEN unheard \cup {q} ELSE unheard
  /\ UNCHANGED <<online, todo, sending, shared>>

GoOffline == online /\ online' = FALSE /\ UNCHANGED <<page, store, starts, todo, sending, unheard, shared>>
GoOnline == ~online /\ online' = TRUE /\ UNCHANGED <<page, store, starts, todo, sending, unheard, shared>>

\* replayQueue, for `online`, DRAIN_QUEUE or sync: getAll.
DrainStart(d) ==
  /\ todo[d] = {} /\ sending[d] = "none" /\ store # {}
  /\ todo' = [todo EXCEPT ![d] = store]
  /\ shared' = shared \cup {q \in store : \E e \in Drains \ {d} : q \in todo[e] \cup {sending[e]}}
  /\ UNCHANGED <<online, page, store, starts, sending, unheard>>

(* Mutant: the entry is deleted whatever the answer. *)
KeepsNothing(q, executed, heard) == FALSE

\* An entry stays unless the answer was a success.
Keeps(q, executed, heard) == ~(executed /\ heard /\ Succeeds(q, TRUE))

DrainSend(d, q, executed, heard) ==
  /\ sending[d] = "none" /\ q \in todo[d] /\ (heard => executed) /\ (executed => online)
  /\ todo' = [todo EXCEPT ![d] = @ \ {q}]
  /\ starts' = IF executed /\ Kind[q] = "run" THEN Started(q) ELSE starts
  /\ unheard' = IF executed /\ ~heard /\ Succeeds(q, TRUE) THEN unheard \cup {q} ELSE unheard
  /\ sending' = IF Keeps(q, executed, heard) THEN sending ELSE [sending EXCEPT ![d] = q]
  /\ UNCHANGED <<online, page, store, shared>>

\* deleteQueued, a transaction of its own.
DrainDelete(d) ==
  /\ sending[d] # "none" /\ store' = store \ {sending[d]}
  /\ sending' = [sending EXCEPT ![d] = "none"]
  /\ UNCHANGED <<online, page, starts, todo, unheard, shared>>

\* The browser ends the worker.
WorkerDies ==
  /\ \E d \in Drains : todo[d] # {} \/ sending[d] # "none"
  /\ unheard' = unheard \cup {sending[d] : d \in {e \in Drains : sending[e] # "none"}}
  /\ todo' = [d \in Drains |-> {}] /\ sending' = [d \in Drains |-> "none"]
  /\ UNCHANGED <<online, page, store, starts, shared>>

Next ==
  \/ \E q \in Requests : Submit(q) \/ \E x, h \in BOOLEAN : Answer(q, x, h)
  \/ \E d \in Drains : DrainStart(d) \/ DrainDelete(d)
                       \/ \E q \in Requests, x, h \in BOOLEAN : DrainSend(d, q, x, h)
  \/ GoOffline \/ GoOnline \/ WorkerDies

Spec == Init /\ [][Next]_vars

(* What the page was told ("queued", "will start when online") holds: the    *)
(* request is stored or was carried out. A run starts twice only if an       *)
(* answer was lost or two drains overlapped. Whatever else is stored - a     *)
(* request the server refuses, a message for the thread - stays for ever.    *)
QueuedIsKept ==
  /\ \A q \in Requests : page[q] = "queued" => q \in store \/ starts[q] > 0
  /\ \A q \in Requests : starts[q] > 1 => q \in unheard \cup shared
  /\ \A q \in Requests : page[q] = "queued" /\ Kind[q] # "run" => q \in store
=============================================================================
