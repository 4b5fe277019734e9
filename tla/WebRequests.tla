---------------------------- MODULE WebRequests ----------------------------
(***************************************************************************)
(* The requests of `at web': the handlers of the Go proxy                  *)
(* (web-server/internal/proxy), which validate a request and run either    *)
(* `at bridge <resource> <verb>' for its one-line envelope or `at' itself, *)
(* detached; and the verbs they call (src/bridge, src/commands/bridge.ts). *)
(*                                                                         *)
(* All requests are about one run, whose agent and supervisor go on as     *)
(* they like.  A child may be killed between any two of its steps, by the  *)
(* timeout of the proxy or because its client left; what it printed before *)
(* counts.  Not here: the toggles of agents (WebToggles) and the events.   *)
(***************************************************************************)
EXTENDS Naturals, FiniteSets

CONSTANTS Requests, Kinds   \* the requests, and what they may ask for

VARIABLES
  agent,    \* the run's process: "alive", "signalled" and still running, or "dead"
  record,   \* its status in runs.jsonl, "none" once pruned
  kind,     \* [Requests -> what it asks for]
  phase,    \* [Requests -> where its handler or its child is]
  saw,      \* [Requests -> BOOLEAN]: a stop found the agent alive, which it will report
  out,      \* [Requests -> the envelope its child printed: "none", "OK" or an error code]
  answer,   \* [Requests -> HTTP status, 0 before the answer]
  did       \* [Requests -> what it changed] (history)

world == <<agent, record>>
vars == <<world, kind, phase, saw, out, answer, did>>

Init ==
  /\ agent \in {"alive", "dead"}
  /\ record \in IF agent = "alive" THEN {"running"} ELSE {"running", "done", "failed", "none"}
  /\ kind = [q \in Requests |-> "none"] /\ phase = [q \in Requests |-> "new"]
  /\ saw = [q \in Requests |-> FALSE] /\ out = [q \in Requests |-> "none"]
  /\ answer = [q \in Requests |-> 0] /\ did = [q \in Requests |-> {}]

\* The child is at work: started, past its first look, past its second, past the signal.
Working == {"child", "found", "aimed", "signalled"}

At(q, p, ks) == phase[q] = p /\ kind[q] \in ks
Goes(q, p) == phase' = [phase EXCEPT ![q] = p]
Does(q, e) == did' = [did EXCEPT ![q] = @ \cup {e}]
Prints(q, code) == out' = [out EXCEPT ![q] = code]
Answers(q, status) == Goes(q, "answered") /\ answer' = [answer EXCEPT ![q] = status]

(* Mutant: a lock timeout is an error of the caller. *)
ConflictIsInvalid(code) ==
  CASE code = "OK" -> 200 [] code \in {"USAGE", "CONFLICT"} -> 400
    [] code = "NOT_FOUND" -> 404 [] OTHER -> 500

HTTPStatus(code) ==
  CASE code = "OK" -> 200 [] code = "USAGE" -> 400 [] code = "NOT_FOUND" -> 404
    [] code = "CONFLICT" -> 409 [] OTHER -> 500

-----------------------------------------------------------------------------
\* dispatchAPI: creating a run and storing settings is the handler's own work, the rest
\* begins with a bridge call.
Route(k) == IF k \in {"create", "settings"} THEN "handler" ELSE "child"

Send(q, k) ==
  /\ phase[q] = "new" /\ Goes(q, Route(k)) /\ kind' = [kind EXCEPT ![q] = k]
  /\ UNCHANGED <<world, saw, out, answer, did>>

\* A body that is no JSON object, a run without a prompt or with a wrong tier, a message
\* without text: refused before anything is run.
Refuse(q, k) ==
  /\ phase[q] = "new" /\ k \in {"create", "say", "answer", "settings", "list"}
  /\ kind' = [kind EXCEPT ![q] = k] /\ Answers(q, 400)
  /\ UNCHANGED <<world, saw, out, did>>

\* SpawnAt: `at' is started detached, of whatever becomes of it nothing is known here; or it
\* cannot be started.
Spawn(q) ==
  /\ At(q, "handler", {"create", "retry"})
  /\ \/ Answers(q, 202) /\ Does(q, "start")
     \/ Answers(q, 502) /\ UNCHANGED did
  /\ UNCHANGED <<world, kind, saw, out>>

\* handleSettingsPut: a temporary file, renamed over the settings when all of it is written.
Store(q) ==
  /\ At(q, "handler", {"settings"})
  /\ \/ Answers(q, 200) /\ Does(q, "store")
     \/ Answers(q, 500) /\ UNCHANGED did
  /\ UNCHANGED <<world, kind, saw, out>>

-----------------------------------------------------------------------------
\* The verbs.  A run must be there to be read; the log of a run must be there as well.
Get(q) ==
  /\ At(q, "child", {"retry", "log"}) /\ out[q] = "none"
  /\ Prints(q, IF record = "none" THEN "NOT_FOUND" ELSE "OK")
  /\ UNCHANGED <<world, kind, phase, saw, answer, did>>

List(q) ==
  /\ At(q, "child", {"list", "stats"}) /\ out[q] = "none"
  /\ \E code \in {"OK", "INTERNAL"} : Prints(q, code)
  /\ UNCHANGED <<world, kind, phase, saw, answer, did>>

\* A message goes to the thread of whatever run the id names, if there is one or not.
Say(q) ==
  /\ At(q, "child", {"say"}) /\ out[q] = "none" /\ "post" \notin did[q]
  /\ Does(q, "post") /\ UNCHANGED <<world, kind, phase, saw, out, answer>>
Said(q) ==
  /\ At(q, "child", {"say"}) /\ out[q] = "none" /\ "post" \in did[q]
  /\ Prints(q, "OK") /\ UNCHANGED <<world, kind, phase, saw, answer, did>>

\* The proxy names the question replyTo, the verb requires qid.
Reject(q) ==
  /\ At(q, "child", {"answer"}) /\ out[q] = "none"
  /\ Prints(q, "USAGE") /\ UNCHANGED <<world, kind, phase, saw, answer, did>>

\* runs stop: the verb looks up the run and whether its process lives ...
Look(q) ==
  /\ At(q, "child", {"stop", "kill"}) /\ out[q] = "none"
  /\ IF record = "none" THEN Prints(q, "NOT_FOUND") /\ UNCHANGED <<phase, saw>>
     ELSE /\ Goes(q, "found") /\ saw' = [saw EXCEPT ![q] = agent # "dead"]
          /\ UNCHANGED out
  /\ UNCHANGED <<world, kind, answer, did>>

\* ... and stopRun looks again; a dead process is left alone ...
LookAgain(q) ==
  /\ phase[q] = "found" /\ out[q] = "none"
  /\ IF record = "none" THEN Prints(q, "NOT_FOUND") /\ UNCHANGED phase
     ELSE IF agent = "dead" THEN Prints(q, "OK") /\ UNCHANGED phase
     ELSE Goes(q, "aimed") /\ UNCHANGED out
  /\ UNCHANGED <<world, kind, saw, answer, did>>

\* ... one that is gone by now cannot be signalled, which the verb reports as NOT_FOUND ...
Signal(q) ==
  /\ phase[q] = "aimed" /\ out[q] = "none"
  /\ IF agent = "dead" THEN Prints(q, "NOT_FOUND") /\ UNCHANGED <<agent, phase, did>>
     ELSE /\ agent' = IF kind[q] = "kill" THEN "dead" ELSE "signalled"
          /\ Goes(q, "signalled") /\ Does(q, "signal") /\ UNCHANGED out
  /\ UNCHANGED <<record, kind, saw, answer>>

\* ... and the record is marked, or its lock was not to be had.
Mark(q) ==
  /\ phase[q] = "signalled" /\ out[q] = "none"
  /\ \/ /\ record' = IF record = "none" THEN "none" ELSE "failed"
        /\ Does(q, "mark") /\ Prints(q, "OK")
     \/ Prints(q, "CONFLICT") /\ UNCHANGED <<record, did>>
  /\ UNCHANGED <<agent, kind, phase, saw, answer>>

-----------------------------------------------------------------------------
\* What the handlers make of an envelope: an error becomes its status.
Printed(q, ks) == phase[q] \in Working /\ kind[q] \in ks /\ out[q] # "none"
               /\ UNCHANGED <<world, kind, saw, out, did>>
AnswersBy(q, statuses) ==
  \E s \in IF out[q] = "OK" THEN statuses ELSE {HTTPStatus(out[q])} : Answers(q, s)

\* The run is there, and is started again unless no prompt is stored.
HandleRetryRun(q) ==
  /\ Printed(q, {"retry"})
  /\ \/ AnswersBy(q, {502})
     \/ out[q] = "OK" /\ Goes(q, "handler") /\ UNCHANGED answer
HandleDeleteRun(q) == Printed(q, {"stop", "kill"}) /\ AnswersBy(q, {200})
\* The log file is read by the proxy, if it is there.
HandleRunLog(q) == Printed(q, {"log"}) /\ AnswersBy(q, {200, 404})
HandleDiscuss(q) == Printed(q, {"say", "answer"}) /\ AnswersBy(q, {202})
\* A second call counts the agents; if that fails they are not shown.
HandleStats(q) == Printed(q, {"stats"}) /\ AnswersBy(q, {200})
BridgePass(q) == Printed(q, {"list"}) /\ AnswersBy(q, {200})

Reply(q) == \/ HandleRetryRun(q) \/ HandleDeleteRun(q) \/ HandleRunLog(q)
            \/ HandleDiscuss(q) \/ HandleStats(q) \/ BridgePass(q)

\* Call: the child is killed after the timeout, or when the client has left; without an
\* envelope the answer is 502.
Kill(q) ==
  /\ phase[q] \in Working /\ out[q] = "none"
  /\ Answers(q, 502)
  /\ UNCHANGED <<world, kind, saw, out, did>>

\* The run goes on: its agent ends, its supervisor records that, its record is pruned.
AgentEnds == agent # "dead" /\ agent' = "dead"
             /\ UNCHANGED <<record, kind, phase, saw, out, answer, did>>
Supervise == agent = "dead" /\ record = "running" /\ record' \in {"done", "failed"}
             /\ UNCHANGED <<agent, kind, phase, saw, out, answer, did>>
Prune == record # "none" /\ record' = "none"
         /\ UNCHANGED <<agent, kind, phase, saw, out, answer, did>>

Verb(q) == Get(q) \/ List(q) \/ Say(q) \/ Said(q) \/ Reject(q) \/ Look(q) \/ LookAgain(q)
           \/ Signal(q) \/ Mark(q)

Next == \/ \E q \in Requests :
             \/ \E k \in Kinds : Send(q, k) \/ Refuse(q, k)
             \/ Spawn(q) \/ Store(q) \/ Verb(q) \/ Reply(q) \/ Kill(q)
        \/ AgentEnds \/ Supervise \/ Prune

-----------------------------------------------------------------------------
TypeOK ==
  /\ agent \in {"alive", "signalled", "dead"} /\ record \in {"running", "done", "failed", "none"}
  /\ kind \in [Requests -> Kinds \cup {"none"}]
  /\ phase \in [Requests -> Working \cup {"new", "handler", "answered"}]
  /\ saw \in [Requests -> BOOLEAN]
  /\ out \in [Requests -> {"none", "OK", "USAGE", "NOT_FOUND", "CONFLICT", "INTERNAL"}]
  /\ answer \in [Requests -> {0, 200, 202, 400, 404, 409, 500, 502}]
  /\ did \in [Requests -> SUBSET {"start", "store", "post", "signal", "mark"}]

\* An answer tells what became of the request, whatever the run does meanwhile: one that
\* refuses or does not find the run changed nothing; a conflict means that the agent was
\* signalled and this request did not record it; success means that what was asked for was
\* done once, and of a stop that the agent has at least its signal; a start that failed
\* started nothing, so that it may be sent again.  (Any other failure says nothing: a child
\* killed late has done its work.)
AnswersAreTrue ==
  \A q \in Requests :
    /\ answer[q] \in {400, 404} => did[q] = {}
    /\ answer[q] = 409 => did[q] = {"signal"}
    /\ answer[q] = 202 => did[q] = IF kind[q] = "say" THEN {"post"} ELSE {"start"}
    /\ answer[q] = 200 /\ kind[q] = "settings" => did[q] = {"store"}
    /\ answer[q] = 200 /\ kind[q] \in {"stop", "kill"} =>
         /\ agent # "alive"
         /\ saw[q] /\ did[q] = {} => agent = "dead"
    /\ answer[q] = 502 /\ kind[q] \in {"create", "retry"} => did[q] = {}
=============================================================================
